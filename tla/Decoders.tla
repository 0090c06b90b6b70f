------------------------------ MODULE Decoders ------------------------------
(***************************************************************************)
(* The decoder plug-ins decoder-ook, decoder-pwm and decoder-morse.  What  *)
(* the demodulation makes of the samples is taken as ideal: the level is   *)
(* over the threshold exactly while the carrier is sent, so that a sample  *)
(* is a Boolean.  A chunk is a sequence of samples, and decoding one gives *)
(* the new state of the decoder and a sequence of pairs of a character and *)
(* the position in the chunk at which it was recognised.  The table of    *)
(* decoder-morse is that of encoder-morse.                                 *)
(***************************************************************************)
EXTENDS Encoders, SequencesExt

Unknown == 63                 \* '?'
MorseSymbolsPerCharMax == 5   \* MORSE_SYMBOLS_PER_CHAR_MAX

\* round(a / b), halves upwards.
Rounded(a, b) == (2 * a + b) \div (2 * b)

(***************************************************************************)
(* decoder-ook looks for a start bit, then tests each bit from one sample  *)
(* before it: as soon as three quarters of its samples are high or more    *)
(* than the rest are low.  cur and next are positions in the chunk, the    *)
(* one in the next chunk when next is not after cur. The lengths are whole *)
(* (samples_per_bit_fraction is 0 always) and auto_resynchronization is 0. *)
(***************************************************************************)
HiThreshold(S) == (3 * S) \div 4
NotHiThreshold(S) == S - HiThreshold(S)

OokInitialize ==
  [found |-> FALSE, cur |-> 1, next |-> 1, hi |-> 0, lo |-> 0, bits |-> 0, data |-> 0]

Wrap(position, chunk) == IF position > Len(chunk) THEN position - Len(chunk) ELSE position

\* Where the start bit is recognised from d on: 0 if not in this chunk.
StartFound(S, chunk, d) ==
  SelectInSeq([i \in 1..Len(chunk) |->
    /\ i >= d.cur
    /\ LET needed == HiThreshold(S) - d.hi
       IN IF i - d.cur + 1 >= HiThreshold(S)
          THEN \A k \in i - HiThreshold(S) + 1..i : chunk[k]
          ELSE i - d.cur + 1 >= needed /\ \A k \in d.cur..i : chunk[k]], LAMBDA x : x)

\* The high samples at the end of the chunk, which may begin a start bit.
TrailingHi(chunk, d) ==
  LET low == {i \in d.cur..Len(chunk) : ~ chunk[i]}
  IN IF low = {} THEN d.hi + Len(chunk) - d.cur + 1
     ELSE Len(chunk) - CHOOSE i \in low : \A j \in low : j <= i

OokSearch(S, chunk, d) ==
  LET at == StartFound(S, chunk, d)
      first == at + NotHiThreshold(S)
  IN IF at = 0 THEN [dec |-> [d EXCEPT !.hi = TrailingHi(chunk, d), !.cur = 1],
                     chunkOver |-> TRUE]
     ELSE [dec |-> [d EXCEPT !.found = TRUE, !.hi = 0, !.cur = Wrap(first, chunk),
                             !.next = Wrap(Wrap(first, chunk) + S, chunk)],
           chunkOver |-> first > Len(chunk)]

\* One sample of a bit: [decided, value, hi, lo].
OokSampleOfBit(S, high, d) ==
  [decided |-> IF high THEN d.hi + 1 = HiThreshold(S) ELSE d.lo + 1 = NotHiThreshold(S),
   value |-> IF high THEN 1 ELSE 0,
   hi |-> IF high THEN d.hi + 1 ELSE d.hi,
   lo |-> IF high THEN d.lo ELSE d.lo + 1]

\* Mutant: the counters of the bit are not reset.
OokBitFoundKeepsCounts(S, chunk, d, value) ==
  LET complete == d.bits + 1 = 8
  IN [dec |-> [found |-> ~ complete, cur |-> d.next, next |-> Wrap(d.next + S, chunk),
               hi |-> d.hi, lo |-> d.lo,
               bits |-> IF complete THEN 0 ELSE d.bits + 1,
               data |-> IF complete THEN 0 ELSE 2 * d.data + value],
      out |-> IF complete THEN <<<<2 * d.data + value, d.cur>>>> ELSE <<>>,
      chunkOver |-> d.next < d.cur]

\* The bit is decided: on to the next one; the eighth completes a character,
\* after which a start bit is looked for again (data_per_frame is 1).
OokBitFound(S, chunk, d, value) ==
  LET complete == d.bits + 1 = 8
  IN [dec |-> [found |-> ~ complete, cur |-> d.next, next |-> Wrap(d.next + S, chunk),
               hi |-> 0, lo |-> 0,
               bits |-> IF complete THEN 0 ELSE d.bits + 1,
               data |-> IF complete THEN 0 ELSE 2 * d.data + value],
      out |-> IF complete THEN <<<<2 * d.data + value, d.cur>>>> ELSE <<>>,
      chunkOver |-> d.next < d.cur]

\* One turn of the loop; a full output buffer ends the decoding of the chunk
\* where it stands.  A run is a record [dec, out, over].
OokTurn(S, capacity, chunk, run) ==
  LET d == run.dec
      search == OokSearch(S, chunk, d)
      s == OokSampleOfBit(S, chunk[d.cur], d)
      bit == OokBitFound(S, chunk, d, s.value)
      text == run.out \o bit.out
  IN CASE run.over -> run
       [] ~ run.over /\ ~ d.found ->
            [run EXCEPT !.dec = search.dec, !.over = search.chunkOver]
       [] ~ run.over /\ d.found /\ s.decided ->
            [dec |-> bit.dec, out |-> text,
             over |-> bit.chunkOver \/ (bit.out # <<>> /\ Len(text) = capacity)]
       [] OTHER ->
            [run EXCEPT !.dec = [d EXCEPT !.hi = s.hi, !.lo = s.lo, !.cur = Wrap(@ + 1, chunk)],
                        !.over = d.cur = Len(chunk)]

\* So many turns, in halves to keep the recursion shallow.
RECURSIVE OokTurns(_, _, _, _, _)
OokTurns(turns, S, capacity, chunk, run) ==
  IF turns = 1 \/ run.over THEN OokTurn(S, capacity, chunk, run)
  ELSE LET half == turns \div 2
       IN After(OokTurns(half, S, capacity, chunk, run),
                LAMBDA r : OokTurns(turns - half, S, capacity, chunk, r))

\* Between two turns that search there is one that does not: two for each
\* sample are enough.
OokParse(S, capacity, chunk, d) ==
  OokTurns(2 * Len(chunk), S, capacity, chunk, [dec |-> d, out |-> <<>>, over |-> FALSE])

(***************************************************************************)
(* decoder-pwm counts the samples from the first high one until the level  *)
(* has been low for a bit, and the character is the number of bits.  The   *)
(* size of the output buffer is not looked at, here and in decoder-morse.  *)
(***************************************************************************)
PwmInitialize == [with |-> 0, without |-> 0]

StopSamples(S) == S
Printable(c) == c >= 32 /\ c <= 255

PwmCharacter(S, d) ==
  LET c == Rounded(d.with - StopSamples(S), S)
  IN IF 2 * d.with >= S /\ Printable(c) THEN <<c>> ELSE <<>>

PwmHear(S, acc, high) ==
  LET d == acc.dec
      longer == [with |-> d.with + 1, without |-> IF high THEN 0 ELSE d.without + 1]
  IN CASE d.with = 0 /\ high -> [acc EXCEPT !.dec = [d EXCEPT !.with = 1]]
       [] d.with = 0 /\ ~ high -> acc
       [] d.with > 0 /\ longer.without >= StopSamples(S) ->
            [acc EXCEPT !.dec = PwmInitialize, !.out = @ \o PwmCharacter(S, longer)]
       [] OTHER -> [acc EXCEPT !.dec = longer]

(***************************************************************************)
(* decoder-morse measures the beeps and the gaps; the spacings tolerate a  *)
(* fifth.  heard is incoming_data_detected.                                *)
(***************************************************************************)
MorseInitialize == [with |-> 0, without |-> 0, beeps |-> <<>>, heard |-> FALSE]

BetweenBeeps(S) == Rounded(8 * S, 10)
\* Mutant: the tolerance of the words is taken for the characters.
BetweenCharsAsWords(S) == Rounded(56 * S, 10)
BetweenChars(S) == Rounded(24 * S, 10)
BetweenWords(S) == Rounded(56 * S, 10)

\* A beep of n samples adds to the code; one too short is ignored.
BeepOf(S, n) ==
  CASE 2 * n >= 5 * S -> <<"-">> [] 2 * n < 5 * S /\ 2 * n >= S -> <<".">> [] OTHER -> <<>>

MorseCharacter(beeps) ==
  LET matching == {c \in DOMAIN MorseCode : MorseCode[c] = beeps}
  IN IF matching = {} THEN Unknown ELSE CHOOSE c \in matching : \A k \in matching : c <= k

\* Silence: the end of a character, then of a word.
MorseSilence(S, acc) ==
  LET d == [acc.dec EXCEPT !.without = @ + 1]
  IN CASE d.beeps # <<>> /\ d.without >= BetweenChars(S) ->
            [acc EXCEPT !.dec = [d EXCEPT !.beeps = <<>>],
                        !.out = Append(@, MorseCharacter(d.beeps))]
       [] d.beeps = <<>> /\ d.without >= BetweenWords(S) ->
            [acc EXCEPT !.dec = [d EXCEPT !.without = 0, !.heard = FALSE],
                        !.out = IF d.heard THEN Append(@, Space) ELSE @]
       [] OTHER -> [acc EXCEPT !.dec = d]

\* The end of a beep; a sixth one in a character makes it forgotten.
MorseBeepEnds(S, d) ==
  [d EXCEPT !.with = 0, !.heard = TRUE,
            !.beeps = IF Len(@) < MorseSymbolsPerCharMax
                      THEN @ \o BeepOf(S, d.with - BetweenBeeps(S)) ELSE <<>>]

MorseHear(S, acc, high) ==
  LET d == acc.dec
      longer == [d EXCEPT !.with = @ + 1, !.without = IF high THEN 0 ELSE @ + 1]
  IN CASE d.with = 0 /\ high -> [acc EXCEPT !.dec = [d EXCEPT !.with = 1]]
       [] d.with = 0 /\ ~ high -> MorseSilence(S, acc)
       [] d.with > 0 /\ ~ high /\ longer.without >= BetweenBeeps(S) ->
            [acc EXCEPT !.dec = MorseBeepEnds(S, longer)]
       [] OTHER -> [acc EXCEPT !.dec = longer]

(***************************************************************************)
(* decoder_initialize and decoder_parse_next_samples; kind is the plug-in. *)
(***************************************************************************)
DecoderInitialize(kind) ==
  CASE kind = "ook" -> OokInitialize
    [] kind = "pwm" -> PwmInitialize
    [] kind = "morse" -> MorseInitialize

\* The samples from first to end, in halves; the characters heard with each
\* get its position.
RECURSIVE HearAll(_, _, _, _, _, _)
HearAll(kind, S, chunk, first, end, d) ==
  IF first = end
  THEN LET silent == [dec |-> d, out |-> <<>>]
           one == IF kind = "pwm" THEN PwmHear(S, silent, chunk[first])
                  ELSE MorseHear(S, silent, chunk[first])
       IN [dec |-> one.dec, out |-> [k \in 1..Len(one.out) |-> <<one.out[k], first>>]]
  ELSE LET middle == (first + end) \div 2
           Rest(left) ==
             LET right == HearAll(kind, S, chunk, middle + 1, end, left.dec)
             IN [dec |-> right.dec, out |-> left.out \o right.out]
       IN After(HearAll(kind, S, chunk, first, middle, d), Rest)

ParseNextSamples(kind, S, capacity, chunk, d) ==
  IF kind = "ook" THEN OokParse(S, capacity, chunk, d)
  ELSE HearAll(kind, S, chunk, 1, Len(chunk), d)
=============================================================================
