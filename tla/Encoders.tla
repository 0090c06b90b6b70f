------------------------------ MODULE Encoders ------------------------------
(***************************************************************************)
(* The encoder plug-ins that send text by keying a carrier: encoder-ook,   *)
(* encoder-pwm, encoder-morse and the stream "ook_hi" of encoder-wave.     *)
(*                                                                         *)
(* A sample is a record [on, mark]: on tells whether the carrier is sent   *)
(* (the value of the sine, its amplitude and offset are left out) and mark *)
(* is the character that begins with the sample, None for most samples.    *)
(* Characters are their codes.                                             *)
(*                                                                         *)
(* The settings s of an encoder are a record: S, samples_per_bit (or per   *)
(* dot); text, the string of the setting message without its terminator;   *)
(* length, message_length; behind, what the memory holds behind a string   *)
(* that the encoder reads past (of the language it is undefined).  That    *)
(* string is the message in encoder-ook, terminator included, and an empty *)
(* entry of the table, as beeps up to the next terminator, in              *)
(* encoder-morse.                                                          *)
(***************************************************************************)
EXTENDS Integers, Sequences

CONSTANTS
  GuardBits,     \* GUARD_BITS of encoder-ook.c: 32
  GuardSamples,  \* GUARD_SAMPLES of encoder-pwm.c: 1000
  IndexRange,    \* the values of message_index, a uint16_t: 2^16
  MorseCode      \* the entries of morse_table in use: character |-> beeps

ASSUME EncodersAssumption ==
  GuardBits \in Nat /\ GuardSamples \in Nat \ {0} /\ IndexRange \in Nat \ {0}

None == -1
Never == -1                  \* sample_next = (uint32_t) -1
StartBit == -1               \* bit_index = 0xFF: incremented it is 0
CodeBits == 8
Space == 32

\* The result of a step that takes the whole value of another one (bound by a
\* set, the value is evaluated before the step).
After(value, Step(_)) == CHOOSE r \in {Step(v) : v \in {value}} : TRUE

\* The bits of a character are sent from the most significant one on.
Bit(c, b) == (c \div 2 ^ (CodeBits - 1 - b)) % 2 = 1

(***************************************************************************)
(* encoder-ook: a start bit, eight bits and GuardBits idle ones.  counter  *)
(* is kept modulo S.  The length of the message is set with the setting    *)
(* only: an encoder with its default message has the length 0, and goes on *)
(* behind the end of the text until message_index is 0 again.              *)
(***************************************************************************)
OokReset == [counter |-> 0, bit |-> StartBit, index |-> 1, guard |-> 0]

CharAt(s, index) == (s.text \o s.behind)[index]

OokSample(s, e) ==
  [on |-> e.guard = 0 /\ (e.bit = StartBit \/ Bit(CharAt(s, e.index), e.bit)),
   mark |-> IF e.guard = 0 /\ e.bit = StartBit /\ e.counter = 0
            THEN CharAt(s, e.index) ELSE None]

\* index is message_index + 1.
Following(length, index) ==
  IF index % IndexRange = length THEN 1 ELSE (index % IndexRange) + 1

\* At the end of a bit.
OokNextBit(s, e) ==
  CASE e.guard > 0 -> [e EXCEPT !.guard = @ - 1]
    [] e.guard = 0 /\ e.bit < CodeBits - 1 -> [e EXCEPT !.bit = @ + 1]
    [] OTHER -> [e EXCEPT !.bit = StartBit, !.guard = GuardBits,
                          !.index = Following(s.length, @)]

OokStep(s, e) ==
  IF e.counter + 1 = s.S THEN OokNextBit(s, [e EXCEPT !.counter = 0])
  ELSE [e EXCEPT !.counter = @ + 1]

(***************************************************************************)
(* The stream ook_hi: no guard; the zero characters of its fixed text are  *)
(* silent instead.                                                         *)
(***************************************************************************)
HiMessage == <<72, 0, 0, 0, 105>> \o [i \in 1..10 |-> 0]

HiSample(e) ==
  LET c == HiMessage[e.index]
  IN [on |-> c # 0 /\ (e.bit = StartBit \/ Bit(c, e.bit)),
      mark |-> IF c # 0 /\ e.bit = StartBit /\ e.counter = 0 THEN c ELSE None]

HiStep(s, e) ==
  CASE e.counter + 1 < s.S -> [e EXCEPT !.counter = @ + 1]
    [] e.counter + 1 = s.S /\ e.bit < CodeBits - 1 ->
         [e EXCEPT !.counter = 0, !.bit = @ + 1]
    [] OTHER -> [e EXCEPT !.counter = 0, !.bit = StartBit,
                          !.index = Following(Len(HiMessage), @)]

(***************************************************************************)
(* encoder-pwm: each character is a pulse as many bits long as its code.   *)
(* loop_message is no setting and stays 0: the message is sent once.       *)
(***************************************************************************)
PwmReset ==
  [counter |-> 0, next |-> 0, guard |-> GuardSamples, index |-> 0, ended |-> FALSE]

PwmSample(s, e) ==
  [on |-> e.guard = 0,
   mark |-> IF e.guard = 0 /\ e.counter = 0 THEN s.text[e.index] ELSE None]

\* The guard is over: the next character, or the end of the message.
PwmNextChar(s, e) ==
  IF e.index = s.length
  THEN [e EXCEPT !.index = 1, !.ended = TRUE, !.guard = 2 ^ 16 - 1,
                 !.counter = 0, !.next = s.S * s.text[1]]
  ELSE [e EXCEPT !.index = @ + 1, !.guard = 0,
                 !.counter = 0, !.next = s.S * s.text[e.index + 1]]

PwmStep(s, e) ==
  CASE e.guard = 0 -> [e EXCEPT !.counter = @ + 1,
                                !.guard = IF e.counter + 1 = e.next
                                          THEN GuardSamples ELSE 0]
    [] e.guard > 0 /\ e.ended -> e
    [] e.guard = 1 /\ ~ e.ended -> PwmNextChar(s, e)
    [] OTHER -> [e EXCEPT !.guard = @ - 1]

(***************************************************************************)
(* encoder-morse: a state machine that moves when sample_counter reaches   *)
(* sample_next.  beeps is the rest of the code of the current character,   *)
(* <<>> both for none (NULL) and for one that is over.  Characters beyond  *)
(* the table, lower-case letters among them, are pauses of a               *)
(* word.  Those it has an empty string for are no pause: a dot is sent     *)
(* before the end of the string is seen, and then what is behind it.       *)
(***************************************************************************)
MorseReset ==
  [counter |-> 0, next |-> 0, pause |-> TRUE, beeps |-> <<>>, index |-> 1]

EmptyEntry(c) == c \in DOMAIN MorseCode /\ MorseCode[c] = <<>>

\* The beeps sent for a character, <<>> for a pause.
CodeOf(s, c) ==
  CASE c \notin DOMAIN MorseCode -> <<>>
    [] EmptyEntry(c) -> <<".">> \o s.behind
    [] OTHER -> MorseCode[c]

BeepLength(s, beep) == IF beep = "-" THEN 3 * s.S ELSE s.S

\* After a pause, the character to send: the message is sent once.
MorseNextChar(s, e) ==
  IF e.index > s.length THEN [e EXCEPT !.next = Never, !.beeps = <<>>]
  ELSE [e EXCEPT !.index = @ + 1, !.next = 7 * s.S, !.beeps = CodeOf(s, s.text[e.index])]

MorseBeep(s, e) ==
  [e EXCEPT !.pause = FALSE, !.next = BeepLength(s, Head(e.beeps)), !.beeps = Tail(@)]

MorsePause(s, e) ==
  [e EXCEPT !.pause = TRUE, !.next = IF e.beeps = <<>> THEN 3 * s.S ELSE s.S]

MorseMove(s, e) ==
  LET chosen == IF e.beeps = <<>> THEN MorseNextChar(s, e) ELSE e
  IN CASE ~ e.pause -> MorsePause(s, e)
       [] e.pause /\ chosen.beeps # <<>> -> MorseBeep(s, chosen)
       [] OTHER -> chosen

\* The state in which the next sample is produced.
MorseDue(s, e) ==
  IF e.counter = e.next THEN [MorseMove(s, e) EXCEPT !.counter = 0] ELSE e

\* A pause of a word, or the end, is marked as a space.
MorseSample(s, e, due) ==
  [on |-> ~ due.pause,
   mark |-> CASE due.index # e.index /\ CodeOf(s, s.text[e.index]) # <<>> -> s.text[e.index]
              [] due.index # e.index /\ CodeOf(s, s.text[e.index]) = <<>> -> Space
              [] due.next = Never /\ e.next # Never -> Space
              [] OTHER -> None]

MorseStep(due) ==
  IF due.next = Never THEN due ELSE [due EXCEPT !.counter = @ + 1]

(***************************************************************************)
(* encoder_reset and encoder_prepare_next_samples for one sample; kind is  *)
(* the plug-in.                                                            *)
(***************************************************************************)
EncoderReset(kind) ==
  CASE kind \in {"ook", "hi"} -> OokReset
    [] kind = "pwm" -> PwmReset
    [] kind = "morse" -> MorseReset

Produce(kind, s, e) ==
  CASE kind = "ook" -> [sample |-> OokSample(s, e), enc |-> OokStep(s, e)]
    [] kind = "hi" -> [sample |-> HiSample(e), enc |-> HiStep(s, e)]
    [] kind = "pwm" -> [sample |-> PwmSample(s, e), enc |-> PwmStep(s, e)]
    [] kind = "morse" ->
         LET due == MorseDue(s, e)
         IN [sample |-> MorseSample(s, e, due), enc |-> MorseStep(due)]
=============================================================================
