------------------------------ MODULE TextLink ------------------------------
(***************************************************************************)
(* A text sent by an encoder plug-in and received by the decoder plug-in   *)
(* of the same kind: encoder_reset and encoder_prepare_next_samples fill   *)
(* buffers of the transmission, the capture takes the samples in chunks of *)
(* another size from any point on, plc_rx_analysis looks for data, and     *)
(* from the first chunk that has any rx_on_buffer_completed has the chunks *)
(* decoded in real time.                                                   *)
(***************************************************************************)
EXTENDS Decoders, FiniteSets

CONSTANTS
  Setups,   \* records [kind, decoder, S, text, length, behind, buffer, chunk]
  Stride    \* the capture begins at a multiple of so many samples in a buffer

VARIABLES
  setup,      \* the plug-ins, the settings and the sizes of the buffers
  enc,        \* the encoder
  line,       \* the samples sent and not yet captured
  told,       \* history: the characters of the text that have begun to be sent
  strayed,    \* history: one that is not the next of the text has begun
  listening,  \* the capture is on
  detected,   \* rx_data_detected
  dec,        \* the decoder
  last,       \* history: the number of characters the last chunk gave
  begun,      \* history: the last character that began in a decoded chunk
  pending,    \* history: the characters that began and are not yet decoded
  waiting,    \* history: the samples decoded since the last character was due
  exact       \* history: what was decoded is what had begun

sender == <<told, strayed>>
receiver == <<listening, detected, dec, last, begun, pending, waiting, exact>>
vars == <<setup, enc, line, sender, receiver>>

Init ==
  /\ setup \in Setups
  /\ enc = EncoderReset(setup.kind)
  /\ line = <<>>
  /\ told = 0 /\ strayed = FALSE
  /\ listening = FALSE /\ detected = FALSE
  /\ dec = DecoderInitialize(setup.decoder)
  /\ last = 0 /\ begun = None /\ pending = <<>> /\ waiting = 0 /\ exact = TRUE

(***************************************************************************)
(* The transmission: encoder_prepare_next_samples fills a buffer.          *)
(***************************************************************************)
RECURSIVE NextSamples(_, _)
NextSamples(count, e) ==
  IF count = 1
  THEN LET one == Produce(setup.kind, setup, e)
       IN [enc |-> one.enc, samples |-> <<one.sample>>]
  ELSE LET half == count \div 2
           Rest(left) == LET right == NextSamples(count - half, left.enc)
                         IN [enc |-> right.enc, samples |-> left.samples \o right.samples]
       IN After(NextSamples(half, e), Rest)

Marks(samples) ==
  SelectSeq([i \in 1..Len(samples) |-> samples[i].mark], LAMBDA m : m # None)

\* History: the characters that the text of the message should give, where
\* those without a code are a pause of a word, as is the end, in morse; ook
\* sends them over and over.
Intended ==
  CASE setup.kind = "hi" -> SelectSeq(HiMessage, LAMBDA c : c # 0)
    [] setup.kind = "morse" ->
         Append([i \in 1..Len(setup.text) |->
                   IF setup.text[i] \in DOMAIN MorseCode /\ ~ EmptyEntry(setup.text[i])
                   THEN setup.text[i] ELSE Space], Space)
    [] OTHER -> setup.text

NextInText(marks, k) ==
  LET position == IF setup.kind \in {"ook", "hi"} THEN ((told + k - 1) % Len(Intended)) + 1
                  ELSE told + k
  IN position <= Len(Intended) /\ marks[k] = Intended[position]

Send ==
  /\ listening => Len(line) < setup.chunk
  /\ LET filled == NextSamples(setup.buffer, enc)
         marks == Marks(filled.samples)
         count == told + Len(marks)
     IN /\ enc' = filled.enc
        /\ line' = IF listening THEN line \o filled.samples ELSE filled.samples
        /\ strayed' = (strayed \/ \E k \in 1..Len(marks) : ~ NextInText(marks, k))
        /\ told' = CASE strayed' -> 0
                     [] ~ strayed' /\ setup.kind \in {"ook", "hi"} -> count % Len(Intended)
                     [] OTHER -> count
  /\ UNCHANGED <<setup, receiver>>

(***************************************************************************)
(* The capture: rx_start_capture and rx_stop_capture.                      *)
(***************************************************************************)
StartCapture ==
  /\ ~ listening
  /\ \E k \in 0..Len(line) :
       /\ k % Stride = 0
       /\ line' = SubSeq(line, k + 1, Len(line))
  /\ listening' = TRUE /\ detected' = FALSE
  /\ dec' = DecoderInitialize(setup.decoder)
  /\ last' = 0 /\ begun' = None /\ pending' = <<>> /\ waiting' = 0 /\ exact' = TRUE
  /\ UNCHANGED <<setup, enc, sender>>

\* The samples on the line are lost; what was being decoded is given up.
StopCapture ==
  /\ listening
  /\ listening' = FALSE /\ line' = <<>>
  /\ dec' = DecoderInitialize(setup.decoder)
  /\ detected' = FALSE /\ last' = 0 /\ begun' = None /\ pending' = <<>> /\ waiting' = 0
  /\ UNCHANGED <<setup, enc, sender, exact>>

\* plc_rx_analysis_analyze_buffer: samples over the threshold, one in two of
\* those with the carrier (a sine), for a quarter of a bit or of the buffer.
DataDetected(chunk) ==
  LET needed == IF setup.S < setup.chunk THEN setup.S \div 4 ELSE setup.chunk \div 4
      over == Cardinality({i \in 1..Len(chunk) : chunk[i].on}) \div 2
  IN needed > 0 /\ over >= needed

\* ceil(adc_buffer_samples / rx_samples_per_bit / 8.0)
BufferDataCount == (setup.chunk + 8 * setup.S - 1) \div (8 * setup.S)

(***************************************************************************)
(* History: what should be decoded.  Characters no decoder recognises are  *)
(* passed over; silences follow one another as one space.                  *)
(***************************************************************************)
\* The characters heard for one that was sent, <<>> or one: decoder-morse
\* forgets the beeps of a character with each sixth one.
Heard(c) ==
  LET beeps == CodeOf(setup, c)
      kept == Len(beeps) % (MorseSymbolsPerCharMax + 1)
  IN CASE setup.decoder = "morse" /\ c = Space -> <<c>>
       [] setup.decoder = "morse" /\ c # Space ->
            IF kept = 0 THEN <<>>
            ELSE <<MorseCharacter(SubSeq(beeps, Len(beeps) - kept + 1, Len(beeps)))>>
       [] setup.decoder = "pwm" -> IF Printable(c) THEN <<c>> ELSE <<>>
       [] OTHER -> <<c>>

Begin(acc, m) ==
  IF (m = Space /\ setup.decoder = "morse" /\ acc.begun \in {None, Space}) THEN acc
  ELSE [begun |-> m, text |-> acc.text \o Heard(m)]

\* What is due at a position of the chunk.
Due(chunk, position) ==
  FoldLeft(Begin, [begun |-> begun, text |-> pending], Marks(SubSeq(chunk, 1, position)))

\* Characters decoded before any has begun are remains of one that had begun
\* before the capture; the others are the first ones due.
Compare(chunk, out) ==
  LET judged == SelectSeq(out, LAMBDA o : Due(chunk, o[2]).begun # None)
  IN [right |-> \A k \in 1..Len(judged) :
                  LET due == Due(chunk, judged[k][2]).text
                  IN k <= Len(due) /\ due[k] = judged[k][1],
      count |-> Len(judged)]

\* rx_on_buffer_completed.
Receive ==
  /\ listening /\ Len(line) >= setup.chunk
  /\ LET chunk == SubSeq(line, 1, setup.chunk)
         levels == [i \in 1..setup.chunk |-> chunk[i].on]
         parsed == ParseNextSamples(setup.decoder, setup.S, BufferDataCount, levels, dec)
         due == Due(chunk, setup.chunk)
         compared == Compare(chunk, parsed.out)
     IN /\ line' = SubSeq(line, setup.chunk + 1, Len(line))
        /\ detected' = (detected \/ DataDetected(chunk))
        /\ IF detected'
           THEN /\ dec' = parsed.dec
                /\ last' = Len(parsed.out)
                /\ begun' = due.begun
                /\ exact' = (exact /\ compared.right)
                /\ pending' = IF compared.count > Len(due.text) THEN <<>>
                              ELSE SubSeq(due.text, compared.count + 1, Len(due.text))
                /\ waiting' = IF compared.count > 0 \/ pending = <<>> THEN 0
                              ELSE waiting + setup.chunk
           ELSE UNCHANGED <<dec, last, begun, exact, pending, waiting>>
  /\ UNCHANGED <<setup, enc, sender, listening>>

Next == Send \/ StartCapture \/ StopCapture \/ Receive

Spec == Init /\ [][Next]_vars
-----------------------------------------------------------------------------
\* Wherever the capture begins in the transmission and however the buffers of
\* the two sides are cut, from the first character that begins in a chunk
\* with data on the text received is the text sent, character by character.
\* The text sent is the one of the setting message, in its order, unless
\* encoder-ook takes its length for 0 (the message is the default one, or
\* empty) or encoder-morse finds an empty string in its table: then what the
\* memory holds behind that string is sent too.
TextIsMessage ==
  /\ exact
  /\ strayed => \/ setup.kind = "ook" /\ setup.length = 0
                \/ setup.kind = "morse" /\ \E i \in 1..Len(setup.text) :
                                               EmptyEntry(setup.text[i])

\* The bits that the character due takes, with the silence that ends it.
BitsOfDue ==
  CASE setup.decoder = "ook" -> 10
    [] setup.decoder = "pwm" -> Head(pending) + 1
    [] setup.decoder = "morse" -> 22

\* A character is decoded with the chunk in which it is over, or the next one:
\* none is skipped, and none is left undecoded at the end of a message.
EveryCharacterArrives ==
  pending # <<>> => waiting <= BitsOfDue * setup.S + setup.chunk
=============================================================================
