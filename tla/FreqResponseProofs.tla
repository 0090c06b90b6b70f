------------------------- MODULE FreqResponseProofs -------------------------
(***************************************************************************)
(* Proofs about FreqResponse for buffers of any size, any rate and any     *)
(* sweep of tones that are not negative.                                   *)
(***************************************************************************)
EXTENDS FreqResponse, SequenceTheorems, WellFoundedInduction, TLAPS

-----------------------------------------------------------------------------
(* Arithmetic. *)
LEMMA DivBounds ==
  ASSUME NEW a \in Nat, NEW b \in Nat \ {0}
  PROVE  a \div b \in Nat /\ b * (a \div b) <= a /\ a < b * (a \div b) + b
OBVIOUS

LEMMA ModOfSmall ==
  ASSUME NEW n \in Nat \ {0}, NEW a \in 0..n - 1
  PROVE  a % n = a /\ (n + a) % n = a
OBVIOUS

LEMMA ModBounds ==
  ASSUME NEW a \in Nat, NEW n \in Nat \ {0}
  PROVE  a % n \in 0..n - 1
OBVIOUS

LEMMA ProductsGrow ==
  ASSUME NEW a \in Nat, NEW b \in Nat, NEW c \in Nat, a <= b
  PROVE  c * a <= c * b /\ a * c <= b * c
OBVIOUS

LEMMA ProductIsNat ==
  ASSUME NEW a \in Nat, NEW b \in Nat
  PROVE  a * b \in Nat
OBVIOUS

LEMMA LeastNumber ==
  ASSUME NEW S \in SUBSET Nat, S # {}
  PROVE  \E g \in S : \A h \in S : g <= h
<1>1. PICK g \in S : \A h \in S : <<h, g>> \notin OpToRel(<, Nat)
  BY NatLessThanWellFounded, WFMin
<1>2. ASSUME NEW h \in S PROVE g <= h
  <2>1. ~ (h < g)  BY <1>1 DEF OpToRel
  <2> QED  BY <2>1
<1> QED  BY <1>2

(* Among the numbers from first to most one has the least gap and is the   *)
(* last with it: the CHOOSE of BestSamples chooses.                        *)
LEMMA LastOfTheLeast ==
  ASSUME NEW first \in Nat, NEW most \in Nat, first <= most, NEW G \in [first..most -> Nat]
  PROVE  \E c \in first..most : \A d \in first..most : G[c] < G[d] \/ (G[c] = G[d] /\ d <= c)
<1>1. PICK g \in {G[c] : c \in first..most} : \A h \in {G[c] : c \in first..most} : g <= h
  <2>1. {G[c] : c \in first..most} # {} /\ {G[c] : c \in first..most} \subseteq Nat
    OBVIOUS
  <2> QED  BY <2>1, LeastNumber
<1> DEFINE Least == {c \in first..most : G[c] = g}
<1>2. PICK m \in {most - c : c \in Least} : \A h \in {most - c : c \in Least} : m <= h
  <2>1. {most - c : c \in Least} # {} /\ {most - c : c \in Least} \subseteq Nat
    OBVIOUS
  <2> QED  BY <2>1, LeastNumber
<1>3. PICK c \in Least : m = most - c  OBVIOUS
<1>4. ASSUME NEW d \in first..most PROVE G[c] < G[d] \/ (G[c] = G[d] /\ d <= c)
  <2>1. g <= G[d] /\ G[c] = g /\ g \in Nat /\ G[d] \in Nat  BY <1>1, <1>3
  <2>2. CASE G[d] = g
    <3>1. d \in Least  BY <2>2
    <3>2. most - c <= most - d  BY <1>2, <1>3, <3>1
    <3> QED  BY <2>1, <2>2, <3>2
  <2>3. CASE G[d] # g  BY <2>1, <2>3
  <2> QED  BY <2>2, <2>3
<1> QED  BY <1>3, <1>4

(* The whole cycles of a tone last a DMA buffer at least; and they fit in  *)
(* the preloaded buffer unless one cycle does not.                         *)
LEMMA BestSamplesFit ==
  ASSUME NEW f \in Nat \ {0}, Unit \in Nat \ {0}
  PROVE  /\ BestSamples(f) \in Nat /\ BestSamples(f) >= DmaSamples
         /\ BestSamples(f) > TxSamples => f * TxSamples < Rate * Unit
<1> DEFINE scale == Rate * Unit
           first == (DmaSamples * f + scale - 1) \div scale
           most == (TxSamples * f) \div scale
           Gap(c) == LET r == (scale * c) % f IN IF 2 * r <= f THEN r ELSE f - r
           best == IF most < first THEN first
                   ELSE CHOOSE c \in first..most : \A d \in first..most :
                          Gap(c) < Gap(d) \/ (Gap(c) = Gap(d) /\ d <= c)
<1>1. /\ Rate \in Nat \ {0} /\ TxSamples \in Nat \ {0} /\ DmaSamples \in Nat \ {0}
      /\ 2 * DmaSamples <= TxSamples
  BY SizesAssumption DEF SizesAssumption
<1>2. scale \in Nat \ {0}  BY <1>1
<1>3. BestSamples(f) = (2 * scale * best + f) \div (2 * f)  BY DEF BestSamples
<1>4. /\ first \in Nat /\ DmaSamples * f <= scale * first
      /\ scale * first < DmaSamples * f + scale
  <2>1. DmaSamples * f \in Nat /\ DmaSamples * f + scale - 1 \in Nat  BY <1>1, <1>2, ProductIsNat
  <2>2. /\ first \in Nat /\ scale * first <= DmaSamples * f + scale - 1
        /\ DmaSamples * f + scale - 1 < scale * first + scale
    BY <1>2, <2>1, DivBounds
  <2>3. scale * first \in Nat  BY <1>2, <2>2, ProductIsNat
  <2> HIDE DEF first, scale
  <2> QED  BY <1>2, <2>1, <2>2, <2>3
<1>5. /\ most \in Nat /\ scale * most <= TxSamples * f
      /\ TxSamples * f < scale * most + scale
  <2>1. TxSamples * f \in Nat  BY <1>1, ProductIsNat
  <2> QED  BY <1>2, <2>1, DivBounds
<1>6. best \in Nat /\ best >= first /\ (first <= most => best <= most)
  <2>1. CASE most < first
    <3> HIDE DEF first, most, Gap
    <3> QED  BY <2>1, <1>4, <1>5
  <2>2. CASE ~ (most < first)
    <3>1. \A c \in first..most : Gap(c) \in Nat
      <4> SUFFICES ASSUME NEW c \in first..most PROVE Gap(c) \in Nat  OBVIOUS
      <4>0. c \in Nat  BY <1>4, <1>5
      <4>1. scale * c \in Nat  BY <1>2, <4>0, ProductIsNat
      <4>2. (scale * c) % f \in 0..f - 1  BY <4>1, ModBounds
      <4> QED  BY <4>2
    <3> DEFINE G == [c \in first..most |-> Gap(c)]
    <3>2. G \in [first..most -> Nat]  BY <3>1
    <3>a. first \in Nat /\ most \in Nat /\ first <= most  BY <1>4, <1>5, <2>2
    <3> HIDE DEF first, most, Gap
    <3>3. \E c \in first..most : \A d \in first..most : G[c] < G[d] \/ (G[c] = G[d] /\ d <= c)
      <4> HIDE DEF G
      <4> QED  BY <3>2, <3>a, LastOfTheLeast
    <3>4. \E c \in first..most : \A d \in first..most :
            Gap(c) < Gap(d) \/ (Gap(c) = Gap(d) /\ d <= c)
      BY <3>3
    <3>5. best \in first..most  BY <2>2, <3>4
    <3> HIDE DEF best
    <3> QED  BY <3>a, <3>5
  <2> QED  BY <2>1, <2>2
<1> HIDE DEF scale, first, most, best
<1>7. scale * best \in Nat /\ scale * first <= scale * best
  BY <1>2, <1>4, <1>6, ProductIsNat, ProductsGrow
<1> DEFINE whole == 2 * scale * best + f
           q == whole \div (2 * f)
<1>8. /\ q \in Nat /\ (2 * f) * q <= 2 * (scale * best) + f
      /\ 2 * (scale * best) + f < (2 * f) * q + 2 * f
  <2>1. whole = 2 * (scale * best) + f  BY <1>2, <1>6
  <2>2. 2 * f \in Nat \ {0} /\ whole \in Nat  BY <1>7, <2>1
  <2> HIDE DEF whole
  <2> QED  BY <2>1, <2>2, DivBounds
<1>9. BestSamples(f) = q  BY <1>3
<1> HIDE DEF q
<1>10. q >= DmaSamples
  <2> SUFFICES ASSUME q < DmaSamples PROVE FALSE  BY <1>1, <1>8
  <2>1. q + 1 \in Nat /\ q + 1 <= DmaSamples  BY <1>1, <1>8
  <2>2. (2 * f) * (q + 1) <= (2 * f) * DmaSamples  BY <1>1, <2>1, ProductsGrow
  <2>3. (2 * f) * (q + 1) = (2 * f) * q + 2 * f  BY <1>8
  <2>4. (2 * f) * DmaSamples = 2 * (DmaSamples * f)  BY <1>1
  <2> DEFINE a == (2 * f) * q   b == scale * best   c == DmaSamples * f   e == scale * first
  <2>5. a \in Nat /\ b \in Nat /\ c \in Nat /\ e \in Nat
    BY <1>1, <1>2, <1>4, <1>7, <1>8, ProductIsNat
  <2>6. a + 2 * f <= 2 * c  BY <2>2, <2>3, <2>4
  <2>7. c <= e /\ e <= b /\ 2 * b + f < a + 2 * f  BY <1>4, <1>7, <1>8
  <2> HIDE DEF a, b, c, e
  <2> QED  BY <2>5, <2>6, <2>7
<1>11. ASSUME q > TxSamples PROVE f * TxSamples < scale
  <2> SUFFICES ASSUME scale <= f * TxSamples PROVE FALSE
    BY <1>1, <1>2, ProductIsNat
  <2> DEFINE y == TxSamples * f   x == DmaSamples * f
  <2>1. y \in Nat /\ x \in Nat /\ 2 * x <= y /\ scale <= y
    <3>1. (2 * DmaSamples) * f <= TxSamples * f  BY <1>1, ProductsGrow
    <3>2. (2 * DmaSamples) * f = 2 * (DmaSamples * f)  BY <1>1
    <3>3. f * TxSamples = TxSamples * f  BY <1>1
    <3>4. y \in Nat /\ x \in Nat  BY <1>1, ProductIsNat
    <3> QED  BY <3>1, <3>2, <3>3, <3>4
  <2>2. first <= most
    <3> SUFFICES ASSUME most + 1 <= first PROVE FALSE  BY <1>4, <1>5
    <3>1. scale * (most + 1) <= scale * first  BY <1>2, <1>4, <1>5, ProductsGrow
    <3>2. scale * (most + 1) = scale * most + scale  BY <1>2, <1>5
    <3> DEFINE m == scale * most   n == scale * first
    <3>3. m \in Nat /\ n \in Nat  BY <1>2, <1>4, <1>5, ProductIsNat
    <3>4. m + scale <= n  BY <3>1, <3>2
    <3>5. n < x + scale /\ x <= n /\ m <= y /\ y < m + scale  BY <1>4, <1>5
    <3>6. scale <= m
      <4>1. most # 0  BY <1>2, <1>5, <2>1
      <4>2. scale * 1 <= scale * most  BY <1>2, <1>5, <4>1, ProductsGrow
      <4> QED  BY <1>2, <4>2
    <3> HIDE DEF x, y, m, n
    <3> QED  BY <1>2, <2>1, <3>3, <3>4, <3>5, <3>6
  <2>3. scale * best <= y
    <3>1. scale * best <= scale * most  BY <1>2, <1>4, <1>5, <1>6, <2>2, ProductsGrow
    <3> DEFINE b == scale * best   m == scale * most
    <3>2. b \in Nat /\ m \in Nat  BY <1>2, <1>5, <1>7, ProductIsNat
    <3>3. b <= m /\ m <= y  BY <1>5, <3>1
    <3> HIDE DEF b, m, y
    <3>4. b <= y  BY <2>1, <3>2, <3>3
    <3> QED  BY <3>4 DEF b
  <2>4. (2 * f) * (TxSamples + 1) <= (2 * f) * q  BY <1>1, <1>8, <1>11, ProductsGrow
  <2>5. (2 * f) * (TxSamples + 1) = 2 * y + 2 * f  BY <1>1
  <2> DEFINE a == (2 * f) * q   b == scale * best
  <2>6. a \in Nat /\ b \in Nat  BY <1>7, <1>8, ProductIsNat
  <2>7. 2 * y + 2 * f <= a /\ a <= 2 * b + f /\ b <= y  BY <1>8, <2>3, <2>4, <2>5
  <2> HIDE DEF a, b, y
  <2> QED  BY <2>1, <2>6, <2>7
<1> QED  BY <1>8, <1>9, <1>10, <1>11 DEF scale

-----------------------------------------------------------------------------
\* The places of the main thread while it transmits.
Transmitting == {"reset", "capture", "clear", "wait", "stop", "join", "quiet"}

\* What the buffers hold before, during and after a tone.
Samples == [tone : Int, n : Int]

Current == Tone(tone)
TooLong == 0 < Current /\ Current * TxSamples < Rate * Unit

\* The types, and what the buffers of samples_adc are: two, with different roles.
ShapeInv ==
  /\ main \in Ended \cup {"start", "create", "preload", "transmit", "measure", "release", "save"}
               \cup Transmitting
  /\ rx \in {"off", "loop", "read", "test", "copy", "full", "frozen"}
  /\ memory \in [{"first", "second"} -> [1..RxSamples -> Samples]]
  /\ target # held /\ {"first", "second"} = {target, held}
  /\ cur \in [buffer : {"first", "second"}, at : 0..RxSamples]

\* The settings are read before the first tone, and all the tones are measured.
SweepInv ==
  /\ main \notin {"start", "exit"} => Plausible(test)
  /\ tone \in Nat
  /\ main \in {"start", "create"} => tone = 0
  /\ main \in {"preload", "transmit", "measure"} \cup Transmitting => tone < Iterations
  /\ main \in {"release", "save", "end"} => tone = Iterations

\* A buffer that is transmitted holds a DMA buffer at least and is not too long.
BufferInv ==
  /\ len \in Nat /\ pos \in 0..len
  /\ main \in {"transmit"} \cup Transmitting => DmaSamples <= len /\ len <= TxSamples
  /\ main \in Transmitting => on
  /\ on => main \in Transmitting \cup {"dead"} /\ DmaSamples <= len /\ len <= TxSamples
  /\ len > TxSamples => main = "dead" /\ why = "overrun" /\ TooLong
  /\ why = "overrun" => main = "dead" /\ len > TxSamples

\* samples_tx_preloaded_cur is where the last buffer given to the transmission ended.
WaveInv ==
  /\ sent = <<>> => pos = 0 /\ last = -1
  /\ sent # <<>> => DOMAIN sent = 1..DmaSamples /\ sent[DmaSamples] = pos - 1
  /\ WaveContinues

\* The thread of the capture exists from its start to its join, and counts its buffers
\* in capture_iteration when it has read them.
ThreadInv ==
  /\ rx # "off" => main \in {"clear", "wait", "stop", "join", "dead"}
  /\ captured \in 0..MaxBuffers /\ iteration \in Nat /\ iteration <= captured
  /\ rx \in {"read", "test"} => iteration < captured
  /\ main = "capture" => iteration = 0

EndInv ==
  /\ limit = target /\ cur.buffer = target
  /\ main = "dead" <=> why # "alive"
  /\ why = "frozen" => rx = "frozen"
  /\ main \in {"start", "exit", "save", "end"} => afe = {}

FlagsInv == on \in BOOLEAN /\ end \in BOOLEAN /\ filled \in BOOLEAN

IInv == ShapeInv /\ FlagsInv /\ SweepInv /\ BufferInv /\ WaveInv /\ ThreadInv /\ EndInv

-----------------------------------------------------------------------------
(* What depends on the settings alone does not change after the first step. *)
LEMMA SettingsFixed ==
  ASSUME test' = test
  PROVE  /\ Iterations' = Iterations /\ Unit' = Unit
         /\ \A k : Tone(k)' = Tone(k) /\ (MayBeHeld(k)' <=> MayBeHeld(k))
         /\ tone' = tone => Current' = Current /\ (TooLong' <=> TooLong)
<1>1. Iterations' = Iterations  BY DEF Iterations
<1>2. Unit' = Unit  BY <1>1 DEF Unit
<1>3. \A k : Tone(k)' = Tone(k)  BY <1>1, <1>2 DEF Tone
<1>4. \A k : MayBeHeld(k)' <=> MayBeHeld(k)  BY <1>1, <1>2, <1>3 DEF MayBeHeld, Reached
<1>5. ASSUME tone' = tone PROVE Current' = Current  BY <1>1, <1>2, <1>5 DEF Current, Tone
<1>6. ASSUME tone' = tone PROVE TooLong' <=> TooLong  BY <1>2, <1>5, <1>6 DEF TooLong
<1> QED  BY <1>1, <1>2, <1>3, <1>4, <1>5, <1>6

LEMMA TonesAreNotNegative ==
  ASSUME Plausible(test)
  PROVE  /\ Iterations \in Nat \ {0} /\ Unit \in Nat \ {0}
         /\ \A k \in 0..Iterations - 1 : Tone(k) \in Nat
<1>1. Iterations \in Nat \ {0}  BY DEF Plausible, Iterations
<1>2. Unit \in Nat \ {0}  BY <1>1 DEF Unit
<1>3. ASSUME NEW k \in 0..Iterations - 1 PROVE Tone(k) \in Nat
  <2>1. CASE Iterations = 1  BY <2>1 DEF Tone, Plausible
  <2>2. CASE Iterations # 1
    <3> DEFINE a == test.ini   b == test.end   u == Unit
    <3>1. a \in Nat /\ b \in Nat /\ u \in Nat /\ k \in Nat /\ k <= u
      BY <1>1, <1>2, <2>2 DEF Plausible, Unit
    <3>2. Tone(k) = a * u + k * (b - a)  BY <2>2 DEF Tone
    <3> HIDE DEF a, b, u
    <3>3. a * u + k * (b - a) = a * (u - k) + k * b  BY <3>1
    <3>4. a * (u - k) \in Nat /\ k * b \in Nat  BY <3>1, ProductIsNat
    <3> QED  BY <3>2, <3>3, <3>4
  <2> QED  BY <2>1, <2>2
<1> QED  BY <1>1, <1>2, <1>3

LEMMA Sizes ==
  /\ Rate \in Nat \ {0} /\ TxSamples \in Nat \ {0} /\ DmaSamples \in Nat \ {0}
  /\ RxSamples \in Nat \ {0} /\ Chunk \in Nat \ {0} /\ MaxBuffers \in Nat \ {0}
  /\ 2 * DmaSamples <= TxSamples
BY SizesAssumption DEF SizesAssumption

LEMMA InitEstablishes == Init => IInv
<1> SUFFICES ASSUME Init PROVE IInv  OBVIOUS
<1> USE Sizes
<1>1. /\ main = "start" /\ why = "alive" /\ tone = 0 /\ afe = {} /\ len = 0 /\ pos = 0
      /\ sent = <<>> /\ last = -1 /\ rx = "off" /\ captured = 0 /\ iteration = 0
  BY Zenon DEF Init
<1>2. on \in BOOLEAN /\ ~ on /\ end \in BOOLEAN /\ filled \in BOOLEAN  BY Zenon DEF Init
<1>3. /\ target = "first" /\ limit = "first" /\ held = "second"
      /\ cur = [buffer |-> "first", at |-> 0]
      /\ memory = [b \in {"first", "second"} |-> Filled(IF b = "first" THEN Garbage ELSE Zero)]
  BY Zenon DEF Init
<1>4. \A b \in {"first", "second"} : memory[b] \in [1..RxSamples -> Samples]
  BY <1>3 DEF Filled, Sample, Samples, Garbage, Zero
<1>5. ShapeInv
  <2>1. memory \in [{"first", "second"} -> [1..RxSamples -> Samples]]  BY <1>3, <1>4
  <2>2. cur \in [buffer : {"first", "second"}, at : 0..RxSamples]  BY <1>3
  <2>3. main = "start" /\ rx = "off"  BY <1>1
  <2> QED  BY <1>3, <2>1, <2>2, <2>3 DEF ShapeInv, Ended, Transmitting
<1>6. SweepInv  BY <1>1 DEF SweepInv, Transmitting
<1>7. BufferInv
  <2>1. ~ on  BY <1>2
  <2>2. len = 0 /\ pos = 0 /\ main = "start" /\ why = "alive"  BY <1>1
  <2> QED  BY <2>1, <2>2 DEF BufferInv, Transmitting
<1>8. WaveInv
  <2>1. sent = <<>> /\ pos = 0 /\ last = -1  BY <1>1
  <2>2. WaveContinues  BY <2>1 DEF WaveContinues
  <2> QED  BY <2>1, <2>2 DEF WaveInv
<1>9. ThreadInv  BY <1>1 DEF ThreadInv
<1>10. EndInv  BY <1>1, <1>3 DEF EndInv
<1>11. FlagsInv  BY <1>2, Zenon DEF FlagsInv
<1> QED  BY <1>5, <1>6, <1>7, <1>8, <1>9, <1>10, <1>11 DEF IInv

(* ParseArguments reads the settings; Measure goes on to the next tone.    *)
LEMMA SweepKept ==
  ASSUME IInv, Next PROVE SweepInv'
<1> USE DEF IInv, transmission, thread, recording, results, Dies, Ended, SweepInv, Transmitting
<1>1. CASE CapeIsMissing  BY SettingsFixed, <1>1 DEF CapeIsMissing
<1>2. CASE ParseArguments
  <2>1. PICK emulated \in BOOLEAN, line \in CommandLines :
          IF Exits(line) THEN main' = "exit" /\ UNCHANGED test
          ELSE main' = "create" /\ test' = Parse(emulated, line)
    BY <1>2 DEF ParseArguments
  <2>2. UNCHANGED tone /\ tone = 0  BY <1>2 DEF ParseArguments
  <2>3. CASE Exits(line)  BY <2>1, <2>2, <2>3
  <2>4. CASE ~ Exits(line)
    <3>1. Plausible(test')  BY <2>1, <2>4, ArgumentsAssumption DEF ArgumentsAssumption
    <3>2. Plausible(test)'  BY <3>1 DEF Plausible
    <3> QED  BY <2>1, <2>2, <2>4, <3>2
  <2> QED  BY <2>3, <2>4
<1>3. CASE CreateComponents
  <2>1. Iterations \in Nat \ {0}  BY <1>3, TonesAreNotNegative DEF CreateComponents
  <2> QED  BY <1>3, <2>1, SettingsFixed DEF CreateComponents, Plausible
<1>4. CASE ComponentIsMissing  BY SettingsFixed, <1>4 DEF ComponentIsMissing
<1>5. CASE PreloadTone  BY SettingsFixed, <1>5 DEF PreloadTone
<1>6. CASE StartTransmission  BY SettingsFixed, <1>6 DEF StartTransmission
<1>7. CASE ResetRecording  BY SettingsFixed, <1>7 DEF ResetRecording
<1>8. CASE StartCapture  BY SettingsFixed, <1>8 DEF StartCapture
<1>9. CASE ClearFilled  BY SettingsFixed, <1>9 DEF ClearFilled
<1>10. CASE WaitSeesFilled  BY SettingsFixed, <1>10 DEF WaitSeesFilled
<1>11. CASE WaitIsAborted  BY SettingsFixed, <1>11 DEF WaitIsAborted
<1>12. CASE StopCapture  BY SettingsFixed, <1>12 DEF StopCapture
<1>13. CASE JoinCapture  BY SettingsFixed, <1>13 DEF JoinCapture
<1>14. CASE StopTransmission  BY SettingsFixed, <1>14 DEF StopTransmission
<1>15. CASE Measure
  <2>1. Iterations \in Nat \ {0}  BY <1>15, TonesAreNotNegative DEF Measure
  <2> QED  BY <1>15, <2>1, SettingsFixed DEF Measure, Plausible
<1>16. CASE Release  BY SettingsFixed, <1>16 DEF Release
<1>17. CASE SaveFiles  BY SettingsFixed, <1>17 DEF SaveFiles
<1>18. CASE FillFromPreload  BY SettingsFixed, <1>18 DEF FillFromPreload
<1>19. CASE CaptureLoops  BY SettingsFixed, <1>19 DEF CaptureLoops
<1>20. CASE ReadCompletes  BY SettingsFixed, <1>20 DEF ReadCompletes
<1>21. CASE CallbackTests  BY SettingsFixed, <1>21 DEF CallbackTests
<1>22. CASE CallbackCopies  BY SettingsFixed, <1>22 DEF CallbackCopies
<1>23. CASE CallbackFills  BY SettingsFixed, <1>23 DEF CallbackFills
<1>24. CASE ReadFreezes  BY SettingsFixed, <1>24 DEF ReadFreezes
<1> QED  BY <1>1, <1>2, <1>3, <1>4, <1>5, <1>6, <1>7, <1>8, <1>9, <1>10, <1>11, <1>12, <1>13,
  <1>14, <1>15, <1>16, <1>17, <1>18, <1>19, <1>20, <1>21, <1>22, <1>23, <1>24
     DEF Next, Main, CaptureThread

(* Only PreloadTone makes a buffer, by BestSamples.                        *)
LEMMA BufferKept ==
  ASSUME IInv, Next PROVE BufferInv'
<1> USE DEF IInv, transmission, thread, recording, results, Dies, Ended, BufferInv,
  Transmitting
<1>1. CASE CapeIsMissing  BY SettingsFixed, <1>1 DEF CapeIsMissing
<1>2. CASE ParseArguments
  <2>1. UNCHANGED <<len, pos, on, why>> /\ main' \in {"exit", "create"} /\ ~ on
    BY <1>2 DEF ParseArguments
  <2>2. ~ (len > TxSamples) /\ why # "overrun"  BY <1>2 DEF ParseArguments
  <2> QED  BY <2>1, <2>2
<1>3. CASE CreateComponents  BY SettingsFixed, <1>3 DEF CreateComponents
<1>4. CASE ComponentIsMissing  BY SettingsFixed, <1>4 DEF ComponentIsMissing
<1>5. CASE PreloadTone
  <2>1. /\ UNCHANGED <<test, tone>> /\ pos' = 0 /\ UNCHANGED on /\ ~ on /\ why = "alive"
        /\ len' = IF Current = 0 THEN TxSamples ELSE BestSamples(Current)
    BY <1>5 DEF PreloadTone, Current, EndInv
  <2>2. Current \in Nat /\ Unit \in Nat \ {0} /\ TxSamples \in Nat /\ DmaSamples \in Nat
    BY <1>5, TonesAreNotNegative, Sizes
    DEF PreloadTone, SweepInv, Current
  <2>3. len' \in Nat /\ DmaSamples <= len' /\ (len' > TxSamples => TooLong)
    <3>1. CASE Current = 0  BY <2>1, <2>2, <3>1, Sizes
    <3>2. CASE Current # 0
      <4>1. Current \in Nat \ {0}  BY <2>2, <3>2
      <4> QED  BY <2>1, <2>2, <3>2, <4>1, BestSamplesFit DEF TooLong
    <3> QED  BY <3>1, <3>2
  <2>4. CASE len' > TxSamples
    <3>1. main' = "dead" /\ why' = "overrun"  BY <1>5, <2>4 DEF PreloadTone
    <3> QED  BY <2>1, <2>2, <2>3, <2>4, <3>1, SettingsFixed
  <2>5. CASE ~ (len' > TxSamples)
    <3>1. main' = "transmit" /\ why' = why  BY <1>5, <2>5 DEF PreloadTone
    <3> QED  BY <2>1, <2>2, <2>3, <2>5, <3>1
  <2> QED  BY <2>4, <2>5
<1>6. CASE StartTransmission  BY SettingsFixed, <1>6 DEF StartTransmission
<1>7. CASE ResetRecording  BY SettingsFixed, <1>7 DEF ResetRecording
<1>8. CASE StartCapture  BY SettingsFixed, <1>8 DEF StartCapture
<1>9. CASE ClearFilled  BY SettingsFixed, <1>9 DEF ClearFilled
<1>10. CASE WaitSeesFilled  BY SettingsFixed, <1>10 DEF WaitSeesFilled
<1>11. CASE WaitIsAborted  BY SettingsFixed, <1>11 DEF WaitIsAborted
<1>12. CASE StopCapture  BY SettingsFixed, <1>12 DEF StopCapture
<1>13. CASE JoinCapture  BY SettingsFixed, <1>13 DEF JoinCapture
<1>14. CASE StopTransmission  BY SettingsFixed, <1>14 DEF StopTransmission
<1>15. CASE Measure
  <2>1. UNCHANGED <<len, pos, on, why>> /\ main' \in {"preload", "release"} /\ ~ on
    BY <1>15 DEF Measure
  <2>2. ~ (len > TxSamples) /\ why # "overrun"  BY <1>15 DEF Measure
  <2> QED  BY <2>1, <2>2
<1>16. CASE Release  BY SettingsFixed, <1>16 DEF Release
<1>17. CASE SaveFiles  BY SettingsFixed, <1>17 DEF SaveFiles
<1>18. CASE FillFromPreload
  <2>1. UNCHANGED <<main, why, test, tone, len, on>> /\ on /\ main \notin Ended
    BY <1>18 DEF FillFromPreload
  <2>2. DmaSamples \in Nat /\ DmaSamples <= len  BY <2>1, Sizes
  <2>3. pos' \in 0..len  BY <1>18, <2>2 DEF FillFromPreload
  <2> QED  BY <2>1, <2>3, SettingsFixed
<1>19. CASE CaptureLoops  BY SettingsFixed, <1>19 DEF CaptureLoops
<1>20. CASE ReadCompletes  BY SettingsFixed, <1>20 DEF ReadCompletes
<1>21. CASE CallbackTests  BY SettingsFixed, <1>21 DEF CallbackTests
<1>22. CASE CallbackCopies  BY SettingsFixed, <1>22 DEF CallbackCopies
<1>23. CASE CallbackFills  BY SettingsFixed, <1>23 DEF CallbackFills
<1>24. CASE ReadFreezes  BY SettingsFixed, <1>24 DEF ReadFreezes
<1> QED  BY <1>1, <1>2, <1>3, <1>4, <1>5, <1>6, <1>7, <1>8, <1>9, <1>10, <1>11, <1>12, <1>13,
  <1>14, <1>15, <1>16, <1>17, <1>18, <1>19, <1>20, <1>21, <1>22, <1>23, <1>24
     DEF Next, Main, CaptureThread

(* Each buffer begins where the one before ended.                          *)
LEMMA WaveKept ==
  ASSUME IInv, Next PROVE WaveInv'
<1> USE DEF IInv, transmission, thread, recording, results, Dies, Ended, WaveInv, WaveContinues
<1>1. CASE CapeIsMissing  BY <1>1 DEF CapeIsMissing
<1>2. CASE ParseArguments  BY <1>2 DEF ParseArguments
<1>3. CASE CreateComponents  BY <1>3 DEF CreateComponents
<1>4. CASE ComponentIsMissing  BY <1>4 DEF ComponentIsMissing
<1>5. CASE PreloadTone
  <2>1. sent' = <<>> /\ last' = -1 /\ pos' = 0  BY <1>5 DEF PreloadTone
  <2> QED  BY <2>1
<1>6. CASE StartTransmission  BY <1>6 DEF StartTransmission
<1>7. CASE ResetRecording  BY <1>7 DEF ResetRecording
<1>8. CASE StartCapture  BY <1>8 DEF StartCapture
<1>9. CASE ClearFilled  BY <1>9 DEF ClearFilled
<1>10. CASE WaitSeesFilled  BY <1>10 DEF WaitSeesFilled
<1>11. CASE WaitIsAborted  BY <1>11 DEF WaitIsAborted
<1>12. CASE StopCapture  BY <1>12 DEF StopCapture
<1>13. CASE JoinCapture  BY <1>13 DEF JoinCapture
<1>14. CASE StopTransmission  BY <1>14 DEF StopTransmission
<1>15. CASE Measure  BY <1>15 DEF Measure
<1>16. CASE Release  BY <1>16 DEF Release
<1>17. CASE SaveFiles  BY <1>17 DEF SaveFiles
<1>18. CASE FillFromPreload
  <2>1. /\ DmaSamples \in Nat \ {0} /\ DmaSamples <= len /\ len \in Nat \ {0}
        /\ pos \in 0..len /\ UNCHANGED len
    BY <1>18, Sizes DEF FillFromPreload, BufferInv
  <2> DEFINE ending == len - pos
  <2>2. last' = pos - 1  BY <1>18 DEF FillFromPreload
  <2>3. CASE DmaSamples <= ending
    <3>1. sent' = [k \in 1..DmaSamples |-> pos + k - 1] /\ pos' = pos + DmaSamples
      BY <1>18, <2>3 DEF FillFromPreload
    <3>3. DOMAIN sent' = 1..DmaSamples /\ sent'[DmaSamples] = pos' - 1
      BY <2>1, <2>3, <3>1
    <3>2. ASSUME NEW k \in 1..DmaSamples PROVE sent'[k] = (last' + k) % len
      <4>1. pos + k - 1 \in 0..len - 1  BY <2>1, <2>3
      <4>2. (pos + k - 1) % len = pos + k - 1  BY <2>1, <4>1, ModOfSmall
      <4>3. last' + k = pos + k - 1  BY <2>1, <2>2
      <4> QED  BY <3>1, <4>2, <4>3
    <3> QED  BY <2>1, <3>2, <3>3
  <2>4. CASE ~ (DmaSamples <= ending)
    <3>1. /\ sent' = [k \in 1..DmaSamples |->
                        IF k <= ending THEN pos + k - 1 ELSE k - ending - 1]
          /\ pos' = DmaSamples - ending
      BY <1>18, <2>4 DEF FillFromPreload
    <3>2. ASSUME NEW k \in 1..DmaSamples PROVE sent'[k] = (last' + k) % len
      <4>1. last' + k = pos + k - 1  BY <2>1, <2>2
      <4>2. CASE k <= ending
        <5>1. pos + k - 1 \in 0..len - 1  BY <2>1, <4>2
        <5> QED  BY <2>1, <3>1, <4>1, <4>2, <5>1, ModOfSmall
      <4>3. CASE ~ (k <= ending)
        <5>1. k - ending - 1 \in 0..len - 1  BY <2>1, <4>3
        <5>2. pos + k - 1 = len + (k - ending - 1)  BY <2>1
        <5>3. (len + (k - ending - 1)) % len = k - ending - 1  BY <2>1, <5>1, ModOfSmall
        <5> QED  BY <3>1, <4>1, <4>3, <5>2, <5>3
      <4> QED  BY <4>2, <4>3
    <3>3. DOMAIN sent' = 1..DmaSamples /\ sent'[DmaSamples] = pos' - 1
      BY <2>1, <2>4, <3>1
    <3> QED  BY <2>1, <3>2, <3>3
  <2> QED  BY <2>3, <2>4
<1>19. CASE CaptureLoops  BY <1>19 DEF CaptureLoops
<1>20. CASE ReadCompletes  BY <1>20 DEF ReadCompletes
<1>21. CASE CallbackTests  BY <1>21 DEF CallbackTests
<1>22. CASE CallbackCopies  BY <1>22 DEF CallbackCopies
<1>23. CASE CallbackFills  BY <1>23 DEF CallbackFills
<1>24. CASE ReadFreezes  BY <1>24 DEF ReadFreezes
<1> QED  BY <1>1, <1>2, <1>3, <1>4, <1>5, <1>6, <1>7, <1>8, <1>9, <1>10, <1>11, <1>12, <1>13,
  <1>14, <1>15, <1>16, <1>17, <1>18, <1>19, <1>20, <1>21, <1>22, <1>23, <1>24
     DEF Next, Main, CaptureThread

(* The buffers of the capture are counted by both sides.                   *)
LEMMA ThreadKept ==
  ASSUME IInv, Next PROVE ThreadInv'
<1> USE DEF IInv, transmission, thread, recording, results, Dies, Ended, ThreadInv, ShapeInv
<1>1. CASE CapeIsMissing  BY <1>1 DEF CapeIsMissing
<1>2. CASE ParseArguments  BY <1>2 DEF ParseArguments
<1>3. CASE CreateComponents  BY <1>3 DEF CreateComponents
<1>4. CASE ComponentIsMissing  BY <1>4 DEF ComponentIsMissing
<1>5. CASE PreloadTone  BY <1>5 DEF PreloadTone
<1>6. CASE StartTransmission  BY <1>6 DEF StartTransmission
<1>7. CASE ResetRecording  BY <1>7 DEF ResetRecording
<1>8. CASE StartCapture  BY Sizes, <1>8 DEF StartCapture
<1>9. CASE ClearFilled  BY <1>9 DEF ClearFilled
<1>10. CASE WaitSeesFilled  BY <1>10 DEF WaitSeesFilled
<1>11. CASE WaitIsAborted  BY <1>11 DEF WaitIsAborted
<1>12. CASE StopCapture  BY <1>12 DEF StopCapture
<1>13. CASE JoinCapture  BY <1>13 DEF JoinCapture
<1>14. CASE StopTransmission  BY <1>14 DEF StopTransmission
<1>15. CASE Measure  BY <1>15 DEF Measure
<1>16. CASE Release  BY <1>16 DEF Release
<1>17. CASE SaveFiles  BY <1>17 DEF SaveFiles
<1>18. CASE FillFromPreload  BY <1>18 DEF FillFromPreload
<1>19. CASE CaptureLoops
  <2>1. UNCHANGED <<main, iteration>> /\ rx = "loop" /\ main # "capture"  BY <1>19 DEF CaptureLoops
  <2>2. \/ rx' = "off" /\ captured' = captured
        \/ captured < MaxBuffers /\ rx' = "read" /\ captured' = captured + 1
    <3>1. CASE end  BY <1>19, <3>1, Zenon DEF CaptureLoops
    <3>2. CASE ~ end  BY <1>19, <3>2, Zenon DEF CaptureLoops
    <3> QED  BY <3>1, <3>2
  <2> QED  BY <2>1, <2>2, Sizes
<1>20. CASE ReadCompletes  BY <1>20 DEF ReadCompletes
<1>21. CASE CallbackTests  BY <1>21 DEF CallbackTests
<1>22. CASE CallbackCopies  BY <1>22 DEF CallbackCopies
<1>23. CASE CallbackFills  BY <1>23 DEF CallbackFills
<1>24. CASE ReadFreezes  BY <1>24 DEF ReadFreezes
<1> QED  BY <1>1, <1>2, <1>3, <1>4, <1>5, <1>6, <1>7, <1>8, <1>9, <1>10, <1>11, <1>12, <1>13,
  <1>14, <1>15, <1>16, <1>17, <1>18, <1>19, <1>20, <1>21, <1>22, <1>23, <1>24
     DEF Next, Main, CaptureThread

(* Who dies, of what, and what is at rest.                                 *)
LEMMA EndKept ==
  ASSUME IInv, Next PROVE EndInv'
<1> USE DEF IInv, transmission, thread, recording, results, Dies, Ended, EndInv, ShapeInv
<1>1. CASE CapeIsMissing  BY <1>1 DEF CapeIsMissing
<1>2. CASE ParseArguments  BY <1>2 DEF ParseArguments
<1>3. CASE CreateComponents  BY <1>3 DEF CreateComponents
<1>4. CASE ComponentIsMissing  BY <1>4 DEF ComponentIsMissing
<1>5. CASE PreloadTone  BY <1>5 DEF PreloadTone
<1>6. CASE StartTransmission  BY <1>6 DEF StartTransmission
<1>7. CASE ResetRecording  BY <1>7 DEF ResetRecording
<1>8. CASE StartCapture  BY <1>8 DEF StartCapture
<1>9. CASE ClearFilled  BY <1>9 DEF ClearFilled
<1>10. CASE WaitSeesFilled  BY <1>10 DEF WaitSeesFilled
<1>11. CASE WaitIsAborted  BY <1>11 DEF WaitIsAborted
<1>12. CASE StopCapture  BY <1>12 DEF StopCapture
<1>13. CASE JoinCapture  BY <1>13 DEF JoinCapture
<1>14. CASE StopTransmission  BY <1>14 DEF StopTransmission
<1>15. CASE Measure  BY <1>15 DEF Measure
<1>16. CASE Release  BY <1>16 DEF Release
<1>17. CASE SaveFiles  BY <1>17 DEF SaveFiles
<1>18. CASE FillFromPreload  BY <1>18 DEF FillFromPreload
<1>19. CASE CaptureLoops  BY <1>19 DEF CaptureLoops
<1>20. CASE ReadCompletes  BY <1>20 DEF ReadCompletes
<1>21. CASE CallbackTests  BY <1>21 DEF CallbackTests
<1>22. CASE CallbackCopies  BY <1>22 DEF CallbackCopies
<1>23. CASE CallbackFills  BY <1>23 DEF CallbackFills
<1>24. CASE ReadFreezes  BY <1>24 DEF ReadFreezes
<1> QED  BY <1>1, <1>2, <1>3, <1>4, <1>5, <1>6, <1>7, <1>8, <1>9, <1>10, <1>11, <1>12, <1>13,
  <1>14, <1>15, <1>16, <1>17, <1>18, <1>19, <1>20, <1>21, <1>22, <1>23, <1>24
     DEF Next, Main, CaptureThread

LEMMA FlagsKept ==
  ASSUME IInv, Next PROVE FlagsInv'
<1> USE DEF IInv, transmission, thread, recording, results, Dies, Ended, FlagsInv
<1>1. CASE CapeIsMissing  BY <1>1 DEF CapeIsMissing
<1>2. CASE ParseArguments  BY <1>2 DEF ParseArguments
<1>3. CASE CreateComponents  BY <1>3 DEF CreateComponents
<1>4. CASE ComponentIsMissing  BY <1>4 DEF ComponentIsMissing
<1>5. CASE PreloadTone  BY <1>5 DEF PreloadTone
<1>6. CASE StartTransmission  BY <1>6 DEF StartTransmission
<1>7. CASE ResetRecording  BY <1>7 DEF ResetRecording
<1>8. CASE StartCapture  BY <1>8 DEF StartCapture
<1>9. CASE ClearFilled  BY <1>9 DEF ClearFilled
<1>10. CASE WaitSeesFilled  BY <1>10 DEF WaitSeesFilled
<1>11. CASE WaitIsAborted  BY <1>11 DEF WaitIsAborted
<1>12. CASE StopCapture  BY <1>12 DEF StopCapture
<1>13. CASE JoinCapture  BY <1>13 DEF JoinCapture
<1>14. CASE StopTransmission  BY <1>14 DEF StopTransmission
<1>15. CASE Measure  BY <1>15 DEF Measure
<1>16. CASE Release  BY <1>16 DEF Release
<1>17. CASE SaveFiles  BY <1>17 DEF SaveFiles
<1>18. CASE FillFromPreload  BY <1>18 DEF FillFromPreload
<1>19. CASE CaptureLoops  BY <1>19 DEF CaptureLoops
<1>20. CASE ReadCompletes  BY <1>20 DEF ReadCompletes
<1>21. CASE CallbackTests  BY <1>21 DEF CallbackTests
<1>22. CASE CallbackCopies  BY <1>22 DEF CallbackCopies
<1>23. CASE CallbackFills  BY <1>23 DEF CallbackFills
<1>24. CASE ReadFreezes  BY <1>24 DEF ReadFreezes
<1> QED  BY <1>1, <1>2, <1>3, <1>4, <1>5, <1>6, <1>7, <1>8, <1>9, <1>10, <1>11, <1>12, <1>13,
  <1>14, <1>15, <1>16, <1>17, <1>18, <1>19, <1>20, <1>21, <1>22, <1>23, <1>24
     DEF Next, Main, CaptureThread

(* What CallbackCopies stores: the first samples of the buffer just read, after  *)
(* the ones that are stored.                                                    *)
Copied == IF RxSamples - cur.at > Chunk THEN Chunk ELSE RxSamples - cur.at
Heard(k) == Sample(Current, (captured - 1) * Chunk + k)

LEMMA CopiesStore ==
  ASSUME IInv, CallbackCopies
  PROVE  /\ Copied \in 0..RxSamples - cur.at /\ cur.at \in 0..RxSamples
         /\ cur' = [buffer |-> target, at |-> cur.at + Copied]
         /\ \A k \in 1..Copied : Heard(k) \in Samples
         /\ memory' \in [{"first", "second"} -> [1..RxSamples -> Samples]]
         /\ memory'[held] = memory[held]
         /\ \A k \in 1..RxSamples :
              memory'[target][k] = IF k \in cur.at + 1..cur.at + Copied THEN Heard(k - cur.at)
                                   ELSE memory[target][k]
<1>1. /\ cur \in [buffer : {"first", "second"}, at : 0..RxSamples] /\ cur.buffer = target
      /\ target # held /\ held \in {"first", "second"} /\ target \in {"first", "second"}
      /\ memory \in [{"first", "second"} -> [1..RxSamples -> Samples]]
      /\ captured \in Nat
  BY Sizes DEF IInv, ShapeInv, EndInv, ThreadInv
<1>2. RxSamples \in Nat \ {0} /\ Chunk \in Nat \ {0}  BY Sizes
<1>3. Copied \in 0..RxSamples - cur.at /\ cur.at \in 0..RxSamples  BY <1>1, <1>2 DEF Copied
<1>4. on
  BY DEF CallbackCopies, IInv, ThreadInv, BufferInv, Ended, Transmitting
<1>5. Current \in Nat
  <2>1. Plausible(test) /\ tone \in 0..Iterations - 1
    <3>1. main \in Transmitting  BY DEF CallbackCopies, IInv, ThreadInv, Ended, Transmitting
    <3>2. Plausible(test) /\ tone \in Nat /\ tone < Iterations
      BY <3>1 DEF IInv, SweepInv, Transmitting
    <3> QED  BY <3>2, TonesAreNotNegative
  <2> QED  BY <2>1, TonesAreNotNegative DEF Current
<1>6. \A k \in 1..Copied : Heard(k) \in Samples
  <2>1. (captured - 1) * Chunk \in Int  BY <1>1, <1>2
  <2> QED  BY <1>3, <1>5, <2>1 DEF Heard, Sample, Samples
<1> DEFINE New == [k \in 1..RxSamples |-> IF k \in cur.at + 1..cur.at + Copied
                     THEN Heard(k - cur.at) ELSE memory[target][k]]
<1>7. memory' = [memory EXCEPT ![target] = New]
  BY <1>1, <1>4, Zenon DEF CallbackCopies, Copied, Heard, Current
<1>8. cur' = [buffer |-> target, at |-> cur.at + Copied]
  <2>1. cur' = [cur EXCEPT !.at = @ + Copied]  BY Zenon DEF CallbackCopies, Copied
  <2> QED  BY <1>1, <2>1
<1>9. New \in [1..RxSamples -> Samples]
  <2> SUFFICES ASSUME NEW k \in 1..RxSamples
               PROVE (IF k \in cur.at + 1..cur.at + Copied THEN Heard(k - cur.at)
                      ELSE memory[target][k]) \in Samples
    OBVIOUS
  <2>1. memory[target][k] \in Samples  BY <1>1
  <2>2. k \in cur.at + 1..cur.at + Copied => k - cur.at \in 1..Copied  BY <1>2, <1>3
  <2> QED  BY <1>6, <2>1, <2>2
<1> HIDE DEF New
<1>10. memory' \in [{"first", "second"} -> [1..RxSamples -> Samples]]
       /\ memory'[held] = memory[held] /\ memory'[target] = New
  BY <1>1, <1>7, <1>9
<1> QED  BY <1>3, <1>6, <1>8, <1>10 DEF New

(* The types.                                                              *)
LEMMA ShapeKept ==
  ASSUME IInv, Next PROVE ShapeInv'
<1> USE DEF IInv, transmission, thread, recording, results, Dies, Ended, ShapeInv, EndInv,
  Transmitting
<1>1. CASE CapeIsMissing  BY <1>1 DEF CapeIsMissing
<1>2. CASE ParseArguments  BY <1>2 DEF ParseArguments
<1>3. CASE CreateComponents  BY <1>3 DEF CreateComponents
<1>4. CASE ComponentIsMissing  BY <1>4 DEF ComponentIsMissing
<1>5. CASE PreloadTone  BY <1>5 DEF PreloadTone
<1>6. CASE StartTransmission  BY <1>6 DEF StartTransmission
<1>7. CASE ResetRecording
  <2>1. UNCHANGED <<memory, target, held, rx>> /\ main' = "capture"  BY <1>7 DEF ResetRecording
  <2>2. cur' = [buffer |-> target, at |-> 0]  BY <1>7 DEF ResetRecording
  <2> QED  BY <2>1, <2>2, Sizes
<1>8. CASE StartCapture  BY <1>8 DEF StartCapture
<1>9. CASE ClearFilled  BY <1>9 DEF ClearFilled
<1>10. CASE WaitSeesFilled  BY <1>10 DEF WaitSeesFilled
<1>11. CASE WaitIsAborted  BY <1>11 DEF WaitIsAborted
<1>12. CASE StopCapture  BY <1>12 DEF StopCapture
<1>13. CASE JoinCapture  BY <1>13 DEF JoinCapture
<1>14. CASE StopTransmission  BY <1>14 DEF StopTransmission
<1>15. CASE Measure
  <2>1. UNCHANGED <<memory, rx>> /\ main' \in {"preload", "release"}  BY <1>15 DEF Measure
  <2>2. CASE HoldsThisTone
    <3>1. held' = target /\ target' = held /\ cur' = [buffer |-> held, at |-> 0]
      BY <1>15, <2>2 DEF Measure
    <3> QED  BY <2>1, <3>1, Sizes
  <2>3. CASE ~ HoldsThisTone
    <3>1. UNCHANGED <<held, target, cur>>  BY <1>15, <2>3 DEF Measure
    <3> QED  BY <2>1, <3>1
  <2> QED  BY <2>2, <2>3
<1>16. CASE Release  BY <1>16 DEF Release
<1>17. CASE SaveFiles  BY <1>17 DEF SaveFiles
<1>18. CASE FillFromPreload  BY <1>18 DEF FillFromPreload
<1>19. CASE CaptureLoops  BY <1>19 DEF CaptureLoops
<1>20. CASE ReadCompletes  BY <1>20 DEF ReadCompletes
<1>21. CASE CallbackTests  BY <1>21 DEF CallbackTests
<1>22. CASE CallbackCopies
  <2>1. UNCHANGED <<main, target, held>> /\ rx' = "full"  BY <1>22 DEF CallbackCopies
  <2>2. /\ Copied \in 0..RxSamples - cur.at /\ cur.at \in 0..RxSamples
        /\ cur' = [buffer |-> target, at |-> cur.at + Copied]
        /\ memory' \in [{"first", "second"} -> [1..RxSamples -> Samples]]
    BY <1>22, CopiesStore
  <2>3. cur.at + Copied \in 0..RxSamples  BY <2>2, Sizes
  <2>4. cur' \in [buffer : {"first", "second"}, at : 0..RxSamples]  BY <2>2, <2>3
  <2> QED  BY <2>1, <2>2, <2>4
<1>23. CASE CallbackFills  BY <1>23 DEF CallbackFills
<1>24. CASE ReadFreezes  BY <1>24 DEF ReadFreezes
<1> QED  BY <1>1, <1>2, <1>3, <1>4, <1>5, <1>6, <1>7, <1>8, <1>9, <1>10, <1>11, <1>12, <1>13,
  <1>14, <1>15, <1>16, <1>17, <1>18, <1>19, <1>20, <1>21, <1>22, <1>23, <1>24
     DEF Next, Main, CaptureThread

-----------------------------------------------------------------------------
(* The first invariant, of every step.                                     *)
LEMMA Inductive == Spec => []IInv
<1>1. IInv /\ UNCHANGED vars => IInv'
  <2> SUFFICES ASSUME IInv, UNCHANGED vars PROVE IInv'  OBVIOUS
  <2> USE DEF vars, transmission, thread, recording, results
  <2>1. ShapeInv'  BY DEF IInv, ShapeInv
  <2>2. FlagsInv'  BY Zenon DEF IInv, FlagsInv
  <2>3. SweepInv'  BY SettingsFixed DEF IInv, SweepInv, Plausible
  <2>4. BufferInv'  BY SettingsFixed DEF IInv, BufferInv
  <2>5. WaveInv'  BY DEF IInv, WaveInv, WaveContinues
  <2>6. ThreadInv'  BY DEF IInv, ThreadInv
  <2>7. EndInv'  BY DEF IInv, EndInv
  <2> QED  BY <2>1, <2>2, <2>3, <2>4, <2>5, <2>6, <2>7 DEF IInv
<1>2. IInv /\ Next => IInv'
  BY ShapeKept, FlagsKept, SweepKept, BufferKept, WaveKept, ThreadKept, EndKept DEF IInv
<1>3. IInv /\ [Next]_vars => IInv'  BY <1>1, <1>2
<1> QED  BY InitEstablishes, <1>3, PTL DEF Spec

(* The types are right, for buffers of any size and any sweep: the indexes of the  *)
(* buffers stay in them, and the two buffers of samples_adc remain two.            *)
THEOREM TypeCorrect == Spec => []TypeOK
<1>1. IInv => TypeOK
  <2> SUFFICES ASSUME IInv PROVE TypeOK  OBVIOUS
  <2>1. on \in BOOLEAN /\ end \in BOOLEAN /\ filled \in BOOLEAN  BY Zenon DEF IInv, FlagsInv
  <2>2. pos \in 0..len  BY DEF IInv, BufferInv
  <2>3. captured \in 0..MaxBuffers /\ iteration \in 0..MaxBuffers  BY Sizes DEF IInv, ThreadInv
  <2>4. {target, held, limit, cur.buffer} \subseteq DOMAIN memory /\ cur.at \in 0..RxSamples
    BY DEF IInv, ShapeInv, EndInv
  <2>5. /\ main \in Ended \cup {"start", "create", "preload", "transmit", "reset", "capture",
                   "clear", "wait", "stop", "join", "quiet", "measure", "release", "save"}
        /\ rx \in {"off", "loop", "read", "test", "copy", "full", "frozen"}
    BY DEF IInv, ShapeInv, Transmitting
  <2> QED  BY <2>1, <2>2, <2>3, <2>4, <2>5, Zenon DEF TypeOK
<1> QED  BY Inductive, <1>1, PTL

(* The tone is transmitted without jumps, whatever the sizes of the buffers and    *)
(* wherever the preloaded one ends (tx_fill_cycle_callback_preloaded).             *)
THEOREM NoJumps == Spec => []WaveContinues
<1>1. IInv => WaveContinues  BY DEF IInv, WaveInv
<1> QED  BY Inductive, <1>1, PTL

(* The program dies of nothing else, and its buffer overruns only for a tone whose *)
(* cycle is longer than it: for every other one calculate_best_number_of_cycles    *)
(* finds a whole number of cycles that fits.                                       *)
THEOREM KnownFailures == Spec => []FailuresAreKnown
<1>1. IInv => FailuresAreKnown
  BY DEF IInv, BufferInv, EndInv, ThreadInv, TooLong, Current, Transmitting, FailuresAreKnown
<1> QED  BY Inductive, <1>1, PTL

-----------------------------------------------------------------------------
(* The places of the main thread while samples_adc holds this tone.        *)
Recording == {"capture", "clear", "wait", "stop", "join", "quiet", "measure"}

(* The sample recorded last, and the buffers the callback has finished with. *)
LastRecorded == memory[target][cur.at].n
Done == IF rx \in {"read", "test", "copy", "frozen"} THEN captured - 1 ELSE captured

(* What is recorded is of this tone, and has no gaps.                      *)
RecordInv ==
  main \in Recording =>
    /\ \A k \in 1..cur.at :
         memory[target][k].tone = Current /\ memory[target][k].n > Discarded * Chunk
    /\ \A k \in 2..cur.at : memory[target][k].n = memory[target][k - 1].n + 1

(* Where the callback goes on it goes on with the next sample.             *)
ContinueInv ==
  /\ rx # "off" /\ (cur.at > 0 \/ rx \in {"copy", "full"}) => iteration > Discarded
  /\ rx # "off" /\ 0 < cur.at /\ cur.at < RxSamples /\ (~ filled \/ rx = "copy")
       => LastRecorded = Done * Chunk

(* samples_adc_filled is of this capture, or of the one before, which records nothing; *)
(* and past the wait the buffer is full or was given up.                       *)
WaitInv ==
  /\ main = "capture" => cur.at = 0
  /\ main = "clear" /\ filled => cur.at = RxSamples \/ (cur.at = 0 /\ rx \notin {"copy", "full"})
  /\ main = "wait" /\ filled => cur.at = RxSamples
  /\ main \in {"stop", "join", "quiet", "measure"} => aborted \/ cur.at = RxSamples

Points ==
  [tone : Int, mean : Int, over : SUBSET {"given", "tx_pga", "rx_pga1", "rx_pga2"},
   used : Seq(Samples), aborted : BOOLEAN]

PointsInv ==
  /\ points \in Seq(Points) /\ Len(points) = tone
  /\ PointsAreMeasured

(* What samples_adc_data_to_save holds after the tones measured so far.    *)
HeldInv ==
  IF \A k \in 0..tone - 1 : ~ MayBeHeld(k)
  THEN heldTone = 0 /\ memory[held] = Filled(Zero)
  ELSE \E h \in 0..tone - 1 :
         /\ MayBeHeld(h) /\ HeldAmong(tone, h)
         /\ heldTone = Tone(h)
         /\ points[h + 1].used = SubSeq(memory[held], 1, Len(points[h + 1].used))

FilesInv == main = "end" => files.of = heldTone /\ files.capture = memory[held]

ResultsInv ==
  aborted \in BOOLEAN /\ RecordInv /\ ContinueInv /\ WaitInv /\ PointsInv /\ HeldInv /\ FilesInv

-----------------------------------------------------------------------------
LEMMA RecordStays ==
  ASSUME IInv, RecordInv, UNCHANGED <<test, tone, memory, target, cur>>,
         main' \in Recording => main \in Recording
  PROVE  RecordInv'
<1>1. Current' = Current  BY SettingsFixed
<1> QED  BY <1>1 DEF RecordInv

LEMMA PointsStay ==
  ASSUME PointsInv, UNCHANGED <<test, tone, points>> PROVE PointsInv'
<1>1. \A k : Tone(k)' = Tone(k)  BY SettingsFixed
<1>2. Blocks' = Blocks  BY DEF Blocks
<1> QED  BY <1>1, <1>2 DEF PointsInv, PointsAreMeasured

LEMMA HeldAmongStays ==
  ASSUME test' = test, NEW n, NEW h PROVE HeldAmong(n, h)' <=> HeldAmong(n, h)
<1>1. \A k : Tone(k)' = Tone(k) /\ (MayBeHeld(k)' <=> MayBeHeld(k))  BY SettingsFixed
<1> QED  BY <1>1 DEF HeldAmong

LEMMA HeldStays ==
  ASSUME HeldInv, UNCHANGED <<test, tone, points, heldTone>>, memory'[held'] = memory[held]
  PROVE  HeldInv'
<1>1. \A k : Tone(k)' = Tone(k) /\ (MayBeHeld(k)' <=> MayBeHeld(k))  BY SettingsFixed
<1>2. \A h : HeldAmong(tone, h)' <=> HeldAmong(tone, h)  BY HeldAmongStays
<1> QED  BY <1>1, <1>2 DEF HeldInv

(* CallbackCopies records; the other steps of a capture leave the record alone. *)
LEMMA RecordKept ==
  ASSUME IInv, IInv', ResultsInv, Next PROVE RecordInv'
<1> USE DEF IInv, transmission, thread, recording, results, Dies, Ended, ResultsInv, Recording
<1>1. CASE CapeIsMissing  BY RecordStays, <1>1 DEF CapeIsMissing
<1>2. CASE ParseArguments
  <2>1. main' \notin Recording  BY <1>2 DEF ParseArguments
  <2> QED  BY <2>1 DEF RecordInv
<1>3. CASE CreateComponents  BY RecordStays, <1>3 DEF CreateComponents
<1>4. CASE ComponentIsMissing  BY RecordStays, <1>4 DEF ComponentIsMissing
<1>5. CASE PreloadTone  BY RecordStays, <1>5 DEF PreloadTone
<1>6. CASE StartTransmission  BY RecordStays, <1>6 DEF StartTransmission
<1>7. CASE ResetRecording
  <2>1. cur' = [buffer |-> target, at |-> 0]  BY <1>7 DEF ResetRecording
  <2>2. cur'.at = 0  BY <2>1
  <2> QED  BY <2>2 DEF RecordInv
<1>8. CASE StartCapture  BY RecordStays, <1>8 DEF StartCapture
<1>9. CASE ClearFilled  BY RecordStays, <1>9 DEF ClearFilled
<1>10. CASE WaitSeesFilled  BY RecordStays, <1>10 DEF WaitSeesFilled
<1>11. CASE WaitIsAborted  BY RecordStays, <1>11 DEF WaitIsAborted
<1>12. CASE StopCapture  BY RecordStays, <1>12 DEF StopCapture
<1>13. CASE JoinCapture  BY RecordStays, <1>13 DEF JoinCapture
<1>14. CASE StopTransmission  BY RecordStays, <1>14 DEF StopTransmission
<1>15. CASE Measure
  <2>1. main' \notin Recording  BY <1>15 DEF Measure
  <2> QED  BY <2>1 DEF RecordInv
<1>16. CASE Release  BY RecordStays, <1>16 DEF Release
<1>17. CASE SaveFiles  BY RecordStays, <1>17 DEF SaveFiles
<1>18. CASE FillFromPreload  BY RecordStays, <1>18 DEF FillFromPreload
<1>19. CASE CaptureLoops  BY RecordStays, <1>19 DEF CaptureLoops
<1>20. CASE ReadCompletes  BY RecordStays, <1>20 DEF ReadCompletes
<1>21. CASE CallbackTests  BY RecordStays, <1>21 DEF CallbackTests
<1>22. CASE CallbackCopies
  <2>1. UNCHANGED <<test, tone, main, target>> /\ rx = "copy" /\ main \in Recording
    BY <1>22 DEF CallbackCopies, IInv, ThreadInv
  <2>2. Current' = Current  BY <2>1, SettingsFixed
  <2> DEFINE at == cur.at   M == memory[target]   N == memory'[target]   c == captured - 1
  <2>3. /\ Copied \in 0..RxSamples - at /\ at \in 0..RxSamples /\ cur'.at = at + Copied
        /\ \A k \in 1..RxSamples : N[k] = IF k \in at + 1..at + Copied THEN Heard(k - at) ELSE M[k]
    BY <1>22, CopiesStore
  <2>4. /\ captured \in Nat /\ iteration \in Nat /\ iteration > Discarded /\ iteration <= captured
        /\ RxSamples \in Nat \ {0} /\ Chunk \in Nat \ {0} /\ Discarded \in Nat
    BY <2>1, Sizes DEF IInv, ThreadInv, ContinueInv, Discarded
  <2>5. c \in Nat /\ Discarded * Chunk <= c * Chunk /\ c * Chunk \in Nat /\ Discarded * Chunk \in Nat
    BY <2>4, ProductsGrow, ProductIsNat
  <2>6. /\ \A k \in 1..at : M[k].tone = Current /\ M[k].n > Discarded * Chunk
        /\ \A k \in 2..at : M[k].n = M[k - 1].n + 1
    BY <2>1 DEF RecordInv
  <2>7. 0 < at /\ at < RxSamples => M[at].n = c * Chunk
    BY <2>1 DEF ContinueInv, LastRecorded, Done
  <2> DEFINE p == c * Chunk   d == Discarded * Chunk
  <2>8. \A k \in at + 1..at + Copied : N[k].tone = Current /\ N[k].n = p + (k - at)
    <3> SUFFICES ASSUME NEW k \in at + 1..at + Copied
                 PROVE N[k].tone = Current /\ N[k].n = p + (k - at)
      OBVIOUS
    <3>1. k \in 1..RxSamples  BY <2>3, <2>4
    <3>2. N[k] = Heard(k - at)  BY <2>3, <3>1
    <3> QED  BY <3>2 DEF Heard, Sample
  <2>9. \A k \in 1..at : N[k] = M[k]  BY <2>3, <2>4
  <2>10. M \in [1..RxSamples -> Samples] /\ at \in Nat /\ Copied \in Nat /\ at + Copied <= RxSamples
    <3>1. at \in Nat /\ Copied \in Nat /\ at + Copied <= RxSamples  BY <2>3, <2>4
    <3>2. target \in {"first", "second"} /\ memory \in [{"first", "second"} -> [1..RxSamples -> Samples]]
      BY DEF IInv, ShapeInv
    <3> QED  BY <3>1, <3>2
  <2>11. \A k \in 1..at : M[k].n \in Int
    <3> SUFFICES ASSUME NEW k \in 1..at PROVE M[k].n \in Int  OBVIOUS
    <3>1. M[k] \in Samples  BY <2>4, <2>10
    <3> QED  BY <3>1 DEF Samples
  <2> HIDE DEF at, M, N, p, d
  <2>p. p \in Nat /\ d \in Nat /\ d <= p  BY <2>5 DEF p, d
  <2>q. 0 < at /\ at < RxSamples => M[at].n = p  BY <2>7 DEF p
  <2>r. \A k \in 1..at : M[k].tone = Current /\ M[k].n > d  BY <2>6 DEF d
  <2>s. \A k \in 2..at : M[k].n = M[k - 1].n + 1  BY <2>6
  <2>12. ASSUME NEW k \in 1..at + Copied PROVE N[k].tone = Current /\ N[k].n > d
    <3>1. CASE k <= at  BY <2>9, <2>10, <2>r, <3>1
    <3>2. CASE k > at  BY <2>8, <2>10, <2>p, <3>2
    <3> QED  BY <2>10, <3>1, <3>2
  <2>13. ASSUME NEW k \in 2..at + Copied PROVE N[k].n = N[k - 1].n + 1
    <3>1. CASE k <= at  BY <2>9, <2>10, <2>s, <3>1
    <3>2. CASE k = at + 1
      <4>1. N[k].n = p + 1  BY <2>8, <2>10, <2>p, <3>2
      <4>2. N[k - 1].n = M[at].n  BY <2>9, <2>10, <3>2
      <4>3. M[at].n = p  BY <2>4, <2>q, <2>10, <3>2
      <4> QED  BY <4>1, <4>2, <4>3
    <3>3. CASE k > at + 1
      <4>1. N[k].n = p + (k - at) /\ N[k - 1].n = p + (k - 1 - at)  BY <2>8, <2>10, <3>3
      <4> QED  BY <2>10, <2>p, <4>1
    <3> QED  BY <2>10, <3>1, <3>2, <3>3
  <2>14. target' = target /\ cur'.at = at + Copied  BY <2>1, <2>3 DEF at
  <2> QED  BY <2>2, <2>12, <2>13, <2>14 DEF RecordInv, N, d
<1>23. CASE CallbackFills  BY RecordStays, <1>23 DEF CallbackFills
<1>24. CASE ReadFreezes  BY RecordStays, <1>24 DEF ReadFreezes
<1> QED  BY <1>1, <1>2, <1>3, <1>4, <1>5, <1>6, <1>7, <1>8, <1>9, <1>10, <1>11, <1>12, <1>13,
  <1>14, <1>15, <1>16, <1>17, <1>18, <1>19, <1>20, <1>21, <1>22, <1>23, <1>24
     DEF Next, Main, CaptureThread

LEMMA ContinueStays ==
  ASSUME ContinueInv, UNCHANGED <<rx, captured, iteration, filled, memory, target, cur>>
  PROVE  ContinueInv'
<1>1. Done' = Done /\ LastRecorded' = LastRecorded  BY DEF Done, LastRecorded
<1>2. filled' <=> filled  BY Zenon
<1> QED  BY <1>1, <1>2 DEF ContinueInv

(* The callback finishes with a buffer when it has copied it.              *)
LEMMA ContinueKept ==
  ASSUME IInv, IInv', ResultsInv, Next PROVE ContinueInv'
<1> USE DEF IInv, transmission, thread, recording, results, Dies, Ended, ResultsInv
<1>1. CASE CapeIsMissing  BY ContinueStays, <1>1 DEF CapeIsMissing
<1>2. CASE ParseArguments  BY ContinueStays, <1>2 DEF ParseArguments
<1>3. CASE CreateComponents  BY ContinueStays, <1>3 DEF CreateComponents
<1>4. CASE ComponentIsMissing  BY ContinueStays, <1>4 DEF ComponentIsMissing
<1>5. CASE PreloadTone  BY ContinueStays, <1>5 DEF PreloadTone
<1>6. CASE StartTransmission  BY ContinueStays, <1>6 DEF StartTransmission
<1>7. CASE ResetRecording
  <2>1. rx' = "off"  BY <1>7 DEF ResetRecording, ThreadInv
  <2> QED  BY <2>1 DEF ContinueInv
<1>8. CASE StartCapture
  <2>1. UNCHANGED cur /\ main = "capture" /\ rx = "off"  BY <1>8 DEF StartCapture, ThreadInv
  <2>2. cur'.at = 0  BY <2>1 DEF WaitInv
  <2>3. rx' \in {"loop", "off"}  BY <1>8, <2>1 DEF StartCapture
  <2> QED  BY <2>2, <2>3 DEF ContinueInv
<1>9. CASE ClearFilled
  <2>1. UNCHANGED <<iteration, memory, target, cur>>  BY <1>9 DEF ClearFilled
  <2>2. LastRecorded' = LastRecorded  BY <2>1 DEF LastRecorded
  <2>3. UNCHANGED <<rx, captured>> /\ main = "clear"  BY <1>9 DEF ClearFilled
  <2>4. Done' = Done  BY <2>3 DEF Done
  <2>5. CASE filled  BY <2>1, <2>3, <2>5, Sizes DEF ContinueInv, WaitInv
  <2>6. CASE ~ filled  BY <2>1, <2>2, <2>3, <2>4, <2>6 DEF ContinueInv
  <2> QED  BY <2>5, <2>6
<1>10. CASE WaitSeesFilled  BY ContinueStays, <1>10 DEF WaitSeesFilled
<1>11. CASE WaitIsAborted
  <2>1. UNCHANGED <<iteration, memory, target, cur>>  BY <1>11 DEF WaitIsAborted
  <2>2. LastRecorded' = LastRecorded  BY <2>1 DEF LastRecorded
  <2>3. UNCHANGED <<rx, captured>> /\ ~ filled  BY <1>11 DEF WaitIsAborted
  <2>4. Done' = Done  BY <2>3 DEF Done
  <2> QED  BY <2>1, <2>2, <2>3, <2>4 DEF ContinueInv
<1>12. CASE StopCapture  BY ContinueStays, <1>12 DEF StopCapture
<1>13. CASE JoinCapture  BY ContinueStays, <1>13 DEF JoinCapture
<1>14. CASE StopTransmission  BY ContinueStays, <1>14 DEF StopTransmission
<1>15. CASE Measure
  <2>1. rx' = "off"  BY <1>15 DEF Measure, ThreadInv
  <2> QED  BY <2>1 DEF ContinueInv
<1>16. CASE Release  BY ContinueStays, <1>16 DEF Release
<1>17. CASE SaveFiles  BY ContinueStays, <1>17 DEF SaveFiles
<1>18. CASE FillFromPreload  BY ContinueStays, <1>18 DEF FillFromPreload
<1>19. CASE CaptureLoops
  <2>1. UNCHANGED <<iteration, memory, target, cur>>  BY <1>19 DEF CaptureLoops
  <2>2. LastRecorded' = LastRecorded  BY <2>1 DEF LastRecorded
  <2>3. rx = "loop" /\ (filled' <=> filled) /\ captured \in Nat
    <3>1. rx = "loop" /\ (filled' <=> filled)  BY <1>19, Zenon DEF CaptureLoops
    <3>2. captured \in Nat  BY Sizes DEF ThreadInv
    <3> QED  BY <3>1, <3>2
  <2>4. rx' = "off" \/ (rx' = "read" /\ captured' = captured + 1)  BY <1>19 DEF CaptureLoops
  <2>5. CASE rx' = "off"  BY <2>5 DEF ContinueInv
  <2>6. CASE rx' = "read" /\ captured' = captured + 1
    <3>1. captured' - 1 = captured  BY <2>3, <2>6
    <3>2. Done' = Done  BY <2>3, <2>6, <3>1 DEF Done
    <3> QED  BY <2>1, <2>2, <2>3, <2>6, <3>2 DEF ContinueInv
  <2> QED  BY <2>4, <2>5, <2>6
<1>20. CASE ReadCompletes
  <2>1. UNCHANGED <<iteration, memory, target, cur>>  BY <1>20 DEF ReadCompletes
  <2>2. LastRecorded' = LastRecorded  BY <2>1 DEF LastRecorded
  <2>3. rx = "read" /\ rx' = "test" /\ UNCHANGED captured  BY <1>20 DEF ReadCompletes
  <2>4. filled' <=> filled  BY <1>20, Zenon DEF ReadCompletes
  <2>5. Done' = Done  BY <2>3 DEF Done
  <2> QED  BY <2>1, <2>2, <2>3, <2>4, <2>5 DEF ContinueInv
<1>21. CASE CallbackTests
  <2>1. UNCHANGED <<captured, memory, target, cur>> /\ rx = "test" /\ iteration' = iteration + 1
    BY <1>21 DEF CallbackTests
  <2>2. LastRecorded' = LastRecorded /\ (filled' <=> filled)
    BY <1>21, <2>1 DEF LastRecorded, CallbackTests
  <2>3. iteration \in Nat /\ Discarded \in Nat /\ cur.at \in Nat
    BY Sizes DEF ThreadInv, ShapeInv, Discarded
  <2>4. CASE iteration < Discarded
    <3>1. rx' = "loop" /\ ~ (cur.at > 0)  BY <1>21, <2>1, <2>3, <2>4 DEF CallbackTests, ContinueInv
    <3> QED  BY <2>1, <2>3, <3>1 DEF ContinueInv
  <2>5. CASE ~ (iteration < Discarded) /\ filled
    <3>1. rx' = "loop" /\ filled'  BY <1>21, <2>2, <2>5 DEF CallbackTests
    <3> QED  BY <2>1, <2>3, <2>5, <3>1 DEF ContinueInv
  <2>6. CASE ~ (iteration < Discarded) /\ ~ filled
    <3>1. rx' = "copy"  BY <1>21, <2>6 DEF CallbackTests
    <3>2. Done' = Done  BY <2>1, <3>1 DEF Done
    <3> QED  BY <2>1, <2>2, <2>3, <2>6, <3>1, <3>2 DEF ContinueInv
  <2> QED  BY <2>4, <2>5, <2>6
<1>22. CASE CallbackCopies
  <2>1. UNCHANGED <<target, iteration, captured, filled>> /\ rx = "copy" /\ rx' = "full"
    BY <1>22 DEF CallbackCopies
  <2> DEFINE at == cur.at   M == memory[target]   N == memory'[target]
  <2>2. /\ Copied \in 0..RxSamples - at /\ at \in 0..RxSamples /\ cur'.at = at + Copied
        /\ \A k \in 1..RxSamples : N[k] = IF k \in at + 1..at + Copied THEN Heard(k - at) ELSE M[k]
    BY <1>22, CopiesStore
  <2>3. iteration' > Discarded  BY <2>1 DEF ContinueInv
  <2>4. RxSamples \in Nat \ {0} /\ Chunk \in Nat \ {0} /\ captured \in Nat
    BY Sizes DEF IInv, ThreadInv
  <2>5. ASSUME at + Copied < RxSamples PROVE N[at + Copied].n = captured * Chunk
    <3>1. Copied = Chunk  BY <2>2, <2>4, <2>5 DEF Copied
    <3>2. N[at + Copied] = Heard(Chunk)  BY <2>2, <2>4, <2>5, <3>1
    <3>3. N[at + Copied].n = (captured - 1) * Chunk + Chunk  BY <3>2 DEF Heard, Sample
    <3>4. (captured - 1) * Chunk + Chunk = captured * Chunk  BY <2>4
    <3> QED  BY <3>3, <3>4
  <2>6. Done' = captured  BY <2>1 DEF Done
  <2>7. LastRecorded' = N[at + Copied].n  BY <2>1, <2>2 DEF LastRecorded
  <2> QED  BY <2>1, <2>2, <2>3, <2>4, <2>5, <2>6, <2>7 DEF ContinueInv
<1>23. CASE CallbackFills
  <2>1. UNCHANGED <<iteration, memory, target, cur>>  BY <1>23 DEF CallbackFills
  <2>2. LastRecorded' = LastRecorded  BY <2>1 DEF LastRecorded
  <2>3. UNCHANGED captured /\ rx = "full" /\ rx' = "loop"  BY <1>23 DEF CallbackFills
  <2>4. filled' <=> (filled \/ cur.at = RxSamples)  BY <1>23, Zenon DEF CallbackFills
  <2>5. Done' = Done  BY <2>3 DEF Done
  <2> QED  BY <2>1, <2>2, <2>3, <2>4, <2>5 DEF ContinueInv
<1>24. CASE ReadFreezes
  <2>1. UNCHANGED <<iteration, memory, target, cur>>  BY <1>24 DEF ReadFreezes
  <2>2. LastRecorded' = LastRecorded  BY <2>1 DEF LastRecorded
  <2>3. rx = "read" /\ rx' = "frozen" /\ UNCHANGED captured  BY <1>24 DEF ReadFreezes
  <2>4. filled' <=> filled  BY <1>24, Zenon DEF ReadFreezes
  <2>5. Done' = Done  BY <2>3 DEF Done
  <2> QED  BY <2>1, <2>2, <2>3, <2>4, <2>5 DEF ContinueInv
<1> QED  BY <1>1, <1>2, <1>3, <1>4, <1>5, <1>6, <1>7, <1>8, <1>9, <1>10, <1>11, <1>12, <1>13,
  <1>14, <1>15, <1>16, <1>17, <1>18, <1>19, <1>20, <1>21, <1>22, <1>23, <1>24
     DEF Next, Main, CaptureThread

(* samples_adc_filled, before and after the main thread clears it.         *)
LEMMA WaitKept ==
  ASSUME IInv, IInv', ResultsInv, Next PROVE WaitInv'
<1> USE DEF IInv, transmission, thread, recording, results, Dies, Ended, ResultsInv, WaitInv
<1>1. CASE CapeIsMissing  BY <1>1 DEF CapeIsMissing
<1>2. CASE ParseArguments  BY <1>2 DEF ParseArguments
<1>3. CASE CreateComponents  BY <1>3 DEF CreateComponents
<1>4. CASE ComponentIsMissing  BY <1>4 DEF ComponentIsMissing
<1>5. CASE PreloadTone  BY <1>5 DEF PreloadTone
<1>6. CASE StartTransmission  BY <1>6 DEF StartTransmission
<1>7. CASE ResetRecording  BY <1>7 DEF ResetRecording
<1>8. CASE StartCapture  BY <1>8 DEF StartCapture
<1>9. CASE ClearFilled  BY <1>9 DEF ClearFilled
<1>10. CASE WaitSeesFilled  BY <1>10 DEF WaitSeesFilled
<1>11. CASE WaitIsAborted  BY <1>11 DEF WaitIsAborted
<1>12. CASE StopCapture  BY <1>12 DEF StopCapture
<1>13. CASE JoinCapture  BY <1>13 DEF JoinCapture
<1>14. CASE StopTransmission  BY <1>14 DEF StopTransmission
<1>15. CASE Measure  BY <1>15 DEF Measure
<1>16. CASE Release  BY <1>16 DEF Release
<1>17. CASE SaveFiles  BY <1>17 DEF SaveFiles
<1>18. CASE FillFromPreload  BY <1>18 DEF FillFromPreload
<1>19. CASE CaptureLoops  BY <1>19 DEF CaptureLoops
<1>20. CASE ReadCompletes  BY <1>20 DEF ReadCompletes
<1>21. CASE CallbackTests  BY <1>21 DEF CallbackTests
<1>22. CASE CallbackCopies
  <2>1. UNCHANGED <<main, aborted>> /\ rx = "copy" /\ main # "capture"
    BY <1>22 DEF CallbackCopies, ThreadInv
  <2>2. filled' <=> filled  BY <1>22, Zenon DEF CallbackCopies
  <2>3. /\ Copied \in 0..RxSamples - cur.at /\ cur.at \in 0..RxSamples
        /\ cur' = [buffer |-> target, at |-> cur.at + Copied]
    BY <1>22, CopiesStore
  <2>4. cur.at = RxSamples => cur'.at = RxSamples  BY <2>3, Sizes
  <2> QED  BY <2>1, <2>2, <2>4
<1>23. CASE CallbackFills  BY <1>23 DEF CallbackFills
<1>24. CASE ReadFreezes  BY <1>24 DEF ReadFreezes
<1> QED  BY <1>1, <1>2, <1>3, <1>4, <1>5, <1>6, <1>7, <1>8, <1>9, <1>10, <1>11, <1>12, <1>13,
  <1>14, <1>15, <1>16, <1>17, <1>18, <1>19, <1>20, <1>21, <1>22, <1>23, <1>24
     DEF Next, Main, CaptureThread

(* The mean of samples of one tone is the tone.                            *)
LEMMA MeanOfOneTone ==
  ASSUME NEW s \in Seq(Samples), NEW t, \A k \in 1..Len(s) : s[k].tone = t
  PROVE  AcMean(s) \in Int /\ (s # <<>> => AcMean(s) = t)
<1>1. CASE s = <<>>  BY <1>1 DEF AcMean, NotANumber
<1>2. CASE s # <<>>
  <2>1. DOMAIN s = 1..Len(s) /\ 1 \in 1..Len(s)  BY <1>2
  <2>2. s[1] \in Samples /\ s[1].tone = t  BY <2>1
  <2>3. AcMean(s) = s[1].tone  BY <1>2, <2>1, <2>2 DEF AcMean
  <2> QED  BY <2>2, <2>3 DEF Samples
<1> QED  BY <1>1, <1>2

(* The gains that are assumed are those of the blocks that are on.         *)
LEMMA GainsOfBlocks ==
  /\ Gains \in SUBSET {"given", "tx_pga", "rx_pga1", "rx_pga2"}
  /\ "rx_pga2" \in Gains <=> "rx" \in Blocks
<1>1. CASE test.calibration = "none"  BY <1>1 DEF Gains, Blocks
<1>2. CASE test.calibration = "rx"  BY <1>2 DEF Gains, Blocks
<1>3. CASE test.calibration \notin {"none", "rx"}  BY <1>3 DEF Gains, Blocks
<1> QED  BY <1>1, <1>2, <1>3

LEMMA PointIsTyped ==
  ASSUME NEW t \in Int, NEW m \in Int, NEW u \in Seq(Samples), NEW a \in BOOLEAN,
         NEW o \in SUBSET {"given", "tx_pga", "rx_pga1", "rx_pga2"}
  PROVE  [tone |-> t, mean |-> m, over |-> o, used |-> u, aborted |-> a] \in Points
BY DEF Points

LEMMA PointOfTone ==
  ASSUME IInv, ResultsInv, Measure,
         NEW used, used = SubSeq(memory[target], 1, cur.at)
  PROVE  /\ used \in Seq(Samples) /\ Len(used) = cur.at
         /\ Point(used) \in Points
         /\ Point(used).used = used /\ Point(used).tone = Current
         /\ used # <<>> => Point(used).mean = Current /\ used[1].n > Discarded * Chunk
         /\ \A j \in 2..Len(used) : used[j].n = used[j - 1].n + 1
         /\ Point(used).aborted \/ Len(used) = RxSamples
         /\ Point(used).over # {"given"} => ("rx_pga2" \in Point(used).over <=> "rx" \in Blocks)
<1>1. main = "measure"  BY DEF Measure
<1> DEFINE M == memory[target]   at == cur.at
<1>2. M \in [1..RxSamples -> Samples] /\ at \in 0..RxSamples /\ RxSamples \in Nat
  <2>1. target \in {"first", "second"} /\ memory \in [{"first", "second"} -> [1..RxSamples -> Samples]]
    BY DEF IInv, ShapeInv
  <2> QED  BY <2>1, Sizes DEF IInv, ShapeInv
<1>3. /\ \A k \in 1..at : M[k].tone = Current /\ M[k].n > Discarded * Chunk
      /\ \A k \in 2..at : M[k].n = M[k - 1].n + 1
  BY <1>1 DEF ResultsInv, RecordInv, Recording
<1>4. aborted \/ at = RxSamples  BY <1>1 DEF ResultsInv, WaitInv
<1>5. used = SubSeq(M, 1, at)  OBVIOUS
<1>6. Current \in Int
  <2>1. Plausible(test) /\ tone \in Nat /\ tone < Iterations  BY <1>1 DEF IInv, SweepInv
  <2>2. Iterations \in Nat /\ tone \in 0..Iterations - 1  BY <2>1, TonesAreNotNegative
  <2> QED  BY <2>1, <2>2, TonesAreNotNegative DEF Current
<1>a. aborted \in BOOLEAN  BY Zenon DEF ResultsInv
<1> HIDE DEF M, at
<1>7. /\ used \in Seq(Samples) /\ Len(used) = at
      /\ \A k \in 1..at : used[k] = M[k]
  <2>1. \A i \in 1..at : M[i] \in Samples  BY <1>2
  <2>2. /\ SubSeq(M, 1, at) \in Seq(Samples)
        /\ Len(SubSeq(M, 1, at)) = IF 1 <= at THEN at - 1 + 1 ELSE 0
        /\ \A i \in 1..at - 1 + 1 : SubSeq(M, 1, at)[i] = M[1 + i - 1]
    BY <1>2, <2>1, SubSeqProperties, SMT
  <2>3. Len(SubSeq(M, 1, at)) = at  BY <1>2, <2>2
  <2>4. ASSUME NEW k \in 1..at PROVE SubSeq(M, 1, at)[k] = M[k]
    <3>1. k \in 1..at - 1 + 1 /\ 1 + k - 1 = k  BY <1>2
    <3> QED  BY <2>2, <3>1
  <2> QED  BY <1>5, <2>2, <2>3, <2>4
<1>8. AcMean(used) \in Int /\ (used # <<>> => AcMean(used) = Current)
  <2>1. \A k \in 1..Len(used) : used[k].tone = Current  BY <1>3, <1>7
  <2> QED  BY <1>7, <2>1, MeanOfOneTone
<1>9. used # <<>> => used[1].n > Discarded * Chunk
  <2>1. used # <<>> => 1 \in 1..at  BY <1>2, <1>7
  <2> QED  BY <1>3, <1>7, <2>1
<1>10. \A j \in 2..Len(used) : used[j].n = used[j - 1].n + 1
  <2> SUFFICES ASSUME NEW j \in 2..at PROVE used[j].n = used[j - 1].n + 1  BY <1>7
  <2>1. j \in 1..at /\ j - 1 \in 1..at  BY <1>2
  <2> QED  BY <1>3, <1>7, <2>1
<1> DEFINE over == IF test.one = 0 THEN Gains ELSE {"given"}
<1>11. /\ over \in SUBSET {"given", "tx_pga", "rx_pga1", "rx_pga2"}
       /\ over # {"given"} => ("rx_pga2" \in over <=> "rx" \in Blocks)
  BY GainsOfBlocks
<1>12. Point(used) = [tone |-> Current, mean |-> AcMean(used), over |-> over, used |-> used,
                      aborted |-> aborted]
  BY DEF Point, Current
<1> HIDE DEF over
<1>13. Point(used) \in Points
  <2>1. /\ Current \in Int /\ AcMean(used) \in Int /\ used \in Seq(Samples)
        /\ over \in SUBSET {"given", "tx_pga", "rx_pga1", "rx_pga2"} /\ aborted \in BOOLEAN
    BY <1>6, <1>7, <1>8, <1>11, <1>a, Zenon
  <2>2. [tone |-> Current, mean |-> AcMean(used), over |-> over, used |-> used,
          aborted |-> aborted] \in Points
    BY <2>1, PointIsTyped, Zenon
  <2> QED  BY <1>12, <2>2, Zenon
<1>14. Point(used).aborted = aborted  BY <1>12
<1>15. /\ Point(used).used = used /\ Point(used).tone = Current
       /\ Point(used).mean = AcMean(used) /\ Point(used).over = over
  BY <1>12
<1>16. aborted \/ Len(used) = RxSamples  BY <1>4, <1>7
<1> QED  BY <1>7, <1>8, <1>9, <1>10, <1>11, <1>13, <1>14, <1>15, <1>16 DEF at

(* Measure adds the point of the tone.                                     *)
LEMMA PointsKept ==
  ASSUME IInv, IInv', ResultsInv, Next PROVE PointsInv'
<1> USE DEF IInv, transmission, thread, recording, results, Dies, Ended, ResultsInv
<1>1. CASE CapeIsMissing  BY PointsStay, <1>1 DEF CapeIsMissing
<1>2. CASE ParseArguments
  <2>1. UNCHANGED <<points, tone>> /\ tone = 0  BY <1>2 DEF ParseArguments, SweepInv
  <2>2. points \in Seq(Points) /\ Len(points) = 0  BY <2>1 DEF PointsInv
  <2>3. DOMAIN points = {}  BY <2>2
  <2> QED  BY <2>1, <2>2, <2>3 DEF PointsInv, PointsAreMeasured
<1>3. CASE CreateComponents  BY PointsStay, <1>3 DEF CreateComponents
<1>4. CASE ComponentIsMissing  BY PointsStay, <1>4 DEF ComponentIsMissing
<1>5. CASE PreloadTone  BY PointsStay, <1>5 DEF PreloadTone
<1>6. CASE StartTransmission  BY PointsStay, <1>6 DEF StartTransmission
<1>7. CASE ResetRecording  BY PointsStay, <1>7 DEF ResetRecording
<1>8. CASE StartCapture  BY PointsStay, <1>8 DEF StartCapture
<1>9. CASE ClearFilled  BY PointsStay, <1>9 DEF ClearFilled
<1>10. CASE WaitSeesFilled  BY PointsStay, <1>10 DEF WaitSeesFilled
<1>11. CASE WaitIsAborted  BY PointsStay, <1>11 DEF WaitIsAborted
<1>12. CASE StopCapture  BY PointsStay, <1>12 DEF StopCapture
<1>13. CASE JoinCapture  BY PointsStay, <1>13 DEF JoinCapture
<1>14. CASE StopTransmission  BY PointsStay, <1>14 DEF StopTransmission
<1>15. CASE Measure
  <2> DEFINE used == SubSeq(memory[target], 1, cur.at)   p == Point(used)
  <2>1. /\ used \in Seq(Samples) /\ Len(used) = cur.at /\ p \in Points
        /\ p.used = used /\ p.tone = Current
        /\ used # <<>> => p.mean = Current /\ used[1].n > Discarded * Chunk
        /\ \A j \in 2..Len(used) : used[j].n = used[j - 1].n + 1
        /\ p.aborted \/ Len(used) = RxSamples
        /\ p.over # {"given"} => ("rx_pga2" \in p.over <=> "rx" \in Blocks)
    BY <1>15, PointOfTone, Zenon
  <2>2. points' = Append(points, p) /\ tone' = tone + 1 /\ test' = test  BY <1>15, Zenon DEF Measure
  <2>3. points \in Seq(Points) /\ Len(points) = tone /\ tone \in Nat  BY DEF PointsInv, SweepInv
  <2>4. \A k : Tone(k)' = Tone(k)  BY <2>2, SettingsFixed
  <2>5. Blocks' = Blocks  BY <2>2 DEF Blocks
  <2> HIDE DEF p, used
  <2>6. /\ points' \in Seq(Points) /\ Len(points') = tone + 1 /\ DOMAIN points' = 1..tone + 1
        /\ points'[tone + 1] = p /\ \A k \in 1..tone : points'[k] = points[k]
    BY <2>1, <2>2, <2>3
  <2>7. ASSUME NEW k \in 1..tone + 1
        PROVE  /\ points'[k].tone = Tone(k - 1)
               /\ points'[k].used # <<>> =>
                    points'[k].mean = points'[k].tone /\ points'[k].used[1].n > Discarded * Chunk
               /\ \A j \in 2..Len(points'[k].used) :
                    points'[k].used[j].n = points'[k].used[j - 1].n + 1
               /\ points'[k].aborted \/ Len(points'[k].used) = RxSamples
               /\ points'[k].over # {"given"} =>
                    ("rx_pga2" \in points'[k].over <=> "rx" \in Blocks)
    <3>1. CASE k = tone + 1
      <4>1. Tone(k - 1) = Current  BY <2>3, <3>1 DEF Current
      <4> QED  BY <2>1, <2>6, <3>1, <4>1
    <3>2. CASE k # tone + 1
      <4>1. k \in 1..tone /\ k \in DOMAIN points  BY <2>3, <3>2
      <4> QED  BY <2>6, <4>1 DEF PointsInv, PointsAreMeasured
    <3> QED  BY <3>1, <3>2
  <2>8. PointsAreMeasured'  BY <2>4, <2>5, <2>6, <2>7 DEF PointsAreMeasured
  <2> QED  BY <2>2, <2>6, <2>8 DEF PointsInv
<1>16. CASE Release  BY PointsStay, <1>16 DEF Release
<1>17. CASE SaveFiles  BY PointsStay, <1>17 DEF SaveFiles
<1>18. CASE FillFromPreload  BY PointsStay, <1>18 DEF FillFromPreload
<1>19. CASE CaptureLoops  BY PointsStay, <1>19 DEF CaptureLoops
<1>20. CASE ReadCompletes  BY PointsStay, <1>20 DEF ReadCompletes
<1>21. CASE CallbackTests  BY PointsStay, <1>21 DEF CallbackTests
<1>22. CASE CallbackCopies  BY PointsStay, <1>22 DEF CallbackCopies
<1>23. CASE CallbackFills  BY PointsStay, <1>23 DEF CallbackFills
<1>24. CASE ReadFreezes  BY PointsStay, <1>24 DEF ReadFreezes
<1> QED  BY <1>1, <1>2, <1>3, <1>4, <1>5, <1>6, <1>7, <1>8, <1>9, <1>10, <1>11, <1>12, <1>13,
  <1>14, <1>15, <1>16, <1>17, <1>18, <1>19, <1>20, <1>21, <1>22, <1>23, <1>24
     DEF Next, Main, CaptureThread

(* The buffers change roles when the tone is the one to hold.              *)
LEMMA HeldKept ==
  ASSUME IInv, IInv', ResultsInv, Next PROVE HeldInv'
<1> USE DEF IInv, transmission, thread, recording, results, Dies, Ended, ResultsInv
<1>1. CASE CapeIsMissing  BY HeldStays, <1>1 DEF CapeIsMissing
<1>2. CASE ParseArguments
  <2>1. UNCHANGED <<heldTone, held, memory, tone>> /\ tone = 0  BY <1>2 DEF ParseArguments, SweepInv
  <2>2. heldTone = 0 /\ memory[held] = Filled(Zero)  BY <2>1 DEF HeldInv
  <2> QED  BY <2>1, <2>2 DEF HeldInv, Filled, Sample
<1>3. CASE CreateComponents  BY HeldStays, <1>3 DEF CreateComponents
<1>4. CASE ComponentIsMissing  BY HeldStays, <1>4 DEF ComponentIsMissing
<1>5. CASE PreloadTone  BY HeldStays, <1>5 DEF PreloadTone
<1>6. CASE StartTransmission  BY HeldStays, <1>6 DEF StartTransmission
<1>7. CASE ResetRecording  BY HeldStays, <1>7 DEF ResetRecording
<1>8. CASE StartCapture  BY HeldStays, <1>8 DEF StartCapture
<1>9. CASE ClearFilled  BY HeldStays, <1>9 DEF ClearFilled
<1>10. CASE WaitSeesFilled  BY HeldStays, <1>10 DEF WaitSeesFilled
<1>11. CASE WaitIsAborted  BY HeldStays, <1>11 DEF WaitIsAborted
<1>12. CASE StopCapture  BY HeldStays, <1>12 DEF StopCapture
<1>13. CASE JoinCapture  BY HeldStays, <1>13 DEF JoinCapture
<1>14. CASE StopTransmission  BY HeldStays, <1>14 DEF StopTransmission
<1>15. CASE Measure
  <2> DEFINE used == SubSeq(memory[target], 1, cur.at)   p == Point(used)
  <2>1. used \in Seq(Samples) /\ Len(used) = cur.at /\ p \in Points /\ p.used = used
    BY <1>15, PointOfTone, Zenon
  <2>2. points' = Append(points, p) /\ tone' = tone + 1 /\ test' = test /\ memory' = memory
    BY <1>15, Zenon DEF Measure
  <2>3. points \in Seq(Points) /\ Len(points) = tone /\ tone \in Nat  BY DEF PointsInv, SweepInv
  <2>4. \A k : Tone(k)' = Tone(k) /\ (MayBeHeld(k)' <=> MayBeHeld(k))  BY <2>2, SettingsFixed
  <2>5. \A n, h : HeldAmong(n, h)' <=> HeldAmong(n, h)  BY <2>2, HeldAmongStays
  <2>a. Plausible(test) /\ Iterations \in Nat \ {0} /\ tone < Iterations
    <3>1. Plausible(test) /\ tone < Iterations  BY <1>15 DEF Measure, SweepInv
    <3> QED  BY <3>1, TonesAreNotNegative
  <2>b. used = SubSeq(memory[target], 1, cur.at)  OBVIOUS
  <2> HIDE DEF p, used
  <2>6. points'[tone + 1] = p /\ \A k \in 1..tone : points'[k] = points[k]
    BY <2>1, <2>2, <2>3
  <2>7. CASE HoldsThisTone
    <3>1. held' = target /\ heldTone' = Current  BY <1>15, <2>7 DEF Measure, Current
    <3>2. MayBeHeld(tone)  BY <2>7 DEF HoldsThisTone, MayBeHeld
    <3>3. Iterations = 1 => tone = 0  BY <2>3, <2>a
    <3>4. Iterations # 1 => heldTone = 0  BY <2>7 DEF HoldsThisTone
    <3>5. ASSUME NEW j \in 0..tone - 1, MayBeHeld(j) PROVE Tone(j) = 0
      <4>1. tone # 0 /\ heldTone = 0  BY <2>3, <3>3, <3>4
      <4>2. PICK h \in 0..tone - 1 : HeldAmong(tone, h) /\ heldTone = Tone(h)  BY <3>5 DEF HeldInv
      <4> QED  BY <3>5, <4>1, <4>2 DEF HeldAmong
    <3>6. HeldAmong(tone + 1, tone)
      <4>1. 0..(tone + 1) - 1 = 0..tone - 1 \cup {tone}  BY <2>3
      <4>2. CASE Tone(tone) # 0  BY <2>3, <3>5, <4>1, <4>2 DEF HeldAmong
      <4>3. CASE Tone(tone) = 0  BY <2>3, <3>5, <4>1, <4>3 DEF HeldAmong
      <4> QED  BY <4>2, <4>3
    <3>7. points'[tone + 1].used = SubSeq(memory'[held'], 1, Len(points'[tone + 1].used))
      BY <2>1, <2>2, <2>6, <2>b, <3>1
    <3>8. tone \in 0..(tone + 1) - 1  BY <2>3
    <3> DEFINE h == tone
    <3>9. /\ h \in 0..tone' - 1 /\ MayBeHeld(h) /\ HeldAmong(tone', h) /\ heldTone' = Tone(h)
          /\ points'[h + 1].used = SubSeq(memory'[held'], 1, Len(points'[h + 1].used))
      BY <2>2, <3>1, <3>2, <3>6, <3>7, <3>8 DEF Current
    <3> HIDE DEF h
    <3> QED  BY <2>4, <2>5, <3>9 DEF HeldInv
  <2>8. CASE ~ HoldsThisTone
    <3>1. UNCHANGED <<held, heldTone>>  BY <1>15, <2>8 DEF Measure
    <3>2. 0..tone' - 1 = 0..tone - 1 \cup {tone}  BY <2>2, <2>3
    <3>3. heldTone # 0 \/ ~ MayBeHeld(tone)  BY <2>8 DEF HoldsThisTone, MayBeHeld
    <3>4. CASE \A k \in 0..tone - 1 : ~ MayBeHeld(k)
      <4>1. heldTone = 0 /\ memory[held] = Filled(Zero)  BY <3>4 DEF HeldInv
      <4>2. \A k \in 0..tone' - 1 : ~ MayBeHeld(k)  BY <3>2, <3>3, <3>4, <4>1
      <4>3. (\A k \in 0..tone - 1 : ~ MayBeHeld(k))'  BY <2>4, <4>2
      <4> QED  BY <2>2, <3>1, <4>1, <4>3 DEF HeldInv, Filled, Sample
    <3>5. CASE ~ \A k \in 0..tone - 1 : ~ MayBeHeld(k)
      <4>1. PICK h \in 0..tone - 1 :
              /\ MayBeHeld(h) /\ HeldAmong(tone, h) /\ heldTone = Tone(h)
              /\ points[h + 1].used = SubSeq(memory[held], 1, Len(points[h + 1].used))
        BY <3>5 DEF HeldInv
      <4>2. h \in 0..tone' - 1 /\ h + 1 \in 1..tone /\ h <= tone  BY <2>3, <3>2
      <4>3. HeldAmong(tone', h)
        <5>1. CASE Tone(h) # 0  BY <2>2, <2>3, <3>2, <4>1, <4>2, <5>1 DEF HeldAmong
        <5>2. CASE Tone(h) = 0  BY <2>2, <2>3, <3>2, <3>3, <4>1, <4>2, <5>2 DEF HeldAmong
        <5> QED  BY <5>1, <5>2
      <4>4. /\ h \in 0..tone' - 1 /\ MayBeHeld(h) /\ HeldAmong(tone', h) /\ heldTone' = Tone(h)
            /\ points'[h + 1].used = SubSeq(memory'[held'], 1, Len(points'[h + 1].used))
        BY <2>2, <2>6, <3>1, <4>1, <4>2, <4>3
      <4> QED  BY <2>4, <2>5, <4>4 DEF HeldInv
    <3> QED  BY <3>4, <3>5
  <2> QED  BY <2>7, <2>8
<1>16. CASE Release  BY HeldStays, <1>16 DEF Release
<1>17. CASE SaveFiles  BY HeldStays, <1>17 DEF SaveFiles
<1>18. CASE FillFromPreload  BY HeldStays, <1>18 DEF FillFromPreload
<1>19. CASE CaptureLoops  BY HeldStays, <1>19 DEF CaptureLoops
<1>20. CASE ReadCompletes  BY HeldStays, <1>20 DEF ReadCompletes
<1>21. CASE CallbackTests  BY HeldStays, <1>21 DEF CallbackTests
<1>22. CASE CallbackCopies
  <2>1. UNCHANGED <<test, tone, points, heldTone, held>>  BY <1>22 DEF CallbackCopies
  <2>2. memory'[held] = memory[held]  BY <1>22, CopiesStore
  <2> QED  BY <2>1, <2>2, HeldStays
<1>23. CASE CallbackFills  BY HeldStays, <1>23 DEF CallbackFills
<1>24. CASE ReadFreezes  BY HeldStays, <1>24 DEF ReadFreezes
<1> QED  BY <1>1, <1>2, <1>3, <1>4, <1>5, <1>6, <1>7, <1>8, <1>9, <1>10, <1>11, <1>12, <1>13,
  <1>14, <1>15, <1>16, <1>17, <1>18, <1>19, <1>20, <1>21, <1>22, <1>23, <1>24
     DEF Next, Main, CaptureThread

(* SaveFiles writes what is held, and the program ends.                    *)
LEMMA FilesKept ==
  ASSUME IInv, IInv', ResultsInv, Next PROVE FilesInv'
<1> USE DEF IInv, transmission, thread, recording, results, Dies, Ended, ResultsInv, FilesInv
<1>1. CASE CapeIsMissing  BY <1>1 DEF CapeIsMissing
<1>2. CASE ParseArguments  BY <1>2 DEF ParseArguments
<1>3. CASE CreateComponents  BY <1>3 DEF CreateComponents
<1>4. CASE ComponentIsMissing  BY <1>4 DEF ComponentIsMissing
<1>5. CASE PreloadTone  BY <1>5 DEF PreloadTone
<1>6. CASE StartTransmission  BY <1>6 DEF StartTransmission
<1>7. CASE ResetRecording  BY <1>7 DEF ResetRecording
<1>8. CASE StartCapture  BY <1>8 DEF StartCapture
<1>9. CASE ClearFilled  BY <1>9 DEF ClearFilled
<1>10. CASE WaitSeesFilled  BY <1>10 DEF WaitSeesFilled
<1>11. CASE WaitIsAborted  BY <1>11 DEF WaitIsAborted
<1>12. CASE StopCapture  BY <1>12 DEF StopCapture
<1>13. CASE JoinCapture  BY <1>13 DEF JoinCapture
<1>14. CASE StopTransmission  BY <1>14 DEF StopTransmission
<1>15. CASE Measure  BY <1>15 DEF Measure
<1>16. CASE Release  BY <1>16 DEF Release
<1>17. CASE SaveFiles  BY <1>17 DEF SaveFiles
<1>18. CASE FillFromPreload  BY <1>18 DEF FillFromPreload
<1>19. CASE CaptureLoops  BY <1>19 DEF CaptureLoops
<1>20. CASE ReadCompletes  BY <1>20 DEF ReadCompletes
<1>21. CASE CallbackTests  BY <1>21 DEF CallbackTests
<1>22. CASE CallbackCopies  BY <1>22 DEF CallbackCopies
<1>23. CASE CallbackFills  BY <1>23 DEF CallbackFills
<1>24. CASE ReadFreezes  BY <1>24 DEF ReadFreezes
<1> QED  BY <1>1, <1>2, <1>3, <1>4, <1>5, <1>6, <1>7, <1>8, <1>9, <1>10, <1>11, <1>12, <1>13,
  <1>14, <1>15, <1>16, <1>17, <1>18, <1>19, <1>20, <1>21, <1>22, <1>23, <1>24
     DEF Next, Main, CaptureThread

LEMMA AbortedKept ==
  ASSUME IInv, IInv', ResultsInv, Next PROVE (aborted \in BOOLEAN)'
<1> USE DEF IInv, transmission, thread, recording, results, Dies, Ended, ResultsInv
<1>1. CASE CapeIsMissing  BY <1>1 DEF CapeIsMissing
<1>2. CASE ParseArguments  BY <1>2 DEF ParseArguments
<1>3. CASE CreateComponents  BY <1>3 DEF CreateComponents
<1>4. CASE ComponentIsMissing  BY <1>4 DEF ComponentIsMissing
<1>5. CASE PreloadTone  BY <1>5 DEF PreloadTone
<1>6. CASE StartTransmission  BY <1>6 DEF StartTransmission
<1>7. CASE ResetRecording  BY <1>7 DEF ResetRecording
<1>8. CASE StartCapture  BY <1>8 DEF StartCapture
<1>9. CASE ClearFilled  BY <1>9 DEF ClearFilled
<1>10. CASE WaitSeesFilled  BY <1>10 DEF WaitSeesFilled
<1>11. CASE WaitIsAborted  BY <1>11 DEF WaitIsAborted
<1>12. CASE StopCapture  BY <1>12 DEF StopCapture
<1>13. CASE JoinCapture  BY <1>13 DEF JoinCapture
<1>14. CASE StopTransmission  BY <1>14 DEF StopTransmission
<1>15. CASE Measure  BY <1>15 DEF Measure
<1>16. CASE Release  BY <1>16 DEF Release
<1>17. CASE SaveFiles  BY <1>17 DEF SaveFiles
<1>18. CASE FillFromPreload  BY <1>18 DEF FillFromPreload
<1>19. CASE CaptureLoops  BY <1>19 DEF CaptureLoops
<1>20. CASE ReadCompletes  BY <1>20 DEF ReadCompletes
<1>21. CASE CallbackTests  BY <1>21 DEF CallbackTests
<1>22. CASE CallbackCopies  BY <1>22 DEF CallbackCopies
<1>23. CASE CallbackFills  BY <1>23 DEF CallbackFills
<1>24. CASE ReadFreezes  BY <1>24 DEF ReadFreezes
<1> QED  BY <1>1, <1>2, <1>3, <1>4, <1>5, <1>6, <1>7, <1>8, <1>9, <1>10, <1>11, <1>12, <1>13,
  <1>14, <1>15, <1>16, <1>17, <1>18, <1>19, <1>20, <1>21, <1>22, <1>23, <1>24
     DEF Next, Main, CaptureThread

LEMMA InitResults == Init => ResultsInv
<1> SUFFICES ASSUME Init PROVE ResultsInv  OBVIOUS
<1>1. main = "start" /\ tone = 0 /\ rx = "off" /\ points = <<>> /\ heldTone = 0
  BY Zenon DEF Init
<1>2. aborted \in BOOLEAN  BY Zenon DEF Init
<1>3. memory[held] = Filled(Zero)
  <2>1. held = "second"
        /\ memory = [b \in {"first", "second"} |-> Filled(IF b = "first" THEN Garbage ELSE Zero)]
    BY Zenon DEF Init
  <2> QED  BY <2>1
<1>4. RecordInv  BY <1>1 DEF RecordInv, Recording
<1>5. ContinueInv /\ WaitInv /\ FilesInv  BY <1>1 DEF ContinueInv, WaitInv, FilesInv
<1>6. PointsInv  BY <1>1 DEF PointsInv, PointsAreMeasured
<1>7. HeldInv  BY <1>1, <1>3 DEF HeldInv
<1> QED  BY <1>2, <1>4, <1>5, <1>6, <1>7, Zenon DEF ResultsInv

(* What the sweep saves is what it measured, for any sweep, rate and buffers: the  *)
(* points of the response (execute_test, on_buffer_completed), and the capture of  *)
(* the reference tone (samples_adc_data_to_save).                                  *)
THEOREM Measured == Spec => []ResultsAreMeasured
<1>1. IInv /\ IInv' /\ ResultsInv /\ [Next]_vars => ResultsInv'
  <2>1. ASSUME IInv, IInv', ResultsInv, Next PROVE ResultsInv'
    BY <2>1, RecordKept, ContinueKept, WaitKept, PointsKept, HeldKept, FilesKept, AbortedKept, Zenon
    DEF ResultsInv
  <2>2. ASSUME IInv, ResultsInv, UNCHANGED vars PROVE ResultsInv'
    <3> USE <2>2 DEF vars, transmission, thread, recording, results
    <3>1. RecordInv'  BY RecordStays DEF ResultsInv
    <3>2. ContinueInv'  BY ContinueStays DEF ResultsInv
    <3>3. WaitInv'  BY DEF ResultsInv, WaitInv
    <3>4. PointsInv'  BY PointsStay DEF ResultsInv
    <3>5. HeldInv'  BY HeldStays DEF ResultsInv
    <3>6. FilesInv'  BY DEF ResultsInv, FilesInv
    <3>7. (aborted \in BOOLEAN)'  BY Zenon DEF ResultsInv
    <3> QED  BY <3>1, <3>2, <3>3, <3>4, <3>5, <3>6, <3>7, Zenon DEF ResultsInv
  <2> QED  BY <2>1, <2>2
<1>2. IInv /\ ResultsInv => ResultsAreMeasured
  <2> SUFFICES ASSUME IInv, ResultsInv PROVE ResultsAreMeasured  OBVIOUS
  <2>1. PointsAreMeasured  BY DEF ResultsInv, PointsInv
  <2>2. ASSUME main = "end"
        PROVE  tone = Iterations /\ files.of = heldTone /\ files.capture = memory[held]
    BY <2>2 DEF IInv, SweepInv, ResultsInv, FilesInv
  <2>3. CaptureIsOfReference  BY <2>2 DEF ResultsInv, HeldInv, CaptureIsOfReference
  <2> QED  BY <2>1, <2>3 DEF ResultsAreMeasured
<1> QED  BY Inductive, InitResults, <1>1, <1>2, PTL DEF Spec

=============================================================================
