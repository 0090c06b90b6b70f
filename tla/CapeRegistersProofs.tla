------------------------ MODULE CapeRegistersProofs -------------------------
(***************************************************************************)
(* Proofs about the registers of the AFE in CapeDevices, for any settings, *)
(* boards, communications and programs.                                    *)
(*                                                                         *)
(* In DAC mode they are left alone (RegInv), but for the overloads asked   *)
(* for then, and the timer's thread starts a communication while the       *)
(* user's has none to use (Patient).  A program reads a register just      *)
(* after it asked for it, and what it asserts of one is what it wrote      *)
(* there just before it asked (Paired, StageInv).  While a thread waits    *)
(* for the AFE nobody else asks it for a register (AskInv); so what it     *)
(* asserts is there unless the device was unbound (ShownInv).  With what   *)
(* CapeDevicesProofs says of the other ends of the program, that is all of *)
(* them (KnownFailures).                                                   *)
(***************************************************************************)
EXTENDS CapeDevicesProofs

(* The registers are written and read by the user's thread and the timer's,*)
(* and in DAC mode by nobody: what still has to write or read one lowers   *)
(* the mode first, and what raises the mode does neither afterwards.  The  *)
(* overloads are in the register "reset": what uses the others is "work".  *)
RegOps == {"write", "writeBack", "ask", "answer"}
Checks == RegOps \cup {"expect"}
Flagged == "overloads while communicating" \in happened
Touches(s, x) == s.op \in RegOps /\ (x = "work" => s.reg # "reset")
Raises(s) == s.op = "dacMode" /\ s.on = 1
Lowers(s) == s.op = "dacMode" /\ s.on # 1
NoRaise(p) == Program(p) /\ \A k \in 1..Len(p) : ~ Raises(p[k])
HasLower(p) == Program(p) /\ \E k \in 1..Len(p) : Lowers(p[k])
Mute(p, x) == Program(p) /\ \A k \in 1..Len(p) : ~ Touches(p[k], x)
Free(p, x) ==
  /\ Program(p)
  /\ \A j, k \in 1..Len(p) : j < k /\ Raises(p[j]) => ~ Touches(p[k], x)
Settled(p, x) ==
  /\ Program(p)
  /\ \A k \in 1..Len(p) : Touches(p[k], x) => \E j \in 1..Len(p) : j < k /\ Lowers(p[j])

LEMMA AvoidsIsMute == ASSUME NEW p, NEW x, Avoids(p, RegOps) PROVE Mute(p, x)
  BY AvoidsIsProgram DEF Mute, Touches

LEMMA MuteIsSettled ==
  ASSUME NEW p, NEW x, Mute(p, x) PROVE Free(p, x) /\ Settled(p, x)
  BY DEF Free, Settled, Mute

LEMMA MuteJoined ==
  ASSUME NEW p, NEW q, NEW x, Mute(p, x), Mute(q, x) PROVE Mute(p \o q, x)
  BY ProgramJoined DEF Mute

LEMMA MuteRest ==
  ASSUME NEW p, NEW x, Mute(p, x), p # <<>> PROVE Mute(Tail(p), x) /\ ~ Touches(Head(p), x)
<1>1. /\ Len(p) \in Nat \ {0} /\ Len(Tail(p)) = Len(p) - 1 /\ Head(p) = p[1]
      /\ Program(Tail(p)) /\ \A k \in 1..Len(Tail(p)) : Tail(p)[k] = p[k + 1]
  BY ProgramRest DEF Mute
<1>2. \A k \in 1..Len(p) - 1 : k + 1 \in 1..Len(p)  BY <1>1
<1>3. 1 \in 1..Len(p)  BY <1>1
<1> QED  BY <1>1, <1>2, <1>3 DEF Mute

LEMMA NoModeRaises == ASSUME NEW p, Avoids(p, {"dacMode"}) PROVE NoRaise(p)
  BY AvoidsIsProgram DEF NoRaise, Raises

LEMMA NoRaiseIsFree == ASSUME NEW p, NEW x, NoRaise(p) PROVE Free(p, x)
  BY DEF NoRaise, Free

LEMMA NoRaiseJoined == ASSUME NEW p, NEW q, NoRaise(p), NoRaise(q) PROVE NoRaise(p \o q)
  BY ProgramJoined DEF NoRaise

LEMMA FreeJoined ==
  ASSUME NEW p, NEW q, NEW x, Free(p, x), Mute(q, x) PROVE Free(p \o q, x)
<1> DEFINE r == p \o q
           m == Len(p)
<1>1. Program(q) /\ \A k \in 1..Len(q) : ~ Touches(q[k], x)  BY DEF Mute
<1>2. Program(p) /\ \A j, k \in 1..m : j < k /\ Raises(p[j]) => ~ Touches(p[k], x)
  BY DEF Free
<1>3. /\ Program(r) /\ m \in Nat /\ Len(r) \in Nat /\ Len(q) \in Nat
      /\ \A k \in 1..m : r[k] = p[k]
      /\ \A k \in 1..Len(r) : k \in 1..m \/ (k - m \in 1..Len(q) /\ r[k] = q[k - m])
  BY <1>1, <1>2, ProgramJoined
<1> HIDE DEF r, m
<1>4. ASSUME NEW j \in 1..Len(r), NEW k \in 1..Len(r), j < k, Raises(r[j])
      PROVE  ~ Touches(r[k], x)
  <2>1. CASE k \in 1..m
    <3>1. j \in 1..m  BY <1>3, <1>4, <2>1
    <3> QED  BY <1>2, <1>3, <1>4, <2>1, <3>1
  <2>2. CASE k \notin 1..m  BY <1>1, <1>3, <2>2
  <2> QED  BY <2>1, <2>2
<1>5. Free(r, x)  BY <1>3, <1>4 DEF Free
<1> QED  BY <1>5 DEF r

LEMMA FreeAfter ==
  ASSUME NEW p, NEW q, NEW x, Mute(p, x), NoRaise(p), Free(q, x) PROVE Free(p \o q, x)
<1> DEFINE r == p \o q
           m == Len(p)
<1>1. Program(q) /\ \A j, k \in 1..Len(q) : j < k /\ Raises(q[j]) => ~ Touches(q[k], x)
  BY DEF Free
<1>2. Program(p) /\ \A k \in 1..m : ~ Touches(p[k], x) /\ ~ Raises(p[k])
  BY DEF Mute, NoRaise
<1>3. /\ Program(r) /\ m \in Nat /\ Len(r) \in Nat /\ Len(q) \in Nat
      /\ \A k \in 1..m : r[k] = p[k]
      /\ \A k \in 1..Len(r) : k \in 1..m \/ (k - m \in 1..Len(q) /\ r[k] = q[k - m])
  BY <1>1, <1>2, ProgramJoined
<1> HIDE DEF r, m
<1>4. ASSUME NEW j \in 1..Len(r), NEW k \in 1..Len(r), j < k, Raises(r[j])
      PROVE  ~ Touches(r[k], x)
  <2>1. j - m \in 1..Len(q) /\ r[j] = q[j - m]  BY <1>2, <1>3, <1>4
  <2>2. k \notin 1..m /\ j - m < k - m  BY <1>3, <1>4, <2>1
  <2>3. k - m \in 1..Len(q) /\ r[k] = q[k - m]  BY <1>3, <2>2
  <2> QED  BY <1>1, <1>4, <2>1, <2>2, <2>3
<1>5. Free(r, x)  BY <1>3, <1>4 DEF Free
<1> QED  BY <1>5 DEF r

LEMMA HasLowerJoined ==
  ASSUME NEW p, NEW q, Program(p), HasLower(q) PROVE HasLower(p \o q)
<1>1. PICK k \in 1..Len(q) : Lowers(q[k])  BY DEF HasLower
<1>2. Program(q)  BY DEF HasLower
<1>3. Len(p) + k \in 1..Len(p \o q) /\ (p \o q)[Len(p) + k] = q[k]
  BY <1>2, ProgramJoined
<1> QED  BY <1>1, <1>2, <1>3, ProgramJoined DEF HasLower

LEMMA SettledAfter ==
  ASSUME NEW p, NEW q, NEW x, Mute(p, x), HasLower(p), Program(q) PROVE Settled(p \o q, x)
<1> DEFINE r == p \o q
           m == Len(p)
<1>1. Program(p) /\ \A k \in 1..m : ~ Touches(p[k], x)  BY DEF Mute
<1>2. PICK i \in 1..m : Lowers(p[i])  BY DEF HasLower
<1>3. /\ Program(r) /\ m \in Nat /\ Len(r) \in Nat /\ Len(q) \in Nat /\ Len(r) = m + Len(q)
      /\ \A k \in 1..m : r[k] = p[k]
  BY <1>1, ProgramJoined
<1> HIDE DEF r, m
<1>4. ASSUME NEW k \in 1..Len(r), Touches(r[k], x)
      PROVE  \E j \in 1..Len(r) : j < k /\ Lowers(r[j])
  <2>1. k \notin 1..m  BY <1>1, <1>3, <1>4
  <2>2. i < k /\ i \in 1..Len(r) /\ r[i] = p[i]  BY <1>2, <1>3, <2>1
  <2> QED  BY <1>2, <2>2
<1>5. Settled(r, x)  BY <1>3, <1>4 DEF Settled
<1> QED  BY <1>5 DEF r

LEMMA FreeRest ==
  ASSUME NEW p, NEW x, Free(p, x), p # <<>>
  PROVE  Free(Tail(p), x) /\ (Raises(Head(p)) => Settled(Tail(p), x))
<1> DEFINE n == Len(p)
           q == Tail(p)
<1>1. /\ n \in Nat \ {0} /\ Len(q) = n - 1 /\ Head(p) = p[1] /\ Program(q)
      /\ \A k \in 1..Len(q) : q[k] = p[k + 1]
  BY ProgramRest DEF Free
<1>2. \A j, k \in 1..n : j < k /\ Raises(p[j]) => ~ Touches(p[k], x)  BY DEF Free
<1> HIDE DEF n, q
<1>3. \A k \in 1..n - 1 : k + 1 \in 1..n /\ 1 < k + 1 /\ 1 \in 1..n  BY <1>1
<1>4. ASSUME NEW j \in 1..Len(q), NEW k \in 1..Len(q), j < k, Raises(q[j])
      PROVE  ~ Touches(q[k], x)
  <2>1. j + 1 < k + 1  BY <1>4
  <2> QED  BY <1>1, <1>2, <1>3, <1>4, <2>1
<1>5. Raises(Head(p)) => \A k \in 1..Len(q) : ~ Touches(q[k], x)
  BY <1>1, <1>2, <1>3
<1>6. Free(q, x) /\ (Raises(Head(p)) => Settled(q, x))  BY <1>1, <1>4, <1>5 DEF Free, Settled
<1> QED  BY <1>6 DEF q

LEMMA SettledRest ==
  ASSUME NEW p, NEW x, Settled(p, x), p # <<>>
  PROVE  ~ Touches(Head(p), x) /\ (Lowers(Head(p)) \/ Settled(Tail(p), x))
<1> DEFINE n == Len(p)
           q == Tail(p)
<1>1. /\ n \in Nat \ {0} /\ Len(q) = n - 1 /\ Head(p) = p[1] /\ Program(q)
      /\ \A k \in 1..Len(q) : q[k] = p[k + 1]
  BY ProgramRest DEF Settled
<1>2. \A k \in 1..n : Touches(p[k], x) => \E j \in 1..n : j < k /\ Lowers(p[j])
  BY DEF Settled
<1> HIDE DEF n, q
<1>3. ~ Touches(Head(p), x)
  <2>1. 1 \in 1..n /\ \A j \in 1..n : ~ (j < 1)  BY <1>1
  <2> QED  BY <1>1, <1>2, <2>1
<1>4. ASSUME ~ Lowers(Head(p)) PROVE Settled(q, x)
  <2>1. ASSUME NEW k \in 1..Len(q), Touches(q[k], x)
        PROVE  \E j \in 1..Len(q) : j < k /\ Lowers(q[j])
    <3>1. k + 1 \in 1..n /\ Touches(p[k + 1], x)  BY <1>1, <2>1
    <3>2. PICK j \in 1..n : j < k + 1 /\ Lowers(p[j])  BY <1>2, <3>1
    <3>3. j # 1  BY <1>1, <1>4, <3>2
    <3>4. j - 1 \in 1..Len(q) /\ j - 1 < k /\ (j - 1) + 1 = j  BY <1>1, <3>2, <3>3
    <3>5. q[j - 1] = p[j]  BY <1>1, <3>4
    <3> QED  BY <3>2, <3>4, <3>5
  <2> QED  BY <1>1, <2>1 DEF Settled
<1> QED  BY <1>3, <1>4 DEF q

(* The pins, the LEDs and the modes are none of the registers' business.   *)
LEMMA MuteCalls ==
  ASSUME NEW A, A \subseteq Checks, NEW pin, NEW on, NEW v
  PROVE  /\ Avoids(PinOutSet(pin, on), A) /\ Avoids(PinOutToggle(pin), A)
         /\ Avoids(ToggleAppActivity, A) /\ Avoids(SetAppActivity(v, on), A)
         /\ Avoids(SetTxActivity(on), A) /\ Avoids(SetRxActivity(on), A)
         /\ Avoids(SetDacMode(on), A) /\ Avoids(SpiRelease, A)
         /\ Avoids(LedsCreate(version), A) /\ Avoids(LedsRelease(version), A)
         /\ Avoids(Remember(pin, v), A) /\ Avoids(<<>>, A)
<1>1. \A p : Avoids(p, Checks) => Avoids(p, A)  BY AvoidsFewer
<1>2. \A x, y : Avoids(PinOutSet(x, y), Checks) /\ Avoids(PinOutToggle(x), Checks)
  BY AvoidsTwo DEF PinOutSet, PinOutToggle, Checks, RegOps
<1>3. \A op : op \notin Checks => Avoids(Step(op), Checks)  BY StepAvoids
<1>4. {"lock", "unlock", "closeSpi", "ledsReady", "ledsGone"} \cap Checks = {}
  BY DEF Checks, RegOps
<1>5. ASSUME NEW c, Avoids(c, Checks) PROVE Avoids(Locked(c), Checks)
  BY <1>3, <1>4, <1>5, AvoidsJoined DEF Locked
<1>6. /\ Avoids(ToggleAppActivity, Checks) /\ Avoids(SetAppActivity(v, on), Checks)
      /\ Avoids(SetTxActivity(on), Checks) /\ Avoids(SetRxActivity(on), Checks)
  BY <1>2, <1>5 DEF ToggleAppActivity, SetAppActivity, SetTxActivity, SetRxActivity
<1>7. Avoids(SetDacMode(on), Checks)
  <2>1. Avoids(<<[op |-> "dacMode", on |-> on], [op |-> "bits", on |-> on],
                 [op |-> "speed", on |-> on]>>, Checks)
    BY AvoidsThree DEF Checks, RegOps
  <2> QED  BY <1>2, <2>1, AvoidsJoined DEF SetDacMode
<1>8. Avoids(SpiRelease, Checks)  BY <1>2, <1>3, <1>4, AvoidsJoined DEF SpiRelease
<1>9. Avoids(LedsCreate(version), Checks) /\ Avoids(LedsRelease(version), Checks)
  BY <1>2, <1>3, <1>4, AvoidsJoined DEF LedsCreate, LedsRelease
<1>10. Avoids(Remember(pin, v), Checks) /\ Avoids(<<>>, Checks)
  BY AvoidsOne, AvoidsNone DEF Remember, Checks, RegOps
<1> QED  BY <1>1, <1>2, <1>6, <1>7, <1>8, <1>9, <1>10

LEMMA LowerIsThere == HasLower(SetDacMode(0)) /\ NoRaise(SetDacMode(0))
<1> DEFINE a == [op |-> "dacMode", on |-> 0]
           b == [op |-> "bits", on |-> 0]
           c == [op |-> "speed", on |-> 0]
           h == <<a, b, c>>
           p == PinOutSet("dac", 0)
<1>1. SetDacMode(0) = h \o p  BY DEF SetDacMode
<1>2. Avoids(p, {"dacMode"})  BY PinsAreCore, AvoidsFewer DEF Special, DacSteps
<1>3. Program(p) /\ NoRaise(p)  BY <1>2, AvoidsIsProgram, NoModeRaises
<1>4. Lowers(a) /\ ~ Raises(a) /\ ~ Raises(b) /\ ~ Raises(c)  BY DEF Lowers, Raises
<1> HIDE DEF a, b, c, p
<1>5. h \in Seq({a, b, c}) /\ Len(h) = 3 /\ h[1] = a /\ h[2] = b /\ h[3] = c  OBVIOUS
<1>6. Program(h)  BY <1>5 DEF Program
<1>7. NoRaise(h)  BY <1>4, <1>5, <1>6 DEF NoRaise
<1>8. HasLower(h \o p)
  <2>1. 1 \in 1..Len(h) /\ 1 \in 1..Len(h \o p) /\ (h \o p)[1] = a /\ Program(h \o p)
    BY <1>3, <1>5, <1>6, ProgramJoined
  <2> QED  BY <1>4, <2>1 DEF HasLower
<1> QED  BY <1>1, <1>3, <1>7, <1>8, NoRaiseJoined

LEMMA SettledJoined ==
  ASSUME NEW p, NEW q, NEW x, Settled(p, x), Settled(q, x) PROVE Settled(p \o q, x)
<1> DEFINE r == p \o q
           m == Len(p)
           n == Len(q)
<1>1. /\ Program(r) /\ m \in Nat /\ n \in Nat /\ Len(r) = m + n
      /\ \A k \in 1..m : r[k] = p[k]
      /\ \A k \in 1..n : r[m + k] = q[k]
      /\ \A k \in 1..Len(r) : k \in 1..m \/ (k - m \in 1..n /\ r[k] = q[k - m])
  BY ProgramJoined DEF Settled
<1>2. \A k \in 1..m : Touches(p[k], x) => \E j \in 1..m : j < k /\ Lowers(p[j])
  BY DEF Settled
<1>3. \A k \in 1..n : Touches(q[k], x) => \E j \in 1..n : j < k /\ Lowers(q[j])
  BY DEF Settled
<1> HIDE DEF r, m, n
<1>4. ASSUME NEW k \in 1..Len(r), Touches(r[k], x)
      PROVE  \E j \in 1..Len(r) : j < k /\ Lowers(r[j])
  <2>1. CASE k \in 1..m
    <3>1. PICK j \in 1..m : j < k /\ Lowers(p[j])  BY <1>1, <1>2, <1>4, <2>1
    <3> QED  BY <1>1, <3>1
  <2>2. CASE k - m \in 1..n /\ r[k] = q[k - m]
    <3>1. PICK j \in 1..n : j < k - m /\ Lowers(q[j])  BY <1>3, <1>4, <2>2
    <3>2. m + j \in 1..Len(r) /\ m + j < k /\ r[m + j] = q[j]  BY <1>1, <3>1
    <3> QED  BY <3>1, <3>2
  <2> QED  BY <1>1, <2>1, <2>2
<1>5. Settled(r, x)  BY <1>1, <1>4 DEF Settled
<1> QED  BY <1>5 DEF r

(* The programs that lower the mode do so before they use a register.      *)
LEMMA ClosingPrograms ==
  ASSUME NEW x
  PROVE  /\ Free(Deactivate(TRUE), x) /\ Settled(Deactivate(TRUE), x)
         /\ Free(Deactivate(FALSE), x)
         /\ Free(StopCommunication, x) /\ Settled(StopCommunication, x)
         /\ Free(AbandonTx, x) /\ Settled(AbandonTx, x)
         /\ Free(AbandonRx, x) /\ Settled(AbandonRx, x)
<1> DEFINE a == Step("joinRx")
           b == SetRxActivity(0)
           c == Step("requestStop")
           d == Step("joinTx")
           e == SetTxActivity(0)
           f == SetDacMode(0)
           g == DisableAll
           h == Step("commOff")
           i == Step("supervisorOff")
           j == SetAppActivity(version, 1)
           Mode == {"dacMode"}
           Plain(p) == Mute(p, x) /\ NoRaise(p)
<1>1. /\ StopCommunication = ((((((a \o b) \o c) \o d) \o e) \o f) \o g) \o h
      /\ Deactivate(TRUE) = (StopCommunication \o i) \o j
      /\ Deactivate(FALSE) = (<<>> \o i) \o j
      /\ AbandonTx = (f \o g) \o ((<<>> \o i) \o j)
      /\ AbandonRx = ((c \o d) \o e) \o AbandonTx
  BY DEF Deactivate, StopCommunication, AbandonTx, AbandonRx
<1>2. Mode \subseteq Special /\ RegOps \subseteq Checks
  BY DEF Special, DacSteps, Checks
<1>3. Plain(a) /\ Plain(c) /\ Plain(d) /\ Plain(h) /\ Plain(i)
  <2>1. {"joinRx", "requestStop", "joinTx", "commOff", "supervisorOff"} \cap (RegOps \cup Mode) = {}
    BY DEF RegOps
  <2> HIDE DEF Mode
  <2>2. \A op : op \notin RegOps \cup Mode => Avoids(Step(op), RegOps) /\ Avoids(Step(op), Mode)
    BY StepAvoids
  <2> QED  BY <2>1, <2>2, NoModeRaises, AvoidsIsMute DEF Mode
<1>4. Plain(b) /\ Plain(e) /\ Plain(j) /\ Plain(<<>>)
  <2>1. Avoids(b, RegOps) /\ Avoids(e, RegOps) /\ Avoids(j, RegOps) /\ Avoids(<<>>, RegOps)
    BY <1>2, MuteCalls
  <2>2. Avoids(b, Mode) /\ Avoids(e, Mode) /\ Avoids(j, Mode) /\ Avoids(<<>>, Mode)
    BY <1>2, LedsAreCore, AvoidsFewer, AvoidsNone
  <2> QED  BY <2>1, <2>2, NoModeRaises, AvoidsIsMute
<1>5. Plain(f) /\ HasLower(f)
  <2>1. Avoids(f, RegOps)  BY <1>2, MuteCalls
  <2> QED  BY <2>1, AvoidsIsMute, LowerIsThere
<1>6. NoRaise(g) /\ Program(g)
  <2>1. Avoids(g, Mode)  BY <1>2, CallsAreCore, AvoidsFewer
  <2> QED  BY <2>1, NoModeRaises, AvoidsIsProgram
<1>7. ASSUME NEW p, NEW q, Plain(p), Plain(q) PROVE Plain(p \o q)
  BY <1>7, MuteJoined, NoRaiseJoined
<1>8. ASSUME NEW p, Plain(p) PROVE Program(p) /\ Settled(p, x)
  BY <1>8, MuteIsSettled DEF Mute
<1> HIDE DEF a, b, c, d, e, f, g, h, i, j, Plain
<1>9. Settled(f \o g, x) /\ NoRaise(f \o g)
  BY <1>5, <1>6, SettledAfter, NoRaiseJoined DEF Plain
<1>10. Settled(AbandonTx, x) /\ NoRaise(AbandonTx)
  <2>1. Plain((<<>> \o i) \o j)  BY <1>3, <1>4, <1>7
  <2> QED  BY <1>1, <1>8, <1>9, <2>1, SettledJoined, NoRaiseJoined DEF Plain
<1>11. Settled(AbandonRx, x) /\ NoRaise(AbandonRx)
  <2>1. Plain((c \o d) \o e)  BY <1>3, <1>4, <1>7
  <2> QED  BY <1>1, <1>8, <1>10, <2>1, SettledJoined, NoRaiseJoined DEF Plain
<1>12. Settled(StopCommunication, x) /\ NoRaise(StopCommunication)
  <2> DEFINE z == (((a \o b) \o c) \o d) \o e
             y == (z \o f) \o g
  <2>1. Plain(z)  BY <1>3, <1>4, <1>7
  <2>2. Plain(z \o f) /\ HasLower(z \o f)  BY <1>5, <1>7, <1>8, <2>1, HasLowerJoined
  <2>3. Settled(y, x) /\ NoRaise(y)  BY <1>6, <2>2, SettledAfter, NoRaiseJoined DEF Plain
  <2>4. StopCommunication = y \o h  BY <1>1
  <2> HIDE DEF y
  <2>5. Settled(y \o h, x)  BY <1>3, <1>8, <2>3, SettledJoined
  <2>6. NoRaise(y \o h)  BY <1>3, <2>3, NoRaiseJoined DEF Plain
  <2> QED  BY <2>4, <2>5, <2>6
<1>13. Settled(Deactivate(TRUE), x) /\ NoRaise(Deactivate(TRUE))
  <2>1. Settled((StopCommunication \o i) \o j, x)  BY <1>3, <1>4, <1>8, <1>12, SettledJoined
  <2>2. NoRaise((StopCommunication \o i) \o j)  BY <1>3, <1>4, <1>12, NoRaiseJoined DEF Plain
  <2> QED  BY <1>1, <2>1, <2>2
<1>14. NoRaise(Deactivate(FALSE))
  <2>1. Plain((<<>> \o i) \o j)  BY <1>3, <1>4, <1>7
  <2> QED  BY <1>1, <2>1 DEF Plain
<1> QED  BY <1>10, <1>11, <1>12, <1>13, <1>14, NoRaiseIsFree

LEMMA OpeningProgram ==
  ASSUME NEW x
  PROVE  /\ Free(Activate, x) /\ Free(StartCommunication, x)
         /\ settings.periodic => Mute(Activate, x)
<1> DEFINE a == Step("supervisorOn")
           b == ActivateBlocks(settings.blocks)
           c == SetDacMode(1)
           d == Step("startTx")
           e == SetTxActivity(1)
           f == Step("startRx")
           g == Step("commOn")
           Mode == {"dacMode"}
<1>1. /\ StartCommunication = ((((b \o c) \o d) \o e) \o f) \o g
      /\ Activate = a \o (IF settings.periodic THEN <<>> ELSE StartCommunication)
  BY DEF Activate, StartCommunication
<1>2. Mute(a, x) /\ NoRaise(a) /\ NoRaise(b)
  <2>1. Mode \subseteq Special  BY DEF Special, DacSteps
  <2>2. Avoids(a, RegOps) /\ Avoids(b, Mode)
    BY <2>1, StepAvoids, CallsAreCore, AvoidsFewer DEF RegOps
  <2>3. Avoids(a, Mode)  BY StepAvoids
  <2> QED  BY <2>2, <2>3, AvoidsIsMute, NoModeRaises
<1>4. Mute(c, x) /\ Mute(d, x) /\ Mute(e, x) /\ Mute(f, x) /\ Mute(g, x)
  <2>1. RegOps \subseteq Checks  BY DEF Checks
  <2>2. Avoids(d, RegOps) /\ Avoids(f, RegOps) /\ Avoids(g, RegOps)  BY StepAvoids DEF RegOps
  <2>3. Avoids(c, RegOps) /\ Avoids(e, RegOps)  BY <2>1, MuteCalls
  <2> QED  BY <2>2, <2>3, AvoidsIsMute
<1> HIDE DEF a, b, c, d, e, f, g
<1>5. Free(StartCommunication, x)
  <2>1. Free(b, x)  BY <1>2, NoRaiseIsFree
  <2> QED  BY <1>1, <1>4, <2>1, FreeJoined
<1>6. Mute(<<>>, x) /\ NoRaise(<<>>)  BY AvoidsNone, AvoidsIsMute, NoModeRaises
<1>7. CASE settings.periodic
  <2>1. Activate = a \o <<>>  BY <1>1, <1>7
  <2>2. Mute(Activate, x)  BY <1>2, <1>6, <2>1, MuteJoined
  <2> QED  BY <1>5, <2>2, MuteIsSettled
<1>8. CASE ~ settings.periodic
  <2>1. Activate = a \o StartCommunication  BY <1>1, <1>8
  <2>2. Free(a \o StartCommunication, x)  BY <1>2, <1>5, FreeAfter
  <2> QED  BY <1>5, <1>8, <2>1, <2>2
<1> QED  BY <1>7, <1>8

LEMMA ShowsAt ==
  ASSUME NEW p, NEW w, Shows(p, w), NEW k \in 1..Len(p), Label(p[k]) \in Key
  PROVE  \E i \in 1..Len(w) : w[i] = Label(p[k])
<1>1. PICK e : Marks(p, w, e)  BY DEF Shows
<1>2. PICK i \in 1..Len(w) : e[i] = k  BY <1>1 DEF Marks
<1>3. Label(p[e[i]]) = w[i]  BY <1>1 DEF Marks
<1> QED  BY <1>2, <1>3

(* A communication is started by the user's thread, when the timer's rests,*)
(* or by the timer's, when the user's does nothing that matters to it.     *)
LEMMA StartsAlone ==
  ASSUME CommInv, NEW t \in Threads, todo[t] # <<>>,
         Label(Head(todo[t])) \in {"raise", "startTx", "startRx"}
  PROVE  \/ t = "main" /\ Idle("comm") /\ (stage = "idle" => ~ settings.periodic)
         \/ t = "comm"
<1> DEFINE l == Label(Head(todo[t]))
           Start == {"raise", "startTx", "startRx"}
<1>1. l \in Key  BY DEF Key
<1>2. t \notin {"blink", "rx", "tx"}
  <2>1. Avoids(todo[t], KeyOps) => Head(todo[t]).op \notin KeyOps  BY AvoidsRest
  <2>2. Head(todo[t]).op \notin KeyOps => l = "none"  BY QuietLabel
  <2> QED  BY <1>1, <2>1, <2>2 DEF CommInv, RoleInv, Key
<1>3. \A w : Shows(todo[t], w) => w # <<>> /\ Head(w) = l  BY <1>1, ShowsRest
<1> HIDE DEF l
<1>l. l \in {"raise", "startTx", "startRx"}  BY DEF l
<1>4. \A w : Fits(w) /\ w # <<>> /\ Head(w) = l => ~ settings.periodic
  <2>1. Head(<<"supervisorOn">>) = "supervisorOn"  OBVIOUS
  <2> QED  BY <1>l, <2>1 DEF Fits
<1>5. CASE t = "main"
  <2>1. ~ TimerActs  BY <1>3, <1>5 DEF TimerActs
  <2>2. Idle("comm")  BY <2>1 DEF CommInv, Order, Opens, UserCloses, Boots
  <2>3. stage = "idle" => Opens  BY <2>1 DEF CommInv, Order, UserCloses, Boots
  <2> QED  BY <1>3, <1>4, <1>5, <2>2, <2>3 DEF Opens
<1>6. t = "main" \/ t = "comm"  BY <1>2 DEF Threads
<1> QED  BY <1>5, <1>6

LEMMA DacBetween ==
  ASSUME Order, Idle("main"), Dac
  PROVE  stage = "idle" /\ supervisor /\ (comm \/ ~ Idle("comm"))
<1>1. Off => ~ Dac  BY DEF Off, Has
<1>2. Armed => ~ Dac  BY DEF Armed, Has
<1>3. OnAir => comm /\ supervisor  BY DEF OnAir, Has
<1>4. \A w : Opening(w) => supervisor  BY <1>1, <1>2, <1>3 DEF Opening, Off, Has
<1>5. \A w : Closing(w) => supervisor  BY <1>1, <1>3 DEF Closing, Has
<1>6. \A w : Pausing(w) => supervisor  BY <1>2, <1>3 DEF Pausing, Has
<1>7. stage = "idle"  BY <1>1, Between
<1>8. CASE Idle("comm")  BY <1>1, <1>2, <1>3, <1>7, <1>8, Between
<1>9. CASE ~ Idle("comm")  BY <1>4, <1>5, <1>6, <1>7, <1>9, Between DEF Acting
<1> QED  BY <1>8, <1>9

(* The overloads, which a communication does not wait for, are no work.    *)
LEMMA OverloadsAreMute ==
  Mute(ClearOverloads, "work") /\ Mute(GetOverloads, "work")
<1> DEFINE a == [op |-> "ask", reg |-> "reset"]
           b == [op |-> "answer", reg |-> "reset"]
           c == [op |-> "writeBack", reg |-> "reset", mask |-> Overloads, content |-> {}]
           p == <<a, b>>
           q == <<c>>
<1>1. p = GetOverloads /\ p \o q = ClearOverloads
  BY DEF GetOverloads, ClearOverloads, ReadCommand, WriteBack
<1>2. ~ Touches(a, "work") /\ ~ Touches(b, "work") /\ ~ Touches(c, "work")  BY DEF Touches
<1> HIDE DEF a, b, c
<1>3. /\ p \in Seq({a, b}) /\ Len(p) = 2 /\ p[1] = a /\ p[2] = b
      /\ q \in Seq({c}) /\ Len(q) = 1 /\ q[1] = c
  OBVIOUS
<1>4. Program(p) /\ Program(q)  BY <1>3 DEF Program
<1> HIDE DEF p, q
<1>5. Mute(p, "work") /\ Mute(q, "work")  BY <1>2, <1>3, <1>4 DEF Mute
<1> QED  BY <1>1, <1>5, MuteJoined

(* One thread at a time uses the registers: the user's none but the        *)
(* overloads while the timer's acts, and when the timer may start a        *)
(* communication.  What still has to be done in DAC mode uses none before  *)
(* it lowers the mode.  This holds of the work, and of all until the       *)
(* overloads are asked for during a communication or its start.            *)
Excused(x) == x = "all" /\ Flagged
Scopes == {"all", "work"}
Unarmed == ~ supervisor /\ Idle("comm") /\ Shows(todo["main"], <<>>)
Patient == settings.periodic /\ stage = "idle" => Mute(todo["main"], "work") \/ Unarmed
RegKept(x) ==
  /\ \A t \in {"blink", "rx", "tx"} : Avoids(todo[t], RegOps)
  /\ \A t \in {"main", "comm"} : Free(todo[t], x) /\ (Dac => Settled(todo[t], x))
  /\ Mute(todo["main"], x) \/ Idle("comm")
  /\ Patient
RegInv(x) == Excused(x) \/ RegKept(x)

LEMMA NothingIsMute == ASSUME NEW x PROVE Mute(<<>>, x)
  BY AvoidsNone, AvoidsIsMute

LEMMA DeactivatesTwice ==
  ASSUME NEW b
  PROVE  IF b THEN Deactivate(b) = Deactivate(TRUE) ELSE Deactivate(b) = Deactivate(FALSE)
<1>1. CASE b  BY <1>1 DEF Deactivate
<1>2. CASE ~ b  BY <1>2 DEF Deactivate
<1> QED  BY <1>1, <1>2

LEMMA GivenFree ==
  ASSUME Order, Idle("main"), NEW p, NEW s, Given(p, s), NEW x \in Scopes
  PROVE  Free(p, x) /\ (Dac => Settled(p, x) \/ Excused(x)')
<1> DEFINE M == {"dacMode"}
<1>1. /\ M \subseteq Special
      /\ M \subseteq Special \ {"ledsReady", "ledsGone"}
      /\ M \subseteq Special \ {"closeSpi"}
      /\ M \subseteq Special \ {"unhook", "closeSpi", "ledsGone", "ledsReady"}
      /\ M \subseteq Special \ {"hook", "get", "put", "configure"}
  BY DEF Special, DacSteps
<1>f. \A q : Avoids(q, M) => Free(q, x)  BY NoModeRaises, NoRaiseIsFree
<1>2. /\ Avoids(LedsCreate(version), M) /\ Avoids(LedsRelease(version), M)
      /\ Avoids(SpiRelease, M) /\ Avoids(TerminateCape, M) /\ Avoids(ReleaseCape, M)
      /\ Avoids(<<>>, M)
  BY <1>1, LedsAvoid, SpiReleaseAvoids, TerminateAvoids, ReleaseAvoids, AvoidsNone
<1>3. /\ Avoids(AfeProbe, M) /\ Avoids(Configure(Defaults), M) /\ Avoids(ClearOverloads, M)
      /\ Avoids(GetOverloads, M) /\ Avoids(PinOutSet("shutdown", 1), M)
  BY <1>1, CallsAreCore, PinsAreCore, AvoidsFewer
<1>4. \A y : Avoids(InitializeCape(y), M)  BY <1>1, InitializeAvoids
<1> HIDE DEF M
<1>5. Avoids(Abort, M) /\ Avoids(TerminateCape \o ReleaseCape, M)
  BY <1>2, <1>3, AvoidsJoined DEF Abort
<1>6. Free(SetDacMode(0), x)  BY LowerIsThere, NoRaiseIsFree
<1>o. Free(Activate, x) /\ Free(Deactivate(comm), x)
  <2>1. Deactivate(comm) = Deactivate(TRUE) \/ Deactivate(comm) = Deactivate(FALSE)
    BY DeactivatesTwice
  <2> QED  BY <2>1, OpeningProgram, ClosingPrograms
<1>7. Free(p, x)
  BY <1>f, <1>2, <1>3, <1>4, <1>5, <1>6, <1>o, ZenonT(40) DEF Given
<1>8. ASSUME Dac PROVE Settled(p, x) \/ Excused(x)'
  <2>1. stage = "idle" /\ supervisor /\ (comm \/ ~ Idle("comm"))  BY <1>8, DacBetween
  <2>2. \/ comm /\ p = Deactivate(comm)
        \/ (p = ClearOverloads \/ p = GetOverloads) /\ Flagged'
    BY <2>1 DEF Given, Quiescent, Flagged
  <2>3. comm => Settled(Deactivate(comm), x)  BY ClosingPrograms, DeactivatesTwice
  <2>4. Settled(ClearOverloads, "work") /\ Settled(GetOverloads, "work")
    BY OverloadsAreMute, MuteIsSettled
  <2> QED  BY <2>2, <2>3, <2>4 DEF Scopes, Excused
<1> QED  BY <1>7, <1>8

(* While the timer's thread acts the user's takes up but the overloads.     *)
LEMMA GivenApart ==
  ASSUME Order, Idle("main"), NEW p, NEW s, Given(p, s), NEW x \in Scopes
  PROVE  Mute(p, x) \/ Idle("comm") \/ Excused(x)'
<1>1. stage # "idle" => Idle("comm")  BY Between
<1>2. CASE stage = "idle" /\ ~ Idle("comm")
  <2>1. (p = ClearOverloads \/ p = GetOverloads) /\ Flagged'
    BY <1>2 DEF Given, Quiescent, Flagged
  <2>2. CASE x = "work"  BY <2>1, <2>2, OverloadsAreMute
  <2>3. CASE x = "all"  BY <2>1, <2>3 DEF Excused
  <2> QED  BY <2>2, <2>3 DEF Scopes
<1> QED  BY <1>1, <1>2

(* It is patient with a timer that is armed.                                *)
LEMMA SettingsStay == ASSUME Main, stage # "created" PROVE settings' = settings
  BY DEF Main, At, Menu, Create, CreateFails, SpiCreate, SpiCreateFails, AfeCreate, AfeCreated,
     Initialize, MenuActivate, MenuDeactivate, Deactivated, MenuOverloads, MenuSettings, MenuExit

LEMMA GivenIsPatient ==
  ASSUME Order, Main, TodoInv, NEW p, NEW s, Call(p, s), Given(p, s) PROVE Patient'
<1>1. Idle("main") /\ comm' = comm /\ supervisor' = supervisor  BY MainGives DEF MainFrame
<1>2. todo'["main"] = p /\ stage' = s /\ todo'["comm"] = todo["comm"]
  BY DEF Call, TodoInv, Threads
<1>3. SUFFICES ASSUME settings'.periodic, s = "idle" PROVE Mute(p, "work") \/ Unarmed'
  BY <1>2 DEF Patient
<1>4. CASE stage = "created"
  <2>1. Idle("comm") /\ ~ supervisor  BY <1>1, <1>4, Between DEF Off, Has
  <2>2. \E y \in Settings : p = InitializeCape(y)  BY <1>4 DEF Given
  <2>3. Shows(p, <<>>)  BY <2>2, QuietInitialize, ShowsNothing
  <2> QED  BY <1>1, <1>2, <2>1, <2>3 DEF Unarmed, Idle
<1>5. CASE stage # "created"
  <2>1. settings.periodic  BY <1>3, <1>5, SettingsStay
  <2>2. p \in {Activate, <<>>, ClearOverloads, GetOverloads}  BY <1>3, <1>5 DEF Given
  <2>3. Mute(Activate, "work")  BY <2>1, OpeningProgram
  <2> QED  BY <2>2, <2>3, OverloadsAreMute, NothingIsMute
<1> QED  BY <1>4, <1>5

(* As the timer's thread ends a communication, or starts one, the user's    *)
(* has no register to use.                                                  *)
LEMMA TimerApart ==
  ASSUME Order, comm, Idle("comm"), stage = "idle", NEW x, Dac => Settled(todo["main"], x)
  PROVE  Mute(todo["main"], x)
<1>1. Shows(todo["main"], <<>>) /\ Dac
  <2>1. CASE Opens
    <3>1. PICK w : Shows(todo["main"], w) /\ Opening(w)  BY <2>1 DEF Opens
    <3>2. w = <<>> /\ OnAir  BY <3>1 DEF Opening, Has, Off, Armed
    <3> QED  BY <3>1, <3>2 DEF OnAir, Has
  <2>2. CASE TimerActs
    <3>1. PICK w : Shows(todo["comm"], w) /\ Acting(w)  BY <2>2 DEF TimerActs
    <3>2. w = <<>>  BY <3>1, ShowsEmpty DEF Idle
    <3>3. Off \/ Armed \/ OnAir
      BY <3>1, <3>2, OpeningEnds, ClosingEnds, PausingEnds DEF Acting
    <3> QED  BY <2>2, <3>3 DEF Off, Armed, OnAir, Has, TimerActs
  <2> QED  BY <2>1, <2>2 DEF Order, UserCloses, Boots
<1>2. \A k \in 1..Len(todo["main"]) : ~ Lowers(todo["main"][k])
  <2>1. ASSUME NEW k \in 1..Len(todo["main"]), Lowers(todo["main"][k]) PROVE FALSE
    <3>1. Label(todo["main"][k]) = "lower" /\ "lower" \in Key
      BY <2>1 DEF Lowers, Label, Key
    <3>2. \E i \in 1..Len(<<>>) : <<>>[i] = Label(todo["main"][k])  BY <1>1, <3>1, ShowsAt
    <3> QED  BY <3>2
  <2> QED  BY <2>1
<1> QED  BY <1>1, <1>2 DEF Settled, Mute

LEMMA StartsUnarmed == Opening(<<"supervisorOn">>) => Off
<1> DEFINE v == <<"supervisorOn">>
<1>1. /\ v # <<>> /\ v # Tail(Starting) /\ v # <<"startTx", "startRx", "commOn">>
      /\ v # <<"startRx", "commOn">> /\ v # <<"commOn">> /\ v # Undoing
      /\ v # <<"lower", "supervisorOff">> /\ v # <<"supervisorOff">>
  BY DEF Starting, Undoing
<1> QED  BY <1>1 DEF Opening

(* Nor is there a communication as the timer's thread starts one.           *)
LEMMA StartsFromRest ==
  ASSUME Order, ~ comm, supervisor, Idle("comm"), stage = "idle", settings.periodic PROVE ~ Dac
<1>1. Armed => ~ Dac  BY DEF Armed, Has
<1>2. CASE Opens
  <2>1. PICK w : Shows(todo["main"], w) /\ Opening(w) /\ Fits(w)  BY <1>2 DEF Opens
  <2>2. w = <<>> \/ w = <<"supervisorOn">>  BY <2>1 DEF Fits
  <2>3. CASE w = <<>>  BY <1>1, <2>1, <2>3, OpeningEnds DEF Off, OnAir, Has
  <2>4. CASE w = <<"supervisorOn">>  BY <2>1, <2>4, StartsUnarmed DEF Off, Has
  <2> QED  BY <2>2, <2>3, <2>4
<1>3. CASE TimerActs
  <2>1. PICK w : Shows(todo["comm"], w) /\ Acting(w)  BY <1>3 DEF TimerActs
  <2>2. w = <<>>  BY <2>1, ShowsEmpty DEF Idle
  <2>3. Off \/ Armed \/ OnAir
    BY <2>1, <2>2, OpeningEnds, ClosingEnds, PausingEnds DEF Acting
  <2> QED  BY <1>1, <2>3 DEF Off, OnAir, Has
<1> QED  BY <1>2, <1>3 DEF Order, UserCloses, Boots

LEMMA OnAirIsArmed == ASSUME Order, comm, Idle("comm"), stage = "idle" PROVE supervisor
<1>1. CASE Opens
  <2>1. PICK w : Shows(todo["main"], w) /\ Opening(w)  BY <1>1 DEF Opens
  <2> QED  BY <2>1 DEF Opening, OnAir, Off, Armed, Has
<1>2. CASE TimerActs
  <2>1. PICK w : Shows(todo["comm"], w) /\ Acting(w)  BY <1>2 DEF TimerActs
  <2>2. w = <<>>  BY <2>1, ShowsEmpty DEF Idle
  <2>3. Off \/ Armed \/ OnAir
    BY <2>1, <2>2, OpeningEnds, ClosingEnds, PausingEnds DEF Acting
  <2> QED  BY <2>3 DEF Off, OnAir, Armed, Has
<1> QED  BY <1>1, <1>2 DEF Order, UserCloses, Boots

LEMMA QuietStepKeepsRegs ==
  ASSUME CommInv, NEW x, RegKept(x), NEW t \in {"blink", "rx", "tx"}, Proceeds(t), Outcome(t),
         \A u \in Threads : u # t => todo'[u] = todo[u]
  PROVE  RegKept(x)'
<1>0. todo[t] # <<>>  BY DEF Proceeds
<1>1. Avoids(todo[t], KeyOps) /\ Head(todo[t]).op \notin KeyOps
  BY <1>0, AvoidsRest DEF CommInv, RoleInv
<1>2. Label(Head(todo[t])) = "none" /\ Head(todo[t]).op \notin {"startTx", "startRx"}
  BY <1>1, QuietLabel DEF KeyOps, Key
<1>3. Dac' <=> Dac  BY <1>2 DEF Outcome, Effect
<1>4. Avoids(todo[t], RegOps) /\ Avoids(Tail(todo[t]), RegOps)
  BY <1>0, AvoidsRest DEF RegKept
<1>5. Avoids(todo'[t], RegOps)
  <2>1. ASSUME PutsBack(todo[t], todo'[t]) PROVE Avoids(todo'[t], RegOps)
    <3>1. PICK r : /\ r = <<>> \/ \E y : r = <<[op |-> "writei", samples |-> y]>>
                   /\ todo'[t] = r \o Tail(todo[t])
      BY <2>1 DEF PutsBack
    <3>2. Avoids(r, RegOps)  BY <3>1, AvoidsNone, AvoidsOne DEF RegOps
    <3> QED  BY <1>4, <3>1, <3>2, AvoidsJoined
  <2> QED  BY <1>2, <1>4, <2>1 DEF Proceeds
<1>6. \A u \in {"blink", "rx", "tx"} : Avoids(todo'[u], RegOps)
  BY <1>5 DEF Threads, RegKept
<1>7. \A u \in {"main", "comm"} : todo'[u] = todo[u]  BY DEF Threads
<1>8. Patient'
  <2>1. stage' = stage /\ settings' = settings  BY DEF Outcome, Effect
  <2>2. supervisor' <=> supervisor  BY <1>2 DEF Outcome, Effect
  <2> QED  BY <1>7, <2>1, <2>2 DEF RegKept, Patient, Unarmed, Idle
<1> QED  BY <1>3, <1>6, <1>7, <1>8 DEF RegKept, Idle

LEMMA MainStepKeepsRegs ==
  ASSUME CommInv, NEW x, RegKept(x), NEW t \in {"main", "comm"}, Proceeds(t), Outcome(t),
         \A u \in Threads : u # t => todo'[u] = todo[u]
  PROVE  RegKept(x)'
<1>0. todo[t] # <<>> /\ t \in Threads  BY DEF Proceeds, Threads
<1>e. Free(<<>>, x) /\ Settled(<<>>, x) /\ Mute(<<>>, x)
  BY NothingIsMute, MuteIsSettled
<1>1. Free(todo[t], x) /\ (Dac => Settled(todo[t], x))  BY DEF RegKept
<1>2. /\ Free(Tail(todo[t]), x) /\ (Raises(Head(todo[t])) => Settled(Tail(todo[t]), x))
      /\ Dac => Lowers(Head(todo[t])) \/ Settled(Tail(todo[t]), x)
      /\ \A y : Mute(todo[t], y) => Mute(Tail(todo[t]), y)
  BY <1>0, <1>1, FreeRest, SettledRest, MuteRest
<1>3. /\ Label(Head(todo[t])) = "raise" <=> Raises(Head(todo[t]))
      /\ Lowers(Head(todo[t])) => Label(Head(todo[t])) = "lower"
  BY DEF Label, KeyOps, Key, Raises, Lowers
<1>l. Label(Head(todo[t])) \in {"raise", "startTx", "startRx"} =>
        \/ t = "main" /\ todo["comm"] = <<>> /\ (stage = "idle" => ~ settings.periodic)
        \/ t = "comm"
  BY <1>0, StartsAlone DEF Idle
<1>m. Head(todo[t]).op \in {"startTx", "startRx"} =>
        Label(Head(todo[t])) \in {"raise", "startTx", "startRx"}
  BY DEF Label, KeyOps, Key
<1>4. Head(todo[t]).op # "writei"
  <2>1. Avoids(todo[t], {"writei", "transfer"})  BY DEF CommInv, RoleInv, Threads
  <2>2. Head(todo[t]).op \notin {"writei", "transfer"}  BY <1>0, <2>1, AvoidsRest
  <2> QED  BY <2>2
<1>5. Free(todo'[t], x) /\ (Dac' => Settled(todo'[t], x))
  <2>1. CASE todo'[t] = Tail(todo[t]) /\ Effect(Label(Head(todo[t])))
    <3>1. Dac' => Raises(Head(todo[t])) \/ (Dac /\ ~ Lowers(Head(todo[t])))
      BY <1>3, <2>1 DEF Effect
    <3> QED  BY <1>2, <2>1, <3>1
  <2>2. CASE todo'[t] = todo[t] /\ Effect("none")  BY <1>1, <2>2 DEF Effect
  <2>3. CASE todo'[t] = AbandonTx \/ todo'[t] = AbandonRx  BY <2>3, ClosingPrograms
  <2> QED  BY <1>4, <2>1, <2>2, <2>3 DEF Outcome
<1>6. ASSUME NEW u \in {"main", "comm"}, u # t
      PROVE  Free(todo'[u], x) /\ (Dac' => Settled(todo'[u], x))
  <2>1. todo'[u] = todo[u]  BY <1>6 DEF Threads
  <2>2. CASE Raises(Head(todo[t]))
    <3>1. CASE t = "main"
      <4>1. todo[u] = <<>>  BY <1>3, <1>6, <1>l, <2>2, <3>1
      <4> QED  BY <1>e, <2>1, <4>1
    <3>2. CASE t = "comm"
      <4>1. u = "main" /\ Mute(todo[u], x)  BY <1>0, <1>6, <3>2 DEF RegKept, Idle
      <4> QED  BY <2>1, <4>1, MuteIsSettled
    <3> QED  BY <3>1, <3>2
  <2>3. CASE ~ Raises(Head(todo[t]))
    <3>1. Dac' => Dac  BY <1>3, <2>3 DEF Outcome, Effect
    <3> QED  BY <2>1, <3>1 DEF RegKept
  <2> QED  BY <2>2, <2>3
<1>7. \A u \in {"blink", "rx", "tx"} : todo'[u] = todo[u]  BY DEF Threads
<1>8. Mute(todo'["main"], x) \/ Idle("comm")'
  <2>1. CASE t = "comm"
    <3>1. Mute(todo["main"], x) /\ todo'["main"] = todo["main"]
      BY <1>0, <2>1 DEF RegKept, Idle, Threads
    <3> QED  BY <3>1
  <2>2. CASE t = "main"
    <3>1. todo'["comm"] = todo["comm"]  BY <2>2 DEF Threads
    <3>2. CASE todo["comm"] = <<>>  BY <3>1, <3>2 DEF Idle
    <3>3. CASE todo["comm"] # <<>>
      <4>1. Mute(todo["main"], x)  BY <3>3 DEF RegKept, Idle
      <4>2. todo'[t] \in {todo[t], Tail(todo[t])}
        BY <1>4, <1>l, <1>m, <2>2, <3>3 DEF Outcome
      <4> QED  BY <1>2, <2>2, <4>1, <4>2
    <3> QED  BY <3>2, <3>3
  <2> QED  BY <2>1, <2>2
<1>9. Patient'
  <2>1. stage' = stage /\ settings' = settings  BY DEF Outcome, Effect
  <2>2. CASE t = "comm"
    <3>1. ~ Idle("comm") /\ todo'["main"] = todo["main"]  BY <1>0, <2>2 DEF Idle, Threads
    <3> QED  BY <2>1, <3>1 DEF RegKept, Patient, Unarmed
  <2>3. CASE t = "main"
    <3> SUFFICES ASSUME settings.periodic, stage = "idle"
                 PROVE  Mute(todo'["main"], "work") \/ Unarmed'
      BY <2>1 DEF Patient
    <3>1. todo'["comm"] = todo["comm"]  BY <2>3 DEF Threads
    <3>2. \/ todo'[t] = Tail(todo[t]) /\ Effect(Label(Head(todo[t])))
          \/ todo'[t] = todo[t] /\ Effect("none")
      BY <1>4, <1>l, <1>m, <2>3 DEF Outcome
    <3>3. CASE Mute(todo["main"], "work")  BY <1>2, <2>3, <3>2, <3>3
    <3>4. CASE Unarmed
      <4>1. Shows(todo["main"], <<>>) /\ ~ supervisor /\ Idle("comm")  BY <3>4 DEF Unarmed
      <4>2. Label(Head(todo["main"])) \notin Key /\ Shows(Tail(todo["main"]), <<>>)
        BY <1>0, <2>3, <4>1, ShowsRest
      <4>3. ~ supervisor'  BY <2>3, <3>2, <4>1, <4>2 DEF Effect, Key
      <4> QED  BY <2>3, <3>1, <3>2, <4>1, <4>2, <4>3 DEF Unarmed, Idle
    <3> QED  BY <3>3, <3>4 DEF RegKept, Patient
  <2> QED  BY <2>2, <2>3
<1> QED  BY <1>5, <1>6, <1>7, <1>8, <1>9 DEF RegKept

LEMMA RegInvKept ==
  ASSUME TodoInv, TxTypes, CommInv, NEW x \in Scopes, RegInv(x), Next, Alive' PROVE RegInv(x)'
<1>h. Excused(x) => Excused(x)'  BY HappenedStays DEF Excused, Flagged
<1> SUFFICES ASSUME ~ Excused(x)' PROVE RegKept(x)'  BY DEF RegInv, RegKept
<1>i. RegKept(x)  BY <1>h DEF RegInv, RegKept
<1>s. RegOps \subseteq Checks  BY DEF Checks
<1>1. CASE \E t \in Threads : StepOf(t)
  <2>1. PICK t \in Threads : StepOf(t)  BY <1>1
  <2>2. /\ Proceeds(t) /\ Outcome(t)
        /\ \A u \in Threads : u # t => todo'[u] = todo[u]
    BY <2>1, StepOfOne, StepOutcome DEF CommInv
  <2>3. CASE t \in {"blink", "rx", "tx"}  BY <1>i, <2>2, <2>3, QuietStepKeepsRegs
  <2>4. CASE t \in {"main", "comm"}  BY <1>i, <2>2, <2>4, MainStepKeepsRegs
  <2> QED  BY <2>3, <2>4 DEF Threads
<1>2. CASE Main
  <2>1. Idle("main") /\ MainFrame /\ \E p, s : Call(p, s) /\ Given(p, s)  BY <1>2, MainGives
  <2>2. PICK p, s : Call(p, s) /\ Given(p, s)  BY <2>1
  <2>3. todo'["main"] = p /\ \A u \in Threads \ {"main"} : todo'[u] = todo[u]
    BY <2>2 DEF Call, TodoInv, Threads
  <2>4. Dac' <=> Dac  BY <2>1 DEF MainFrame, Dac
  <2>5. Free(p, x) /\ (Dac => Settled(p, x))  BY <2>1, <2>2, GivenFree DEF CommInv
  <2>6. Patient'  BY <1>2, <2>2, GivenIsPatient DEF CommInv
  <2>7. Mute(p, x) \/ Idle("comm")  BY <2>1, <2>2, GivenApart DEF CommInv
  <2>8. /\ todo'["comm"] = todo["comm"]
        /\ \A u \in {"blink", "rx", "tx"} : todo'[u] = todo[u]
    BY <2>3 DEF Threads
  <2> QED  BY <1>i, <2>3, <2>4, <2>5, <2>6, <2>7, <2>8 DEF RegKept, Idle
<1>3. CASE TxCycle \/ RxCycle \/ TimerStarts \/ TimerStops \/ TimerToggles
  <2>c. settings' = settings /\ stage' = stage /\ supervisor' = supervisor
    BY <1>3, Zenon DEF TxCycle, RxCycle, TimerStarts, TimerStops, TimerToggles, UserFrame
  <2>1. CASE UNCHANGED <<todo, spi>>
    BY <1>i, <2>c, <2>1 DEF RegKept, Dac, Patient, Unarmed, Idle
  <2>2. CASE \E t \in Threads : \E p : GivenTo(t, p)
    <3>1. PICK t \in Threads : \E p : GivenTo(t, p)  BY <2>2
    <3>2. PICK p : GivenTo(t, p)  BY <3>1
    <3>3. IF t = "comm" THEN Free(p, x) /\ (Dac => Settled(p, x)) ELSE Avoids(p, RegOps)
      <4>1. DOMAIN FillNext = 1..tx.len  BY DEF FillNext
      <4>2. "writei" \notin RegOps /\ "transfer" \notin RegOps  BY DEF RegOps
      <4>3. Avoids(FlushBuffer(FillNext), RegOps)  BY <4>1, <4>2, FlushAvoids
      <4>4. Avoids(ToggleAppActivity, RegOps) /\ \A d : Avoids(SetRxActivity(d), RegOps)
        BY <1>s, MuteCalls
      <4>5. CASE t = "comm" /\ comm
        <5>1. p = Deactivate(TRUE) \/ p = StopCommunication  BY <3>2, <4>5 DEF GivenTo
        <5> QED  BY <4>5, <5>1, ClosingPrograms
      <4>6. CASE t = "comm" /\ ~ comm
        <5>1. /\ p = StartCommunication /\ supervisor /\ stage = "idle" /\ settings.periodic
              /\ Idle("comm")
          BY <3>2, <4>6 DEF GivenTo
        <5>2. ~ Dac  BY <4>6, <5>1, StartsFromRest DEF CommInv
        <5> QED  BY <4>6, <5>1, <5>2, OpeningProgram
      <4>7. CASE t # "comm"  BY <3>2, <4>3, <4>4, <4>7 DEF GivenTo
      <4> QED  BY <4>5, <4>6, <4>7
    <3>4. /\ t # "main" /\ (Dac' <=> Dac) /\ Idle(t)
          /\ \A u \in Threads : todo'[u] = IF u = t THEN p ELSE todo[u]
      BY <3>2 DEF GivenTo, TodoInv, Threads, Dac
    <3>5. \A u \in {"blink", "rx", "tx"} : Avoids(todo'[u], RegOps)
      BY <1>i, <3>3, <3>4 DEF Threads, RegKept
    <3>6. \A u \in {"main", "comm"} : Free(todo'[u], x) /\ (Dac' => Settled(todo'[u], x))
      BY <1>i, <3>3, <3>4 DEF Threads, RegKept
    <3>m. todo'["main"] = todo["main"] /\ (t # "comm" => todo'["comm"] = todo["comm"])
      BY <3>4 DEF Threads
    <3>7. t = "comm" => Mute(todo["main"], x)
      <4>1. CASE t = "comm" /\ comm
        BY <1>i, <3>2, <4>1, TimerApart DEF GivenTo, CommInv, RegKept
      <4>2. CASE t = "comm" /\ ~ comm
        <5>1. /\ supervisor /\ stage = "idle" /\ settings.periodic
              /\ ~ Idle("main") => Flagged'
          BY <3>2, <4>2 DEF GivenTo, Flagged
        <5>2. CASE x = "work"  BY <1>i, <5>1, <5>2 DEF RegKept, Patient, Unarmed
        <5>3. CASE x = "all"
          <6>1. Idle("main")  BY <5>1, <5>3 DEF Excused
          <6> QED  BY <6>1, NothingIsMute DEF Idle
        <5> QED  BY <5>2, <5>3 DEF Scopes
      <4> QED  BY <4>1, <4>2
    <3>8. Mute(todo'["main"], x) \/ Idle("comm")'
      BY <1>i, <3>m, <3>7 DEF RegKept, Idle
    <3>9. Patient'
      <4>1. CASE t # "comm"
        BY <1>i, <2>c, <3>m, <4>1 DEF RegKept, Patient, Unarmed, Idle
      <4>2. CASE t = "comm" /\ Mute(todo["main"], "work")
        BY <3>m, <4>2 DEF Patient
      <4>3. CASE t = "comm" /\ ~ Mute(todo["main"], "work")
        <5>1. stage = "idle"  BY <3>2, <4>3 DEF GivenTo
        <5>2. ~ settings.periodic \/ ~ supervisor
          BY <1>i, <4>3, <5>1 DEF RegKept, Patient, Unarmed
        <5>3. comm  BY <3>2, <4>3, <5>2 DEF GivenTo
        <5>4. supervisor  BY <3>4, <4>3, <5>1, <5>3, OnAirIsArmed DEF CommInv
        <5> QED  BY <2>c, <5>2, <5>4 DEF Patient
      <4> QED  BY <4>1, <4>2, <4>3
    <3> QED  BY <3>5, <3>6, <3>8, <3>9 DEF RegKept
  <2> QED  BY <1>3, <2>1, <2>2, CyclesGive
<1>4. CASE Callback \/ (\E f \in Flags : Edge(f)) \/ Kernel
  <2>1. UNCHANGED <<todo, spi, stage, settings, supervisor>>  BY <1>4, NotHere DEF Elsewhere
  <2> QED  BY <1>i, <2>1 DEF RegKept, Dac, Patient, Unarmed, Idle
<1> QED  BY <1>1, <1>2, <1>3, <1>4 DEF Next

LEMMA RegInvInit == ASSUME Init, NEW x PROVE RegInv(x)
<1>1. \A t \in Threads : todo[t] = <<>>  BY DEF Init
<1>2. \A y : Mute(<<>>, y) /\ Free(<<>>, y) /\ Settled(<<>>, y)  BY NothingIsMute, MuteIsSettled
<1>3. Avoids(<<>>, RegOps)  BY AvoidsNone
<1> QED  BY <1>1, <1>2, <1>3 DEF RegInv, RegKept, Patient, Threads

(* A register that is used in DAC mode was one of the overloads.           *)
LEMMA DacOfStep ==
  ASSUME RegInv("all"), NEW t \in Threads, InDacMode(t) PROVE Flagged
<1>1. todo[t] # <<>> /\ Head(todo[t]).op \in RegOps /\ Dac
  BY DEF InDacMode, RegisterStep, Is, RegOps, Dac
<1>2. Avoids(todo[t], RegOps) => FALSE  BY <1>1, AvoidsRest
<1>3. Settled(todo[t], "all") => FALSE
  <2>1. Touches(Head(todo[t]), "all")  BY <1>1 DEF Touches
  <2> QED  BY <1>1, <2>1, SettledRest
<1> QED  BY <1>1, <1>2, <1>3 DEF RegInv, RegKept, Excused, Threads

(* The reading of a register is two steps, a flag is replaced in a value   *)
(* just read, and what is asserted was written and read again.  Paired     *)
(* says so of what is left of a program, Entire of a whole one.            *)
CheckedRegs == {"enable1", "enable2", "gain_select", "control1", "control2"}
WorkRegs == CheckedRegs \cup {"reset"}
Asks(a, b) == a.op = "ask" /\ a.reg = b.reg
Answers(a, b) == a.op = "answer" /\ a.reg = b.reg
Gives(w, e) ==
  \/ w.op = "write" /\ w.value \cap e.mask = e.content
  \/ w.op = "writeBack" /\ w.content \cap e.mask = e.content /\ e.mask \ w.mask \subseteq e.content
Pairs(a, b) ==
  /\ b.op = "answer" => Asks(a, b)
  /\ b.op = "writeBack" => Answers(a, b)
  /\ b.op = "expect" => a.op = "answer" /\ a.reg \in CheckedRegs
Tests(w, a, e) == e.op = "expect" => w.reg = a.reg /\ Gives(w, e)
Mild(s) == s.op = "writeBack" => s.reg \in WorkRegs /\ "soft_reset" \notin s.content
Paired(p) ==
  /\ Program(p)
  /\ \A k \in 1..Len(p) :
       /\ Mild(p[k])
       /\ k > 1 => Pairs(p[k - 1], p[k])
       /\ k > 3 => Tests(p[k - 3], p[k - 1], p[k])
Follower == {"answer", "writeBack", "expect"}
Entire(p) ==
  /\ Paired(p)
  /\ \A k \in 1..Len(p) : /\ k = 1 => p[k].op \notin Follower
                          /\ k <= 3 => p[k].op # "expect"

LEMMA PlainIsEntire == ASSUME NEW p, Avoids(p, Checks) PROVE Entire(p)
  BY AvoidsIsProgram DEF Entire, Paired, Mild, Pairs, Tests, Follower, Checks, RegOps

LEMMA EntireJoined ==
  ASSUME NEW p, NEW q, Entire(p), Entire(q) PROVE Entire(p \o q)
<1> DEFINE r == p \o q
           m == Len(p)
           n == Len(q)
<1>1. /\ Program(r) /\ m \in Nat /\ n \in Nat /\ Len(r) = m + n
      /\ \A k \in 1..m : r[k] = p[k]
      /\ \A k \in 1..n : r[m + k] = q[k]
      /\ \A k \in 1..Len(r) : k \in 1..m \/ (k - m \in 1..n /\ r[k] = q[k - m])
  BY ProgramJoined DEF Entire, Paired
<1>2. \A k \in 1..m :
        /\ Mild(p[k])
        /\ k > 1 => Pairs(p[k - 1], p[k])
        /\ k > 3 => Tests(p[k - 3], p[k - 1], p[k])
        /\ k = 1 => p[k].op \notin Follower
        /\ k <= 3 => p[k].op # "expect"
  BY DEF Entire, Paired
<1>3. \A k \in 1..n :
        /\ Mild(q[k])
        /\ k > 1 => Pairs(q[k - 1], q[k])
        /\ k > 3 => Tests(q[k - 3], q[k - 1], q[k])
        /\ k = 1 => q[k].op \notin Follower
        /\ k <= 3 => q[k].op # "expect"
  BY DEF Entire, Paired
<1> HIDE DEF r, m, n
<1>4. ASSUME NEW k \in 1..Len(r)
      PROVE  /\ Mild(r[k])
             /\ k > 1 => Pairs(r[k - 1], r[k])
             /\ k > 3 => Tests(r[k - 3], r[k - 1], r[k])
             /\ k = 1 => r[k].op \notin Follower
             /\ k <= 3 => r[k].op # "expect"
  <2>1. CASE k \in 1..m
    <3>1. r[k] = p[k]  BY <1>1, <2>1
    <3>2. k > 1 => r[k - 1] = p[k - 1]
      <4>1. k > 1 => k - 1 \in 1..m  BY <1>1, <2>1
      <4> QED  BY <1>1, <4>1
    <3>3. k > 3 => r[k - 3] = p[k - 3] /\ r[k - 1] = p[k - 1]
      <4>1. k > 3 => k - 3 \in 1..m /\ k - 1 \in 1..m  BY <1>1, <2>1
      <4> QED  BY <1>1, <4>1
    <3> QED  BY <1>2, <2>1, <3>1, <3>2, <3>3
  <2>2. CASE k - m \in 1..n /\ r[k] = q[k - m]
    <3> DEFINE i == k - m
    <3>1. r[k] = q[i] /\ i \in 1..n /\ k = m + i  BY <1>1, <2>2
    <3> HIDE DEF i
    <3>2. i > 1 => r[k - 1] = q[i - 1]
      <4>1. i > 1 => i - 1 \in 1..n /\ m + (i - 1) = k - 1  BY <1>1, <3>1
      <4> QED  BY <1>1, <4>1
    <3>3. i > 3 => r[k - 3] = q[i - 3]
      <4>1. i > 3 => i - 3 \in 1..n /\ m + (i - 3) = k - 3  BY <1>1, <3>1
      <4> QED  BY <1>1, <4>1
    <3>4. /\ Mild(q[i])
          /\ i > 1 => Pairs(q[i - 1], q[i])
          /\ i > 3 => Tests(q[i - 3], q[i - 1], q[i])
          /\ i = 1 => q[i].op \notin Follower
          /\ i <= 3 => q[i].op # "expect"
      BY <1>3, <3>1
    <3>5. i >= 1 /\ k >= i /\ (i > 1 \/ i = 1) /\ (i > 3 \/ i <= 3) /\ (i > 3 => i > 1)
          /\ (k = 1 => i = 1) /\ (k <= 3 => i <= 3)
      BY <1>1, <3>1
    <3>6. k > 1 => Pairs(r[k - 1], r[k])
      <4>1. CASE i > 1  BY <3>1, <3>2, <3>4, <4>1
      <4>2. CASE i = 1  BY <3>1, <3>4, <4>2 DEF Pairs, Follower
      <4> QED  BY <3>5, <4>1, <4>2
    <3>7. k > 3 => Tests(r[k - 3], r[k - 1], r[k])
      <4>1. CASE i > 3  BY <3>1, <3>2, <3>3, <3>4, <3>5, <4>1
      <4>2. CASE i <= 3  BY <3>1, <3>4, <4>2 DEF Tests
      <4> QED  BY <3>5, <4>1, <4>2
    <3> QED  BY <3>1, <3>4, <3>5, <3>6, <3>7
  <2> QED  BY <1>1, <2>1, <2>2
<1>5. Entire(r)  BY <1>1, <1>4 DEF Entire, Paired
<1> QED  BY <1>5 DEF r

LEMMA PairedRest ==
  ASSUME NEW p, Paired(p), p # <<>> PROVE Paired(Tail(p)) /\ Mild(Head(p))
<1> DEFINE n == Len(p)
           q == Tail(p)
<1>1. /\ n \in Nat \ {0} /\ Len(q) = n - 1 /\ Head(p) = p[1] /\ Program(q)
      /\ \A k \in 1..Len(q) : q[k] = p[k + 1]
  BY ProgramRest DEF Paired
<1>2. \A k \in 1..n :
        /\ Mild(p[k])
        /\ k > 1 => Pairs(p[k - 1], p[k])
        /\ k > 3 => Tests(p[k - 3], p[k - 1], p[k])
  BY DEF Paired
<1> HIDE DEF n, q
<1>3. ASSUME NEW k \in 1..Len(q)
      PROVE  /\ Mild(q[k])
             /\ k > 1 => Pairs(q[k - 1], q[k])
             /\ k > 3 => Tests(q[k - 3], q[k - 1], q[k])
  <2>1. k + 1 \in 1..n /\ q[k] = p[k + 1] /\ (k > 1 => k + 1 > 1) /\ (k > 3 => k + 1 > 3)
    BY <1>1, <1>3
  <2>2. k > 1 => q[k - 1] = p[(k + 1) - 1]
    <3>1. k > 1 => k - 1 \in 1..Len(q) /\ (k - 1) + 1 = (k + 1) - 1  BY <1>1, <1>3
    <3> QED  BY <1>1, <3>1
  <2>3. k > 3 => q[k - 3] = p[(k + 1) - 3] /\ q[k - 1] = p[(k + 1) - 1]
    <3>1. k > 3 => k - 3 \in 1..Len(q) /\ (k - 3) + 1 = (k + 1) - 3 /\ k > 1  BY <1>1, <1>3
    <3> QED  BY <1>1, <2>2, <3>1
  <2> QED  BY <1>2, <2>1, <2>2, <2>3
<1>4. Mild(p[1])
  <2>1. 1 \in 1..n  BY <1>1
  <2> QED  BY <1>2, <2>1
<1> QED  BY <1>1, <1>3, <1>4 DEF Paired, q

LEMMA ReadIsEntire == ASSUME NEW g PROVE Entire(ReadCommand(g))
<1> DEFINE a == [op |-> "ask", reg |-> g]
           b == [op |-> "answer", reg |-> g]
           r == <<a, b>>
<1>1. ReadCommand(g) = r  BY DEF ReadCommand
<1>2. a.op = "ask" /\ b.op = "answer" /\ a.reg = b.reg  OBVIOUS
<1> HIDE DEF a, b
<1>3. r \in Seq({a, b}) /\ Len(r) = 2 /\ r[1] = a /\ r[2] = b  OBVIOUS
<1> HIDE DEF r
<1>4. Program(r)  BY <1>3 DEF Program
<1>5. ASSUME NEW k \in 1..Len(r)
      PROVE  /\ Mild(r[k])
             /\ k > 1 => Pairs(r[k - 1], r[k])
             /\ k > 3 => Tests(r[k - 3], r[k - 1], r[k])
             /\ k = 1 => r[k].op \notin Follower
             /\ k <= 3 => r[k].op # "expect"
  <2>1. Mild(a) /\ Mild(b) /\ Pairs(a, b)  BY <1>2 DEF Mild, Pairs, Asks
  <2>2. a.op \notin Follower /\ a.op # "expect" /\ b.op # "expect"  BY <1>2 DEF Follower
  <2>3. CASE k = 1  BY <1>3, <2>1, <2>2, <2>3
  <2>4. CASE k = 2  BY <1>3, <2>1, <2>2, <2>4
  <2> QED  BY <1>3, <2>3, <2>4
<1>6. Entire(r)  BY <1>4, <1>5 DEF Entire, Paired
<1> QED  BY <1>1, <1>6

LEMMA OneIsEntire == ASSUME NEW s, s.op \notin Follower PROVE Entire(<<s>>)
<1> DEFINE r == <<s>>
<1>1. r \in Seq({s}) /\ Len(r) = 1 /\ r[1] = s  OBVIOUS
<1> HIDE DEF r
<1>2. Program(r)  BY <1>1 DEF Program
<1>3. \A k \in 1..Len(r) : k = 1 /\ r[k] = s  BY <1>1
<1>4. Mild(s) /\ s.op # "expect"  BY DEF Mild, Follower
<1>5. Entire(r)  BY <1>2, <1>3, <1>4 DEF Entire, Paired
<1> QED  BY <1>5 DEF r

LEMMA ClearIsEntire ==
  ASSUME NEW g \in WorkRegs, NEW m, NEW c, "soft_reset" \notin c
  PROVE  Entire(ReadCommand(g) \o WriteBack(g, m, c))
<1> DEFINE a == [op |-> "ask", reg |-> g]
           b == [op |-> "answer", reg |-> g]
           w == [op |-> "writeBack", reg |-> g, mask |-> m, content |-> c]
           r == <<a, b>> \o <<w>>
<1>1. ReadCommand(g) \o WriteBack(g, m, c) = r  BY DEF ReadCommand, WriteBack
<1>2. /\ a.op = "ask" /\ b.op = "answer" /\ a.reg = b.reg /\ b.reg = g
      /\ w.op = "writeBack" /\ w.reg = b.reg /\ w.content = c
  OBVIOUS
<1> HIDE DEF a, b, w
<1>3. r \in Seq({a, b, w}) /\ Len(r) = 3 /\ r[1] = a /\ r[2] = b /\ r[3] = w  OBVIOUS
<1> HIDE DEF r
<1>4. Program(r)  BY <1>3 DEF Program
<1>5. ASSUME NEW k \in 1..Len(r)
      PROVE  /\ Mild(r[k])
             /\ k > 1 => Pairs(r[k - 1], r[k])
             /\ k > 3 => Tests(r[k - 3], r[k - 1], r[k])
             /\ k = 1 => r[k].op \notin Follower
             /\ k <= 3 => r[k].op # "expect"
  <2>1. Mild(a) /\ Mild(b) /\ Mild(w) /\ Pairs(a, b) /\ Pairs(b, w)
    BY <1>2 DEF Mild, Pairs, Asks, Answers
  <2>2. a.op \notin Follower /\ a.op # "expect" /\ b.op # "expect" /\ w.op # "expect"
    BY <1>2 DEF Follower
  <2>3. CASE k = 1  BY <1>3, <2>1, <2>2, <2>3
  <2>4. CASE k = 2  BY <1>3, <2>1, <2>2, <2>4
  <2>5. CASE k = 3  BY <1>3, <2>1, <2>2, <2>5
  <2> QED  BY <1>3, <2>3, <2>4, <2>5
<1>6. Entire(r)  BY <1>4, <1>5 DEF Entire, Paired
<1> QED  BY <1>1, <1>6

LEMMA SetIsEntire ==
  ASSUME NEW g \in CheckedRegs, NEW v, NEW m, NEW c, v \cap m = c
  PROVE  Entire((WriteCommand(g, v) \o ReadCommand(g)) \o Expect(m, c))
<1> DEFINE w == [op |-> "write", reg |-> g, value |-> v]
           a == [op |-> "ask", reg |-> g]
           b == [op |-> "answer", reg |-> g]
           e == [op |-> "expect", mask |-> m, content |-> c]
           r == (<<w>> \o <<a, b>>) \o <<e>>
<1>1. (WriteCommand(g, v) \o ReadCommand(g)) \o Expect(m, c) = r
  BY DEF ReadCommand, WriteCommand, Expect
<1>2. /\ a.op = "ask" /\ b.op = "answer" /\ a.reg = b.reg /\ b.reg = g
      /\ w.op = "write" /\ w.reg = g /\ w.value = v
      /\ e.op = "expect" /\ e.mask = m /\ e.content = c
  OBVIOUS
<1> HIDE DEF a, b, w, e
<1>3. /\ r \in Seq({a, b, w, e}) /\ Len(r) = 4
      /\ r[1] = w /\ r[2] = a /\ r[3] = b /\ r[4] = e
  OBVIOUS
<1> HIDE DEF r
<1>4. Program(r)  BY <1>3 DEF Program
<1>5. ASSUME NEW k \in 1..Len(r)
      PROVE  /\ Mild(r[k])
             /\ k > 1 => Pairs(r[k - 1], r[k])
             /\ k > 3 => Tests(r[k - 3], r[k - 1], r[k])
             /\ k = 1 => r[k].op \notin Follower
             /\ k <= 3 => r[k].op # "expect"
  <2>1. /\ Mild(a) /\ Mild(b) /\ Mild(w) /\ Mild(e)
        /\ Pairs(w, a) /\ Pairs(a, b) /\ Pairs(b, e)
    BY <1>2 DEF Mild, Pairs, Asks
  <2>2. /\ w.op \notin Follower /\ w.op # "expect"
        /\ a.op # "expect" /\ b.op # "expect"
    BY <1>2 DEF Follower
  <2>3. Tests(w, b, e)  BY <1>2 DEF Tests, Gives
  <2>4. CASE k = 1  BY <1>3, <2>1, <2>2, <2>4
  <2>5. CASE k = 2  BY <1>3, <2>1, <2>2, <2>5
  <2>6. CASE k = 3  BY <1>3, <2>1, <2>2, <2>6
  <2>7. CASE k = 4  BY <1>3, <2>1, <2>3, <2>7
  <2> QED  BY <1>3, <2>4, <2>5, <2>6, <2>7
<1>6. Entire(r)  BY <1>4, <1>5 DEF Entire, Paired
<1> QED  BY <1>1, <1>6

LEMMA ReplaceIsEntire ==
  ASSUME NEW g \in CheckedRegs, NEW m, NEW c, NEW x, NEW y, "soft_reset" \notin c,
         c \cap x = y, x \ m \subseteq y
  PROVE  Entire(((ReadCommand(g) \o WriteBack(g, m, c)) \o ReadCommand(g)) \o Expect(x, y))
<1> DEFINE w == [op |-> "writeBack", reg |-> g, mask |-> m, content |-> c]
           a == [op |-> "ask", reg |-> g]
           b == [op |-> "answer", reg |-> g]
           e == [op |-> "expect", mask |-> x, content |-> y]
           r == ((<<a, b>> \o <<w>>) \o <<a, b>>) \o <<e>>
<1>1. ((ReadCommand(g) \o WriteBack(g, m, c)) \o ReadCommand(g)) \o Expect(x, y) = r
  BY DEF ReadCommand, WriteBack, Expect
<1>2. /\ a.op = "ask" /\ b.op = "answer" /\ a.reg = b.reg /\ b.reg = g
      /\ w.op = "writeBack" /\ w.reg = g /\ w.mask = m /\ w.content = c
      /\ e.op = "expect" /\ e.mask = x /\ e.content = y
  OBVIOUS
<1> HIDE DEF a, b, w, e
<1>3. /\ r \in Seq({a, b, w, e}) /\ Len(r) = 6
      /\ r[1] = a /\ r[2] = b /\ r[3] = w /\ r[4] = a /\ r[5] = b /\ r[6] = e
  OBVIOUS
<1> HIDE DEF r
<1>4. Program(r)  BY <1>3 DEF Program
<1>5. ASSUME NEW k \in 1..Len(r)
      PROVE  /\ Mild(r[k])
             /\ k > 1 => Pairs(r[k - 1], r[k])
             /\ k > 3 => Tests(r[k - 3], r[k - 1], r[k])
             /\ k = 1 => r[k].op \notin Follower
             /\ k <= 3 => r[k].op # "expect"
  <2>1. /\ Mild(a) /\ Mild(b) /\ Mild(w) /\ Mild(e)
        /\ Pairs(a, b) /\ Pairs(b, w) /\ Pairs(w, a) /\ Pairs(b, e)
    BY <1>2 DEF Mild, Pairs, Asks, Answers, WorkRegs
  <2>2. /\ a.op \notin Follower
        /\ a.op # "expect" /\ b.op # "expect" /\ w.op # "expect"
    BY <1>2 DEF Follower
  <2>3. Tests(w, b, e) /\ Tests(a, w, a) /\ Tests(b, a, b)  BY <1>2 DEF Tests, Gives
  <2>4. CASE k = 1  BY <1>3, <2>1, <2>2, <2>4
  <2>5. CASE k = 2  BY <1>3, <2>1, <2>2, <2>5
  <2>6. CASE k = 3  BY <1>3, <2>1, <2>2, <2>6
  <2>7. CASE k = 4  BY <1>3, <2>1, <2>3, <2>7
  <2>8. CASE k = 5  BY <1>3, <2>1, <2>3, <2>8
  <2>9. CASE k = 6  BY <1>3, <2>1, <2>3, <2>9
  <2> QED  BY <1>3, <2>4, <2>5, <2>6, <2>7, <2>8, <2>9
<1>6. Entire(r)  BY <1>4, <1>5 DEF Entire, Paired
<1> QED  BY <1>1, <1>6

(* The soft reset is written while the cape is created only, and where the *)
(* file may be closed the registers are only cleared.                      *)
Rule(s, z) ==
  /\ z = "gentle" /\ s.op = "write" => "soft_reset" \notin s.value
  /\ z = "clear" /\ s.op = "expect" => s.content = {}
Obeys(p, z) == Program(p) /\ \A k \in 1..Len(p) : Rule(p[k], z)

LEMMA ObeysJoined ==
  ASSUME NEW p, NEW q, NEW z, Obeys(p, z), Obeys(q, z) PROVE Obeys(p \o q, z)
  BY ProgramJoined DEF Obeys

LEMMA ObeysRest ==
  ASSUME NEW p, NEW z, Obeys(p, z), p # <<>> PROVE Obeys(Tail(p), z) /\ Rule(Head(p), z)
<1>1. /\ Len(p) \in Nat \ {0} /\ Len(Tail(p)) = Len(p) - 1 /\ Head(p) = p[1]
      /\ Program(Tail(p)) /\ \A k \in 1..Len(Tail(p)) : Tail(p)[k] = p[k + 1]
  BY ProgramRest DEF Obeys
<1>2. \A k \in 1..Len(p) - 1 : k + 1 \in 1..Len(p)  BY <1>1
<1>3. 1 \in 1..Len(p)  BY <1>1
<1> QED  BY <1>1, <1>2, <1>3 DEF Obeys

LEMMA AvoidsObeys ==
  ASSUME NEW p
  PROVE  /\ Avoids(p, {"write"}) => Obeys(p, "gentle")
         /\ Avoids(p, {"expect"}) => Obeys(p, "clear")
<1>1. ASSUME Avoids(p, {"write"}) PROVE Obeys(p, "gentle")
  BY <1>1, AvoidsIsProgram DEF Obeys, Rule
<1>2. ASSUME Avoids(p, {"expect"}) PROVE Obeys(p, "clear")
  BY <1>2, AvoidsIsProgram DEF Obeys, Rule
<1> QED  BY <1>1, <1>2

Valid(p) == Entire(p) /\ Obeys(p, "gentle")

LEMMA ValidJoined == ASSUME NEW p, NEW q, Valid(p), Valid(q) PROVE Valid(p \o q)
  BY EntireJoined, ObeysJoined DEF Valid

LEMMA PlainIsValid ==
  ASSUME NEW p, Avoids(p, Checks) PROVE Valid(p) /\ Obeys(p, "clear")
<1>1. Avoids(p, {"write"}) /\ Avoids(p, {"expect"})  BY AvoidsFewer DEF Checks, RegOps
<1> QED  BY <1>1, PlainIsEntire, AvoidsObeys DEF Valid

LEMMA ReadIsValid ==
  ASSUME NEW g PROVE Valid(ReadCommand(g)) /\ Avoids(ReadCommand(g), {"write"})
                     /\ Obeys(ReadCommand(g), "clear")
<1>1. Avoids(ReadCommand(g), {"write"}) /\ Avoids(ReadCommand(g), {"expect"})
  BY AvoidsTwo DEF ReadCommand
<1> QED  BY <1>1, ReadIsEntire, AvoidsObeys DEF Valid

LEMMA ClearIsValid ==
  /\ Valid(ClearOverloads) /\ Obeys(ClearOverloads, "clear")
  /\ Valid(GetOverloads) /\ Obeys(GetOverloads, "clear")
<1> DEFINE a == ReadCommand("reset")
           w == WriteBack("reset", Overloads, {})
<1>1. Avoids(w, {"write"}) /\ Avoids(w, {"expect"})  BY AvoidsOne DEF WriteBack
<1>2. Entire(a \o w)
  <2>1. "reset" \in WorkRegs  BY DEF WorkRegs
  <2> QED  BY <2>1, ClearIsEntire
<1>3. Valid(a) /\ Obeys(a, "clear")  BY ReadIsValid
<1>4. ClearOverloads = a \o w /\ GetOverloads = a  BY DEF ClearOverloads, GetOverloads
<1> HIDE DEF a, w
<1>5. Obeys(a \o w, "gentle") /\ Obeys(a \o w, "clear")
  BY <1>1, <1>3, AvoidsObeys, ObeysJoined DEF Valid
<1> QED  BY <1>2, <1>3, <1>4, <1>5 DEF Valid

LEMMA SetRegIsValid ==
  ASSUME NEW g \in CheckedRegs, NEW c \in SUBSET (Enable1 \cup Enable2)
  PROVE  /\ Valid(SetRegValue(g, c))
         /\ c = {} => Obeys(SetRegValue(g, c), "clear")
<1> DEFINE m == Enable1 \cup Enable2
           w == WriteCommand(g, c)
           a == ReadCommand(g)
           e == Expect(m, c)
           s == [op |-> "write", reg |-> g, value |-> c]
           x == [op |-> "expect", mask |-> m, content |-> c]
<1>1. SetRegValue(g, c) = (w \o a) \o e  BY DEF SetRegValue
<1>2. c \cap m = c /\ "soft_reset" \notin c  BY DEF Enable1, Enable2
<1>3. Entire((w \o a) \o e)  BY <1>2, SetIsEntire
<1>4. w = <<s>> /\ e = <<x>>  BY DEF WriteCommand, Expect
<1>5. Rule(s, "gentle") /\ (c = {} => Rule(x, "clear"))  BY <1>2 DEF Rule
<1>6. Avoids(e, {"write"}) /\ Avoids(w, {"expect"})  BY AvoidsOne DEF WriteCommand, Expect
<1> HIDE DEF m, w, a, e, s, x
<1>7. \A t, z : Rule(t, z) => Obeys(<<t>>, z)
  <2>1. ASSUME NEW t, NEW z, Rule(t, z) PROVE Obeys(<<t>>, z)
    <3> DEFINE p == <<t>>
    <3>1. p \in Seq({t}) /\ Len(p) = 1 /\ p[1] = t  OBVIOUS
    <3> HIDE DEF p
    <3>2. Obeys(p, z)  BY <2>1, <3>1 DEF Obeys, Program
    <3> QED  BY <3>2 DEF p
  <2> QED  BY <2>1
<1>8. Obeys(w, "gentle") /\ (c = {} => Obeys(e, "clear")) /\ Obeys(e, "gentle") /\ Obeys(w, "clear")
  BY <1>4, <1>5, <1>6, <1>7, AvoidsObeys
<1>9. Obeys(a, "gentle") /\ Obeys(a, "clear")  BY ReadIsValid, AvoidsObeys DEF a
<1>10. Obeys((w \o a) \o e, "gentle") /\ (c = {} => Obeys((w \o a) \o e, "clear"))
  BY <1>8, <1>9, ObeysJoined
<1> QED  BY <1>1, <1>3, <1>10 DEF Valid

LEMMA ReplaceIsValid ==
  ASSUME NEW g \in CheckedRegs, NEW m, NEW c, NEW x, NEW y, "soft_reset" \notin c,
         c \cap x = y, x \ m \subseteq y
  PROVE  Valid(((ReadCommand(g) \o WriteBack(g, m, c)) \o ReadCommand(g)) \o Expect(x, y))
<1>1. Avoids(WriteBack(g, m, c), {"write"}) /\ Avoids(Expect(x, y), {"write"})
  BY AvoidsOne DEF WriteBack, Expect
<1>2. Obeys(((ReadCommand(g) \o WriteBack(g, m, c)) \o ReadCommand(g)) \o Expect(x, y), "gentle")
  BY <1>1, ReadIsValid, AvoidsObeys, ObeysJoined
<1> QED  BY <1>2, ReplaceIsEntire DEF Valid

LEMMA BlocksAreValid ==
  ASSUME NEW b
  PROVE  /\ Valid(ActivateBlocks(b))
         /\ Valid(DisableAll) /\ Obeys(DisableAll, "clear")
<1>1. \A c : Valid(Remember("blocks", c)) /\ Obeys(Remember("blocks", c), "clear")
  <2>1. \A c : Avoids(Remember("blocks", c), Checks)  BY MuteCalls
  <2> QED  BY <2>1, PlainIsValid
<1>2. "enable1" \in CheckedRegs /\ "enable2" \in CheckedRegs  BY DEF CheckedRegs
<1>3. ASSUME NEW c
      PROVE  /\ Valid(SetRegValue("enable1", c \cap Enable1))
             /\ Valid(SetRegValue("enable2", c \cap Enable2))
             /\ c = {} => /\ Obeys(SetRegValue("enable1", c \cap Enable1), "clear")
                          /\ Obeys(SetRegValue("enable2", c \cap Enable2), "clear")
  <2>1. c \cap Enable1 \in SUBSET (Enable1 \cup Enable2)
        /\ c \cap Enable2 \in SUBSET (Enable1 \cup Enable2)
    OBVIOUS
  <2>2. c = {} => c \cap Enable1 = {} /\ c \cap Enable2 = {}  OBVIOUS
  <2> QED  BY <1>2, <2>1, <2>2, SetRegIsValid
<1>4. ASSUME NEW c PROVE Valid(ActivateBlocks(c))
  BY <1>1, <1>3, ClearIsValid, ValidJoined DEF ActivateBlocks
<1>5. Obeys(ActivateBlocks({}), "clear")
  BY <1>1, <1>3, ClearIsValid, ObeysJoined DEF ActivateBlocks
<1> QED  BY <1>4, <1>5 DEF DisableAll

(* What the functions of the AFE and of the SPI do is entire.              *)
LEMMA StepIsValid ==
  ASSUME NEW op, op \notin Checks PROVE Valid(Step(op)) /\ Obeys(Step(op), "clear")
  BY StepAvoids, PlainIsValid

LEMMA PlainCallsAreValid ==
  ASSUME NEW x, NEW y
  PROVE  /\ Valid(PinOutSet(x, y)) /\ Valid(SetAppActivity(x, y)) /\ Valid(SetTxActivity(x))
         /\ Valid(SetRxActivity(x)) /\ Valid(SetDacMode(x)) /\ Valid(SpiRelease)
         /\ Valid(LedsCreate(version)) /\ Valid(LedsRelease(version)) /\ Valid(Remember(x, y))
         /\ Valid(<<>>) /\ Valid(SetStandby(x))
         /\ Obeys(PinOutSet(x, y), "clear") /\ Obeys(SetAppActivity(x, y), "clear")
         /\ Obeys(SetTxActivity(x), "clear") /\ Obeys(SetDacMode(x), "clear")
         /\ Obeys(SpiRelease, "clear") /\ Obeys(LedsCreate(version), "clear")
         /\ Obeys(LedsRelease(version), "clear") /\ Obeys(Remember(x, y), "clear")
         /\ Obeys(<<>>, "clear") /\ Obeys(SetStandby(x), "clear")
<1>1. \A a, b : /\ Avoids(PinOutSet(a, b), Checks) /\ Avoids(SetAppActivity(a, b), Checks)
                /\ Avoids(SetTxActivity(a), Checks) /\ Avoids(SetRxActivity(a), Checks)
                /\ Avoids(SetDacMode(a), Checks) /\ Avoids(SpiRelease, Checks)
                /\ Avoids(LedsCreate(version), Checks) /\ Avoids(LedsRelease(version), Checks)
                /\ Avoids(Remember(a, b), Checks) /\ Avoids(<<>>, Checks)
  BY MuteCalls
<1>2. Avoids(SetStandby(x), Checks)  BY <1>1, AvoidsJoined DEF SetStandby
<1> QED  BY <1>1, <1>2, PlainIsValid

LEMMA ClosingIsValid ==
  /\ Valid(Deactivate(TRUE)) /\ Valid(Deactivate(FALSE)) /\ Valid(StopCommunication)
  /\ Valid(AbandonTx) /\ Valid(AbandonRx)
  /\ Obeys(AbandonTx, "clear") /\ Obeys(AbandonRx, "clear")
<1>1. \A op \in {"joinRx", "requestStop", "joinTx", "commOff", "supervisorOff"} :
        Valid(Step(op)) /\ Obeys(Step(op), "clear")
  BY StepIsValid DEF Checks, RegOps
<1>2. \A x, y : /\ Valid(SetRxActivity(x)) /\ Valid(SetTxActivity(x)) /\ Valid(SetAppActivity(x, y))
               /\ Valid(SetDacMode(x)) /\ Valid(<<>>)
               /\ Obeys(SetTxActivity(x), "clear") /\ Obeys(SetAppActivity(x, y), "clear")
               /\ Obeys(SetDacMode(x), "clear") /\ Obeys(<<>>, "clear")
  BY PlainCallsAreValid
<1>3. Valid(DisableAll) /\ Obeys(DisableAll, "clear")  BY BlocksAreValid
<1>4. Valid(StopCommunication)  BY <1>1, <1>2, <1>3, ValidJoined DEF StopCommunication
<1>5. Valid(Deactivate(TRUE))  BY <1>1, <1>2, <1>4, ValidJoined DEF Deactivate
<1>6. Deactivate(FALSE) = (<<>> \o Step("supervisorOff")) \o SetAppActivity(version, 1)
  BY DEF Deactivate
<1>7. Valid(Deactivate(FALSE)) /\ Obeys(Deactivate(FALSE), "clear")
  BY <1>1, <1>2, <1>6, ValidJoined, ObeysJoined
<1>8. Valid(AbandonTx) /\ Obeys(AbandonTx, "clear")
  BY <1>2, <1>3, <1>7, ValidJoined, ObeysJoined DEF AbandonTx
<1>9. Valid(AbandonRx) /\ Obeys(AbandonRx, "clear")
  BY <1>1, <1>2, <1>8, ValidJoined, ObeysJoined DEF AbandonRx
<1> QED  BY <1>4, <1>5, <1>7, <1>8, <1>9

LEMMA ActivateIsValid == Valid(Activate) /\ Valid(StartCommunication)
<1>1. \A op \in {"supervisorOn", "startTx", "startRx", "commOn"} : Valid(Step(op))
  BY StepIsValid DEF Checks, RegOps
<1>2. \A x, y : Valid(SetTxActivity(x)) /\ Valid(SetDacMode(x))  BY PlainCallsAreValid
<1>3. Valid(ActivateBlocks(settings.blocks))  BY BlocksAreValid
<1>4. Valid(StartCommunication)  BY <1>1, <1>2, <1>3, ValidJoined DEF StartCommunication
<1>5. Valid(<<>>)  BY PlainCallsAreValid
<1>6. Activate = Step("supervisorOn") \o (IF settings.periodic THEN <<>> ELSE StartCommunication)
  BY DEF Activate
<1>7. CASE settings.periodic
  <2>1. Activate = Step("supervisorOn") \o <<>>  BY <1>6, <1>7
  <2> QED  BY <1>1, <1>4, <1>5, <2>1, ValidJoined
<1>8. CASE ~ settings.periodic
  <2>1. Activate = Step("supervisorOn") \o StartCommunication  BY <1>6, <1>8
  <2> QED  BY <1>1, <1>4, <2>1, ValidJoined
<1> QED  BY <1>7, <1>8

LEMMA Regrouped ==
  ASSUME NEW p, NEW q, NEW r, Program(p), Program(q), Program(r)
  PROVE  (p \o q) \o r = p \o (q \o r)
<1>1. PICK S : p \in Seq(S)  BY DEF Program
<1>2. PICK T : q \in Seq(T)  BY DEF Program
<1>3. PICK U : r \in Seq(U)  BY DEF Program
<1> DEFINE V == S \cup T \cup U
           a == (p \o q) \o r
           b == p \o (q \o r)
<1>4. p \in Seq(V) /\ q \in Seq(V) /\ r \in Seq(V)  BY <1>1, <1>2, <1>3
<1> HIDE DEF V
<1>5. a \in Seq(V) /\ b \in Seq(V) /\ Len(a) = Len(b)  BY <1>4
<1>6. \A i \in 1..Len(a) : a[i] = b[i]  BY <1>4
<1> HIDE DEF a, b
<1>7. a = b  BY <1>5, <1>6, AreSame DEF SameSteps
<1> QED  BY <1>7 DEF a, b

LEMMA ConfigureIsValid ==
  ASSUME NEW s, s.gains \subseteq TxGains \cup RxGains PROVE Valid(Configure(s))
<1> DEFINE c == IF s.cenelec_a THEN {} ELSE {"ca_cbcd"}
           m == TxGains \cup RxGains
           g == s.gains
           r1 == ReadCommand("control1")
           r2 == ReadCommand("control2")
           w2 == WriteBack("control2", {"int"}, {"enable_overloads"})
           e2 == Expect({"enable_overloads"}, {"enable_overloads"})
           w1 == WriteBack("control1", {"ca_cbcd"}, c)
           e1 == Expect({"ca_cbcd"}, c)
           r3 == ReadCommand("gain_select")
           w3 == WriteBack("gain_select", m, g)
           e3 == Expect(m, g)
           a == ((r1 \o w1) \o r1) \o e1
           d == ((r3 \o w3) \o r3) \o e3
<1>1. Configure(s) = ((((((a \o r2) \o w2) \o r2) \o e2) \o d) \o Remember("gains", g))
  BY DEF Configure, RegSetMask, SetGains
<1>2. "control1" \in CheckedRegs /\ "control2" \in CheckedRegs /\ "gain_select" \in CheckedRegs
  BY DEF CheckedRegs
<1>3. Valid(a)
  <2>1. c \cap {"ca_cbcd"} = c /\ {"ca_cbcd"} \ {"ca_cbcd"} \subseteq c /\ "soft_reset" \notin c
    OBVIOUS
  <2> HIDE DEF c
  <2> QED  BY <1>2, <2>1, ReplaceIsValid
<1>4. Valid(d)
  <2>1. g \cap m = g /\ m \ m \subseteq g /\ "soft_reset" \notin g  BY DEF TxGains, RxGains
  <2> HIDE DEF m, g
  <2> QED  BY <1>2, <2>1, ReplaceIsValid
<1>5. Valid(((r2 \o w2) \o r2) \o e2)
  <2>1. /\ "soft_reset" \notin {"enable_overloads"}
        /\ {"enable_overloads"} \cap {"enable_overloads"} = {"enable_overloads"}
        /\ {"enable_overloads"} \ {"int"} \subseteq {"enable_overloads"}
    OBVIOUS
  <2> QED  BY <1>2, <2>1, ReplaceIsValid
<1>6. Program(a) /\ Program(r2) /\ Program(w2) /\ Program(e2)
  <2>1. Avoids(w2, {"write"}) /\ Avoids(e2, {"write"})  BY AvoidsOne DEF WriteBack, Expect
  <2>2. Valid(r2)  BY ReadIsValid
  <2> HIDE DEF a, r2, w2, e2
  <2> QED  BY <1>3, <2>1, <2>2, AvoidsIsProgram DEF Valid, Obeys
<1>7. Valid(Remember("gains", g))  BY PlainCallsAreValid
<1> HIDE DEF a, d, r2, w2, e2, g
<1>8. (((a \o r2) \o w2) \o r2) \o e2 = a \o (((r2 \o w2) \o r2) \o e2)
  <2> DEFINE u == r2 \o w2
             v == u \o r2
  <2>1. (a \o r2) \o w2 = a \o u /\ Program(u)  BY <1>6, Regrouped, ProgramJoined
  <2> HIDE DEF u
  <2>2. (a \o u) \o r2 = a \o v /\ Program(v)  BY <1>6, <2>1, Regrouped, ProgramJoined
  <2> HIDE DEF v
  <2>p. Program(a) /\ Program(v) /\ Program(e2)  BY <1>6, <2>2
  <2>3. (a \o v) \o e2 = a \o (v \o e2)  BY <2>p, Regrouped
  <2>4. (((a \o r2) \o w2) \o r2) \o e2 = a \o (v \o e2)  BY <2>1, <2>2, <2>3
  <2> QED  BY <2>4 DEF u, v
<1>9. Valid((((a \o r2) \o w2) \o r2) \o e2)  BY <1>3, <1>5, <1>8, ValidJoined
<1> QED  BY <1>1, <1>4, <1>7, <1>9, ValidJoined

LEMMA CalibrationIsValid ==
  ASSUME NEW mode \in {"none", "dac_txpga_txfilter", "dac_txpga_rxpga1_rxfilter_rxpga2",
                       "dac_txpga"}
  PROVE  Valid(SetCalibrationMode(mode))
<1> DEFINE c == Calibration(mode)
<1>1. c = {} \/ c = {"calib_tx"} \/ c = {"calib_rx"} \/ c = {"calib_tx_pga"}
  <2>1. CASE mode = "none"  BY <2>1 DEF Calibration
  <2>2. CASE mode = "dac_txpga_txfilter"  BY <2>2 DEF Calibration
  <2>3. CASE mode = "dac_txpga_rxpga1_rxfilter_rxpga2"  BY <2>3 DEF Calibration
  <2>4. CASE mode = "dac_txpga"  BY <2>4 DEF Calibration
  <2> QED  BY <2>1, <2>2, <2>3, <2>4
<1> HIDE DEF c
<1>2. c \cap CalibMask = c /\ CalibMask \ CalibMask \subseteq c /\ "soft_reset" \notin c
  BY <1>1 DEF CalibMask
<1>3. "control1" \in CheckedRegs  BY DEF CheckedRegs
<1>4. Valid(RegSetMask("control1", CalibMask, c))  BY <1>2, <1>3, ReplaceIsValid DEF RegSetMask
<1>5. Valid(Remember("calibration", mode))  BY PlainCallsAreValid
<1>6. SetCalibrationMode(mode) =
        (RegSetMask("control1", CalibMask, c) \o Remember("calibration", mode)) \o ClearOverloads
  BY DEF SetCalibrationMode, c
<1> QED  BY <1>4, <1>5, <1>6, ClearIsValid, ValidJoined

LEMMA InitializeIsValid ==
  ASSUME NEW s \in Settings PROVE Valid(InitializeCape(s))
<1>1. Valid(Configure(s)) /\ Valid(SetCalibrationMode(s.calibration))
  BY ConfigureIsValid, CalibrationIsValid, SettingsAssumption
<1>2. Valid(SetStandby(0))  BY PlainCallsAreValid
<1>3. Valid(SetFlagsCallback(FlagPins))
  <2>1. Checks \cap {"hook", "get", "put"} = {}  BY DEF Checks, RegOps
  <2> QED  BY <2>1, HookingAvoids, PlainIsValid
<1>4. Valid(Step("configure"))  BY StepIsValid DEF Checks, RegOps
<1> QED  BY <1>1, <1>2, <1>3, <1>4, ValidJoined DEF InitializeCape

LEMMA EndingIsValid ==
  /\ Valid(TerminateCape) /\ Valid(TerminateCape \o ReleaseCape)
  /\ Obeys(TerminateCape \o ReleaseCape, "clear")
  /\ Valid(Abort) /\ Obeys(Abort, "clear")
<1>1. \A x, y : /\ Valid(SetStandby(x)) /\ Valid(SpiRelease) /\ Valid(LedsRelease(version))
               /\ Valid(PinOutSet(x, y)) /\ Obeys(PinOutSet(x, y), "clear")
               /\ Obeys(SetStandby(x), "clear") /\ Obeys(SpiRelease, "clear")
               /\ Obeys(LedsRelease(version), "clear")
  BY PlainCallsAreValid
<1>2. Valid(DisableAll) /\ Obeys(DisableAll, "clear")  BY BlocksAreValid
<1>3. Valid(Abort) /\ Obeys(Abort, "clear")
  BY <1>1, ValidJoined, ObeysJoined DEF Abort
<1>4. Valid(TerminateCape) /\ Obeys(TerminateCape, "clear")
  BY <1>1, <1>2, ValidJoined, ObeysJoined DEF TerminateCape
<1>5. Valid(ReleaseCape) /\ Obeys(ReleaseCape, "clear")
  <2> DEFINE u == [k \in 1..Len(FlagPins) |-> [op |-> "unhook", flag |-> FlagPins[k]]]
             a == ((SetStandby(0) \o DisableAll) \o SetStandby(1)) \o u
  <2>1. Avoids(u, Checks)
    <3>1. "unhook" \notin Checks  BY DEF Checks, RegOps
    <3> QED  BY <3>1, UnhookingAvoids
  <2> HIDE DEF u
  <2>2. Valid(u) /\ Obeys(u, "clear")  BY <2>1, PlainIsValid
  <2>3. AfeRelease(1, FlagPins) = a  BY DEF AfeRelease, u
  <2>4. Valid(a) /\ Obeys(a, "clear")  BY <1>1, <1>2, <2>2, ValidJoined, ObeysJoined
  <2> HIDE DEF a
  <2> QED  BY <1>1, <2>3, <2>4, ValidJoined, ObeysJoined DEF ReleaseCape
<1> QED  BY <1>3, <1>4, <1>5, ValidJoined, ObeysJoined

LEMMA ProbeIsEntire == Entire(AfeProbe)
<1>1. Entire(PinOutSet("shutdown", 0))  BY PlainCallsAreValid DEF Valid
<1>2. Entire(WriteCommand("reset", {"soft_reset"}))
  <2>1. [op |-> "write", reg |-> "reset", value |-> {"soft_reset"}].op \notin Follower
    BY DEF Follower
  <2> QED  BY <2>1, OneIsEntire DEF WriteCommand
<1>3. Entire(ReadCommand("revision"))  BY ReadIsEntire
<1> QED  BY <1>1, <1>2, <1>3, EntireJoined DEF AfeProbe

LEMMA GivenIsEntire ==
  ASSUME NEW p, NEW s, Given(p, s)
  PROVE  /\ Entire(p)
         /\ (s = "probe" /\ p = AfeProbe) \/ Obeys(p, "gentle")
         /\ s \in {"spi", "probe", "created", "idle", "stopping"} \/ Obeys(p, "clear")
<1>1. /\ Valid(<<>>) /\ Obeys(<<>>, "clear") /\ Valid(SetDacMode(0))
      /\ Valid(LedsCreate(version)) /\ Obeys(LedsCreate(version), "clear")
      /\ Valid(LedsRelease(version)) /\ Obeys(LedsRelease(version), "clear")
  BY PlainCallsAreValid
<1>2. Valid(Configure(Defaults))
  <2>1. Defaults.gains \subseteq TxGains \cup RxGains  BY DEF Defaults
  <2> QED  BY <2>1, ConfigureIsValid
<1>3. \A x \in Settings : Valid(InitializeCape(x))  BY InitializeIsValid
<1>d. Valid(Deactivate(comm))  BY ClosingIsValid, DeactivatesTwice
<1>4. \/ s = "probe" /\ p = AfeProbe
      \/ Valid(p) /\ Obeys(p, "clear")
      \/ Valid(p) /\ s \in {"spi", "probe", "created", "idle", "stopping"}
  BY <1>1, <1>2, <1>3, <1>d, EndingIsValid, ActivateIsValid, ClosingIsValid, ClearIsValid, Zenon
  DEF Given
<1> QED  BY <1>4, ProbeIsEntire DEF Valid
LEMMA ProbeExpectsNothing == Avoids(AfeProbe, {"expect"})
<1>1. Avoids(PinOutSet("shutdown", 0), {"expect"})
  <2>1. {"expect"} \subseteq Checks  BY DEF Checks
  <2> QED  BY <2>1, MuteCalls
<1>2. /\ Avoids(WriteCommand("reset", {"soft_reset"}), {"expect"})
      /\ Avoids(ReadCommand("revision"), {"expect"})
  BY AvoidsOne, AvoidsTwo DEF WriteCommand, ReadCommand
<1> QED  BY <1>1, <1>2, AvoidsJoined DEF AfeProbe

(* What is left of the programs of the two threads that use the registers, *)
(* and of those that do not.                                               *)
StageInv ==
  /\ \A t \in {"blink", "rx", "tx"} : Avoids(todo[t], Checks)
  /\ \A t \in {"main", "comm"} : Paired(todo[t])
  /\ Obeys(todo["comm"], "gentle")
  /\ (stage = "probe" /\ Avoids(todo["main"], {"expect"})) \/ Obeys(todo["main"], "gentle")
  /\ Ready \/ Obeys(todo["main"], "clear")

LEMMA PairedIsEntire == ASSUME NEW p, Valid(p) PROVE Paired(p) /\ Obeys(p, "gentle")
  BY DEF Valid, Entire

LEMMA QuietStepAvoids ==
  ASSUME CommInv, NEW t \in {"blink", "rx", "tx"}, Proceeds(t), Avoids(todo[t], Checks)
  PROVE  Avoids(todo'[t], Checks)
<1>0. todo[t] # <<>>  BY DEF Proceeds
<1>1. Avoids(todo[t], KeyOps) /\ Head(todo[t]).op \notin KeyOps
  BY <1>0, AvoidsRest DEF CommInv, RoleInv
<1>2. Head(todo[t]).op \notin {"startTx", "startRx"}  BY <1>1 DEF KeyOps, Key
<1>4. Avoids(Tail(todo[t]), Checks)  BY <1>0, AvoidsRest
<1>5. ASSUME PutsBack(todo[t], todo'[t]) PROVE Avoids(todo'[t], Checks)
  <2>1. PICK r : /\ r = <<>> \/ \E y : r = <<[op |-> "writei", samples |-> y]>>
                 /\ todo'[t] = r \o Tail(todo[t])
    BY <1>5 DEF PutsBack
  <2>2. Avoids(r, Checks)  BY <2>1, AvoidsNone, AvoidsOne DEF Checks, RegOps
  <2> QED  BY <1>4, <2>1, <2>2, AvoidsJoined
<1> QED  BY <1>2, <1>4, <1>5 DEF Proceeds

(* The next step of one of the two, and what comes after it.               *)
Goes(t) ==
  /\ todo[t] # <<>>
  /\ todo'[t] \in {todo[t], Tail(todo[t])} \/ todo'[t] = AbandonTx \/ todo'[t] = AbandonRx

LEMMA MainStepGoes ==
  ASSUME CommInv, NEW t \in {"main", "comm"}, Proceeds(t) PROVE Goes(t)
<1>1. Avoids(todo[t], {"writei", "transfer"})  BY DEF CommInv, RoleInv, Threads
<1>2. Head(todo[t]).op \notin {"writei", "transfer"}  BY <1>1, AvoidsRest DEF Proceeds
<1>3. Head(todo[t]).op # "writei"  BY <1>2
<1> QED  BY <1>3 DEF Proceeds, Goes

LEMMA MainStepKeepsStage ==
  ASSUME NEW t \in {"main", "comm"}, Goes(t), Paired(todo[t])
  PROVE  /\ Paired(todo'[t])
         /\ \A z \in {"gentle", "clear"} : Obeys(todo[t], z) => Obeys(todo'[t], z)
         /\ Avoids(todo[t], {"expect"}) =>
              Avoids(todo'[t], {"expect"}) \/ Obeys(todo'[t], "gentle")
<1>1. CASE todo'[t] = todo[t]  BY <1>1
<1>2. CASE todo'[t] = Tail(todo[t])
  <2>0. todo[t] # <<>>  BY DEF Goes
  <2>1. Paired(Tail(todo[t]))  BY <2>0, PairedRest
  <2>2. \A z \in {"gentle", "clear"} : Obeys(todo[t], z) => Obeys(Tail(todo[t]), z)
    BY <2>0, ObeysRest
  <2>3. Avoids(todo[t], {"expect"}) => Avoids(Tail(todo[t]), {"expect"})  BY <2>0, AvoidsRest
  <2> QED  BY <1>2, <2>1, <2>2, <2>3
<1>3. CASE todo'[t] = AbandonTx \/ todo'[t] = AbandonRx
  <2>1. Paired(todo'[t]) /\ Obeys(todo'[t], "gentle") /\ Obeys(todo'[t], "clear")
    BY <1>3, ClosingIsValid, PairedIsEntire
  <2> QED  BY <2>1
<1> QED  BY <1>1, <1>2, <1>3 DEF Goes

LEMMA StageInvKept ==
  ASSUME TodoInv, TxTypes, CommInv, StageInv, Next, Alive' PROVE StageInv'
<1>1. CASE \E t \in Threads : StepOf(t)
  <2>1. PICK t \in Threads : StepOf(t)  BY <1>1
  <2>2. /\ Proceeds(t) /\ stage' = stage
        /\ \A u \in Threads : u # t => todo'[u] = todo[u]
    BY <2>1, StepOfOne DEF CommInv
  <2>3. Ready' <=> Ready  BY <2>2 DEF Ready
  <2>4. CASE t \in {"blink", "rx", "tx"}
    <3>1. Avoids(todo'[t], Checks)  BY <2>2, <2>4, QuietStepAvoids DEF StageInv
    <3> QED  BY <2>2, <2>3, <2>4, <3>1 DEF StageInv, Threads
  <2>5. CASE t \in {"main", "comm"}
    <3>1. Goes(t) /\ Paired(todo[t])  BY <2>2, <2>5, MainStepGoes DEF StageInv
    <3>2. /\ Paired(todo'[t])
          /\ \A z \in {"gentle", "clear"} : Obeys(todo[t], z) => Obeys(todo'[t], z)
          /\ Avoids(todo[t], {"expect"}) =>
               Avoids(todo'[t], {"expect"}) \/ Obeys(todo'[t], "gentle")
      BY <2>5, <3>1, MainStepKeepsStage
    <3>3. \A u \in {"main", "comm"} : u # t => todo'[u] = todo[u]  BY <2>2 DEF Threads
    <3>4. \A u \in {"blink", "rx", "tx"} : todo'[u] = todo[u]  BY <2>2, <2>5 DEF Threads
    <3>5. \A u \in {"main", "comm"} : Paired(todo'[u])  BY <3>2, <3>3 DEF StageInv
    <3>6. Obeys(todo'["comm"], "gentle")  BY <2>5, <3>2, <3>3 DEF StageInv
    <3>7. Ready \/ Obeys(todo'["main"], "clear")  BY <2>5, <3>2, <3>3 DEF StageInv
    <3>8. \/ stage = "probe" /\ Avoids(todo'["main"], {"expect"})
          \/ Obeys(todo'["main"], "gentle")
      BY <2>5, <3>2, <3>3 DEF StageInv
    <3> QED  BY <2>2, <2>3, <3>4, <3>5, <3>6, <3>7, <3>8 DEF StageInv
  <2> QED  BY <2>4, <2>5 DEF Threads
<1>2. CASE Main
  <2>1. PICK p, s : Call(p, s) /\ Given(p, s)  BY <1>2, MainGives
  <2>2. stage' = s /\ todo'["main"] = p /\ \A u \in Threads \ {"main"} : todo'[u] = todo[u]
    BY <2>1 DEF Call, TodoInv, Threads
  <2>3. /\ Entire(p)
        /\ (s = "probe" /\ p = AfeProbe) \/ Obeys(p, "gentle")
        /\ s \in {"spi", "probe", "created", "idle", "stopping"} \/ Obeys(p, "clear")
    BY <2>1, GivenIsEntire
  <2>4. Ready' \/ Obeys(p, "clear")  BY <2>2, <2>3 DEF Ready
  <2>5. (s = "probe" /\ Avoids(p, {"expect"})) \/ Obeys(p, "gentle")
    BY <2>3, ProbeExpectsNothing
  <2>6. Paired(p)  BY <2>3 DEF Entire
  <2>7. /\ todo'["comm"] = todo["comm"]
        /\ \A u \in {"blink", "rx", "tx"} : todo'[u] = todo[u]
    BY <2>2 DEF Threads
  <2> QED  BY <2>2, <2>4, <2>5, <2>6, <2>7 DEF StageInv
<1>3. CASE TxCycle \/ RxCycle \/ TimerStarts \/ TimerStops \/ TimerToggles
  <2>1. CASE UNCHANGED <<todo, stage>>  BY <2>1 DEF StageInv, Ready
  <2>2. CASE \E t \in Threads : \E p : GivenTo(t, p)
    <3>1. PICK t \in Threads : \E p : GivenTo(t, p)  BY <2>2
    <3>2. PICK p : GivenTo(t, p)  BY <3>1
    <3>3. IF t = "comm" THEN Valid(p) ELSE Avoids(p, Checks)
      <4>1. DOMAIN FillNext = 1..tx.len  BY DEF FillNext
      <4>2. "writei" \notin Checks /\ "transfer" \notin Checks  BY DEF Checks, RegOps
      <4>3. Avoids(FlushBuffer(FillNext), Checks)  BY <4>1, <4>2, FlushAvoids
      <4>4. Avoids(ToggleAppActivity, Checks) /\ \A d : Avoids(SetRxActivity(d), Checks)
        BY MuteCalls
      <4> QED  BY <3>2, <4>3, <4>4, ClosingIsValid, ActivateIsValid DEF GivenTo
    <3>4. /\ t # "main" /\ stage' = stage
          /\ \A u \in Threads : todo'[u] = IF u = t THEN p ELSE todo[u]
      BY <3>2 DEF GivenTo, TodoInv, Threads
    <3>5. \A u \in {"blink", "rx", "tx"} : Avoids(todo'[u], Checks)
      BY <3>3, <3>4 DEF Threads, StageInv
    <3>6. Paired(todo'["comm"]) /\ Obeys(todo'["comm"], "gentle")
      BY <3>3, <3>4, PairedIsEntire DEF Threads, StageInv
    <3>7. todo'["main"] = todo["main"] /\ (Ready' <=> Ready)  BY <3>4 DEF Threads, Ready
    <3> QED  BY <3>4, <3>5, <3>6, <3>7 DEF StageInv
  <2> QED  BY <1>3, <2>1, <2>2, CyclesGive
<1>4. CASE Callback \/ (\E f \in Flags : Edge(f)) \/ Kernel
  <2>1. UNCHANGED <<todo, stage>>  BY <1>4, NotHere DEF Elsewhere
  <2> QED  BY <2>1 DEF StageInv, Ready
<1> QED  BY <1>1, <1>2, <1>3, <1>4 DEF Next

LEMMA StageInvInit == ASSUME Init PROVE StageInv
<1>1. \A t \in Threads : todo[t] = <<>>  BY DEF Init
<1>2. Avoids(<<>>, Checks)  BY AvoidsNone
<1>3. Valid(<<>>) /\ Obeys(<<>>, "clear")  BY <1>2, PlainIsValid
<1>4. Paired(<<>>) /\ Obeys(<<>>, "gentle")  BY <1>3, PairedIsEntire
<1> QED  BY <1>1, <1>2, <1>3, <1>4 DEF StageInv, Threads

LEMMA BoardStays == ASSUME Next PROVE board' = board
<1>1. CASE \E t \in Threads : StepOf(t)  BY <1>1, StepKeepsBoard
<1>2. CASE Main  BY <1>2, MainGives DEF MainFrame
<1>3. CASE TxCycle \/ RxCycle \/ TimerStarts \/ TimerStops \/ TimerToggles
  BY <1>3 DEF TxCycle, RxCycle, TimerStarts, TimerStops, TimerToggles, UserFrame
<1>4. CASE Callback \/ (\E f \in Flags : Edge(f)) \/ Kernel  BY <1>4, NotHere DEF Elsewhere
<1> QED  BY <1>1, <1>2, <1>3, <1>4 DEF Next

(* A file that has lost its device, or is not open, stays so until the     *)
(* cape is created.                                                        *)
Lost == ~ Bound(filp["cape"])

LEMMA SameIsLost ==
  ASSUME Inv, Lost, SameSpi(spidev, spidev'), filp'["cape"] = filp["cape"] PROVE Lost'
<1>1. filp["cape"] \in 0..Len(spidev) /\ Len(spidev) \in Nat
  BY CapeAssumption DEF Inv, Types
<1>2. CASE filp["cape"] = 0  BY <1>2 DEF Lost, Bound
<1>3. CASE filp["cape"] # 0
  <2>1. filp["cape"] \in 1..Len(spidev)  BY <1>1, <1>3
  <2>2. spidev'[filp["cape"]].spi = spidev[filp["cape"]].spi  BY <2>1 DEF SameSpi
  <2> QED  BY <1>3, <2>2 DEF Lost, Bound
<1> QED  BY <1>2, <1>3

LEMMA DetachedIsLost ==
  ASSUME Inv, Spidevs, Lost, NEW d \in SpiDevices, RemoveDetach(d) PROVE Lost'
<1> DEFINE i == drvdata[d]
           r == [spidev[i] EXCEPT !.spi = "none"]
           c == filp["cape"]
<1>1. spidev' = [spidev EXCEPT ![i] = r] /\ filp' = filp  BY DEF RemoveDetach
<1>2. i \in 1..Len(spidev) => "spi" \in DOMAIN r /\ r.spi = "none"  BY DEF Spidevs, Shape
<1>3. i \in 1..Len(spidev) /\ c \in 0..Len(spidev) /\ Len(spidev) \in Nat
  BY CapeAssumption DEF Inv, Types, RemoveDetach
<1> HIDE DEF i, r, c
<1>4. Put(spidev, i, r, spidev')  BY <1>1, <1>2 DEF Put
<1>5. \A k \in 1..Len(spidev) : spidev'[k] = IF k = i THEN r ELSE spidev[k]
  BY <1>4, SpiOfPut DEF Puts, Spidevs
<1>6. c = 0 \/ c \in 1..Len(spidev)  BY <1>3
<1>7. c # 0 => \A e \in SpiDevices : spidev'[c].spi # e
  <2>1. CASE c = i  BY <1>2, <1>3, <1>5, <2>1, SpiDevAssumption
  <2>2. CASE c # i /\ c # 0
    <3>1. spidev'[c] = spidev[c]  BY <1>5, <1>6, <2>2
    <3> QED  BY <2>2, <3>1 DEF Lost, Bound, c
  <2> QED  BY <2>1, <2>2
<1> QED  BY <1>1, <1>7 DEF Lost, Bound, c

LEMMA StaysLost ==
  ASSUME Inv, Spidevs, Next, Lost, ~ SpiCreate PROVE Lost'
<1>1. CASE UNCHANGED <<spidev, filp>>  BY <1>1 DEF Lost, Bound
<1>2. ASSUME NEW p \in Openers, NEW x, filp' = [filp EXCEPT ![p] = x], p # "cape"
      PROVE  filp'["cape"] = filp["cape"]
  BY <1>2, CapeAssumption DEF Spidevs
<1>3. CASE CloseNode("cape")
  <2>1. filp' = [filp EXCEPT !["cape"] = 0]  BY <1>3 DEF CloseNode
  <2>2. filp'["cape"] = 0  BY <2>1, CapeAssumption DEF Spidevs
  <2> QED  BY <2>2 DEF Lost, Bound
<1>4. CASE \E t \in Threads : StepOf(t)
  <2>1. PICK t \in Threads : StepOf(t)  BY <1>4
  <2>2. UNCHANGED <<spidev, filp>> \/ CloseSpi(t)  BY <2>1, StepNodes
  <2>3. CASE CloseSpi(t)
    <3>1. UNCHANGED <<spidev, filp>> \/ CloseNode("cape")  BY <2>3 DEF CloseSpi, spidevVars
    <3> QED  BY <1>1, <1>3, <3>1
  <2> QED  BY <1>1, <2>2, <2>3
<1>5. CASE Main
  <2>1. UNCHANGED spidevVars
    BY <1>5 DEF Main, Create, CreateFails, SpiCreateFails, AfeCreate, AfeCreated,
       Initialize, MenuActivate, MenuDeactivate, Deactivated, MenuOverloads, MenuSettings, MenuExit
  <2> QED  BY <1>1, <2>1 DEF spidevVars
<1>6. CASE Kernel
  <2>1. \/ UNCHANGED <<spidev, filp>>
        \/ \E d \in SpiDevices : RemoveDetach(d) \/ Probe(d) \/ RemoveUnlink(d)
        \/ \E p \in Others : CloseNode(p) \/ \E i \in Listed : OpenNode(p, i)
    BY <1>6 DEF Kernel, KernelEvent, KernelGoesOn, BeginIoctl, BeginReadWrite, EndCall
  <2>2. CASE \E d \in SpiDevices : RemoveDetach(d)  BY <2>2, DetachedIsLost
  <2>3. CASE \E d \in SpiDevices : Probe(d) \/ RemoveUnlink(d)
    <3>1. PICK d \in SpiDevices : Probe(d) \/ RemoveUnlink(d)  BY <2>3
    <3>2. SameSpi(spidev, spidev') /\ filp' = filp  BY <3>1, SpiOfProbed, SpiOfUnlinked
    <3> QED  BY <3>2, SameIsLost
  <2>4. CASE \E p \in Others : CloseNode(p) \/ \E i \in Listed : OpenNode(p, i)
    <3>1. PICK p \in Others : CloseNode(p) \/ \E i \in Listed : OpenNode(p, i)  BY <2>4
    <3>2. SameSpi(spidev, spidev') /\ \E x : filp' = [filp EXCEPT ![p] = x]
      BY <3>1, SpiOfClosed, SpiOfOpened
    <3>3. filp'["cape"] = filp["cape"]  BY <1>2, <3>1, <3>2 DEF Others
    <3> QED  BY <3>2, <3>3, SameIsLost
  <2> QED  BY <1>1, <2>1, <2>2, <2>3, <2>4
<1>7. CASE Callback
  <2>1. CallbackFrame
    BY <1>7 DEF Callback, CallbackBegins, CallbackOrphaned, CallbackTests, CallbackWakes,
                CallbackReads, CallbackStores
  <2> QED  BY <1>1, <2>1 DEF CallbackFrame, spidevVars
<1>8. CASE TxCycle \/ RxCycle \/ TimerStarts \/ TimerStops \/ TimerToggles \/ \E f \in Flags : Edge(f)
  BY <1>1, <1>8 DEF TxCycle, RxCycle, TimerStarts, TimerStops, TimerToggles, Edge, spidevVars
<1> QED  BY <1>4, <1>5, <1>6, <1>7, <1>8 DEF Next

(* Which steps are about the registers.                                    *)
LEMMA RegisterSteps ==
  ASSUME NEW t \in Threads, StepOf(t), Alive'
  PROVE  IF Head(todo[t]).op \in Checks
         THEN (WriteRegister(t) \/ AskRegister(t) \/ AnswerRegister(t) \/ ExpectRegister(t))
              /\ Advance(t)
         ELSE UNCHANGED <<reg, asked>>
<1> DEFINE op == Head(todo[t]).op
           R == WriteRegister(t) \/ AskRegister(t) \/ AnswerRegister(t) \/ ExpectRegister(t)
<1>1. CASE LoadPin(t) \/ StorePin(t) \/ Lock(t) \/ UnlockLeds(t)
  <2>1. op \notin Checks
    BY <1>1 DEF LoadPin, StorePin, Lock, UnlockLeds, Is, Checks, RegOps
  <2>2. UNCHANGED <<reg, asked>>  BY <1>1 DEF LoadPin, StorePin, Lock, UnlockLeds, chip
  <2> QED  BY <2>1, <2>2
<1>2. CASE InDacMode(t)
  BY <1>2 DEF InDacMode, Die, Alive
<1>3. CASE R
  <2>1. op \in Checks
    BY <1>3 DEF WriteRegister, AskRegister, AnswerRegister, ExpectRegister, Is, Checks, RegOps
  <2>2. Advance(t)
    BY <1>3 DEF WriteRegister, AskRegister, AnswerRegister, ExpectRegister
  <2> QED  BY <1>3, <2>1, <2>2
<1>4. CASE RememberField(t) \/ DacMode(t) \/ SetDriver(t) \/ TransferDac(t)
  <2>1. op \notin Checks
    BY <1>4 DEF RememberField, DacMode, SetDriver, TransferDac, Is, Checks, RegOps
  <2>2. UNCHANGED <<reg, asked>>  BY <1>4 DEF RememberField, DacMode, SetDriver, TransferDac, chip
  <2> QED  BY <2>1, <2>2
<1>5. CASE Hook(t) \/ GetPin(t) \/ PutFlag(t) \/ Unhook(t)
  <2>1. op \notin Checks
    BY <1>5 DEF Hook, GetPin, PutFlag, Unhook, Is, Checks, RegOps
  <2>2. UNCHANGED <<reg, asked>>  BY <1>5, SMTT(30) DEF Hook, GetPin, PutFlag, Unhook, chip
  <2> QED  BY <2>1, <2>2
<1>6. CASE WriteBuffer(t) \/ ConfigureSpi(t) \/ StartTx(t) \/ StartRx(t)
  <2>1. op \notin Checks
    BY <1>6, ZenonT(40) DEF WriteBuffer, ConfigureSpi, StartTx, StartRx, Is, Checks, RegOps
  <2>2. UNCHANGED <<reg, asked>>
    BY <1>6 DEF WriteBuffer, ConfigureSpi, StartTx, StartRx, TxFrame, chip
  <2> QED  BY <2>1, <2>2
<1>7. CASE StopThread(t) \/ Communication(t)
  <2>1. op \notin Checks
    BY <1>7 DEF StopThread, Communication, Is, Checks, RegOps
  <2>2. UNCHANGED <<reg, asked>>
    BY <1>7 DEF StopThread, Communication, TxFrame, chip
  <2> QED  BY <2>1, <2>2
<1>8. CASE Supervisor(t)
  <2>1. op \notin Checks  BY <1>8 DEF Supervisor, Is, Checks, RegOps
  <2>2. UNCHANGED <<reg, asked>>  BY <1>8 DEF Supervisor, chip
  <2> QED  BY <2>1, <2>2
<1>9. CASE CloseSpi(t)
  <2>1. CloseSpi(t) => Is(t, "closeSpi") /\ UNCHANGED chip  BY DEF CloseSpi
  <2>2. op \notin Checks  BY <1>9, <2>1 DEF Is, Checks, RegOps
  <2> QED  BY <1>9, <2>1, <2>2 DEF chip
<1> QED  BY <1>1, <1>2, <1>3, <1>4, <1>5, <1>6, <1>7, <1>8, <1>9 DEF StepOf

(* A step takes a value for its own thread.                                *)
Own(t) ==
  acc' = [u \in Threads |-> acc'[u]] /\ \A u \in Threads : u # t => acc'[u] = acc[u]

LEMMA OthersTake == ASSUME TodoInv, NEW t \in Threads, StepOf(t) PROVE Own(t)
<1>1. ASSUME NEW v, Take(t, v) PROVE Own(t)  BY <1>1 DEF Take, TodoInv, Own
<1>2. ASSUME UNCHANGED acc PROVE Own(t)  BY <1>2 DEF TodoInv, Own
<1>3. CASE LoadPin(t) \/ GetPin(t) \/ PutFlag(t)  BY <1>1, <1>3 DEF LoadPin, GetPin, PutFlag
<1>4. CASE AnswerRegister(t)  BY <1>1, <1>2, <1>4, Zenon DEF AnswerRegister
<1>5. CASE StorePin(t) \/ Lock(t) \/ UnlockLeds(t)
  BY <1>2, <1>5 DEF StorePin, Lock, UnlockLeds
<1>6. CASE InDacMode(t) \/ WriteRegister(t) \/ AskRegister(t) \/ ExpectRegister(t)
  BY <1>2, <1>6 DEF InDacMode, WriteRegister, AskRegister, ExpectRegister
<1>7. CASE RememberField(t) \/ DacMode(t) \/ SetDriver(t) \/ TransferDac(t)
  BY <1>2, <1>7 DEF RememberField, DacMode, SetDriver, TransferDac
<1>8. CASE Hook(t) \/ Unhook(t)  BY <1>2, <1>8, SMTT(30) DEF Hook, Unhook
<1>9. CASE WriteBuffer(t) \/ ConfigureSpi(t) \/ StartTx(t) \/ StartRx(t)
  BY <1>2, <1>9 DEF WriteBuffer, ConfigureSpi, StartTx, StartRx, TxFrame
<1>10. CASE StopThread(t) \/ Communication(t) \/ Supervisor(t)
  BY <1>2, <1>10 DEF StopThread, Communication, Supervisor, TxFrame
<1>11. CASE CloseSpi(t)
  <2>1. UNCHANGED acc  BY <1>11 DEF CloseSpi
  <2> QED  BY <1>2, <2>1
<1> QED  BY <1>3, <1>4, <1>5, <1>6, <1>7, <1>8, <1>9, <1>10, <1>11 DEF StepOf

LEMMA OnlyStepsTouch ==
  ASSUME Next, ~ \E t \in Threads : StepOf(t) PROVE UNCHANGED <<reg, asked, acc>>
<1>1. CASE Main  BY <1>1, MainGives DEF MainFrame, chip
<1>2. CASE TxCycle \/ RxCycle \/ TimerStarts \/ TimerStops \/ TimerToggles
  BY <1>2 DEF TxCycle, RxCycle, TimerStarts, TimerStops, TimerToggles, chip
<1>3. CASE Callback
  <2>1. CallbackFrame
    BY <1>3 DEF Callback, CallbackBegins, CallbackOrphaned, CallbackTests, CallbackWakes,
                CallbackReads, CallbackStores
  <2> QED  BY <2>1 DEF CallbackFrame, chip
<1>4. CASE \E f \in Flags : Edge(f)  BY <1>4 DEF Edge, chip
<1>5. CASE Kernel  BY <1>5 DEF Kernel, UserUnchanged, chip
<1> QED  BY <1>1, <1>2, <1>3, <1>4, <1>5 DEF Next

(* A file lost is lost for the steps that do not create the cape.          *)
LEMMA LostStays ==
  ASSUME Inv, Spidevs, Next, Lost PROVE Lost' \/ (Main /\ stage = "leds" /\ stage' = "spi")
<1>1. SpiCreate => Main /\ stage = "leds" /\ stage' = "spi"
  BY DEF SpiCreate, Main, At, Call
<1> QED  BY <1>1, StaysLost

LEMMA EntireHead ==
  ASSUME NEW p, Entire(p), p # <<>> PROVE Head(p).op \notin Follower
<1>1. Program(p) /\ \A k \in 1..Len(p) : k = 1 => p[k].op \notin Follower
  BY DEF Entire, Paired
<1>2. Len(p) \in Nat \ {0} /\ Head(p) = p[1]  BY <1>1, ProgramRest
<1> QED  BY <1>1, <1>2

(* What a thread that uses the registers has to do after a step of any.    *)
Waits(t) ==
  /\ todo'[t] = todo[t] /\ acc'[t] = acc[t]
  /\ UNCHANGED <<reg, asked>> \/ \E u \in Threads \ {t} : StepOf(u)
Holds(t) == todo[t] # <<>> /\ todo'[t] = todo[t] /\ Head(todo[t]).op \notin Checks
Steps(t) == StepOf(t) /\ todo[t] # <<>> /\ todo'[t] = Tail(todo[t]) /\ stage' = stage
Turn(t) == Waits(t) \/ Holds(t) \/ Steps(t) \/ Entire(todo'[t])

LEMMA TurnOfEach ==
  ASSUME TodoInv, TxTypes, CommInv, Next, Alive', NEW t \in {"main", "comm"}
  PROVE  Turn(t)
<1>0. t \in Threads  BY DEF Threads
<1>1. CASE \E u \in Threads : StepOf(u)
  <2>1. PICK u \in Threads : StepOf(u)  BY <1>1
  <2>2. /\ Proceeds(u) /\ stage' = stage
        /\ \A v \in Threads : v # u => todo'[v] = todo[v]
    BY <2>1, StepOfOne DEF CommInv
  <2>3. Own(u)  BY <2>1, OthersTake
  <2>4. CASE u # t
    <3>1. todo'[t] = todo[t] /\ acc'[t] = acc[t]  BY <1>0, <2>2, <2>3, <2>4 DEF Own
    <3> QED  BY <2>1, <2>4, <3>1 DEF Turn, Waits
  <2>5. CASE u = t
    <3>1. Goes(t)  BY <2>2, <2>5, MainStepGoes
    <3>2. CASE todo'[t] = Tail(todo[t])
      BY <2>1, <2>2, <2>5, <3>1, <3>2 DEF Turn, Steps, Goes
    <3>3. CASE todo'[t] = AbandonTx \/ todo'[t] = AbandonRx
      BY <3>3, ClosingIsValid DEF Turn, Valid
    <3>4. CASE todo'[t] = todo[t] /\ Head(todo[t]).op \notin Checks
      BY <3>1, <3>4 DEF Turn, Holds, Goes
    <3>5. CASE todo'[t] = todo[t] /\ Head(todo[t]).op \in Checks
      <4>1. Advance(t)  BY <1>0, <2>1, <2>5, <3>5, RegisterSteps
      <4>2. todo'[t] = Tail(todo[t])  BY <1>0, <4>1, AdvanceIsTail
      <4> QED  BY <3>2, <4>2
    <3> QED  BY <3>1, <3>2, <3>3, <3>4, <3>5 DEF Goes
  <2> QED  BY <2>4, <2>5
<1>2. CASE ~ \E u \in Threads : StepOf(u)
  <2>1. UNCHANGED <<reg, asked, acc>>  BY <1>2, OnlyStepsTouch
  <2>2. ASSUME todo'[t] = todo[t] PROVE Turn(t)  BY <2>1, <2>2 DEF Turn, Waits
  <2>3. CASE Main
    <3>1. PICK p, s : Call(p, s) /\ Given(p, s)  BY <2>3, MainGives
    <3>2. todo'["main"] = p /\ \A u \in Threads \ {"main"} : todo'[u] = todo[u]
      BY <3>1 DEF Call, TodoInv, Threads
    <3>3. Entire(p)  BY <3>1, GivenIsEntire
    <3>4. CASE t = "main"  BY <3>2, <3>3, <3>4 DEF Turn
    <3>5. CASE t # "main"  BY <1>0, <2>2, <3>2, <3>5
    <3> QED  BY <3>4, <3>5
  <2>4. CASE TxCycle \/ RxCycle \/ TimerStarts \/ TimerStops \/ TimerToggles
    <3>1. CASE UNCHANGED todo  BY <2>2, <3>1
    <3>2. CASE \E u \in Threads : \E p : GivenTo(u, p)
      <4>1. PICK u \in Threads : \E p : GivenTo(u, p)  BY <3>2
      <4>2. PICK p : GivenTo(u, p)  BY <4>1
      <4>3. /\ u # "main" /\ todo'[t] = IF t = u THEN p ELSE todo[t]
            /\ u = "comm" => p \in {Deactivate(TRUE), StopCommunication, StartCommunication}
        BY <1>0, <4>2 DEF GivenTo, TodoInv
      <4>4. CASE t = u  BY <4>3, <4>4, ClosingIsValid, ActivateIsValid DEF Turn, Valid
      <4>5. CASE t # u  BY <2>2, <4>3, <4>5
      <4> QED  BY <4>4, <4>5
    <3> QED  BY <2>4, <3>1, <3>2, CyclesGive
  <2>5. CASE Callback \/ (\E f \in Flags : Edge(f)) \/ Kernel
    BY <2>2, <2>5, NotHere DEF Elsewhere
  <2> QED  BY <1>2, <2>3, <2>4, <2>5 DEF Next
<1> QED  BY <1>1, <1>2

(* While a thread still uses a register no other one does.                 *)
Uses1(t, x) == \E k \in 1..Len(todo[t]) : Touches(todo[t][k], x)
LEMMA OthersAreMute ==
  ASSUME StageInv, NEW x, RegKept(x), NEW t \in {"main", "comm"}, Uses1(t, x),
         NEW u \in Threads, u # t, todo[u] # <<>>
  PROVE  IF u \in {"main", "comm"} THEN ~ Touches(Head(todo[u]), x)
                                   ELSE Head(todo[u]).op \notin Checks
<1>1. CASE u \in {"main", "comm"}
  <2>1. ~ Mute(todo[t], x)  BY DEF Uses1, Mute
  <2>2. u = "main" /\ Mute(todo[u], x)  BY <1>1, <2>1, NothingIsMute DEF RegKept, Idle
  <2> QED  BY <1>1, <2>2, MuteRest
<1>2. CASE u \notin {"main", "comm"}
  <2>1. Avoids(todo[u], Checks)  BY <1>2 DEF StageInv, Threads
  <2>2. Head(todo[u]).op \notin Checks  BY <2>1, AvoidsRest
  <2> QED  BY <1>2, <2>2
<1> QED  BY <1>1, <1>2

LEMMA HeadIsUsed ==
  ASSUME NEW t, Program(todo[t]), todo[t] # <<>>, NEW x, Touches(Head(todo[t]), x)
  PROVE  Uses1(t, x)
<1>1. Len(todo[t]) \in Nat \ {0} /\ Head(todo[t]) = todo[t][1]  BY ProgramRest
<1>2. 1 \in 1..Len(todo[t])  BY <1>1
<1> QED  BY <1>1, <1>2 DEF Uses1

(* When the cape is created nobody uses them.                              *)
LEMMA CreatedAlone ==
  ASSUME CommInv, Main, stage = "leds", NEW t \in {"main", "comm"} PROVE todo[t] = <<>>
<1>1. Idle("main")  BY MainGives
<1>2. Idle("comm")  BY <1>1, Between DEF CommInv
<1> QED  BY <1>1, <1>2 DEF Idle

(* The register that a thread waits for is the one the AFE will answer.    *)
Asked(t) ==
  todo[t] # <<>> /\ Head(todo[t]).op = "answer" =>
    Emulated \/ Lost \/ asked = Head(todo[t]).reg
AskInv == Flagged \/ \A t \in {"main", "comm"} : Asked(t)

LEMMA OthersAsk ==
  ASSUME StageInv, RegKept("all"), NEW t \in {"main", "comm"}, Waits(t), Alive',
         todo[t] # <<>>, Head(todo[t]).op = "answer"
  PROVE  asked' = asked
<1>1. CASE UNCHANGED <<reg, asked>>  BY <1>1
<1>2. CASE \E u \in Threads \ {t} : StepOf(u)
  <2>1. PICK u \in Threads \ {t} : StepOf(u)  BY <1>2
  <2>2. Touches(Head(todo[t]), "all")
    <3>1. "all" # "work"  OBVIOUS
    <3> QED  BY <3>1 DEF Touches, RegOps
  <2>3. Uses1(t, "all")
    <3>1. Program(todo[t])  BY DEF StageInv, Paired
    <3> QED  BY <2>2, <3>1, HeadIsUsed
  <2>4. Head(todo[u]).op \in Checks =>
          (WriteRegister(u) \/ AskRegister(u) \/ AnswerRegister(u) \/ ExpectRegister(u))
    BY <2>1, RegisterSteps
  <2>5. Head(todo[u]).op \notin Checks => asked' = asked  BY <2>1, RegisterSteps
  <2>6. CASE Head(todo[u]).op \in Checks
    <3>1. todo[u] # <<>>
      BY <2>4, <2>6 DEF WriteRegister, AskRegister, AnswerRegister, ExpectRegister, Is
    <3>2. u \in {"main", "comm"} => ~ Touches(Head(todo[u]), "all")
      BY <2>1, <2>3, <3>1, OthersAreMute
    <3>3. u \in {"main", "comm"}  BY <2>1, <2>3, <2>6, <3>1, OthersAreMute
    <3>4. Head(todo[u]).op \notin RegOps
      <4>1. "all" # "work"  OBVIOUS
      <4> QED  BY <3>2, <3>3, <4>1 DEF Touches
    <3>5. ExpectRegister(u)
      BY <2>4, <2>6, <3>4 DEF WriteRegister, AskRegister, AnswerRegister, Is, RegOps
    <3> QED  BY <3>5 DEF ExpectRegister, chip
  <2> QED  BY <2>5, <2>6
<1> QED  BY <1>1, <1>2 DEF Waits

LEMMA AskedNext ==
  ASSUME Spidevs, NEW t \in {"main", "comm"}, Paired(todo[t]), Steps(t), Alive',
         Lost => Lost', board' = board
  PROVE  Asked(t)'
<1> DEFINE p == todo[t]
<1>1. SUFFICES ASSUME Tail(p) # <<>>, Head(Tail(p)).op = "answer"
               PROVE  Emulated \/ Lost' \/ asked' = Head(Tail(p)).reg
  BY DEF Asked, Steps, Emulated
<1>2. p # <<>> /\ Program(p) /\ \A k \in 1..Len(p) : k > 1 => Pairs(p[k - 1], p[k])
  BY DEF Steps, Paired
<1>3. /\ Len(p) \in Nat \ {0} /\ Head(p) = p[1] /\ Program(Tail(p)) /\ Len(Tail(p)) = Len(p) - 1
      /\ \A k \in 1..Len(Tail(p)) : Tail(p)[k] = p[k + 1]
  BY <1>2, ProgramRest
<1>4. Len(Tail(p)) \in Nat \ {0} /\ Head(Tail(p)) = Tail(p)[1]  BY <1>1, <1>3, ProgramRest
<1>5. 2 \in 1..Len(p) /\ 1 \in 1..Len(Tail(p))
  <2> DEFINE m == Len(p)
             n == Len(Tail(p))
  <2>1. m \in Nat \ {0} /\ n = m - 1 /\ n \in Nat \ {0}  BY <1>3, <1>4
  <2> HIDE DEF m, n
  <2>2. 2 \in 1..m /\ 1 \in 1..n  BY <2>1
  <2> QED  BY <2>2 DEF m, n
<1>6. Head(Tail(p)) = p[2] /\ Pairs(p[1], p[2])
  <2>1. 2 > 1 /\ 2 - 1 = 1 /\ 1 + 1 = 2  OBVIOUS
  <2> QED  BY <1>2, <1>3, <1>4, <1>5, <2>1
<1>7. p[1].op = "ask" /\ p[1].reg = p[2].reg  BY <1>1, <1>6 DEF Pairs, Asks
<1>8. AskRegister(t)
  <2>1. t \in Threads /\ StepOf(t) /\ Head(todo[t]).op = "ask"
    BY <1>3, <1>7 DEF Threads, Steps
  <2>2. "ask" \in Checks  BY DEF Checks, RegOps
  <2>3. WriteRegister(t) \/ AskRegister(t) \/ AnswerRegister(t) \/ ExpectRegister(t)
    BY <2>1, <2>2, RegisterSteps
  <2> QED  BY <2>1, <2>3 DEF WriteRegister, AnswerRegister, ExpectRegister, Is
<1>9. asked' = IF Reaches THEN p[1].reg ELSE asked  BY <1>3, <1>8 DEF AskRegister, Next1
<1>10. Reaches \/ Lost  BY DEF Reaches, Lost
<1> QED  BY <1>6, <1>7, <1>9, <1>10

LEMMA AskInvKept ==
  ASSUME TodoInv, TxTypes, CommInv, StageInv, Inv, Spidevs, RegInv("all"), AskInv,
         Next, Alive'
  PROVE  AskInv'
<1>1. Flagged => Flagged'  BY HappenedStays DEF Flagged
<1>2. CASE Flagged  BY <1>1, <1>2 DEF AskInv
<1>3. CASE ~ Flagged
  <2>1. RegKept("all")  BY <1>3 DEF RegInv, RegKept, Excused
  <2>2. ASSUME NEW t \in {"main", "comm"} PROVE Asked(t)'
    <3>1. Asked(t) /\ Paired(todo[t])  BY <1>3 DEF AskInv, StageInv
    <3>2. board' = board  BY BoardStays
    <3>3. Turn(t)  BY TurnOfEach
    <3>4. Lost => Lost' \/ todo[t] = <<>>  BY LostStays, CreatedAlone
    <3>5. CASE Entire(todo'[t])
      <4>1. todo'[t] # <<>> => Head(todo'[t]).op # "answer"  BY <3>5, EntireHead DEF Follower
      <4> QED  BY <4>1 DEF Asked
    <3>6. CASE Holds(t)
      <4>1. Head(todo'[t]).op # "answer"  BY <3>6 DEF Holds, Checks, RegOps
      <4> QED  BY <4>1 DEF Asked
    <3>7. CASE Waits(t)
      <4>1. todo'[t] = todo[t]  BY <3>7 DEF Waits
      <4>2. CASE todo[t] # <<>> /\ Head(todo[t]).op = "answer"
        <5>1. asked' = asked  BY <2>1, <3>7, <4>2, OthersAsk
        <5> QED  BY <3>1, <3>2, <3>4, <4>1, <4>2, <5>1 DEF Asked, Emulated
      <4>3. CASE ~ (todo[t] # <<>> /\ Head(todo[t]).op = "answer")
        BY <4>1, <4>3 DEF Asked
      <4> QED  BY <4>2, <4>3
    <3>8. CASE Steps(t)
      <4>1. Lost => Lost'  BY <3>4, <3>8 DEF Steps
      <4> QED  BY <3>1, <3>2, <3>8, <4>1, AskedNext
    <3> QED  BY <3>3, <3>5, <3>6, <3>7, <3>8 DEF Turn
  <2> QED  BY <2>2 DEF AskInv
<1> QED  BY <1>2, <1>3

LEMMA AskInvInit == ASSUME Init PROVE AskInv
  BY DEF Init, AskInv, Asked, Threads

(* The AFE answers what it was not asked for only then, or is not there.   *)
LEMMA EchoOfStep ==
  ASSUME StageInv, AskInv, NEW t \in Threads, AnswerRegister(t), dead = "no", dead' = "echo"
  PROVE  Flagged \/ board = "absent"
<1>1. todo[t] # <<>> /\ Head(todo[t]).op = "answer"  BY DEF AnswerRegister, Is
<1>2. t \in {"main", "comm"}
  <2>1. todo[t] # <<>> /\ Head(todo[t]).op \in Checks  BY <1>1 DEF Checks, RegOps
  <2>2. ~ Avoids(todo[t], Checks)  BY <2>1, AvoidsRest
  <2> QED  BY <2>2 DEF StageInv, Threads
<1>3. /\ ~ (Emulated \/ (Reaches /\ asked = Head(todo[t]).reg /\ board # "absent"))
      /\ Reaches
  BY DEF AnswerRegister, Next1
<1> QED  BY <1>1, <1>2, <1>3 DEF AskInv, Asked, Reaches, Lost

(* The registers of a real AFE never hold the soft reset, nor does a value *)
(* read from them to be written back.                                      *)
Clean ==
  WorkRegs \subseteq DOMAIN reg /\ (~ Emulated => \A r \in WorkRegs : "soft_reset" \notin reg[r])
Held(t) ==
  todo[t] # <<>> /\ Head(todo[t]).op = "writeBack" /\ ~ Emulated => "soft_reset" \notin acc[t]
CleanInv == Clean /\ \A t \in {"main", "comm"} : Held(t)

LEMMA NoRegsAreClean == ASSUME reg = NoRegs PROVE Clean
<1>1. WorkRegs \subseteq DOMAIN NoRegs  BY DEF NoRegs, WorkRegs, CheckedRegs
<1>2. \A r \in WorkRegs : "soft_reset" \notin NoRegs[r]
  BY DEF NoRegs, WorkRegs, CheckedRegs
<1> QED  BY <1>1, <1>2 DEF Clean

LEMMA WriteIsClean ==
  ASSUME Clean, NEW t, WriteRegister(t), board' = board PROVE Clean'
<1>1. CASE UNCHANGED chip  BY <1>1 DEF chip, Clean, Emulated
<1>2. CASE reg' = NoRegs
  <2>1. WorkRegs \subseteq DOMAIN NoRegs  BY DEF NoRegs, WorkRegs, CheckedRegs
  <2>2. \A r \in WorkRegs : "soft_reset" \notin NoRegs[r]
    BY DEF NoRegs, WorkRegs, CheckedRegs
  <2> QED  BY <1>2, <2>1, <2>2 DEF Clean
<1>3. CASE reg' = [reg EXCEPT ![Head(todo[t]).reg] = Written(t)]
           /\ ~ (~ Emulated /\ "soft_reset" \in Written(t))
  <2>1. DOMAIN reg' = DOMAIN reg  BY <1>3
  <2>2. \A r \in DOMAIN reg : reg'[r] = reg[r] \/ reg'[r] = Written(t)  BY <1>3
  <2> QED  BY <1>3, <2>1, <2>2 DEF Clean, Emulated
<1> QED  BY <1>1, <1>2, <1>3 DEF WriteRegister, Next1

LEMMA CleanKept ==
  ASSUME Clean, Next, Alive' PROVE Clean'
<1>1. board' = board  BY BoardStays
<1>2. ASSUME reg' = reg PROVE Clean'  BY <1>1, <1>2 DEF Clean, Emulated
<1>3. CASE \E t \in Threads : StepOf(t)
  <2>1. PICK t \in Threads : StepOf(t)  BY <1>3
  <2>2. WriteRegister(t) \/ AskRegister(t) \/ AnswerRegister(t) \/ ExpectRegister(t)
        \/ UNCHANGED <<reg, asked>>
    BY <2>1, RegisterSteps
  <2>3. WriteRegister(t) \/ reg' = reg
    BY <2>2 DEF AskRegister, AnswerRegister, ExpectRegister, chip
  <2> QED  BY <1>1, <1>2, <2>3, WriteIsClean
<1>4. CASE ~ \E t \in Threads : StepOf(t)  BY <1>2, <1>4, OnlyStepsTouch
<1> QED  BY <1>3, <1>4

(* The first steps of what is left, and of what comes after the first.     *)
LEMMA Shifted ==
  ASSUME NEW p, Program(p), p # <<>>, NEW k \in Nat \ {0}, k \in 1..Len(Tail(p))
  PROVE  /\ 1 \in 1..Len(p) /\ Head(p) = p[1]
         /\ k + 1 \in 1..Len(p) /\ k + 1 > 1 /\ (k + 1) - 1 = k /\ k \in 1..Len(p)
         /\ Tail(p)[k] = p[k + 1]
<1>1. /\ Len(p) \in Nat \ {0} /\ Head(p) = p[1] /\ Len(Tail(p)) = Len(p) - 1
      /\ Tail(p)[k] = p[k + 1]
  BY ProgramRest
<1> DEFINE m == Len(p)
           n == Len(Tail(p))
<1>2. m \in Nat \ {0} /\ n = m - 1 /\ k \in 1..n  BY <1>1
<1> HIDE DEF m, n
<1>3. 1 \in 1..m /\ k + 1 \in 1..m /\ k + 1 > 1 /\ (k + 1) - 1 = k /\ k \in 1..m  BY <1>2
<1> QED  BY <1>1, <1>3 DEF m

LEMMA HeldNext ==
  ASSUME TodoInv, Clean, NEW t \in {"main", "comm"}, Paired(todo[t]), Steps(t), Alive',
         board' = board
  PROVE  Held(t)'
<1> DEFINE p == todo[t]
<1>1. SUFFICES ASSUME Tail(p) # <<>>, Head(Tail(p)).op = "writeBack", ~ Emulated
               PROVE  "soft_reset" \notin acc'[t]
  BY DEF Held, Steps, Emulated
<1>2. p # <<>> /\ Program(p)
      /\ \A k \in 1..Len(p) : Mild(p[k]) /\ (k > 1 => Pairs(p[k - 1], p[k]))
  BY DEF Steps, Paired
<1>3. Program(Tail(p))  BY <1>2, ProgramRest
<1>4. 1 \in 1..Len(Tail(p)) /\ Head(Tail(p)) = Tail(p)[1]
  <2> DEFINE n == Len(Tail(p))
  <2>1. n \in Nat \ {0} /\ Head(Tail(p)) = Tail(p)[1]  BY <1>1, <1>3, ProgramRest
  <2> HIDE DEF n
  <2>2. 1 \in 1..n  BY <2>1
  <2> QED  BY <2>1, <2>2 DEF n
<1>5. Head(p) = p[1] /\ 1 + 1 \in 1..Len(p) /\ 1 + 1 > 1 /\ (1 + 1) - 1 = 1
      /\ Tail(p)[1] = p[1 + 1]
  BY <1>2, <1>4, Shifted
<1>6. Mild(p[2]) /\ Pairs(p[1], p[2]) /\ Head(Tail(p)) = p[2]
  <2>1. 1 + 1 = 2  OBVIOUS
  <2> QED  BY <1>2, <1>4, <1>5, <2>1
<1>7. /\ Head(p).op = "answer" /\ Head(p).reg \in WorkRegs
  BY <1>1, <1>5, <1>6 DEF Mild, Pairs, Answers
<1>8. AnswerRegister(t)
  <2>1. t \in Threads /\ StepOf(t) /\ Head(todo[t]).op = "answer"
    BY <1>7 DEF Threads, Steps
  <2>2. "answer" \in Checks  BY DEF Checks, RegOps
  <2>3. WriteRegister(t) \/ AskRegister(t) \/ AnswerRegister(t) \/ ExpectRegister(t)
    BY <2>1, <2>2, RegisterSteps
  <2> QED  BY <2>1, <2>3 DEF WriteRegister, AskRegister, ExpectRegister, Is
<1>9. Take(t, reg[Head(p).reg]) \/ Take(t, {})
  <2>1. dead' # "echo"  BY DEF Alive
  <2> QED  BY <1>8, <2>1 DEF AnswerRegister, Next1, Die
<1>10. acc'[t] = reg[Head(p).reg] \/ acc'[t] = {}
  <2>1. t \in Threads  BY DEF Threads
  <2> QED  BY <1>9, <2>1 DEF Take, TodoInv
<1> QED  BY <1>1, <1>7, <1>10 DEF Clean

LEMMA CleanInvKept ==
  ASSUME TodoInv, TxTypes, CommInv, StageInv, CleanInv, Next, Alive'
  PROVE  CleanInv'
<1>1. Clean'  BY CleanKept DEF CleanInv
<1>2. ASSUME NEW t \in {"main", "comm"} PROVE Held(t)'
  <2>1. Turn(t) /\ Paired(todo[t]) /\ Clean /\ Held(t) /\ board' = board
    BY TurnOfEach, BoardStays DEF CleanInv, StageInv
  <2>2. CASE Entire(todo'[t])
    <3>1. todo'[t] # <<>> => Head(todo'[t]).op # "writeBack"  BY <2>2, EntireHead DEF Follower
    <3> QED  BY <3>1 DEF Held
  <2>3. CASE Holds(t)
    <3>1. Head(todo'[t]).op # "writeBack"  BY <2>3 DEF Holds, Checks, RegOps
    <3> QED  BY <3>1 DEF Held
  <2>4. CASE Waits(t)  BY <2>1, <2>4 DEF Waits, Held, Emulated
  <2>5. CASE Steps(t)  BY <2>1, <2>5, HeldNext
  <2> QED  BY <2>1, <2>2, <2>3, <2>4, <2>5 DEF Turn
<1> QED  BY <1>1, <1>2 DEF CleanInv

LEMMA CleanInvInit == ASSUME Init PROVE CleanInv
<1>1. Clean  BY NoRegsAreClean DEF Init
<1>2. \A t \in {"main", "comm"} : Held(t)  BY DEF Init, Held, Threads
<1> QED  BY <1>1, <1>2 DEF CleanInv

(* What is asserted of a register is what it holds, and what was read from *)
(* it, unless the device has been unbound.                                 *)
Expects(p, k) == k \in 1..Len(p) /\ p[k].op = "expect"
Meets(v, e) == v \cap e.mask = e.content
Shown(t) ==
  /\ Expects(todo[t], 1) => Meets(acc[t], todo[t][1])
  /\ Expects(todo[t], 2) => ~ Reaches \/ Meets(reg[todo[t][1].reg], todo[t][2])
  /\ Expects(todo[t], 3) => ~ Reaches \/ Meets(reg[todo[t][2].reg], todo[t][3])
ShownInv == "unbound" \in happened \/ \A t \in {"main", "comm"} : Shown(t)

ReadIs(s) == s.op = "answer" /\ s.reg \in CheckedRegs
LEMMA ExpectsAfter ==
  ASSUME NEW p, Paired(p)
  PROVE  /\ Expects(p, 2) => ReadIs(p[1])
         /\ Expects(p, 3) => ReadIs(p[2]) /\ p[1].op = "ask"
         /\ Expects(p, 4) => ReadIs(p[3]) /\ p[1].reg = p[3].reg /\ Gives(p[1], p[4])
<1> DEFINE n == Len(p)
<1>1. n \in Nat  BY DEF Paired, Program
<1>2. \A k \in 1..n : /\ k > 1 => Pairs(p[k - 1], p[k])
                      /\ k > 3 => Tests(p[k - 3], p[k - 1], p[k])
  BY DEF Paired
<1>3. \A k : Expects(p, k) <=> k \in 1..n /\ p[k].op = "expect"  BY DEF Expects
<1> HIDE DEF n
<1>4. ASSUME Expects(p, 2) PROVE ReadIs(p[1])
  <2>1. 2 \in 1..n /\ 2 > 1 /\ 2 - 1 = 1 /\ p[2].op = "expect"  BY <1>3, <1>4
  <2>2. Pairs(p[1], p[2])  BY <1>2, <2>1
  <2> QED  BY <2>1, <2>2 DEF Pairs, ReadIs
<1>5. ASSUME Expects(p, 3) PROVE ReadIs(p[2]) /\ p[1].op = "ask"
  <2>1. 3 \in 1..n /\ 3 > 1 /\ 3 - 1 = 2 /\ p[3].op = "expect"  BY <1>3, <1>5
  <2>2. 2 \in 1..n /\ 2 > 1 /\ 2 - 1 = 1  BY <1>1, <2>1
  <2>3. Pairs(p[2], p[3]) /\ Pairs(p[1], p[2])  BY <1>2, <2>1, <2>2
  <2> QED  BY <2>1, <2>3 DEF Pairs, ReadIs, Asks
<1>6. ASSUME Expects(p, 4) PROVE ReadIs(p[3]) /\ p[1].reg = p[3].reg /\ Gives(p[1], p[4])
  <2>1. 4 \in 1..n /\ 4 > 1 /\ 4 - 1 = 3 /\ 4 > 3 /\ 4 - 3 = 1 /\ p[4].op = "expect"
    BY <1>3, <1>6
  <2>2. Pairs(p[3], p[4]) /\ Tests(p[1], p[3], p[4])  BY <1>2, <2>1
  <2> QED  BY <2>1, <2>2 DEF Pairs, ReadIs, Tests
<1> QED  BY <1>4, <1>5, <1>6

LEMMA ReadIsWork == ASSUME NEW s, ReadIs(s) PROVE Touches(s, "work") /\ s.op \in Checks
<1>1. s.reg # "reset"  BY DEF ReadIs, CheckedRegs
<1> QED  BY <1>1 DEF ReadIs, Touches, RegOps, Checks

(* A write that resets the AFE is one of its creation.                     *)
LEMMA WritesMildly ==
  ASSUME StageInv, CleanInv, NEW t \in {"main", "comm"}, WriteRegister(t), ~ Emulated,
         "soft_reset" \in Written(t)
  PROVE  t = "main" /\ stage = "probe" /\ Avoids(todo["main"], {"expect"})
<1>1. todo[t] # <<>> /\ Paired(todo[t])
      /\ (Head(todo[t]).op = "write" \/ Head(todo[t]).op = "writeBack")
  BY DEF WriteRegister, Is, StageInv
<1>2. Mild(Head(todo[t])) /\ Held(t)  BY <1>1, PairedRest DEF CleanInv
<1>3. Head(todo[t]).op = "write" /\ "soft_reset" \in Head(todo[t]).value
  <2>1. CASE Head(todo[t]).op = "write"  BY <2>1 DEF Written, Next1
  <2>2. CASE Head(todo[t]).op = "writeBack"
    <3>1. "soft_reset" \notin acc[t] /\ "soft_reset" \notin Head(todo[t]).content
      BY <1>1, <1>2, <2>2 DEF Held, Mild
    <3>2. Written(t) = (acc[t] \ Head(todo[t]).mask) \cup Head(todo[t]).content
      BY <2>2 DEF Written, Next1
    <3> QED  BY <3>1, <3>2
  <2> QED  BY <1>1, <2>1, <2>2
<1>4. ~ Obeys(todo[t], "gentle")
  <2>1. ~ Rule(Head(todo[t]), "gentle")  BY <1>3 DEF Rule
  <2> QED  BY <1>1, <2>1, ObeysRest
<1> QED  BY <1>4 DEF StageInv

LEMMA ProbesAlone == ASSUME CommInv, stage = "probe" PROVE Idle("comm")
  BY DEF CommInv, Order, Opens, TimerActs, UserCloses, Boots

LEMMA OthersKeep ==
  ASSUME CommInv, StageInv, CleanInv, RegKept("work"), NEW t \in {"main", "comm"}, Waits(t),
         Alive', todo[t] # <<>>, Uses1(t, "work"), NEW r \in CheckedRegs
  PROVE  reg'[r] = reg[r]
<1>1. CASE UNCHANGED <<reg, asked>>  BY <1>1
<1>2. CASE \E u \in Threads \ {t} : StepOf(u)
  <2>1. PICK u \in Threads \ {t} : StepOf(u)  BY <1>2
  <2>2. /\ Head(todo[u]).op \in Checks =>
             (WriteRegister(u) \/ AskRegister(u) \/ AnswerRegister(u) \/ ExpectRegister(u))
        /\ Head(todo[u]).op \notin Checks => reg' = reg
    BY <2>1, RegisterSteps
  <2>3. reg' = reg \/ WriteRegister(u)
    BY <2>2 DEF AskRegister, AnswerRegister, ExpectRegister, chip
  <2>4. CASE WriteRegister(u)
    <3>1. todo[u] # <<>> /\ Head(todo[u]).op \in {"write", "writeBack"}
      BY <2>4 DEF WriteRegister, Is
    <3>2. Head(todo[u]).op \in RegOps /\ Head(todo[u]).op \in Checks
      BY <3>1 DEF RegOps, Checks
    <3>3. u \in {"main", "comm"} /\ ~ Touches(Head(todo[u]), "work")
      BY <2>1, <3>1, <3>2, OthersAreMute
    <3>4. Head(todo[u]).reg = "reset" /\ Head(todo[u]).reg # r
      BY <3>2, <3>3 DEF Touches, CheckedRegs
    <3>5. ~ (~ Emulated /\ "soft_reset" \in Written(u))
      <4> SUFFICES ASSUME ~ Emulated, "soft_reset" \in Written(u) PROVE FALSE  OBVIOUS
      <4>1. u = "main" /\ stage = "probe"  BY <2>4, <3>3, WritesMildly
      <4>2. Idle("comm") /\ t = "comm"  BY <2>1, <4>1, ProbesAlone
      <4> QED  BY <4>2 DEF Idle
    <3>6. reg' = reg \/ reg' = [reg EXCEPT ![Head(todo[u]).reg] = Written(u)]
      BY <2>4, <3>5 DEF WriteRegister, chip, Next1
    <3>7. r \in DOMAIN reg  BY DEF CleanInv, Clean, WorkRegs
    <3> QED  BY <3>4, <3>6, <3>7
  <2> QED  BY <2>3, <2>4
<1> QED  BY <1>1, <1>2 DEF Waits

(* What a thread that waits expects is still there.                        *)
LEMMA StaysUnreached ==
  ASSUME CommInv, Inv, Spidevs, Next, NEW t \in {"main", "comm"}, todo[t] # <<>>, ~ Reaches
  PROVE  ~ Reaches'
<1>1. board' = board /\ ~ Emulated /\ Lost  BY BoardStays DEF Reaches, Lost
<1>2. Lost'
  <2>1. CASE Main /\ stage = "leds"  BY <2>1, CreatedAlone
  <2> QED  BY <1>1, <2>1, LostStays
<1> QED  BY <1>1, <1>2 DEF Reaches, Lost, Emulated

LEMMA OpenReaches ==
  ASSUME OpenInv, Ready, "unbound" \notin happened PROVE Reaches
  BY DEF OpenInv, Reaches

LEMMA CommIsLate == ASSUME CommInv, todo["comm"] # <<>> PROVE Ready
  BY DEF CommInv, Order, Opens, TimerActs, UserCloses, Boots, Idle, Ready

LEMMA ShownWaits ==
  ASSUME CommInv, StageInv, CleanInv, RegKept("work"), Inv, Spidevs, Next, Alive',
         NEW t \in {"main", "comm"}, Waits(t), Shown(t)
  PROVE  Shown(t)'
<1> DEFINE p == todo[t]
<1>1. Paired(p) /\ Program(p) /\ todo'[t] = p /\ acc'[t] = acc[t]
  BY DEF StageInv, Paired, Waits
<1>2. ASSUME NEW k \in 1..Len(p), ReadIs(p[k]), NEW e, ~ Reaches \/ Meets(reg[p[k].reg], e)
      PROVE  ~ Reaches' \/ Meets(reg'[p[k].reg], e)
  <2>1. p # <<>>
    <3> DEFINE n == Len(p)
    <3>1. n \in Nat /\ (p = <<>> => n = 0)  BY <1>1 DEF Program
    <3>2. k \in 1..n  BY <1>2
    <3> HIDE DEF n
    <3> QED  BY <3>1, <3>2
  <2>2. Uses1(t, "work")  BY <1>2, ReadIsWork DEF Uses1
  <2>3. reg'[p[k].reg] = reg[p[k].reg]  BY <1>2, <2>1, <2>2, OthersKeep DEF ReadIs
  <2>4. CASE ~ Reaches  BY <2>1, <2>4, StaysUnreached
  <2>5. CASE Meets(reg[p[k].reg], e)  BY <2>3, <2>5
  <2> QED  BY <1>2, <2>4, <2>5
<1>3. Expects(p, 1) => Meets(acc'[t], p[1])  BY <1>1 DEF Shown
<1>4. ASSUME NEW k \in {1, 2}, Expects(p, k + 1) PROVE k \in 1..Len(p)
  <2> DEFINE n == Len(p)
  <2>1. n \in Nat  BY <1>1 DEF Program
  <2>2. k + 1 \in 1..n  BY <1>4 DEF Expects
  <2> HIDE DEF n
  <2>3. k \in 1..n  BY <2>1, <2>2
  <2> QED  BY <2>3 DEF n
<1>5. ASSUME Expects(p, 2) PROVE ~ Reaches' \/ Meets(reg'[p[1].reg], p[2])
  <2>1. 1 \in 1..Len(p)
    <3>1. 1 + 1 = 2 /\ 1 \in {1, 2}  OBVIOUS
    <3> QED  BY <1>4, <1>5, <3>1
  <2>2. ReadIs(p[1]) /\ (~ Reaches \/ Meets(reg[p[1].reg], p[2]))
    BY <1>1, <1>5, ExpectsAfter DEF Shown
  <2> QED  BY <1>2, <2>1, <2>2
<1>6. ASSUME Expects(p, 3) PROVE ~ Reaches' \/ Meets(reg'[p[2].reg], p[3])
  <2>1. 2 \in 1..Len(p)
    <3>1. 2 + 1 = 3 /\ 2 \in {1, 2}  OBVIOUS
    <3> QED  BY <1>4, <1>6, <3>1
  <2>2. ReadIs(p[2]) /\ (~ Reaches \/ Meets(reg[p[2].reg], p[3]))
    BY <1>1, <1>6, ExpectsAfter DEF Shown
  <2> QED  BY <1>2, <2>1, <2>2
<1> QED  BY <1>1, <1>3, <1>5, <1>6 DEF Shown

(* Its own step brings the next expectation nearer.                        *)
LEMMA ExpectsNext ==
  ASSUME NEW p, Program(p), p # <<>>, NEW k \in Nat \ {0}, Expects(Tail(p), k)
  PROVE  Expects(p, k + 1) /\ Tail(p)[k] = p[k + 1] /\ Head(p) = p[1]
  BY Shifted DEF Expects

LEMMA ShownNextFirst ==
  ASSUME CommInv, StageInv, OpenInv, "unbound" \notin happened, Alive', TodoInv,
         NEW t \in {"main", "comm"}, Steps(t), Shown(t), Expects(todo[t], 2)
  PROVE  Meets(acc'[t], todo[t][2])
<1> DEFINE p == todo[t]
<1>1. Paired(p) /\ Program(p) /\ p # <<>> /\ t \in Threads /\ StepOf(t)
  BY DEF StageInv, Paired, Steps, Threads
<1>2. Head(p) = p[1]  BY <1>1, ProgramRest
<1>3. ReadIs(Head(p)) /\ (~ Reaches \/ Meets(reg[Head(p).reg], p[2]))
  BY <1>1, <1>2, ExpectsAfter DEF Shown
<1>4. AnswerRegister(t)
  <2>1. Head(p).op = "answer" /\ Head(p).op \in Checks  BY <1>3, ReadIsWork DEF ReadIs
  <2>2. WriteRegister(t) \/ AskRegister(t) \/ AnswerRegister(t) \/ ExpectRegister(t)
    BY <1>1, <2>1, RegisterSteps
  <2> QED  BY <2>1, <2>2 DEF WriteRegister, AskRegister, ExpectRegister, Is
<1>5. (Take(t, reg[Head(p).reg]) /\ Reaches) \/ (Take(t, {}) /\ ~ Reaches)
  <2>1. dead' # "echo"  BY DEF Alive
  <2> QED  BY <1>4, <2>1 DEF AnswerRegister, Next1, Die, Reaches
<1>6. (acc'[t] = reg[Head(p).reg] /\ Reaches) \/ (acc'[t] = {} /\ ~ Reaches)
  BY <1>1, <1>5 DEF Take, TodoInv
<1>7. CASE Reaches  BY <1>3, <1>6, <1>7
<1>8. CASE ~ Reaches
  <2>1. ~ Ready  BY <1>8, OpenReaches
  <2>2. t = "main"  BY <1>1, <2>1, CommIsLate
  <2>3. Obeys(p, "clear")  BY <2>1, <2>2 DEF StageInv
  <2>4. 2 \in 1..Len(p) /\ p[2].op = "expect"  BY DEF Expects
  <2>5. Rule(p[2], "clear")  BY <2>3, <2>4 DEF Obeys
  <2>6. p[2].content = {}  BY <2>4, <2>5 DEF Rule
  <2> QED  BY <1>6, <1>8, <2>6 DEF Meets
<1> QED  BY <1>7, <1>8

LEMMA ShownNextSecond ==
  ASSUME StageInv, Alive', NEW t \in {"main", "comm"}, Steps(t), Shown(t), Expects(todo[t], 3),
         Reaches' => Reaches
  PROVE  ~ Reaches' \/ Meets(reg'[todo[t][2].reg], todo[t][3])
<1> DEFINE p == todo[t]
<1>1. Paired(p) /\ Program(p) /\ p # <<>> /\ t \in Threads /\ StepOf(t)
  BY DEF StageInv, Paired, Steps, Threads
<1>2. Head(p) = p[1]  BY <1>1, ProgramRest
<1>3. Head(p).op = "ask"  BY <1>1, <1>2, ExpectsAfter
<1>4. reg' = reg
  <2>1. Head(p).op \in Checks  BY <1>3 DEF Checks, RegOps
  <2>2. WriteRegister(t) \/ AskRegister(t) \/ AnswerRegister(t) \/ ExpectRegister(t)
    BY <1>1, <2>1, RegisterSteps
  <2> QED  BY <1>3, <2>2 DEF WriteRegister, AskRegister, AnswerRegister, ExpectRegister, Is, chip
<1> QED  BY <1>4 DEF Shown

LEMMA GivenFits ==
  ASSUME NEW t, todo[t] # <<>>, NEW e, Gives(Head(todo[t]), e) PROVE Meets(Written(t), e)
<1>1. CASE Head(todo[t]).op = "write" /\ Head(todo[t]).value \cap e.mask = e.content
  BY <1>1 DEF Written, Next1, Meets
<1>2. CASE /\ Head(todo[t]).op = "writeBack" /\ Head(todo[t]).content \cap e.mask = e.content
           /\ e.mask \ Head(todo[t]).mask \subseteq e.content
  <2>1. Written(t) = (acc[t] \ Head(todo[t]).mask) \cup Head(todo[t]).content
    BY <1>2 DEF Written, Next1
  <2> QED  BY <1>2, <2>1 DEF Meets
<1> QED  BY <1>1, <1>2 DEF Gives

LEMMA ShownNextThird ==
  ASSUME CommInv, StageInv, CleanInv, Inv, Spidevs, Next, Alive',
         NEW t \in {"main", "comm"}, Steps(t), Expects(todo[t], 4)
  PROVE  ~ Reaches' \/ Meets(reg'[todo[t][3].reg], todo[t][4])
<1> DEFINE p == todo[t]
<1>1. Paired(p) /\ Program(p) /\ p # <<>> /\ t \in Threads /\ StepOf(t)
  BY DEF StageInv, Paired, Steps, Threads
<1>2. Head(p) = p[1]  BY <1>1, ProgramRest
<1>3. ReadIs(p[3]) /\ Head(p).reg = p[3].reg /\ Gives(Head(p), p[4])
  BY <1>1, <1>2, ExpectsAfter
<1>4. Head(p).op \in {"write", "writeBack"}  BY <1>3 DEF Gives
<1>5. WriteRegister(t)
  <2>1. Head(p).op \in Checks  BY <1>4 DEF Checks, RegOps
  <2>2. WriteRegister(t) \/ AskRegister(t) \/ AnswerRegister(t) \/ ExpectRegister(t)
    BY <1>1, <2>1, RegisterSteps
  <2> QED  BY <1>4, <2>2 DEF AskRegister, AnswerRegister, ExpectRegister, Is
<1>6. CASE ~ Reaches  BY <1>1, <1>6, StaysUnreached
<1>7. CASE Reaches
  <2>1. ~ (~ Emulated /\ "soft_reset" \in Written(t))
    <3> SUFFICES ASSUME ~ Emulated, "soft_reset" \in Written(t) PROVE FALSE  OBVIOUS
    <3>1. t = "main" /\ Avoids(p, {"expect"})  BY <1>5, WritesMildly
    <3>2. 4 \in 1..Len(p) /\ p[4].op = "expect"  BY DEF Expects
    <3> QED  BY <3>1, <3>2, AvoidsAt
  <2>2. Head(p).reg \in CheckedRegs /\ Head(p).reg # "revision"
    BY <1>3 DEF ReadIs, CheckedRegs
  <2>3. reg' = [reg EXCEPT ![Head(p).reg] = Written(t)]
    BY <1>5, <1>7, <2>1, <2>2 DEF WriteRegister, Next1
  <2>4. reg'[p[3].reg] = Written(t)
    <3>1. Head(p).reg \in DOMAIN reg  BY <2>2 DEF CleanInv, Clean, WorkRegs
    <3> QED  BY <1>3, <2>3, <3>1
  <2>5. Meets(Written(t), p[4])  BY <1>1, <1>3, GivenFits
  <2> QED  BY <2>4, <2>5
<1> QED  BY <1>6, <1>7

LEMMA ShownSteps ==
  ASSUME TodoInv, CommInv, StageInv, CleanInv, OpenInv, Inv, Spidevs, Next, Alive',
         "unbound" \notin happened, NEW t \in {"main", "comm"}, Steps(t), Shown(t)
  PROVE  Shown(t)'
<1> DEFINE p == todo[t]
           q == Tail(todo[t])
<1>1. Program(p) /\ p # <<>> /\ todo'[t] = q  BY DEF StageInv, Paired, Steps
<1>2. Expects(q, 1) => Expects(p, 2) /\ q[1] = p[2]
  <2>1. 1 + 1 = 2 /\ 1 \in Nat \ {0}  OBVIOUS
  <2> QED  BY <1>1, <2>1, ExpectsNext
<1>3. Expects(q, 2) => Expects(p, 3) /\ q[2] = p[3] /\ q[1] = p[2]
  <2>1. 2 + 1 = 3 /\ 2 \in Nat \ {0}  OBVIOUS
  <2>2. 1 + 1 = 2 /\ 1 \in Nat \ {0}  OBVIOUS
  <2>3. Expects(q, 2) => 1 \in 1..Len(q)
    <3>1. Len(q) \in Nat  BY <1>1, ProgramRest DEF Program
    <3> DEFINE n == Len(q)
    <3>2. n \in Nat  BY <3>1
    <3>3. Expects(q, 2) => 2 \in 1..n  BY DEF Expects
    <3> HIDE DEF n
    <3>4. Expects(q, 2) => 1 \in 1..n  BY <3>2, <3>3
    <3> QED  BY <3>4 DEF n
  <2>4. Expects(q, 2) => q[1] = p[1 + 1]  BY <1>1, <2>2, <2>3, Shifted
  <2> QED  BY <1>1, <2>1, <2>2, <2>4, ExpectsNext
<1>4. Expects(q, 3) => Expects(p, 4) /\ q[3] = p[4] /\ q[2] = p[3]
  <2>1. 3 + 1 = 4 /\ 3 \in Nat \ {0}  OBVIOUS
  <2>2. 2 + 1 = 3 /\ 2 \in Nat \ {0}  OBVIOUS
  <2>3. Expects(q, 3) => 2 \in 1..Len(q)
    <3>1. Len(q) \in Nat  BY <1>1, ProgramRest DEF Program
    <3> DEFINE n == Len(q)
    <3>2. n \in Nat  BY <3>1
    <3>3. Expects(q, 3) => 3 \in 1..n  BY DEF Expects
    <3> HIDE DEF n
    <3>4. Expects(q, 3) => 2 \in 1..n  BY <3>2, <3>3
    <3> QED  BY <3>4 DEF n
  <2>4. Expects(q, 3) => q[2] = p[2 + 1]  BY <1>1, <2>2, <2>3, Shifted
  <2> QED  BY <1>1, <2>1, <2>2, <2>4, ExpectsNext
<1>5. Expects(q, 1) => Meets(acc'[t], q[1])  BY <1>2, ShownNextFirst
<1>6. Expects(q, 2) => ~ Reaches' \/ Meets(reg'[q[1].reg], q[2])
  <2>1. Reaches' => Reaches  BY <1>1, StaysUnreached
  <2> QED  BY <1>3, <2>1, ShownNextSecond
<1>7. Expects(q, 3) => ~ Reaches' \/ Meets(reg'[q[2].reg], q[3])
  BY <1>4, ShownNextThird
<1> QED  BY <1>1, <1>5, <1>6, <1>7 DEF Shown

LEMMA ShownInvKept ==
  ASSUME TodoInv, TxTypes, CommInv, StageInv, CleanInv, NodesInv, Inv,
         RegInv("work"), ShownInv, Next, Alive'
  PROVE  ShownInv'
<1>1. happened \subseteq happened'  BY HappenedStays
<1>2. RegKept("work")
  <2>1. "work" # "all"  OBVIOUS
  <2> QED  BY <2>1 DEF RegInv, Excused
<1>3. SUFFICES ASSUME "unbound" \notin happened', NEW t \in {"main", "comm"} PROVE Shown(t)'
  BY DEF ShownInv
<1>4. "unbound" \notin happened /\ Shown(t) /\ Spidevs /\ OpenInv
  BY <1>1, <1>3 DEF ShownInv, NodesInv
<1>5. Turn(t)  BY TurnOfEach
<1>6. CASE Entire(todo'[t])
  <2>1. \A k \in 1..Len(todo'[t]) : k <= 3 => todo'[t][k].op # "expect"  BY <1>6 DEF Entire
  <2>2. ~ Expects(todo'[t], 1) /\ ~ Expects(todo'[t], 2) /\ ~ Expects(todo'[t], 3)
    <3>1. 1 <= 3 /\ 2 <= 3 /\ 3 <= 3  OBVIOUS
    <3> QED  BY <2>1, <3>1 DEF Expects
  <2> QED  BY <2>2 DEF Shown
<1>7. CASE Holds(t)
  <2> DEFINE p == todo[t]
  <2>1. Paired(p) /\ Program(p) /\ p # <<>> /\ todo'[t] = p /\ Head(p).op \notin Checks
    BY <1>7 DEF StageInv, Paired, Holds
  <2>2. Head(p) = p[1]  BY <2>1, ProgramRest
  <2>3. p[1].op # "expect" /\ p[1].op # "ask" /\ p[1].op # "answer"
    BY <2>1, <2>2 DEF Checks, RegOps
  <2>4. ~ Expects(p, 1) /\ ~ Expects(p, 2) /\ ~ Expects(p, 3)
    BY <2>1, <2>3, ExpectsAfter DEF Expects, ReadIs
  <2> QED  BY <2>1, <2>4 DEF Shown
<1>8. CASE Waits(t)  BY <1>2, <1>4, <1>8, ShownWaits
<1>9. CASE Steps(t)  BY <1>4, <1>9, ShownSteps
<1> QED  BY <1>5, <1>6, <1>7, <1>8, <1>9 DEF Turn

LEMMA ShownInvInit == ASSUME Init PROVE ShownInv
<1>1. \A t \in {"main", "comm"} : todo[t] = <<>>  BY DEF Init, Threads
<1>2. ASSUME NEW t \in {"main", "comm"} PROVE Shown(t)
  <2>1. \A k : ~ (k \in 1..Len(todo[t]))  BY <1>1
  <2> QED  BY <2>1 DEF Shown, Expects
<1> QED  BY <1>2 DEF ShownInv

(* An assertion of a register fails only once the device is unbound.       *)
LEMMA ReadbackOfStep ==
  ASSUME StageInv, ShownInv, NEW t \in Threads, ExpectRegister(t), dead = "no",
         dead' = "readback"
  PROVE  "unbound" \in happened
<1>1. todo[t] # <<>> /\ Head(todo[t]).op = "expect"  BY DEF ExpectRegister, Is
<1>2. t \in {"main", "comm"}
  <2>1. todo[t] # <<>> /\ Head(todo[t]).op \in Checks  BY <1>1 DEF Checks
  <2>2. ~ Avoids(todo[t], Checks)  BY <2>1, AvoidsRest
  <2> QED  BY <2>2 DEF StageInv, Threads
<1>3. ~ Meets(acc[t], Head(todo[t]))  BY DEF ExpectRegister, Next1, Meets
<1>4. Expects(todo[t], 1) /\ Head(todo[t]) = todo[t][1]
  <2>1. Len(todo[t]) \in Nat \ {0} /\ Head(todo[t]) = todo[t][1]
    BY <1>1, <1>2, ProgramRest DEF StageInv, Paired
  <2>2. 1 \in 1..Len(todo[t])  BY <2>1
  <2> QED  BY <1>1, <2>1, <2>2 DEF Expects
<1> QED  BY <1>2, <1>3, <1>4 DEF ShownInv, Shown

(* What is known of the registers and of their assertions while it runs.   *)
RegisterInv ==
  /\ StageInv /\ CleanInv /\ ShownInv /\ AskInv
  /\ RegInv("all") /\ RegInv("work")

LEMMA RegisterInvInit == Init => RegisterInv
  BY StageInvInit, CleanInvInit, ShownInvInit, AskInvInit, RegInvInit DEF RegisterInv

LEMMA RegisterInvKept ==
  PinInv /\ Inv /\ (Alive => CommInv) /\ (Alive => NodesInv) /\ (Alive => RegisterInv)
  /\ [Next]_vars => (Alive => RegisterInv)'
<1> SUFFICES ASSUME PinInv, Inv, Alive => CommInv, Alive => NodesInv, Alive => RegisterInv,
                    [Next]_vars, Alive'
             PROVE  RegisterInv'
  OBVIOUS
<1>1. CASE UNCHANGED vars
  <2>1. RegisterInv
    BY <1>1 DEF vars, Alive, spidevVars
  <2>2. StageInv'  BY <1>1, <2>1 DEF RegisterInv, StageInv, vars, Ready
  <2>3. CleanInv'
    BY <1>1, <2>1 DEF RegisterInv, CleanInv, Clean, Held, vars, chip, Emulated
  <2>4. ShownInv'
    <3>1. UNCHANGED <<todo, acc, reg, board, filp, spidev, happened>>
      BY <1>1 DEF vars, chip, spidevVars
    <3>2. Reaches' = Reaches  BY <3>1 DEF Reaches, Emulated, Bound
    <3>3. ASSUME NEW t \in {"main", "comm"}, Shown(t) PROVE Shown(t)'
      BY <3>1, <3>2, <3>3 DEF Shown
    <3> QED  BY <2>1, <3>1, <3>3 DEF RegisterInv, ShownInv
  <2>5. AskInv'
    <3>1. UNCHANGED <<todo, asked, board, filp, spidev, happened>>
      BY <1>1 DEF vars, chip, spidevVars
    <3>2. Lost' = Lost  BY <3>1 DEF Lost, Bound
    <3> QED  BY <2>1, <3>1, <3>2 DEF RegisterInv, AskInv, Asked, Emulated, Flagged
  <2>6. ASSUME NEW x, RegInv(x) PROVE RegInv(x)'
    <3>1. UNCHANGED <<todo, spi, happened, stage, settings, supervisor>>  BY <1>1 DEF vars
    <3>2. Patient => Patient'  BY <3>1 DEF Patient, Unarmed, Idle
    <3> QED  BY <2>6, <3>1, <3>2 DEF RegInv, RegKept, Excused, Flagged, Dac, Idle
  <2> QED  BY <2>1, <2>2, <2>3, <2>4, <2>5, <2>6 DEF RegisterInv
<1>2. CASE Next
  <2>1. CommInv /\ NodesInv /\ RegisterInv /\ TodoInv /\ TxTypes  BY <1>2, NextIsAlive DEF PinInv
  <2>2. StageInv'  BY <1>2, <2>1, StageInvKept DEF RegisterInv
  <2>3. CleanInv'  BY <1>2, <2>1, CleanInvKept DEF RegisterInv
  <2>4. ShownInv'  BY <1>2, <2>1, ShownInvKept DEF RegisterInv
  <2>5. AskInv'  BY <1>2, <2>1, AskInvKept DEF RegisterInv, NodesInv
  <2>6. RegInv("all")' /\ RegInv("work")'  BY <1>2, <2>1, RegInvKept DEF RegisterInv, Scopes
  <2> QED  BY <2>2, <2>3, <2>4, <2>5, <2>6 DEF RegisterInv
<1> QED  BY <1>1, <1>2

(* The assertions of a register that have failed.                          *)
LEMMA RegisterFailuresKept ==
  (Alive => RegisterInv) /\ RegisterFailures /\ [Next]_vars => RegisterFailures'
<1> SUFFICES ASSUME Alive => RegisterInv, RegisterFailures, [Next]_vars PROVE RegisterFailures'
  OBVIOUS
<1>1. CASE UNCHANGED vars  BY <1>1 DEF vars, RegisterFailures
<1>2. CASE Next /\ dead' \notin {"dac", "echo", "readback"}  BY <1>2 DEF RegisterFailures
<1>3. CASE Next /\ dead' \in {"dac", "echo", "readback"}
  <2>1. RegisterInv /\ dead = "no" /\ dead' # "no" /\ dead' # "pin"
    BY <1>3, NextIsAlive DEF Alive
  <2>2. PICK t \in Threads : StepOf(t) /\ Dies(t)  BY <1>3, <2>1, Deaths
  <2>3. happened \subseteq happened' /\ board' = board  BY <1>3, HappenedStays, BoardStays
  <2>4. CASE dead' = "dac"
    <3>1. InDacMode(t)  BY <2>2, <2>4 DEF Dies
    <3>2. Flagged  BY <2>1, <3>1, DacOfStep DEF RegisterInv
    <3> QED  BY <2>3, <2>4, <3>2 DEF RegisterFailures, Flagged
  <2>5. CASE dead' = "echo"
    <3>1. AnswerRegister(t)  BY <2>2, <2>5 DEF Dies
    <3>2. Flagged \/ board = "absent"  BY <2>1, <2>5, <3>1, EchoOfStep DEF RegisterInv
    <3> QED  BY <2>3, <2>5, <3>2 DEF RegisterFailures, Flagged
  <2>6. CASE dead' = "readback"
    <3>1. ExpectRegister(t)  BY <2>2, <2>6 DEF Dies
    <3>2. "unbound" \in happened  BY <2>1, <2>6, <3>1, ReadbackOfStep DEF RegisterInv
    <3> QED  BY <2>3, <2>6, <3>2 DEF RegisterFailures
  <2> QED  BY <1>3, <2>4, <2>5, <2>6
<1> QED  BY <1>1, <1>2, <1>3

(* FailuresAreKnown: every end of the program is one of the known ones.  A *)
(* register is used in DAC mode, or the AFE answers what it was not asked  *)
(* for, only after the overloads were asked for during a communication or  *)
(* while the timer's thread starts or ends one (or with no AFE there), and *)
(* a register does not hold what was written only once the device has been *)
(* unbound; the others are those of KnownEnds.                             *)
THEOREM KnownFailures == Spec => []FailuresAreKnown
<1>1. Spec => []PinInv  BY PinInvInit, PinInvKept, PTL DEF Spec
<1>2. Spec => [](Alive => CommInv)  BY <1>1, CommInvInit, CommInvKept, PTL DEF Spec
<1>3. Spec => [](Alive => NodesInv)  BY <1>1, <1>2, NodesInvInit, NodesInvKept, PTL DEF Spec
<1>4. Spec => []Inv
  <2>1. Init => Inv  BY InvInit DEF Init
  <2>2. Inv /\ [Next]_vars => Inv'  BY InvNext, NextIsSpidev
  <2> QED  BY <2>1, <2>2, PTL DEF Spec
<1>5. Spec => [](Alive => RegisterInv)
  <2>1. Init => (Alive => RegisterInv)  BY RegisterInvInit
  <2> QED  BY <1>1, <1>2, <1>3, <1>4, <2>1, RegisterInvKept, PTL DEF Spec
<1>6. Spec => []RegisterFailures
  <2>1. Init => RegisterFailures  BY DEF Init, RegisterFailures
  <2> QED  BY <1>5, <2>1, RegisterFailuresKept, PTL DEF Spec
<1>7. RegisterFailures /\ (LedFailures /\ PinFailures /\ SoundFailures /\ DriverFailures)
      => FailuresAreKnown
  BY DEF FailuresAreKnown
<1> QED  BY <1>6, <1>7, KnownEnds, PTL
=============================================================================
