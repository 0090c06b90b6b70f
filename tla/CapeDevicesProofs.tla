-------------------------- MODULE CapeDevicesProofs --------------------------
(***************************************************************************)
(* What is proved of the devices of the cape, for any boards, versions,    *)
(* settings and bounds, and for any number of SPI devices, programs,       *)
(* bindings and minors.                                                    *)
(*                                                                         *)
(* First the lifetimes of the data of spidev_plc.c.  The driver counts the *)
(* files open on a spidev_data but not the list that holds it: what keeps  *)
(* the count, the binding and the list together is that an unbound device  *)
(* is never bound again before its spidev_data has left the list           *)
(* (Bindings), and that a spidev_data that is bound is listed              *)
(* (BoundIsListed).  Both are needed by induction: the first when remove   *)
(* gives up the binding, the second when the last file is closed.          *)
(*                                                                         *)
(* Then the cape: every step of CapeDevices is a step of SpiDev or leaves  *)
(* it alone, so what is proved of the driver holds of the whole.           *)
(*                                                                         *)
(* Then the flags of afe.c.  Only a few kinds of steps touch them; a       *)
(* program is described by the kinds it avoids (Avoids), not step by step, *)
(* and the one that installs the callbacks by the order of its hooks,      *)
(* reads and stores (Installs).                                            *)
(*                                                                         *)
(* Then what reaches the DAC or the sound card.  A program is described by *)
(* the word of its key steps (Shows), a communication by the word of what  *)
(* remains to do (Opening, Closing, Pausing, Booting): one thread opens it,*)
(* one closes it, the user's or the timer's, and outside it nothing of it  *)
(* is left but the timers (Order).  So the thread that sends has steps     *)
(* only while the device is open and in DAC mode, and what it has to send  *)
(* goes on from what was received (InTransit).                             *)
(*                                                                         *)
(* Last how the program ends when it fails (KnownEnds).  Until a node is   *)
(* closed between the two halves of the removal of its device nothing of   *)
(* it is used after it was freed (Uses); the callbacks are taken away when *)
(* none is installed any more (HookInv, FreedInv); and the driver is given *)
(* its parameters while the file of the cape is open (DriverInv).  The     *)
(* lock of the LEDs is held by the thread that is inside it (Locks), and   *)
(* until a toggle is late none is inside when it is created or destroyed   *)
(* (LockInv, EdgeInv).                                                     *)
(***************************************************************************)
EXTENDS CapeDevices, FiniteSetTheorems, TLAPS

(***************************************************************************)
(*                            The SPI driver                               *)
(***************************************************************************)
SpidevNext ==
  \/ \E d \in SpiDevices : Probe(d) \/ RemoveDetach(d) \/ RemoveUnlink(d)
  \/ \E p \in Openers :
       \/ \E i \in Listed : OpenNode(p, i)
       \/ CloseNode(p) \/ BeginIoctl(p) \/ BeginReadWrite(p) \/ EndCall(p)

SpidevSpec == SpidevInit /\ [][SpidevNext]_spidevVars

Data == [mem : {"live", "freed"}, spi : SpiDevices \cup {"none"}, listed : BOOLEAN,
         minor : Int, users : Nat, buffer : BOOLEAN]

Types ==
  /\ spidev \in Seq(Data) /\ fault \in BOOLEAN
  /\ drvdata \in [SpiDevices -> 0..Len(spidev)]
  /\ removing \in [SpiDevices -> 0..Len(spidev)]
  /\ filp \in [Openers -> 0..Len(spidev)]

Ids == 1..Len(spidev)
Holders(i) == {p \in Openers : filp[p] = i}
Unlinked(i) == \E d \in SpiDevices : removing[d] = i

\* users is the number of the files open.
Counts == \A i \in Ids : spidev[i].users = Cardinality(Holders(i))

\* The buffer and the data themselves last as long as they have to.
Buffers == \A i \in Ids : spidev[i].mem = "live" => (spidev[i].buffer <=> spidev[i].users > 0)
Kept == \A i \in Ids : spidev[i].users > 0 \/ spidev[i].spi # "none" => spidev[i].mem = "live"
Freed ==
  \A i \in Ids : spidev[i].mem = "live" => spidev[i].users > 0 \/ spidev[i].listed \/ Unlinked(i)

Bindings ==
  \A d \in SpiDevices :
    /\ drvdata[d] # 0 => spidev[drvdata[d]].spi = d /\ removing[d] = 0
    /\ removing[d] # 0 => spidev[removing[d]].spi = "none"
BoundIsListed == \A i \in Ids : spidev[i].spi # "none" => spidev[i].listed
Minors ==
  \A i, j \in Ids : spidev[i].listed /\ spidev[j].listed /\ spidev[i].minor = spidev[j].minor => i = j

Rest == Counts /\ Buffers /\ Kept /\ Freed /\ Bindings /\ BoundIsListed /\ Minors
Inv == Types /\ (~ fault => Rest)

-----------------------------------------------------------------------------
(* Replacing the data of one binding. *)
LEMMA Update ==
  ASSUME NEW s \in Seq(Data), NEW n \in 1..Len(s), NEW r \in Data, NEW t, t = [s EXCEPT ![n] = r]
  PROVE  /\ t \in Seq(Data) /\ Len(t) = Len(s)
         /\ t[n] = r /\ \A i \in 1..Len(s) : i # n => t[i] = s[i]
OBVIOUS

LEMMA UsersAreNat == Types => \A i \in Ids : spidev[i].users \in Nat
<1> SUFFICES ASSUME Types, NEW i \in Ids PROVE spidev[i].users \in Nat  OBVIOUS
<1>1. spidev[i] \in Data  BY DEF Types, Ids
<1> QED  BY <1>1 DEF Data

(* The holders are finitely many, since the openers are. *)
LEMMA FiniteHolders ==
  ASSUME NEW i PROVE IsFiniteSet(Holders(i)) /\ Cardinality(Holders(i)) \in Nat
<1>1. Holders(i) \subseteq Openers  BY DEF Holders
<1>2. IsFiniteSet(Openers)  BY SpiDevAssumption DEF SpiDevAssumption
<1> QED  BY <1>1, <1>2, FS_Subset, FS_CardinalityType

(* A program that opens a node is one holder more of it, and of no other. *)
LEMMA OneMore ==
  ASSUME filp \in [Openers -> Nat], NEW p \in Openers, filp[p] = 0,
         NEW i \in Nat \ {0}, filp' = [filp EXCEPT ![p] = i], NEW j \in Nat \ {0}
  PROVE  Cardinality(Holders(j)') = IF j = i THEN Cardinality(Holders(j)) + 1
                                    ELSE Cardinality(Holders(j))
<1>1. CASE j = i
  <2>1. Holders(j)' = Holders(j) \cup {p}  BY <1>1 DEF Holders
  <2>2. p \notin Holders(j)  BY DEF Holders
  <2> QED  BY <1>1, <2>1, <2>2, FiniteHolders, FS_AddElement
<1>2. CASE j # i
  <2>1. Holders(j)' = Holders(j)  BY <1>2 DEF Holders
  <2> QED  BY <1>2, <2>1
<1> QED  BY <1>1, <1>2

(* A program that closes its file is one holder less of it, and of no other. *)
LEMMA OneLess ==
  ASSUME filp \in [Openers -> Nat], NEW p \in Openers, filp[p] # 0,
         filp' = [filp EXCEPT ![p] = 0], NEW j \in Nat \ {0}
  PROVE  Cardinality(Holders(j)') = IF j = filp[p] THEN Cardinality(Holders(j)) - 1
                                    ELSE Cardinality(Holders(j))
<1>1. CASE j = filp[p]
  <2>1. Holders(j)' = Holders(j) \ {p}  BY <1>1 DEF Holders
  <2>2. p \in Holders(j)  BY <1>1 DEF Holders
  <2> QED  BY <1>1, <2>1, <2>2, FiniteHolders, FS_RemoveElement
<1>2. CASE j # filp[p]
  <2>1. Holders(j)' = Holders(j)  BY <1>2 DEF Holders
  <2> QED  BY <1>2, <2>1
<1> QED  BY <1>1, <1>2

(* Nobody holds what has just been allocated. *)
LEMMA NoHolder ==
  ASSUME filp \in [Openers -> 0..Len(spidev)], Len(spidev) \in Nat
  PROVE  Cardinality(Holders(Len(spidev) + 1)) = 0
<1>1. Holders(Len(spidev) + 1) = {}  BY DEF Holders
<1> QED  BY <1>1, FS_EmptySet

-----------------------------------------------------------------------------
LEMMA InvInit == SpidevInit => Inv
<1> SUFFICES ASSUME SpidevInit PROVE Inv  OBVIOUS
<1> USE DEF SpidevInit
<1>0. fault \in BOOLEAN /\ ~ fault  BY Zenon
<1>1. Types  BY <1>0 DEF Types
<1>2. Ids = {}  BY DEF Ids
<1>3. Rest  BY <1>2 DEF Rest, Counts, Buffers, Kept, Freed, Bindings, BoundIsListed, Minors
<1> QED  BY <1>1, <1>3 DEF Inv

(* A step that only looks at the data, and may set fault, keeps them so. *)
LEMMA LooksOnly ==
  ASSUME Inv, ~ fault, UNCHANGED <<spidev, drvdata, removing, filp>>, fault' \in BOOLEAN
  PROVE  Inv'
<1>1. Types'  BY DEF Inv, Types
<1>2. Rest'  BY DEF Inv, Rest, Counts, Buffers, Kept, Freed, Bindings, BoundIsListed, Minors,
                  Ids, Holders, Unlinked
<1> QED  BY <1>1, <1>2 DEF Inv

LEMMA ProbeKeeps == ASSUME Inv, NEW d \in SpiDevices, Probe(d) PROVE Inv'
<1> PICK minor \in 0..NSpiMinors - 1 :
      /\ minor \notin MinorsInUse
      /\ spidev' = Append(spidev, [mem |-> "live", spi |-> d, listed |-> TRUE, minor |-> minor,
                                   users |-> 0, buffer |-> FALSE])
    BY DEF Probe
<1> DEFINE n == Len(spidev) + 1
           r == [mem |-> "live", spi |-> d, listed |-> TRUE, minor |-> minor,
                 users |-> 0, buffer |-> FALSE]
<1>0. Types /\ Rest /\ ~ fault /\ drvdata[d] = 0 /\ removing[d] = 0
  BY DEF Inv, Probe
<1>a. r \in Data
  BY SpiDevAssumption DEF Data, SpiDevAssumption
<1>b. /\ r.mem = "live" /\ r.spi = d /\ r.listed /\ r.minor = minor
      /\ r.users = 0 /\ ~ r.buffer /\ r.spi # "none"
  BY SpiDevAssumption DEF SpiDevAssumption
<1>c. spidev' = Append(spidev, r) /\ spidev \in Seq(Data) /\ Len(spidev) \in Nat
  BY <1>0 DEF Types
<1> HIDE DEF r
<1>d. /\ spidev' \in Seq(Data) /\ Len(spidev') = n /\ spidev'[n] = r
      /\ \A i \in 1..Len(spidev) : spidev'[i] = spidev[i]
  BY <1>a, <1>c
<1>1. /\ drvdata' = [drvdata EXCEPT ![d] = n]
      /\ UNCHANGED <<removing, filp, fault>>
      /\ \A i \in Ids : spidev'[i] = spidev[i]
      /\ Ids' = Ids \cup {n} /\ n \notin Ids /\ n # 0
  BY <1>c, <1>d DEF Probe, Ids
<1>2. Types'  BY <1>0, <1>1, <1>c, <1>d DEF Types
<1> HIDE DEF n
<1>3. Counts'
  <2>1. \A i : Holders(i)' = Holders(i)  BY <1>1 DEF Holders
  <2>2. Cardinality(Holders(n)) = 0  BY <1>0, <1>c, NoHolder DEF Types, n
  <2> QED  BY <1>0, <1>1, <1>b, <1>d, <2>1, <2>2, ZenonT(40) DEF Rest, Counts
<1>4. Buffers' /\ Kept'
  <2>1. spidev'[n].buffer <=> spidev'[n].users > 0
    <3>1. ~ spidev'[n].buffer  BY <1>b, <1>d
    <3>2. ~ (spidev'[n].users > 0)  BY <1>b, <1>d
    <3> QED  BY <3>1, <3>2
  <2>2. Buffers'  BY <1>0, <1>1, <2>1 DEF Rest, Buffers
  <2>3. Kept'  BY <1>0, <1>1, <1>b, <1>d, ZenonT(40) DEF Rest, Kept
  <2> QED  BY <2>2, <2>3
<1>5. Freed'
  <2>1. \A i \in Ids : Unlinked(i) => Unlinked(i)'  BY <1>1 DEF Unlinked
  <2> QED  BY <1>0, <1>1, <1>b, <1>d, <2>1, ZenonT(40) DEF Rest, Freed
<1>6. Bindings'
  <2>1. \A e \in SpiDevices : (drvdata[e] # 0 => drvdata[e] \in Ids)
                              /\ (removing[e] # 0 => removing[e] \in Ids)
    BY <1>0 DEF Types, Ids
  <2> QED  BY <1>0, <1>1, <1>b, <1>d, <2>1 DEF Rest, Bindings, Types
<1>7. BoundIsListed'  BY <1>0, <1>1, <1>b, <1>d, ZenonT(40) DEF Rest, BoundIsListed
<1>8. Minors'
  <2>1. \A i \in Ids : spidev[i].listed => spidev[i].minor # minor
    BY <1>0 DEF MinorsInUse, Listed, Ids, Types
  <2>2. \A i, j \in Ids : /\ spidev'[i].listed /\ spidev'[j].listed
                           /\ spidev'[i].minor = spidev'[j].minor => i = j
    BY <1>0, <1>1 DEF Rest, Minors
  <2>3. \A i \in Ids : spidev'[i].listed => spidev'[i].minor # spidev'[n].minor
    BY <1>1, <1>b, <1>d, <2>1, ZenonT(40)
  <2>4. ASSUME NEW i \in Ids', NEW j \in Ids', spidev'[i].listed, spidev'[j].listed,
               spidev'[i].minor = spidev'[j].minor
        PROVE  i = j
    <3>1. i \in Ids \/ i = n  BY <1>1
    <3>2. j \in Ids \/ j = n  BY <1>1
    <3> QED  BY <2>2, <2>3, <2>4, <3>1, <3>2
  <2> QED  BY <2>4 DEF Minors
<1> QED  BY <1>2, <1>3, <1>4, <1>5, <1>6, <1>7, <1>8 DEF Inv, Rest

LEMMA DetachKeeps == ASSUME Inv, NEW d \in SpiDevices, RemoveDetach(d) PROVE Inv'
<1> DEFINE n == drvdata[d]
<1>0. Types /\ Rest /\ ~ fault /\ n \in Ids /\ spidev[n].spi = d /\ removing[d] = 0
  BY DEF Inv, RemoveDetach, Rest, Bindings, Types, Ids
<1>1. /\ spidev' = [spidev EXCEPT ![n].spi = "none"]
      /\ removing' = [removing EXCEPT ![d] = n] /\ drvdata' = [drvdata EXCEPT ![d] = 0]
      /\ UNCHANGED <<filp, fault>>
  BY DEF RemoveDetach
<1>2. /\ Ids' = Ids /\ Len(spidev') = Len(spidev) /\ spidev' \in Seq(Data)
      /\ \A i \in Ids \ {n} : spidev'[i] = spidev[i]
      /\ spidev'[n].mem = spidev[n].mem
      /\ spidev'[n].spi = "none"
      /\ spidev'[n].listed = spidev[n].listed
      /\ spidev'[n].minor = spidev[n].minor
      /\ spidev'[n].users = spidev[n].users
      /\ spidev'[n].buffer = spidev[n].buffer
  <2> DEFINE r == [spidev[n] EXCEPT !.spi = "none"]
  <2>1. spidev[n] \in Data /\ spidev \in Seq(Data) /\ n \in 1..Len(spidev)
    BY <1>0 DEF Types, Ids
  <2>2. r \in Data  BY <2>1 DEF Data
  <2>3. spidev' = [spidev EXCEPT ![n] = r]  BY <1>1, <2>1
  <2>4. /\ r.mem = spidev[n].mem
        /\ r.spi = "none"
        /\ r.listed = spidev[n].listed
        /\ r.minor = spidev[n].minor
        /\ r.users = spidev[n].users
        /\ r.buffer = spidev[n].buffer
    BY <2>1 DEF Data
  <2> HIDE DEF r
  <2>5. /\ spidev' \in Seq(Data) /\ Len(spidev') = Len(spidev) /\ spidev'[n] = r
        /\ \A i \in 1..Len(spidev) : i # n => spidev'[i] = spidev[i]
    BY <2>1, <2>2, <2>3, Update
  <2> QED  BY <2>4, <2>5 DEF Ids
<1>t. \A i \in Ids : spidev[i].users \in Nat
  BY <1>0, UsersAreNat
<1>3. Types'  BY <1>0, <1>1, <1>2 DEF Types, Ids
<1>4. Counts'  BY <1>0, <1>t, <1>1, <1>2 DEF Rest, Counts, Holders
<1>5. Buffers' /\ Kept'  BY <1>0, <1>t, <1>2 DEF Rest, Buffers, Kept
<1>6. Freed'
  <2>1. \A i \in Ids : Unlinked(i) => Unlinked(i)'
    BY <1>0, <1>1 DEF Unlinked, Types, Ids
  <2> QED  BY <1>0, <1>t, <1>2, <2>1 DEF Rest, Freed
<1>7. Bindings'
  <2> SUFFICES ASSUME NEW e \in SpiDevices
               PROVE  /\ drvdata'[e] # 0 => spidev'[drvdata'[e]].spi = e /\ removing'[e] = 0
                      /\ removing'[e] # 0 => spidev'[removing'[e]].spi = "none"
    BY DEF Bindings
  <2>1. /\ drvdata[e] # 0 => drvdata[e] \in Ids
        /\ removing[e] # 0 => removing[e] \in Ids
    BY <1>0 DEF Types, Ids
  <2>2. CASE e = d  BY <1>0, <1>1, <1>2, <2>2 DEF Types, Data
  <2>3. CASE e # d
    <3>1. drvdata'[e] = drvdata[e] /\ removing'[e] = removing[e]
      BY <1>0, <1>1, <2>3 DEF Types
    <3> QED  BY <1>0, <1>t, <1>2, <2>1, <2>3, <3>1 DEF Rest, Bindings
  <2> QED  BY <2>2, <2>3
<1>8. BoundIsListed' /\ Minors'  BY <1>0, <1>t, <1>2 DEF Rest, BoundIsListed, Minors
<1> QED  BY <1>3, <1>4, <1>5, <1>6, <1>7, <1>8 DEF Inv, Rest

LEMMA UnlinkKeeps == ASSUME Inv, NEW d \in SpiDevices, RemoveUnlink(d) PROVE Inv'
<1> DEFINE n == removing[d]
<1>0. Types /\ Rest /\ ~ fault /\ n \in Ids /\ spidev[n].spi = "none"
  BY DEF Inv, RemoveUnlink, Rest, Bindings, Types, Ids
<1>1. /\ spidev' = [spidev EXCEPT ![n].listed = FALSE,
                                  ![n].mem = IF spidev[n].users = 0 THEN "freed" ELSE @]
      /\ removing' = [removing EXCEPT ![d] = 0]
      /\ fault' = (spidev[n].mem = "freed") /\ UNCHANGED <<drvdata, filp>>
  BY DEF RemoveUnlink
<1>2. /\ Ids' = Ids /\ Len(spidev') = Len(spidev) /\ spidev' \in Seq(Data)
      /\ \A i \in Ids \ {n} : spidev'[i] = spidev[i]
      /\ spidev'[n].mem = IF spidev[n].users = 0 THEN "freed" ELSE spidev[n].mem
      /\ spidev'[n].spi = spidev[n].spi
      /\ spidev'[n].listed = FALSE
      /\ spidev'[n].minor = spidev[n].minor
      /\ spidev'[n].users = spidev[n].users
      /\ spidev'[n].buffer = spidev[n].buffer
  <2> DEFINE r == [spidev[n] EXCEPT !.listed = FALSE,
                               !.mem = IF spidev[n].users = 0 THEN "freed" ELSE @]
  <2>1. spidev[n] \in Data /\ spidev \in Seq(Data) /\ n \in 1..Len(spidev)
    BY <1>0 DEF Types, Ids
  <2>2. r \in Data  BY <2>1 DEF Data
  <2>3. spidev' = [spidev EXCEPT ![n] = r]  BY <1>1, <2>1
  <2>4. /\ r.mem = IF spidev[n].users = 0 THEN "freed" ELSE spidev[n].mem
        /\ r.spi = spidev[n].spi
        /\ r.listed = FALSE
        /\ r.minor = spidev[n].minor
        /\ r.users = spidev[n].users
        /\ r.buffer = spidev[n].buffer
    BY <2>1 DEF Data
  <2> HIDE DEF r
  <2>5. /\ spidev' \in Seq(Data) /\ Len(spidev') = Len(spidev) /\ spidev'[n] = r
        /\ \A i \in 1..Len(spidev) : i # n => spidev'[i] = spidev[i]
    BY <2>1, <2>2, <2>3, Update
  <2> QED  BY <2>4, <2>5 DEF Ids
<1>t. \A i \in Ids : spidev[i].users \in Nat
  BY <1>0, UsersAreNat
<1>3. Types'  BY <1>0, <1>1, <1>2 DEF Types
<1>4. Counts'  BY <1>0, <1>t, <1>1, <1>2, ZenonT(40) DEF Rest, Counts, Holders
<1>5. Buffers' /\ Kept'  BY <1>0, <1>t, <1>2 DEF Rest, Buffers, Kept
<1>6. Freed'
  <2>1. \A i \in Ids \ {n} : Unlinked(i) => Unlinked(i)'
    BY <1>0, <1>1 DEF Unlinked, Types, Ids
  <2> QED  BY <1>0, <1>t, <1>2, <2>1 DEF Rest, Freed
<1>7. Bindings'
  <2> SUFFICES ASSUME NEW e \in SpiDevices
               PROVE  /\ drvdata'[e] # 0 => spidev'[drvdata'[e]].spi = e /\ removing'[e] = 0
                      /\ removing'[e] # 0 => spidev'[removing'[e]].spi = "none"
    BY DEF Bindings
  <2>1. /\ drvdata[e] # 0 => drvdata[e] \in Ids
        /\ removing[e] # 0 => removing[e] \in Ids
        /\ drvdata'[e] = drvdata[e]
        /\ removing'[e] = removing[e] \/ removing'[e] = 0
    BY <1>0, <1>1 DEF Types, Ids
  <2>2. \A i \in Ids : spidev'[i].spi = spidev[i].spi  BY <1>0, <1>2
  <2> QED  BY <1>0, <1>t, <2>1, <2>2 DEF Rest, Bindings
<1>8. BoundIsListed' /\ Minors'  BY <1>0, <1>t, <1>2 DEF Rest, BoundIsListed, Minors
<1> QED  BY <1>3, <1>4, <1>5, <1>6, <1>7, <1>8 DEF Inv, Rest

LEMMA OpenKeeps == ASSUME Inv, NEW p \in Openers, NEW n \in Listed, OpenNode(p, n) PROVE Inv'
<1>0. Types /\ Rest /\ ~ fault /\ n \in Ids /\ spidev[n].listed /\ filp[p] = 0
  BY DEF Inv, OpenNode, Listed, Types, Ids
<1>1. /\ spidev' = [spidev EXCEPT ![n].users = @ + 1, ![n].buffer = TRUE]
      /\ filp' = [filp EXCEPT ![p] = n]
      /\ fault' = (\E j \in Listed : spidev[j].mem = "freed") /\ UNCHANGED <<drvdata, removing>>
  BY DEF OpenNode, Opened
<1>2. /\ Ids' = Ids /\ Len(spidev') = Len(spidev) /\ spidev' \in Seq(Data)
      /\ \A i \in Ids \ {n} : spidev'[i] = spidev[i]
      /\ spidev'[n].mem = spidev[n].mem
      /\ spidev'[n].spi = spidev[n].spi
      /\ spidev'[n].listed = spidev[n].listed
      /\ spidev'[n].minor = spidev[n].minor
      /\ spidev'[n].users = spidev[n].users + 1
      /\ spidev'[n].buffer = TRUE
  <2> DEFINE r == [spidev[n] EXCEPT !.users = @ + 1, !.buffer = TRUE]
  <2>1. spidev[n] \in Data /\ spidev \in Seq(Data) /\ n \in 1..Len(spidev)
    BY <1>0 DEF Types, Ids
  <2>2. r \in Data
    <3>1. spidev[n].users + 1 \in Nat  BY <1>0, UsersAreNat
    <3> QED  BY <2>1, <3>1 DEF Data
  <2>3. spidev' = [spidev EXCEPT ![n] = r]  BY <1>1, <2>1
  <2>4. /\ r.mem = spidev[n].mem
        /\ r.spi = spidev[n].spi
        /\ r.listed = spidev[n].listed
        /\ r.minor = spidev[n].minor
        /\ r.users = spidev[n].users + 1
        /\ r.buffer = TRUE
    BY <2>1 DEF Data
  <2> HIDE DEF r
  <2>5. /\ spidev' \in Seq(Data) /\ Len(spidev') = Len(spidev) /\ spidev'[n] = r
        /\ \A i \in 1..Len(spidev) : i # n => spidev'[i] = spidev[i]
    BY <2>1, <2>2, <2>3, Update
  <2> QED  BY <2>4, <2>5 DEF Ids
<1>t. \A i \in Ids : spidev[i].users \in Nat
  BY <1>0, UsersAreNat
<1>3. Types'  BY <1>0, <1>1, <1>2 DEF Types, Ids
<1> SUFFICES ASSUME ~ fault' PROVE Rest'  BY <1>3 DEF Inv
<1>4. spidev[n].mem = "live"  BY <1>0, <1>1, <1>2 DEF Data
<1>5. Counts'
  <2>1. \A i \in Ids : Cardinality(Holders(i)') = IF i = n THEN Cardinality(Holders(i)) + 1
                                                  ELSE Cardinality(Holders(i))
    <3>1. filp \in [Openers -> Nat] /\ n \in Nat \ {0} /\ Ids \subseteq Nat \ {0}
      BY <1>0 DEF Types, Ids
    <3> QED  BY <1>0, <1>1, <3>1, OneMore
  <2> QED  BY <1>0, <1>t, <1>2, <2>1 DEF Rest, Counts
<1>6. Buffers' /\ Kept'
  <2>1. spidev'[n].users > 0 /\ spidev'[n].buffer = TRUE /\ spidev'[n].mem = "live"
    BY <1>0, <1>t, <1>2, <1>4
  <2> QED  BY <1>0, <1>2, <2>1 DEF Rest, Buffers, Kept
<1>7. Freed'  BY <1>0, <1>t, <1>1, <1>2, ZenonT(40) DEF Rest, Freed, Unlinked
<1>8. \A i \in Ids : /\ spidev'[i].spi = spidev[i].spi
                     /\ spidev'[i].listed = spidev[i].listed
                     /\ spidev'[i].minor = spidev[i].minor
  BY <1>0, <1>2
<1>9. Bindings'  BY <1>0, <1>1, <1>8 DEF Rest, Bindings, Types, Ids
<1>10. BoundIsListed' /\ Minors'  BY <1>0, <1>t, <1>2, <1>8 DEF Rest, BoundIsListed, Minors
<1> QED  BY <1>5, <1>6, <1>7, <1>9, <1>10 DEF Rest

LEMMA CloseKeeps == ASSUME Inv, NEW p \in Openers, CloseNode(p) PROVE Inv'
<1> DEFINE n == filp[p]
<1>0. Types /\ Rest /\ ~ fault /\ n \in Ids
  BY DEF Inv, CloseNode, Types, Ids
<1>1. /\ spidev' = [spidev EXCEPT ![n].users = @ - 1, ![n].buffer = spidev[n].users > 1,
                                  ![n].mem = IF spidev[n].users = 1 /\ spidev[n].spi = "none"
                                             THEN "freed" ELSE @]
      /\ filp' = [filp EXCEPT ![p] = 0] /\ UNCHANGED <<drvdata, removing, fault>>
  BY DEF CloseNode, Closed
<1>2. spidev[n] \in Data /\ spidev[n].users > 0
  <2>1. p \in Holders(n)  BY DEF Holders
  <2>2. Cardinality(Holders(n)) # 0  BY <2>1, FiniteHolders, FS_EmptySet
  <2> QED  BY <1>0, <2>2, FiniteHolders DEF Rest, Counts, Types, Ids
<1>3. /\ Ids' = Ids /\ Len(spidev') = Len(spidev) /\ spidev' \in Seq(Data)
      /\ \A i \in Ids \ {n} : spidev'[i] = spidev[i]
      /\ spidev'[n].mem = IF spidev[n].users = 1 /\ spidev[n].spi = "none"
                           THEN "freed" ELSE spidev[n].mem
      /\ spidev'[n].spi = spidev[n].spi
      /\ spidev'[n].listed = spidev[n].listed
      /\ spidev'[n].minor = spidev[n].minor
      /\ spidev'[n].users = spidev[n].users - 1
      /\ spidev'[n].buffer = (spidev[n].users > 1)
  <2> DEFINE r == [spidev[n] EXCEPT !.users = @ - 1, !.buffer = spidev[n].users > 1,
                               !.mem = IF spidev[n].users = 1 /\ spidev[n].spi = "none"
                                       THEN "freed" ELSE @]
  <2>1. spidev[n] \in Data /\ spidev \in Seq(Data) /\ n \in 1..Len(spidev)
    BY <1>0 DEF Types, Ids
  <2>2. r \in Data
    <3>1. spidev[n].users - 1 \in Nat  BY <1>0, <1>2, UsersAreNat
    <3>2. CASE spidev[n].users > 1  BY <2>1, <3>1, <3>2 DEF Data
    <3>3. CASE ~ (spidev[n].users > 1)
      <4>1. (spidev[n].users > 1) = FALSE  BY <3>3
      <4>2. CASE spidev[n].users = 1 /\ spidev[n].spi = "none"
        BY <2>1, <3>1, <4>1, <4>2 DEF Data
      <4>3. CASE ~ (spidev[n].users = 1 /\ spidev[n].spi = "none")
        BY <2>1, <3>1, <4>1, <4>3 DEF Data
      <4> QED  BY <4>2, <4>3
    <3> QED  BY <3>2, <3>3
  <2>3. spidev' = [spidev EXCEPT ![n] = r]  BY <1>1, <2>1
  <2>4. /\ r.mem = IF spidev[n].users = 1 /\ spidev[n].spi = "none"
                           THEN "freed" ELSE spidev[n].mem
        /\ r.spi = spidev[n].spi
        /\ r.listed = spidev[n].listed
        /\ r.minor = spidev[n].minor
        /\ r.users = spidev[n].users - 1
        /\ r.buffer = (spidev[n].users > 1)
    BY <2>1 DEF Data
  <2> HIDE DEF r
  <2>5. /\ spidev' \in Seq(Data) /\ Len(spidev') = Len(spidev) /\ spidev'[n] = r
        /\ \A i \in 1..Len(spidev) : i # n => spidev'[i] = spidev[i]
    BY <2>1, <2>2, <2>3, Update
  <2> QED  BY <2>4, <2>5 DEF Ids
<1>t. \A i \in Ids : spidev[i].users \in Nat
  BY <1>0, UsersAreNat
<1>4. Types'  BY <1>0, <1>1, <1>3 DEF Types
<1>5. Counts'
  <2>1. \A i \in Ids : Cardinality(Holders(i)') = IF i = n THEN Cardinality(Holders(i)) - 1
                                                  ELSE Cardinality(Holders(i))
    <3>1. filp \in [Openers -> Nat] /\ n # 0 /\ Ids \subseteq Nat \ {0}
      BY <1>0 DEF Types, Ids
    <3> QED  BY <1>0, <1>1, <3>1, OneLess
  <2> QED  BY <1>0, <1>t, <1>2, <1>3, <2>1 DEF Rest, Counts
<1>6. Buffers' /\ Kept'
  <2>1. spidev'[n].buffer <=> spidev'[n].users > 0
    <3>1. spidev'[n].buffer = (spidev[n].users > 1)  BY Zenon, <1>3
    <3>2. spidev'[n].users > 0 <=> spidev[n].users > 1  BY <1>0, <1>t, <1>3
    <3> QED  BY <3>1, <3>2, Zenon
  <2>2. Buffers'  BY <1>0, <1>2, <1>3, <2>1 DEF Rest, Buffers, Kept
  <2>3. Kept'  BY <1>0, <1>t, <1>2, <1>3 DEF Rest, Kept
  <2> QED  BY <2>2, <2>3
<1>7. Freed'
  <2>1. \A i \in Ids : Unlinked(i)' = Unlinked(i)  BY <1>1 DEF Unlinked
  <2>2. spidev'[n].mem = "live" => spidev'[n].users > 0 \/ spidev'[n].listed
    BY <1>0, <1>t, <1>2, <1>3 DEF Rest, BoundIsListed
  <2> QED  BY <1>0, <1>3, <2>1, <2>2 DEF Rest, Freed
<1>8. \A i \in Ids : /\ spidev'[i].spi = spidev[i].spi
                     /\ spidev'[i].listed = spidev[i].listed
                     /\ spidev'[i].minor = spidev[i].minor
  BY <1>0, <1>3
<1>9. Bindings'  BY <1>0, <1>1, <1>8 DEF Rest, Bindings, Types, Ids
<1>10. BoundIsListed' /\ Minors'  BY <1>0, <1>t, <1>3, <1>8 DEF Rest, BoundIsListed, Minors
<1> QED  BY <1>4, <1>5, <1>6, <1>7, <1>9, <1>10 DEF Inv, Rest

LEMMA InvNext == Inv /\ [SpidevNext]_spidevVars => Inv'
<1> SUFFICES ASSUME Inv, [SpidevNext]_spidevVars PROVE Inv'  OBVIOUS
<1>1. ASSUME NEW d \in SpiDevices, Probe(d) PROVE Inv'  BY <1>1, ProbeKeeps
<1>2. ASSUME NEW d \in SpiDevices, RemoveDetach(d) PROVE Inv'  BY <1>2, DetachKeeps
<1>3. ASSUME NEW d \in SpiDevices, RemoveUnlink(d) PROVE Inv'  BY <1>3, UnlinkKeeps
<1>4. ASSUME NEW p \in Openers, NEW i \in Listed, OpenNode(p, i) PROVE Inv'
  BY <1>4, OpenKeeps
<1>5. ASSUME NEW p \in Openers, CloseNode(p) PROVE Inv'  BY <1>5, CloseKeeps
<1>6. ASSUME NEW p \in Openers, BeginIoctl(p) PROVE Inv'
  BY <1>6, LooksOnly DEF BeginIoctl
<1>7. ASSUME NEW p \in Openers, BeginReadWrite(p) PROVE Inv'
  BY <1>7, LooksOnly DEF BeginReadWrite, Inv, Types
<1>8. ASSUME NEW p \in Openers, EndCall(p) PROVE Inv'
  BY <1>8, LooksOnly DEF EndCall
<1>9. ASSUME UNCHANGED spidevVars PROVE Inv'
  <2>1. UNCHANGED <<spidev, drvdata, removing, filp, fault>>  BY <1>9 DEF spidevVars
  <2>2. Types'  BY <2>1 DEF Inv, Types
  <2>3. CASE fault  BY <2>1, <2>2, <2>3 DEF Inv
  <2>4. CASE ~ fault  BY <2>1, <2>4, LooksOnly DEF Inv, Types
  <2> QED  BY <2>3, <2>4
<1> QED  BY <1>1, <1>2, <1>3, <1>4, <1>5, <1>6, <1>7, <1>8, <1>9 DEF SpidevNext

(* What the invariant says of the lifetimes. *)
LEMMA InvImplies == Inv => SpidevLifetimes
<1> SUFFICES ASSUME Inv, ~ fault PROVE SpidevLifetimes  BY DEF SpidevLifetimes
<1>1. Rest /\ DOMAIN spidev = Ids  BY DEF Inv, Types, Ids
<1>2. \A i, j \in Listed : spidev[i].minor = spidev[j].minor => i = j
  BY <1>1 DEF Rest, Minors, Listed
<1>3. ASSUME NEW i \in Ids
      PROVE  /\ spidev[i].users = Cardinality({p \in Openers : filp[p] = i})
             /\ spidev[i].mem = "live" => spidev[i].buffer = (spidev[i].users > 0)
             /\ spidev[i].mem = "live" => \/ spidev[i].users > 0 \/ spidev[i].listed
                                          \/ \E d \in SpiDevices : removing[d] = i
             /\ spidev[i].users > 0 \/ spidev[i].spi # "none" => spidev[i].mem = "live"
  <2>1. spidev[i].buffer \in BOOLEAN
    <3>1. spidev[i] \in Data  BY DEF Inv, Types, Ids
    <3> QED  BY <3>1 DEF Data
  <2>2. spidev[i].mem = "live" => spidev[i].buffer = (spidev[i].users > 0)
    BY <1>1, <2>1 DEF Rest, Buffers
  <2> QED  BY <1>1, <2>2 DEF Rest, Counts, Holders, Freed, Unlinked, Kept
<1> QED  BY <1>1, <1>2, <1>3 DEF SpidevLifetimes

(* Whatever the programs and the bus do, and in any order of the steps of  *)
(* probe, remove, open, release and the calls on a file, the lifetimes are *)
(* right until memory already freed is used.                               *)
THEOREM DriverLifetimes == SpidevSpec => []SpidevLifetimes
<1>1. SpidevSpec => []Inv  BY InvInit, InvNext, PTL DEF SpidevSpec
<1> QED  BY <1>1, InvImplies, PTL

(***************************************************************************)
(*                         The driver under the cape                       *)
(***************************************************************************)
(* A step of the functions of the cape leaves the driver alone, except     *)
(* the close of its file.                                                  *)
LEMMA StepsOfTheCape ==
  ASSUME NEW t \in Threads, StepOf(t) PROVE [SpidevNext]_spidevVars
<1>1. CASE LoadPin(t)  BY <1>1 DEF LoadPin
<1>2. CASE StorePin(t)  BY <1>2 DEF StorePin
<1>3. CASE Lock(t)  BY <1>3 DEF Lock
<1>4. CASE UnlockLeds(t)  BY <1>4 DEF UnlockLeds
<1>5. CASE InDacMode(t)  BY <1>5 DEF InDacMode
<1>6. CASE WriteRegister(t)  BY <1>6 DEF WriteRegister
<1>7. CASE AskRegister(t)  BY <1>7 DEF AskRegister
<1>8. CASE AnswerRegister(t)  BY <1>8 DEF AnswerRegister
<1>9. CASE ExpectRegister(t)  BY <1>9 DEF ExpectRegister
<1>10. CASE RememberField(t)  BY <1>10 DEF RememberField
<1>11. CASE DacMode(t)  BY <1>11 DEF DacMode
<1>12. CASE SetDriver(t)  BY <1>12 DEF SetDriver
<1>13. CASE TransferDac(t)  BY <1>13 DEF TransferDac
<1>14. CASE Hook(t)  BY <1>14 DEF Hook
<1>15. CASE GetPin(t)  BY <1>15 DEF GetPin
<1>16. CASE PutFlag(t)  BY <1>16 DEF PutFlag
<1>17. CASE Unhook(t)  BY <1>17 DEF Unhook
<1>18. CASE WriteBuffer(t)  BY <1>18 DEF WriteBuffer
<1>19. CASE ConfigureSpi(t)  BY <1>19 DEF ConfigureSpi, TxFrame
<1>20. CASE StartTx(t)  BY <1>20 DEF StartTx, TxFrame
<1>21. CASE StartRx(t)  BY <1>21 DEF StartRx, TxFrame
<1>22. CASE StopThread(t)  BY <1>22 DEF StopThread, TxFrame
<1>23. CASE Communication(t)  BY <1>23 DEF Communication, TxFrame
<1>24. CASE Supervisor(t)  BY <1>24 DEF Supervisor
<1>25. CASE CloseSpi(t)
  <2>1. CASE filp["cape"] = 0  BY <1>25, <2>1 DEF CloseSpi
  <2>2. CASE filp["cape"] # 0
    <3>1. CloseNode("cape")  BY <1>25, <2>2 DEF CloseSpi
    <3> QED  BY <3>1, CapeAssumption DEF CapeAssumption, SpidevNext
  <2> QED  BY <2>1, <2>2
<1> QED  BY <1>1, <1>2, <1>3, <1>4, <1>5, <1>6, <1>7, <1>8, <1>9, <1>10, <1>11, <1>12, <1>13,
         <1>14, <1>15, <1>16, <1>17, <1>18, <1>19, <1>20, <1>21, <1>22, <1>23, <1>24, <1>25 DEF StepOf

(* So does the user's thread, except where it opens the node. *)
LEMMA StepsOfTheUser == ASSUME Main PROVE [SpidevNext]_spidevVars
<1>1. CASE Create  BY <1>1 DEF Create
<1>2. CASE CreateFails  BY <1>2 DEF CreateFails
<1>3. CASE SpiCreateFails  BY <1>3 DEF SpiCreateFails
<1>4. CASE AfeCreate  BY <1>4 DEF AfeCreate
<1>5. CASE AfeCreated  BY <1>5 DEF AfeCreated
<1>6. CASE Initialize  BY <1>6 DEF Initialize
<1>7. CASE MenuActivate  BY <1>7 DEF MenuActivate
<1>8. CASE MenuDeactivate  BY <1>8 DEF MenuDeactivate
<1>9. CASE Deactivated  BY <1>9 DEF Deactivated
<1>10. CASE MenuOverloads  BY <1>10 DEF MenuOverloads
<1>11. CASE MenuSettings  BY <1>11 DEF MenuSettings
<1>12. CASE MenuExit  BY <1>12 DEF MenuExit
<1>13. CASE SpiCreate
  <2>1. CASE Emulated  BY <1>13, <2>1 DEF SpiCreate
  <2>2. CASE ~ Emulated
    <3>1. \E i \in Listed : OpenNode("cape", i)  BY <1>13, <2>2 DEF SpiCreate
    <3> QED  BY <3>1, CapeAssumption DEF CapeAssumption, SpidevNext
  <2> QED  BY <2>1, <2>2
<1> QED
  BY <1>1, <1>2, <1>3, <1>4, <1>5, <1>6, <1>7, <1>8, <1>9, <1>10, <1>11, <1>12, <1>13 DEF Main

(* The device is unbound and bound, and other programs use its node, as in SpiDev. *)
LEMMA StepsOfTheKernel == ASSUME Kernel PROVE [SpidevNext]_spidevVars
<1>1. CASE KernelEvent
  <2>1. \/ \E d \in SpiDevices : RemoveDetach(d)
        \/ \E p \in Others, i \in Listed : OpenNode(p, i)
    BY <1>1 DEF KernelEvent
  <2> QED  BY <2>1 DEF SpidevNext, Others
<1>2. CASE KernelGoesOn
  <2>1. \/ \E d \in SpiDevices : Probe(d) \/ RemoveUnlink(d)
        \/ \E p \in Others : BeginIoctl(p) \/ BeginReadWrite(p) \/ EndCall(p) \/ CloseNode(p)
    BY <1>2 DEF KernelGoesOn
  <2> QED  BY <2>1 DEF SpidevNext, Others
<1> QED  BY <1>1, <1>2 DEF Kernel

(* The callbacks of the pins leave the driver alone. *)
LEMMA StepsOfTheCallbacks == ASSUME Callback PROVE [SpidevNext]_spidevVars
<1>1. PICK f \in Flags, g \in Generations :
        \/ CallbackBegins(f, g) \/ CallbackOrphaned(f, g) \/ CallbackTests(f, g)
        \/ CallbackWakes(f, g) \/ CallbackReads(f, g) \/ CallbackStores(f, g)
  BY DEF Callback
<1>2. CallbackFrame
  BY <1>1 DEF CallbackBegins, CallbackOrphaned, CallbackTests, CallbackWakes, CallbackReads,
              CallbackStores
<1> QED  BY <1>2 DEF CallbackFrame

LEMMA NextIsSpidev == [Next]_vars => [SpidevNext]_spidevVars
<1> SUFFICES ASSUME [Next]_vars PROVE [SpidevNext]_spidevVars  OBVIOUS
<1>1. CASE UNCHANGED vars  BY <1>1 DEF vars
<1>2. CASE Main  BY <1>2, StepsOfTheUser
<1>3. CASE \E t \in Threads : StepOf(t)  BY <1>3, StepsOfTheCape
<1>4. CASE TxCycle \/ RxCycle  BY <1>4 DEF TxCycle, RxCycle
<1>5. CASE TimerStarts \/ TimerStops \/ TimerToggles
  BY <1>5 DEF TimerStarts, TimerStops, TimerToggles
<1>6. CASE Callback  BY <1>6, StepsOfTheCallbacks
<1>7. CASE \E f \in Flags : Edge(f)  BY <1>7 DEF Edge
<1>8. CASE Kernel  BY <1>8, StepsOfTheKernel
<1> QED  BY <1>1, <1>2, <1>3, <1>4, <1>5, <1>6, <1>7, <1>8 DEF Next

(* The cape drives the SPI device as any program may: in every run of      *)
(* plc-cape-lab, the device unbound or not, the data of spidev_plc.c live  *)
(* exactly as long as something refers to them, until freed memory is used.*)
THEOREM DeviceLifetimes == Spec => []SpidevLifetimes
<1>1. Init => SpidevInit  BY DEF Init
<1>2. Spec => SpidevSpec  BY <1>1, NextIsSpidev, PTL DEF Spec, SpidevSpec
<1> QED  BY <1>2, DriverLifetimes, PTL

(***************************************************************************)
(*                       The programs of the threads                       *)
(***************************************************************************)
(* A program without the steps of some kinds.                              *)
Avoids(p, ops) == \E S : p \in Seq(S) /\ \A s \in S : s.op \notin ops

(* Steps that are not those of the registers, the output pins and the LEDs *)
DacSteps == {"dacMode", "bits", "speed"}
Special == DacSteps \cup
  {"hook", "get", "put", "unhook", "startTx", "startRx", "writei", "transfer", "closeSpi",
   "configure", "requestStop", "joinTx", "joinRx", "commOn", "commOff", "supervisorOn",
   "supervisorOff", "ledsReady", "ledsGone"}

LEMMA AvoidsNone == ASSUME NEW A PROVE Avoids(<<>>, A)
<1> DEFINE S == {}
<1>1. <<>> \in Seq(S) /\ \A r \in S : r.op \notin A  OBVIOUS
<1> HIDE DEF S
<1> QED  BY <1>1 DEF Avoids

LEMMA AvoidsOne == ASSUME NEW A, NEW s, s.op \notin A PROVE Avoids(<<s>>, A)
<1> DEFINE S == {s}
<1>1. <<s>> \in Seq(S) /\ \A r \in S : r.op \notin A  OBVIOUS
<1> HIDE DEF S
<1> QED  BY <1>1 DEF Avoids

LEMMA AvoidsTwo ==
  ASSUME NEW A, NEW s, NEW t, s.op \notin A, t.op \notin A PROVE Avoids(<<s, t>>, A)
<1> DEFINE S == {s, t}
<1>1. <<s, t>> \in Seq(S) /\ \A r \in S : r.op \notin A  OBVIOUS
<1> HIDE DEF S
<1> QED  BY <1>1 DEF Avoids

LEMMA AvoidsThree ==
  ASSUME NEW A, NEW s, NEW t, NEW u, s.op \notin A, t.op \notin A, u.op \notin A
  PROVE  Avoids(<<s, t, u>>, A)
<1> DEFINE S == {s, t, u}
<1>1. <<s, t, u>> \in Seq(S) /\ \A r \in S : r.op \notin A  OBVIOUS
<1> HIDE DEF S
<1> QED  BY <1>1 DEF Avoids

LEMMA AvoidsJoined ==
  ASSUME NEW A, NEW p, NEW q, Avoids(p, A), Avoids(q, A) PROVE Avoids(p \o q, A)
<1>1. PICK S : p \in Seq(S) /\ \A s \in S : s.op \notin A  BY DEF Avoids
<1>2. PICK T : q \in Seq(T) /\ \A s \in T : s.op \notin A  BY DEF Avoids
<1>3. p \in Seq(S \cup T) /\ q \in Seq(S \cup T)  BY <1>1, <1>2
<1>4. p \o q \in Seq(S \cup T)  BY <1>3
<1>5. \A s \in S \cup T : s.op \notin A  BY <1>1, <1>2
<1> QED  BY <1>4, <1>5 DEF Avoids

LEMMA AvoidsRest ==
  ASSUME NEW A, NEW p, Avoids(p, A), p # <<>>
  PROVE  Avoids(Tail(p), A) /\ Head(p).op \notin A
<1>1. PICK S : p \in Seq(S) /\ \A s \in S : s.op \notin A  BY DEF Avoids
<1>2. Tail(p) \in Seq(S) /\ Head(p) \in S  BY <1>1
<1> QED  BY <1>1, <1>2 DEF Avoids

LEMMA AvoidsFewer ==
  ASSUME NEW A, NEW B, NEW p, Avoids(p, A), B \subseteq A PROVE Avoids(p, B)
  BY DEF Avoids

LEMMA PinsAreCore ==
  ASSUME NEW pin, NEW on
  PROVE  Avoids(PinOutSet(pin, on), Special) /\ Avoids(PinOutToggle(pin), Special)
  BY AvoidsTwo DEF PinOutSet, PinOutToggle, Special, DacSteps

LEMMA LedsAreCore ==
  ASSUME NEW v, NEW on
  PROVE  /\ Avoids(ToggleAppActivity, Special) /\ Avoids(SetAppActivity(v, on), Special)
         /\ Avoids(SetTxActivity(on), Special) /\ Avoids(SetRxActivity(on), Special)
<1>1. Avoids(Step("lock"), Special) /\ Avoids(Step("unlock"), Special)
  BY AvoidsOne DEF Step, Special, DacSteps
<1>2. ASSUME NEW c, Avoids(c, Special) PROVE Avoids(Locked(c), Special)
  BY <1>1, <1>2, AvoidsJoined DEF Locked
<1> QED
  BY <1>2, PinsAreCore DEF ToggleAppActivity, SetAppActivity, SetTxActivity, SetRxActivity

LEMMA CommandsAreCore ==
  ASSUME NEW r, NEW v, NEW m
  PROVE  /\ Avoids(WriteCommand(r, v), Special) /\ Avoids(ReadCommand(r), Special)
         /\ Avoids(WriteBack(r, m, v), Special) /\ Avoids(Expect(m, v), Special)
         /\ Avoids(Remember(r, v), Special)
<1>1. Avoids(WriteCommand(r, v), Special)  BY AvoidsOne DEF WriteCommand, Special, DacSteps
<1>2. Avoids(ReadCommand(r), Special)  BY AvoidsTwo DEF ReadCommand, Special, DacSteps
<1>3. Avoids(WriteBack(r, m, v), Special)  BY AvoidsOne DEF WriteBack, Special, DacSteps
<1>4. Avoids(Expect(m, v), Special)  BY AvoidsOne DEF Expect, Special, DacSteps
<1>5. Avoids(Remember(r, v), Special)  BY AvoidsOne DEF Remember, Special, DacSteps
<1> QED  BY <1>1, <1>2, <1>3, <1>4, <1>5

LEMMA CallsAreCore ==
  ASSUME NEW x, NEW s
  PROVE  /\ Avoids(SetDacMode(x), Special \ DacSteps) /\ Avoids(Configure(s), Special)
         /\ Avoids(ActivateBlocks(x), Special) /\ Avoids(ClearOverloads, Special)
         /\ Avoids(GetOverloads, Special) /\ Avoids(DisableAll, Special)
         /\ Avoids(SetCalibrationMode(x), Special) /\ Avoids(SetStandby(x), Special)
         /\ Avoids(AfeProbe, Special)
<1>1. Avoids(SetDacMode(x), Special \ DacSteps)
  <2>1. Avoids(<<[op |-> "dacMode", on |-> x], [op |-> "bits", on |-> x],
                 [op |-> "speed", on |-> x]>>, Special \ DacSteps)
    BY AvoidsThree DEF Special, DacSteps
  <2>2. Avoids(PinOutSet("dac", x), Special \ DacSteps)  BY PinsAreCore, AvoidsFewer
  <2> QED  BY <2>1, <2>2, AvoidsJoined DEF SetDacMode
<1>2. Avoids(ClearOverloads, Special) /\ Avoids(GetOverloads, Special)
  BY CommandsAreCore, AvoidsJoined DEF ClearOverloads, GetOverloads
<1>3. ASSUME NEW r, NEW c PROVE Avoids(SetRegValue(r, c), Special)
  BY CommandsAreCore, AvoidsJoined DEF SetRegValue
<1>4. ASSUME NEW r, NEW m, NEW c
      PROVE  Avoids(RegSetMask(r, m, c), Special) /\ Avoids(SetGains(m, c), Special)
  BY CommandsAreCore, AvoidsJoined DEF RegSetMask, SetGains
<1>5. ASSUME NEW b PROVE Avoids(ActivateBlocks(b), Special)
  BY <1>2, <1>3, CommandsAreCore, AvoidsJoined DEF ActivateBlocks
<1>6. Avoids(DisableAll, Special)  BY <1>5 DEF DisableAll
<1>7. Avoids(Configure(s), Special)
  BY <1>4, CommandsAreCore, AvoidsJoined DEF Configure
<1>8. Avoids(SetCalibrationMode(x), Special)
  BY <1>2, <1>4, CommandsAreCore, AvoidsJoined DEF SetCalibrationMode
<1>9. Avoids(SetStandby(x), Special)
  BY PinsAreCore, CommandsAreCore, AvoidsJoined DEF SetStandby
<1>10. Avoids(AfeProbe, Special)
  BY PinsAreCore, CommandsAreCore, AvoidsJoined DEF AfeProbe
<1> QED  BY <1>1, <1>2, <1>5, <1>6, <1>7, <1>8, <1>9, <1>10

(***************************************************************************)
(* What a step does to the programs: it is taken from its own, which a     *)
(* failed start replaces and a part of a buffer is put back to.            *)
(***************************************************************************)
TodoInv == todo = [t \in Threads |-> todo[t]] /\ acc = [t \in Threads |-> acc[t]]

PutsBack(p, q) ==
  \E s : (s = <<>> \/ \E x : s = <<[op |-> "writei", samples |-> x]>>) /\ q = s \o Tail(p)

Proceeds(t) ==
  /\ todo' = [todo EXCEPT ![t] = todo'[t]] /\ todo[t] # <<>>
  /\ \/ todo'[t] = todo[t]
     \/ todo'[t] = Tail(todo[t])
     \/ Head(todo[t]).op = "startTx" /\ todo'[t] = AbandonTx
     \/ Head(todo[t]).op = "startRx" /\ todo'[t] = AbandonRx
     \/ Head(todo[t]).op = "writei" /\ PutsBack(todo[t], todo'[t])

LEMMA StepProceeds ==
  ASSUME NEW t \in Threads, TodoInv, StepOf(t) PROVE Proceeds(t)
<1>1. ASSUME NEW p, todo' = [todo EXCEPT ![t] = p] 
      PROVE  todo' = [todo EXCEPT ![t] = todo'[t]] /\ todo'[t] = p
  BY <1>1 DEF TodoInv
<1>2. ASSUME UNCHANGED todo PROVE todo' = [todo EXCEPT ![t] = todo'[t]] /\ todo'[t] = todo[t]
  BY <1>2 DEF TodoInv
<1>3. ASSUME Advance(t), todo[t] # <<>> PROVE Proceeds(t)
  BY <1>1, <1>3, Zenon DEF Advance, Proceeds
<1>4. ASSUME UNCHANGED todo, todo[t] # <<>> PROVE Proceeds(t)
  BY <1>2, <1>4, Zenon DEF Proceeds
<1>5. CASE LoadPin(t)  BY <1>3, <1>4, <1>5, Zenon DEF LoadPin, Is
<1>6. CASE StorePin(t)  BY <1>3, <1>4, <1>6, Zenon DEF StorePin, Is
<1>7. CASE Lock(t)  BY <1>3, <1>4, <1>7, Zenon DEF Lock, Is
<1>8. CASE UnlockLeds(t)  BY <1>3, <1>4, <1>8, Zenon DEF UnlockLeds, Is
<1>9. CASE InDacMode(t)  BY <1>3, <1>4, <1>9, Zenon DEF InDacMode, Is, RegisterStep
<1>10. CASE WriteRegister(t)  BY <1>3, <1>4, <1>10, Zenon DEF WriteRegister, Is
<1>11. CASE AskRegister(t)  BY <1>3, <1>4, <1>11, Zenon DEF AskRegister, Is
<1>12. CASE AnswerRegister(t)  BY <1>3, <1>4, <1>12, Zenon DEF AnswerRegister, Is
<1>13. CASE ExpectRegister(t)  BY <1>3, <1>4, <1>13, Zenon DEF ExpectRegister, Is
<1>14. CASE RememberField(t)  BY <1>3, <1>4, <1>14, Zenon DEF RememberField, Is
<1>15. CASE DacMode(t)  BY <1>3, <1>4, <1>15, Zenon DEF DacMode, Is
<1>16. CASE SetDriver(t)  BY <1>3, <1>4, <1>16 DEF SetDriver, Is
<1>17. CASE TransferDac(t)  BY <1>3, <1>4, <1>17, Zenon DEF TransferDac, Is
<1>18. CASE Hook(t)  BY <1>3, <1>4, <1>18, Zenon DEF Hook, Is
<1>19. CASE GetPin(t)  BY <1>3, <1>4, <1>19, Zenon DEF GetPin, Is
<1>20. CASE PutFlag(t)  BY <1>3, <1>4, <1>20, Zenon DEF PutFlag, Is
<1>21. CASE Unhook(t)  BY <1>3, <1>4, <1>21, Zenon DEF Unhook, Is
<1>22. CASE ConfigureSpi(t)  BY <1>3, <1>4, <1>22, Zenon DEF ConfigureSpi, Is
<1>23. CASE StopThread(t)  BY <1>3, <1>4, <1>23, Zenon DEF StopThread, Is
<1>24. CASE Communication(t)  BY <1>3, <1>4, <1>24, Zenon DEF Communication, Is
<1>25. CASE Supervisor(t)  BY <1>3, <1>4, <1>25, Zenon DEF Supervisor, Is
<1>26. CASE CloseSpi(t)  BY <1>3, <1>4, <1>26, Zenon DEF CloseSpi, Is
<1>27. CASE WriteBuffer(t)
  <2>1. todo[t] # <<>> /\ Head(todo[t]).op = "writei"  BY <1>27 DEF WriteBuffer, Is
  <2>2. CASE UNCHANGED todo  BY <1>4, <2>1, <2>2
  <2>3. CASE \E q : PutsBack(todo[t], q) /\ todo' = [todo EXCEPT ![t] = q]
    BY <1>1, <2>1, <2>3, Zenon DEF Proceeds
  <2>4. \/ UNCHANGED todo \/ \E q : PutsBack(todo[t], q) /\ todo' = [todo EXCEPT ![t] = q]
    <3>1. CASE UNCHANGED todo  BY <3>1
    <3>2. CASE ~ UNCHANGED todo
      <4>1. PICK n \in 1..Len(Next1(t).samples) :
              todo' = [todo EXCEPT ![t] =
                (IF n = Len(Next1(t).samples) THEN <<>>
                 ELSE <<[op |-> "writei",
                         samples |-> SubSeq(Next1(t).samples, n + 1, Len(Next1(t).samples))]>>)
                \o Tail(@)]
        BY <1>27, <3>2 DEF WriteBuffer
      <4> DEFINE s == IF n = Len(Next1(t).samples) THEN <<>>
                      ELSE <<[op |-> "writei",
                              samples |-> SubSeq(Next1(t).samples, n + 1, Len(Next1(t).samples))]>>
      <4>2. s = <<>> \/ \E x : s = <<[op |-> "writei", samples |-> x]>>  OBVIOUS
      <4>3. todo' = [todo EXCEPT ![t] = s \o Tail(todo[t])]  BY <4>1 DEF TodoInv
      <4> HIDE DEF s
      <4> QED  BY <4>2, <4>3 DEF PutsBack
    <3> QED  BY <3>1, <3>2
  <2> QED  BY <2>2, <2>3, <2>4
<1>28. CASE StartTx(t)
  <2>1. todo[t] # <<>> /\ Head(todo[t]).op = "startTx"  BY <1>28 DEF StartTx, Is
  <2>2. CASE todo' = [todo EXCEPT ![t] = AbandonTx]  BY <1>1, <2>1, <2>2, Zenon DEF Proceeds
  <2>3. Advance(t) \/ UNCHANGED todo \/ todo' = [todo EXCEPT ![t] = AbandonTx]
    BY <1>28 DEF StartTx
  <2> QED  BY <1>3, <1>4, <2>1, <2>2, <2>3
<1>29. CASE StartRx(t)
  <2>1. todo[t] # <<>> /\ Head(todo[t]).op = "startRx"  BY <1>29 DEF StartRx, Is
  <2>2. CASE todo' = [todo EXCEPT ![t] = AbandonRx]  BY <1>1, <2>1, <2>2, Zenon DEF Proceeds
  <2>3. Advance(t) \/ todo' = [todo EXCEPT ![t] = AbandonRx]
    BY <1>29 DEF StartRx
  <2> QED  BY <1>3, <2>1, <2>2, <2>3
<1> QED
  BY <1>5, <1>6, <1>7, <1>8, <1>9, <1>10, <1>11, <1>12, <1>13, <1>14, <1>15, <1>16, <1>17, <1>18,
     <1>19, <1>20, <1>21, <1>22, <1>23, <1>24, <1>25, <1>26, <1>27, <1>28, <1>29 DEF StepOf

(* A step reads for its own thread, and what has happened is not undone;   *)
(* the flags and their pins are those of four kinds of steps.              *)
FlagsKept ==
  /\ pins' = pins /\ thread' = thread /\ flags' = flags

LEMMA StepReads ==
  ASSUME NEW t \in Threads, TodoInv, StepOf(t)
  PROVE  acc' = [acc EXCEPT ![t] = acc'[t]] /\ happened \subseteq happened'
<1>1. ASSUME NEW x, acc' = [acc EXCEPT ![t] = x] PROVE acc' = [acc EXCEPT ![t] = acc'[t]]
  BY <1>1 DEF TodoInv
<1>2. ASSUME UNCHANGED acc PROVE acc' = [acc EXCEPT ![t] = acc'[t]]
  BY <1>2 DEF TodoInv
<1>3. CASE LoadPin(t)  BY <1>1, <1>2, <1>3 DEF LoadPin, Take, TxFrame
<1>4. CASE StorePin(t)  BY <1>1, <1>2, <1>4 DEF StorePin, Take, TxFrame
<1>5. CASE Lock(t)  BY <1>1, <1>2, <1>5 DEF Lock, Take, TxFrame
<1>6. CASE UnlockLeds(t)  BY <1>1, <1>2, <1>6 DEF UnlockLeds, Take, TxFrame
<1>7. CASE InDacMode(t)  BY <1>1, <1>2, <1>7 DEF InDacMode, Take, TxFrame
<1>8. CASE WriteRegister(t)  BY <1>1, <1>2, <1>8 DEF WriteRegister, Take, TxFrame
<1>9. CASE AskRegister(t)  BY <1>1, <1>2, <1>9 DEF AskRegister, Take, TxFrame
<1>10. CASE AnswerRegister(t)  BY <1>1, <1>2, <1>10 DEF AnswerRegister, Take, TxFrame
<1>11. CASE ExpectRegister(t)  BY <1>1, <1>2, <1>11 DEF ExpectRegister, Take, TxFrame
<1>12. CASE RememberField(t)  BY <1>1, <1>2, <1>12 DEF RememberField, Take, TxFrame
<1>13. CASE DacMode(t)  BY <1>1, <1>2, <1>13 DEF DacMode, Take, TxFrame
<1>14. CASE SetDriver(t)  BY <1>1, <1>2, <1>14 DEF SetDriver, Take, TxFrame
<1>15. CASE TransferDac(t)  BY <1>1, <1>2, <1>15 DEF TransferDac, Take, TxFrame
<1>16. CASE Hook(t)  BY <1>1, <1>2, <1>16 DEF Hook, Take, TxFrame
<1>17. CASE GetPin(t)  BY <1>1, <1>2, <1>17 DEF GetPin, Take, TxFrame
<1>18. CASE PutFlag(t)  BY <1>1, <1>2, <1>18 DEF PutFlag, Take, TxFrame
<1>19. CASE Unhook(t)  BY <1>1, <1>2, <1>19 DEF Unhook, Take, TxFrame
<1>20. CASE WriteBuffer(t)  BY <1>1, <1>2, <1>20 DEF WriteBuffer, Take, TxFrame
<1>21. CASE ConfigureSpi(t)  BY <1>1, <1>2, <1>21 DEF ConfigureSpi, Take, TxFrame
<1>22. CASE StartTx(t)  BY <1>1, <1>2, <1>22 DEF StartTx, Take, TxFrame
<1>23. CASE StartRx(t)  BY <1>1, <1>2, <1>23 DEF StartRx, Take, TxFrame
<1>24. CASE StopThread(t)  BY <1>1, <1>2, <1>24 DEF StopThread, Take, TxFrame
<1>25. CASE Communication(t)  BY <1>1, <1>2, <1>25 DEF Communication, Take, TxFrame
<1>26. CASE Supervisor(t)  BY <1>1, <1>2, <1>26 DEF Supervisor, Take, TxFrame
<1>27. CASE CloseSpi(t)  BY <1>1, <1>2, <1>27 DEF CloseSpi, Take, TxFrame
<1> QED
  BY <1>3, <1>4, <1>5, <1>6, <1>7, <1>8, <1>9, <1>10, <1>11, <1>12, <1>13, <1>14, <1>15, <1>16,
     <1>17, <1>18, <1>19, <1>20, <1>21, <1>22, <1>23, <1>24, <1>25, <1>26, <1>27 DEF StepOf

LEMMA StepKeepsFlags ==
  ASSUME NEW t \in Threads, StepOf(t), Head(todo[t]).op \notin {"hook", "put"}
  PROVE  FlagsKept \/ Unhook(t)
<1>1. CASE LoadPin(t)  BY <1>1 DEF LoadPin, TxFrame, flagVars, FlagsKept
<1>2. CASE StorePin(t)  BY <1>2 DEF StorePin, TxFrame, flagVars, FlagsKept
<1>3. CASE Lock(t)  BY <1>3 DEF Lock, TxFrame, flagVars, FlagsKept
<1>4. CASE UnlockLeds(t)  BY <1>4 DEF UnlockLeds, TxFrame, flagVars, FlagsKept
<1>5. CASE InDacMode(t)  BY <1>5 DEF InDacMode, TxFrame, flagVars, FlagsKept
<1>6. CASE WriteRegister(t)  BY <1>6 DEF WriteRegister, TxFrame, flagVars, FlagsKept
<1>7. CASE AskRegister(t)  BY <1>7 DEF AskRegister, TxFrame, flagVars, FlagsKept
<1>8. CASE AnswerRegister(t)  BY <1>8 DEF AnswerRegister, TxFrame, flagVars, FlagsKept
<1>9. CASE ExpectRegister(t)  BY <1>9 DEF ExpectRegister, TxFrame, flagVars, FlagsKept
<1>10. CASE RememberField(t)  BY <1>10 DEF RememberField, TxFrame, flagVars, FlagsKept
<1>11. CASE DacMode(t)  BY <1>11 DEF DacMode, TxFrame, flagVars, FlagsKept
<1>12. CASE SetDriver(t)  BY <1>12 DEF SetDriver, TxFrame, flagVars, FlagsKept
<1>13. CASE TransferDac(t)  BY <1>13 DEF TransferDac, TxFrame, flagVars, FlagsKept
<1>14. CASE Hook(t)  BY <1>14 DEF Hook, Is
<1>15. CASE GetPin(t)  BY <1>15 DEF GetPin, TxFrame, flagVars, FlagsKept
<1>16. CASE PutFlag(t)  BY <1>16 DEF PutFlag, Is
<1>17. CASE Unhook(t)  BY <1>17
<1>18. CASE WriteBuffer(t)  BY <1>18 DEF WriteBuffer, TxFrame, flagVars, FlagsKept
<1>19. CASE ConfigureSpi(t)  BY <1>19 DEF ConfigureSpi, TxFrame, flagVars, FlagsKept
<1>20. CASE StartTx(t)  BY <1>20 DEF StartTx, TxFrame, flagVars, FlagsKept
<1>21. CASE StartRx(t)  BY <1>21 DEF StartRx, TxFrame, flagVars, FlagsKept
<1>22. CASE StopThread(t)  BY <1>22 DEF StopThread, TxFrame, flagVars, FlagsKept
<1>23. CASE Communication(t)  BY <1>23 DEF Communication, TxFrame, flagVars, FlagsKept
<1>24. CASE Supervisor(t)  BY <1>24 DEF Supervisor, TxFrame, flagVars, FlagsKept
<1>25. CASE CloseSpi(t)  BY <1>25 DEF CloseSpi, TxFrame, flagVars, FlagsKept
<1> QED
  BY <1>1, <1>2, <1>3, <1>4, <1>5, <1>6, <1>7, <1>8, <1>9, <1>10, <1>11, <1>12, <1>13, <1>14,
     <1>15, <1>16, <1>17, <1>18, <1>19, <1>20, <1>21, <1>22, <1>23, <1>24, <1>25 DEF StepOf

(***************************************************************************)
(* The programs of the controller, by the special steps that they have.    *)
(***************************************************************************)
LEMMA StepAvoids ==
  ASSUME NEW op, NEW A, op \notin A PROVE Avoids(Step(op), A)
  BY AvoidsOne DEF Step

LEMMA DeactivateAvoids ==
  ASSUME NEW A,
         A \subseteq (Special \ DacSteps)
           \ {"joinRx", "requestStop", "joinTx", "commOff", "supervisorOff"},
         NEW inProgress
  PROVE  Avoids(StopCommunication, A) /\ Avoids(Deactivate(inProgress), A)
<1>1. \A op \in {"joinRx", "requestStop", "joinTx", "commOff", "supervisorOff"} :
        Avoids(Step(op), A)
  BY StepAvoids
<1>2. \A x, y : /\ Avoids(SetRxActivity(x), A) /\ Avoids(SetTxActivity(x), A)
               /\ Avoids(SetDacMode(x), A) /\ Avoids(DisableAll, A)
               /\ Avoids(SetAppActivity(x, y), A)
  BY LedsAreCore, CallsAreCore, AvoidsFewer
<1>3. Avoids(StopCommunication, A)
  BY <1>1, <1>2, AvoidsJoined DEF StopCommunication
<1>4. Avoids(IF inProgress THEN StopCommunication ELSE <<>>, A)
  BY <1>3, AvoidsNone
<1> QED  BY <1>1, <1>2, <1>3, <1>4, AvoidsJoined DEF Deactivate

LEMMA AbandonAvoids ==
  ASSUME NEW A,
         A \subseteq (Special \ DacSteps)
           \ {"requestStop", "joinTx", "commOff", "supervisorOff", "joinRx"}
  PROVE  Avoids(AbandonTx, A) /\ Avoids(AbandonRx, A)
<1>1. Avoids(Deactivate(FALSE), A)  BY DeactivateAvoids
<1>2. Avoids(Step("requestStop"), A) /\ Avoids(Step("joinTx"), A)  BY StepAvoids
<1>3. Avoids(SetTxActivity(0), A) /\ Avoids(SetDacMode(0), A) /\ Avoids(DisableAll, A)
  BY LedsAreCore, CallsAreCore, AvoidsFewer
<1>4. Avoids(AbandonTx, A)  BY <1>1, <1>3, AvoidsJoined DEF AbandonTx
<1> QED  BY <1>2, <1>3, <1>4, AvoidsJoined DEF AbandonRx

LEMMA StartAvoids ==
  ASSUME NEW A, A \subseteq (Special \ DacSteps) \ {"startTx", "startRx", "commOn"}
  PROVE  Avoids(StartCommunication, A)
<1>1. \A op \in {"startTx", "startRx", "commOn"} : Avoids(Step(op), A)
  BY StepAvoids
<1>2. Avoids(SetTxActivity(1), A) /\ Avoids(SetDacMode(1), A)
      /\ Avoids(ActivateBlocks(settings.blocks), A)
  BY LedsAreCore, CallsAreCore, AvoidsFewer
<1> QED  BY <1>1, <1>2, AvoidsJoined DEF StartCommunication

LEMMA ActivateAvoids ==
  ASSUME NEW A,
         A \subseteq (Special \ DacSteps) \ {"supervisorOn", "startTx", "startRx", "commOn"}
  PROVE  Avoids(Activate, A) /\ Avoids(StartCommunication, A)
<1>1. Avoids(Step("supervisorOn"), A) /\ Avoids(StartCommunication, A) /\ Avoids(<<>>, A)
  BY StepAvoids, StartAvoids, AvoidsNone
<1>2. Avoids(IF settings.periodic THEN <<>> ELSE StartCommunication, A)  BY <1>1
<1> QED  BY <1>1, <1>2, AvoidsJoined DEF Activate

LEMMA TerminateAvoids ==
  ASSUME NEW A, A \subseteq Special PROVE Avoids(TerminateCape, A)
  BY CallsAreCore, AvoidsFewer, AvoidsJoined DEF TerminateCape

LEMMA LedsAvoid ==
  ASSUME NEW A, A \subseteq Special \ {"ledsReady", "ledsGone"}
  PROVE  Avoids(LedsCreate(version), A) /\ Avoids(LedsRelease(version), A)
<1>1. Avoids(Step("ledsReady"), A) /\ Avoids(Step("ledsGone"), A)  BY StepAvoids
<1>2. \A pin, on : Avoids(PinOutSet(pin, on), A)  BY PinsAreCore, AvoidsFewer
<1> QED  BY <1>1, <1>2, AvoidsJoined DEF LedsCreate, LedsRelease

LEMMA SpiReleaseAvoids ==
  ASSUME NEW A, A \subseteq Special \ {"closeSpi"} PROVE Avoids(SpiRelease, A)
<1>1. Avoids(Step("closeSpi"), A)  BY StepAvoids
<1>2. Avoids(PinOutSet("dac", 0), A)  BY PinsAreCore, AvoidsFewer
<1> QED  BY <1>1, <1>2, AvoidsJoined DEF SpiRelease

LEMMA UnhookingAvoids ==
  ASSUME NEW A, "unhook" \notin A
  PROVE  Avoids([k \in 1..Len(FlagPins) |-> [op |-> "unhook", flag |-> FlagPins[k]]], A)
<1> DEFINE u == [k \in 1..Len(FlagPins) |-> [op |-> "unhook", flag |-> FlagPins[k]]]
           S == {[op |-> "unhook", flag |-> f] : f \in Flags}
<1>1. u \in Seq(S)
  <2>1. Len(FlagPins) \in Nat /\ \A k \in 1..Len(FlagPins) : FlagPins[k] \in Flags
    BY PinsAssumption
  <2> QED  BY <2>1
<1>2. \A s \in S : s.op \notin A  OBVIOUS
<1> HIDE DEF S
<1>3. Avoids(u, A)  BY <1>1, <1>2 DEF Avoids
<1> QED  BY <1>3

LEMMA ReleaseAvoids ==
  ASSUME NEW A, A \subseteq Special \ {"unhook", "closeSpi", "ledsGone", "ledsReady"}
  PROVE  Avoids(ReleaseCape, A)
<1> DEFINE u == [k \in 1..Len(FlagPins) |-> [op |-> "unhook", flag |-> FlagPins[k]]]
<1>1. Avoids(u, A)  BY UnhookingAvoids
<1> HIDE DEF u
<1>2. Avoids(SetStandby(0), A) /\ Avoids(SetStandby(1), A) /\ Avoids(DisableAll, A)
  BY CallsAreCore, AvoidsFewer
<1>3. AfeRelease(1, FlagPins) = SetStandby(0) \o DisableAll \o SetStandby(1) \o u
  BY DEF AfeRelease, u
<1>4. Avoids(AfeRelease(1, FlagPins), A)  BY <1>1, <1>2, <1>3, AvoidsJoined
<1> QED  BY <1>4, SpiReleaseAvoids, LedsAvoid, AvoidsJoined DEF ReleaseCape

(***************************************************************************)
(*                        The flags and their pins                         *)
(***************************************************************************)
Pinning == {"hook", "get", "put"}

(* A program that installs the callbacks: the initial level of each pin is *)
(* stored after its callback is there, as it was read in the step before.  *)
Installs(p) ==
  /\ Avoids(p, {"startTx", "startRx", "writei"})
  /\ \A k \in 1..Len(p) :
       /\ p[k].op \in Pinning => p[k].flag \in Flags
       /\ p[k].op = "hook" =>
            /\ \E j \in 1..Len(p) : j > k /\ p[j].op = "put" /\ p[j].flag = p[k].flag
            /\ \A j \in 1..Len(p) : p[j].op = "hook" /\ p[j].flag = p[k].flag => j = k
       /\ p[k].op = "put" /\ k > 1 => p[k - 1].op = "get" /\ p[k - 1].flag = p[k].flag

PinTypes ==
  /\ pins \in [Flags -> [level : {0, 1}, callback : 0..MaxInits, end : BOOLEAN, wake : BOOLEAN,
                         freed : BOOLEAN]]
  /\ thread \in [Flags \X Generations ->
       [at : {"none", "begin", "test", "poll", "get", "put", "gone"}, pending : BOOLEAN,
        value : {0, 1}]]
  /\ flags = [f \in Flags |-> flags[f]]
  /\ Emulated => \A f \in Flags : pins[f].callback = 0

TxTypes ==
  tx \in [thread : {"none", "loop", "gone"}, end : BOOLEAN, filled : Nat, pcm : BOOLEAN,
          len : Nat \ {0}, rx : BOOLEAN]

Stores(p, f) == \E k \in 1..Len(p) : p[k].op = "put" /\ p[k].flag = f
Missed == "edge while hooking" \in happened

(* Only the user's thread installs callbacks, and each once in an          *)
(* initialisation.                                                         *)
ShapeInv ==
  /\ Installs(todo["main"]) \/ Avoids(todo["main"], Pinning)
  /\ \A t \in Threads \ {"main"} : Avoids(todo[t], Pinning)
  /\ \A k \in 1..Len(todo["main"]) :
       todo["main"][k].op = "hook" => pins[todo["main"][k].flag].callback < MaxInits

ReadInv ==
  ~ Missed /\ ~ Emulated /\ todo["main"] # <<>> /\ Head(todo["main"]).op = "put" =>
    acc["main"] = pins[Head(todo["main"]).flag].level

(* What a callback's thread has read is the level, unless an edge is       *)
(* pending.                                                                *)
ThreadsInv ==
  \A f \in Flags : \A g \in Generations :
    /\ g <= pins[f].callback <=> thread[<<f, g>>].at # "none"
    /\ thread[<<f, g>>].at \in {"none", "begin"} => ~ thread[<<f, g>>].pending
    /\ thread[<<f, g>>].at = "put" /\ ~ thread[<<f, g>>].pending =>
         thread[<<f, g>>].value = pins[f].level

(* The flag is the level, or there is somebody who will store it, or a     *)
(* thread of the pin has ended.                                            *)
WillStore(f, g) ==
  thread[<<f, g>>].pending \/ thread[<<f, g>>].at \in {"get", "put", "gone"}
Follows(f) ==
  \/ Missed \/ pins[f].callback = 0 \/ Stores(todo["main"], f) \/ flags[f] = pins[f].level
  \/ \E g \in 1..pins[f].callback : WillStore(f, g)
FollowInv == \A f \in Flags : Follows(f)

PinInv ==
  TodoInv /\ PinTypes /\ TxTypes /\ ShapeInv /\ ReadInv /\ ThreadsInv /\ FollowInv

LEMMA ProgramDomain ==
  ASSUME NEW p, NEW A, Avoids(p, A) PROVE DOMAIN p = 1..Len(p) /\ Len(p) \in Nat
  BY DEF Avoids

LEMMA PinInvImplies == PinInv => FlagsFollowPins
<1> SUFFICES ASSUME PinInv, ~ Missed,
                    \A k \in DOMAIN todo["main"] : todo["main"][k].op \notin Pinning,
                    NEW f \in Flags, pins[f].callback # 0,
                    \A g \in 1..pins[f].callback :
                      thread[<<f, g>>].at = "poll" /\ ~ thread[<<f, g>>].pending
             PROVE  flags[f] = pins[f].level
  BY DEF FlagsFollowPins, Missed, Pinning
<1>1. DOMAIN todo["main"] = 1..Len(todo["main"])
  <2>1. \A A : Avoids(todo["main"], A) => DOMAIN todo["main"] = 1..Len(todo["main"])
    BY ProgramDomain
  <2> QED  BY <2>1, Zenon DEF PinInv, ShapeInv, Installs
<1>2. ~ Stores(todo["main"], f)  BY <1>1 DEF Stores, Pinning
<1>3. \A g \in 1..pins[f].callback : ~ WillStore(f, g)  BY DEF WillStore
<1> QED  BY <1>2, <1>3, Zenon DEF PinInv, FollowInv, Follows

LEMMA PinInvInit == Init => PinInv
<1> SUFFICES ASSUME Init PROVE PinInv  OBVIOUS
<1>1. TodoInv /\ TxTypes  BY CapeAssumption DEF Init, TodoInv, TxTypes
<1>2. PinTypes
  <2>1. pins = [f \in Flags |-> [level |-> 0, callback |-> 0, end |-> FALSE, wake |-> FALSE,
                                 freed |-> FALSE]]
    BY DEF Init
  <2>2. thread = [k \in Flags \X Generations |->
                    [at |-> "none", pending |-> FALSE, value |-> 0]]
    BY DEF Init
  <2>3. flags = [f \in Flags |-> flags[f]]  BY DEF Init
  <2>4. 0 \in 0..MaxInits  BY PinsAssumption
  <2> QED  BY <2>1, <2>2, <2>3, <2>4 DEF PinTypes
<1>3. todo = [t \in Threads |-> <<>>]  BY DEF Init
<1>4. ShapeInv /\ ReadInv
  BY <1>3, AvoidsNone DEF ShapeInv, ReadInv, Threads
<1>5. ThreadsInv /\ FollowInv
  <2>1. \A f \in Flags : pins[f].callback = 0  BY DEF Init
  <2>2. \A f \in Flags : \A g \in Generations :
          thread[<<f, g>>].at = "none" /\ ~ thread[<<f, g>>].pending /\ g \in Nat \ {0}
    BY PinsAssumption DEF Init, Generations
  <2> QED  BY <2>1, <2>2 DEF ThreadsInv, FollowInv, Follows
<1> QED  BY <1>1, <1>2, <1>4, <1>5 DEF PinInv

LEMMA InstallsRest ==
  ASSUME NEW p, Installs(p), p # <<>>
  PROVE  /\ Installs(Tail(p))
         /\ Head(p).op \in Pinning => Head(p).flag \in Flags
         /\ Head(p).op = "hook" =>
              /\ Stores(Tail(p), Head(p).flag)
              /\ \A k \in 1..Len(Tail(p)) :
                   Tail(p)[k].op = "hook" => Tail(p)[k].flag # Head(p).flag
         /\ Tail(p) # <<>> /\ Head(Tail(p)).op = "put" =>
              Head(p).op = "get" /\ Head(p).flag = Head(Tail(p)).flag
<1> DEFINE q == Tail(p)
<1>1. Len(p) \in Nat \ {0} /\ Len(q) = Len(p) - 1 /\ Head(p) = p[1]
      /\ (q # <<>> => Len(q) > 0 /\ Head(q) = q[1])
  <2>1. PICK S : p \in Seq(S)  BY DEF Installs, Avoids
  <2>2. q \in Seq(S) /\ Len(q) = Len(p) - 1 /\ Len(p) \in Nat \ {0}  BY <2>1
  <2> QED  BY <2>1, <2>2
<1>2. \A k \in 1..Len(q) : q[k] = p[k + 1] /\ k + 1 \in 1..Len(p)
  <2>1. PICK S : p \in Seq(S)  BY DEF Installs, Avoids
  <2> QED  BY <2>1
<1>3. \A j \in 1..Len(p) : j # 1 => j - 1 \in 1..Len(q) /\ q[j - 1] = p[j]
  BY <1>1, <1>2
<1>4. Avoids(q, {"startTx", "startRx", "writei"})  BY AvoidsRest DEF Installs
<1> HIDE DEF q
<1>5. ASSUME NEW k \in 1..Len(q)
      PROVE  /\ q[k].op \in Pinning => q[k].flag \in Flags
             /\ q[k].op = "hook" =>
                  /\ \E j \in 1..Len(q) : j > k /\ q[j].op = "put" /\ q[j].flag = q[k].flag
                  /\ \A j \in 1..Len(q) : q[j].op = "hook" /\ q[j].flag = q[k].flag => j = k
             /\ q[k].op = "put" /\ k > 1 => q[k - 1].op = "get" /\ q[k - 1].flag = q[k].flag
  <2>1. q[k] = p[k + 1] /\ k + 1 \in 1..Len(p) /\ k \in Nat \ {0}  BY <1>1, <1>2
  <2>2. q[k].op \in Pinning => q[k].flag \in Flags  BY <2>1 DEF Installs
  <2>3. ASSUME q[k].op = "hook"
        PROVE  \E j \in 1..Len(q) : j > k /\ q[j].op = "put" /\ q[j].flag = q[k].flag
    <3>1. PICK j \in 1..Len(p) : j > k + 1 /\ p[j].op = "put" /\ p[j].flag = p[k + 1].flag
      BY <2>1, <2>3 DEF Installs
    <3>2. j - 1 \in 1..Len(q) /\ q[j - 1] = p[j] /\ j - 1 > k  BY <1>3, <2>1, <3>1
    <3> QED  BY <2>1, <3>1, <3>2
  <2>4. ASSUME q[k].op = "hook", NEW j \in 1..Len(q), q[j].op = "hook", q[j].flag = q[k].flag
        PROVE  j = k
    <3>1. q[j] = p[j + 1] /\ j + 1 \in 1..Len(p)  BY <1>2
    <3>2. j + 1 = k + 1  BY <2>1, <2>4, <3>1 DEF Installs
    <3> QED  BY <2>1, <3>2
  <2>5. ASSUME q[k].op = "put", k > 1 PROVE q[k - 1].op = "get" /\ q[k - 1].flag = q[k].flag
    <3>1. q[k - 1] = p[k] /\ k \in 1..Len(p)  BY <1>1, <1>3, <2>1, <2>5
    <3>2. p[(k + 1) - 1].op = "get" /\ p[(k + 1) - 1].flag = p[k + 1].flag
      BY <2>1, <2>5 DEF Installs
    <3>3. (k + 1) - 1 = k  BY <2>1
    <3> QED  BY <2>1, <3>1, <3>2, <3>3
  <2> QED  BY <2>2, <2>3, <2>4, <2>5
<1>6. Installs(q)  BY <1>4, <1>5 DEF Installs
<1>7. Head(p).op \in Pinning => Head(p).flag \in Flags  BY <1>1 DEF Installs
<1>8. ASSUME Head(p).op = "hook"
      PROVE  /\ Stores(q, Head(p).flag)
             /\ \A k \in 1..Len(q) : q[k].op = "hook" => q[k].flag # Head(p).flag
  <2>1. 1 \in 1..Len(p) /\ p[1].op = "hook"  BY <1>1, <1>8
  <2>2. PICK j \in 1..Len(p) : j > 1 /\ p[j].op = "put" /\ p[j].flag = p[1].flag
    BY <2>1 DEF Installs
  <2>3. j - 1 \in 1..Len(q) /\ q[j - 1] = p[j]  BY <1>3, <2>2
  <2>4. Stores(q, Head(p).flag)  BY <1>1, <2>2, <2>3 DEF Stores
  <2>5. ASSUME NEW k \in 1..Len(q), q[k].op = "hook", q[k].flag = Head(p).flag PROVE FALSE
    <3>1. k + 1 = 1  BY <1>1, <1>2, <2>1, <2>5 DEF Installs
    <3> QED  BY <3>1
  <2> QED  BY <2>4, <2>5
<1>9. ASSUME q # <<>>, Head(q).op = "put"
      PROVE  Head(p).op = "get" /\ Head(p).flag = Head(q).flag
  <2>1. q[1] = p[2] /\ 2 \in 1..Len(p) /\ Head(q) = q[1] /\ Head(p) = p[1]
    BY <1>1, <1>2, <1>9
  <2>2. p[2 - 1].op = "get" /\ p[2 - 1].flag = p[2].flag  BY <1>9, <2>1 DEF Installs
  <2> QED  BY <2>1, <2>2
<1> QED  BY <1>6, <1>7, <1>8, <1>9 DEF q

LEMMA StoresRest ==
  ASSUME NEW p, NEW A, Avoids(p, A), p # <<>>, NEW f, Stores(p, f)
  PROVE  Stores(Tail(p), f) \/ (Head(p).op = "put" /\ Head(p).flag = f)
<1>1. PICK S : p \in Seq(S)  BY DEF Avoids
<1>2. PICK k \in 1..Len(p) : p[k].op = "put" /\ p[k].flag = f  BY DEF Stores
<1>3. CASE k = 1  BY <1>1, <1>2, <1>3
<1>4. CASE k # 1
  <2>1. k - 1 \in 1..Len(Tail(p)) /\ Tail(p)[k - 1] = p[k]  BY <1>1, <1>4
  <2> QED  BY <1>2, <2>1 DEF Stores
<1> QED  BY <1>3, <1>4

LEMMA AvoidsAt ==
  ASSUME NEW p, NEW A, Avoids(p, A), NEW k \in 1..Len(p) PROVE p[k].op \notin A
  BY DEF Avoids

(***************************************************************************)
(* Everything but the pins, their threads and their flags.                 *)
(***************************************************************************)
(* The pins keep their levels and their callbacks; only who ends them      *)
(* changes.                                                                *)
LevelsKept ==
  /\ \A f \in Flags : pins'[f].level = pins[f].level /\ pins'[f].callback = pins[f].callback
  /\ thread' = thread /\ flags' = flags

LEMMA KeptFollows ==
  ASSUME PinInv, LevelsKept, happened \subseteq happened',
         \A f \in Flags : Stores(todo["main"], f) => Stores(todo["main"], f)'
  PROVE  ThreadsInv' /\ FollowInv'
<1>1. ThreadsInv'  BY DEF PinInv, ThreadsInv, LevelsKept
<1>2. ASSUME NEW f \in Flags PROVE Follows(f)'
  <2>1. Follows(f)  BY DEF PinInv, FollowInv
  <2>2. Missed => Missed'  BY DEF Missed
  <2>3. \A g : WillStore(f, g) => WillStore(f, g)'  BY DEF WillStore, LevelsKept
  <2> QED  BY <2>1, <2>2, <2>3 DEF Follows, LevelsKept
<1> QED  BY <1>1, <1>2 DEF FollowInv

(* A step of another thread, and a program given to it.                    *)
LEMMA OthersKeepPins ==
  ASSUME PinInv, LevelsKept, PinTypes', TxTypes', happened \subseteq happened',
         NEW t \in Threads \ {"main"}, TodoInv',
         todo' = [todo EXCEPT ![t] = todo'[t]], Avoids(todo'[t], Pinning),
         acc'["main"] = acc["main"], board' = board
  PROVE  PinInv'
<1>1. \A u \in Threads \ {t} : todo'[u] = todo[u]  BY DEF PinInv, TodoInv
<1>2. todo'["main"] = todo["main"]  BY <1>1 DEF Threads
<1>3. ShapeInv'
  <2>1. \A u \in Threads \ {"main"} : Avoids(todo'[u], Pinning)  BY <1>1 DEF PinInv, ShapeInv
  <2>2. \A k \in 1..Len(todo["main"]) :
          todo["main"][k].op = "hook" => pins'[todo["main"][k].flag].callback < MaxInits
    <3>1. ASSUME NEW k \in 1..Len(todo["main"]), todo["main"][k].op = "hook"
          PROVE  pins'[todo["main"][k].flag].callback < MaxInits
      <4>1. todo["main"][k].flag \in Flags
        <5>1. ~ Avoids(todo["main"], Pinning)  BY <3>1, AvoidsAt DEF Pinning
        <5> QED  BY <3>1, <5>1 DEF PinInv, ShapeInv, Installs, Pinning
      <4> QED  BY <3>1, <4>1 DEF PinInv, ShapeInv, LevelsKept
    <3> QED  BY <3>1
  <2> QED  BY <1>2, <2>1, <2>2 DEF PinInv, ShapeInv
<1>4. ReadInv'
  <2>1. SUFFICES ASSUME ~ Missed', ~ Emulated', todo["main"] # <<>>,
                        Head(todo["main"]).op = "put"
                 PROVE  acc["main"] = pins'[Head(todo["main"]).flag].level
    BY <1>2 DEF ReadInv
  <2>2. ~ Missed /\ ~ Emulated  BY <2>1 DEF Missed, Emulated
  <2>3. Head(todo["main"]).flag \in Flags
    <3>1. ~ Avoids(todo["main"], Pinning)
      <4>1. "put" \in Pinning  BY DEF Pinning
      <4>2. ASSUME Avoids(todo["main"], Pinning) PROVE Head(todo["main"]).op \notin Pinning
        BY <2>1, <4>2, AvoidsRest
      <4> QED  BY <2>1, <4>1, <4>2
    <3> QED  BY <2>1, <3>1, InstallsRest DEF PinInv, ShapeInv, Pinning
  <2> QED  BY <2>1, <2>2, <2>3 DEF PinInv, ReadInv, LevelsKept
<1>5. ThreadsInv' /\ FollowInv'  BY <1>2, KeptFollows, Zenon DEF Stores
<1> QED  BY <1>3, <1>4, <1>5 DEF PinInv

(* The board stays what it is, and the transmission a transmission.        *)
LEMMA StepKeepsBoard ==
  ASSUME NEW t \in Threads, StepOf(t) PROVE board' = board /\ version' = version
<1>1. CASE LoadPin(t)  BY <1>1 DEF LoadPin, UserFrame
<1>2. CASE StorePin(t)  BY <1>2 DEF StorePin, UserFrame
<1>3. CASE Lock(t)  BY <1>3 DEF Lock, UserFrame
<1>4. CASE UnlockLeds(t)  BY <1>4 DEF UnlockLeds, UserFrame
<1>5. CASE InDacMode(t)  BY <1>5 DEF InDacMode, UserFrame
<1>6. CASE WriteRegister(t)  BY <1>6 DEF WriteRegister, UserFrame
<1>7. CASE AskRegister(t)  BY <1>7 DEF AskRegister, UserFrame
<1>8. CASE AnswerRegister(t)  BY <1>8 DEF AnswerRegister, UserFrame
<1>9. CASE ExpectRegister(t)  BY <1>9 DEF ExpectRegister, UserFrame
<1>10. CASE RememberField(t)  BY <1>10 DEF RememberField, UserFrame
<1>11. CASE DacMode(t)  BY <1>11 DEF DacMode, UserFrame
<1>12. CASE SetDriver(t)  BY <1>12 DEF SetDriver, UserFrame
<1>13. CASE TransferDac(t)  BY <1>13 DEF TransferDac, UserFrame
<1>14. CASE Hook(t)  BY <1>14 DEF Hook, UserFrame
<1>15. CASE GetPin(t)  BY <1>15 DEF GetPin, UserFrame
<1>16. CASE PutFlag(t)  BY <1>16 DEF PutFlag, UserFrame
<1>17. CASE Unhook(t)  BY <1>17 DEF Unhook, UserFrame
<1>18. CASE WriteBuffer(t)  BY <1>18 DEF WriteBuffer, UserFrame
<1>19. CASE ConfigureSpi(t)  BY <1>19 DEF ConfigureSpi, UserFrame
<1>20. CASE StartTx(t)  BY <1>20 DEF StartTx, UserFrame
<1>21. CASE StartRx(t)  BY <1>21 DEF StartRx, UserFrame
<1>22. CASE StopThread(t)  BY <1>22 DEF StopThread, UserFrame
<1>23. CASE Communication(t)  BY <1>23 DEF Communication, UserFrame
<1>24. CASE Supervisor(t)  BY <1>24 DEF Supervisor, UserFrame
<1>25. CASE CloseSpi(t)  BY <1>25 DEF CloseSpi, UserFrame
<1> QED
  BY <1>1, <1>2, <1>3, <1>4, <1>5, <1>6, <1>7, <1>8, <1>9, <1>10, <1>11, <1>12, <1>13, <1>14,
     <1>15, <1>16, <1>17, <1>18, <1>19, <1>20, <1>21, <1>22, <1>23, <1>24, <1>25 DEF StepOf

LEMMA StepKeepsTx ==
  ASSUME NEW t \in Threads, StepOf(t), TxTypes PROVE TxTypes'
<1>1. CASE LoadPin(t)  BY <1>1 DEF LoadPin, TxTypes
<1>2. CASE StorePin(t)  BY <1>2 DEF StorePin, TxTypes
<1>3. CASE Lock(t)  BY <1>3 DEF Lock, TxTypes
<1>4. CASE UnlockLeds(t)  BY <1>4 DEF UnlockLeds, TxTypes
<1>5. CASE InDacMode(t)  BY <1>5 DEF InDacMode, TxTypes
<1>6. CASE WriteRegister(t)  BY <1>6 DEF WriteRegister, TxTypes
<1>7. CASE AskRegister(t)  BY <1>7 DEF AskRegister, TxTypes
<1>8. CASE AnswerRegister(t)  BY <1>8 DEF AnswerRegister, TxTypes
<1>9. CASE ExpectRegister(t)  BY <1>9 DEF ExpectRegister, TxTypes
<1>10. CASE RememberField(t)  BY <1>10 DEF RememberField, TxTypes
<1>11. CASE DacMode(t)  BY <1>11 DEF DacMode, TxTypes
<1>12. CASE SetDriver(t)  BY <1>12 DEF SetDriver, TxTypes
<1>13. CASE TransferDac(t)  BY <1>13 DEF TransferDac, TxTypes
<1>14. CASE Hook(t)  BY <1>14 DEF Hook, TxTypes
<1>15. CASE GetPin(t)  BY <1>15 DEF GetPin, TxTypes
<1>16. CASE PutFlag(t)  BY <1>16 DEF PutFlag, TxTypes
<1>17. CASE Unhook(t)  BY <1>17 DEF Unhook, TxTypes
<1>18. CASE WriteBuffer(t)  BY <1>18 DEF WriteBuffer, TxTypes
<1>19. CASE ConfigureSpi(t)  BY <1>19, CapeAssumption DEF ConfigureSpi, TxTypes
<1>20. CASE StartTx(t)
  <2>1. Alsa \in BOOLEAN  BY DEF Alsa, Emulated
  <2> QED  BY <1>20, <2>1, CapeAssumption DEF StartTx, TxTypes
<1>21. CASE StartRx(t)  BY <1>21, CapeAssumption DEF StartRx, TxTypes
<1>22. CASE StopThread(t)  BY <1>22, CapeAssumption DEF StopThread, TxTypes
<1>23. CASE Communication(t)  BY <1>23 DEF Communication, TxTypes
<1>24. CASE Supervisor(t)  BY <1>24 DEF Supervisor, TxTypes
<1>25. CASE CloseSpi(t)  BY <1>25 DEF CloseSpi, TxTypes
<1> QED
  BY <1>1, <1>2, <1>3, <1>4, <1>5, <1>6, <1>7, <1>8, <1>9, <1>10, <1>11, <1>12, <1>13, <1>14,
     <1>15, <1>16, <1>17, <1>18, <1>19, <1>20, <1>21, <1>22, <1>23, <1>24, <1>25 DEF StepOf

LEMMA UnhookKeepsLevels ==
  ASSUME NEW t \in Threads, PinTypes, board' = board, Unhook(t) PROVE LevelsKept /\ PinTypes'
<1> DEFINE f == Next1(t).flag
<1>1. thread' = thread /\ flags' = flags  BY DEF Unhook
<1>2. \/ pins' = [pins EXCEPT ![f].end = TRUE, ![f].wake = TRUE]
      \/ pins' = [pins EXCEPT ![f].freed = TRUE]
  BY DEF Unhook
<1>3. LevelsKept  BY <1>1, <1>2 DEF LevelsKept, PinTypes
<1>4. PinTypes'
  <2>1. pins' \in [Flags -> [level : {0, 1}, callback : 0..MaxInits, end : BOOLEAN,
                             wake : BOOLEAN, freed : BOOLEAN]]
    <3> DEFINE R == [level : {0, 1}, callback : 0..MaxInits, end : BOOLEAN, wake : BOOLEAN,
                     freed : BOOLEAN]
    <3>1. pins \in [Flags -> R]  BY DEF PinTypes
    <3>2. \A r \in R : [[r EXCEPT !.end = TRUE] EXCEPT !.wake = TRUE] \in R
                     /\ [r EXCEPT !.freed = TRUE] \in R
      OBVIOUS
    <3>3. \/ pins' = [g \in Flags |->
                        IF g = f THEN [[pins[g] EXCEPT !.end = TRUE] EXCEPT !.wake = TRUE]
                        ELSE pins[g]]
          \/ pins' = [g \in Flags |-> IF g = f THEN [pins[g] EXCEPT !.freed = TRUE] ELSE pins[g]]
      BY <1>2, <3>1
    <3> HIDE DEF R
    <3>4. pins' \in [Flags -> R]  BY <3>1, <3>2, <3>3
    <3> QED  BY <3>4 DEF R
  <2>2. Emulated' <=> Emulated  BY DEF Emulated
  <2> QED  BY <1>1, <1>3, <2>1, <2>2 DEF PinTypes, LevelsKept
<1> QED  BY <1>3, <1>4

LEMMA KeptPinTypes ==
  ASSUME PinTypes, FlagsKept, board' = board PROVE LevelsKept /\ PinTypes'
  BY DEF PinTypes, FlagsKept, LevelsKept, Emulated

LEMMA TodoKept ==
  ASSUME TodoInv, NEW t \in Threads,
         todo' = [todo EXCEPT ![t] = todo'[t]], acc' = [acc EXCEPT ![t] = acc'[t]]
  PROVE  TodoInv'
  BY DEF TodoInv

(* What a thread that installs nothing goes on with.                       *)
LEMMA ProceedsWithoutPins ==
  ASSUME NEW t \in Threads, Proceeds(t), Avoids(todo[t], Pinning)
  PROVE  Avoids(todo'[t], Pinning)
<1>1. Avoids(Tail(todo[t]), Pinning)  BY AvoidsRest DEF Proceeds
<1>2. Avoids(AbandonTx, Pinning) /\ Avoids(AbandonRx, Pinning)
  BY AbandonAvoids DEF Pinning, Special, DacSteps
<1>3. ASSUME PutsBack(todo[t], todo'[t]) PROVE Avoids(todo'[t], Pinning)
  <2>1. PICK s : /\ s = <<>> \/ \E x : s = <<[op |-> "writei", samples |-> x]>>
                 /\ todo'[t] = s \o Tail(todo[t])
    BY <1>3 DEF PutsBack
  <2>2. Avoids(s, Pinning)  BY <2>1, AvoidsNone, AvoidsOne DEF Pinning
  <2> QED  BY <1>1, <2>1, <2>2, AvoidsJoined
<1> QED  BY <1>1, <1>2, <1>3 DEF Proceeds

LEMMA OtherSteps ==
  ASSUME PinInv, NEW t \in Threads \ {"main"}, StepOf(t) PROVE PinInv'
<1>1. /\ Proceeds(t) /\ acc' = [acc EXCEPT ![t] = acc'[t]] /\ happened \subseteq happened'
      /\ board' = board /\ TxTypes'
  BY StepProceeds, StepReads, StepKeepsBoard, StepKeepsTx DEF PinInv
<1>2. Avoids(todo[t], Pinning) /\ todo[t] # <<>>  BY <1>1 DEF PinInv, ShapeInv, Proceeds
<1>3. Head(todo[t]).op \notin Pinning  BY <1>2, AvoidsRest
<1>4. Avoids(todo'[t], Pinning)  BY <1>1, <1>2, ProceedsWithoutPins
<1>5. TodoInv' /\ acc'["main"] = acc["main"]
  <2>1. TodoInv'  BY <1>1, TodoKept DEF PinInv, Proceeds
  <2> QED  BY <1>1, <2>1 DEF PinInv, TodoInv, Threads
<1>6. LevelsKept /\ PinTypes'
  <2>1. CASE FlagsKept  BY <1>1, <2>1, KeptPinTypes DEF PinInv
  <2>2. CASE Unhook(t)  BY <1>1, <2>2, UnhookKeepsLevels DEF PinInv
  <2>3. FlagsKept \/ Unhook(t)  BY <1>3, StepKeepsFlags DEF Pinning
  <2> QED  BY <2>1, <2>2, <2>3
<1> QED  BY <1>1, <1>4, <1>5, <1>6, OthersKeepPins DEF Proceeds

(* The steps that touch the flags are the three of that kind.              *)
LEMMA PinningSteps ==
  ASSUME NEW t \in Threads, StepOf(t), Head(todo[t]).op \in Pinning
  PROVE  /\ Head(todo[t]).op = "hook" => Hook(t)
         /\ Head(todo[t]).op = "get" => GetPin(t)
         /\ Head(todo[t]).op = "put" => PutFlag(t)
<1>1. ~ (LoadPin(t) \/ StorePin(t) \/ Lock(t) \/ UnlockLeds(t))
  BY DEF LoadPin, StorePin, Lock, UnlockLeds, Is, Pinning
<1>2. ~ (InDacMode(t) \/ WriteRegister(t) \/ AskRegister(t) \/ AnswerRegister(t))
  BY DEF InDacMode, RegisterStep, WriteRegister, AskRegister, AnswerRegister, Is, Pinning
<1>3. ~ (ExpectRegister(t) \/ RememberField(t) \/ DacMode(t) \/ SetDriver(t) \/ TransferDac(t))
  BY DEF ExpectRegister, RememberField, DacMode, SetDriver, TransferDac, Is, Pinning
<1>4. ~ (WriteBuffer(t) \/ ConfigureSpi(t) \/ StartTx(t) \/ StartRx(t) \/ StopThread(t))
  BY DEF WriteBuffer, ConfigureSpi, StartTx, StartRx, StopThread, Is, Pinning
<1>5. ~ (Communication(t) \/ Supervisor(t) \/ CloseSpi(t))
  BY DEF Communication, Supervisor, CloseSpi, Is, Pinning
<1>6. ~ Unhook(t)  BY DEF Unhook, Is, Pinning
<1>7. Hook(t) \/ GetPin(t) \/ PutFlag(t)
  BY <1>1, <1>2, <1>3, <1>4, <1>5, <1>6, Zenon DEF StepOf
<1> QED  BY <1>7 DEF Hook, GetPin, PutFlag, Is

(* The program of the user's thread after one of its steps.                *)
LEMMA MainProgram ==
  ASSUME PinInv, StepOf("main")
  PROVE  /\ TodoInv' /\ todo["main"] # <<>>
         /\ \A t \in Threads \ {"main"} : todo'[t] = todo[t]
         /\ \/ Avoids(todo["main"], Pinning) /\ Avoids(todo'["main"], Pinning)
            \/ /\ Installs(todo["main"]) /\ ~ Avoids(todo["main"], Pinning)
               /\ Installs(todo'["main"])
               /\ todo'["main"] = todo["main"] \/ todo'["main"] = Tail(todo["main"])
<1>1. "main" \in Threads  BY DEF Threads
<1>2. Proceeds("main") /\ acc' = [acc EXCEPT !["main"] = acc'["main"]]
  BY <1>1, StepProceeds, StepReads DEF PinInv
<1>3. TodoInv' /\ todo["main"] # <<>> /\ \A t \in Threads \ {"main"} : todo'[t] = todo[t]
  <2>1. TodoInv'  BY <1>1, <1>2, TodoKept DEF PinInv, Proceeds
  <2> QED  BY <1>2, <2>1 DEF PinInv, TodoInv, Proceeds
<1>4. CASE Avoids(todo["main"], Pinning)
  BY <1>1, <1>2, <1>3, <1>4, ProceedsWithoutPins
<1>5. CASE Installs(todo["main"]) /\ ~ Avoids(todo["main"], Pinning)
  <2>1. Head(todo["main"]).op \notin {"startTx", "startRx", "writei"}
    BY <1>3, <1>5, AvoidsRest DEF Installs
  <2>2. todo'["main"] = todo["main"] \/ todo'["main"] = Tail(todo["main"])
    BY <1>2, <2>1 DEF Proceeds
  <2>3. Installs(todo'["main"])  BY <1>3, <1>5, <2>2, InstallsRest
  <2> QED  BY <1>3, <1>5, <2>2, <2>3
<1> QED  BY <1>4, <1>5 DEF PinInv, ShapeInv

(* A step of the user's thread that installs nothing.                      *)
LEMMA MainPlain ==
  ASSUME PinInv, StepOf("main"), Avoids(todo["main"], Pinning) PROVE PinInv'
<1>1. "main" \in Threads  BY DEF Threads
<1>2. /\ TodoInv' /\ todo["main"] # <<>> /\ Avoids(todo'["main"], Pinning)
      /\ \A t \in Threads \ {"main"} : todo'[t] = todo[t]
  BY MainProgram
<1>3. happened \subseteq happened' /\ board' = board /\ TxTypes'
  BY <1>1, StepReads, StepKeepsBoard, StepKeepsTx DEF PinInv
<1>4. LevelsKept /\ PinTypes'
  <2>1. Head(todo["main"]).op \notin Pinning  BY <1>2, AvoidsRest
  <2>2. CASE FlagsKept  BY <1>3, <2>2, KeptPinTypes DEF PinInv
  <2>3. CASE Unhook("main")  BY <1>1, <1>3, <2>3, UnhookKeepsLevels DEF PinInv
  <2> QED  BY <1>1, <2>1, <2>2, <2>3, StepKeepsFlags DEF Pinning
<1>5. \A f : ~ Stores(todo["main"], f)  BY AvoidsAt DEF Stores, Pinning
<1>6. ThreadsInv' /\ FollowInv'  BY <1>3, <1>4, <1>5, KeptFollows
<1>7. ShapeInv'
  <2>1. \A k \in 1..Len(todo'["main"]) : todo'["main"][k].op # "hook"
    BY <1>2, AvoidsAt DEF Pinning
  <2> QED  BY <1>2, <2>1 DEF PinInv, ShapeInv
<1>8. ReadInv'
  <2>1. todo'["main"] # <<>> => Head(todo'["main"]).op # "put"
    <3>1. "put" \in Pinning  BY DEF Pinning
    <3> QED  BY <1>2, <3>1, AvoidsRest, SMTT(30)
  <2> QED  BY <2>1 DEF ReadInv
<1> QED  BY <1>2, <1>3, <1>4, <1>6, <1>7, <1>8 DEF PinInv

(* The callback of a pin: one thread more, before its initial level.       *)
LEMMA HookKeepsPins ==
  ASSUME PinInv, Hook("main"), ~ Emulated, NEW f \in Flags, f = Head(todo["main"]).flag,
         pins[f].callback < MaxInits, Stores(todo'["main"], f), board' = board,
         \A h \in Flags : Stores(todo["main"], h) => Stores(todo'["main"], h)
  PROVE  /\ PinTypes' /\ ThreadsInv' /\ FollowInv'
         /\ \A h \in Flags \ {f} : pins'[h] = pins[h]
<1> DEFINE g == pins[f].callback + 1
<1>1. /\ pins' = [pins EXCEPT ![f].callback = g, ![f].end = FALSE, ![f].wake = FALSE]
      /\ thread' = [thread EXCEPT ![<<f, g>>].at = "begin"]
      /\ flags' = flags /\ happened \subseteq happened'
  BY DEF Hook, Next1
<1>2. g \in Generations /\ pins[f].callback \in Nat
  BY PinsAssumption DEF Generations, PinInv, PinTypes
<1>3. thread[<<f, g>>].at = "none" /\ ~ thread[<<f, g>>].pending
  <2>1. ~ (g <= pins[f].callback)  BY <1>2
  <2> QED  BY <1>2, <2>1 DEF PinInv, ThreadsInv
<1> DEFINE R == [level : {0, 1}, callback : 0..MaxInits, end : BOOLEAN, wake : BOOLEAN,
                 freed : BOOLEAN]
           T == [at : {"none", "begin", "test", "poll", "get", "put", "gone"}, pending : BOOLEAN,
                 value : {0, 1}]
<1>4. pins \in [Flags -> R] /\ thread \in [Flags \X Generations -> T]
  <2>1. PinTypes  BY Zenon DEF PinInv
  <2> QED  BY <2>1, SMTT(30) DEF PinTypes
<1>5. /\ pins'[f] = [[[pins[f] EXCEPT !.callback = g] EXCEPT !.end = FALSE] EXCEPT !.wake = FALSE]
      /\ \A h \in Flags \ {f} : pins'[h] = pins[h]
      /\ pins' = [h \in Flags |-> pins'[h]]
  <2> HIDE DEF R, T, g
  <2> QED  BY <1>1, <1>4, ZenonT(40)
<1>6. /\ thread'[<<f, g>>] = [thread[<<f, g>>] EXCEPT !.at = "begin"]
      /\ \A k \in (Flags \X Generations) \ {<<f, g>>} : thread'[k] = thread[k]
      /\ thread' = [k \in Flags \X Generations |-> thread'[k]]
  <2> HIDE DEF R, T, g
  <2>1. <<f, g>> \in Flags \X Generations  BY <1>2
  <2> QED  BY <1>1, <1>4, <2>1, ZenonT(40)
<1>7. pins'[f] \in R /\ pins'[f].level = pins[f].level /\ pins'[f].callback = g
  <2>1. pins[f] \in R
    <3> HIDE DEF R, T, g
    <3> QED  BY <1>4
  <2>2. g \in 0..MaxInits  BY <1>2, PinsAssumption DEF Generations
  <2> HIDE DEF g
  <2> QED  BY <1>5, <2>1, <2>2
<1>8. /\ thread'[<<f, g>>] \in T /\ thread'[<<f, g>>].at = "begin"
      /\ ~ thread'[<<f, g>>].pending
  <2>1. thread[<<f, g>>] \in T
    <3> HIDE DEF R, T, g
    <3> QED  BY <1>2, <1>4
  <2> HIDE DEF g
  <2> QED  BY <1>3, <1>6, <2>1
<1> HIDE DEF R, T, g
<1>9. PinTypes'
  <2>1. pins' \in [Flags -> R]  BY <1>4, <1>5, <1>7
  <2>2. thread' \in [Flags \X Generations -> T]
    <3>1. \A k \in Flags \X Generations : thread'[k] \in T  BY <1>4, <1>6, <1>8, SMTT(30)
    <3> QED  BY <1>6, <3>1
  <2>3. flags' = [h \in Flags |-> flags'[h]]  BY <1>1 DEF PinInv, PinTypes
  <2>4. ~ Emulated'  BY DEF Emulated
  <2> QED  BY <2>1, <2>2, <2>3, <2>4 DEF PinTypes, R, T
<1>10. ThreadsInv'
  <2>1. SUFFICES ASSUME NEW h \in Flags, NEW n \in Generations
                 PROVE  /\ n <= pins'[h].callback <=> thread'[<<h, n>>].at # "none"
                        /\ thread'[<<h, n>>].at \in {"none", "begin"} => ~ thread'[<<h, n>>].pending
                        /\ thread'[<<h, n>>].at = "put" /\ ~ thread'[<<h, n>>].pending =>
                             thread'[<<h, n>>].value = pins'[h].level
    BY ZenonT(40) DEF ThreadsInv
  <2>2. CASE h = f /\ n = g  BY <1>2, <1>7, <1>8, <2>2 DEF g
  <2>3. CASE h = f /\ n # g
    <3>1. thread'[<<h, n>>] = thread[<<h, n>>]  BY <1>6, <2>3
    <3>2. n <= g <=> n <= pins[f].callback  BY <1>2, <2>3 DEF Generations, g
    <3> QED  BY <1>7, <2>3, <3>1, <3>2 DEF PinInv, ThreadsInv
  <2>4. CASE h # f
    <3>1. thread'[<<h, n>>] = thread[<<h, n>>] /\ pins'[h] = pins[h]  BY <1>5, <1>6, <2>4
    <3> QED  BY <3>1 DEF PinInv, ThreadsInv
  <2> QED  BY <2>2, <2>3, <2>4
<1>11. FollowInv'
  <2>1. SUFFICES ASSUME NEW h \in Flags PROVE Follows(h)'  BY DEF FollowInv
  <2>2. CASE h = f  BY <2>2, ZenonT(40) DEF Follows, Stores
  <2>3. CASE h # f
    <3>1. Follows(h) /\ pins'[h] = pins[h]  BY <1>5, <2>3 DEF PinInv, FollowInv
    <3>2. \A n \in 1..pins[h].callback : WillStore(h, n) => WillStore(h, n)'
      <4>1. ASSUME NEW n \in 1..pins[h].callback, WillStore(h, n) PROVE WillStore(h, n)'
        <5>1. n \in Generations
          <6>1. pins[h].callback \in 0..MaxInits  BY DEF PinInv, PinTypes
          <6> QED  BY <6>1, PinsAssumption DEF Generations
        <5>2. thread'[<<h, n>>] = thread[<<h, n>>]  BY <1>6, <2>3, <5>1, SMTT(30)
        <5> QED  BY <4>1, <5>2 DEF WillStore
      <4> QED  BY <4>1
    <3>3. Missed => Missed'  BY <1>1 DEF Missed
    <3>4. Stores(todo["main"], h) => Stores(todo["main"], h)'  BY DEF Stores
    <3> QED  BY <1>1, <3>1, <3>2, <3>3, <3>4 DEF Follows
  <2> QED  BY <2>2, <2>3
<1> QED  BY <1>5, <1>9, <1>10, <1>11, ZenonT(40)

LEMMA MainInstalls ==
  ASSUME PinInv, StepOf("main"), ~ Avoids(todo["main"], Pinning) PROVE PinInv'
<1> DEFINE p == todo["main"]
           q == todo'["main"]
<1>1. "main" \in Threads  BY DEF Threads
<1>2. /\ TodoInv' /\ p # <<>> /\ Installs(p) /\ Installs(q) /\ (q = p \/ q = Tail(p))
      /\ \A t \in Threads \ {"main"} : todo'[t] = todo[t]
  BY MainProgram
<1>3. happened \subseteq happened' /\ board' = board /\ TxTypes'
  BY <1>1, StepReads, StepKeepsBoard, StepKeepsTx DEF PinInv
<1>4. /\ Head(p).op \in Pinning => Head(p).flag \in Flags
      /\ Head(p).op = "hook" =>
           /\ Stores(Tail(p), Head(p).flag)
           /\ \A k \in 1..Len(Tail(p)) :
                Tail(p)[k].op = "hook" => Tail(p)[k].flag # Head(p).flag
      /\ Tail(p) # <<>> /\ Head(Tail(p)).op = "put" =>
           Head(p).op = "get" /\ Head(p).flag = Head(Tail(p)).flag
  BY <1>2, InstallsRest
<1>5. \A f : Stores(p, f) =>
        Stores(Tail(p), f) \/ (Head(p).op = "put" /\ Head(p).flag = f)
  BY <1>2, StoresRest DEF Installs
<1>6. /\ Len(p) \in Nat \ {0} /\ Head(p) = p[1] /\ Len(Tail(p)) = Len(p) - 1
      /\ \A k \in 1..Len(Tail(p)) : Tail(p)[k] = p[k + 1] /\ k + 1 \in 1..Len(p)
  <2>1. PICK S : p \in Seq(S)  BY <1>2 DEF Installs, Avoids
  <2> QED  BY <1>2, <2>1
<1>7. \A k \in 1..Len(p) : p[k].op = "hook" =>
        p[k].flag \in Flags /\ pins[p[k].flag].callback < MaxInits
  BY <1>2 DEF PinInv, ShapeInv, Installs, Pinning
<1>8. \A k \in 1..Len(q) : q[k].op = "hook" =>
        /\ q[k].flag \in Flags /\ pins[q[k].flag].callback < MaxInits
        /\ q = Tail(p) /\ Head(p).op = "hook" => q[k].flag # Head(p).flag
  <2> SUFFICES ASSUME NEW k \in 1..Len(q), q[k].op = "hook"
               PROVE  /\ q[k].flag \in Flags /\ pins[q[k].flag].callback < MaxInits
                      /\ q = Tail(p) /\ Head(p).op = "hook" => q[k].flag # Head(p).flag
    OBVIOUS
  <2> HIDE DEF p, q
  <2>1. \E j \in 1..Len(p) : p[j] = q[k]  BY <1>2, <1>6
  <2>2. q[k].flag \in Flags /\ pins[q[k].flag].callback < MaxInits  BY <1>7, <2>1
  <2>3. q = Tail(p) /\ Head(p).op = "hook" => q[k].flag # Head(p).flag  BY <1>4
  <2> QED  BY <2>2, <2>3
<1>9. (Head(p).op = "hook" => Hook("main")) /\ (Head(p).op = "get" => GetPin("main"))
      /\ (Head(p).op = "put" => PutFlag("main"))
  BY <1>1, PinningSteps DEF Pinning
<1>10. ASSUME Advance("main") PROVE q = Tail(p)
  BY <1>1, <1>10 DEF Advance, PinInv, TodoInv
<1> HIDE DEF p, q
<1>11. ASSUME \A k \in 1..Len(q) : q[k].op = "hook" => pins'[q[k].flag].callback < MaxInits
       PROVE  ShapeInv'
  <2>1. \A t \in Threads \ {"main"} : Avoids(todo'[t], Pinning)
    BY <1>2 DEF PinInv, ShapeInv
  <2> QED  BY <1>2, <1>11, <2>1 DEF ShapeInv, q
<1>12. ASSUME q # <<>> => Head(q).op # "put" PROVE ReadInv'
  BY <1>12 DEF ReadInv, q
<1>13. CASE Head(p).op = "hook" /\ ~ Emulated
  <2> DEFINE f == Head(p).flag
  <2>1. Hook("main") /\ q = Tail(p) /\ f \in Flags  BY <1>4, <1>9, <1>10, <1>13 DEF Hook, Pinning
  <2>2. pins[f].callback < MaxInits  BY <1>6, <1>7, <1>13
  <2>3. \A h \in Flags : Stores(p, h) => Stores(q, h)  BY <1>5, <1>13, <2>1
  <2>4. Stores(q, f)  BY <1>4, <1>13, <2>1
  <2>5. /\ PinTypes' /\ ThreadsInv' /\ FollowInv'
        /\ \A h \in Flags \ {f} : pins'[h] = pins[h]
    BY <1>3, <1>13, <2>1, <2>2, <2>3, <2>4, HookKeepsPins DEF p, q
  <2>6. \A k \in 1..Len(q) : q[k].op = "hook" => pins'[q[k].flag].callback < MaxInits
    BY <1>8, <1>13, <2>1, <2>5
  <2>7. q # <<>> => Head(q).op # "put"  BY <1>4, <1>13, <2>1
  <2> QED  BY <1>2, <1>3, <1>11, <1>12, <2>5, <2>6, <2>7 DEF PinInv
<1>14. CASE Head(p).op = "put"
  <2> DEFINE f == Head(p).flag
  <2>1. PutFlag("main") /\ q = Tail(p) /\ f \in Flags
    BY <1>4, <1>9, <1>10, <1>14 DEF PutFlag, Pinning
  <2>2. /\ flags' = [flags EXCEPT ![f] = acc["main"]] /\ pins' = pins /\ thread' = thread
        /\ happened' = happened
    BY <2>1 DEF PutFlag, Next1, p
  <2>3. flags'[f] = acc["main"] /\ \A h \in Flags \ {f} : flags'[h] = flags[h]
    BY <2>1, <2>2 DEF PinInv, PinTypes
  <2>4. PinTypes'
    <3>1. flags' = [h \in Flags |-> flags'[h]]  BY <2>2 DEF PinInv, PinTypes
    <3>2. Emulated' <=> Emulated  BY <1>3 DEF Emulated
    <3> QED  BY <2>2, <3>1, <3>2 DEF PinInv, PinTypes
  <2>5. ThreadsInv'  BY <2>2 DEF PinInv, ThreadsInv
  <2>6. FollowInv'
    <3>1. SUFFICES ASSUME NEW h \in Flags PROVE Follows(h)'  BY DEF FollowInv
    <3>2. CASE h = f
      <4>1. CASE Missed  BY <2>2, <4>1 DEF Follows, Missed
      <4>2. CASE Emulated  BY <2>2, <3>2, <4>2 DEF Follows, PinInv, PinTypes
      <4>3. CASE ~ Missed /\ ~ Emulated
        <5>1. acc["main"] = pins[f].level  BY <1>2, <1>14, <4>3 DEF PinInv, ReadInv, p
        <5> QED  BY <2>2, <2>3, <3>2, <5>1 DEF Follows
      <4> QED  BY <4>1, <4>2, <4>3
    <3>3. CASE h # f
      <4>1. Follows(h)  BY DEF PinInv, FollowInv
      <4>2. Stores(p, h) => Stores(q, h)  BY <1>5, <2>1, <3>3
      <4>3. \A n : WillStore(h, n) => WillStore(h, n)'  BY <2>2 DEF WillStore
      <4>4. Missed => Missed'  BY <2>2 DEF Missed
      <4>5. Stores(todo["main"], h) => Stores(todo["main"], h)'  BY <4>2 DEF p, q, Stores
      <4> QED  BY <2>2, <2>3, <3>3, <4>1, <4>3, <4>4, <4>5 DEF Follows
    <3> QED  BY <3>2, <3>3
  <2>7. \A k \in 1..Len(q) : q[k].op = "hook" => pins'[q[k].flag].callback < MaxInits
    BY <1>8, <2>2
  <2>8. q # <<>> => Head(q).op # "put"  BY <1>4, <1>14, <2>1
  <2> QED  BY <1>2, <1>3, <1>11, <1>12, <2>4, <2>5, <2>6, <2>7, <2>8 DEF PinInv
<1>15. CASE Head(p).op # "put" /\ (Head(p).op = "hook" => Emulated)
  <2>1. LevelsKept /\ PinTypes'
    <3>1. CASE Head(p).op = "hook"
      <4>1. FlagsKept  BY <1>9, <1>15, <3>1 DEF Hook, FlagsKept
      <4> QED  BY <1>3, <4>1, KeptPinTypes DEF PinInv
    <3>2. CASE FlagsKept  BY <1>3, <3>2, KeptPinTypes DEF PinInv
    <3>3. CASE Unhook("main")  BY <1>1, <1>3, <3>3, UnhookKeepsLevels DEF PinInv
    <3> QED  BY <1>1, <1>15, <3>1, <3>2, <3>3, StepKeepsFlags DEF p
  <2>2. \A f \in Flags : Stores(p, f) => Stores(q, f)  BY <1>2, <1>5, <1>15
  <2>3. ThreadsInv' /\ FollowInv'
    <3>1. \A f \in Flags : Stores(todo["main"], f) => Stores(todo["main"], f)'
      BY <2>2 DEF p, q, Stores
    <3> QED  BY <1>3, <2>1, <3>1, KeptFollows
  <2>4. \A k \in 1..Len(q) : q[k].op = "hook" => pins'[q[k].flag].callback < MaxInits
    BY <1>8, <2>1 DEF LevelsKept
  <2>5. ReadInv'
    <3>1. SUFFICES ASSUME ~ Emulated', q # <<>>, Head(q).op = "put"
                   PROVE  acc'["main"] = pins'[Head(q).flag].level
      BY DEF ReadInv, q
    <3>2. Head(p).op = "get" /\ Head(p).flag = Head(q).flag  BY <1>2, <1>4, <1>15, <3>1
    <3>3. GetPin("main") /\ Head(p).flag \in Flags  BY <1>4, <1>9, <3>2 DEF Pinning
    <3>4. ~ Emulated  BY <1>3, <3>1 DEF Emulated
    <3>5. acc'["main"] = pins[Head(p).flag].level /\ pins' = pins
      BY <1>1, <3>3, <3>4 DEF GetPin, Take, Next1, p, PinInv, TodoInv, flagVars
    <3> QED  BY <3>2, <3>5
  <2> QED  BY <1>2, <1>3, <1>11, <2>1, <2>3, <2>4, <2>5 DEF PinInv
<1> QED  BY <1>13, <1>14, <1>15

(***************************************************************************)
(* The threads of the callbacks.                                           *)
(***************************************************************************)
LEMMA CallbackKeepsPins ==
  ASSUME PinInv, NEW f \in Flags, NEW g \in Generations, CallbackFrame,
         thread[<<f, g>>].at # "none",
         NEW r \in [at : {"begin", "test", "poll", "get", "put", "gone"}, pending : BOOLEAN,
                    value : {0, 1}],
         thread' = [thread EXCEPT ![<<f, g>>] = r],
         r.at = "begin" => ~ r.pending,
         r.at = "put" /\ ~ r.pending => r.value = pins[f].level,
         \/ flags' = flags
         \/ flags' = [flags EXCEPT ![f] = thread[<<f, g>>].value],
         \/ flags' = flags /\ ~ WillStore(f, g)
         \/ r.pending \/ r.at \in {"get", "put", "gone"}
         \/ flags'[f] = pins[f].level
  PROVE  PinInv'
<1> DEFINE T == [at : {"none", "begin", "test", "poll", "get", "put", "gone"}, pending : BOOLEAN,
                 value : {0, 1}]
<1>1. /\ pins' = pins /\ happened' = happened /\ todo' = todo /\ acc' = acc /\ board' = board
      /\ tx' = tx
  BY DEF CallbackFrame
<1>2. /\ thread'[<<f, g>>] = r
      /\ \A k \in (Flags \X Generations) \ {<<f, g>>} : thread'[k] = thread[k]
      /\ thread' = [k \in Flags \X Generations |-> thread'[k]]
  BY DEF PinInv, PinTypes
<1>3. \A h \in Flags \ {f} : flags'[h] = flags[h]  BY DEF PinInv, PinTypes
<1>4. PinTypes'
  <2>1. \A k \in Flags \X Generations : thread'[k] \in T
    <3>1. r \in T /\ thread \in [Flags \X Generations -> T]  BY DEF PinInv, PinTypes
    <3> HIDE DEF T
    <3> QED  BY <1>2, <3>1
  <2>2. thread' \in [Flags \X Generations -> T]
    <3> HIDE DEF T
    <3> QED  BY <1>2, <2>1
  <2>3. flags' = [h \in Flags |-> flags'[h]]  BY DEF PinInv, PinTypes
  <2>4. Emulated' <=> Emulated  BY <1>1 DEF Emulated
  <2> QED  BY <1>1, <2>2, <2>3, <2>4 DEF PinInv, PinTypes
<1> HIDE DEF T
<1>5. ThreadsInv'
  <2>1. SUFFICES ASSUME NEW h \in Flags, NEW n \in Generations
                 PROVE  /\ n <= pins[h].callback <=> thread'[<<h, n>>].at # "none"
                        /\ thread'[<<h, n>>].at \in {"none", "begin"} => ~ thread'[<<h, n>>].pending
                        /\ thread'[<<h, n>>].at = "put" /\ ~ thread'[<<h, n>>].pending =>
                             thread'[<<h, n>>].value = pins[h].level
    BY <1>1, ZenonT(40) DEF ThreadsInv
  <2>2. CASE <<h, n>> = <<f, g>>
    <3>1. h = f /\ n = g /\ thread'[<<h, n>>] = r /\ r.at # "none"  BY <1>2, <2>2
    <3>2. n <= pins[h].callback  BY <3>1 DEF PinInv, ThreadsInv
    <3> QED  BY <3>1, <3>2
  <2>3. CASE <<h, n>> # <<f, g>>
    <3>1. thread'[<<h, n>>] = thread[<<h, n>>]  BY <1>2, <2>3
    <3> QED  BY <3>1 DEF PinInv, ThreadsInv
  <2> QED  BY <2>2, <2>3
<1>6. FollowInv'
  <2>1. SUFFICES ASSUME NEW h \in Flags PROVE Follows(h)'  BY DEF FollowInv
  <2>2. Follows(h) /\ (Missed => Missed') /\ (Stores(todo["main"], h) => Stores(todo["main"], h)')
    BY <1>1 DEF PinInv, FollowInv, Missed, Stores
  <2>3. \A n \in 1..pins[h].callback :
          <<h, n>> # <<f, g>> => (WillStore(h, n) => WillStore(h, n)')
    <3>1. ASSUME NEW n \in 1..pins[h].callback, <<h, n>> # <<f, g>>, WillStore(h, n)
          PROVE  WillStore(h, n)'
      <4>1. n \in Generations
        <5>1. pins[h].callback \in 0..MaxInits  BY DEF PinInv, PinTypes
        <5> QED  BY <5>1, PinsAssumption DEF Generations
      <4>2. thread'[<<h, n>>] = thread[<<h, n>>]  BY <1>2, <3>1, <4>1
      <4> QED  BY <3>1, <4>2 DEF WillStore
    <3> QED  BY <3>1
  <2>4. CASE h # f
    <3>1. \A n \in 1..pins[h].callback : WillStore(h, n) => WillStore(h, n)'  BY <2>3, <2>4
    <3> QED  BY <1>1, <1>3, <2>2, <2>4, <3>1 DEF Follows
  <2>5. CASE h = f
    <3>1. g \in 1..pins[f].callback
      <4>1. g <= pins[f].callback  BY DEF PinInv, ThreadsInv
      <4>2. g \in Nat \ {0} /\ pins[f].callback \in Nat
        BY PinsAssumption DEF Generations, PinInv, PinTypes
      <4> QED  BY <4>1, <4>2
    <3>2. CASE flags'[f] = pins[f].level  BY <1>1, <2>5, <3>2 DEF Follows
    <3>3. CASE r.pending \/ r.at \in {"get", "put", "gone"}
      <4>1. WillStore(f, g)'  BY <1>2, <3>3 DEF WillStore
      <4> QED  BY <1>1, <2>5, <3>1, <4>1 DEF Follows
    <3>4. CASE flags' = flags /\ ~ WillStore(f, g)
      <4>1. \A n \in 1..pins[f].callback : WillStore(f, n) => WillStore(f, n)'
        BY <2>3, <2>5, <3>4
      <4> QED  BY <1>1, <2>2, <2>5, <3>4, <4>1 DEF Follows
    <3> QED  BY <3>2, <3>3, <3>4
  <2> QED  BY <2>4, <2>5
<1>7. TodoInv' /\ TxTypes' /\ ShapeInv' /\ ReadInv'
  <2>1. TodoInv' /\ TxTypes' /\ ShapeInv'  BY <1>1 DEF PinInv, TodoInv, TxTypes, ShapeInv
  <2>2. ReadInv'  BY <1>1 DEF PinInv, ReadInv, Missed, Emulated
  <2> QED  BY <2>1, <2>2
<1> QED  BY <1>4, <1>5, <1>6, <1>7 DEF PinInv

LEMMA CallbacksKeepPins ==
  ASSUME PinInv, NEW f \in Flags, NEW g \in Generations,
         \/ CallbackBegins(f, g) \/ CallbackTests(f, g)
         \/ CallbackWakes(f, g) \/ CallbackReads(f, g) \/ CallbackStores(f, g)
  PROVE  PinInv'
<1> DEFINE T == [at : {"none", "begin", "test", "poll", "get", "put", "gone"}, pending : BOOLEAN,
                 value : {0, 1}]
           U == [at : {"begin", "test", "poll", "get", "put", "gone"}, pending : BOOLEAN,
                 value : {0, 1}]
           c == thread[<<f, g>>]
<1>1. c \in T /\ thread \in [Flags \X Generations -> T] /\ pins[f].level \in {0, 1}
      /\ pins[f].end \in BOOLEAN
  BY DEF PinInv, PinTypes
<1>2. /\ c.at = "begin" => ~ c.pending
      /\ c.at = "put" /\ ~ c.pending => c.value = pins[f].level
  BY DEF PinInv, ThreadsInv
<1>3. CASE CallbackBegins(f, g)
  <2> DEFINE r == [[c EXCEPT !.at = "test"] EXCEPT !.pending = FALSE]
  <2>1. CallbackFrame /\ flags' = flags /\ c.at = "begin"  BY <1>3 DEF CallbackBegins
  <2>2. thread' = [thread EXCEPT ![<<f, g>>] = r]  BY <1>1, <1>3 DEF CallbackBegins
  <2>3. r \in U /\ r.at = "test"  BY <1>1
  <2>4. ~ WillStore(f, g)  BY <1>2, <2>1 DEF WillStore
  <2> HIDE DEF r
  <2> QED  BY <2>1, <2>2, <2>3, <2>4, CallbackKeepsPins
<1>4. CASE CallbackTests(f, g)
  <2> DEFINE r == [c EXCEPT !.at = IF pins[f].end THEN "gone" ELSE "poll"]
  <2>1. CallbackFrame /\ flags' = flags /\ c.at = "test"  BY <1>4 DEF CallbackTests
  <2>2. thread' = [thread EXCEPT ![<<f, g>>] = r]  BY <1>1, <1>4 DEF CallbackTests
  <2>3. r \in U /\ r.at \in {"gone", "poll"} /\ r.pending = c.pending  BY <1>1
  <2>4. r.pending \/ ~ WillStore(f, g)  BY <2>1, <2>3 DEF WillStore
  <2> HIDE DEF r
  <2> QED  BY <2>1, <2>2, <2>3, <2>4, CallbackKeepsPins
<1>5. CASE CallbackWakes(f, g)
  <2> DEFINE r == [[c EXCEPT !.pending = FALSE] EXCEPT !.at = IF c.pending THEN "get" ELSE "test"]
  <2>1. CallbackFrame /\ flags' = flags /\ c.at = "poll"  BY <1>5 DEF CallbackWakes
  <2>2. thread' = [thread EXCEPT ![<<f, g>>] = r]  BY <1>1, <1>5 DEF CallbackWakes
  <2>3. r \in U /\ (IF c.pending THEN r.at = "get" ELSE r.at = "test")  BY <1>1
  <2>4. r.at = "get" \/ ~ WillStore(f, g)  BY <2>1, <2>3 DEF WillStore
  <2>5. r.at \notin {"begin", "put"}  BY <2>3
  <2> HIDE DEF r
  <2> QED  BY <2>1, <2>2, <2>3, <2>4, <2>5, CallbackKeepsPins
<1>6. CASE CallbackReads(f, g)
  <2> DEFINE r == [[c EXCEPT !.at = "put"] EXCEPT !.value = pins[f].level]
  <2>1. CallbackFrame /\ flags' = flags /\ c.at = "get"  BY <1>6 DEF CallbackReads
  <2>2. thread' = [thread EXCEPT ![<<f, g>>] = r]  BY <1>1, <1>6 DEF CallbackReads
  <2>3. r \in U /\ r.at = "put" /\ r.value = pins[f].level  BY <1>1
  <2> HIDE DEF r
  <2> QED  BY <2>1, <2>2, <2>3, CallbackKeepsPins
<1>7. CASE CallbackStores(f, g)
  <2> DEFINE r == [c EXCEPT !.at = "test"]
  <2>1. CallbackFrame /\ flags' = [flags EXCEPT ![f] = c.value] /\ c.at = "put"
    BY <1>7 DEF CallbackStores
  <2>2. thread' = [thread EXCEPT ![<<f, g>>] = r]  BY <1>1, <1>7 DEF CallbackStores
  <2>3. r \in U /\ r.at = "test" /\ r.pending = c.pending  BY <1>1
  <2>4. flags'[f] = c.value  BY <2>1 DEF PinInv, PinTypes
  <2>5. r.pending \/ flags'[f] = pins[f].level  BY <1>2, <2>1, <2>3, <2>4
  <2> HIDE DEF r
  <2> QED  BY <2>1, <2>2, <2>3, <2>5, CallbackKeepsPins
<1> QED  BY <1>3, <1>4, <1>5, <1>6, <1>7

(* What changes no pin, no program and no transmission.                    *)
LEMMA SameKeepsPins ==
  ASSUME PinInv, UNCHANGED <<pins, thread, flags, todo, acc, board, tx>>,
         happened \subseteq happened'
  PROVE  PinInv'
<1>1. LevelsKept /\ PinTypes'  BY KeptPinTypes DEF PinInv, FlagsKept
<1>2. ThreadsInv' /\ FollowInv'  BY <1>1, KeptFollows DEF Stores
<1>3. TodoInv' /\ TxTypes' /\ ShapeInv'  BY DEF PinInv, TodoInv, TxTypes, ShapeInv
<1>4. ReadInv'  BY DEF PinInv, ReadInv, Missed, Emulated
<1> QED  BY <1>1, <1>2, <1>3, <1>4 DEF PinInv

LEMMA ProgramHas ==
  ASSUME NEW p, NEW A, Avoids(p, A), p # <<>> PROVE 1 \in DOMAIN p /\ p[1] = Head(p)
  BY DEF Avoids

(* An edge while a callback is installed is noted; otherwise each thread   *)
(* of the pin that has not ended has it pending.                           *)
LEMMA EdgeKeepsPins ==
  ASSUME PinInv, NEW f \in Flags, Edge(f) PROVE PinInv'
<1> DEFINE R == [level : {0, 1}, callback : 0..MaxInits, end : BOOLEAN, wake : BOOLEAN,
                 freed : BOOLEAN]
           T == [at : {"none", "begin", "test", "poll", "get", "put", "gone"}, pending : BOOLEAN,
                 value : {0, 1}]
<1>1. /\ pins' = [pins EXCEPT ![f].level = 1 - @]
      /\ thread' = [k \in DOMAIN thread |->
           IF k[1] = f /\ thread[k].at \in {"poll", "test", "get", "put"}
           THEN [thread[k] EXCEPT !.pending = TRUE] ELSE thread[k]]
      /\ todo' = todo /\ acc' = acc /\ board' = board /\ flags' = flags /\ tx' = tx
      /\ happened \subseteq happened'
  BY DEF Edge
<1>2. \/ Missed'
      \/ /\ \A k \in DOMAIN todo["main"] : todo["main"][k].op \notin Pinning
         /\ \A k \in DOMAIN thread : thread[k].at # "begin"
  <2> DEFINE hooking == \/ \E k \in DOMAIN todo["main"] :
                               todo["main"][k].op \in {"hook", "get", "put"}
                        \/ \E k \in DOMAIN thread : thread[k].at = "begin"
             missed == "edge while hooking"
  <2>1. happened' = happened \cup (IF hooking THEN {missed} ELSE {})  BY Zenon DEF Edge
  <2>2. hooking => missed \in happened'
    <3> HIDE DEF hooking, missed
    <3> QED  BY <2>1
  <2>3. CASE hooking
    <3> HIDE DEF hooking
    <3> QED  BY <2>2, <2>3, Zenon DEF Missed
  <2>4. CASE ~ hooking
    <3>1. \A k \in DOMAIN todo["main"] : todo["main"][k].op \notin Pinning
      BY <2>4, Zenon DEF Pinning
    <3>2. \A k \in DOMAIN thread : thread[k].at # "begin"  BY <2>4, Zenon
    <3> QED  BY <3>1, <3>2
  <2> QED  BY <2>3, <2>4
<1>3. pins \in [Flags -> R] /\ thread \in [Flags \X Generations -> T]
  BY DEF PinInv, PinTypes
<1>4. /\ pins'[f] = [pins[f] EXCEPT !.level = 1 - @]
      /\ \A h \in Flags \ {f} : pins'[h] = pins[h]
      /\ pins' = [h \in Flags |-> pins'[h]]
  BY <1>1, <1>3
<1>5. pins'[f] \in R /\ \A h \in Flags : pins'[h].callback = pins[h].callback
  <2>1. pins[f] \in R  BY <1>3
  <2>2. pins'[f] \in R /\ pins'[f].callback = pins[f].callback  BY <1>4, <2>1
  <2> QED  BY <1>4, <2>2
<1>6. ASSUME NEW h \in Flags, NEW n \in Generations
      PROVE  /\ thread[<<h, n>>] \in T
             /\ thread'[<<h, n>>] =
                  IF h = f /\ thread[<<h, n>>].at \in {"poll", "test", "get", "put"}
                  THEN [thread[<<h, n>>] EXCEPT !.pending = TRUE] ELSE thread[<<h, n>>]
  <2>1. <<h, n>> \in Flags \X Generations /\ <<h, n>>[1] = h  OBVIOUS
  <2>2. <<h, n>> \in DOMAIN thread /\ thread[<<h, n>>] \in T
    <3> HIDE DEF T
    <3> QED  BY <1>3, <2>1
  <2> HIDE DEF T
  <2> QED  BY <1>1, <2>1, <2>2
<1>7. ASSUME NEW h \in Flags, NEW n \in Generations
      PROVE  /\ thread'[<<h, n>>] \in T /\ thread'[<<h, n>>].at = thread[<<h, n>>].at
             /\ thread'[<<h, n>>].value = thread[<<h, n>>].value
             /\ thread[<<h, n>>].pending => thread'[<<h, n>>].pending
             /\ h # f => thread'[<<h, n>>] = thread[<<h, n>>]
             /\ thread[<<h, n>>].at \notin {"poll", "test", "get", "put"} =>
                  thread'[<<h, n>>] = thread[<<h, n>>]
             /\ h = f /\ thread[<<h, n>>].at \in {"poll", "test", "get", "put"} =>
                  thread'[<<h, n>>].pending
  BY <1>6, ZenonT(40)
<1>8. PinTypes'
  <2>1. pins' \in [Flags -> R]
    <3> HIDE DEF R
    <3> QED  BY <1>3, <1>4, <1>5
  <2>2. thread' \in [Flags \X Generations -> T]
    <3>1. \A k \in Flags \X Generations : thread'[k] \in T
      <4>1. ASSUME NEW k \in Flags \X Generations PROVE thread'[k] \in T
        <5>1. PICK h \in Flags, n \in Generations : k = <<h, n>>  OBVIOUS
        <5> HIDE DEF T
        <5> QED  BY <1>7, <5>1
      <4> QED  BY <4>1
    <3>2. thread' = [k \in Flags \X Generations |-> thread'[k]]
      <4> HIDE DEF T
      <4> QED  BY <1>1, <1>3
    <3> HIDE DEF T
    <3> QED  BY <3>1, <3>2
  <2>3. flags' = [h \in Flags |-> flags'[h]]  BY <1>1 DEF PinInv, PinTypes
  <2>4. Emulated' => \A h \in Flags : pins'[h].callback = 0
    BY <1>1, <1>5 DEF Emulated, PinInv, PinTypes
  <2> QED  BY <2>1, <2>2, <2>3, <2>4 DEF PinTypes
<1> HIDE DEF R, T
<1>9. ThreadsInv'
  <2>1. SUFFICES ASSUME NEW h \in Flags, NEW n \in Generations
                 PROVE  /\ n <= pins'[h].callback <=> thread'[<<h, n>>].at # "none"
                        /\ thread'[<<h, n>>].at \in {"none", "begin"} => ~ thread'[<<h, n>>].pending
                        /\ thread'[<<h, n>>].at = "put" /\ ~ thread'[<<h, n>>].pending =>
                             thread'[<<h, n>>].value = pins'[h].level
    BY DEF ThreadsInv
  <2>2. /\ n <= pins[h].callback <=> thread[<<h, n>>].at # "none"
        /\ thread[<<h, n>>].at \in {"none", "begin"} => ~ thread[<<h, n>>].pending
        /\ thread[<<h, n>>].at = "put" /\ ~ thread[<<h, n>>].pending =>
             thread[<<h, n>>].value = pins[h].level
    BY DEF PinInv, ThreadsInv
  <2>3. thread'[<<h, n>>].at \in {"none", "begin"} => ~ thread'[<<h, n>>].pending
    BY <1>7, <2>2
  <2>4. thread'[<<h, n>>].at = "put" /\ ~ thread'[<<h, n>>].pending =>
          thread'[<<h, n>>].value = pins'[h].level
    <3>1. CASE h = f  BY <1>7, <3>1
    <3>2. CASE h # f  BY <1>4, <1>7, <2>2, <3>2
    <3> QED  BY <3>1, <3>2
  <2> QED  BY <1>5, <1>7, <2>2, <2>3, <2>4
<1>10. FollowInv'
  <2>1. SUFFICES ASSUME NEW h \in Flags, ~ Missed' PROVE Follows(h)'
    BY DEF FollowInv, Follows
  <2>2. Follows(h) /\ ~ Missed  BY <1>1, <2>1 DEF PinInv, FollowInv, Missed
  <2>3. \A n \in 1..pins[h].callback : n \in Generations
    <3>1. pins[h].callback \in 0..MaxInits  BY DEF PinInv, PinTypes
    <3> QED  BY <3>1, PinsAssumption DEF Generations
  <2>4. CASE h # f
    <3>1. \A n \in 1..pins[h].callback : WillStore(h, n) => WillStore(h, n)'
      BY <1>7, <2>3 DEF WillStore
    <3>2. Stores(todo["main"], h) => Stores(todo["main"], h)'  BY <1>1 DEF Stores
    <3> QED  BY <1>1, <1>4, <2>2, <2>4, <3>1, <3>2 DEF Follows
  <2>5. CASE h = f /\ pins[f].callback # 0
    <3>1. 1 \in 1..pins[f].callback /\ 1 \in Generations
      <4>1. pins[f].callback \in Nat \ {0}  BY <2>5, PinsAssumption DEF PinInv, PinTypes
      <4>2. 1 \in 1..pins[f].callback  BY <4>1
      <4> QED  BY <2>3, <2>5, <4>2
    <3>2. thread[<<f, 1>>].at \notin {"none", "begin"}
      <4>1. thread[<<f, 1>>].at # "none"  BY <3>1 DEF PinInv, ThreadsInv
      <4>2. <<f, 1>> \in DOMAIN thread  BY <1>3, <3>1
      <4>3. thread[<<f, 1>>].at # "begin"  BY <1>2, <2>1, <4>2
      <4> QED  BY <4>1, <4>3
    <3>3. WillStore(f, 1)'
      <4>1. thread[<<f, 1>>].at \in {"poll", "test", "get", "put", "gone"}
        BY <1>6, <3>1, <3>2 DEF T
      <4>2. thread'[<<f, 1>>].at = thread[<<f, 1>>].at  BY <1>7, <3>1
      <4>3. thread[<<f, 1>>].at # "gone" => thread'[<<f, 1>>].pending  BY <1>7, <3>1, <4>1
      <4> QED  BY <4>2, <4>3 DEF WillStore
    <3>4. 1 \in 1..pins'[f].callback  BY <1>5, <3>1
    <3> QED  BY <2>5, <3>3, <3>4 DEF Follows
  <2>6. CASE h = f /\ pins[f].callback = 0  BY <1>5, <2>6 DEF Follows
  <2> QED  BY <2>4, <2>5, <2>6
<1>11. TodoInv' /\ TxTypes'  BY <1>1 DEF PinInv, TodoInv, TxTypes
<1>12. ShapeInv'
  <2>1. \A k \in 1..Len(todo["main"]) :
          todo["main"][k].op = "hook" => pins'[todo["main"][k].flag].callback < MaxInits
    <3>1. ASSUME NEW k \in 1..Len(todo["main"]), todo["main"][k].op = "hook"
          PROVE  pins'[todo["main"][k].flag].callback < MaxInits
      <4>1. todo["main"][k].flag \in Flags
        <5>1. ~ Avoids(todo["main"], Pinning)  BY <3>1, AvoidsAt DEF Pinning
        <5> QED  BY <3>1, <5>1 DEF PinInv, ShapeInv, Installs, Pinning
      <4> QED  BY <1>5, <3>1, <4>1 DEF PinInv, ShapeInv
    <3> QED  BY <3>1
  <2> QED  BY <1>1, <2>1 DEF PinInv, ShapeInv
<1>13. ReadInv'
  <2>1. SUFFICES ASSUME ~ Missed', todo["main"] # <<>>, Head(todo["main"]).op = "put"
                 PROVE  FALSE
    BY <1>1 DEF ReadInv
  <2>2. \E k \in DOMAIN todo["main"] : todo["main"][k].op = "put"
    <3>1. \E A : Avoids(todo["main"], A)  BY DEF PinInv, ShapeInv, Installs
    <3> QED  BY <2>1, <3>1, ProgramHas
  <2> QED  BY <1>2, <2>1, <2>2 DEF Pinning
<1> QED  BY <1>8, <1>9, <1>10, <1>11, <1>12, <1>13 DEF PinInv

(* A program is given to the user's thread.                                *)
MayRun(p) ==
  \/ Avoids(p, Pinning)
  \/ /\ Installs(p) /\ (p # <<>> => Head(p).op # "put")
     /\ \A f \in Flags : pins[f].callback < MaxInits

LEMMA CallKeepsPins ==
  ASSUME PinInv, Idle("main"), NEW p, MayRun(p), todo' = [todo EXCEPT !["main"] = p],
         MainFrame, happened \subseteq happened'
  PROVE  PinInv'
<1>1. todo["main"] = <<>> /\ pins' = pins /\ thread' = thread /\ flags' = flags /\ acc' = acc
      /\ board' = board /\ tx' = tx
  BY DEF Idle, MainFrame, flagVars
<1>2. todo'["main"] = p /\ TodoInv' /\ \A t \in Threads \ {"main"} : todo'[t] = todo[t]
  BY <1>1 DEF PinInv, TodoInv, Threads
<1>3. LevelsKept /\ PinTypes'  BY <1>1, KeptPinTypes DEF PinInv, FlagsKept
<1>4. \A f : ~ Stores(todo["main"], f)
  <2>1. Len(<<>>) = 0  OBVIOUS
  <2> QED  BY <1>1, <2>1 DEF Stores
<1>5. ThreadsInv' /\ FollowInv'  BY <1>3, <1>4, KeptFollows
<1>6. TxTypes'  BY <1>1 DEF PinInv, TxTypes
<1>7. ShapeInv'
  <2>1. \A t \in Threads \ {"main"} : Avoids(todo'[t], Pinning)
    BY <1>2 DEF PinInv, ShapeInv
  <2>2. Installs(p) \/ Avoids(p, Pinning)  BY DEF MayRun
  <2>3. \A k \in 1..Len(p) : p[k].op = "hook" => pins[p[k].flag].callback < MaxInits
    <3>1. CASE Avoids(p, Pinning)  BY <3>1, AvoidsAt DEF Pinning
    <3>2. CASE ~ Avoids(p, Pinning)  BY <3>2 DEF MayRun, Installs, Pinning
    <3> QED  BY <3>1, <3>2
  <2> QED  BY <1>1, <1>2, <2>1, <2>2, <2>3 DEF ShapeInv
<1>8. ReadInv'
  <2>1. p # <<>> => Head(p).op # "put"
    <3>1. "put" \in Pinning  BY DEF Pinning
    <3> QED  BY <3>1, AvoidsRest DEF MayRun
  <2> QED  BY <1>2, <2>1 DEF ReadInv
<1> QED  BY <1>2, <1>3, <1>5, <1>6, <1>7, <1>8 DEF PinInv

(***************************************************************************)
(* The program that installs the callbacks.                                *)
(***************************************************************************)
LEMMA InstallsAfter ==
  ASSUME NEW a, Avoids(a, Special), NEW p, Installs(p), p # <<>> => Head(p).op # "put"
  PROVE  Installs(a \o p) /\ (a \o p # <<>> => Head(a \o p).op # "put")
<1> DEFINE r == a \o p
           Off == {"startTx", "startRx", "writei"}
<1>1. PICK S : a \in Seq(S) /\ \A s \in S : s.op \notin Special  BY DEF Avoids
<1>2. PICK T : p \in Seq(T) /\ \A s \in T : s.op \notin Off  BY DEF Installs, Avoids
<1>3. /\ Len(r) = Len(a) + Len(p) /\ Len(a) \in Nat /\ Len(p) \in Nat
      /\ \A k \in 1..Len(r) : r[k] = IF k <= Len(a) THEN a[k] ELSE p[k - Len(a)]
      /\ p # <<>> => Head(p) = p[1]
      /\ r # <<>> => Head(r) = r[1] /\ Len(r) > 0
  BY <1>1, <1>2
<1>4. \A k \in 1..Len(a) : a[k].op \notin Special  BY <1>1
<1>5. Avoids(r, Off)
  <2>1. Avoids(a, Off)  BY AvoidsFewer DEF Special, DacSteps
  <2>2. Avoids(p, Off)  BY DEF Installs
  <2> QED  BY <2>1, <2>2, AvoidsJoined
<1> HIDE DEF r, Off
<1>6. \A k \in 1..Len(r) : r[k].op \in Pinning =>
        k > Len(a) /\ k - Len(a) \in 1..Len(p) /\ r[k] = p[k - Len(a)]
  BY <1>3, <1>4 DEF Pinning, Special, DacSteps
<1>7. \A j \in 1..Len(p) : j + Len(a) \in 1..Len(r) /\ r[j + Len(a)] = p[j]  BY <1>3
<1>8. ASSUME NEW k \in 1..Len(r), r[k].op \in Pinning PROVE r[k].flag \in Flags
  BY <1>6, <1>8 DEF Installs
<1>9. ASSUME NEW k \in 1..Len(r), r[k].op = "hook"
      PROVE  /\ \E j \in 1..Len(r) : j > k /\ r[j].op = "put" /\ r[j].flag = r[k].flag
             /\ \A j \in 1..Len(r) : r[j].op = "hook" /\ r[j].flag = r[k].flag => j = k
  <2>1. k > Len(a) /\ k - Len(a) \in 1..Len(p) /\ r[k] = p[k - Len(a)]
    BY <1>6, <1>9 DEF Pinning
  <2>2. PICK j \in 1..Len(p) : j > k - Len(a) /\ p[j].op = "put" /\ p[j].flag = r[k].flag
    BY <1>9, <2>1 DEF Installs
  <2>3. j + Len(a) \in 1..Len(r) /\ r[j + Len(a)] = p[j] /\ j + Len(a) > k
    BY <1>3, <1>7, <2>1, <2>2
  <2>4. ASSUME NEW i \in 1..Len(r), r[i].op = "hook", r[i].flag = r[k].flag PROVE i = k
    <3>1. i - Len(a) \in 1..Len(p) /\ r[i] = p[i - Len(a)]  BY <1>6, <2>4 DEF Pinning
    <3>2. i - Len(a) = k - Len(a)  BY <1>9, <2>1, <2>4, <3>1 DEF Installs
    <3> QED  BY <1>3, <3>2
  <2> QED  BY <2>2, <2>3, <2>4
<1>10. ASSUME NEW k \in 1..Len(r), r[k].op = "put", k > 1
       PROVE  r[k - 1].op = "get" /\ r[k - 1].flag = r[k].flag
  <2>1. k > Len(a) /\ k - Len(a) \in 1..Len(p) /\ r[k] = p[k - Len(a)]
    BY <1>6, <1>10 DEF Pinning
  <2>2. k - Len(a) # 1
    <3>1. k - Len(a) = 1 => p # <<>> /\ r[k] = Head(p)  BY <1>2, <1>3, <2>1
    <3> QED  BY <1>10, <3>1
  <2>3. k - Len(a) > 1 /\ (k - Len(a)) - 1 \in 1..Len(p)
        /\ r[k - 1] = p[(k - Len(a)) - 1]
    <3>1. (k - Len(a)) - 1 \in 1..Len(p) /\ k - Len(a) > 1  BY <1>3, <2>1, <2>2
    <3>2. ((k - Len(a)) - 1) + Len(a) = k - 1  BY <1>3
    <3> QED  BY <1>7, <3>1, <3>2
  <2> QED  BY <1>10, <2>1, <2>3 DEF Installs
<1>11. Installs(r)  BY <1>5, <1>8, <1>9, <1>10 DEF Installs, Off
<1>12. ASSUME r # <<>> PROVE Head(r).op # "put"
  <2>1. Head(r) = r[1] /\ 1 \in 1..Len(r)  BY <1>3, <1>12
  <2>2. CASE Len(a) = 0
    <3>1. p # <<>> /\ r[1] = p[1]  BY <1>2, <1>3, <2>1, <2>2
    <3> QED  BY <1>3, <2>1, <3>1
  <2>3. CASE Len(a) # 0
    <3>1. r[1] = a[1] /\ 1 \in 1..Len(a)  BY <1>3, <2>1, <2>3
    <3> QED  BY <1>4, <2>1, <3>1 DEF Special, DacSteps
  <2> QED  BY <2>2, <2>3
<1> QED  BY <1>11, <1>12 DEF r

LEMMA InstallsBefore ==
  ASSUME NEW b, Avoids(b, Special \ {"configure"}), NEW p, Installs(p),
         p # <<>> => Head(p).op # "put"
  PROVE  Installs(p \o b) /\ (p \o b # <<>> => Head(p \o b).op # "put")
<1> DEFINE r == p \o b
           Off == {"startTx", "startRx", "writei"}
<1>1. PICK S : b \in Seq(S) /\ \A s \in S : s.op \notin Special \ {"configure"}  BY DEF Avoids
<1>2. PICK T : p \in Seq(T) /\ \A s \in T : s.op \notin Off  BY DEF Installs, Avoids
<1>3. /\ Len(r) = Len(p) + Len(b) /\ Len(b) \in Nat /\ Len(p) \in Nat
      /\ \A k \in 1..Len(r) : r[k] = IF k <= Len(p) THEN p[k] ELSE b[k - Len(p)]
      /\ p # <<>> => Head(p) = p[1]
      /\ r # <<>> => Head(r) = r[1] /\ Len(r) > 0
  BY <1>1, <1>2
<1>4. \A k \in 1..Len(b) : b[k].op \notin Special \ {"configure"}  BY <1>1
<1>5. Avoids(r, Off)
  <2>1. Avoids(b, Off)  BY AvoidsFewer DEF Special, DacSteps
  <2>2. Avoids(p, Off)  BY DEF Installs
  <2> QED  BY <2>1, <2>2, AvoidsJoined
<1> HIDE DEF r, Off
<1>6. \A k \in 1..Len(r) : r[k].op \in Pinning => k \in 1..Len(p) /\ r[k] = p[k]
  <2> SUFFICES ASSUME NEW k \in 1..Len(r), r[k].op \in Pinning
               PROVE  k \in 1..Len(p) /\ r[k] = p[k]
    OBVIOUS
  <2>1. CASE k <= Len(p)  BY <1>3, <2>1
  <2>2. CASE k > Len(p)
    <3>1. r[k] = b[k - Len(p)] /\ k - Len(p) \in 1..Len(b)  BY <1>3, <2>2
    <3>2. r[k].op \notin Special \ {"configure"}  BY <1>4, <3>1
    <3> QED  BY <3>2 DEF Pinning, Special, DacSteps
  <2> QED  BY <1>3, <2>1, <2>2
<1>7. \A j \in 1..Len(p) : j \in 1..Len(r) /\ r[j] = p[j]  BY <1>3
<1>8. ASSUME NEW k \in 1..Len(r), r[k].op \in Pinning PROVE r[k].flag \in Flags
  BY <1>6, <1>8 DEF Installs
<1>9. ASSUME NEW k \in 1..Len(r), r[k].op = "hook"
      PROVE  /\ \E j \in 1..Len(r) : j > k /\ r[j].op = "put" /\ r[j].flag = r[k].flag
             /\ \A j \in 1..Len(r) : r[j].op = "hook" /\ r[j].flag = r[k].flag => j = k
  <2>1. k \in 1..Len(p) /\ r[k] = p[k]  BY <1>6, <1>9 DEF Pinning
  <2>2. PICK j \in 1..Len(p) : j > k /\ p[j].op = "put" /\ p[j].flag = r[k].flag
    BY <1>9, <2>1 DEF Installs
  <2>3. ASSUME NEW i \in 1..Len(r), r[i].op = "hook", r[i].flag = r[k].flag PROVE i = k
    <3>1. i \in 1..Len(p) /\ r[i] = p[i]  BY <1>6, <2>3 DEF Pinning
    <3> QED  BY <1>9, <2>1, <2>3, <3>1 DEF Installs
  <2> QED  BY <1>7, <2>2, <2>3
<1>10. ASSUME NEW k \in 1..Len(r), r[k].op = "put", k > 1
       PROVE  r[k - 1].op = "get" /\ r[k - 1].flag = r[k].flag
  <2>1. k \in 1..Len(p) /\ r[k] = p[k]  BY <1>6, <1>10 DEF Pinning
  <2>2. k - 1 \in 1..Len(p)  BY <1>3, <1>10, <2>1
  <2>3. p[k - 1].op = "get" /\ p[k - 1].flag = p[k].flag  BY <1>10, <2>1 DEF Installs
  <2> QED  BY <1>7, <2>1, <2>2, <2>3
<1>11. Installs(r)  BY <1>5, <1>8, <1>9, <1>10 DEF Installs, Off
<1>12. ASSUME r # <<>>, Head(r).op = "put" PROVE FALSE
  <2>1. Head(r) = r[1] /\ 1 \in 1..Len(r)  BY <1>3, <1>12
  <2>2. 1 \in 1..Len(p) /\ r[1] = p[1]  BY <1>6, <1>12, <2>1 DEF Pinning
  <2>3. p # <<>>  BY <1>2, <1>3, <2>2
  <2> QED  BY <1>3, <1>12, <2>1, <2>2, <2>3
<1> QED  BY <1>11, <1>12 DEF r

LEMMA FlagsInstall ==
  Installs(SetFlagsCallback(FlagPins))
    /\ (SetFlagsCallback(FlagPins) # <<>> => Head(SetFlagsCallback(FlagPins)).op # "put")
<1> DEFINE n == Len(FlagPins)
           K == {"hook", "get", "put"}
           S == [op : K, flag : Flags]
           u == [k \in 1..n |-> [op |-> "hook", flag |-> FlagPins[k]]]
           v == [k \in 1..2 * n |-> [op |-> IF k % 2 = 1 THEN "get" ELSE "put",
                                     flag |-> FlagPins[(k + 1) \div 2]]]
           r == u \o v
           Off == {"startTx", "startRx", "writei"}
<1>1. n \in Nat /\ \A k \in 1..n : FlagPins[k] \in Flags
  BY PinsAssumption
<1>2. \A j, k \in 1..n : FlagPins[j] = FlagPins[k] => j = k
  BY PinsAssumption
<1>3. \A k \in 1..2 * n : (k + 1) \div 2 \in 1..n  BY <1>1
<1>4. u \in Seq(S) /\ Len(u) = n
  <2>1. \A k \in 1..n : u[k] \in S  BY <1>1
  <2> HIDE DEF S
  <2> QED  BY <1>1, <2>1
<1>5. v \in Seq(S) /\ Len(v) = 2 * n
  <2>1. \A k \in 1..2 * n : v[k] \in S
    <3>1. ASSUME NEW k \in 1..2 * n PROVE v[k] \in S
      <4>1. (IF k % 2 = 1 THEN "get" ELSE "put") \in K  OBVIOUS
      <4>2. FlagPins[(k + 1) \div 2] \in Flags  BY <1>1, <1>3
      <4> HIDE DEF K
      <4> QED  BY <4>1, <4>2
    <3> QED  BY <3>1
  <2> HIDE DEF S
  <2> QED  BY <1>1, <2>1
<1>6. /\ r \in Seq(S) /\ Len(r) = 3 * n
      /\ \A k \in 1..n : r[k] = u[k]
      /\ \A k \in 1..2 * n : n + k \in 1..Len(r) /\ r[n + k] = v[k]
  <2> HIDE DEF S, u, v
  <2> QED  BY <1>1, <1>4, <1>5
<1>7. \A k \in 1..n : u[k].op = "hook" /\ u[k].flag = FlagPins[k]  BY <1>1
<1>8. \A k \in 1..2 * n : /\ v[k].op = IF k % 2 = 1 THEN "get" ELSE "put"
                          /\ v[k].flag = FlagPins[(k + 1) \div 2]
  BY <1>1
<1>9. \A k \in 1..Len(r) : k \in 1..n \/ (k - n \in 1..2 * n /\ r[k] = v[k - n] /\ k > n)
  <2>1. SUFFICES ASSUME NEW k \in 1..Len(r), k \notin 1..n
                 PROVE  k - n \in 1..2 * n /\ r[k] = v[k - n] /\ k > n
    OBVIOUS
  <2> HIDE DEF r, v, u, S
  <2>2. k - n \in 1..2 * n /\ k > n /\ n + (k - n) = k  BY <1>1, <1>6, <2>1
  <2> QED  BY <1>6, <2>2
<1>10. SetFlagsCallback(FlagPins) = r  BY DEF SetFlagsCallback
<1> HIDE DEF u, v, r, n, K
<1>11. \A k \in 1..Len(r) : r[k].op = "hook" <=> k \in 1..n
  <2>1. ASSUME NEW k \in 1..Len(r) PROVE r[k].op = "hook" <=> k \in 1..n
    <3>1. CASE k \in 1..n  BY <1>6, <1>7, <3>1
    <3>2. CASE k \notin 1..n
      <4>1. r[k].op \in {"get", "put"}  BY <1>8, <1>9, <3>2
      <4> QED  BY <3>2, <4>1
    <3> QED  BY <3>1, <3>2
  <2> QED  BY <2>1
<1>12. Avoids(r, Off)
  <2>1. \A s \in S : s.op \notin Off  BY DEF K
  <2> HIDE DEF S, Off
  <2> QED  BY <1>6, <2>1 DEF Avoids
<1>13. \A k \in 1..Len(r) : r[k].flag \in Flags
  <2>1. \A k \in 1..Len(r) : r[k] \in S
    <3> HIDE DEF S
    <3> QED  BY <1>6
  <2> QED  BY <2>1
<1>14. ASSUME NEW k \in 1..Len(r), r[k].op = "hook"
       PROVE  /\ \E j \in 1..Len(r) : j > k /\ r[j].op = "put" /\ r[j].flag = r[k].flag
              /\ \A j \in 1..Len(r) : r[j].op = "hook" /\ r[j].flag = r[k].flag => j = k
  <2>1. k \in 1..n /\ r[k].flag = FlagPins[k]  BY <1>6, <1>7, <1>11, <1>14
  <2>2. 2 * k \in 1..2 * n /\ (2 * k) % 2 = 0 /\ (2 * k + 1) \div 2 = k  BY <1>1, <2>1
  <2>3. /\ n + 2 * k \in 1..Len(r) /\ n + 2 * k > k /\ r[n + 2 * k].op = "put"
        /\ r[n + 2 * k].flag = FlagPins[k]
    <3>1. n + 2 * k \in 1..Len(r) /\ r[n + 2 * k] = v[2 * k]  BY <1>6, <2>2
    <3>2. v[2 * k].op = "put" /\ v[2 * k].flag = FlagPins[k]  BY <1>8, <2>2
    <3>3. n + 2 * k > k  BY <1>1, <2>1
    <3> QED  BY <3>1, <3>2, <3>3
  <2>4. ASSUME NEW j \in 1..Len(r), r[j].op = "hook", r[j].flag = r[k].flag PROVE j = k
    <3>1. j \in 1..n /\ r[j].flag = FlagPins[j]  BY <1>6, <1>7, <1>11, <2>4
    <3> QED  BY <1>2, <2>1, <2>4, <3>1
  <2> QED  BY <2>1, <2>3, <2>4
<1>15. ASSUME NEW k \in 1..Len(r), r[k].op = "put"
       PROVE  /\ k > 1 /\ r[k - 1].op = "get" /\ r[k - 1].flag = r[k].flag
  <2>1. k \notin 1..n  BY <1>11, <1>15
  <2> DEFINE i == k - n
  <2>2. i \in 1..2 * n /\ r[k] = v[i] /\ k > n  BY <1>9, <2>1
  <2>3. i % 2 # 1
    <3>1. v[i].op = IF i % 2 = 1 THEN "get" ELSE "put"  BY <1>8, <2>2
    <3> HIDE DEF i
    <3> QED  BY <1>15, <2>2, <3>1
  <2>4. i - 1 \in 1..2 * n /\ (i - 1) % 2 = 1 /\ ((i - 1) + 1) \div 2 = (i + 1) \div 2
    <3> HIDE DEF i
    <3> QED  BY <1>1, <2>2, <2>3
  <2>5. n + (i - 1) = k - 1 /\ k - 1 > 0  BY <1>1, <2>2, <2>4
  <2>6. r[k - 1] = v[i - 1]  BY <1>6, <2>4, <2>5
  <2>7. v[i - 1].op = "get" /\ v[i - 1].flag = v[i].flag
    <3> HIDE DEF i
    <3> QED  BY <1>8, <2>2, <2>4
  <2>8. k > 1  BY <2>5
  <2> QED  BY <2>2, <2>6, <2>7, <2>8
<1>16. Installs(r)  BY <1>12, <1>13, <1>14, <1>15 DEF Installs
<1>17. ASSUME r # <<>> PROVE Head(r).op # "put"
  <2>1. Head(r) = r[1] /\ 1 \in 1..Len(r)
    <3> HIDE DEF S
    <3> QED  BY <1>6, <1>17
  <2>2. r[1].op = "put" => 1 > 1  BY <1>15, <2>1
  <2> QED  BY <2>1, <2>2
<1> QED  BY <1>10, <1>16, <1>17

LEMMA InitializeInstalls ==
  ASSUME NEW s
  PROVE  Installs(InitializeCape(s))
         /\ (InitializeCape(s) # <<>> => Head(InitializeCape(s)).op # "put")
<1> DEFINE b == SetCalibrationMode(s.calibration) \o Step("configure")
           p == SetFlagsCallback(FlagPins)
<1>1. Avoids(SetStandby(0), Special) /\ Avoids(Configure(s), Special)
      /\ Avoids(SetCalibrationMode(s.calibration), Special)
  BY CallsAreCore
<1>2. Avoids(SetCalibrationMode(s.calibration), Special \ {"configure"})
      /\ Avoids(Step("configure"), Special \ {"configure"})
  BY <1>1, AvoidsFewer, StepAvoids
<1>3. Installs((SetStandby(0) \o Configure(s)) \o p)
      /\ ((SetStandby(0) \o Configure(s)) \o p # <<>> =>
            Head((SetStandby(0) \o Configure(s)) \o p).op # "put")
  <2>1. Avoids(SetStandby(0) \o Configure(s), Special)  BY <1>1, AvoidsJoined
  <2> HIDE DEF p
  <2> QED  BY <2>1, FlagsInstall, InstallsAfter DEF p
<1>4. InitializeCape(s) =
        ((((SetStandby(0) \o Configure(s)) \o p) \o SetCalibrationMode(s.calibration))
           \o Step("configure"))
  BY DEF InitializeCape
<1> HIDE DEF p
<1> QED  BY <1>2, <1>3, <1>4, InstallsBefore

LEMMA MainKeepsPins == ASSUME PinInv, Main PROVE PinInv'
<1> DEFINE Runs(p) == /\ Idle("main") /\ todo' = [todo EXCEPT !["main"] = p] /\ MainFrame
                      /\ happened \subseteq happened'
<1>1. ASSUME NEW p, Avoids(p, Pinning), Runs(p) PROVE PinInv'
  BY <1>1, CallKeepsPins DEF MayRun
<1>2. /\ Pinning \subseteq Special /\ Pinning \subseteq Special \ DacSteps
      /\ \A op \in Pinning : op \notin
        {"unhook", "closeSpi", "ledsGone", "ledsReady", "supervisorOn", "supervisorOff", "startTx",
         "startRx", "commOn", "commOff", "joinRx", "joinTx", "requestStop"}
  BY DEF Pinning, Special, DacSteps
<1>3. CASE Create
  <2>1. Avoids(LedsCreate(version), Pinning)  BY <1>2, LedsAvoid
  <2> QED  BY <1>1, <1>3, <2>1, Zenon DEF Create, At, Call
<1>4. CASE CreateFails
  <2> QED  BY <1>1, <1>4, AvoidsNone, Zenon DEF CreateFails, At, Call
<1>5. CASE SpiCreate
  <2>1. Avoids(SetDacMode(0), Pinning)  BY <1>2, CallsAreCore, AvoidsFewer
  <2> QED  BY <1>1, <1>5, <2>1, AvoidsNone, Zenon DEF SpiCreate, At, Call
<1>6. CASE SpiCreateFails
  <2>1. Avoids(LedsRelease(version), Pinning)  BY <1>2, LedsAvoid
  <2> QED  BY <1>1, <1>6, <2>1, Zenon DEF SpiCreateFails, At, Call
<1>7. CASE AfeCreate
  <2>1. Avoids(AfeProbe, Pinning)  BY <1>2, CallsAreCore, AvoidsFewer
  <2> QED  BY <1>1, <1>7, <2>1, Zenon DEF AfeCreate, At, Call
<1>8. CASE AfeCreated
  <2>1. Avoids(Configure(Defaults), Pinning)  BY <1>2, CallsAreCore, AvoidsFewer
  <2>2. Avoids(PinOutSet("shutdown", 1) \o LedsRelease(version) \o SpiRelease, Pinning)
    <3>1. Avoids(PinOutSet("shutdown", 1), Pinning)  BY <1>2, PinsAreCore, AvoidsFewer
    <3>2. Avoids(LedsRelease(version), Pinning) /\ Avoids(SpiRelease, Pinning)
      BY <1>2, LedsAvoid, SpiReleaseAvoids
    <3> QED  BY <3>1, <3>2, AvoidsJoined
  <2> QED  BY <1>1, <1>8, <2>1, <2>2, AvoidsNone, Zenon DEF AfeCreated, At, Call
<1>9. CASE Initialize
  <2>1. PICK s \in Settings : todo' = [todo EXCEPT !["main"] = InitializeCape(s)]
    BY <1>9 DEF Initialize, Call
  <2>2. MayRun(InitializeCape(s))
    BY <1>9, InitializeInstalls DEF Initialize, MayRun
  <2> QED  BY <1>9, <2>1, <2>2, CallKeepsPins DEF Initialize, At
<1>10. CASE MenuActivate
  <2>1. Avoids(Activate, Pinning)  BY <1>2, ActivateAvoids
  <2> QED  BY <1>1, <1>10, <2>1, Zenon DEF MenuActivate, Menu, At, Call
<1>11. CASE MenuDeactivate
  <2>1. Avoids(Deactivate(comm), Pinning)  BY <1>2, DeactivateAvoids
  <2> QED  BY <1>1, <1>11, <2>1, Zenon DEF MenuDeactivate, Menu, At, Call
<1>12. CASE Deactivated
  BY <1>1, <1>12, AvoidsNone, Zenon DEF Deactivated, At, Call
<1>13. CASE MenuOverloads
  <2>1. Avoids(ClearOverloads, Pinning) /\ Avoids(GetOverloads, Pinning)
    BY <1>2, CallsAreCore, AvoidsFewer
  <2>2. happened \subseteq happened'  BY <1>13 DEF MenuOverloads
  <2> QED  BY <1>1, <1>13, <2>1, <2>2, Zenon DEF MenuOverloads, Menu, At, Call
<1>14. CASE MenuSettings
  <2>1. Avoids(TerminateCape, Pinning)  BY <1>2, TerminateAvoids
  <2> QED  BY <1>1, <1>14, <2>1, Zenon DEF MenuSettings, Menu, At, Call
<1>15. CASE MenuExit
  <2>1. Avoids(TerminateCape \o ReleaseCape, Pinning)
    BY <1>2, TerminateAvoids, ReleaseAvoids, AvoidsJoined
  <2> QED  BY <1>1, <1>15, <2>1, Zenon DEF MenuExit, At, Call
<1> QED
  BY <1>3, <1>4, <1>5, <1>6, <1>7, <1>8, <1>9, <1>10, <1>11, <1>12, <1>13, <1>14, <1>15 DEF Main

(* A program is given to another thread.                                   *)
LEMMA GivenKeepsPins ==
  ASSUME PinInv, NEW t \in Threads \ {"main"}, NEW p, Avoids(p, Pinning),
         todo' = [todo EXCEPT ![t] = p], TxTypes', acc' = acc, board' = board, FlagsKept,
         happened \subseteq happened'
  PROVE  PinInv'
<1>1. TodoInv' /\ todo' = [todo EXCEPT ![t] = todo'[t]] /\ todo'[t] = p
  BY DEF PinInv, TodoInv
<1>2. LevelsKept /\ PinTypes'  BY KeptPinTypes DEF PinInv
<1> QED  BY <1>1, <1>2, OthersKeepPins

LEMMA FlushAvoids ==
  ASSUME TxTypes, NEW samples, DOMAIN samples = 1..tx.len,
         NEW A, Alsa => "writei" \notin A, "transfer" \notin A
  PROVE  Avoids(FlushBuffer(samples), A)
<1>1. CASE Alsa
  BY <1>1, AvoidsOne DEF FlushBuffer
<1>2. CASE ~ Alsa /\ settings.bySample
  <2> DEFINE S == {TransferDacSample(samples[k])[1] : k \in 1..tx.len}
             u == [k \in DOMAIN samples |-> TransferDacSample(samples[k])[1]]
  <2>1. tx.len \in Nat  BY DEF TxTypes
  <2>2. u \in Seq(S)
    <3>1. \A k \in 1..tx.len : u[k] \in S  OBVIOUS
    <3>2. DOMAIN u = 1..tx.len /\ u = [k \in 1..tx.len |-> u[k]]  OBVIOUS
    <3> HIDE DEF u, S
    <3>3. u \in [1..tx.len -> S]  BY <3>1, <3>2
    <3> QED  BY <2>1, <3>3
  <2>3. \A s \in S : s.op \notin A
    <3>1. ASSUME NEW x PROVE TransferDacSample(x)[1].op = "transfer"
      BY DEF TransferDacSample, TransferDacBuffer
    <3>2. \A x : TransferDacSample(x)[1].op \notin A  BY <3>1
    <3> QED  BY <3>2
  <2>4. FlushBuffer(samples) = u  BY <1>2 DEF FlushBuffer
  <2> HIDE DEF u, S
  <2> QED  BY <2>2, <2>3, <2>4 DEF Avoids
<1>3. CASE ~ Alsa /\ ~ settings.bySample
  BY <1>3, AvoidsOne DEF FlushBuffer, TransferDacBuffer
<1> QED  BY <1>1, <1>2, <1>3

LEMMA CyclesKeepPins ==
  ASSUME PinInv, TxCycle \/ RxCycle \/ TimerStarts \/ TimerStops \/ TimerToggles PROVE PinInv'
<1>1. {"comm", "blink", "tx", "rx"} \subseteq Threads \ {"main"}  BY DEF Threads
<1>2. /\ Pinning \subseteq Special /\ Pinning \subseteq Special \ DacSteps
      /\ \A op \in Pinning : op \notin
        {"joinRx", "joinTx", "requestStop", "commOff", "supervisorOff", "startTx", "startRx",
         "commOn"}
  BY DEF Pinning, Special, DacSteps
<1>3. CASE TxCycle
  <2>1. acc' = acc /\ board' = board /\ FlagsKept /\ happened' = happened
    BY <1>3 DEF TxCycle, UserFrame, flagVars, FlagsKept
  <2>2. CASE tx.end
    <3>1. tx' = [tx EXCEPT !.thread = "gone"] /\ todo' = todo  BY <1>3, <2>2 DEF TxCycle
    <3>2. TxTypes'  BY <3>1 DEF PinInv, TxTypes
    <3>3. todo' = [todo EXCEPT !["tx"] = todo["tx"]] /\ Avoids(todo["tx"], Pinning)
      BY <1>1, <3>1 DEF PinInv, TodoInv, ShapeInv
    <3> QED  BY <1>1, <2>1, <3>2, <3>3, GivenKeepsPins
  <2>3. CASE ~ tx.end
    <3>1. tx' = [tx EXCEPT !.filled = @ + tx.len]
          /\ todo' = [todo EXCEPT !["tx"] = FlushBuffer(FillNext)]
      BY <1>3, <2>3 DEF TxCycle
    <3>2. TxTypes'  BY <3>1 DEF PinInv, TxTypes
    <3>3. Avoids(FlushBuffer(FillNext), Pinning)
      <4>1. DOMAIN FillNext = 1..tx.len  BY DEF FillNext
      <4> QED  BY <4>1, FlushAvoids DEF PinInv, Pinning
    <3> QED  BY <1>1, <2>1, <3>1, <3>2, <3>3, GivenKeepsPins
  <2> QED  BY <2>2, <2>3
<1>4. CASE RxCycle
  <2>1. PICK detected \in {0, 1} : todo' = [todo EXCEPT !["rx"] = SetRxActivity(detected)]
    BY <1>4 DEF RxCycle
  <2>2. acc' = acc /\ board' = board /\ FlagsKept /\ happened' = happened /\ tx' = tx
    BY <1>4 DEF RxCycle, flagVars, FlagsKept
  <2>3. Avoids(SetRxActivity(detected), Pinning)  BY <1>2, LedsAreCore, AvoidsFewer
  <2>4. TxTypes'  BY <2>2 DEF PinInv, TxTypes
  <2> QED  BY <1>1, <2>1, <2>2, <2>3, <2>4, GivenKeepsPins
<1>5. CASE TimerStarts \/ TimerStops
  <2>1. \E p \in {StartCommunication, StopCommunication, Deactivate(TRUE)} :
          todo' = [todo EXCEPT !["comm"] = p]
    BY <1>5 DEF TimerStarts, TimerStops
  <2>2. acc' = acc /\ board' = board /\ FlagsKept /\ happened \subseteq happened' /\ tx' = tx
    BY <1>5 DEF TimerStarts, TimerStops, UserFrame, flagVars, FlagsKept
  <2>3. \A p \in {StartCommunication, StopCommunication, Deactivate(TRUE)} : Avoids(p, Pinning)
    BY <1>2, StartAvoids, DeactivateAvoids
  <2>4. TxTypes'  BY <2>2 DEF PinInv, TxTypes
  <2> QED  BY <1>1, <2>1, <2>2, <2>3, <2>4, GivenKeepsPins
<1>6. CASE TimerToggles
  <2>1. todo' = [todo EXCEPT !["blink"] = ToggleAppActivity]  BY <1>6 DEF TimerToggles
  <2>2. acc' = acc /\ board' = board /\ FlagsKept /\ happened' = happened /\ tx' = tx
    BY <1>6 DEF TimerToggles, flagVars, FlagsKept
  <2>3. Avoids(ToggleAppActivity, Pinning)  BY <1>2, LedsAreCore, AvoidsFewer
  <2>4. TxTypes'  BY <2>2 DEF PinInv, TxTypes
  <2> QED  BY <1>1, <2>1, <2>2, <2>3, <2>4, GivenKeepsPins
<1> QED  BY <1>3, <1>4, <1>5, <1>6

LEMMA PinInvKept == PinInv /\ [Next]_vars => PinInv'
<1> SUFFICES ASSUME PinInv, [Next]_vars PROVE PinInv'  OBVIOUS
<1>1. CASE UNCHANGED vars
  BY <1>1, SameKeepsPins DEF vars, flagVars
<1>2. CASE Main  BY <1>2, MainKeepsPins
<1>3. ASSUME NEW t \in Threads, StepOf(t) PROVE PinInv'
  <2>1. CASE t = "main"  BY <1>3, <2>1, MainPlain, MainInstalls
  <2>2. CASE t # "main"  BY <1>3, <2>2, OtherSteps
  <2> QED  BY <2>1, <2>2
<1>4. CASE TxCycle \/ RxCycle \/ TimerStarts \/ TimerStops \/ TimerToggles  BY <1>4, CyclesKeepPins
<1>5. ASSUME NEW f \in Flags, NEW g \in Generations, CallbackOrphaned(f, g) PROVE PinInv'
  BY <1>5, SameKeepsPins DEF CallbackOrphaned, CallbackFrame
<1>6. CASE Callback  BY <1>5, <1>6, CallbacksKeepPins DEF Callback
<1>7. ASSUME NEW f \in Flags, Edge(f) PROVE PinInv'  BY <1>7, EdgeKeepsPins
<1>8. CASE Kernel
  <2>1. happened \subseteq happened'  BY <1>8 DEF Kernel, KernelEvent, KernelGoesOn
  <2> QED  BY <1>8, <2>1, SameKeepsPins DEF Kernel, UserUnchanged, flagVars
<1> QED  BY <1>1, <1>2, <1>3, <1>4, <1>6, <1>7, <1>8 DEF Next

(* FlagsFollowPins, for any number of pins, of initialisations and of      *)
(* edges: afe.c, libplc-gpio.                                              *)
THEOREM FlagsOfPins == Spec => []FlagsFollowPins
<1>1. Spec => []PinInv  BY PinInvInit, PinInvKept, PTL DEF Spec
<1> QED  BY <1>1, PinInvImplies, PTL

(***************************************************************************)
(*                     The order of a communication                        *)
(***************************************************************************)
(* The steps that begin and end one, and the word of them in a program.    *)
Key ==
  {"supervisorOn", "supervisorOff", "startTx", "startRx", "commOn", "commOff", "joinRx", "joinTx",
   "raise", "lower", "closeSpi"}
KeyOps == (Key \ {"raise", "lower"}) \cup {"dacMode"}
Label(s) ==
  IF s.op = "dacMode" THEN (IF s.on = 1 THEN "raise" ELSE "lower")
  ELSE IF s.op \in KeyOps THEN s.op ELSE "none"

Marks(p, w, e) ==
  /\ e \in [1..Len(w) -> 1..Len(p)]
  /\ \A i, j \in 1..Len(w) : i < j => e[i] < e[j]
  /\ \A i \in 1..Len(w) : Label(p[e[i]]) = w[i]
  /\ \A k \in 1..Len(p) : Label(p[k]) \in Key => \E i \in 1..Len(w) : e[i] = k

Shows(p, w) == (\E S : p \in Seq(S)) /\ w \in Seq(Key) /\ \E e : Marks(p, w, e)

LEMMA ShowsNothing ==
  ASSUME NEW p, Avoids(p, KeyOps) PROVE Shows(p, <<>>)
<1>1. PICK S : p \in Seq(S) /\ \A s \in S : s.op \notin KeyOps  BY DEF Avoids
<1> DEFINE e == [i \in 1..0 |-> 0]
           w == <<>>
<1>2. \A k \in 1..Len(p) : Label(p[k]) \notin Key
  <2>1. ASSUME NEW s, s.op \notin KeyOps PROVE Label(s) \notin Key
    BY <2>1 DEF Label, Key, KeyOps
  <2> QED  BY <1>1, <2>1
<1>3. Len(w) = 0 /\ w \in Seq(Key)  OBVIOUS
<1>4. e \in [1..0 -> 1..Len(p)]  OBVIOUS
<1> HIDE DEF e, w
<1>5. Marks(p, w, e)  BY <1>2, <1>3, <1>4 DEF Marks
<1>6. Shows(p, w)  BY <1>1, <1>3, <1>5 DEF Shows
<1> QED  BY <1>6 DEF w

LEMMA ShowsOne ==
  ASSUME NEW s, Label(s) \in Key PROVE Shows(<<s>>, <<Label(s)>>)
<1> DEFINE e == [i \in 1..1 |-> 1]
           p == <<s>>
           w == <<Label(s)>>
<1>1. Len(w) = 1 /\ w \in Seq(Key) /\ Len(p) = 1 /\ p[1] = s /\ w[1] = Label(s) /\ p \in Seq({s})
  OBVIOUS
<1>2. e \in [1..1 -> 1..1] /\ e[1] = 1  OBVIOUS
<1> HIDE DEF e, p, w
<1>3. Marks(p, w, e)  BY <1>1, <1>2 DEF Marks
<1>4. Shows(p, w)  BY <1>1, <1>3 DEF Shows
<1> QED  BY <1>4 DEF p, w

LEMMA ShowsEmpty == ASSUME NEW w, Shows(<<>>, w) PROVE w = <<>>
<1> DEFINE p == <<>>
<1>1. Len(p) = 0  OBVIOUS
<1>2. w \in Seq(Key) /\ \E e : Marks(p, w, e)  BY DEF Shows
<1> HIDE DEF p
<1>3. Len(w) = 0
  <2>1. PICK e : Marks(p, w, e)  BY <1>2
  <2>2. \A i \in 1..Len(w) : e[i] \in 1..0  BY <1>1, <2>1 DEF Marks
  <2>3. Len(w) \in Nat  BY <1>2
  <2>4. Len(w) # 0 => 1 \in 1..Len(w)  BY <2>3
  <2> QED  BY <2>2, <2>3, <2>4
<1> QED  BY <1>2, <1>3

LEMMA ShowsJoined ==
  ASSUME NEW p, NEW q, NEW v, NEW w, Shows(p, v), Shows(q, w) PROVE Shows(p \o q, v \o w)
<1> DEFINE r == p \o q
           u == v \o w
           n == Len(p)
           m == Len(v)
<1>1. PICK S : p \in Seq(S)  BY DEF Shows
<1>2. PICK T : q \in Seq(T)  BY DEF Shows
<1>3. PICK d : Marks(p, v, d)  BY DEF Shows
<1>4. PICK e : Marks(q, w, e)  BY DEF Shows
<1>5. v \in Seq(Key) /\ w \in Seq(Key)  BY DEF Shows
<1>6. /\ Len(u) = m + Len(w) /\ m \in Nat /\ Len(w) \in Nat /\ u \in Seq(Key)
      /\ \A i \in 1..Len(u) : u[i] = IF i <= m THEN v[i] ELSE w[i - m]
  BY <1>5
<1>7. /\ Len(r) = n + Len(q) /\ n \in Nat /\ Len(q) \in Nat /\ r \in Seq(S \cup T)
      /\ \A i \in 1..Len(r) : r[i] = IF i <= n THEN p[i] ELSE q[i - n]
  BY <1>1, <1>2
<1> DEFINE c == [i \in 1..Len(u) |-> IF i <= m THEN d[i] ELSE n + e[i - m]]
<1> HIDE DEF r, u, n, m
<1>8. \A i \in 1..m : d[i] \in 1..n  BY <1>3 DEF Marks, n, m
<1>9. \A i \in 1..Len(w) : e[i] \in 1..Len(q)  BY <1>4 DEF Marks
<1>10. \A i \in 1..Len(u) : i <= m \/ i - m \in 1..Len(w)  BY <1>6
<1>11. \A i \in 1..Len(u) :
         /\ i <= m => i \in 1..m /\ c[i] = d[i] /\ c[i] \in 1..n
         /\ ~ (i <= m) => i - m \in 1..Len(w) /\ c[i] = n + e[i - m] /\ c[i] > n
                            /\ c[i] \in 1..Len(r) /\ c[i] - n = e[i - m]
  <2> SUFFICES ASSUME NEW i \in 1..Len(u)
               PROVE  /\ i <= m => i \in 1..m /\ c[i] = d[i] /\ c[i] \in 1..n
                      /\ ~ (i <= m) => i - m \in 1..Len(w) /\ c[i] = n + e[i - m] /\ c[i] > n
                                         /\ c[i] \in 1..Len(r) /\ c[i] - n = e[i - m]
    OBVIOUS
  <2>1. c[i] = IF i <= m THEN d[i] ELSE n + e[i - m]  OBVIOUS
  <2> HIDE DEF c
  <2>2. CASE i <= m  BY <1>6, <1>8, <2>1, <2>2
  <2>3. CASE ~ (i <= m)
    <3>1. i - m \in 1..Len(w)  BY <1>10, <2>3
    <3>2. e[i - m] \in 1..Len(q)  BY <1>9, <3>1
    <3> QED  BY <1>7, <2>1, <2>3, <3>1, <3>2
  <2> QED  BY <2>2, <2>3
<1>12. DOMAIN c = 1..Len(u) /\ c = [i \in 1..Len(u) |-> c[i]]  OBVIOUS
<1> HIDE DEF c
<1>13. \A i \in 1..Len(u) : c[i] \in 1..Len(r)  BY <1>7, <1>11
<1>14. c \in [1..Len(u) -> 1..Len(r)]  BY <1>12, <1>13
<1>15. ASSUME NEW i \in 1..Len(u), NEW j \in 1..Len(u), i < j PROVE c[i] < c[j]
  <2>1. CASE j <= m
    <3>1. i <= m  BY <1>6, <1>15, <2>1
    <3> QED  BY <1>3, <1>11, <1>15, <2>1, <3>1 DEF Marks, m
  <2>2. CASE i <= m /\ ~ (j <= m)
    <3>1. c[i] \in 1..n /\ c[j] > n /\ c[j] \in Int  BY <1>11, <1>13, <2>2
    <3> QED  BY <1>7, <3>1
  <2>3. CASE ~ (i <= m) /\ ~ (j <= m)
    <3>1. i - m \in 1..Len(w) /\ j - m \in 1..Len(w) /\ i - m < j - m
      BY <1>6, <1>11, <1>15, <2>3
    <3>2. e[i - m] < e[j - m]  BY <1>4, <3>1 DEF Marks
    <3>3. e[i - m] \in Int /\ e[j - m] \in Int  BY <1>9, <3>1
    <3> QED  BY <1>7, <1>11, <2>3, <3>2, <3>3
  <2> QED  BY <1>6, <1>15, <2>1, <2>2, <2>3
<1>16. ASSUME NEW i \in 1..Len(u) PROVE Label(r[c[i]]) = u[i]
  <2>1. CASE i <= m
    <3>1. r[c[i]] = p[d[i]] /\ u[i] = v[i] /\ i \in 1..m  BY <1>6, <1>7, <1>11, <1>13, <2>1
    <3> QED  BY <1>3, <3>1 DEF Marks, m
  <2>2. CASE ~ (i <= m)
    <3>1. u[i] = w[i - m] /\ i - m \in 1..Len(w)  BY <1>6, <1>11, <2>2
    <3>2. c[i] \in 1..Len(r) /\ c[i] > n /\ c[i] - n = e[i - m]  BY <1>11, <2>2
    <3>3. r[c[i]] = q[e[i - m]]  BY <1>7, <3>2
    <3> QED  BY <1>4, <3>1, <3>3 DEF Marks
  <2> QED  BY <2>1, <2>2
<1>17. ASSUME NEW k \in 1..Len(r), Label(r[k]) \in Key PROVE \E i \in 1..Len(u) : c[i] = k
  <2>1. CASE k <= n
    <3>1. r[k] = p[k] /\ k \in 1..n  BY <1>7, <2>1
    <3>2. PICK i \in 1..m : d[i] = k  BY <1>3, <1>17, <3>1 DEF Marks, n, m
    <3>3. i \in 1..Len(u) /\ i <= m  BY <1>6
    <3> QED  BY <1>11, <3>2, <3>3
  <2>2. CASE ~ (k <= n)
    <3>1. r[k] = q[k - n] /\ k - n \in 1..Len(q)  BY <1>7, <2>2
    <3>2. PICK i \in 1..Len(w) : e[i] = k - n  BY <1>4, <1>17, <3>1 DEF Marks
    <3>3. i + m \in 1..Len(u) /\ ~ (i + m <= m) /\ (i + m) - m = i  BY <1>6
    <3>4. c[i + m] = n + e[i]
      <4>1. c[i + m] = n + e[(i + m) - m]  BY <1>11, <3>3
      <4> QED  BY <3>3, <4>1
    <3> QED  BY <1>7, <3>2, <3>3, <3>4
  <2> QED  BY <2>1, <2>2
<1>18. Marks(r, u, c)  BY <1>14, <1>15, <1>16, <1>17 DEF Marks
<1>19. Shows(r, u)  BY <1>6, <1>7, <1>18 DEF Shows
<1> QED  BY <1>19 DEF r, u

LEMMA ShowsAlone ==
  ASSUME NEW p, NEW q, NEW w, Shows(p, w), Avoids(q, KeyOps)
  PROVE  Shows(p \o q, w) /\ Shows(q \o p, w)
<1>1. Shows(q, <<>>)  BY ShowsNothing
<1>2. w \o <<>> = w /\ <<>> \o w = w  BY DEF Shows
<1> QED  BY <1>1, <1>2, ShowsJoined

LEMMA ShowsRest ==
  ASSUME NEW p, NEW w, Shows(p, w), p # <<>>
  PROVE  /\ Label(Head(p)) \in Key => /\ w # <<>> /\ Head(w) = Label(Head(p))
                                      /\ Shows(Tail(p), Tail(w))
         /\ Label(Head(p)) \notin Key => Shows(Tail(p), w)
<1> DEFINE n == Len(p)
           m == Len(w)
<1>1. PICK S : p \in Seq(S)  BY DEF Shows
<1>2. PICK e : Marks(p, w, e)  BY DEF Shows
<1>3. w \in Seq(Key) /\ m \in Nat /\ \A i \in 1..m : w[i] \in Key  BY DEF Shows
<1>4. /\ n \in Nat \ {0} /\ Head(p) = p[1] /\ Tail(p) \in Seq(S) /\ Len(Tail(p)) = n - 1
      /\ \A k \in 1..n - 1 : Tail(p)[k] = p[k + 1]
  BY <1>1
<1> HIDE DEF n, m
<1>5. /\ \A i \in 1..m : e[i] \in 1..n /\ Label(p[e[i]]) = w[i]
      /\ \A i, j \in 1..m : i < j => e[i] < e[j]
      /\ \A k \in 1..n : Label(p[k]) \in Key => \E i \in 1..m : e[i] = k
  BY <1>2 DEF Marks, n, m
<1>6. CASE Label(Head(p)) \in Key
  <2>1. PICK i \in 1..m : e[i] = 1  BY <1>4, <1>5, <1>6
  <2>2. i = 1
    <3>1. i # 1 => 1 \in 1..m /\ 1 < i  BY <1>3
    <3>2. i # 1 => e[1] < 1 /\ e[1] \in 1..n  BY <1>5, <2>1, <3>1
    <3> QED  BY <1>4, <3>2
  <2>3. m # 0 /\ 1 \in 1..m /\ e[1] = 1  BY <1>3, <2>1, <2>2
  <2>4. w # <<>> /\ Head(w) = w[1] /\ Tail(w) \in Seq(Key) /\ Len(Tail(w)) = m - 1
        /\ \A j \in 1..m - 1 : Tail(w)[j] = w[j + 1]
    BY <1>3, <2>3 DEF m
  <2>5. Head(w) = Label(Head(p))  BY <1>4, <1>5, <2>3, <2>4
  <2> DEFINE d == [j \in 1..m - 1 |-> e[j + 1] - 1]
  <2>6. \A j \in 1..m - 1 : j + 1 \in 1..m /\ 1 < j + 1  BY <1>3
  <2>7. \A j \in 1..m - 1 : d[j] = e[j + 1] - 1 /\ d[j] \in 1..n - 1 /\ d[j] + 1 = e[j + 1]
    <3> SUFFICES ASSUME NEW j \in 1..m - 1
                 PROVE  d[j] = e[j + 1] - 1 /\ d[j] \in 1..n - 1 /\ d[j] + 1 = e[j + 1]
      OBVIOUS
    <3>1. d[j] = e[j + 1] - 1  OBVIOUS
    <3>2. e[j + 1] \in 1..n /\ e[1] < e[j + 1]  BY <1>5, <2>3, <2>6
    <3> HIDE DEF d
    <3> QED  BY <1>4, <2>3, <3>1, <3>2
  <2>8. d \in [1..m - 1 -> 1..n - 1]
    <3>1. d = [j \in 1..m - 1 |-> d[j]]  OBVIOUS
    <3> HIDE DEF d
    <3> QED  BY <2>7, <3>1
  <2> HIDE DEF d
  <2>9. \A i1, j1 \in 1..m - 1 : i1 < j1 => d[i1] < d[j1]
    <3> SUFFICES ASSUME NEW i1 \in 1..m - 1, NEW j1 \in 1..m - 1, i1 < j1 PROVE d[i1] < d[j1]
      OBVIOUS
    <3>1. e[i1 + 1] < e[j1 + 1]
      <4>1. i1 + 1 < j1 + 1  BY <1>3
      <4> QED  BY <1>5, <2>6, <4>1
    <3>2. e[i1 + 1] \in Int /\ e[j1 + 1] \in Int  BY <1>5, <2>6
    <3> QED  BY <2>7, <3>1, <3>2
  <2>10. \A j \in 1..m - 1 : Label(Tail(p)[d[j]]) = Tail(w)[j]
    BY <1>4, <1>5, <2>4, <2>6, <2>7
  <2>11. ASSUME NEW k \in 1..n - 1, Label(Tail(p)[k]) \in Key PROVE \E j \in 1..m - 1 : d[j] = k
    <3>1. k + 1 \in 1..n /\ k + 1 # 1  BY <1>4
    <3>2. PICK j \in 1..m : e[j] = k + 1  BY <1>4, <1>5, <2>11, <3>1
    <3>3. j # 1  BY <2>3, <3>1, <3>2
    <3>4. j - 1 \in 1..m - 1 /\ (j - 1) + 1 = j  BY <1>3, <3>3
    <3>5. d[j - 1] = (k + 1) - 1  BY <2>7, <3>2, <3>4
    <3> QED  BY <3>4, <3>5
  <2>12. Marks(Tail(p), Tail(w), d)  BY <1>4, <2>4, <2>8, <2>9, <2>10, <2>11 DEF Marks
  <2>13. Shows(Tail(p), Tail(w))  BY <1>4, <2>4, <2>12 DEF Shows
  <2> QED  BY <1>6, <2>4, <2>5, <2>13
<1>7. CASE Label(Head(p)) \notin Key
  <2>1. \A j \in 1..m : e[j] # 1  BY <1>3, <1>4, <1>5, <1>7
  <2> DEFINE d == [j \in 1..m |-> e[j] - 1]
  <2>2. \A j \in 1..m : d[j] = e[j] - 1 /\ d[j] \in 1..n - 1 /\ d[j] + 1 = e[j]
    <3> SUFFICES ASSUME NEW j \in 1..m
                 PROVE  d[j] = e[j] - 1 /\ d[j] \in 1..n - 1 /\ d[j] + 1 = e[j]
      OBVIOUS
    <3>1. d[j] = e[j] - 1 /\ e[j] # 1 /\ e[j] \in 1..n  BY <1>5, <2>1
    <3> HIDE DEF d
    <3> QED  BY <1>4, <3>1
  <2>3. d \in [1..m -> 1..n - 1]
    <3>1. d = [j \in 1..m |-> d[j]]  OBVIOUS
    <3> HIDE DEF d
    <3> QED  BY <2>2, <3>1
  <2> HIDE DEF d
  <2>4. \A i1, j1 \in 1..m : i1 < j1 => d[i1] < d[j1]
    <3> SUFFICES ASSUME NEW i1 \in 1..m, NEW j1 \in 1..m, i1 < j1 PROVE d[i1] < d[j1]
      OBVIOUS
    <3>1. e[i1] < e[j1] /\ e[i1] \in Int /\ e[j1] \in Int  BY <1>5
    <3> QED  BY <2>2, <3>1
  <2>5. \A j \in 1..m : Label(Tail(p)[d[j]]) = w[j]  BY <1>4, <1>5, <2>2
  <2>6. ASSUME NEW k \in 1..n - 1, Label(Tail(p)[k]) \in Key PROVE \E j \in 1..m : d[j] = k
    <3>1. k + 1 \in 1..n  BY <1>4
    <3>2. PICK j \in 1..m : e[j] = k + 1  BY <1>4, <1>5, <2>6, <3>1
    <3>3. d[j] = (k + 1) - 1  BY <2>2, <3>2
    <3> QED  BY <3>3
  <2>7. Marks(Tail(p), w, d)
    BY <1>4, <2>3, <2>4, <2>5, <2>6 DEF Marks, m
  <2>8. Shows(Tail(p), w)  BY <1>3, <1>4, <2>7 DEF Shows
  <2> QED  BY <1>7, <2>8
<1> QED  BY <1>6, <1>7

(* Sequences written out.                                                  *)
SameSteps(s, t, S) ==
  s \in Seq(S) /\ t \in Seq(S) /\ Len(s) = Len(t) /\ \A i \in 1..Len(s) : s[i] = t[i]

LEMMA AreSame == ASSUME NEW s, NEW t, NEW S, SameSteps(s, t, S) PROVE s = t
  BY DEF SameSteps

LEMMA Written2 == ASSUME NEW a, NEW b PROVE <<a>> \o <<b>> = <<a, b>>
<1>1. SameSteps(<<a>> \o <<b>>, <<a, b>>, {a, b})  BY DEF SameSteps
<1> QED  BY <1>1, AreSame

LEMMA Written3 == ASSUME NEW a, NEW b, NEW c PROVE <<a>> \o <<b, c>> = <<a, b, c>>
<1>1. SameSteps(<<a>> \o <<b, c>>, <<a, b, c>>, {a, b, c})  BY DEF SameSteps
<1> QED  BY <1>1, AreSame

LEMMA Written4 ==
  ASSUME NEW a, NEW b, NEW c, NEW d PROVE ((<<a>> \o <<b>>) \o <<c>>) \o <<d>> = <<a, b, c, d>>
<1>1. SameSteps(((<<a>> \o <<b>>) \o <<c>>) \o <<d>>, <<a, b, c, d>>, {a, b, c, d})
  BY DEF SameSteps
<1> QED  BY <1>1, AreSame

LEMMA Written5 ==
  ASSUME NEW a, NEW b, NEW c, NEW d, NEW e
  PROVE  (((<<a>> \o <<b>>) \o <<c>>) \o <<d>>) \o <<e>> = <<a, b, c, d, e>>
<1>1. SameSteps((((<<a>> \o <<b>>) \o <<c>>) \o <<d>>) \o <<e>>, <<a, b, c, d, e>>,
                {a, b, c, d, e})
  BY DEF SameSteps
<1> QED  BY <1>1, AreSame

LEMMA WrittenFirst ==
  ASSUME NEW a, NEW b, NEW c, NEW d, NEW e PROVE <<a>> \o <<b, c, d, e>> = <<a, b, c, d, e>>
<1>1. SameSteps(<<a>> \o <<b, c, d, e>>, <<a, b, c, d, e>>, {a, b, c, d, e})
  BY DEF SameSteps
<1> QED  BY <1>1, AreSame

(* The words of the programs.                                              *)
Starting == <<"supervisorOn", "raise", "startTx", "startRx", "commOn">>
Stopping == <<"joinRx", "joinTx", "lower", "commOff", "supervisorOff">>
Pause == <<"joinRx", "joinTx", "lower", "commOff">>
Undoing == <<"joinTx", "lower", "supervisorOff">>

LEMMA KeysAreSpecial ==
  /\ KeyOps \subseteq Special
  /\ KeyOps \subseteq Special \ {"ledsReady", "ledsGone"}
  BY DEF KeyOps, Key, Special, DacSteps

LEMMA WordOfStep ==
  ASSUME NEW op, op \in Key \ {"raise", "lower"} PROVE Shows(Step(op), <<op>>)
<1> DEFINE s == [op |-> op]
<1>1. Label(s) = op  BY DEF Label, KeyOps, Key
<1>2. Step(op) = <<s>>  BY DEF Step
<1> HIDE DEF s
<1> QED  BY <1>1, <1>2, ShowsOne

LEMMA QuietStep == ASSUME NEW op, op \notin KeyOps PROVE Avoids(Step(op), KeyOps)
  BY StepAvoids

LEMMA WordOfDacMode ==
  Shows(SetDacMode(1), <<"raise">>) /\ Shows(SetDacMode(0), <<"lower">>)
<1>1. ASSUME NEW x PROVE Shows(SetDacMode(x), <<Label([op |-> "dacMode", on |-> x])>>)
  <2> DEFINE a == [op |-> "dacMode", on |-> x]
             b == [op |-> "bits", on |-> x]
             c == [op |-> "speed", on |-> x]
  <2>1. Label(a) \in Key  BY DEF Label, Key
  <2>2. b.op \notin KeyOps /\ c.op \notin KeyOps  BY DEF KeyOps, Key
  <2>3. SetDacMode(x) = (<<a>> \o <<b, c>>) \o PinOutSet("dac", x)
    <3>1. SetDacMode(x) = <<a, b, c>> \o PinOutSet("dac", x)  BY DEF SetDacMode
    <3>2. <<a>> \o <<b, c>> = <<a, b, c>>  BY Written3
    <3> QED  BY <3>1, <3>2
  <2> HIDE DEF a, b, c
  <2>4. Avoids(<<b, c>>, KeyOps)  BY <2>2, AvoidsTwo
  <2>5. Avoids(PinOutSet("dac", x), KeyOps)  BY PinsAreCore, AvoidsFewer, KeysAreSpecial
  <2>6. Shows(<<a>>, <<Label(a)>>)  BY <2>1, ShowsOne
  <2>7. Shows(SetDacMode(x), <<Label(a)>>)  BY <2>3, <2>4, <2>5, <2>6, ShowsAlone
  <2> QED  BY <2>7 DEF a
<1>2. Label([op |-> "dacMode", on |-> 1]) = "raise" /\ Label([op |-> "dacMode", on |-> 0]) = "lower"
  BY DEF Label
<1> QED  BY <1>1, <1>2

LEMMA QuietCalls ==
  ASSUME NEW x, NEW v
  PROVE  /\ Avoids(SetAppActivity(v, x), KeyOps) /\ Avoids(SetTxActivity(x), KeyOps)
         /\ Avoids(SetRxActivity(x), KeyOps) /\ Avoids(ToggleAppActivity, KeyOps)
         /\ Avoids(DisableAll, KeyOps) /\ Avoids(ActivateBlocks(x), KeyOps)
         /\ Avoids(Configure(x), KeyOps) /\ Avoids(ClearOverloads, KeyOps)
         /\ Avoids(GetOverloads, KeyOps) /\ Avoids(SetCalibrationMode(x), KeyOps)
         /\ Avoids(SetStandby(x), KeyOps) /\ Avoids(AfeProbe, KeyOps)
         /\ Avoids(LedsCreate(version), KeyOps) /\ Avoids(LedsRelease(version), KeyOps)
         /\ Avoids(TerminateCape, KeyOps) /\ Avoids(PinOutSet(v, x), KeyOps)
<1>1. \A p : Avoids(p, Special) => Avoids(p, KeyOps)  BY KeysAreSpecial, AvoidsFewer
<1>2. /\ Avoids(SetAppActivity(v, x), KeyOps) /\ Avoids(SetTxActivity(x), KeyOps)
      /\ Avoids(SetRxActivity(x), KeyOps) /\ Avoids(ToggleAppActivity, KeyOps)
      /\ Avoids(PinOutSet(v, x), KeyOps)
  BY <1>1, LedsAreCore, PinsAreCore
<1>3. /\ Avoids(DisableAll, KeyOps) /\ Avoids(ActivateBlocks(x), KeyOps)
      /\ Avoids(Configure(x), KeyOps) /\ Avoids(ClearOverloads, KeyOps)
      /\ Avoids(GetOverloads, KeyOps) /\ Avoids(SetCalibrationMode(x), KeyOps)
      /\ Avoids(SetStandby(x), KeyOps) /\ Avoids(AfeProbe, KeyOps)
  BY <1>1, CallsAreCore
<1>4. Avoids(LedsCreate(version), KeyOps) /\ Avoids(LedsRelease(version), KeyOps)
      /\ Avoids(TerminateCape, KeyOps)
  BY KeysAreSpecial, LedsAvoid, TerminateAvoids
<1> QED  BY <1>2, <1>3, <1>4

LEMMA WordOfStart == Shows(StartCommunication, Tail(Starting))
<1> DEFINE b == ActivateBlocks(settings.blocks)
           c == SetDacMode(1)
           d == Step("startTx")
           e == SetTxActivity(1)
           f == Step("startRx")
           g == Step("commOn")
<1>1. StartCommunication = ((((b \o c) \o d) \o e) \o f) \o g  BY DEF StartCommunication
<1>2. Shows(d, <<"startTx">>) /\ Shows(f, <<"startRx">>) /\ Shows(g, <<"commOn">>)
  BY WordOfStep DEF Key
<1>3. Avoids(b, KeyOps) /\ Avoids(e, KeyOps) /\ Shows(c, <<"raise">>)  BY QuietCalls, WordOfDacMode
<1> HIDE DEF b, c, d, e, f, g
<1>4. Shows(b \o c, <<"raise">>)  BY <1>3, ShowsAlone
<1>5. Shows(((b \o c) \o d) \o e, <<"raise">> \o <<"startTx">>)
  BY <1>2, <1>3, <1>4, ShowsAlone, ShowsJoined
<1>6. Shows(StartCommunication,
            ((<<"raise">> \o <<"startTx">>) \o <<"startRx">>) \o <<"commOn">>)
  BY <1>1, <1>2, <1>5, ShowsJoined
<1>7. ((<<"raise">> \o <<"startTx">>) \o <<"startRx">>) \o <<"commOn">>
        = <<"raise", "startTx", "startRx", "commOn">>
  BY Written4
<1>8. Tail(Starting) = <<"raise", "startTx", "startRx", "commOn">>  BY DEF Starting
<1> QED  BY <1>6, <1>7, <1>8

LEMMA WordOfActivate ==
  IF settings.periodic THEN Shows(Activate, <<"supervisorOn">>) ELSE Shows(Activate, Starting)
<1> DEFINE a == Step("supervisorOn")
<1>1. Shows(a, <<"supervisorOn">>) /\ Avoids(<<>>, KeyOps)
  BY WordOfStep, AvoidsNone DEF Key
<1>2. Activate = a \o (IF settings.periodic THEN <<>> ELSE StartCommunication)  BY DEF Activate
<1> HIDE DEF a
<1>3. CASE settings.periodic
  BY <1>1, <1>2, <1>3, ShowsAlone
<1>4. CASE ~ settings.periodic
  <2>1. Shows(Activate, <<"supervisorOn">> \o Tail(Starting))
    BY <1>1, <1>2, <1>4, WordOfStart, ShowsJoined
  <2>2. Tail(Starting) = <<"raise", "startTx", "startRx", "commOn">>  BY DEF Starting
  <2>3. <<"supervisorOn">> \o <<"raise", "startTx", "startRx", "commOn">> = Starting
    BY WrittenFirst, Zenon DEF Starting
  <2> QED  BY <1>4, <2>1, <2>2, <2>3
<1> QED  BY <1>3, <1>4

LEMMA WordOfDeactivate ==
  /\ Shows(Deactivate(TRUE), Stopping) /\ Shows(Deactivate(FALSE), <<"supervisorOff">>)
  /\ Shows(StopCommunication, Pause)
<1> DEFINE a == Step("joinRx")
           b == SetRxActivity(0)
           c == Step("requestStop")
           d == Step("joinTx")
           e == SetTxActivity(0)
           f == SetDacMode(0)
           g == DisableAll
           h == Step("commOff")
           i == Step("supervisorOff")
           j == SetAppActivity(version, 1)
<1>1. StopCommunication = ((((((a \o b) \o c) \o d) \o e) \o f) \o g) \o h
  BY DEF StopCommunication
<1>2. /\ Deactivate(TRUE) = (StopCommunication \o i) \o j
      /\ Deactivate(FALSE) = (<<>> \o i) \o j
  BY DEF Deactivate
<1>3. /\ Shows(a, <<"joinRx">>) /\ Shows(d, <<"joinTx">>) /\ Shows(h, <<"commOff">>)
      /\ Shows(i, <<"supervisorOff">>)
  BY WordOfStep DEF Key
<1>4. /\ Avoids(b, KeyOps) /\ Avoids(e, KeyOps) /\ Avoids(g, KeyOps) /\ Avoids(j, KeyOps)
      /\ Shows(f, <<"lower">>)
  BY QuietCalls, WordOfDacMode
<1>5. Avoids(c, KeyOps)  BY QuietStep DEF KeyOps, Key
<1>6. Avoids(<<>>, KeyOps)  BY AvoidsNone
<1> HIDE DEF a, b, c, d, e, f, g, h, i, j
<1>7. Shows(((a \o b) \o c) \o d, <<"joinRx">> \o <<"joinTx">>)
  BY <1>3, <1>4, <1>5, ShowsAlone, ShowsJoined
<1>8. Shows((((((a \o b) \o c) \o d) \o e) \o f) \o g,
            (<<"joinRx">> \o <<"joinTx">>) \o <<"lower">>)
  BY <1>4, <1>7, ShowsAlone, ShowsJoined
<1>9. Shows((StopCommunication \o i) \o j,
            (((<<"joinRx">> \o <<"joinTx">>) \o <<"lower">>) \o <<"commOff">>)
              \o <<"supervisorOff">>)
  BY <1>1, <1>3, <1>4, <1>8, ShowsAlone, ShowsJoined
<1>10. (((<<"joinRx">> \o <<"joinTx">>) \o <<"lower">>) \o <<"commOff">>)
              \o <<"supervisorOff">> = Stopping
  BY Written5, ZenonT(40) DEF Stopping
<1>11. Shows(Deactivate(TRUE), Stopping)  BY <1>2, <1>9, <1>10
<1>12. Shows(Deactivate(FALSE), <<"supervisorOff">>)  BY <1>2, <1>3, <1>4, <1>6, ShowsAlone
<1>13. Shows(StopCommunication,
             ((<<"joinRx">> \o <<"joinTx">>) \o <<"lower">>) \o <<"commOff">>)
  BY <1>1, <1>3, <1>8, ShowsJoined
<1>14. ((<<"joinRx">> \o <<"joinTx">>) \o <<"lower">>) \o <<"commOff">> = Pause
  BY Written4 DEF Pause
<1> QED  BY <1>11, <1>12, <1>13, <1>14

LEMMA WordOfAbandon ==
  Shows(AbandonTx, <<"lower", "supervisorOff">>) /\ Shows(AbandonRx, Undoing)
<1> DEFINE a == SetDacMode(0)
           b == DisableAll
           c == Deactivate(FALSE)
           d == Step("requestStop")
           e == Step("joinTx")
           f == SetTxActivity(0)
<1>1. AbandonTx = (a \o b) \o c /\ AbandonRx = ((d \o e) \o f) \o AbandonTx
  BY DEF AbandonTx, AbandonRx
<1>2. Shows(a, <<"lower">>) /\ Shows(c, <<"supervisorOff">>) /\ Shows(e, <<"joinTx">>)
  BY WordOfDacMode, WordOfDeactivate, WordOfStep DEF Key
<1>3. Avoids(b, KeyOps) /\ Avoids(f, KeyOps) /\ Avoids(d, KeyOps)
  <2>1. "requestStop" \notin KeyOps  BY DEF KeyOps, Key
  <2> QED  BY <2>1, QuietCalls, QuietStep
<1> HIDE DEF a, b, c, d, e, f
<1>4. Shows(AbandonTx, <<"lower">> \o <<"supervisorOff">>)
  BY <1>1, <1>2, <1>3, ShowsAlone, ShowsJoined
<1>5. <<"lower">> \o <<"supervisorOff">> = <<"lower", "supervisorOff">>  BY Written2
<1>6. Shows(AbandonTx, <<"lower", "supervisorOff">>)  BY <1>4, <1>5
<1>7. Shows((d \o e) \o f, <<"joinTx">>)  BY <1>2, <1>3, ShowsAlone
<1>8. Shows(AbandonRx, <<"joinTx">> \o <<"lower", "supervisorOff">>)
  BY <1>1, <1>6, <1>7, ShowsJoined
<1>9. <<"joinTx">> \o <<"lower", "supervisorOff">> = Undoing  BY Written3 DEF Undoing
<1> QED  BY <1>6, <1>8, <1>9

LEMMA WordsOfRelease ==
  /\ Shows((PinOutSet("shutdown", 1) \o LedsRelease(version)) \o SpiRelease, <<"closeSpi">>)
  /\ Shows(TerminateCape \o ReleaseCape, <<"closeSpi">>)
<1>1. Shows(SpiRelease, <<"closeSpi">>)
  <2>1. Shows(Step("closeSpi"), <<"closeSpi">>)  BY WordOfStep DEF Key
  <2>2. Avoids(PinOutSet("dac", 0), KeyOps)  BY QuietCalls
  <2> QED  BY <2>1, <2>2, ShowsAlone DEF SpiRelease
<1>2. Avoids(PinOutSet("shutdown", 1) \o LedsRelease(version), KeyOps)
  BY QuietCalls, AvoidsJoined
<1>3. Avoids(AfeRelease(1, FlagPins), KeyOps)
  <2> DEFINE u == [k \in 1..Len(FlagPins) |-> [op |-> "unhook", flag |-> FlagPins[k]]]
             S == {[op |-> "unhook", flag |-> f] : f \in Flags}
  <2>1. u \in Seq(S)
    <3>1. Len(FlagPins) \in Nat /\ \A k \in 1..Len(FlagPins) : FlagPins[k] \in Flags
      BY PinsAssumption
    <3> QED  BY <3>1
  <2>2. \A s \in S : s.op \notin KeyOps  BY DEF KeyOps, Key
  <2> HIDE DEF S
  <2>3. Avoids(u, KeyOps)  BY <2>1, <2>2 DEF Avoids
  <2>4. AfeRelease(1, FlagPins) = SetStandby(0) \o DisableAll \o SetStandby(1) \o u
    BY DEF AfeRelease
  <2> HIDE DEF u
  <2> QED  BY <2>3, <2>4, QuietCalls, AvoidsJoined
<1>4. Avoids(LedsRelease(version), KeyOps) /\ Avoids(TerminateCape, KeyOps)  BY QuietCalls
<1>5. Shows(ReleaseCape, <<"closeSpi">>)  BY <1>1, <1>3, <1>4, ShowsAlone DEF ReleaseCape
<1> QED  BY <1>1, <1>2, <1>4, <1>5, ShowsAlone

LEMMA HookingAvoids ==
  ASSUME NEW A, A \cap {"hook", "get", "put"} = {} PROVE Avoids(SetFlagsCallback(FlagPins), A)
<1> DEFINE n == Len(FlagPins)
           S == [op : {"hook", "get", "put"}, flag : Flags]
           u == [k \in 1..n |-> [op |-> "hook", flag |-> FlagPins[k]]]
           v == [k \in 1..2 * n |-> [op |-> IF k % 2 = 1 THEN "get" ELSE "put",
                                     flag |-> FlagPins[(k + 1) \div 2]]]
<1>1. n \in Nat /\ \A k \in 1..n : FlagPins[k] \in Flags  BY PinsAssumption
<1>2. \A k \in 1..2 * n : (k + 1) \div 2 \in 1..n  BY <1>1
<1>3. u \in Seq(S)
  <2>1. \A k \in 1..n : u[k] \in S  BY <1>1
  <2> HIDE DEF S
  <2> QED  BY <1>1, <2>1
<1>4. v \in Seq(S)
  <2>1. \A k \in 1..2 * n : v[k] \in S
    <3>1. ASSUME NEW k \in 1..2 * n PROVE v[k] \in S
      <4> DEFINE x == IF k % 2 = 1 THEN "get" ELSE "put"
      <4>1. x \in {"hook", "get", "put"}  OBVIOUS
      <4>2. FlagPins[(k + 1) \div 2] \in Flags  BY <1>1, <1>2
      <4>3. v[k] = [op |-> x, flag |-> FlagPins[(k + 1) \div 2]]  OBVIOUS
      <4> HIDE DEF x
      <4> QED  BY <4>1, <4>2, <4>3
    <3> QED  BY <3>1
  <2> HIDE DEF S
  <2> QED  BY <1>1, <2>1
<1>5. \A r \in S : r.op \notin A  OBVIOUS
<1>6. SetFlagsCallback(FlagPins) = u \o v  BY DEF SetFlagsCallback
<1> HIDE DEF S, u, v
<1>7. Avoids(u, A) /\ Avoids(v, A)  BY <1>3, <1>4, <1>5 DEF Avoids
<1> QED  BY <1>6, <1>7, AvoidsJoined

LEMMA InitializeAvoids ==
  ASSUME NEW s, NEW A, A \subseteq Special \ {"hook", "get", "put", "configure"}
  PROVE  Avoids(InitializeCape(s), A)
<1>1. Avoids(SetFlagsCallback(FlagPins), A)  BY HookingAvoids
<1>2. Avoids(Step("configure"), A)  BY StepAvoids
<1>3. /\ Avoids(SetStandby(0), A) /\ Avoids(Configure(s), A)
      /\ Avoids(SetCalibrationMode(s.calibration), A)
  BY CallsAreCore, AvoidsFewer
<1> QED  BY <1>1, <1>2, <1>3, AvoidsJoined DEF InitializeCape

LEMMA QuietInitialize == ASSUME NEW s PROVE Avoids(InitializeCape(s), KeyOps)
<1>1. KeyOps \subseteq Special \ {"hook", "get", "put", "configure"}
  BY DEF KeyOps, Key, Special, DacSteps
<1> QED  BY <1>1, InitializeAvoids

(* What a step does to the state of the communication, by its label.       *)
SpiTypes == spi = [dacMode |-> spi.dacMode, rate |-> spi.rate]
Running == tx.thread # "none"
Dac == spi.dacMode = 1

Effect(l) ==
  /\ stage' = stage /\ settings' = settings
  /\ comm' <=> l = "commOn" \/ (comm /\ l # "commOff")
  /\ supervisor' <=> l = "supervisorOn" \/ (supervisor /\ l # "supervisorOff")
  /\ Running' <=> l = "startTx" \/ (Running /\ l # "joinTx")
  /\ tx'.rx <=> l = "startRx" \/ (tx.rx /\ l # "joinRx")
  /\ Dac' <=> l = "raise" \/ (Dac /\ l # "lower")

Outcome(t) ==
  \/ todo'[t] = Tail(todo[t]) /\ Effect(Label(Head(todo[t])))
  \/ todo'[t] = todo[t] /\ Effect("none")
  \/ Head(todo[t]).op = "startTx" /\ todo'[t] = AbandonTx /\ Effect("none")
  \/ Head(todo[t]).op = "startRx" /\ todo'[t] = AbandonRx /\ Effect("none")
  \/ Head(todo[t]).op = "writei" /\ PutsBack(todo[t], todo'[t]) /\ Effect("none")

LEMMA NoEffect ==
  ASSUME UNCHANGED <<stage, settings, comm, supervisor, spi, tx>>,
         NEW l, l \in {"none", "closeSpi"}
  PROVE  Effect(l)
  BY DEF Effect, Running, Dac

LEMMA QuietLabel == ASSUME NEW s, s.op \notin KeyOps PROVE Label(s) = "none"
  BY DEF Label, KeyOps

LEMMA AdvanceIsTail ==
  ASSUME NEW t \in Threads, TodoInv, Advance(t) PROVE todo'[t] = Tail(todo[t])
  BY DEF TodoInv, Advance

LEMMA QuietOutcome ==
  ASSUME NEW t \in Threads, TodoInv, Advance(t) \/ UNCHANGED todo,
         Head(todo[t]).op \notin KeyOps \/ Head(todo[t]).op = "closeSpi",
         UNCHANGED <<stage, settings, comm, supervisor, spi, tx>>
  PROVE  Outcome(t)
<1>1. Label(Head(todo[t])) \in {"none", "closeSpi"}
  BY QuietLabel DEF Label, KeyOps, Key
<1>2. Effect(Label(Head(todo[t]))) /\ Effect("none")  BY <1>1, NoEffect
<1> QED  BY <1>2, AdvanceIsTail DEF Outcome

LEMMA StepOutcome ==
  ASSUME NEW t \in Threads, StepOf(t), Alive', TxTypes, SpiTypes, TodoInv
  PROVE  Outcome(t) /\ SpiTypes'
<1> DEFINE op == Head(todo[t]).op
           Plain == /\ Advance(t) \/ UNCHANGED todo
                    /\ op \notin KeyOps \/ op = "closeSpi"
                    /\ UNCHANGED <<stage, settings, comm, supervisor, spi, tx>>
<1>1. ASSUME Plain PROVE Outcome(t) /\ SpiTypes'
  BY <1>1, QuietOutcome DEF SpiTypes
<1>2. CASE LoadPin(t)
  <2>1. Plain  BY <1>2 DEF LoadPin, Is, UserFrame, KeyOps, Key
  <2> QED  BY <1>1, <2>1
<1>3. CASE StorePin(t)
  <2>1. Plain  BY <1>3 DEF StorePin, Is, UserFrame, KeyOps, Key
  <2> QED  BY <1>1, <2>1
<1>4. CASE Lock(t)
  <2>1. Plain  BY <1>4 DEF Lock, Is, UserFrame, KeyOps, Key
  <2> QED  BY <1>1, <2>1
<1>5. CASE UnlockLeds(t)
  <2>1. Plain  BY <1>5 DEF UnlockLeds, Is, UserFrame, KeyOps, Key
  <2> QED  BY <1>1, <2>1
<1>6. CASE InDacMode(t)
  <2>1. Plain  BY <1>6 DEF InDacMode, RegisterStep, Is, UserFrame, KeyOps, Key
  <2> QED  BY <1>1, <2>1
<1>7. CASE WriteRegister(t)
  <2>1. Plain  BY <1>7 DEF WriteRegister, Is, UserFrame, KeyOps, Key
  <2> QED  BY <1>1, <2>1
<1>8. CASE AskRegister(t)
  <2>1. Plain  BY <1>8 DEF AskRegister, Is, UserFrame, KeyOps, Key
  <2> QED  BY <1>1, <2>1
<1>9. CASE AnswerRegister(t)
  <2>1. Plain  BY <1>9 DEF AnswerRegister, Is, UserFrame, KeyOps, Key
  <2> QED  BY <1>1, <2>1
<1>10. CASE ExpectRegister(t)
  <2>1. Plain  BY <1>10 DEF ExpectRegister, Is, UserFrame, KeyOps, Key
  <2> QED  BY <1>1, <2>1
<1>11. CASE RememberField(t)
  <2>1. Plain  BY <1>11 DEF RememberField, Is, UserFrame, KeyOps, Key
  <2> QED  BY <1>1, <2>1
<1>12. CASE SetDriver(t)
  <2>1. Plain  BY <1>12 DEF SetDriver, Is, UserFrame, KeyOps, Key
  <2> QED  BY <1>1, <2>1
<1>13. CASE TransferDac(t)
  <2>1. Plain  BY <1>13 DEF TransferDac, Is, UserFrame, KeyOps, Key
  <2> QED  BY <1>1, <2>1
<1>14. CASE Hook(t)
  <2>1. Plain  BY <1>14 DEF Hook, Is, UserFrame, KeyOps, Key
  <2> QED  BY <1>1, <2>1
<1>15. CASE GetPin(t)
  <2>1. Plain  BY <1>15 DEF GetPin, Is, UserFrame, KeyOps, Key
  <2> QED  BY <1>1, <2>1
<1>16. CASE PutFlag(t)
  <2>1. Plain  BY <1>16 DEF PutFlag, Is, UserFrame, KeyOps, Key
  <2> QED  BY <1>1, <2>1
<1>17. CASE Unhook(t)
  <2>1. Plain  BY <1>17 DEF Unhook, Is, UserFrame, KeyOps, Key
  <2> QED  BY <1>1, <2>1
<1>18. CASE CloseSpi(t)
  <2>1. Plain  BY <1>18 DEF CloseSpi, Is, UserFrame
  <2> QED  BY <1>1, <2>1
<1>19. CASE DacMode(t)
  <2>1. op = "dacMode" /\ Advance(t) /\ spi' = [spi EXCEPT !.dacMode = Head(todo[t]).on]
        /\ UNCHANGED <<stage, settings, comm, supervisor, tx>>
    BY <1>19 DEF DacMode, Is, UserFrame, Next1
  <2>2. SpiTypes' /\ spi'.dacMode = Head(todo[t]).on  BY <2>1 DEF SpiTypes
  <2>3. Label(Head(todo[t])) = IF Head(todo[t]).on = 1 THEN "raise" ELSE "lower"
    BY <2>1 DEF Label
  <2>4. Effect(Label(Head(todo[t])))  BY <2>1, <2>2, <2>3 DEF Effect, Running, Dac
  <2> QED  BY <2>1, <2>2, <2>4, AdvanceIsTail DEF Outcome
<1>20. CASE WriteBuffer(t)
  <2>1. UNCHANGED <<stage, settings, comm, supervisor, spi, tx>> /\ op = "writei"
    BY <1>20 DEF WriteBuffer, UserFrame, Is
  <2>2. Effect("none")  BY <2>1, NoEffect
  <2>3. Proceeds(t) /\ SpiTypes'  BY <2>1, StepProceeds DEF SpiTypes
  <2>4. Label(Head(todo[t])) = "none"  BY <2>1, QuietLabel DEF KeyOps, Key
  <2> QED  BY <2>1, <2>2, <2>3, <2>4 DEF Outcome, Proceeds
<1>21. CASE ConfigureSpi(t)
  <2>1. /\ op = "configure" /\ Advance(t) /\ UNCHANGED <<stage, settings, comm, supervisor>>
        /\ \E x : spi' = [spi EXCEPT !.rate = x]
        /\ tx' = [tx EXCEPT !.len = Frames]
    BY <1>21 DEF ConfigureSpi, Is, UserFrame
  <2>2. SpiTypes' /\ spi'.dacMode = spi.dacMode  BY <2>1 DEF SpiTypes
  <2>3. tx'.thread = tx.thread /\ tx'.rx = tx.rx  BY <2>1 DEF TxTypes
  <2>4. Label(Head(todo[t])) = "none"  BY <2>1, QuietLabel DEF KeyOps, Key
  <2>5. Effect("none")  BY <2>1, <2>2, <2>3 DEF Effect, Running, Dac
  <2> QED  BY <2>1, <2>2, <2>4, <2>5, AdvanceIsTail DEF Outcome
<1>22. CASE StartTx(t)
  <2>1. /\ op = "startTx" /\ UNCHANGED <<stage, settings, comm, supervisor, spi>>
        /\ Label(Head(todo[t])) = "startTx"
    BY <1>22 DEF StartTx, Is, UserFrame, Label, KeyOps, Key
  <2>2. \/ Advance(t) /\ tx'.thread = "loop" /\ tx'.rx = tx.rx
        \/ todo' = [todo EXCEPT ![t] = AbandonTx] /\ UNCHANGED tx
        \/ dead' = "pcm"
    BY <1>22 DEF StartTx, TxTypes, Die
  <2>3. dead' # "pcm"  BY DEF Alive
  <2>4. CASE Advance(t) /\ tx'.thread = "loop" /\ tx'.rx = tx.rx
    <3>1. Effect("startTx")  BY <2>1, <2>4 DEF Effect, Running, Dac
    <3> QED  BY <2>1, <2>4, <3>1, AdvanceIsTail DEF Outcome, SpiTypes
  <2>5. CASE todo' = [todo EXCEPT ![t] = AbandonTx] /\ UNCHANGED tx
    <3>1. Effect("none")  BY <2>1, <2>5, NoEffect
    <3>2. todo'[t] = AbandonTx  BY <2>5 DEF TodoInv
    <3> QED  BY <2>1, <3>1, <3>2 DEF Outcome, SpiTypes
  <2> QED  BY <2>2, <2>3, <2>4, <2>5
<1>23. CASE StartRx(t)
  <2>1. /\ op = "startRx" /\ UNCHANGED <<stage, settings, comm, supervisor, spi>>
        /\ Label(Head(todo[t])) = "startRx"
    BY <1>23 DEF StartRx, Is, UserFrame, Label, KeyOps, Key
  <2>2. \/ Advance(t) /\ tx'.thread = tx.thread /\ tx'.rx
        \/ todo' = [todo EXCEPT ![t] = AbandonRx] /\ UNCHANGED tx
    BY <1>23 DEF StartRx, TxTypes
  <2>3. CASE Advance(t) /\ tx'.thread = tx.thread /\ tx'.rx
    <3>1. Effect("startRx")  BY <2>1, <2>3 DEF Effect, Running, Dac
    <3> QED  BY <2>1, <2>3, <3>1, AdvanceIsTail DEF Outcome, SpiTypes
  <2>4. CASE todo' = [todo EXCEPT ![t] = AbandonRx] /\ UNCHANGED tx
    <3>1. Effect("none")  BY <2>1, <2>4, NoEffect
    <3>2. todo'[t] = AbandonRx  BY <2>4 DEF TodoInv
    <3> QED  BY <2>1, <3>1, <3>2 DEF Outcome, SpiTypes
  <2> QED  BY <2>2, <2>3, <2>4
<1>24. CASE StopThread(t)
  <2>1. UNCHANGED <<stage, settings, comm, supervisor, spi>> /\ Advance(t)
    BY <1>24 DEF StopThread, UserFrame
  <2>2. \/ op = "requestStop" /\ tx'.thread = tx.thread /\ tx'.rx = tx.rx
        \/ op = "joinTx" /\ tx'.thread = "none" /\ tx'.rx = tx.rx
        \/ op = "joinRx" /\ tx'.thread = tx.thread /\ ~ tx'.rx
    BY <1>24 DEF StopThread, Is, TxTypes
  <2>3. op \in {"joinTx", "joinRx"} => Label(Head(todo[t])) = op  BY DEF Label, KeyOps, Key
  <2>4. op = "requestStop" => Label(Head(todo[t])) = "none"  BY QuietLabel DEF KeyOps, Key
  <2>5. Effect(Label(Head(todo[t])))  BY <2>1, <2>2, <2>3, <2>4 DEF Effect, Running, Dac
  <2> QED  BY <2>1, <2>5, AdvanceIsTail DEF Outcome, SpiTypes
<1>25. CASE Communication(t)
  <2>1. /\ UNCHANGED <<stage, settings, supervisor, spi, tx>> /\ Advance(t)
        /\ op \in {"commOn", "commOff"} /\ (comm' <=> op = "commOn")
    BY <1>25 DEF Communication, Is, Next1
  <2>2. Label(Head(todo[t])) = op  BY <2>1 DEF Label, KeyOps, Key
  <2>3. Effect(op)  BY <2>1 DEF Effect, Running, Dac
  <2> QED  BY <2>1, <2>2, <2>3, AdvanceIsTail DEF Outcome, SpiTypes
<1>26. CASE Supervisor(t)
  <2>1. /\ UNCHANGED <<stage, settings, comm, spi, tx>> /\ Advance(t)
        /\ op \in {"supervisorOn", "supervisorOff"} /\ (supervisor' <=> op = "supervisorOn")
    BY <1>26 DEF Supervisor, Is, Next1
  <2>2. Label(Head(todo[t])) = op  BY <2>1 DEF Label, KeyOps, Key
  <2>3. Effect(op)  BY <2>1 DEF Effect, Running, Dac
  <2> QED  BY <2>1, <2>2, <2>3, AdvanceIsTail DEF Outcome, SpiTypes
<1> HIDE DEF Plain
<1> QED
  BY <1>2, <1>3, <1>4, <1>5, <1>6, <1>7, <1>8, <1>9, <1>10, <1>11, <1>12, <1>13, <1>14, <1>15,
     <1>16, <1>17, <1>18, <1>19, <1>20, <1>21, <1>22, <1>23, <1>24, <1>25, <1>26 DEF StepOf

(* Where a communication is, by the word of what remains to do.            *)
Has(c, s, x, r, d) ==
  (comm <=> c) /\ (supervisor <=> s) /\ (Running <=> x) /\ (tx.rx <=> r) /\ (Dac <=> d)
Off == Has(FALSE, FALSE, FALSE, FALSE, FALSE)
Armed == Has(FALSE, TRUE, FALSE, FALSE, FALSE)
OnAir == Has(TRUE, TRUE, TRUE, TRUE, TRUE)

Opening(w) ==
  \/ w = <<>> /\ (Off \/ Armed \/ OnAir)
  \/ w = <<"supervisorOn">> /\ Off
  \/ w = Starting /\ Off
  \/ w = Tail(Starting) /\ Has(FALSE, TRUE, FALSE, FALSE, FALSE)
  \/ w = <<"startTx", "startRx", "commOn">> /\ Has(FALSE, TRUE, FALSE, FALSE, TRUE)
  \/ w = <<"startRx", "commOn">> /\ Has(FALSE, TRUE, TRUE, FALSE, TRUE)
  \/ w = <<"commOn">> /\ Has(FALSE, TRUE, TRUE, TRUE, TRUE)
  \/ w = Undoing /\ Has(FALSE, TRUE, TRUE, FALSE, TRUE)
  \/ w = <<"lower", "supervisorOff">> /\ Has(FALSE, TRUE, FALSE, FALSE, TRUE)
  \/ w = <<"supervisorOff">> /\ Has(FALSE, TRUE, FALSE, FALSE, FALSE)

Closing(w) ==
  \/ w = Stopping /\ OnAir
  \/ w = Tail(Stopping) /\ Has(TRUE, TRUE, TRUE, FALSE, TRUE)
  \/ w = <<"lower", "commOff", "supervisorOff">> /\ Has(TRUE, TRUE, FALSE, FALSE, TRUE)
  \/ w = <<"commOff", "supervisorOff">> /\ Has(TRUE, TRUE, FALSE, FALSE, FALSE)
  \/ w = <<"supervisorOff">> /\ Has(FALSE, TRUE, FALSE, FALSE, FALSE)
  \/ w = <<>> /\ Off

(* The timer ends a communication and leaves the next one to itself.       *)
Pausing(w) ==
  \/ w = Pause /\ OnAir
  \/ w = Tail(Pause) /\ Has(TRUE, TRUE, TRUE, FALSE, TRUE)
  \/ w = <<"lower", "commOff">> /\ Has(TRUE, TRUE, FALSE, FALSE, TRUE)
  \/ w = <<"commOff">> /\ Has(TRUE, TRUE, FALSE, FALSE, FALSE)
  \/ w = <<>> /\ Armed

Acting(w) == Opening(w) \/ Closing(w) \/ Pausing(w)

Booting(w) ==
  Off /\ (w = <<>> \/ w = <<"lower">> \/ (w = <<"closeSpi">> /\ stage \in {"released", "failed"}))

LEMMA Parts ==
  /\ Head(Starting) = "supervisorOn" /\ Head(Tail(Starting)) = "raise"
  /\ Tail(Tail(Starting)) = <<"startTx", "startRx", "commOn">>
  /\ Head(<<"startTx", "startRx", "commOn">>) = "startTx"
  /\ Tail(<<"startTx", "startRx", "commOn">>) = <<"startRx", "commOn">>
  /\ Head(<<"startRx", "commOn">>) = "startRx" /\ Tail(<<"startRx", "commOn">>) = <<"commOn">>
  /\ Head(<<"commOn">>) = "commOn" /\ Tail(<<"commOn">>) = <<>>
  /\ Head(Undoing) = "joinTx" /\ Tail(Undoing) = <<"lower", "supervisorOff">>
  /\ Head(<<"lower", "supervisorOff">>) = "lower"
  /\ Tail(<<"lower", "supervisorOff">>) = <<"supervisorOff">>
  /\ Head(<<"supervisorOff">>) = "supervisorOff" /\ Tail(<<"supervisorOff">>) = <<>>
  /\ Head(Stopping) = "joinRx" /\ Head(Tail(Stopping)) = "joinTx"
  /\ Tail(Tail(Stopping)) = <<"lower", "commOff", "supervisorOff">>
  /\ Head(<<"lower", "commOff", "supervisorOff">>) = "lower"
  /\ Tail(<<"lower", "commOff", "supervisorOff">>) = <<"commOff", "supervisorOff">>
  /\ Head(<<"commOff", "supervisorOff">>) = "commOff"
  /\ Tail(<<"commOff", "supervisorOff">>) = <<"supervisorOff">>
  /\ Head(Pause) = "joinRx" /\ Head(Tail(Pause)) = "joinTx"
  /\ Tail(Tail(Pause)) = <<"lower", "commOff">>
  /\ Head(<<"lower", "commOff">>) = "lower" /\ Tail(<<"lower", "commOff">>) = <<"commOff">>
  /\ Head(<<"commOff">>) = "commOff" /\ Tail(<<"commOff">>) = <<>>
  /\ Head(<<"supervisorOn">>) = "supervisorOn" /\ Tail(<<"supervisorOn">>) = <<>>
  /\ Head(<<"lower">>) = "lower" /\ Tail(<<"lower">>) = <<>>
  /\ Head(<<"closeSpi">>) = "closeSpi" /\ Tail(<<"closeSpi">>) = <<>>
  BY DEF Starting, Stopping, Pause, Undoing

LEMMA OpeningWaits == ASSUME NEW w, Opening(w), Effect("none") PROVE Opening(w)'
  BY DEF Opening, Off, Armed, OnAir, Has, Effect

LEMMA PausingWaits == ASSUME NEW w, Pausing(w), Effect("none") PROVE Pausing(w)'
  BY DEF Pausing, Armed, OnAir, Has, Effect

LEMMA ClosingWaits == ASSUME NEW w, Closing(w), Effect("none") PROVE Closing(w)'
  BY DEF Closing, Off, OnAir, Has, Effect

LEMMA BootingWaits == ASSUME NEW w, Booting(w), Effect("none") PROVE Booting(w)'
  BY DEF Booting, Off, Has, Effect

LEMMA OpeningGoesOn ==
  ASSUME NEW w, Opening(w), w # <<>>, Effect(Head(w)) PROVE Opening(Tail(w))'
<1>1. CASE w = Starting /\ Off
  <2>1. Effect("supervisorOn") /\ Tail(w) = Tail(Starting)  BY <1>1, Parts
  <2>2. (Has(FALSE, TRUE, FALSE, FALSE, FALSE))'  BY <1>1, <2>1 DEF Has, Off, OnAir, Effect
  <2> QED  BY <2>1, <2>2 DEF Opening
<1>2. CASE w = Tail(Starting) /\ Has(FALSE, TRUE, FALSE, FALSE, FALSE)
  <2>1. Effect("raise") /\ Tail(w) = <<"startTx", "startRx", "commOn">>  BY <1>2, Parts
  <2>2. (Has(FALSE, TRUE, FALSE, FALSE, TRUE))'  BY <1>2, <2>1 DEF Has, Off, OnAir, Effect
  <2> QED  BY <2>1, <2>2 DEF Opening
<1>3. CASE w = <<"startTx", "startRx", "commOn">> /\ Has(FALSE, TRUE, FALSE, FALSE, TRUE)
  <2>1. Effect("startTx") /\ Tail(w) = <<"startRx", "commOn">>  BY <1>3, Parts
  <2>2. (Has(FALSE, TRUE, TRUE, FALSE, TRUE))'  BY <1>3, <2>1 DEF Has, Off, OnAir, Effect
  <2> QED  BY <2>1, <2>2 DEF Opening
<1>4. CASE w = <<"startRx", "commOn">> /\ Has(FALSE, TRUE, TRUE, FALSE, TRUE)
  <2>1. Effect("startRx") /\ Tail(w) = <<"commOn">>  BY <1>4, Parts
  <2>2. (Has(FALSE, TRUE, TRUE, TRUE, TRUE))'  BY <1>4, <2>1 DEF Has, Off, OnAir, Effect
  <2> QED  BY <2>1, <2>2 DEF Opening
<1>5. CASE w = <<"commOn">> /\ Has(FALSE, TRUE, TRUE, TRUE, TRUE)
  <2>1. Effect("commOn") /\ Tail(w) = <<>>  BY <1>5, Parts
  <2>2. (OnAir)'  BY <1>5, <2>1 DEF Has, Off, OnAir, Effect
  <2> QED  BY <2>1, <2>2 DEF Opening
<1>6. CASE w = Undoing /\ Has(FALSE, TRUE, TRUE, FALSE, TRUE)
  <2>1. Effect("joinTx") /\ Tail(w) = <<"lower", "supervisorOff">>  BY <1>6, Parts
  <2>2. (Has(FALSE, TRUE, FALSE, FALSE, TRUE))'  BY <1>6, <2>1 DEF Has, Off, OnAir, Effect
  <2> QED  BY <2>1, <2>2 DEF Opening
<1>7. CASE w = <<"lower", "supervisorOff">> /\ Has(FALSE, TRUE, FALSE, FALSE, TRUE)
  <2>1. Effect("lower") /\ Tail(w) = <<"supervisorOff">>  BY <1>7, Parts
  <2>2. (Has(FALSE, TRUE, FALSE, FALSE, FALSE))'  BY <1>7, <2>1 DEF Has, Off, OnAir, Effect
  <2> QED  BY <2>1, <2>2 DEF Opening
<1>8. CASE w = <<"supervisorOff">> /\ Has(FALSE, TRUE, FALSE, FALSE, FALSE)
  <2>1. Effect("supervisorOff") /\ Tail(w) = <<>>  BY <1>8, Parts
  <2>2. (Off)'  BY <1>8, <2>1 DEF Has, Off, OnAir, Effect
  <2> QED  BY <2>1, <2>2 DEF Opening
<1>9. CASE w = <<"supervisorOn">> /\ Off
  <2>1. Effect("supervisorOn") /\ Tail(w) = <<>>  BY <1>9, Parts
  <2>2. Armed'  BY <1>9, <2>1 DEF Has, Off, Armed, Effect
  <2> QED  BY <2>1, <2>2 DEF Opening
<1> QED  BY <1>1, <1>2, <1>3, <1>4, <1>5, <1>6, <1>7, <1>8, <1>9, Zenon DEF Opening

LEMMA ClosingGoesOn ==
  ASSUME NEW w, Closing(w), w # <<>>, Effect(Head(w)) PROVE Closing(Tail(w))'
<1>1. CASE w = Stopping /\ OnAir
  <2>1. Effect("joinRx") /\ Tail(w) = Tail(Stopping)  BY <1>1, Parts
  <2>2. (Has(TRUE, TRUE, TRUE, FALSE, TRUE))'  BY <1>1, <2>1 DEF Has, Off, OnAir, Effect
  <2> QED  BY <2>1, <2>2 DEF Closing
<1>2. CASE w = Tail(Stopping) /\ Has(TRUE, TRUE, TRUE, FALSE, TRUE)
  <2>1. Effect("joinTx") /\ Tail(w) = <<"lower", "commOff", "supervisorOff">>  BY <1>2, Parts
  <2>2. (Has(TRUE, TRUE, FALSE, FALSE, TRUE))'  BY <1>2, <2>1 DEF Has, Off, OnAir, Effect
  <2> QED  BY <2>1, <2>2 DEF Closing
<1>3. CASE w = <<"lower", "commOff", "supervisorOff">> /\ Has(TRUE, TRUE, FALSE, FALSE, TRUE)
  <2>1. Effect("lower") /\ Tail(w) = <<"commOff", "supervisorOff">>  BY <1>3, Parts
  <2>2. (Has(TRUE, TRUE, FALSE, FALSE, FALSE))'  BY <1>3, <2>1 DEF Has, Off, OnAir, Effect
  <2> QED  BY <2>1, <2>2 DEF Closing
<1>4. CASE w = <<"commOff", "supervisorOff">> /\ Has(TRUE, TRUE, FALSE, FALSE, FALSE)
  <2>1. Effect("commOff") /\ Tail(w) = <<"supervisorOff">>  BY <1>4, Parts
  <2>2. (Has(FALSE, TRUE, FALSE, FALSE, FALSE))'  BY <1>4, <2>1 DEF Has, Off, OnAir, Effect
  <2> QED  BY <2>1, <2>2 DEF Closing
<1>5. CASE w = <<"supervisorOff">> /\ Has(FALSE, TRUE, FALSE, FALSE, FALSE)
  <2>1. Effect("supervisorOff") /\ Tail(w) = <<>>  BY <1>5, Parts
  <2>2. (Off)'  BY <1>5, <2>1 DEF Has, Off, OnAir, Effect
  <2> QED  BY <2>1, <2>2 DEF Closing
<1> QED  BY <1>1, <1>2, <1>3, <1>4, <1>5, Zenon DEF Closing

LEMMA PausingGoesOn ==
  ASSUME NEW w, Pausing(w), w # <<>>, Effect(Head(w)) PROVE Pausing(Tail(w))'
<1>1. CASE w = Pause /\ OnAir
  <2>1. Effect("joinRx") /\ Tail(w) = Tail(Pause)  BY <1>1, Parts
  <2>2. (Has(TRUE, TRUE, TRUE, FALSE, TRUE))'  BY <1>1, <2>1 DEF Has, OnAir, Effect
  <2> QED  BY <2>1, <2>2 DEF Pausing
<1>2. CASE w = Tail(Pause) /\ Has(TRUE, TRUE, TRUE, FALSE, TRUE)
  <2>1. Effect("joinTx") /\ Tail(w) = <<"lower", "commOff">>  BY <1>2, Parts
  <2>2. (Has(TRUE, TRUE, FALSE, FALSE, TRUE))'  BY <1>2, <2>1 DEF Has, Effect
  <2> QED  BY <2>1, <2>2 DEF Pausing
<1>3. CASE w = <<"lower", "commOff">> /\ Has(TRUE, TRUE, FALSE, FALSE, TRUE)
  <2>1. Effect("lower") /\ Tail(w) = <<"commOff">>  BY <1>3, Parts
  <2>2. (Has(TRUE, TRUE, FALSE, FALSE, FALSE))'  BY <1>3, <2>1 DEF Has, Effect
  <2> QED  BY <2>1, <2>2 DEF Pausing
<1>4. CASE w = <<"commOff">> /\ Has(TRUE, TRUE, FALSE, FALSE, FALSE)
  <2>1. Effect("commOff") /\ Tail(w) = <<>>  BY <1>4, Parts
  <2>2. Armed'  BY <1>4, <2>1 DEF Has, Armed, Effect
  <2> QED  BY <2>1, <2>2 DEF Pausing
<1> QED  BY <1>1, <1>2, <1>3, <1>4, Zenon DEF Pausing

LEMMA BootingGoesOn ==
  ASSUME NEW w, Booting(w), w # <<>>, Effect(Head(w)) PROVE Booting(Tail(w))'
<1>1. Head(w) \in {"lower", "closeSpi"} /\ Tail(w) = <<>> /\ Off  BY Parts DEF Booting
<1>2. Off'  BY <1>1 DEF Off, Has, Effect
<1> QED  BY <1>1, <1>2 DEF Booting

(* A start that fails.                                                     *)
LEMMA OpeningFails ==
  ASSUME NEW w, Opening(w), w # <<>>, Effect("none")
  PROVE  /\ Head(w) = "startTx" => Opening(<<"lower", "supervisorOff">>)'
         /\ Head(w) = "startRx" => Opening(Undoing)'
<1>1. Head(w) = "startTx" => Has(FALSE, TRUE, FALSE, FALSE, TRUE)  BY Parts DEF Opening
<1>2. Head(w) = "startRx" => Has(FALSE, TRUE, TRUE, FALSE, TRUE)  BY Parts DEF Opening
<1>3. Head(w) = "startTx" => Has(FALSE, TRUE, FALSE, FALSE, TRUE)'  BY <1>1 DEF Has, Effect
<1>4. Head(w) = "startRx" => Has(FALSE, TRUE, TRUE, FALSE, TRUE)'  BY <1>2 DEF Has, Effect
<1> QED  BY <1>3, <1>4 DEF Opening

LEMMA OnlyOpeningStarts ==
  ASSUME NEW w, Closing(w) \/ Pausing(w) \/ Booting(w), w # <<>>
  PROVE  Head(w) \notin {"startTx", "startRx"}
  BY Parts DEF Closing, Pausing, Booting

(* Nothing but a communication runs with the supervisor.                   *)
LEMMA OpeningEnds == Opening(<<>>) => Off \/ Armed \/ OnAir
<1>1. <<>> # Starting /\ <<>> # Tail(Starting) /\ <<>> # Undoing
  BY DEF Starting, Undoing
<1> QED  BY <1>1 DEF Opening

LEMMA ClosingEnds == Closing(<<>>) => Off
<1>1. <<>> # Stopping /\ <<>> # Tail(Stopping)
  BY DEF Stopping
<1> QED  BY <1>1 DEF Closing

LEMMA PausingEnds == Pausing(<<>>) => Armed
<1>1. <<>> # Pause /\ <<>> # Tail(Pause)
  BY DEF Pause
<1> QED  BY <1>1 DEF Pausing

(* What a step does to the threads that send and receive: the one that     *)
(* sends is joined when it has gone, the one that receives when it is idle.*)
TxSteps ==
  /\ tx'.thread = tx.thread \/ tx'.thread = "loop" \/ (tx.thread = "gone" /\ tx'.thread = "none")
  /\ tx'.rx = tx.rx \/ tx'.rx \/ Idle("rx")
  /\ tx'.filled = tx.filled
  /\ ~ Alsa => tx'.len = tx.len \/ tx'.len = Frames
  /\ tx'.pcm => (tx.pcm /\ tx'.thread = tx.thread) \/ tx'.thread # "none"

LEMMA StepTx == ASSUME NEW t \in Threads, StepOf(t), TxTypes PROVE TxSteps
<1>1. ASSUME tx' = tx PROVE TxSteps  BY <1>1 DEF TxSteps
<1>2. CASE LoadPin(t)  BY <1>1, <1>2 DEF LoadPin, TxFrame
<1>3. CASE StorePin(t)  BY <1>1, <1>3 DEF StorePin, TxFrame
<1>4. CASE Lock(t)  BY <1>1, <1>4 DEF Lock, TxFrame
<1>5. CASE UnlockLeds(t)  BY <1>1, <1>5 DEF UnlockLeds, TxFrame
<1>6. CASE InDacMode(t)  BY <1>1, <1>6 DEF InDacMode, TxFrame
<1>7. CASE WriteRegister(t)  BY <1>1, <1>7 DEF WriteRegister, TxFrame
<1>8. CASE AskRegister(t)  BY <1>1, <1>8 DEF AskRegister, TxFrame
<1>9. CASE AnswerRegister(t)  BY <1>1, <1>9 DEF AnswerRegister, TxFrame
<1>10. CASE ExpectRegister(t)  BY <1>1, <1>10 DEF ExpectRegister, TxFrame
<1>11. CASE RememberField(t)  BY <1>1, <1>11 DEF RememberField, TxFrame
<1>12. CASE DacMode(t)  BY <1>1, <1>12 DEF DacMode, TxFrame
<1>13. CASE SetDriver(t)  BY <1>1, <1>13 DEF SetDriver, TxFrame
<1>14. CASE TransferDac(t)  BY <1>1, <1>14 DEF TransferDac, TxFrame
<1>15. CASE Hook(t)  BY <1>1, <1>15 DEF Hook, TxFrame
<1>16. CASE GetPin(t)  BY <1>1, <1>16 DEF GetPin, TxFrame
<1>17. CASE PutFlag(t)  BY <1>1, <1>17 DEF PutFlag, TxFrame
<1>18. CASE Unhook(t)  BY <1>1, <1>18 DEF Unhook, TxFrame
<1>19. CASE WriteBuffer(t)  BY <1>1, <1>19 DEF WriteBuffer, TxFrame
<1>20. CASE Communication(t)  BY <1>1, <1>20 DEF Communication, TxFrame
<1>21. CASE Supervisor(t)  BY <1>1, <1>21 DEF Supervisor, TxFrame
<1>22. CASE CloseSpi(t)  BY <1>1, <1>22 DEF CloseSpi, TxFrame
<1>23. CASE ConfigureSpi(t)
  <2>1. tx' = [tx EXCEPT !.len = Frames]  BY <1>23 DEF ConfigureSpi
  <2> QED  BY <2>1 DEF TxTypes, TxSteps
<1>24. CASE StartTx(t)
  <2>1. \/ tx' = [tx EXCEPT !.thread = "loop", !.end = FALSE, !.pcm = Alsa]
        \/ /\ Alsa
           /\ \E len \in Periods :
                tx' = [tx EXCEPT !.thread = "loop", !.end = FALSE, !.pcm = TRUE, !.len = len]
        \/ tx' = tx
    BY <1>24 DEF StartTx
  <2> QED  BY <1>1, <2>1 DEF TxTypes, TxSteps
<1>25. CASE StartRx(t)
  <2>1. tx' = [tx EXCEPT !.rx = TRUE] \/ tx' = tx  BY <1>25 DEF StartRx
  <2> QED  BY <1>1, <2>1 DEF TxTypes, TxSteps
<1>26. CASE StopThread(t)
  <2>1. \/ tx' = [tx EXCEPT !.end = TRUE]
        \/ tx.thread = "gone" /\ tx' = [tx EXCEPT !.thread = "none", !.pcm = FALSE]
        \/ Idle("rx") /\ tx' = [tx EXCEPT !.rx = FALSE]
    BY <1>26 DEF StopThread
  <2> QED  BY <2>1 DEF TxTypes, TxSteps
<1> QED
  BY <1>2, <1>3, <1>4, <1>5, <1>6, <1>7, <1>8, <1>9, <1>10, <1>11, <1>12, <1>13, <1>14, <1>15,
     <1>16, <1>17, <1>18, <1>19, <1>20, <1>21, <1>22, <1>23, <1>24, <1>25, <1>26 DEF StepOf

(* The word of a program after a step of it.                               *)
Reads(t, w) ==
  \/ Shows(todo'[t], w) /\ Effect("none")
  \/ w # <<>> /\ Shows(todo'[t], Tail(w)) /\ Effect(Head(w))
  \/ /\ w # <<>> /\ Head(w) = "startTx" /\ Shows(todo'[t], <<"lower", "supervisorOff">>)
     /\ Effect("none")
  \/ w # <<>> /\ Head(w) = "startRx" /\ Shows(todo'[t], Undoing) /\ Effect("none")

LEMMA OutcomeReads ==
  ASSUME NEW t \in Threads, NEW w, Shows(todo[t], w), Outcome(t), todo[t] # <<>>
  PROVE  Reads(t, w)
<1> DEFINE p == todo[t]
           s == Head(p)
<1>1. /\ Label(s) \in Key => w # <<>> /\ Head(w) = Label(s) /\ Shows(Tail(p), Tail(w))
      /\ Label(s) \notin Key => Shows(Tail(p), w)
  BY ShowsRest
<1>2. Label(s) \notin Key => Label(s) = "none"
  BY DEF Label, KeyOps, Key
<1>3. s.op \in {"startTx", "startRx"} => Label(s) = s.op /\ Label(s) \in Key
  BY DEF Label, KeyOps, Key
<1>4. s.op = "writei" => Label(s) \notin Key
  <2>1. "none" \notin Key /\ "writei" \notin KeyOps  BY DEF KeyOps, Key
  <2> QED  BY <2>1, QuietLabel
<1>5. Shows(AbandonTx, <<"lower", "supervisorOff">>) /\ Shows(AbandonRx, Undoing)
  BY WordOfAbandon
<1> HIDE DEF s
<1>6. CASE todo'[t] = Tail(p) /\ Effect(Label(s))
  BY <1>1, <1>2, <1>6 DEF Reads
<1>7. CASE todo'[t] = p /\ Effect("none")  BY <1>7 DEF Reads
<1>8. CASE s.op = "startTx" /\ todo'[t] = AbandonTx /\ Effect("none")
  BY <1>1, <1>3, <1>5, <1>8 DEF Reads
<1>9. CASE s.op = "startRx" /\ todo'[t] = AbandonRx /\ Effect("none")
  BY <1>1, <1>3, <1>5, <1>9 DEF Reads
<1>10. CASE s.op = "writei" /\ PutsBack(p, todo'[t]) /\ Effect("none")
  <2>1. PICK r : /\ r = <<>> \/ \E x : r = <<[op |-> "writei", samples |-> x]>>
                 /\ todo'[t] = r \o Tail(p)
    BY <1>10 DEF PutsBack
  <2>2. "writei" \notin KeyOps  BY DEF KeyOps, Key
  <2>3. Avoids(r, KeyOps)  BY <2>1, <2>2, AvoidsNone, AvoidsOne
  <2>4. Shows(Tail(p), w)  BY <1>1, <1>4, <1>10
  <2>5. Shows(todo'[t], w)  BY <2>1, <2>3, <2>4, ShowsAlone
  <2> QED  BY <1>10, <2>5 DEF Reads
<1> QED  BY <1>6, <1>7, <1>8, <1>9, <1>10 DEF Outcome, s

(* The order of a communication: the user's thread opens it, or arms the   *)
(* timer that will; either thread closes it, and outside it nothing of it  *)
(* is left but the timers.                                                 *)
Fits(w) == settings.periodic => w = <<>> \/ w = <<"supervisorOn">>
Opens ==
  stage = "idle" /\ Idle("comm") /\ \E w : Shows(todo["main"], w) /\ Opening(w) /\ Fits(w)
TimerActs ==
  stage = "idle" /\ Shows(todo["main"], <<>>) /\ \E w : Shows(todo["comm"], w) /\ Acting(w)
UserCloses ==
  stage = "stopping" /\ Idle("comm") /\ \E w : Shows(todo["main"], w) /\ Closing(w)
Boots ==
  /\ stage \notin {"idle", "stopping"} /\ Idle("comm")
  /\ \E w : Shows(todo["main"], w) /\ Booting(w)
Order == Opens \/ TimerActs \/ UserCloses \/ Boots

(* Who takes which steps.                                                  *)
RoleInv ==
  /\ \A t \in {"blink", "rx", "tx"} : Avoids(todo[t], KeyOps)
  /\ \A t \in Threads \ {"tx"} : Avoids(todo[t], {"writei", "transfer"})

LEMMA FitsGoesOn ==
  ASSUME NEW w, Fits(w), settings' = settings
  PROVE  /\ Fits(w)' /\ (w # <<>> => Fits(Tail(w))')
         /\ w # <<>> /\ Head(w) \in {"startTx", "startRx"} => \A v : Fits(v)'
  BY Parts DEF Fits

LEMMA ActingWaits == ASSUME NEW w, Acting(w), Effect("none") PROVE Acting(w)'
  BY OpeningWaits, ClosingWaits, PausingWaits, Zenon DEF Acting

LEMMA ActingGoesOn ==
  ASSUME NEW w, Acting(w), w # <<>>
  PROVE  /\ Effect(Head(w)) => Acting(Tail(w))'
         /\ Effect("none") /\ Head(w) = "startTx" => Acting(<<"lower", "supervisorOff">>)'
         /\ Effect("none") /\ Head(w) = "startRx" => Acting(Undoing)'
<1>1. Effect(Head(w)) => Acting(Tail(w))'
  BY OpeningGoesOn, ClosingGoesOn, PausingGoesOn, Zenon DEF Acting
<1>2. Head(w) \in {"startTx", "startRx"} => Opening(w)  BY OnlyOpeningStarts DEF Acting
<1>3. Effect("none") /\ Head(w) = "startTx" => Opening(<<"lower", "supervisorOff">>)'
  BY <1>2, OpeningFails
<1>4. Effect("none") /\ Head(w) = "startRx" => Opening(Undoing)'  BY <1>2, OpeningFails
<1> QED  BY <1>1, <1>3, <1>4 DEF Acting

LEMMA OrderWaits ==
  ASSUME Order, todo'["main"] = todo["main"], todo'["comm"] = todo["comm"], Effect("none")
  PROVE  Order'
<1>1. stage' = stage /\ settings' = settings  BY DEF Effect
<1>2. \A w : /\ Opening(w) => Opening(w)'
             /\ Closing(w) => Closing(w)'
             /\ Acting(w) => Acting(w)'
             /\ Booting(w) => Booting(w)'
             /\ Fits(w) => Fits(w)'
  BY <1>1, OpeningWaits, ClosingWaits, ActingWaits, BootingWaits, FitsGoesOn, Zenon
<1>3. Idle("comm") => Idle("comm")'  BY DEF Idle
<1> QED
  BY <1>1, <1>2, <1>3, ZenonT(40) DEF Order, Opens, TimerActs, UserCloses, Boots

LEMMA MainKeepsOrder ==
  ASSUME Order, Outcome("main"), todo["main"] # <<>>, todo'["comm"] = todo["comm"] PROVE Order'
<1>1. "main" \in Threads  BY DEF Threads
<1>2. \A w : Shows(todo["main"], w) => Reads("main", w)  BY <1>1, OutcomeReads
<1>3. stage' = stage /\ settings' = settings  BY DEF Outcome, Effect
<1>4. Idle("comm") => Idle("comm")'  BY DEF Idle
<1>5. CASE Opens
  <2>1. PICK w : Shows(todo["main"], w) /\ Opening(w) /\ Fits(w)  BY <1>5 DEF Opens
  <2>2. Reads("main", w)  BY <1>2, <2>1
  <2>4. /\ Fits(w)' /\ (w # <<>> => Fits(Tail(w))')
        /\ w # <<>> /\ Head(w) \in {"startTx", "startRx"} => \A v : Fits(v)'
    BY <1>3, <2>1, FitsGoesOn
  <2>3. \E v : Shows(todo'["main"], v) /\ Opening(v)' /\ Fits(v)'
    <3>1. CASE Shows(todo'["main"], w) /\ Effect("none")
      BY <2>1, <2>4, <3>1, OpeningWaits, Zenon
    <3>2. CASE w # <<>> /\ Shows(todo'["main"], Tail(w)) /\ Effect(Head(w))
      <4>1. Opening(Tail(w))'  BY <2>1, <3>2, OpeningGoesOn
      <4> QED  BY <2>4, <3>2, <4>1
    <3>3. CASE /\ w # <<>> /\ Head(w) = "startTx" /\ Effect("none")
               /\ Shows(todo'["main"], <<"lower", "supervisorOff">>)
      <4>1. Opening(<<"lower", "supervisorOff">>)'  BY <2>1, <3>3, OpeningFails
      <4> QED  BY <2>4, <3>3, <4>1
    <3>4. CASE w # <<>> /\ Head(w) = "startRx" /\ Shows(todo'["main"], Undoing) /\ Effect("none")
      <4>1. Opening(Undoing)'  BY <2>1, <3>4, OpeningFails
      <4> QED  BY <2>4, <3>4, <4>1
    <3> QED  BY <2>2, <3>1, <3>2, <3>3, <3>4 DEF Reads
  <2> QED  BY <1>3, <1>4, <1>5, <2>3, Zenon DEF Order, Opens
<1>6. CASE TimerActs
  <2>1. Reads("main", <<>>)  BY <1>2, <1>6 DEF TimerActs
  <2>2. Shows(todo'["main"], <<>>) /\ Effect("none")  BY <2>1 DEF Reads
  <2>3. \A w : Acting(w) => Acting(w)'  BY <2>2, ActingWaits, Zenon
  <2> QED  BY <1>3, <1>6, <2>2, <2>3, Zenon DEF Order, TimerActs
<1>7. CASE UserCloses
  <2>1. PICK w : Shows(todo["main"], w) /\ Closing(w)  BY <1>7 DEF UserCloses
  <2>2. Reads("main", w)  BY <1>2, <2>1
  <2>3. \E v : Shows(todo'["main"], v) /\ Closing(v)'
    <3>1. CASE Shows(todo'["main"], w) /\ Effect("none")  BY <2>1, <3>1, ClosingWaits, Zenon
    <3>2. CASE w # <<>> /\ Shows(todo'["main"], Tail(w)) /\ Effect(Head(w))
      BY <2>1, <3>2, ClosingGoesOn, Zenon
    <3>3. w # <<>> => Head(w) \notin {"startTx", "startRx"}  BY <2>1, OnlyOpeningStarts
    <3> QED  BY <2>2, <3>1, <3>2, <3>3 DEF Reads
  <2> QED  BY <1>3, <1>4, <1>7, <2>3, Zenon DEF Order, UserCloses
<1>8. CASE Boots
  <2>1. PICK w : Shows(todo["main"], w) /\ Booting(w)  BY <1>8 DEF Boots
  <2>2. Reads("main", w)  BY <1>2, <2>1
  <2>3. \E v : Shows(todo'["main"], v) /\ Booting(v)'
    <3>1. CASE Shows(todo'["main"], w) /\ Effect("none")  BY <2>1, <3>1, BootingWaits, Zenon
    <3>2. CASE w # <<>> /\ Shows(todo'["main"], Tail(w)) /\ Effect(Head(w))
      BY <2>1, <3>2, BootingGoesOn, Zenon
    <3>3. w # <<>> => Head(w) \notin {"startTx", "startRx"}  BY <2>1, OnlyOpeningStarts
    <3> QED  BY <2>2, <3>1, <3>2, <3>3 DEF Reads
  <2> QED  BY <1>3, <1>4, <1>8, <2>3, Zenon DEF Order, Boots
<1> QED  BY <1>5, <1>6, <1>7, <1>8 DEF Order

LEMMA CommKeepsOrder ==
  ASSUME Order, Outcome("comm"), todo["comm"] # <<>>, todo'["main"] = todo["main"] PROVE Order'
<1>1. "comm" \in Threads  BY DEF Threads
<1>2. TimerActs /\ stage' = stage  BY DEF Order, Opens, UserCloses, Boots, Idle, Outcome, Effect
<1>3. PICK w : Shows(todo["comm"], w) /\ Acting(w)  BY <1>2 DEF TimerActs
<1>4. Reads("comm", w)  BY <1>1, <1>3, OutcomeReads
<1>5. \E v : Shows(todo'["comm"], v) /\ Acting(v)'
  <2>1. CASE Shows(todo'["comm"], w) /\ Effect("none")  BY <1>3, <2>1, ActingWaits, Zenon
  <2>2. CASE w # <<>> /\ Shows(todo'["comm"], Tail(w)) /\ Effect(Head(w))
    BY <1>3, <2>2, ActingGoesOn, Zenon
  <2>3. CASE /\ w # <<>> /\ Head(w) = "startTx" /\ Effect("none")
             /\ Shows(todo'["comm"], <<"lower", "supervisorOff">>)
    BY <1>3, <2>3, ActingGoesOn, Zenon
  <2>4. CASE w # <<>> /\ Head(w) = "startRx" /\ Shows(todo'["comm"], Undoing) /\ Effect("none")
    BY <1>3, <2>4, ActingGoesOn, Zenon
  <2> QED  BY <1>4, <2>1, <2>2, <2>3, <2>4 DEF Reads
<1> QED  BY <1>2, <1>5, Zenon DEF Order, TimerActs

LEMMA OthersKeepOrder ==
  ASSUME Order, RoleInv, NEW t \in {"blink", "rx", "tx"}, Outcome(t), todo[t] # <<>>,
         todo'["main"] = todo["main"], todo'["comm"] = todo["comm"]
  PROVE  Order'
<1>1. Shows(todo[t], <<>>) /\ t \in Threads  BY ShowsNothing DEF RoleInv, Threads
<1>2. Reads(t, <<>>)  BY <1>1, OutcomeReads
<1> QED  BY <1>2, OrderWaits DEF Reads

(* The user's thread between two functions.                                *)
CommIs == UNCHANGED <<comm, supervisor, tx, spi>>

LEMMA SameOrder ==
  ASSUME CommIs
  PROVE  /\ Off => Off'
         /\ \A w : Opening(w) => Opening(w)'
         /\ \A w : Closing(w) => Closing(w)'
         /\ \A w : Acting(w) => Acting(w)'
<1>1. \A c, s, x, r, d : Has(c, s, x, r, d) => Has(c, s, x, r, d)'
  BY DEF Has, CommIs, Running, Dac
<1>2. Off => Off'  BY <1>1 DEF Off
<1>3. OnAir => OnAir'  BY <1>1 DEF OnAir
<1>6. Armed => Armed'  BY <1>1 DEF Armed
<1>4. \A w : Opening(w) => Opening(w)'  BY <1>1, <1>2, <1>3, <1>6, Zenon DEF Opening
<1>5. \A w : Closing(w) => Closing(w)'  BY <1>1, <1>2, <1>3, Zenon DEF Closing
<1>7. \A w : Pausing(w) => Pausing(w)'  BY <1>1, <1>3, <1>6, Zenon DEF Pausing
<1>8. \A w : Acting(w) => Acting(w)'  BY <1>4, <1>5, <1>7, Zenon DEF Acting
<1> QED  BY <1>2, <1>4, <1>5, <1>8

LEMMA Between ==
  ASSUME Order, Idle("main")
  PROVE  /\ stage # "idle" => Idle("comm") /\ Off
         /\ stage = "idle" /\ Idle("comm") => Off \/ Armed \/ OnAir
         /\ stage = "idle" /\ ~ Idle("comm") => \E w : Shows(todo["comm"], w) /\ Acting(w)
<1>1. \A w : Shows(todo["main"], w) => w = <<>>  BY ShowsEmpty DEF Idle
<1>2. Idle("comm") => \A w : Shows(todo["comm"], w) => w = <<>>  BY ShowsEmpty DEF Idle
<1>3. CASE Opens  BY <1>1, <1>3, OpeningEnds DEF Opens
<1>4. CASE TimerActs
  BY <1>2, <1>4, OpeningEnds, ClosingEnds, PausingEnds DEF TimerActs, Acting
<1>5. CASE UserCloses  BY <1>1, <1>5, ClosingEnds DEF UserCloses
<1>6. CASE Boots  BY <1>1, <1>6 DEF Boots, Booting
<1> QED  BY <1>3, <1>4, <1>5, <1>6 DEF Order

(* The programs that a function of the user's thread begins with.          *)
Begins(p, s) ==
  \/ s = "idle" /\ Idle("comm") /\ \E w : Shows(p, w) /\ Opening(w) /\ Fits(w)'
  \/ s = "idle" /\ Shows(p, <<>>) /\ stage = "idle" /\ ~ Idle("comm")
  \/ s = "stopping" /\ Idle("comm") /\ \E w : Shows(p, w) /\ Closing(w)
  \/ /\ s \notin {"idle", "stopping"} /\ Idle("comm") /\ Off
     /\ \/ Shows(p, <<>>) \/ Shows(p, <<"lower">>)
        \/ Shows(p, <<"closeSpi">>) /\ s \in {"released", "failed"}

LEMMA CallKeepsOrder ==
  ASSUME Order, TodoInv, Idle("main"), NEW p, NEW s, Begins(p, s), CommIs,
         todo' = [todo EXCEPT !["main"] = p], stage' = s
  PROVE  Order'
<1>1. todo'["main"] = p /\ todo'["comm"] = todo["comm"]  BY DEF TodoInv, Threads
<1>2. /\ Off => Off'
      /\ \A w : Opening(w) => Opening(w)'
      /\ \A w : Closing(w) => Closing(w)'
      /\ \A w : Acting(w) => Acting(w)'
  BY SameOrder
<1>3. Idle("comm") => Idle("comm")'  BY <1>1 DEF Idle
<1>4. CASE s = "idle" /\ Idle("comm") /\ \E w : Shows(p, w) /\ Opening(w) /\ Fits(w)'
  BY <1>1, <1>2, <1>3, <1>4, Zenon DEF Order, Opens
<1>5. CASE s = "idle" /\ Shows(p, <<>>) /\ stage = "idle" /\ ~ Idle("comm")
  <2>1. \E w : Shows(todo["comm"], w) /\ Acting(w)  BY <1>5, Between
  <2> QED  BY <1>1, <1>2, <1>5, <2>1, Zenon DEF Order, TimerActs
<1>6. CASE s = "stopping" /\ Idle("comm") /\ \E w : Shows(p, w) /\ Closing(w)
  BY <1>1, <1>2, <1>3, <1>6, Zenon DEF Order, UserCloses
<1>7. CASE /\ s \notin {"idle", "stopping"} /\ Idle("comm") /\ Off
           /\ \/ Shows(p, <<>>) \/ Shows(p, <<"lower">>)
              \/ Shows(p, <<"closeSpi">>) /\ s \in {"released", "failed"}
  <2>1. \E w : Shows(p, w) /\ Booting(w)'  BY <1>2, <1>7 DEF Booting
  <2>2. stage' \notin {"idle", "stopping"}  BY <1>7
  <2> QED  BY <1>1, <1>3, <1>7, <2>1, <2>2, Zenon DEF Order, Boots
<1> QED  BY <1>4, <1>5, <1>6, <1>7 DEF Begins

LEMMA MainBegins ==
  ASSUME Order, Main
  PROVE  Idle("main") /\ CommIs /\ \E p, s : Begins(p, s) /\ Call(p, s)
<1>1. /\ stage # "idle" => Idle("comm") /\ Off
      /\ stage = "idle" /\ Idle("comm") => Off \/ Armed \/ OnAir
      /\ Idle("main") /\ CommIs
  <2>1. Idle("main") /\ CommIs
    BY DEF Main, Create, CreateFails, SpiCreate, SpiCreateFails, AfeCreate, AfeCreated, Initialize,
           MenuActivate, MenuDeactivate, Deactivated, MenuOverloads, MenuSettings, MenuExit, Menu,
           At, MainFrame, CommIs
  <2> QED  BY <2>1, Between
<1> DEFINE Found == \E p, s : Begins(p, s) /\ Call(p, s)
<1>2. ASSUME NEW p, NEW s, Begins(p, s), Call(p, s) PROVE Found  BY <1>2
<1>3. ASSUME NEW p, Avoids(p, KeyOps) PROVE Shows(p, <<>>)  BY <1>3, ShowsNothing
<1>4. Shows(<<>>, <<>>)  BY <1>3, AvoidsNone
<1>18. Fits(<<>>)'  BY DEF Fits
<1> HIDE DEF Found
<1>5. CASE Create
  <2>1. Shows(LedsCreate(version), <<>>)  BY <1>3, QuietCalls
  <2>2. Begins(LedsCreate(version), "leds")  BY <1>1, <1>5, <2>1 DEF Create, At, Begins
  <2> QED  BY <1>1, <1>2, <1>5, <2>2 DEF Create, Found
<1>6. CASE CreateFails
  <2>1. Begins(<<>>, "failed")  BY <1>1, <1>4, <1>6 DEF CreateFails, At, Begins
  <2> QED  BY <1>1, <1>2, <1>6, <2>1 DEF CreateFails, Found
<1>7. CASE SpiCreate
  <2>1. Begins(<<>>, "spi")  BY <1>1, <1>4, <1>7 DEF SpiCreate, At, Begins
  <2>2. Begins(SetDacMode(0), "spi")  BY <1>1, <1>7, WordOfDacMode DEF SpiCreate, At, Begins
  <2>3. Call(<<>>, "spi") \/ Call(SetDacMode(0), "spi")  BY <1>7 DEF SpiCreate
  <2> QED  BY <1>1, <1>2, <2>1, <2>2, <2>3 DEF Found
<1>8. CASE SpiCreateFails
  <2>1. Shows(LedsRelease(version), <<>>)  BY <1>3, QuietCalls
  <2>2. Begins(LedsRelease(version), "failed")  BY <1>1, <1>8, <2>1 DEF SpiCreateFails, At, Begins
  <2> QED  BY <1>1, <1>2, <1>8, <2>2 DEF SpiCreateFails, Found
<1>9. CASE AfeCreate
  <2>1. Shows(AfeProbe, <<>>)  BY <1>3, QuietCalls
  <2>2. Begins(AfeProbe, "probe")  BY <1>1, <1>9, <2>1 DEF AfeCreate, At, Begins
  <2> QED  BY <1>1, <1>2, <1>9, <2>2 DEF AfeCreate, Found
<1>10. CASE AfeCreated
  <2> DEFINE q == (PinOutSet("shutdown", 1) \o LedsRelease(version)) \o SpiRelease
  <2>1. Shows(Configure(Defaults), <<>>)  BY <1>3, QuietCalls
  <2>2. Shows(q, <<"closeSpi">>)  BY WordsOfRelease
  <2>3. stage = "probe"  BY <1>10 DEF AfeCreated, At
  <2>4. Call(<<>>, "created") \/ Call(Configure(Defaults), "created") \/ Call(q, "failed")
    BY <1>10 DEF AfeCreated
  <2> HIDE DEF q
  <2>5. Begins(<<>>, "created")  BY <1>1, <1>4, <2>3 DEF Begins
  <2>6. Begins(Configure(Defaults), "created")  BY <1>1, <2>1, <2>3 DEF Begins
  <2>7. Begins(q, "failed")  BY <1>1, <2>2, <2>3 DEF Begins
  <2> QED  BY <1>1, <1>2, <2>4, <2>5, <2>6, <2>7 DEF Found
<1>11. CASE Initialize
  <2>1. PICK s \in Settings : Call(InitializeCape(s), "idle")  BY <1>11 DEF Initialize
  <2>2. Shows(InitializeCape(s), <<>>)  BY <1>3, QuietInitialize
  <2>3. Opening(<<>>) /\ Idle("comm")  BY <1>1, <1>11 DEF Initialize, At, Opening
  <2>4. Begins(InitializeCape(s), "idle")  BY <1>18, <2>2, <2>3 DEF Begins
  <2> QED  BY <1>1, <1>2, <2>1, <2>4 DEF Found
<1>12. CASE MenuActivate
  <2>1. Off /\ Idle("comm")  BY <1>1, <1>12 DEF MenuActivate, Menu, At, Armed, OnAir, Has
  <2>2. Opening(Starting) /\ Opening(<<"supervisorOn">>)  BY <2>1 DEF Opening
  <2>4. settings' = settings  BY <1>12 DEF MenuActivate
  <2>5. Fits(<<"supervisorOn">>)' /\ (~ settings.periodic => Fits(Starting)')  BY <2>4 DEF Fits
  <2>3. Begins(Activate, "idle")  BY <2>1, <2>2, <2>5, WordOfActivate DEF Begins
  <2> QED  BY <1>1, <1>2, <1>12, <2>3 DEF MenuActivate, Found
<1>13. CASE MenuDeactivate
  <2>1. Idle("comm") /\ ((comm /\ OnAir) \/ (~ comm /\ Armed))
    BY <1>1, <1>13 DEF MenuDeactivate, At, Off, Armed, OnAir, Has
  <2>3. /\ comm => Closing(Stopping)
        /\ ~ comm => Closing(<<"supervisorOff">>)
    BY <2>1 DEF Closing, Armed, OnAir, Has
  <2>4. Deactivate(comm) = IF comm THEN Deactivate(TRUE) ELSE Deactivate(FALSE)
    BY DEF Deactivate
  <2>2. Begins(Deactivate(comm), "stopping")  BY <2>1, <2>3, <2>4, WordOfDeactivate DEF Begins
  <2> QED  BY <1>1, <1>2, <1>13, <2>2 DEF MenuDeactivate, Found
<1>14. CASE Deactivated
  <2>1. Opening(<<>>) /\ Idle("comm")  BY <1>1, <1>14 DEF Deactivated, At, Opening
  <2>2. Begins(<<>>, "idle")  BY <1>4, <1>18, <2>1 DEF Begins
  <2> QED  BY <1>1, <1>2, <1>14, <2>2 DEF Deactivated, Found
<1>15. CASE MenuOverloads
  <2>1. stage = "idle"  BY <1>15 DEF MenuOverloads, Menu, At
  <2>2. Idle("comm") => Opening(<<>>)  BY <1>1, <2>1 DEF Opening
  <2>3. ASSUME NEW p, Shows(p, <<>>) PROVE Begins(p, "idle")
    BY <1>18, <2>1, <2>2, <2>3 DEF Begins
  <2>4. Shows(ClearOverloads, <<>>) /\ Shows(GetOverloads, <<>>)  BY <1>3, QuietCalls
  <2>5. Call(ClearOverloads, "idle") \/ Call(GetOverloads, "idle")  BY <1>15 DEF MenuOverloads
  <2> QED  BY <1>1, <1>2, <2>3, <2>4, <2>5 DEF Found
<1>16. CASE MenuSettings
  <2>1. Off /\ Idle("comm")  BY <1>1, <1>16 DEF MenuSettings, Menu, At, Quiescent, Armed, OnAir, Has
  <2>2. Shows(TerminateCape, <<>>)  BY <1>3, QuietCalls
  <2>3. Begins(TerminateCape, "created")  BY <2>1, <2>2 DEF Begins
  <2> QED  BY <1>1, <1>2, <1>16, <2>3 DEF MenuSettings, Found
<1>17. CASE MenuExit
  <2>1. Off /\ Idle("comm")  BY <1>1, <1>17 DEF MenuExit, At, Quiescent, Armed, OnAir, Has
  <2>2. Begins(TerminateCape \o ReleaseCape, "released")  BY <2>1, WordsOfRelease DEF Begins
  <2> QED  BY <1>1, <1>2, <1>17, <2>2 DEF MenuExit, Found
<1> QED
  BY <1>5, <1>6, <1>7, <1>8, <1>9, <1>10, <1>11, <1>12, <1>13, <1>14, <1>15, <1>16, <1>17 DEF Main

LEMMA CallsKeepOrder == ASSUME Order, TodoInv, Main PROVE Order'
<1>1. Idle("main") /\ CommIs  BY MainBegins
<1>2. PICK p, s : Begins(p, s) /\ Call(p, s)  BY MainBegins
<1> QED  BY <1>1, <1>2, CallKeepsOrder DEF Call

(* The timer of a communication.                                           *)
LEMMA TimerKeepsOrder == ASSUME Order, TodoInv, TimerStarts \/ TimerStops PROVE Order'
<1>1. Idle("comm") /\ stage = "idle" /\ stage' = stage /\ CommIs
  BY DEF TimerStarts, TimerStops, UserFrame, CommIs
<1>2. \A w : Shows(todo["comm"], w) => w = <<>>  BY <1>1, ShowsEmpty DEF Idle
<1>3. ASSUME NEW p, NEW w, todo' = [todo EXCEPT !["comm"] = p], Shows(todo["main"], <<>>),
             Shows(p, w), Acting(w)
      PROVE  Order'
  <2>1. todo'["main"] = todo["main"] /\ todo'["comm"] = p  BY <1>3 DEF TodoInv, Threads
  <2>2. Acting(w)'  BY <1>1, <1>3, SameOrder
  <2> QED  BY <1>1, <1>3, <2>1, <2>2, Zenon DEF Order, TimerActs
<1>4. CASE TimerStarts
  <2>1. settings.periodic /\ supervisor /\ ~ comm
        /\ todo' = [todo EXCEPT !["comm"] = StartCommunication]
    BY <1>4 DEF TimerStarts
  <2>2. Shows(todo["main"], <<>>) /\ Armed
    <3>1. CASE Opens
      <4>1. PICK w : Shows(todo["main"], w) /\ Opening(w) /\ Fits(w)  BY <3>1 DEF Opens
      <4>2. w = <<>> \/ w = <<"supervisorOn">>  BY <2>1, <4>1 DEF Fits
      <4>3. w = <<"supervisorOn">> => w # <<>> /\ Head(w) = "supervisorOn"  BY Parts
      <4>4. w # <<"supervisorOn">>
        BY <2>1, <4>1, <4>3, Parts DEF Opening, Off, Has
      <4> QED  BY <2>1, <4>1, <4>2, <4>4, OpeningEnds DEF Off, OnAir, Has
    <3>2. CASE TimerActs
      <4>1. Shows(todo["main"], <<>>) /\ Acting(<<>>)  BY <1>2, <3>2 DEF TimerActs
      <4> QED
        BY <2>1, <4>1, OpeningEnds, ClosingEnds, PausingEnds DEF Acting, Off, OnAir, Has
    <3> QED  BY <1>1, <3>1, <3>2 DEF Order, UserCloses, Boots
  <2>3. Acting(Tail(Starting))  BY <2>2 DEF Acting, Opening, Armed
  <2> QED  BY <1>3, <2>1, <2>2, <2>3, WordOfStart
<1>5. CASE TimerStops
  <2>1. comm /\ \/ todo' = [todo EXCEPT !["comm"] = StopCommunication]
                \/ todo' = [todo EXCEPT !["comm"] = Deactivate(TRUE)]
    BY <1>5 DEF TimerStops
  <2>2. Shows(todo["main"], <<>>) /\ OnAir
    <3>1. CASE Opens
      <4>1. PICK w : Shows(todo["main"], w) /\ Opening(w)  BY <3>1 DEF Opens
      <4> QED  BY <2>1, <4>1 DEF Opening, Off, Armed, Has
    <3>2. CASE TimerActs
      <4>1. Shows(todo["main"], <<>>) /\ Acting(<<>>)  BY <1>2, <3>2 DEF TimerActs
      <4> QED
        BY <2>1, <4>1, OpeningEnds, ClosingEnds, PausingEnds DEF Acting, Off, Armed, Has
    <3> QED  BY <1>1, <3>1, <3>2 DEF Order, UserCloses, Boots
  <2>3. Acting(Stopping) /\ Acting(Pause)  BY <2>2 DEF Acting, Closing, Pausing
  <2> QED  BY <1>3, <2>1, <2>2, <2>3, WordOfDeactivate
<1> QED  BY <1>4, <1>5

(* Nothing else changes the state of a communication.                      *)
LEMMA OthersWait ==
  ASSUME Order, TodoInv, TxTypes, TxCycle \/ RxCycle \/ TimerToggles
  PROVE  Order'
<1>1. ASSUME NEW t \in {"blink", "rx", "tx"}, NEW p, todo' = [todo EXCEPT ![t] = p]
      PROVE  todo'["main"] = todo["main"] /\ todo'["comm"] = todo["comm"]
  BY <1>1 DEF TodoInv, Threads
<1>2. todo'["main"] = todo["main"] /\ todo'["comm"] = todo["comm"]
  BY <1>1 DEF TxCycle, RxCycle, TimerToggles
<1>3. UNCHANGED <<stage, settings, comm, supervisor, spi>>
  BY DEF TxCycle, RxCycle, TimerToggles, UserFrame
<1>4. (Running <=> Running') /\ (tx.rx <=> tx'.rx)
  <2>1. CASE TxCycle
    <3>1. \/ tx.thread = "loop" /\ tx' = [tx EXCEPT !.thread = "gone"]
          \/ tx' = [tx EXCEPT !.filled = @ + tx.len]
      BY <2>1 DEF TxCycle
    <3> QED  BY <3>1 DEF TxTypes, Running
  <2>2. CASE RxCycle \/ TimerToggles  BY <2>2 DEF RxCycle, TimerToggles, Running
  <2> QED  BY <2>1, <2>2
<1>5. Effect("none")  BY <1>3, <1>4 DEF Effect, Dac
<1> QED  BY <1>2, <1>5, OrderWaits

(* The threads that send and receive have steps while they run.            *)
TxInv ==
  /\ tx.thread \in {"none", "gone"} => Idle("tx")
  /\ ~ tx.rx => Idle("rx")
  /\ tx.pcm => Running
  /\ ~ Alsa => tx.len = Frames

LEMMA RolesKept ==
  ASSUME RoleInv, TodoInv, NEW t \in Threads, Proceeds(t) PROVE RoleInv'
<1> DEFINE Sends == {"writei", "transfer"}
<1>1. \A u \in Threads \ {t} : todo'[u] = todo[u]  BY DEF Proceeds, TodoInv
<1>2. todo[t] # <<>>  BY DEF Proceeds
<1>3. Avoids(AbandonTx, Sends) /\ Avoids(AbandonRx, Sends)
  BY AbandonAvoids DEF Special, DacSteps
<1>4. \A A : Avoids(todo[t], A) => Avoids(Tail(todo[t]), A) /\ Head(todo[t]).op \notin A
  BY <1>2, AvoidsRest
<1>5. t \in {"blink", "rx", "tx"} => Avoids(todo'[t], KeyOps)
  <2> SUFFICES ASSUME t \in {"blink", "rx", "tx"} PROVE Avoids(todo'[t], KeyOps)  OBVIOUS
  <2>1. Avoids(todo[t], KeyOps)  BY DEF RoleInv
  <2>2. Avoids(Tail(todo[t]), KeyOps) /\ Head(todo[t]).op \notin {"startTx", "startRx"}
    BY <1>4, <2>1 DEF KeyOps, Key
  <2>3. ASSUME PutsBack(todo[t], todo'[t]) PROVE Avoids(todo'[t], KeyOps)
    <3>1. PICK s : /\ s = <<>> \/ \E x : s = <<[op |-> "writei", samples |-> x]>>
                   /\ todo'[t] = s \o Tail(todo[t])
      BY <2>3 DEF PutsBack
    <3>2. "writei" \notin KeyOps  BY DEF KeyOps, Key
    <3>3. Avoids(s, KeyOps)  BY <3>1, <3>2, AvoidsNone, AvoidsOne
    <3> QED  BY <2>2, <3>1, <3>3, AvoidsJoined
  <2> QED  BY <2>1, <2>2, <2>3 DEF Proceeds
<1>6. t # "tx" => Avoids(todo'[t], Sends)
  <2> SUFFICES ASSUME t # "tx" PROVE Avoids(todo'[t], Sends)  OBVIOUS
  <2>1. Avoids(todo[t], Sends)  BY DEF RoleInv
  <2>2. Avoids(Tail(todo[t]), Sends) /\ Head(todo[t]).op # "writei"  BY <1>4, <2>1
  <2> QED  BY <1>3, <2>1, <2>2 DEF Proceeds
<1> HIDE DEF Sends
<1>7. \A u \in {"blink", "rx", "tx"} : Avoids(todo'[u], KeyOps)
  BY <1>1, <1>5 DEF RoleInv, Threads
<1>8. \A u \in Threads \ {"tx"} : Avoids(todo'[u], Sends)
  BY <1>1, <1>6 DEF RoleInv, Sends
<1> QED  BY <1>7, <1>8 DEF RoleInv, Sends

(* A program given to a thread.                                            *)
LEMMA RolesGiven ==
  ASSUME RoleInv, TodoInv, NEW t \in Threads, NEW p, todo' = [todo EXCEPT ![t] = p],
         t \in {"blink", "rx", "tx"} => Avoids(p, KeyOps),
         t # "tx" => Avoids(p, {"writei", "transfer"})
  PROVE  RoleInv'
<1>1. \A u \in Threads : todo'[u] = IF u = t THEN p ELSE todo[u]  BY DEF TodoInv
<1>2. \A u \in {"blink", "rx", "tx"} : Avoids(todo'[u], KeyOps)  BY <1>1 DEF RoleInv, Threads
<1>3. \A u \in Threads \ {"tx"} : Avoids(todo'[u], {"writei", "transfer"})
  BY <1>1 DEF RoleInv
<1> QED  BY <1>2, <1>3 DEF RoleInv

LEMMA MainKeepsRoles == ASSUME RoleInv, TodoInv, Main PROVE RoleInv'
<1> DEFINE Sends == {"writei", "transfer"}
<1>1. Sends \subseteq Special /\ Sends \subseteq Special \ DacSteps
      /\ \A op \in Sends : op \notin
        {"unhook", "closeSpi", "ledsGone", "ledsReady", "supervisorOn", "supervisorOff", "startTx",
         "startRx", "commOn", "commOff", "joinRx", "joinTx", "requestStop"}
  BY DEF Special, DacSteps
<1> HIDE DEF Sends
<1>2. /\ Avoids(LedsCreate(version), Sends) /\ Avoids(LedsRelease(version), Sends)
      /\ Avoids(SpiRelease, Sends) /\ Avoids(ReleaseCape, Sends) /\ Avoids(TerminateCape, Sends)
      /\ Avoids(Activate, Sends) /\ Avoids(Deactivate(comm), Sends)
  BY <1>1, LedsAvoid, SpiReleaseAvoids, ReleaseAvoids, TerminateAvoids, ActivateAvoids,
     DeactivateAvoids
<1>3. /\ Avoids(SetDacMode(0), Sends) /\ Avoids(AfeProbe, Sends)
      /\ Avoids(Configure(Defaults), Sends) /\ Avoids(ClearOverloads, Sends)
      /\ Avoids(GetOverloads, Sends) /\ Avoids(PinOutSet("shutdown", 1), Sends)
  BY <1>1, CallsAreCore, PinsAreCore, AvoidsFewer
<1>4. Avoids((PinOutSet("shutdown", 1) \o LedsRelease(version)) \o SpiRelease, Sends)
      /\ Avoids(TerminateCape \o ReleaseCape, Sends) /\ Avoids(<<>>, Sends)
  BY <1>2, <1>3, AvoidsJoined, AvoidsNone
<1>5. \A s : Avoids(InitializeCape(s), Sends)  BY InitializeAvoids DEF Sends, Special, DacSteps
<1>6. \E p, s : Call(p, s) /\ Avoids(p, Sends)
  <2>1. ASSUME NEW p, NEW s, Call(p, s), Avoids(p, Sends)
        PROVE  \E q, r : Call(q, r) /\ Avoids(q, Sends)
    BY <2>1
  <2> QED
    BY <1>2, <1>3, <1>4, <1>5, <2>1, ZenonT(40)
    DEF Main, Create, CreateFails, SpiCreate, SpiCreateFails, AfeCreate, AfeCreated, Initialize,
        MenuActivate, MenuDeactivate, Deactivated, MenuOverloads, MenuSettings, MenuExit
<1>7. PICK p, s : Call(p, s) /\ Avoids(p, Sends)  BY <1>6
<1>8. "main" \in Threads /\ "main" \notin {"blink", "rx", "tx"}  BY DEF Threads
<1> QED  BY <1>7, <1>8, RolesGiven DEF Call, Sends

(* What every step keeps of all that.                                      *)
CommInv == SpiTypes /\ RoleInv /\ TxInv /\ Order

(* A step of the callbacks, of a pin or of the kernel.                     *)
Elsewhere ==
  /\ UNCHANGED <<todo, stage, board, comm, supervisor, tx, spi, line, settings>>
  /\ happened \subseteq happened'

LEMMA NotHere ==
  ASSUME Callback \/ (\E f \in Flags : Edge(f)) \/ Kernel PROVE Elsewhere
<1>1. CASE Callback
  BY <1>1, ZenonT(60)
  DEF Callback, CallbackBegins, CallbackOrphaned, CallbackTests, CallbackWakes, CallbackReads,
      CallbackStores, CallbackFrame, Elsewhere
<1>2. CASE \E f \in Flags : Edge(f)
  BY <1>2 DEF Edge, Elsewhere
<1>3. CASE Kernel
  BY <1>3 DEF Kernel, UserUnchanged, KernelEvent, KernelGoesOn, Elsewhere
<1> QED  BY <1>1, <1>2, <1>3

LEMMA SameCommKept == ASSUME CommInv, Elsewhere PROVE CommInv'
<1>1. Effect("none")  BY NoEffect DEF Elsewhere
<1>2. Order'  BY <1>1, OrderWaits DEF CommInv, Elsewhere
<1>3. SpiTypes'  BY DEF CommInv, Elsewhere, SpiTypes
<1>4. RoleInv'  BY DEF CommInv, Elsewhere, RoleInv
<1>5. TxInv'  BY DEF CommInv, Elsewhere, TxInv, Idle, Running, Alsa, Emulated
<1> QED  BY <1>2, <1>3, <1>4, <1>5 DEF CommInv

LEMMA StepKeepsComm ==
  ASSUME CommInv, TodoInv, TxTypes, NEW t \in Threads, StepOf(t), Alive' PROVE CommInv'
<1>1. Outcome(t) /\ SpiTypes' /\ Proceeds(t) /\ TxSteps /\ board' = board
  BY StepOutcome, StepProceeds, StepTx, StepKeepsBoard DEF CommInv
<1>2. /\ todo[t] # <<>>
      /\ \A u \in Threads \ {t} : todo'[u] = todo[u]
  BY <1>1 DEF Proceeds, TodoInv
<1>3. RoleInv'  BY <1>1, RolesKept DEF CommInv
<1>4. Order'
  <2>1. CASE t = "main"  BY <1>1, <1>2, <2>1, MainKeepsOrder DEF CommInv, Threads
  <2>2. CASE t = "comm"  BY <1>1, <1>2, <2>2, CommKeepsOrder DEF CommInv, Threads
  <2>3. CASE t \in {"blink", "rx", "tx"}
    BY <1>1, <1>2, <2>3, OthersKeepOrder DEF CommInv, Threads
  <2> QED  BY <2>1, <2>2, <2>3 DEF Threads
<1>5. TxInv'
  <2>1. t = "tx" => tx.thread = "loop"  BY <1>2 DEF CommInv, TxInv, Idle, TxTypes
  <2>2. tx'.thread \in {"none", "gone"} => tx.thread \in {"none", "gone"} /\ t # "tx"
    BY <1>1, <2>1 DEF TxSteps, TxTypes
  <2>3. tx'.thread \in {"none", "gone"} => Idle("tx")'
    BY <1>2, <2>2 DEF CommInv, TxInv, Idle, Threads
  <2>4. t = "rx" => tx.rx /\ ~ Idle("rx")  BY <1>2 DEF CommInv, TxInv, Idle
  <2>5. ~ tx'.rx => Idle("rx") /\ t # "rx"  BY <1>1, <2>4 DEF TxSteps, CommInv, TxInv
  <2>6. ~ tx'.rx => Idle("rx")'  BY <1>2, <2>5 DEF Idle, Threads
  <2>7. tx'.pcm => Running'  BY <1>1 DEF TxSteps, CommInv, TxInv, Running
  <2>8. ~ Alsa' => tx'.len = Frames
    BY <1>1 DEF TxSteps, CommInv, TxInv, Alsa, Emulated
  <2> QED  BY <2>3, <2>6, <2>7, <2>8 DEF TxInv
<1> QED  BY <1>1, <1>3, <1>4, <1>5 DEF CommInv

LEMMA MainKeepsComm == ASSUME CommInv, TodoInv, Main PROVE CommInv'
<1>1. CommIs /\ \E p, s : Call(p, s)  BY MainBegins DEF CommInv
<1>2. board' = board
  BY DEF Main, Create, CreateFails, SpiCreate, SpiCreateFails, AfeCreate, AfeCreated, Initialize,
         MenuActivate, MenuDeactivate, Deactivated, MenuOverloads, MenuSettings, MenuExit, MainFrame
<1>3. Order' /\ RoleInv'  BY CallsKeepOrder, MainKeepsRoles DEF CommInv
<1>4. SpiTypes'  BY <1>1 DEF CommInv, CommIs, SpiTypes
<1>5. todo'["rx"] = todo["rx"] /\ todo'["tx"] = todo["tx"]
  BY <1>1 DEF Call, TodoInv, Threads
<1>6. TxInv'  BY <1>1, <1>2, <1>5 DEF CommInv, CommIs, TxInv, Idle, Running, Alsa, Emulated
<1> QED  BY <1>3, <1>4, <1>6 DEF CommInv

LEMMA CyclesKeepComm ==
  ASSUME CommInv, TodoInv, TxTypes, TxCycle \/ RxCycle \/ TimerStarts \/ TimerStops \/ TimerToggles
  PROVE  CommInv'
<1>1. board' = board /\ spi' = spi
  BY DEF TxCycle, RxCycle, TimerStarts, TimerStops, TimerToggles, UserFrame
<1>2. SpiTypes'  BY <1>1 DEF CommInv, SpiTypes
<1>3. Order'  BY TimerKeepsOrder, OthersWait DEF CommInv
<1>4. ASSUME NEW t \in Threads, NEW p, todo' = [todo EXCEPT ![t] = p]
      PROVE  \A u \in Threads : todo'[u] = IF u = t THEN p ELSE todo[u]
  BY <1>4 DEF TodoInv
<1>5. CASE TxCycle
  <2>1. CASE tx.end
    <3>1. tx' = [tx EXCEPT !.thread = "gone"] /\ todo' = todo /\ Idle("tx") /\ Running
      BY <1>5, <2>1 DEF TxCycle, Running
    <3>2. TxInv'  BY <1>1, <3>1 DEF CommInv, TxInv, Idle, TxTypes, Running, Alsa, Emulated
    <3>3. RoleInv'  BY <3>1 DEF CommInv, RoleInv
    <3> QED  BY <1>2, <1>3, <3>2, <3>3 DEF CommInv
  <2>2. CASE ~ tx.end
    <3>1. /\ tx' = [tx EXCEPT !.filled = @ + tx.len] /\ tx.thread = "loop"
          /\ todo' = [todo EXCEPT !["tx"] = FlushBuffer(FillNext)]
      BY <1>5, <2>2 DEF TxCycle
    <3>2. "tx" \in Threads  BY DEF Threads
    <3>3. TxInv'
      BY <1>1, <1>4, <3>1, <3>2
      DEF CommInv, TxInv, Idle, TxTypes, Running, Alsa, Emulated, Threads
    <3>4. Avoids(FlushBuffer(FillNext), KeyOps)
      <4>1. DOMAIN FillNext = 1..tx.len  BY DEF FillNext
      <4>2. "writei" \notin KeyOps /\ "transfer" \notin KeyOps  BY DEF KeyOps, Key
      <4> QED  BY <4>1, <4>2, FlushAvoids
    <3>5. RoleInv'  BY <3>1, <3>2, <3>4, RolesGiven DEF CommInv
    <3> QED  BY <1>2, <1>3, <3>3, <3>5 DEF CommInv
  <2> QED  BY <2>1, <2>2
<1>6. ASSUME NEW t \in {"blink", "rx", "comm"}, NEW p, todo' = [todo EXCEPT ![t] = p],
             t # "comm" => Avoids(p, KeyOps), Avoids(p, {"writei", "transfer"}), tx' = tx,
             t = "rx" => tx.rx
      PROVE  CommInv'
  <2>1. t \in Threads  BY DEF Threads
  <2>2. RoleInv'  BY <1>6, <2>1, RolesGiven DEF CommInv
  <2>3. todo'["tx"] = todo["tx"] /\ (t # "rx" => todo'["rx"] = todo["rx"])
    BY <1>4, <1>6, <2>1 DEF Threads
  <2>4. TxInv'  BY <1>1, <1>6, <2>3 DEF CommInv, TxInv, Idle, Running, Alsa, Emulated
  <2> QED  BY <1>2, <1>3, <2>2, <2>4 DEF CommInv
<1>7. \A p : Avoids(p, Special) => Avoids(p, {"writei", "transfer"})
  BY AvoidsFewer DEF Special
<1>8. CASE RxCycle
  <2>1. PICK d \in {0, 1} : todo' = [todo EXCEPT !["rx"] = SetRxActivity(d)]
    BY <1>8 DEF RxCycle
  <2>2. Avoids(SetRxActivity(d), KeyOps) /\ Avoids(SetRxActivity(d), {"writei", "transfer"})
    BY <1>7, QuietCalls, LedsAreCore
  <2> QED  BY <1>6, <1>8, <2>1, <2>2 DEF RxCycle
<1>9. CASE TimerToggles
  <2>1. Avoids(ToggleAppActivity, KeyOps) /\ Avoids(ToggleAppActivity, {"writei", "transfer"})
    BY <1>7, QuietCalls, LedsAreCore
  <2> QED  BY <1>6, <1>9, <2>1 DEF TimerToggles
<1>10. CASE TimerStarts \/ TimerStops
  <2>1. \A p \in {StartCommunication, StopCommunication, Deactivate(TRUE)} :
          Avoids(p, {"writei", "transfer"})
    BY ActivateAvoids, DeactivateAvoids DEF Special, DacSteps
  <2>2. \E p \in {StartCommunication, StopCommunication, Deactivate(TRUE)} :
          todo' = [todo EXCEPT !["comm"] = p]
    BY <1>10 DEF TimerStarts, TimerStops
  <2>3. tx' = tx  BY <1>10 DEF TimerStarts, TimerStops
  <2> QED  BY <1>6, <2>1, <2>2, <2>3
<1> QED  BY <1>5, <1>8, <1>9, <1>10

LEMMA NextIsAlive == ASSUME Next PROVE Alive
<1>1. ASSUME NEW t \in Threads, StepOf(t) PROVE Alive
  <2>1. CASE \/ LoadPin(t) \/ StorePin(t) \/ Lock(t) \/ UnlockLeds(t)
             \/ InDacMode(t) \/ WriteRegister(t) \/ AskRegister(t)
    BY <2>1 DEF LoadPin, StorePin, Lock, UnlockLeds, InDacMode, WriteRegister, AskRegister, Is,
                RegisterStep
  <2>2. CASE \/ AnswerRegister(t) \/ ExpectRegister(t) \/ RememberField(t) \/ DacMode(t)
             \/ SetDriver(t) \/ TransferDac(t) \/ Hook(t)
    BY <2>2, SMTT(30) DEF AnswerRegister, ExpectRegister, RememberField, DacMode, SetDriver,
       TransferDac, Hook, Is
  <2>3. CASE \/ GetPin(t) \/ PutFlag(t) \/ Unhook(t) \/ WriteBuffer(t)
             \/ ConfigureSpi(t) \/ StartTx(t) \/ StartRx(t)
    BY <2>3 DEF GetPin, PutFlag, Unhook, WriteBuffer, ConfigureSpi, StartTx, StartRx, Is
  <2>4. CASE StopThread(t) \/ Communication(t) \/ Supervisor(t) \/ CloseSpi(t)
    BY <2>4 DEF StopThread, Communication, Supervisor, CloseSpi, Is
  <2> QED  BY <1>1, <2>1, <2>2, <2>3, <2>4 DEF StepOf
<1>2. CASE Main
  BY <1>2 DEF Main, Create, CreateFails, SpiCreate, SpiCreateFails, AfeCreate, AfeCreated,
    Initialize, MenuActivate, MenuDeactivate, Deactivated, MenuOverloads, MenuSettings, MenuExit,
    Menu, At
<1>3. CASE Callback
  BY <1>3, Zenon
  DEF Callback, CallbackBegins, CallbackOrphaned, CallbackTests, CallbackWakes, CallbackReads,
      CallbackStores
<1>4. CASE TxCycle \/ RxCycle \/ TimerStarts \/ TimerStops \/ TimerToggles
  BY <1>4 DEF TxCycle, RxCycle, TimerStarts, TimerStops, TimerToggles
<1>5. CASE (\E f \in Flags : Edge(f)) \/ Kernel  BY <1>5 DEF Edge, Kernel
<1> QED  BY <1>1, <1>2, <1>3, <1>4, <1>5 DEF Next

LEMMA CommInvInit == Init => CommInv
<1> SUFFICES ASSUME Init PROVE CommInv  OBVIOUS
<1>1. \A t \in Threads : todo[t] = <<>>  BY DEF Init
<1>2. Shows(<<>>, <<>>) /\ \A A : Avoids(<<>>, A)  BY AvoidsNone, ShowsNothing
<1>3. SpiTypes /\ RoleInv /\ TxInv
  <2>1. SpiTypes  BY DEF Init, SpiTypes
  <2>2. RoleInv  BY <1>1, <1>2 DEF RoleInv, Threads
  <2>3. TxInv  BY <1>1 DEF Init, TxInv, Idle, Threads, Running
  <2> QED  BY <2>1, <2>2, <2>3
<1>4. Off  BY DEF Init, Off, Has, Running, Dac
<1>5. Boots
  <2>1. Booting(<<>>) /\ stage = "start"  BY <1>4 DEF Booting, Init
  <2>2. todo["main"] = <<>> /\ todo["comm"] = <<>>  BY <1>1 DEF Threads
  <2> QED  BY <1>2, <2>1, <2>2 DEF Boots, Idle
<1> QED  BY <1>3, <1>5 DEF CommInv, Order

LEMMA CommInvKept ==
  PinInv /\ (Alive => CommInv) /\ [Next]_vars => (Alive => CommInv)'
<1> SUFFICES ASSUME PinInv, Alive => CommInv, [Next]_vars, Alive' PROVE CommInv'  OBVIOUS
<1>1. TodoInv /\ TxTypes  BY DEF PinInv
<1>2. CASE UNCHANGED vars
  <2>1. Alive  BY <1>2 DEF vars, spidevVars, Alive
  <2>2. Elsewhere  BY <1>2 DEF vars, Elsewhere
  <2> QED  BY <2>1, <2>2, SameCommKept
<1>3. CASE Next
  <2>1. CommInv  BY <1>3, NextIsAlive
  <2> QED
    BY <1>1, <1>3, <2>1, NotHere, SameCommKept, StepKeepsComm, MainKeepsComm, CyclesKeepComm
    DEF Next
<1> QED  BY <1>2, <1>3

(* The file of the cape, open from spi_create to the release.              *)
Shape(s) == (\E S : s \in Seq(S)) /\ \A i \in 1..Len(s) : "spi" \in DOMAIN s[i]
Spidevs == Shape(spidev) /\ filp = [p \in Openers |-> filp[p]]
Ready == stage \in {"spi", "probe", "created", "idle", "stopping"}
OpenInv ==
  ~ Emulated /\ Ready =>
    /\ filp["cape"] \in 1..Len(spidev)
    /\ "unbound" \notin happened => Bound(filp["cape"])

SameSpi(s, t) == Len(s) <= Len(t) /\ \A i \in 1..Len(s) : t[i].spi = s[i].spi

LEMMA SpiOfAppended ==
  ASSUME NEW s, Shape(s), NEW r, "spi" \in DOMAIN r
  PROVE  Shape(Append(s, r)) /\ SameSpi(s, Append(s, r))
<1>1. PICK S : s \in Seq(S)  BY DEF Shape
<1> DEFINE t == Append(s, r)
<1>2. /\ t \in Seq(S \cup {r}) /\ Len(t) = Len(s) + 1 /\ Len(s) \in Nat
      /\ \A i \in 1..Len(s) : t[i] = s[i] /\ t[Len(s) + 1] = r
  BY <1>1
<1> HIDE DEF t
<1>3. t[Len(s) + 1] = r
  <2>1. t[Len(s) + 1] = r  BY <1>1 DEF t
  <2> QED  BY <2>1
<1>4. \A i \in 1..Len(t) : i \in 1..Len(s) \/ i = Len(s) + 1  BY <1>2
<1>5. Shape(t)  BY <1>2, <1>3, <1>4 DEF Shape
<1>6. SameSpi(s, t)  BY <1>2 DEF SameSpi
<1> QED  BY <1>5, <1>6 DEF t

(* A record of the sequence put in the place of another.                   *)
Put(s, k, r, t) == t = [s EXCEPT ![k] = r] /\ (k \in 1..Len(s) => "spi" \in DOMAIN r)
Puts(s, k, r, t) ==
  /\ Shape(t) /\ Len(t) = Len(s) /\ \A i \in 1..Len(s) : t[i] = IF i = k THEN r ELSE s[i]
  /\ (k \in 1..Len(s) => r.spi = s[k].spi) => SameSpi(s, t)

LEMMA SpiOfPut ==
  ASSUME NEW s, Shape(s), NEW k, NEW r, NEW t, Put(s, k, r, t) PROVE Puts(s, k, r, t)
<1> DEFINE n == Len(s)
<1>1. PICK S : s \in Seq(S)  BY DEF Shape
<1>2. DOMAIN s = 1..n /\ n \in Nat /\ \A i \in 1..n : s[i] \in S  BY <1>1
<1> HIDE DEF n
<1>3. t = [i \in 1..n |-> IF i = k THEN r ELSE s[i]]  BY <1>2 DEF Put
<1>4. \A i \in 1..n : t[i] = IF i = k THEN r ELSE s[i]  BY <1>3
<1>5. t \in [1..n -> S \cup {r}]  BY <1>2, <1>3
<1>6. t \in Seq(S \cup {r}) /\ Len(t) = n  BY <1>2, <1>5
<1>7. Shape(t)
  <2>1. \A i \in 1..n : "spi" \in DOMAIN t[i]  BY <1>4 DEF Put, Shape, n
  <2> QED  BY <1>6, <2>1 DEF Shape
<1>8. (k \in 1..n => r.spi = s[k].spi) => SameSpi(s, t)  BY <1>2, <1>4, <1>6 DEF SameSpi, n
<1> QED  BY <1>4, <1>6, <1>7, <1>8 DEF Puts, n

LEMMA SpiSameSince ==
  ASSUME NEW s, NEW t, NEW u, Shape(s), Shape(t), Len(t) = Len(s), SameSpi(s, t), SameSpi(t, u)
  PROVE  SameSpi(s, u)
  BY DEF SameSpi, Shape

Two(s, i, x, y, t) == t = [s EXCEPT ![i].users = x, ![i].buffer = y]
Three(s, i, x, y, z, t) == t = [s EXCEPT ![i].users = x, ![i].buffer = y, ![i].mem = z]

LEMMA SpiOfTwoFields ==
  ASSUME NEW s, Shape(s), NEW i, NEW x, NEW y, NEW u, Two(s, i, x, y, u)
  PROVE  Shape(u) /\ SameSpi(s, u) /\ Len(u) = Len(s)
<1> DEFINE r == [s[i] EXCEPT !.users = x]
           t == [s EXCEPT ![i].users = x]
           q == [t[i] EXCEPT !.buffer = y]
<1>1. t = [s EXCEPT ![i] = r] /\ u = [t EXCEPT ![i] = q]  BY DEF Two
<1>2. i \in 1..Len(s) => "spi" \in DOMAIN r /\ r.spi = s[i].spi  BY DEF Shape
<1>3. i \in 1..Len(t) /\ Shape(t) => "spi" \in DOMAIN q /\ q.spi = t[i].spi
  <2> HIDE DEF t
  <2> QED  BY DEF Shape
<1> HIDE DEF r, t, q
<1>4. Shape(t) /\ SameSpi(s, t) /\ Len(t) = Len(s)
  <2>1. Put(s, i, r, t)  BY <1>1, <1>2 DEF Put
  <2>2. Puts(s, i, r, t)  BY <2>1, SpiOfPut
  <2> QED  BY <1>2, <2>2 DEF Puts
<1>5. Shape(u) /\ SameSpi(t, u) /\ Len(u) = Len(t)
  <2>1. Put(t, i, q, u)  BY <1>1, <1>3, <1>4 DEF Put
  <2>2. Puts(t, i, q, u)  BY <1>4, <2>1, SpiOfPut
  <2> QED  BY <1>3, <1>4, <2>2 DEF Puts
<1> QED  BY <1>4, <1>5, SpiSameSince

LEMMA SpiOfUnlinked ==
  ASSUME Spidevs, NEW d, RemoveUnlink(d)
  PROVE  Spidevs' /\ SameSpi(spidev, spidev') /\ filp' = filp
<1> DEFINE i == removing[d]
           r == [spidev[i] EXCEPT !.listed = FALSE]
           t == [spidev EXCEPT ![i].listed = FALSE]
           z == IF spidev[i].users = 0 THEN "freed" ELSE t[i].mem
           q == [t[i] EXCEPT !.mem = z]
<1>1. t = [spidev EXCEPT ![i] = r]  OBVIOUS
<1>2. spidev' = [t EXCEPT ![i] = q] /\ filp' = filp  BY DEF RemoveUnlink
<1>3. i \in 1..Len(spidev) => "spi" \in DOMAIN r /\ r.spi = spidev[i].spi
  BY DEF Spidevs, Shape
<1>4. i \in 1..Len(t) /\ Shape(t) => "spi" \in DOMAIN q /\ q.spi = t[i].spi
  <2> HIDE DEF t, z, i
  <2> QED  BY DEF Shape
<1> HIDE DEF i, r, t, z, q
<1>5. Shape(t) /\ SameSpi(spidev, t) /\ Len(t) = Len(spidev)
  <2>1. Put(spidev, i, r, t)  BY <1>1, <1>3 DEF Put
  <2>2. Puts(spidev, i, r, t)  BY <2>1, SpiOfPut DEF Spidevs
  <2> QED  BY <1>3, <2>2 DEF Puts
<1>6. Shape(spidev') /\ SameSpi(t, spidev')
  <2>1. Put(t, i, q, spidev')  BY <1>2, <1>4, <1>5 DEF Put
  <2>2. Puts(t, i, q, spidev')  BY <1>5, <2>1, SpiOfPut
  <2> QED  BY <1>4, <1>5, <2>2 DEF Puts
<1> QED  BY <1>2, <1>5, <1>6, SpiSameSince DEF Spidevs

LEMMA SpiOfDetached ==
  ASSUME Spidevs, NEW d, RemoveDetach(d)
  PROVE  Spidevs' /\ Len(spidev') = Len(spidev) /\ filp' = filp
<1> DEFINE i == drvdata[d]
           r == [spidev[i] EXCEPT !.spi = "none"]
<1>1. spidev' = [spidev EXCEPT ![i] = r] /\ filp' = filp  BY DEF RemoveDetach
<1>2. i \in 1..Len(spidev) => "spi" \in DOMAIN r  BY DEF Spidevs, Shape
<1> HIDE DEF i, r
<1>3. Put(spidev, i, r, spidev')  BY <1>1, <1>2 DEF Put
<1>4. Puts(spidev, i, r, spidev')  BY <1>3, SpiOfPut DEF Spidevs
<1> QED  BY <1>1, <1>4 DEF Puts, Spidevs

LEMMA SpiOfOpened ==
  ASSUME Spidevs, NEW p, NEW i, OpenNode(p, i)
  PROVE  Spidevs' /\ SameSpi(spidev, spidev') /\ filp' = [filp EXCEPT ![p] = i]
<1>1. Two(spidev, i, spidev[i].users + 1, TRUE, spidev') /\ filp' = [filp EXCEPT ![p] = i]
  BY DEF OpenNode, Opened, Two
<1> QED  BY <1>1, SpiOfTwoFields DEF Spidevs

LEMMA SpiOfThreeFields ==
  ASSUME NEW s, Shape(s), NEW i, NEW x, NEW y, NEW z, NEW v, Three(s, i, x, y, z, v)
  PROVE  Shape(v) /\ SameSpi(s, v)
<1> DEFINE u == [s EXCEPT ![i].users = x, ![i].buffer = y]
           q == [u[i] EXCEPT !.mem = z]
<1>1. v = [u EXCEPT ![i] = q]  BY DEF Three
<1>2. Two(s, i, x, y, u)  BY DEF Two
<1> HIDE DEF u
<1>3. Shape(u) /\ SameSpi(s, u) /\ Len(u) = Len(s)  BY <1>2, SpiOfTwoFields
<1>4. i \in 1..Len(u) => "spi" \in DOMAIN q /\ q.spi = u[i].spi  BY <1>3 DEF Shape
<1> HIDE DEF q
<1>5. Put(u, i, q, v)  BY <1>1, <1>4 DEF Put
<1>6. Puts(u, i, q, v)  BY <1>3, <1>5, SpiOfPut
<1> QED  BY <1>3, <1>4, <1>6, SpiSameSince DEF Puts

LEMMA SpiOfClosed ==
  ASSUME Spidevs, NEW p, CloseNode(p)
  PROVE  Spidevs' /\ SameSpi(spidev, spidev') /\ filp' = [filp EXCEPT ![p] = 0]
<1>1. \E x, y, z : Three(spidev, filp[p], x, y, z, spidev')  BY DEF CloseNode, Closed, Three
<1>2. filp' = [filp EXCEPT ![p] = 0]  BY DEF CloseNode
<1>3. Shape(spidev') /\ SameSpi(spidev, spidev')  BY <1>1, SpiOfThreeFields DEF Spidevs
<1> QED  BY <1>2, <1>3 DEF Spidevs

LEMMA SpiOfProbed ==
  ASSUME Spidevs, NEW d, Probe(d) PROVE Spidevs' /\ SameSpi(spidev, spidev') /\ filp' = filp
<1>1. PICK m : spidev' = Append(spidev, [mem |-> "live", spi |-> d, listed |-> TRUE, minor |-> m,
                                         users |-> 0, buffer |-> FALSE])
  BY DEF Probe
<1> DEFINE r == [mem |-> "live", spi |-> d, listed |-> TRUE, minor |-> m,
                 users |-> 0, buffer |-> FALSE]
<1>2. "spi" \in DOMAIN r  OBVIOUS
<1> HIDE DEF r
<1>3. Shape(spidev') /\ SameSpi(spidev, spidev')  BY <1>1, <1>2, SpiOfAppended DEF Spidevs, r
<1>4. filp' = filp  BY DEF Probe
<1> QED  BY <1>3, <1>4 DEF Spidevs

(* The kernel leaves the file of the cape, unless the device is unbound.   *)
LEMMA SameFile ==
  ASSUME OpenInv, SameSpi(spidev, spidev'), Spidevs, filp'["cape"] = filp["cape"], board' = board,
         happened \subseteq happened', Ready' => Ready
  PROVE  OpenInv'
<1>1. SUFFICES ASSUME ~ Emulated', Ready'
               PROVE  /\ filp'["cape"] \in 1..Len(spidev')
                      /\ "unbound" \notin happened' => Bound(filp["cape"])'
  BY DEF OpenInv
<1>2. filp["cape"] \in 1..Len(spidev) /\ ("unbound" \notin happened => Bound(filp["cape"]))
  BY <1>1 DEF OpenInv, Emulated
<1>3. spidev'[filp["cape"]].spi = spidev[filp["cape"]].spi  BY <1>2 DEF SameSpi
<1>4. Len(spidev) \in Nat  BY DEF Spidevs, Shape
<1> QED  BY <1>2, <1>3, <1>4 DEF SameSpi, Bound

LEMMA StepNodes ==
  ASSUME NEW t \in Threads, StepOf(t)
  PROVE  (UNCHANGED <<spidev, filp>> \/ CloseSpi(t))
         /\ (line' = line \/ WriteBuffer(t) \/ TransferDac(t))
<1> DEFINE Same == UNCHANGED <<spidev, filp, line>>
<1>1. CASE LoadPin(t)
  <2>1. Same  BY <1>1 DEF LoadPin, TxFrame, spidevVars
  <2> QED  BY <2>1
<1>2. CASE StorePin(t)
  <2>1. Same  BY <1>2 DEF StorePin, TxFrame, spidevVars
  <2> QED  BY <2>1
<1>3. CASE Lock(t)
  <2>1. Same  BY <1>3 DEF Lock, TxFrame, spidevVars
  <2> QED  BY <2>1
<1>4. CASE UnlockLeds(t)
  <2>1. Same  BY <1>4 DEF UnlockLeds, TxFrame, spidevVars
  <2> QED  BY <2>1
<1>5. CASE InDacMode(t)
  <2>1. Same  BY <1>5 DEF InDacMode, TxFrame, spidevVars
  <2> QED  BY <2>1
<1>6. CASE WriteRegister(t)
  <2>1. Same  BY <1>6 DEF WriteRegister, TxFrame, spidevVars
  <2> QED  BY <2>1
<1>7. CASE AskRegister(t)
  <2>1. Same  BY <1>7 DEF AskRegister, TxFrame, spidevVars
  <2> QED  BY <2>1
<1>8. CASE AnswerRegister(t)
  <2>1. Same  BY <1>8 DEF AnswerRegister, TxFrame, spidevVars
  <2> QED  BY <2>1
<1>9. CASE ExpectRegister(t)
  <2>1. Same  BY <1>9 DEF ExpectRegister, TxFrame, spidevVars
  <2> QED  BY <2>1
<1>10. CASE RememberField(t)
  <2>1. Same  BY <1>10 DEF RememberField, TxFrame, spidevVars
  <2> QED  BY <2>1
<1>11. CASE DacMode(t)
  <2>1. Same  BY <1>11 DEF DacMode, TxFrame, spidevVars
  <2> QED  BY <2>1
<1>12. CASE SetDriver(t)
  <2>1. Same  BY <1>12 DEF SetDriver, TxFrame, spidevVars
  <2> QED  BY <2>1
<1>13. CASE Hook(t)
  <2>1. Same  BY <1>13 DEF Hook, TxFrame, spidevVars
  <2> QED  BY <2>1
<1>14. CASE GetPin(t)
  <2>1. Same  BY <1>14 DEF GetPin, TxFrame, spidevVars
  <2> QED  BY <2>1
<1>15. CASE PutFlag(t)
  <2>1. Same  BY <1>15 DEF PutFlag, TxFrame, spidevVars
  <2> QED  BY <2>1
<1>16. CASE Unhook(t)
  <2>1. Same  BY <1>16 DEF Unhook, TxFrame, spidevVars
  <2> QED  BY <2>1
<1>17. CASE ConfigureSpi(t)
  <2>1. Same  BY <1>17 DEF ConfigureSpi, TxFrame, spidevVars
  <2> QED  BY <2>1
<1>18. CASE StartTx(t)
  <2>1. Same  BY <1>18 DEF StartTx, TxFrame, spidevVars
  <2> QED  BY <2>1
<1>19. CASE StartRx(t)
  <2>1. Same  BY <1>19 DEF StartRx, TxFrame, spidevVars
  <2> QED  BY <2>1
<1>20. CASE StopThread(t)
  <2>1. Same  BY <1>20 DEF StopThread, TxFrame, spidevVars
  <2> QED  BY <2>1
<1>21. CASE Communication(t)
  <2>1. Same  BY <1>21 DEF Communication, TxFrame, spidevVars
  <2> QED  BY <2>1
<1>22. CASE Supervisor(t)
  <2>1. Same  BY <1>22 DEF Supervisor, TxFrame, spidevVars
  <2> QED  BY <2>1
<1>23. CASE CloseSpi(t)  BY <1>23 DEF CloseSpi
<1>24. CASE WriteBuffer(t)  BY <1>24 DEF WriteBuffer, spidevVars
<1>25. CASE TransferDac(t)  BY <1>25 DEF TransferDac, spidevVars
<1> QED
  BY <1>1, <1>2, <1>3, <1>4, <1>5, <1>6, <1>7, <1>8, <1>9, <1>10, <1>11, <1>12, <1>13, <1>14,
     <1>15, <1>16, <1>17, <1>18, <1>19, <1>20, <1>21, <1>22, <1>23, <1>24, <1>25 DEF StepOf

(* The device is closed only by the release of the cape.                   *)
LEMMA ClosesAtTheEnd ==
  ASSUME Order, RoleInv, NEW t \in Threads, todo[t] # <<>>, Head(todo[t]).op = "closeSpi"
  PROVE  stage \in {"released", "failed"}
<1>1. Label(Head(todo[t])) = "closeSpi" /\ "closeSpi" \in Key  BY DEF Label, KeyOps, Key
<1>2. t \notin {"blink", "rx", "tx"}
  <2>1. Avoids(todo[t], KeyOps) => Head(todo[t]).op \notin KeyOps  BY AvoidsRest
  <2> QED  BY <2>1 DEF RoleInv, KeyOps, Key
<1>3. \A w : Shows(todo[t], w) => w # <<>> /\ Head(w) = "closeSpi"  BY <1>1, ShowsRest
<1>4. \A w : Acting(w) => w = <<>> \/ Head(w) # "closeSpi"
  <2>1. ASSUME NEW w, Opening(w) PROVE w = <<>> \/ Head(w) # "closeSpi"
    BY <2>1, Parts DEF Opening
  <2>2. ASSUME NEW w, Closing(w) PROVE w = <<>> \/ Head(w) # "closeSpi"
    BY <2>2, Parts DEF Closing
  <2>3. ASSUME NEW w, Pausing(w) PROVE w = <<>> \/ Head(w) # "closeSpi"
    BY <2>3, Parts DEF Pausing
  <2> QED  BY <2>1, <2>2, <2>3 DEF Acting
<1>5. CASE t = "comm"
  <2>1. TimerActs  BY <1>5 DEF Order, Opens, UserCloses, Boots, Idle
  <2> QED  BY <1>3, <1>4, <1>5, <2>1 DEF TimerActs
<1>6. CASE t = "main"
  <2>1. Boots  BY <1>3, <1>4, <1>6 DEF Order, Opens, UserCloses, TimerActs, Acting
  <2>2. PICK w : Shows(todo["main"], w) /\ Booting(w)  BY <2>1 DEF Boots
  <2>3. w # <<>> /\ Head(w) = "closeSpi"  BY <1>3, <1>6, <2>2
  <2> QED  BY <2>2, <2>3, Parts DEF Booting
<1> QED  BY <1>2, <1>5, <1>6 DEF Threads

NodesInv == Spidevs /\ OpenInv

LEMMA SameNodes ==
  ASSUME NodesInv, UNCHANGED <<spidev, filp, board>>, happened \subseteq happened', Ready' => Ready
  PROVE  NodesInv'
<1>1. Spidevs'  BY DEF NodesInv, Spidevs
<1>2. SameSpi(spidev, spidev')
  <2>1. Len(spidev) \in Nat  BY DEF NodesInv, Spidevs, Shape
  <2> QED  BY <2>1 DEF SameSpi
<1>3. OpenInv'  BY <1>2, SameFile DEF NodesInv
<1> QED  BY <1>1, <1>3 DEF NodesInv

LEMMA StepKeepsNodes ==
  ASSUME NodesInv, CommInv, TodoInv, TxTypes, NEW t \in Threads, StepOf(t), Alive'
  PROVE  NodesInv'
<1>1. happened \subseteq happened' /\ board' = board /\ stage' = stage
  BY StepReads, StepKeepsBoard, StepOutcome DEF CommInv, Outcome, Effect
<1>2. CASE UNCHANGED <<spidev, filp>>  BY <1>1, <1>2, SameNodes DEF Ready
<1>3. CASE CloseSpi(t)
  <2>1. todo[t] # <<>> /\ Head(todo[t]).op = "closeSpi"  BY <1>3 DEF CloseSpi, Is
  <2>2. ~ Ready'  BY <1>1, <2>1, ClosesAtTheEnd DEF CommInv, Ready
  <2>3. Spidevs'
    <3>1. CASE CloseNode("cape")  BY <3>1, SpiOfClosed DEF NodesInv
    <3>2. CASE UNCHANGED spidevVars  BY <3>2 DEF NodesInv, Spidevs, spidevVars
    <3> QED  BY <1>3, <3>1, <3>2 DEF CloseSpi
  <2> QED  BY <2>2, <2>3 DEF NodesInv, OpenInv
<1> QED  BY <1>2, <1>3, StepNodes

LEMMA MainKeepsNodes == ASSUME NodesInv, Main PROVE NodesInv'
<1>1. board' = board /\ happened \subseteq happened'
  BY DEF Main, Create, CreateFails, SpiCreate, SpiCreateFails, AfeCreate, AfeCreated, Initialize,
         MenuActivate, MenuDeactivate, Deactivated, MenuOverloads, MenuSettings, MenuExit, MainFrame
<1>2. CASE SpiCreate /\ ~ Emulated
  <2>1. PICK i \in Listed : Bound(i) /\ OpenNode("cape", i)  BY <1>2 DEF SpiCreate
  <2>2. Spidevs' /\ SameSpi(spidev, spidev') /\ filp' = [filp EXCEPT !["cape"] = i]
    BY <2>1, SpiOfOpened DEF NodesInv
  <2>3. filp'["cape"] = i  BY <2>2, CapeAssumption DEF NodesInv, Spidevs
  <2>4. i \in 1..Len(spidev) /\ Len(spidev') \in Nat
    BY <2>1, <2>2 DEF Listed, NodesInv, Spidevs, Shape
  <2>5. Bound(i)'  BY <2>1, <2>2, <2>4 DEF Bound, SameSpi
  <2>6. i \in 1..Len(spidev')  BY <2>2, <2>4 DEF SameSpi
  <2>7. OpenInv'  BY <2>3, <2>5, <2>6 DEF OpenInv, Bound
  <2> QED  BY <2>2, <2>7 DEF NodesInv
<1>3. CASE SpiCreate /\ Emulated
  <2>1. UNCHANGED <<spidev, filp>>  BY <1>3 DEF SpiCreate, spidevVars
  <2>2. Spidevs'  BY <2>1 DEF NodesInv, Spidevs
  <2> QED  BY <1>1, <1>3, <2>2 DEF NodesInv, OpenInv, Emulated
<1>4. CASE ~ SpiCreate
  <2>1. UNCHANGED <<spidev, filp>> /\ (Ready' => Ready)
    BY <1>4
    DEF Main, Create, CreateFails, SpiCreateFails, AfeCreate, AfeCreated, Initialize,
        MenuActivate, MenuDeactivate, Deactivated, MenuOverloads, MenuSettings, MenuExit, Menu,
        At, Call, spidevVars, Ready
  <2> QED  BY <1>1, <2>1, SameNodes
<1> QED  BY <1>2, <1>3, <1>4

LEMMA KernelKeepsNodes == ASSUME NodesInv, Kernel PROVE NodesInv'
<1>1. board' = board /\ stage' = stage /\ happened \subseteq happened'
  BY DEF Kernel, UserUnchanged, KernelEvent, KernelGoesOn
<1>2. ASSUME Spidevs', SameSpi(spidev, spidev'), filp'["cape"] = filp["cape"] PROVE NodesInv'
  BY <1>1, <1>2, SameFile DEF NodesInv, Ready
<1>3. ASSUME NEW p \in Others, NEW x, filp' = [filp EXCEPT ![p] = x]
      PROVE  filp'["cape"] = filp["cape"]
  BY <1>3, CapeAssumption DEF Others, NodesInv, Spidevs
<1>4. ASSUME NEW d, RemoveDetach(d), "unbound" \in happened' PROVE NodesInv'
  <2>1. Spidevs' /\ Len(spidev') = Len(spidev) /\ filp' = filp
    BY <1>4, SpiOfDetached DEF NodesInv
  <2>2. OpenInv'  BY <1>1, <1>4, <2>1 DEF NodesInv, OpenInv, Emulated, Ready
  <2> QED  BY <2>1, <2>2 DEF NodesInv
<1>5. ASSUME NEW p \in Others, NEW i, OpenNode(p, i) PROVE NodesInv'
  BY <1>2, <1>3, <1>5, SpiOfOpened DEF NodesInv
<1>6. ASSUME NEW p \in Others, CloseNode(p) PROVE NodesInv'
  BY <1>2, <1>3, <1>6, SpiOfClosed DEF NodesInv
<1>7. ASSUME NEW d, Probe(d) \/ RemoveUnlink(d) PROVE NodesInv'
  BY <1>2, <1>7, SpiOfProbed, SpiOfUnlinked DEF NodesInv
<1>8. ASSUME NEW p, BeginIoctl(p) \/ BeginReadWrite(p) \/ EndCall(p) PROVE NodesInv'
  <2>1. UNCHANGED <<spidev, filp>>  BY <1>8 DEF BeginIoctl, BeginReadWrite, EndCall
  <2> QED  BY <1>1, <2>1, SameNodes DEF Ready
<1>9. CASE KernelEvent
  <2>1. CASE (\E d \in SpiDevices : RemoveDetach(d)) /\ happened' = happened \cup {"unbound"}
    BY <1>4, <2>1
  <2>2. CASE \E p \in Others, i \in Listed : OpenNode(p, i)  BY <1>5, <2>2
  <2> QED  BY <1>9, <2>1, <2>2 DEF KernelEvent
<1>10. CASE KernelGoesOn
  <2>1. CASE \E d \in SpiDevices : Probe(d) \/ RemoveUnlink(d)  BY <1>7, <2>1
  <2>2. CASE \E p \in Others : BeginIoctl(p) \/ BeginReadWrite(p) \/ EndCall(p)
    BY <1>8, <2>2
  <2>3. CASE \E p \in Others : CloseNode(p)  BY <1>6, <2>3
  <2> QED  BY <1>10, <2>1, <2>2, <2>3 DEF KernelGoesOn
<1> QED  BY <1>9, <1>10 DEF Kernel

LEMMA NodesInvKept ==
  PinInv /\ (Alive => CommInv) /\ (Alive => NodesInv) /\ [Next]_vars => (Alive => NodesInv)'
<1> SUFFICES ASSUME PinInv, Alive => CommInv, Alive => NodesInv, [Next]_vars, Alive'
             PROVE  NodesInv'
  OBVIOUS
<1>1. CASE UNCHANGED vars
  <2>1. Alive  BY <1>1 DEF vars, spidevVars, Alive
  <2>2. UNCHANGED <<spidev, filp, board, stage, happened>>  BY <1>1 DEF vars, spidevVars
  <2> QED  BY <2>1, <2>2, SameNodes DEF Ready
<1>2. CASE Next
  <2>1. NodesInv /\ CommInv /\ TodoInv /\ TxTypes  BY <1>2, NextIsAlive DEF PinInv
  <2>2. ASSUME UNCHANGED <<spidev, filp, board, stage>>, happened \subseteq happened'
        PROVE  NodesInv'
    BY <2>1, <2>2, SameNodes DEF Ready
  <2>3. CASE TxCycle \/ RxCycle \/ TimerStarts \/ TimerStops \/ TimerToggles
    <3>1. UNCHANGED <<spidev, filp, board, stage>> /\ happened \subseteq happened'
      BY <2>3 DEF TxCycle, RxCycle, TimerStarts, TimerStops, TimerToggles, UserFrame, spidevVars
    <3> QED  BY <2>2, <3>1
  <2>4. CASE Callback
    <3>1. CallbackFrame
      BY <2>4, Zenon
      DEF Callback, CallbackBegins, CallbackOrphaned, CallbackTests, CallbackWakes, CallbackReads,
          CallbackStores
    <3>2. UNCHANGED <<spidev, filp, board, stage>> /\ happened' = happened
      BY <3>1 DEF CallbackFrame, spidevVars
    <3> QED  BY <2>2, <3>2
  <2>5. CASE \E f \in Flags : Edge(f)
    <3>1. UNCHANGED <<spidev, filp, board, stage>> /\ happened \subseteq happened'
      BY <2>5 DEF Edge, spidevVars
    <3> QED  BY <2>2, <3>1
  <2> QED
    BY <1>2, <2>1, <2>3, <2>4, <2>5, StepKeepsNodes, MainKeepsNodes, KernelKeepsNodes DEF Next
<1> QED  BY <1>1, <1>2

LEMMA NodesInvInit == Init => NodesInv
  BY DEF Init, SpidevInit, NodesInv, Spidevs, Shape, OpenInv, Ready

(***************************************************************************)
(*                     The samples that are on their way                   *)
(***************************************************************************)
Sample(k) == IF Alsa THEN Converted(k) ELSE k
Samples(m, n) == [k \in 1..n - m |-> Sample(m + k)]
OneByOne(m, n) == [k \in 1..n - m |-> [op |-> "transfer", samples |-> <<m + k>>]]

LEMMA SamplesAreSteps ==
  ASSUME NEW m \in Nat, NEW n \in Nat, m <= n
  PROVE  /\ \E S : Samples(m, n) \in Seq(S)
         /\ Len(Samples(m, n)) = n - m /\ n - m \in Nat
         /\ \A k \in 1..n - m : Samples(m, n)[k] = Sample(m + k)
<1> DEFINE f == Samples(m, n)
           S == {Sample(m + k) : k \in 1..n - m}
<1>1. n - m \in Nat  OBVIOUS
<1>2. f = [k \in 1..n - m |-> Sample(m + k)]  BY DEF Samples
<1>3. f \in [1..n - m -> S]  BY <1>2
<1> HIDE DEF S
<1>4. f \in Seq(S) /\ Len(f) = n - m  BY <1>1, <1>3
<1>5. \A k \in 1..n - m : f[k] = Sample(m + k)  BY <1>2
<1> HIDE DEF f
<1>6. (\E T : f \in Seq(T)) /\ Len(f) = n - m /\ n - m \in Nat
      /\ \A k \in 1..n - m : f[k] = Sample(m + k)
  BY <1>1, <1>4, <1>5
<1> QED  BY <1>6 DEF f

IsSamples(s, m, n) ==
  /\ \E S : s \in Seq(S)
  /\ Len(s) = n - m /\ \A k \in 1..n - m : s[k] = Sample(m + k)

LEMMA AreSamples ==
  ASSUME NEW m \in Nat, NEW n \in Nat, m <= n, NEW s, IsSamples(s, m, n)
  PROVE  s = Samples(m, n)
<1>1. PICK S : s \in Seq(S)  BY DEF IsSamples
<1>2. DOMAIN s = 1..n - m /\ s = [k \in DOMAIN s |-> s[k]]  BY <1>1 DEF IsSamples
<1>3. \A k \in 1..n - m : s[k] = Sample(m + k)  BY DEF IsSamples
<1> QED  BY <1>2, <1>3 DEF Samples

LEMMA SamplesJoined ==
  ASSUME NEW m \in Nat, NEW n \in Nat, m <= n
  PROVE  Samples(0, m) \o Samples(m, n) = Samples(0, n)
<1> DEFINE a == Samples(0, m)
           b == Samples(m, n)
           c == a \o b
<1>1. /\ \E S : a \in Seq(S)
      /\ Len(a) = m /\ \A k \in 1..m : a[k] = Sample(k)
  <2>1. 0 \in Nat /\ 0 <= m /\ m - 0 = m /\ \A k \in 1..m : 0 + k = k  OBVIOUS
  <2>2. /\ \E S : a \in Seq(S)
        /\ Len(a) = m - 0 /\ \A k \in 1..m - 0 : a[k] = Sample(0 + k)
    BY <2>1, SamplesAreSteps
  <2> HIDE DEF a
  <2> QED  BY <2>1, <2>2
<1>2. /\ \E S : b \in Seq(S)
      /\ Len(b) = n - m /\ \A k \in 1..n - m : b[k] = Sample(m + k)
  BY SamplesAreSteps
<1> HIDE DEF a, b
<1>3. PICK S : a \in Seq(S)  BY <1>1
<1>4. PICK T : b \in Seq(T)  BY <1>2
<1>5. /\ c \in Seq(S \cup T) /\ Len(c) = n
      /\ \A k \in 1..n : c[k] = IF k <= m THEN a[k] ELSE b[k - m]
  BY <1>1, <1>2, <1>3, <1>4
<1> HIDE DEF c
<1>6. \A k \in 1..n : c[k] = Sample(k)
  <2> SUFFICES ASSUME NEW k \in 1..n PROVE c[k] = Sample(k)  OBVIOUS
  <2>1. CASE k <= m
    <3>1. k \in 1..m  BY <2>1
    <3> QED  BY <1>1, <1>5, <2>1, <3>1
  <2>2. CASE ~ (k <= m)
    <3>1. k - m \in 1..n - m /\ m + (k - m) = k  BY <2>2
    <3>2. b[k - m] = Sample(m + (k - m))  BY <1>2, <3>1
    <3> QED  BY <1>5, <2>2, <3>1, <3>2
  <2> QED  BY <2>1, <2>2
<1>7. IsSamples(c, 0, n)
  <2>1. n - 0 = n /\ \A k \in 1..n : 0 + k = k  OBVIOUS
  <2>2. \A k \in 1..n - 0 : c[k] = Sample(0 + k)  BY <1>6, <2>1
  <2> QED  BY <1>5, <2>1, <2>2 DEF IsSamples
<1>8. c = Samples(0, n)  BY <1>7, AreSamples
<1> QED  BY <1>8 DEF a, b, c

LEMMA SamplesCut ==
  ASSUME NEW m \in Nat, NEW n \in Nat, m <= n, NEW j \in 1..n - m
  PROVE  /\ SubSeq(Samples(m, n), 1, j) = Samples(m, m + j)
         /\ SubSeq(Samples(m, n), j + 1, n - m) = Samples(m + j, n)
<1> DEFINE a == Samples(m, n)
           b == SubSeq(a, 1, j)
           c == SubSeq(a, j + 1, n - m)
<1>1. /\ \E S : a \in Seq(S)
      /\ Len(a) = n - m /\ \A k \in 1..n - m : a[k] = Sample(m + k)
  BY SamplesAreSteps
<1> HIDE DEF a
<1>2. PICK S : a \in Seq(S)  BY <1>1
<1>3. /\ b \in Seq(S) /\ Len(b) = j /\ \A k \in 1..j : b[k] = a[k]
      /\ c \in Seq(S) /\ Len(c) = n - m - j /\ \A k \in 1..(n - m) - j : c[k] = a[j + k]
  BY <1>1, <1>2
<1> HIDE DEF b, c
<1>4. b = Samples(m, m + j)
  <2>1. (m + j) - m = j /\ m + j \in Nat /\ m <= m + j /\ \A k \in 1..j : k \in 1..n - m
    OBVIOUS
  <2>2. IsSamples(b, m, m + j)  BY <1>1, <1>3, <2>1 DEF IsSamples
  <2> QED  BY <2>1, <2>2, AreSamples
<1>5. c = Samples(m + j, n)
  <2>1. n - (m + j) = (n - m) - j /\ m + j \in Nat /\ m + j <= n
        /\ \A k \in 1..(n - m) - j : j + k \in 1..n - m /\ m + (j + k) = (m + j) + k
    OBVIOUS
  <2>2. \A k \in 1..(n - m) - j : c[k] = Sample((m + j) + k)  BY <1>1, <1>3, <2>1
  <2>3. IsSamples(c, m + j, n)  BY <1>3, <2>1, <2>2 DEF IsSamples
  <2> QED  BY <2>1, <2>3, AreSamples
<1> QED  BY <1>4, <1>5 DEF a, b, c

LEMMA SampleAlone ==
  ASSUME ~ Alsa, NEW m \in Nat PROVE <<m + 1>> = Samples(m, m + 1)
<1>1. (m + 1) - m = 1 /\ m + 1 \in Nat /\ m <= m + 1  OBVIOUS
<1>2. IsSamples(<<m + 1>>, m, m + 1)
  <2> DEFINE s == <<m + 1>>
  <2>1. s \in Seq({m + 1}) /\ Len(s) = 1 /\ s[1] = m + 1  OBVIOUS
  <2>2. Sample(m + 1) = m + 1  BY DEF Sample
  <2> HIDE DEF s
  <2>3. \A k \in 1..1 : k = 1  OBVIOUS
  <2>4. \A k \in 1..1 : s[k] = Sample(m + k)  BY <2>1, <2>2, <2>3
  <2>5. Len(s) = (m + 1) - m /\ \A k \in 1..(m + 1) - m : s[k] = Sample(m + k)
    BY <1>1, <2>1, <2>4
  <2>6. IsSamples(s, m, m + 1)  BY <2>1, <2>5 DEF IsSamples
  <2> QED  BY <2>6 DEF s
<1> QED  BY <1>1, <1>2, AreSamples

LEMMA OneByOneGoesOn ==
  ASSUME NEW m \in Nat, NEW n \in Nat, m <= n
  PROVE  /\ OneByOne(m, n) = <<>> => m = n
         /\ OneByOne(m, n) # <<>> =>
              /\ m + 1 <= n /\ Tail(OneByOne(m, n)) = OneByOne(m + 1, n)
              /\ Head(OneByOne(m, n)) = [op |-> "transfer", samples |-> <<m + 1>>]
<1> DEFINE f == OneByOne(m, n)
           g == OneByOne(m + 1, n)
           R(k) == [op |-> "transfer", samples |-> <<k>>]
           S == {R(k) : k \in Nat}
<1>1. f = [k \in 1..n - m |-> R(m + k)] /\ g = [k \in 1..n - (m + 1) |-> R((m + 1) + k)]
  BY DEF OneByOne
<1> HIDE DEF f, g, R
<1>2. f \in [1..n - m -> S]
  <2>1. \A k \in 1..n - m : m + k \in Nat  OBVIOUS
  <2> QED  BY <1>1, <2>1
<1> HIDE DEF S
<1>3. f \in Seq(S) /\ Len(f) = n - m /\ n - m \in Nat  BY <1>2
<1>4. f = <<>> => m = n  BY <1>3
<1>5. ASSUME f # <<>> PROVE m + 1 <= n /\ Tail(f) = g /\ Head(f) = R(m + 1)
  <2>1. n - m # 0  BY <1>3, <1>5
  <2>2. m + 1 <= n /\ n - (m + 1) \in Nat /\ n - (m + 1) = (n - m) - 1  BY <2>1
  <2>3. Head(f) = f[1] /\ f[1] = R(m + 1)  BY <1>1, <1>3, <2>2
  <2>4. g \in [1..n - (m + 1) -> {R((m + 1) + k) : k \in 1..n - (m + 1)}]  BY <1>1
  <2>5. \A k \in 1..n - (m + 1) :
          Tail(f)[k] = f[k + 1] /\ k + 1 \in 1..n - m /\ m + (k + 1) = (m + 1) + k
    BY <1>3, <2>1, <2>2
  <2>6. \A k \in 1..n - (m + 1) : Tail(f)[k] = g[k]  BY <1>1, <2>5
  <2>7. Tail(f) \in Seq(S) /\ Len(Tail(f)) = n - (m + 1)  BY <1>3, <2>1, <2>2
  <2>8. Tail(f) = [k \in 1..n - (m + 1) |-> Tail(f)[k]]
    <3>1. DOMAIN Tail(f) = 1..n - (m + 1)  BY <2>7
    <3> DEFINE t == Tail(f)
    <3>2. t = [k \in DOMAIN t |-> t[k]]
      <4> HIDE DEF t
      <4>1. t \in Seq(S)  BY <2>7 DEF t
      <4> QED  BY <4>1
    <3> QED  BY <3>1, <3>2
  <2>9. Tail(f) = g  BY <1>1, <2>6, <2>8
  <2> QED  BY <2>2, <2>3, <2>9
<1> QED  BY <1>4, <1>5 DEF f, g, R

(* The longest message holds a buffer; the driver refuses a longer one,    *)
(* which plc-cape only reports.                                            *)
BufferFits == Bufsiz \in Nat /\ 2 * Frames <= Bufsiz

(* What a thread has to send when n samples are filled and m received.     *)
InTransit(p, m, n) ==
  \/ p = <<>> /\ m = n
  \/ Alsa /\ p = <<[op |-> "writei", samples |-> Samples(m, n)]>>
  \/ ~ Alsa /\ 2 * (n - m) <= Bufsiz /\ p = <<[op |-> "transfer", samples |-> Samples(m, n)]>>
  \/ ~ Alsa /\ 2 <= Bufsiz /\ p = OneByOne(m, n)

Watched == Alsa \/ "unbound" \notin happened
Received(n) == n \in Nat /\ line = Samples(0, n)
Coming(n) == Received(n) /\ n <= tx.filled /\ InTransit(todo["tx"], n, tx.filled)
LineInv ==
  Watched =>
    /\ \E n : Received(n)
    /\ Alive => \E n : Coming(n)

LEMMA LineInvImplies == LineInv => SentInOrder
<1> SUFFICES ASSUME LineInv, Watched PROVE line = [k \in DOMAIN line |-> Sample(k)]
  BY DEF SentInOrder, Watched, Sample
<1>1. PICK n \in Nat : line = Samples(0, n)  BY DEF LineInv, Received
<1>2. n - 0 = n /\ \A k \in 1..n : 0 + k = k  OBVIOUS
<1>3. line = [k \in 1..n |-> Sample(0 + k)]  BY <1>1, <1>2 DEF Samples
<1>4. DOMAIN line = 1..n  BY <1>3
<1> QED  BY <1>2, <1>3, <1>4

LEMMA SameBoard ==
  ASSUME board' = board
  PROVE  /\ Alsa' = Alsa /\ \A m, n : Samples(m, n)' = Samples(m, n)
         /\ \A p, m, n : InTransit(p, m, n)' = InTransit(p, m, n)
<1>1. Alsa' = Alsa  BY DEF Alsa, Emulated
<1>2. \A m, n : Samples(m, n)' = Samples(m, n)  BY <1>1 DEF Samples, Sample
<1>3. \A m, n : OneByOne(m, n)' = OneByOne(m, n)  BY DEF OneByOne
<1> QED  BY <1>1, <1>2, <1>3 DEF InTransit

(* A step that sends nothing.                                              *)
Still == UNCHANGED <<line, board>> /\ happened \subseteq happened'
LEMMA StillReceived ==
  ASSUME LineInv, Still, Alive' => \A n : Coming(n) => Coming(n)', Alive' => Alive PROVE LineInv'
<1>1. Watched' => Watched  BY DEF Still, Watched, Alsa, Emulated
<1>2. \A n : Received(n) => Received(n)'  BY SameBoard DEF Still, Received
<1> QED  BY <1>1, <1>2 DEF LineInv

LEMMA StillKeepsLine ==
  ASSUME LineInv, Still, todo'["tx"] = todo["tx"], tx'.filled = tx.filled, Alive' => Alive
  PROVE  LineInv'
<1>1. \A n : Received(n) => Received(n)'  BY SameBoard DEF Still, Received
<1>2. \A n : Coming(n) => Coming(n)'  BY <1>1, SameBoard DEF Still, Coming
<1> QED  BY <1>2, StillReceived

(* Nothing is on its way when the thread that sends has nothing to do.     *)
LEMMA AllReceived ==
  ASSUME NEW n, Coming(n), TxTypes, todo["tx"] = <<>> PROVE n = tx.filled
<1>1. n \in Nat /\ tx.filled \in Nat /\ n <= tx.filled  BY DEF Coming, Received, TxTypes
<1>2. OneByOne(n, tx.filled) = <<>> => n = tx.filled  BY <1>1, OneByOneGoesOn
<1> QED  BY <1>2 DEF Coming, InTransit

LEMMA FlushIsInTransit ==
  ASSUME TxTypes, TxInv, BufferFits
  PROVE  InTransit(FlushBuffer(FillNext), tx.filled, tx.filled + tx.len)
<1> DEFINE m == tx.filled
           d == tx.len
           s == FillNext
<1>1. m \in Nat /\ d \in Nat \ {0} /\ (m + d) - m = d  BY DEF TxTypes
<1>2. s = [k \in 1..d |-> m + k] /\ DOMAIN s = 1..d /\ \A k \in 1..d : s[k] = m + k
  BY DEF FillNext
<1>3. ~ Alsa => d = Frames /\ 2 * d <= Bufsiz /\ 2 <= Bufsiz
  BY <1>1 DEF TxInv, BufferFits
<1> HIDE DEF m, d, s
<1>4. CASE Alsa
  <2>1. [k \in DOMAIN s |-> Converted(s[k])] = Samples(m, m + d)
    BY <1>1, <1>2, <1>4 DEF Samples, Sample
  <2> QED  BY <1>4, <2>1 DEF FlushBuffer, InTransit, s, m, d
<1>5. CASE ~ Alsa /\ settings.bySample
  <2>1. \A x : TransferDacSample(x)[1] = [op |-> "transfer", samples |-> <<x>>]
    BY DEF TransferDacSample, TransferDacBuffer
  <2>2. [k \in DOMAIN s |-> TransferDacSample(s[k])[1]] = OneByOne(m, m + d)
    BY <1>1, <1>2, <2>1 DEF OneByOne
  <2> QED  BY <1>3, <1>5, <2>2 DEF FlushBuffer, InTransit, s, m, d
<1>6. CASE ~ Alsa /\ ~ settings.bySample
  <2>1. s = Samples(m, m + d)  BY <1>1, <1>2, <1>6 DEF Samples, Sample
  <2> QED  BY <1>1, <1>3, <1>6, <2>1 DEF FlushBuffer, TransferDacBuffer, InTransit, s, m, d
<1> QED  BY <1>4, <1>5, <1>6

LEMMA CycleKeepsLine ==
  ASSUME LineInv, TxTypes, TxInv, TodoInv, BufferFits, TxCycle PROVE LineInv'
<1>1. Still /\ Alive
  BY DEF TxCycle, UserFrame, Still
<1>2. CASE tx.end
  <2>1. todo' = todo /\ tx' = [tx EXCEPT !.thread = "gone"]  BY <1>2 DEF TxCycle
  <2>2. tx'.filled = tx.filled  BY <2>1 DEF TxTypes
  <2> QED  BY <1>1, <2>1, <2>2, StillKeepsLine
<1>3. CASE ~ tx.end
  <2>1. /\ todo["tx"] = <<>> /\ todo' = [todo EXCEPT !["tx"] = FlushBuffer(FillNext)]
        /\ tx' = [tx EXCEPT !.filled = @ + tx.len]
    BY <1>3 DEF TxCycle, Idle
  <2>2. todo'["tx"] = FlushBuffer(FillNext)  BY <2>1 DEF TodoInv, Threads
  <2>3. /\ tx'.filled = tx.filled + tx.len /\ tx.filled \in Nat
        /\ tx.filled <= tx.filled + tx.len
    BY <2>1 DEF TxTypes
  <2>4. ASSUME NEW n, Coming(n) PROVE Coming(n)'
    <3>1. n = tx.filled  BY <2>1, <2>4, AllReceived
    <3>2. InTransit(todo'["tx"], n, tx'.filled)  BY <2>2, <2>3, <3>1, FlushIsInTransit
    <3>3. InTransit(todo["tx"], n, tx.filled)'  BY <1>1, <3>2, SameBoard DEF Still
    <3>4. Received(n)'  BY <1>1, <2>4, SameBoard DEF Still, Coming, Received
    <3> QED  BY <2>3, <3>1, <3>3, <3>4 DEF Coming
  <2> QED  BY <1>1, <2>4, StillReceived
<1> QED  BY <1>2, <1>3

(* A part of a buffer that the sound card takes.                           *)
LEMMA WriteKeepsLine ==
  ASSUME LineInv, TxTypes, TodoInv, WriteBuffer("tx") PROVE LineInv'
<1>1. /\ Alive /\ board' = board /\ happened' = happened /\ tx' = tx
      /\ todo["tx"] # <<>> /\ Head(todo["tx"]).op = "writei"
  BY DEF WriteBuffer, Is, UserFrame
<1>2. CASE line' = line /\ todo' = todo  BY <1>1, <1>2, StillKeepsLine DEF Still
<1>3. CASE ~ (line' = line /\ todo' = todo)
  <2> DEFINE s == Head(todo["tx"]).samples
  <2>1. PICK j \in 1..Len(s) :
          /\ line' = line \o SubSeq(s, 1, j)
          /\ todo' = [todo EXCEPT !["tx"] =
               (IF j = Len(s) THEN <<>>
                ELSE <<[op |-> "writei", samples |-> SubSeq(s, j + 1, Len(s))]>>) \o Tail(@)]
    BY <1>3, ZenonT(40) DEF WriteBuffer, Next1
  <2>2. todo'["tx"] = (IF j = Len(s) THEN <<>>
                       ELSE <<[op |-> "writei", samples |-> SubSeq(s, j + 1, Len(s))]>>)
                      \o Tail(todo["tx"])
    BY <2>1 DEF TodoInv, Threads
  <2> HIDE DEF s
  <2> SUFFICES ASSUME Watched PROVE \E n : Received(n)' /\ Coming(n)'
    BY <1>1 DEF LineInv, Watched, Alsa, Emulated
  <2>3. PICK m : Coming(m)  BY <1>1 DEF LineInv
  <2> DEFINE n == tx.filled
  <2>4. m \in Nat /\ n \in Nat /\ m <= n  BY <2>3 DEF Coming, Received, TxTypes
  <2>5. Alsa /\ todo["tx"] = <<[op |-> "writei", samples |-> Samples(m, n)]>>
    <3>1. OneByOne(m, n) # <<>> => Head(OneByOne(m, n)).op = "transfer"
      BY <2>4, OneByOneGoesOn
    <3> QED  BY <1>1, <2>3, <3>1 DEF Coming, InTransit
  <2>6. s = Samples(m, n) /\ Tail(todo["tx"]) = <<>>  BY <2>5 DEF s
  <2>7. Len(s) = n - m  BY <2>4, <2>6, SamplesAreSteps
  <2> HIDE DEF n
  <2>8. j \in 1..n - m /\ m + j \in Nat /\ m + j <= n /\ (j = n - m => m + j = n)
        /\ m <= m + j
    BY <2>4, <2>7
  <2>9. SubSeq(s, 1, j) = Samples(m, m + j) /\ SubSeq(s, j + 1, Len(s)) = Samples(m + j, n)
    BY <2>4, <2>6, <2>7, <2>8, SamplesCut, ZenonT(40)
  <2>10. line' = Samples(0, m + j)
    <3>1. line = Samples(0, m)  BY <2>3 DEF Coming, Received
    <3>2. Samples(0, m) \o Samples(m, m + j) = Samples(0, m + j)
      BY <2>4, <2>8, SamplesJoined
    <3> QED  BY <2>1, <2>9, <3>1, <3>2
  <2>11. InTransit(todo'["tx"], m + j, n)
    <3> DEFINE r == [op |-> "writei", samples |-> Samples(m + j, n)]
    <3> HIDE DEF r
    <3>1. <<>> \o <<>> = <<>> /\ <<r>> \o <<>> = <<r>>  OBVIOUS
    <3>2. CASE j = Len(s)
      <4>1. todo'["tx"] = <<>>  BY <2>2, <2>6, <3>1, <3>2
      <4> QED  BY <2>7, <2>8, <3>2, <4>1 DEF InTransit
    <3>3. CASE j # Len(s)
      <4>1. todo'["tx"] = <<r>>  BY <2>2, <2>6, <2>9, <3>1, <3>3 DEF r
      <4> QED  BY <2>5, <4>1 DEF InTransit, r
    <3> QED  BY <3>2, <3>3
  <2>12. Received(m + j)'  BY <1>1, <2>8, <2>10, SameBoard DEF Received
  <2>13. Coming(m + j)'
    BY <1>1, <2>8, <2>11, <2>12, SameBoard DEF Coming, n
  <2> QED  BY <2>12, <2>13, SMTT(30)
<1> QED  BY <1>2, <1>3

(* A buffer or a sample that the DAC takes.                                *)
LEMMA DacIsThere ==
  ASSUME CommInv, NodesInv, TxTypes, ~ Alsa, Watched, todo["tx"] # <<>>, BufferFits,
         NEW b \in Nat, b <= Bufsiz
  PROVE  ~ (Message(filp["cape"], b) < 0)
<1>1. Running  BY DEF CommInv, TxInv, Idle, Running
<1>2. stage \in {"idle", "stopping"}
  BY <1>1 DEF CommInv, Order, Opens, TimerActs, UserCloses, Boots, Booting, Off, Has
<1>3. Bound(filp["cape"])  BY <1>2 DEF NodesInv, OpenInv, Watched, Alsa, Ready
<1>4. Message(filp["cape"], b) = b  BY <1>3 DEF Message, Sync, BufferFits
<1> QED  BY <1>4

LEMMA TransferKeepsLine ==
  ASSUME LineInv, CommInv, NodesInv, TxTypes, TodoInv, BufferFits, TransferDac("tx") PROVE LineInv'
<1>1. /\ Alive /\ board' = board /\ happened' = happened /\ tx' = tx
      /\ todo["tx"] # <<>> /\ Head(todo["tx"]).op = "transfer"
      /\ todo' = [todo EXCEPT !["tx"] = Tail(@)]
  BY DEF TransferDac, Is, UserFrame, Advance
<1>2. todo'["tx"] = Tail(todo["tx"])  BY <1>1 DEF TodoInv, Threads
<1> DEFINE s == Head(todo["tx"]).samples
<1>3. CASE spi.dacMode = 0
  <2>1. line' = line /\ dead' = "sample"  BY <1>3 DEF TransferDac, Die
  <2> QED  BY <1>1, <2>1, StillReceived DEF Still, Alive
<1>4. CASE spi.dacMode # 0
  <2>1. line' = IF Message(filp["cape"], 2 * Len(s)) < 0 THEN line ELSE line \o s
    BY <1>4 DEF TransferDac, Next1
  <2> HIDE DEF s
  <2> SUFFICES ASSUME Watched PROVE \E n : Received(n)' /\ Coming(n)'
    BY <1>1 DEF LineInv, Watched, Alsa, Emulated
  <2>2. PICK m : Coming(m)  BY <1>1 DEF LineInv
  <2> DEFINE n == tx.filled
  <2>3. m \in Nat /\ n \in Nat /\ m <= n  BY <2>2 DEF Coming, Received, TxTypes
  <2>4. line = Samples(0, m)  BY <2>2 DEF Coming, Received
  <2>5. ASSUME NEW j \in Nat, m <= j, j <= n, s = Samples(m, j), 2 * (j - m) <= Bufsiz, ~ Alsa,
               InTransit(todo'["tx"], j, n)
        PROVE  \E k : Received(k)' /\ Coming(k)'
    <3>1. Len(s) = j - m /\ j - m \in Nat  BY <2>3, <2>5, SamplesAreSteps
    <3>2. 2 * Len(s) \in Nat /\ 2 * Len(s) <= Bufsiz  BY <2>5, <3>1
    <3>3. line' = line \o s  BY <1>1, <2>1, <2>5, <3>2, DacIsThere
    <3>4. line' = Samples(0, j)  BY <2>3, <2>4, <2>5, <3>3, SamplesJoined
    <3>5. Received(j)'  BY <1>1, <2>5, <3>4, SameBoard DEF Received
    <3>6. Coming(j)'  BY <1>1, <2>5, <3>5, SameBoard DEF Coming
    <3> QED  BY <3>5, <3>6
  <2>6. CASE ~ Alsa /\ 2 * (n - m) <= Bufsiz
              /\ todo["tx"] = <<[op |-> "transfer", samples |-> Samples(m, n)]>>
    <3>1. s = Samples(m, n) /\ Tail(todo["tx"]) = <<>>  BY <2>6 DEF s
    <3>2. InTransit(todo'["tx"], n, n)  BY <1>2, <3>1 DEF InTransit
    <3> QED  BY <2>3, <2>5, <2>6, <3>1, <3>2
  <2>7. CASE ~ Alsa /\ 2 <= Bufsiz /\ todo["tx"] = OneByOne(m, n)
    <3>1. /\ m + 1 <= n /\ Tail(todo["tx"]) = OneByOne(m + 1, n)
          /\ Head(todo["tx"]) = [op |-> "transfer", samples |-> <<m + 1>>]
      BY <1>1, <2>3, <2>7, OneByOneGoesOn
    <3>2. s = Samples(m, m + 1)
      <4>1. s = <<m + 1>>  BY <3>1 DEF s
      <4>2. <<m + 1>> = Samples(m, m + 1)  BY <2>3, <2>7, SampleAlone
      <4> QED  BY <4>1, <4>2
    <3>3. InTransit(todo'["tx"], m + 1, n)  BY <1>2, <2>7, <3>1 DEF InTransit
    <3>4. m + 1 \in Nat /\ m <= m + 1 /\ 2 * ((m + 1) - m) = 2  BY <2>3
    <3> QED  BY <2>5, <2>7, <3>1, <3>2, <3>3, <3>4
  <2> QED  BY <1>1, <2>2, <2>6, <2>7 DEF Coming, InTransit
<1> QED  BY <1>3, <1>4

LEMMA OnlySends ==
  ASSUME NEW n, Coming(n), TxTypes, todo["tx"] # <<>>
  PROVE  Head(todo["tx"]).op \in {"writei", "transfer"}
<1>1. n \in Nat /\ tx.filled \in Nat /\ n <= tx.filled  BY DEF Coming, Received, TxTypes
<1> DEFINE r == [op |-> "transfer", samples |-> <<n + 1>>]
<1>2. OneByOne(n, tx.filled) # <<>> => Head(OneByOne(n, tx.filled)) = r
  BY <1>1, OneByOneGoesOn
<1>3. r.op = "transfer"  OBVIOUS
<1> HIDE DEF r
<1> QED  BY <1>2, <1>3 DEF Coming, InTransit

LEMMA SendingSteps ==
  ASSUME NEW t \in Threads, StepOf(t), Head(todo[t]).op \in {"writei", "transfer"}
  PROVE  WriteBuffer(t) \/ TransferDac(t)
<1>1. ~ (LoadPin(t) \/ StorePin(t) \/ Lock(t) \/ UnlockLeds(t) \/ InDacMode(t) \/ WriteRegister(t))
  BY DEF LoadPin, StorePin, Lock, UnlockLeds, InDacMode, RegisterStep, WriteRegister, Is
<1>2. ~ (AskRegister(t) \/ AnswerRegister(t) \/ ExpectRegister(t) \/ RememberField(t)
         \/ DacMode(t) \/ SetDriver(t))
  BY SMTT(30) DEF AskRegister, AnswerRegister, ExpectRegister, RememberField, DacMode, SetDriver, Is
<1>3. ~ (Hook(t) \/ GetPin(t) \/ PutFlag(t) \/ Unhook(t) \/ ConfigureSpi(t) \/ StartTx(t))
  BY DEF Hook, GetPin, PutFlag, Unhook, ConfigureSpi, StartTx, Is
<1>4. ~ (StartRx(t) \/ StopThread(t) \/ Communication(t) \/ Supervisor(t) \/ CloseSpi(t))
  BY DEF StartRx, StopThread, Communication, Supervisor, CloseSpi, Is
<1> QED  BY <1>1, <1>2, <1>3, <1>4 DEF StepOf

(* The other threads neither transfer nor write.                           *)
LEMMA StepKeepsLine ==
  ASSUME LineInv, CommInv, NodesInv, TxTypes, TodoInv, BufferFits, NEW t \in Threads, StepOf(t),
         Alive
  PROVE  LineInv'
<1>1. board' = board /\ happened \subseteq happened' /\ TxSteps
  BY StepKeepsBoard, StepReads, StepTx
<1>2. CASE WriteBuffer(t) \/ TransferDac(t)
  <2>1. todo[t] # <<>> /\ Head(todo[t]).op \in {"writei", "transfer"}
    BY <1>2 DEF WriteBuffer, TransferDac, Is
  <2>2. t = "tx"
    <3>1. Avoids(todo[t], {"writei", "transfer"}) =>
            Head(todo[t]).op \notin {"writei", "transfer"}
      BY <2>1, AvoidsRest
    <3> QED  BY <2>1, <3>1 DEF CommInv, RoleInv
  <2> QED  BY <1>2, <2>2, WriteKeepsLine, TransferKeepsLine
<1>3. CASE ~ (WriteBuffer(t) \/ TransferDac(t))
  <2>1. Still  BY <1>1, <1>3, StepNodes DEF Still
  <2>2. CASE t # "tx"
    <3>1. todo'["tx"] = todo["tx"]  BY <2>2, StepProceeds DEF Proceeds, TodoInv, Threads
    <3> QED  BY <1>1, <2>1, <3>1, StillKeepsLine DEF TxSteps
  <2>3. CASE t = "tx"
    <3>1. CASE Watched
      <4>1. PICK n : Coming(n)  BY <3>1 DEF LineInv
      <4>2. todo["tx"] # <<>>  BY <2>3, StepProceeds DEF Proceeds
      <4>3. Head(todo["tx"]).op \in {"writei", "transfer"}
        BY <4>1, <4>2, OnlySends DEF Coming, Received
      <4> QED  BY <1>3, <2>3, <4>3, SendingSteps
    <3>2. CASE ~ Watched
      <4>1. ~ Watched'  BY <1>1, <3>2 DEF Watched, Alsa, Emulated
      <4> QED  BY <4>1 DEF LineInv
    <3> QED  BY <3>1, <3>2
  <2> QED  BY <2>2, <2>3
<1> QED  BY <1>2, <1>3

LEMMA MainKeepsLine == ASSUME LineInv, Alive, TodoInv, Main PROVE LineInv'
<1>1. /\ UNCHANGED <<line, board, tx>> /\ happened \subseteq happened'
      /\ \E p : todo' = [todo EXCEPT !["main"] = p]
  <2>1. MainFrame /\ happened \subseteq happened'
    BY DEF Main, Create, CreateFails, SpiCreate, SpiCreateFails, AfeCreate, AfeCreated, Initialize,
           MenuActivate, MenuDeactivate, Deactivated, MenuOverloads, MenuSettings, MenuExit
  <2>2. \E p, s : Call(p, s)
    BY Zenon
    DEF Main, Create, CreateFails, SpiCreate, SpiCreateFails, AfeCreate, AfeCreated, Initialize,
        MenuActivate, MenuDeactivate, Deactivated, MenuOverloads, MenuSettings, MenuExit
  <2> QED  BY <2>1, <2>2 DEF Call, MainFrame
<1>2. todo'["tx"] = todo["tx"]  BY <1>1 DEF TodoInv, Threads
<1> QED  BY <1>1, <1>2, StillKeepsLine DEF Still

LEMMA TimersKeepLine ==
  ASSUME LineInv, Alive, TodoInv, RxCycle \/ TimerStarts \/ TimerStops \/ TimerToggles
  PROVE  LineInv'
<1>1. UNCHANGED <<line, board, tx>> /\ happened \subseteq happened'
  BY DEF RxCycle, TimerStarts, TimerStops, TimerToggles, UserFrame
<1>2. \E t \in Threads \ {"tx"} : \E p : todo' = [todo EXCEPT ![t] = p]
  BY DEF RxCycle, TimerStarts, TimerStops, TimerToggles, Threads
<1>3. todo'["tx"] = todo["tx"]  BY <1>2 DEF TodoInv, Threads
<1> QED  BY <1>1, <1>3, StillKeepsLine DEF Still

LEMMA LineInvKept ==
  ASSUME BufferFits
  PROVE  PinInv /\ (Alive => CommInv) /\ (Alive => NodesInv) /\ LineInv /\ [Next]_vars => LineInv'
<1> SUFFICES ASSUME PinInv, Alive => CommInv, Alive => NodesInv, LineInv, [Next]_vars
             PROVE  LineInv'
  OBVIOUS
<1>1. CASE UNCHANGED vars
  <2>1. UNCHANGED <<line, board, happened, todo, tx, dead, fault>>
    BY <1>1 DEF vars, spidevVars
  <2> QED  BY <2>1, StillKeepsLine DEF Still, Alive
<1>2. CASE Next
  <2>1. /\ Alive /\ NodesInv /\ CommInv /\ TodoInv /\ TxTypes /\ TxInv
    BY <1>2, NextIsAlive DEF PinInv, CommInv
  <2>2. CASE TxCycle  BY <2>1, <2>2, CycleKeepsLine
  <2>3. CASE Callback \/ (\E f \in Flags : Edge(f)) \/ Kernel
    <3>1. Elsewhere  BY <2>3, NotHere
    <3>2. Still /\ todo' = todo /\ tx' = tx  BY <3>1 DEF Elsewhere, Still
    <3> QED  BY <2>1, <3>2, StillKeepsLine
  <2>4. CASE RxCycle \/ TimerStarts \/ TimerStops \/ TimerToggles  BY <2>1, <2>4, TimersKeepLine
  <2>5. CASE Main  BY <2>1, <2>5, MainKeepsLine
  <2>6. CASE \E t \in Threads : StepOf(t)  BY <2>1, <2>6, StepKeepsLine
  <2> QED  BY <1>2, <2>2, <2>3, <2>4, <2>5, <2>6 DEF Next
<1> QED  BY <1>1, <1>2

LEMMA LineInvInit == Init => LineInv
<1> SUFFICES ASSUME Init PROVE LineInv  OBVIOUS
<1>1. line = <<>> /\ todo["tx"] = <<>> /\ tx.filled = 0  BY DEF Init, Threads
<1>2. Samples(0, 0) = <<>>
  <2>1. 0 \in Nat /\ 0 <= 0 /\ 0 - 0 = 0  OBVIOUS
  <2> DEFINE s == Samples(0, 0)
  <2>2. (\E S : s \in Seq(S)) /\ Len(s) = 0  BY <2>1, SamplesAreSteps
  <2> HIDE DEF s
  <2>3. s = <<>>  BY <2>2
  <2> QED  BY <2>3 DEF s
<1>3. Received(0)  BY <1>1, <1>2 DEF Received
<1>4. Coming(0)  BY <1>1, <1>3 DEF Coming, InTransit
<1> QED  BY <1>3, <1>4 DEF LineInv

(* SentInOrder, when the longest message of the driver holds a buffer:     *)
(* what reaches the DAC or the sound card is what was filled, in order and *)
(* once, however many buffers, communications and users of the device.     *)
THEOREM SamplesInOrder == ASSUME BufferFits PROVE Spec => []SentInOrder
<1>1. Spec => []PinInv  BY PinInvInit, PinInvKept, PTL DEF Spec
<1>2. Spec => [](Alive => CommInv)  BY <1>1, CommInvInit, CommInvKept, PTL DEF Spec
<1>3. Spec => [](Alive => NodesInv)  BY <1>1, <1>2, NodesInvInit, NodesInvKept, PTL DEF Spec
<1>4. Spec => []LineInv  BY <1>1, <1>2, <1>3, LineInvInit, LineInvKept, PTL DEF Spec
<1> QED  BY <1>4, LineInvImplies, PTL

(***************************************************************************)
(*                    How the program ends when it fails                   *)
(***************************************************************************)
(* Freed memory is used only after a node is closed between the two halves *)
(* of the removal of its device.  Until then what is being unlinked is     *)
(* there (spidev_remove), what is listed is bound or being unlinked, each  *)
(* has one remover, and a call in progress has its file open.              *)
Closes == "closed while unbinding" \in happened
Removers ==
  \A d, e \in SpiDevices : removing[d] # 0 /\ removing[d] = removing[e] => d = e
Unlinkings == \A d \in SpiDevices : removing[d] # 0 => spidev[removing[d]].mem = "live"
InCall == call = [p \in Openers |-> call[p]] /\ \A p \in Openers : call[p] # "none" => filp[p] # 0
ListedIsHeld == \A i \in Ids : spidev[i].listed => spidev[i].spi # "none" \/ Unlinked(i)
Uses == ~ fault /\ Removers /\ Unlinkings /\ InCall /\ ListedIsHeld

(* The data of one binding replaced by whatever.                           *)
LEMMA Replaced ==
  ASSUME NEW S, NEW s \in Seq(S), NEW n \in 1..Len(s), NEW r, NEW t, t = [s EXCEPT ![n] = r]
  PROVE  /\ Len(t) = Len(s) /\ t[n] = r /\ DOMAIN t = 1..Len(t)
         /\ \A i \in 1..Len(s) : i # n => t[i] = s[i]
<1>1. s \in Seq(S \cup {r}) /\ t \in Seq(S \cup {r})  OBVIOUS
<1> QED  BY <1>1

(* What a program has open is there, and so is its buffer.                 *)
LEMMA HeldIsLive ==
  ASSUME Inv, ~ fault, NEW p \in Openers, filp[p] # 0
  PROVE  /\ filp[p] \in Ids /\ spidev[filp[p]].mem = "live" /\ spidev[filp[p]].buffer
         /\ spidev[filp[p]].users > 0
<1>1. filp[p] \in Ids /\ Rest  BY DEF Inv, Types, Ids
<1>2. p \in Holders(filp[p])  BY DEF Holders
<1>3. Cardinality(Holders(filp[p])) # 0 /\ Cardinality(Holders(filp[p])) \in Nat
  BY <1>2, FiniteHolders, FS_EmptySet
<1>4. spidev[filp[p]].users > 0  BY <1>1, <1>3 DEF Rest, Counts
<1>5. spidev[filp[p]].mem = "live" /\ spidev[filp[p]].buffer
  BY <1>1, <1>4 DEF Rest, Kept, Buffers
<1> QED  BY <1>1, <1>4, <1>5

LEMMA ProbeUses == ASSUME Inv, Inv', Uses, NEW d \in SpiDevices, Probe(d) PROVE Uses'
<1> DEFINE r == spidev'[Len(spidev) + 1]
<1>1. /\ Types /\ Rest /\ UNCHANGED <<removing, filp, call, fault>>
      /\ \E x : spidev' = Append(spidev, [mem |-> "live", spi |-> d, listed |-> TRUE, minor |-> x,
                                          users |-> 0, buffer |-> FALSE])
  BY DEF Inv, Uses, Probe
<1>2. /\ \A i \in Ids : spidev'[i] = spidev[i]
      /\ Ids' = Ids \cup {Len(spidev) + 1} /\ spidev'[Len(spidev) + 1].spi = d
  BY <1>1 DEF Types, Ids
<1>3. \A e \in SpiDevices : removing[e] # 0 => removing[e] \in Ids  BY <1>1 DEF Types, Ids
<1>4. Removers' /\ InCall' /\ ~ fault'  BY <1>1 DEF Uses, Removers, InCall
<1>5. Unlinkings'  BY <1>1, <1>2, <1>3 DEF Uses, Unlinkings
<1>6. d # "none"  BY SpiDevAssumption DEF SpiDevAssumption
<1>7. ListedIsHeld'  BY <1>1, <1>2, <1>6 DEF Uses, ListedIsHeld, Unlinked
<1> QED  BY <1>4, <1>5, <1>7 DEF Uses

LEMMA DetachUses == ASSUME Inv, Inv', Uses, NEW d \in SpiDevices, RemoveDetach(d) PROVE Uses'
<1> DEFINE n == drvdata[d]
<1>1. /\ Types /\ Rest /\ n \in Ids /\ UNCHANGED <<filp, call, fault>>
      /\ spidev' = [spidev EXCEPT ![n].spi = "none"] /\ removing' = [removing EXCEPT ![d] = n]
  BY DEF Inv, Uses, RemoveDetach, Types, Ids
<1>2. spidev[n].spi = d /\ d # "none" /\ spidev[n].mem = "live" /\ removing[d] = 0
  BY <1>1, SpiDevAssumption DEF Rest, Bindings, Kept, SpiDevAssumption, RemoveDetach
<1>3. \A e \in SpiDevices : removing[e] # n  BY <1>1, <1>2 DEF Rest, Bindings, Ids
<1>4. /\ Ids' = Ids
      /\ \A i \in Ids : /\ spidev'[i].mem = spidev[i].mem /\ spidev'[i].listed = spidev[i].listed
                        /\ i # n => spidev'[i].spi = spidev[i].spi
  <2>1. spidev[n] \in Data /\ spidev \in Seq(Data)  BY <1>1 DEF Types, Ids
  <2> DEFINE r == [spidev[n] EXCEPT !.spi = "none"]
  <2>2. r \in Data /\ r.mem = spidev[n].mem /\ r.listed = spidev[n].listed
    BY <2>1 DEF Data
  <2>3. spidev' = [spidev EXCEPT ![n] = r]  BY <1>1
  <2> HIDE DEF r
  <2>4. /\ Len(spidev') = Len(spidev) /\ spidev'[n] = r
        /\ \A i \in 1..Len(spidev) : i # n => spidev'[i] = spidev[i]
    BY <1>1, <2>1, <2>2, <2>3, Update DEF Ids
  <2> QED  BY <2>2, <2>4 DEF Ids
<1>5. \A e \in SpiDevices : removing'[e] = IF e = d THEN n ELSE removing[e]
  BY <1>1 DEF Types
<1>6. Removers'  BY <1>3, <1>5 DEF Uses, Removers
<1>7. Unlinkings'
  <2>1. \A e \in SpiDevices : removing[e] # 0 => removing[e] \in Ids  BY <1>1 DEF Types, Ids
  <2> QED  BY <1>1, <1>2, <1>4, <1>5, <2>1 DEF Uses, Unlinkings
<1>8. ListedIsHeld'
  <2>1. \A i \in Ids : Unlinked(i) => Unlinked(i)'  BY <1>2, <1>5 DEF Unlinked, Ids
  <2>2. \A i \in Ids : i = n => Unlinked(i)'  BY <1>5 DEF Unlinked
  <2> HIDE DEF n
  <2> QED  BY <1>4, <2>1, <2>2 DEF Uses, ListedIsHeld
<1> QED  BY <1>1, <1>6, <1>7, <1>8 DEF Uses, InCall

LEMMA UnlinkUses == ASSUME Inv, Inv', Uses, NEW d \in SpiDevices, RemoveUnlink(d) PROVE Uses'
<1> DEFINE n == removing[d]
<1>1. /\ Types /\ n # 0 /\ n \in Ids /\ UNCHANGED <<filp, call>>
      /\ removing' = [removing EXCEPT ![d] = 0] /\ fault' = (spidev[n].mem = "freed")
      /\ spidev' = [spidev EXCEPT ![n].listed = FALSE,
                                  ![n].mem = IF spidev[n].users = 0 THEN "freed" ELSE @]
  BY DEF Inv, Uses, RemoveUnlink, Types, Ids
<1>2. ~ fault'  BY <1>1 DEF Uses, Unlinkings
<1>3. /\ Ids' = Ids /\ ~ spidev'[n].listed
      /\ \A i \in Ids : i # n => spidev'[i] = spidev[i]
  <2>1. spidev[n] \in Data /\ spidev \in Seq(Data)  BY <1>1 DEF Types, Ids
  <2> DEFINE z == IF spidev[n].users = 0 THEN "freed" ELSE spidev[n].mem
             r == [spidev[n] EXCEPT !.listed = FALSE, !.mem = z]
  <2>2. ~ r.listed
    <3> HIDE DEF z
    <3> QED  BY <2>1 DEF Data
  <2>3. spidev' = [spidev EXCEPT ![n] = r]  BY <1>1, <2>1
  <2> HIDE DEF r
  <2>4. /\ Len(spidev') = Len(spidev) /\ spidev'[n] = r
        /\ \A i \in 1..Len(spidev) : i # n => spidev'[i] = spidev[i]
    <3> HIDE DEF n
    <3>1. spidev \in Seq(Data) /\ n \in 1..Len(spidev)  BY <1>1, <2>1 DEF Ids
    <3> QED  BY <2>3, <3>1, Replaced
  <2> QED  BY <2>2, <2>4 DEF Ids
<1>4. \A e \in SpiDevices : removing'[e] = IF e = d THEN 0 ELSE removing[e]
  BY <1>1 DEF Types
<1>5. \A e \in SpiDevices : e # d => removing[e] # n  BY <1>1 DEF Uses, Removers
<1>6. Removers'  BY <1>4 DEF Uses, Removers
<1>7. Unlinkings'
  <2>1. \A e \in SpiDevices : removing[e] # 0 => removing[e] \in Ids  BY <1>1 DEF Types, Ids
  <2> QED  BY <1>3, <1>4, <1>5, <2>1 DEF Uses, Unlinkings
<1>8. ListedIsHeld'
  <2>1. \A i \in Ids : i # n /\ Unlinked(i) => Unlinked(i)'  BY <1>4 DEF Unlinked
  <2> QED  BY <1>3, <2>1 DEF Uses, ListedIsHeld
<1> QED  BY <1>1, <1>2, <1>6, <1>7, <1>8 DEF Uses, InCall

LEMMA OpenUses ==
  ASSUME Inv, Inv', Uses, NEW p \in Openers, NEW n \in Listed, OpenNode(p, n) PROVE Uses'
<1>1. /\ Types /\ Rest /\ n \in Ids /\ UNCHANGED <<removing, call>>
      /\ spidev' = [spidev EXCEPT ![n].users = @ + 1, ![n].buffer = TRUE]
      /\ filp' = [filp EXCEPT ![p] = n] /\ fault' = (\E j \in Listed : spidev[j].mem = "freed")
  BY DEF Inv, Uses, OpenNode, Opened, Types, Ids, Listed
<1>2. ASSUME NEW j \in Listed PROVE spidev[j].mem = "live"
  <2>1. j \in Ids /\ spidev[j].listed  BY <1>1 DEF Listed, Types, Ids
  <2>2. CASE spidev[j].spi # "none"  BY <1>1, <2>1, <2>2 DEF Rest, Kept
  <2>3. CASE Unlinked(j)  BY <2>1, <2>3 DEF Unlinked, Uses, Unlinkings, Ids
  <2> QED  BY <2>1, <2>2, <2>3 DEF Uses, ListedIsHeld
<1>3. ~ fault'  BY <1>1, <1>2
<1>4. /\ Ids' = Ids
      /\ \A i \in Ids : /\ spidev'[i].mem = spidev[i].mem /\ spidev'[i].listed = spidev[i].listed
                        /\ spidev'[i].spi = spidev[i].spi
  <2>1. spidev[n] \in Data /\ spidev \in Seq(Data)  BY <1>1 DEF Types, Ids
  <2> DEFINE u == spidev[n].users + 1
             r == [spidev[n] EXCEPT !.users = u, !.buffer = TRUE]
  <2>2. /\ r.mem = spidev[n].mem /\ r.listed = spidev[n].listed
        /\ r.spi = spidev[n].spi
    <3> HIDE DEF u
    <3> QED  BY <2>1 DEF Data
  <2>3. spidev' = [spidev EXCEPT ![n] = r]  BY <1>1, <2>1
  <2> HIDE DEF r
  <2>4. /\ Len(spidev') = Len(spidev) /\ spidev'[n] = r
        /\ \A i \in 1..Len(spidev) : i # n => spidev'[i] = spidev[i]
    <3>1. spidev \in Seq(Data) /\ n \in 1..Len(spidev)  BY <1>1, <2>1 DEF Ids
    <3> QED  BY <2>3, <3>1, Replaced
  <2> QED  BY <2>2, <2>4 DEF Ids
<1>5. Removers' /\ Unlinkings'
  <2>1. \A e \in SpiDevices : removing[e] # 0 => removing[e] \in Ids  BY <1>1 DEF Types, Ids
  <2> QED  BY <1>1, <1>4, <2>1 DEF Uses, Removers, Unlinkings
<1>6. InCall'  BY <1>1 DEF Uses, InCall, Types, Ids
<1>7. ListedIsHeld'  BY <1>1, <1>4 DEF Uses, ListedIsHeld, Unlinked
<1> QED  BY <1>3, <1>5, <1>6, <1>7 DEF Uses

LEMMA CloseUses ==
  ASSUME Inv, Inv', Uses, NEW p \in Openers, CloseNode(p), ~ Unlinked(filp[p]) PROVE Uses'
<1> DEFINE n == filp[p]
           z == IF spidev[n].users = 1 /\ spidev[n].spi = "none" THEN "freed" ELSE spidev[n].mem
<1>1. /\ Types /\ n \in Ids /\ call[p] = "none" /\ UNCHANGED <<removing, call, fault>>
      /\ spidev' = [spidev EXCEPT ![n].users = spidev[n].users - 1,
                                  ![n].buffer = spidev[n].users > 1, ![n].mem = z]
      /\ filp' = [filp EXCEPT ![p] = 0]
  BY DEF Inv, Uses, CloseNode, Closed, Types, Ids
<1>2. Ids' = Ids
      /\ \A i \in Ids : /\ spidev'[i].listed = spidev[i].listed /\ spidev'[i].spi = spidev[i].spi
                        /\ i # n => spidev'[i].mem = spidev[i].mem
  <2>1. spidev[n] \in Data /\ spidev \in Seq(Data)  BY <1>1 DEF Types, Ids
  <2> DEFINE r == [spidev[n] EXCEPT !.users = spidev[n].users - 1,
                                    !.buffer = spidev[n].users > 1, !.mem = z]
  <2>2. r.listed = spidev[n].listed /\ r.spi = spidev[n].spi  BY <2>1 DEF Data
  <2>3. spidev' = [spidev EXCEPT ![n] = r]  BY <1>1, <2>1
  <2> HIDE DEF r
  <2>4. /\ Len(spidev') = Len(spidev) /\ spidev'[n] = r
        /\ \A i \in 1..Len(spidev) : i # n => spidev'[i] = spidev[i]
    <3> HIDE DEF n
    <3>1. spidev \in Seq(Data) /\ n \in 1..Len(spidev)  BY <1>1, <2>1 DEF Ids
    <3> QED  BY <2>3, <3>1, Replaced
  <2> HIDE DEF n
  <2> QED  BY <2>2, <2>4 DEF Ids
<1> HIDE DEF z
<1>3. \A e \in SpiDevices : removing[e] # 0 => removing[e] \in Ids /\ removing[e] # n
  BY <1>1 DEF Types, Ids, Unlinked
<1>4. Removers' /\ Unlinkings'  BY <1>1, <1>2, <1>3 DEF Uses, Removers, Unlinkings
<1>5. InCall'  BY <1>1 DEF Uses, InCall, Types
<1>6. ListedIsHeld'  BY <1>1, <1>2, ZenonT(40) DEF Uses, ListedIsHeld, Unlinked
<1> QED  BY <1>1, <1>4, <1>5, <1>6 DEF Uses

LEMMA CallUses ==
  ASSUME Inv, Uses, NEW p \in Openers, BeginIoctl(p) \/ BeginReadWrite(p) \/ EndCall(p) PROVE Uses'
<1>1. UNCHANGED <<spidev, drvdata, removing, filp>> /\ filp[p] # 0
  BY DEF BeginIoctl, BeginReadWrite, EndCall, Uses, InCall
<1>2. spidev[filp[p]].mem = "live" /\ spidev[filp[p]].buffer
  BY <1>1, HeldIsLive DEF Uses
<1>3. ~ fault'  BY <1>2, Zenon DEF BeginIoctl, BeginReadWrite, EndCall, Uses
<1>4. \E x : call' = [call EXCEPT ![p] = x]  BY DEF BeginIoctl, BeginReadWrite, EndCall
<1>5. InCall'  BY <1>1, <1>4 DEF Uses, InCall
<1> QED  BY <1>1, <1>3, <1>5 DEF Uses, Removers, Unlinkings, ListedIsHeld, Unlinked, Ids

(* A file that is closed between the two halves is remembered.             *)
LEMMA ClosesAsTold ==
  ASSUME Inv, [Next]_vars, NEW p \in Openers, CloseNode(p), Unlinked(filp[p]) PROVE Closes'
<1>1. /\ filp \in [Openers -> Nat] /\ filp[p] # 0
      /\ filp' = [filp EXCEPT ![p] = 0] /\ filp'[p] # filp[p]
  BY DEF CloseNode, Inv, Types
<1>2. ASSUME NEW q \in Openers, CloseNode(q) PROVE q = p  BY <1>1, <1>2 DEF CloseNode
<1>3. ASSUME NEW q \in Openers, NEW i \in Listed, OpenNode(q, i) PROVE FALSE
  <2>1. i # 0 /\ filp' = [filp EXCEPT ![q] = i]  BY <1>3 DEF OpenNode, Listed, Inv, Types
  <2> QED  BY <1>1, <2>1
<1>4. Unlinking(filp[p])  BY DEF Unlinking, Unlinked
<1>5. CASE UNCHANGED filp  BY <1>1, <1>5
<1>6. CASE \E t \in Threads : StepOf(t)
  <2>1. PICK t \in Threads : StepOf(t)  BY <1>6
  <2>2. CASE CloseSpi(t)
    <3>1. filp["cape"] # 0  BY <1>1, <2>2 DEF CloseSpi, spidevVars
    <3>2. /\ CloseNode("cape")
          /\ Unlinking(filp["cape"]) => "closed while unbinding" \in happened'
      BY <2>2, <3>1 DEF CloseSpi
    <3>3. p = "cape"  BY <1>2, <3>2, CapeAssumption DEF CapeAssumption
    <3> QED  BY <1>4, <3>2, <3>3 DEF Closes
  <2> QED  BY <1>5, <2>1, <2>2, StepNodes
<1>7. CASE Main
  <2>1. CASE SpiCreate
    <3>1. UNCHANGED filp \/ \E i \in Listed : OpenNode("cape", i)
      BY <2>1 DEF SpiCreate, spidevVars
    <3> QED  BY <1>3, <1>5, <3>1, CapeAssumption DEF CapeAssumption
  <2>2. CASE ~ SpiCreate
    <3>1. UNCHANGED spidevVars
      BY <1>7, <2>2 DEF Main, Create, CreateFails, SpiCreateFails, AfeCreate, AfeCreated,
         Initialize, MenuActivate, MenuDeactivate, Deactivated, MenuOverloads, MenuSettings, MenuExit
    <3> QED  BY <1>5, <3>1 DEF spidevVars
  <2> QED  BY <2>1, <2>2
<1>8. CASE Kernel
  <2>1. \/ UNCHANGED filp
        \/ \E q \in Openers, i \in Listed : OpenNode(q, i)
        \/ \E q \in Openers :
             /\ CloseNode(q)
             /\ Unlinking(filp[q]) => "closed while unbinding" \in happened'
    BY <1>8 DEF Kernel, KernelEvent, KernelGoesOn, Probe, RemoveUnlink, RemoveDetach, BeginIoctl,
                BeginReadWrite, EndCall, Others
  <2> QED  BY <1>2, <1>3, <1>4, <1>5, <2>1 DEF Closes
<1>9. CASE Callback
  <2>1. CallbackFrame
    BY <1>9 DEF Callback, CallbackBegins, CallbackOrphaned, CallbackTests, CallbackWakes,
                CallbackReads, CallbackStores
  <2> QED  BY <1>5, <2>1 DEF CallbackFrame, spidevVars
<1>10. CASE UNCHANGED vars  BY <1>5, <1>10 DEF vars, spidevVars
<1>11. CASE \/ TxCycle \/ RxCycle \/ TimerStarts \/ TimerStops \/ TimerToggles
           \/ \E f \in Flags : Edge(f)
  BY <1>5, <1>11 DEF TxCycle, RxCycle, TimerStarts, TimerStops, TimerToggles, Edge, spidevVars
<1> QED  BY <1>6, <1>7, <1>8, <1>9, <1>10, <1>11 DEF Next

(* What has happened stays.                                                *)
LEMMA HappenedStays == [Next]_vars => happened \subseteq happened'
<1> SUFFICES ASSUME [Next]_vars PROVE happened \subseteq happened'  OBVIOUS
<1>1. CASE UNCHANGED vars  BY <1>1 DEF vars
<1>2. CASE Main
  BY <1>2 DEF Main, Create, CreateFails, SpiCreate, SpiCreateFails, AfeCreate, AfeCreated,
         Initialize, MenuActivate, MenuDeactivate, Deactivated, MenuOverloads, MenuSettings, MenuExit
<1>3. CASE \E t \in Threads : StepOf(t)
  <2> PICK t \in Threads : StepOf(t)  BY <1>3
  <2>1. CASE LoadPin(t)  BY <2>1 DEF LoadPin
  <2>2. CASE StorePin(t)  BY <2>2 DEF StorePin
  <2>3. CASE Lock(t)  BY <2>3 DEF Lock
  <2>4. CASE UnlockLeds(t)  BY <2>4 DEF UnlockLeds
  <2>5. CASE InDacMode(t)  BY <2>5 DEF InDacMode
  <2>6. CASE WriteRegister(t)  BY <2>6 DEF WriteRegister
  <2>7. CASE AskRegister(t)  BY <2>7 DEF AskRegister
  <2>8. CASE AnswerRegister(t)  BY <2>8 DEF AnswerRegister
  <2>9. CASE ExpectRegister(t)  BY <2>9 DEF ExpectRegister
  <2>10. CASE RememberField(t)  BY <2>10 DEF RememberField
  <2>11. CASE DacMode(t)  BY <2>11 DEF DacMode
  <2>12. CASE SetDriver(t)  BY <2>12 DEF SetDriver
  <2>13. CASE TransferDac(t)  BY <2>13 DEF TransferDac
  <2>14. CASE GetPin(t)  BY <2>14 DEF GetPin
  <2>15. CASE PutFlag(t)  BY <2>15 DEF PutFlag
  <2>16. CASE Unhook(t)  BY <2>16 DEF Unhook
  <2>17. CASE WriteBuffer(t)  BY <2>17 DEF WriteBuffer
  <2>18. CASE ConfigureSpi(t)  BY <2>18 DEF ConfigureSpi, TxFrame
  <2>19. CASE StartTx(t)  BY <2>19 DEF StartTx, TxFrame
  <2>20. CASE StartRx(t)  BY <2>20 DEF StartRx, TxFrame
  <2>21. CASE StopThread(t)  BY <2>21 DEF StopThread, TxFrame
  <2>22. CASE Communication(t)  BY <2>22 DEF Communication, TxFrame
  <2>23. CASE Hook(t)  BY <2>23 DEF Hook, spidevVars
  <2>24. CASE Supervisor(t)  BY <2>24 DEF Supervisor, spidevVars
  <2>25. CASE CloseSpi(t)  BY <2>25 DEF CloseSpi, spidevVars
  <2> QED  BY <2>1, <2>2, <2>3, <2>4, <2>5, <2>6, <2>7, <2>8, <2>9, <2>10, <2>11,
         <2>12, <2>13, <2>14, <2>15, <2>16, <2>17, <2>18, <2>19, <2>20, <2>21, <2>22,
         <2>23, <2>24, <2>25 DEF StepOf
<1>4. CASE Callback
  <2>1. CallbackFrame
    BY <1>4 DEF Callback, CallbackBegins, CallbackOrphaned, CallbackTests, CallbackWakes,
                CallbackReads, CallbackStores
  <2> QED  BY <2>1 DEF CallbackFrame
<1>5. CASE Kernel  BY <1>5 DEF Kernel, KernelEvent, KernelGoesOn
<1>6. CASE \/ TxCycle \/ RxCycle \/ TimerStarts \/ TimerStops \/ TimerToggles
           \/ \E f \in Flags : Edge(f)
  BY <1>6 DEF TxCycle, RxCycle, TimerStarts, TimerStops, TimerToggles, Edge
<1> QED  BY <1>1, <1>2, <1>3, <1>4, <1>5, <1>6 DEF Next

LEMMA UsesKept == ASSUME Inv, Inv', [Next]_vars, Closes \/ Uses PROVE (Closes \/ Uses)'
<1>1. CASE Closes  BY <1>1, HappenedStays DEF Closes
<1>2. CASE Uses
  <2>1. [SpidevNext]_spidevVars  BY NextIsSpidev
  <2>2. CASE UNCHANGED spidevVars
    BY <1>2, <2>2 DEF spidevVars, Uses, Removers, Unlinkings, InCall, ListedIsHeld, Unlinked, Ids
  <2>3. CASE \E d \in SpiDevices : Probe(d) \/ RemoveDetach(d) \/ RemoveUnlink(d)
    BY <1>2, <2>3, ProbeUses, DetachUses, UnlinkUses
  <2>4. CASE \E p \in Openers : \E i \in Listed : OpenNode(p, i)
    BY <1>2, <2>4, OpenUses
  <2>5. CASE \E p \in Openers : CloseNode(p)
    <3>1. PICK p \in Openers : CloseNode(p)  BY <2>5
    <3>2. CASE Unlinked(filp[p])  BY <3>1, <3>2, ClosesAsTold
    <3>3. CASE ~ Unlinked(filp[p])  BY <1>2, <3>1, <3>3, CloseUses
    <3> QED  BY <3>2, <3>3
  <2>6. CASE \E p \in Openers : BeginIoctl(p) \/ BeginReadWrite(p) \/ EndCall(p)
    BY <1>2, <2>6, CallUses
  <2> QED  BY <2>1, <2>2, <2>3, <2>4, <2>5, <2>6 DEF SpidevNext
<1> QED  BY <1>1, <1>2

(* What can end the program: a step of a thread, or a callback of a pin    *)
(* that has been freed.                                                    *)
Dies(t) ==
  \/ dead' = "dac" /\ InDacMode(t)
  \/ dead' = "echo" /\ AnswerRegister(t)
  \/ dead' = "readback" /\ ExpectRegister(t)
  \/ dead' = "driver" /\ SetDriver(t)
  \/ dead' = "leds" /\ (Lock(t) \/ UnlockLeds(t))
  \/ dead' = "sample" /\ TransferDac(t)
  \/ dead' = "underrun" /\ WriteBuffer(t)
  \/ dead' = "pcm" /\ StartTx(t)
Orphaned == \E f \in Flags : \E g \in Generations : CallbackOrphaned(f, g)

LEMMA DeathOfStep ==
  ASSUME NEW t \in Threads, StepOf(t), dead = "no", dead' # "no" PROVE Dies(t)
<1>1. CASE LoadPin(t)  BY <1>1 DEF LoadPin
<1>2. CASE StorePin(t)  BY <1>2 DEF StorePin
<1>3. CASE Lock(t)  BY <1>3 DEF Lock, Die, Dies
<1>4. CASE UnlockLeds(t)  BY <1>4 DEF UnlockLeds, Dies
<1>5. CASE InDacMode(t)  BY <1>5 DEF InDacMode, Die, Dies
<1>6. CASE WriteRegister(t)  BY <1>6 DEF WriteRegister
<1>7. CASE AskRegister(t)  BY <1>7 DEF AskRegister
<1>8. CASE AnswerRegister(t)  BY <1>8 DEF AnswerRegister, Die, Dies
<1>9. CASE ExpectRegister(t)  BY <1>9 DEF ExpectRegister, Dies
<1>10. CASE RememberField(t)  BY <1>10 DEF RememberField
<1>11. CASE DacMode(t)  BY <1>11 DEF DacMode
<1>12. CASE SetDriver(t)  BY <1>12 DEF SetDriver, Die, Dies
<1>13. CASE TransferDac(t)  BY <1>13 DEF TransferDac, Die, Dies
<1>14. CASE Hook(t)  BY <1>14 DEF Hook
<1>15. CASE GetPin(t)  BY <1>15 DEF GetPin
<1>16. CASE PutFlag(t)  BY <1>16 DEF PutFlag
<1>17. CASE Unhook(t)  BY <1>17 DEF Unhook
<1>18. CASE WriteBuffer(t)  BY <1>18 DEF WriteBuffer, Die, Dies
<1>19. CASE ConfigureSpi(t)  BY <1>19 DEF ConfigureSpi
<1>20. CASE StartTx(t)  BY <1>20 DEF StartTx, Die, Dies
<1>21. CASE StartRx(t)  BY <1>21 DEF StartRx
<1>22. CASE StopThread(t)  BY <1>22 DEF StopThread
<1>23. CASE Communication(t)  BY <1>23 DEF Communication
<1>24. CASE Supervisor(t)  BY <1>24 DEF Supervisor
<1>25. CASE CloseSpi(t)  BY <1>25 DEF CloseSpi
<1> QED  BY <1>1, <1>2, <1>3, <1>4, <1>5, <1>6, <1>7, <1>8, <1>9, <1>10, <1>11, <1>12,
         <1>13, <1>14, <1>15, <1>16, <1>17, <1>18, <1>19, <1>20, <1>21, <1>22, <1>23,
         <1>24, <1>25 DEF StepOf

LEMMA Deaths ==
  ASSUME Next, dead = "no", dead' # "no"
  PROVE  (\E t \in Threads : StepOf(t) /\ Dies(t)) \/ (dead' = "pin" /\ Orphaned)
<1>1. CASE \E t \in Threads : StepOf(t)  BY <1>1, DeathOfStep
<1>2. CASE Main
  <2>1. MainFrame
    BY <1>2 DEF Main, Create, CreateFails, SpiCreate, SpiCreateFails, AfeCreate, AfeCreated,
       Initialize, MenuActivate, MenuDeactivate, Deactivated, MenuOverloads, MenuSettings, MenuExit
  <2> QED  BY <2>1 DEF MainFrame
<1>3. CASE TxCycle \/ RxCycle \/ TimerStarts \/ TimerStops \/ TimerToggles
  BY <1>3 DEF TxCycle, RxCycle, TimerStarts, TimerStops, TimerToggles
<1>4. CASE Callback
  <2>1. PICK f \in Flags, g \in Generations :
          \/ CallbackBegins(f, g) \/ CallbackOrphaned(f, g) \/ CallbackTests(f, g)
          \/ CallbackWakes(f, g) \/ CallbackReads(f, g) \/ CallbackStores(f, g)
    BY <1>4 DEF Callback
  <2>2. CallbackOrphaned(f, g)
    BY <2>1 DEF CallbackBegins, CallbackTests, CallbackWakes, CallbackReads, CallbackStores
  <2>3. dead' = "pin"  BY <2>2 DEF CallbackOrphaned, Die
  <2> QED  BY <2>2, <2>3 DEF Orphaned
<1>5. CASE (\E f \in Flags : Edge(f)) \/ Kernel
  BY <1>5 DEF Edge, Kernel, UserUnchanged
<1> QED  BY <1>1, <1>2, <1>3, <1>4, <1>5 DEF Next

(* The thread that sends writes to the sound card only where there is one. *)
SendInv == ~ Alsa => Avoids(todo["tx"], {"writei"})

LEMMA SendInvKept == ASSUME TodoInv, TxTypes, SendInv, [Next]_vars PROVE SendInv'
<1>1. ASSUME todo'["tx"] = todo["tx"], board' = board PROVE SendInv'
  BY <1>1 DEF SendInv, Alsa, Emulated
<1>2. CASE UNCHANGED vars  BY <1>1, <1>2 DEF vars
<1>3. CASE Main
  <2>1. MainFrame
    BY <1>3 DEF Main, Create, CreateFails, SpiCreate, SpiCreateFails, AfeCreate, AfeCreated,
       Initialize, MenuActivate, MenuDeactivate, Deactivated, MenuOverloads, MenuSettings, MenuExit
  <2>2. \E p, s : Call(p, s)
    BY <1>3, Zenon
    DEF Main, Create, CreateFails, SpiCreate, SpiCreateFails, AfeCreate, AfeCreated, Initialize,
        MenuActivate, MenuDeactivate, Deactivated, MenuOverloads, MenuSettings, MenuExit
  <2>3. todo'["tx"] = todo["tx"]  BY <2>2 DEF Call, TodoInv, Threads
  <2> QED  BY <1>1, <2>1, <2>3 DEF MainFrame
<1>4. CASE \E t \in Threads : StepOf(t)
  <2>1. PICK t \in Threads : StepOf(t)  BY <1>4
  <2>2. Proceeds(t) /\ board' = board  BY <2>1, StepProceeds, StepKeepsBoard
  <2>3. CASE t # "tx"  BY <1>1, <2>2, <2>3 DEF Proceeds, TodoInv, Threads
  <2>4. CASE t = "tx"
    <3> SUFFICES ASSUME ~ Alsa PROVE Avoids(todo'["tx"], {"writei"})
      BY <2>2 DEF SendInv, Alsa, Emulated
    <3>1. Avoids(todo["tx"], {"writei"}) /\ todo["tx"] # <<>>  BY <2>2, <2>4 DEF SendInv, Proceeds
    <3>2. Avoids(Tail(todo["tx"]), {"writei"}) /\ Head(todo["tx"]).op # "writei"
      BY <3>1, AvoidsRest
    <3>3. Avoids(AbandonTx, {"writei"}) /\ Avoids(AbandonRx, {"writei"})
      BY AbandonAvoids DEF Special, DacSteps
    <3> QED  BY <2>2, <2>4, <3>1, <3>2, <3>3 DEF Proceeds
  <2> QED  BY <2>3, <2>4
<1>5. CASE TxCycle
  <2>1. board' = board  BY <1>5 DEF TxCycle, UserFrame
  <2>2. CASE UNCHANGED todo  BY <1>1, <2>1, <2>2
  <2>3. CASE todo' = [todo EXCEPT !["tx"] = FlushBuffer(FillNext)]
    <3>1. DOMAIN FillNext = 1..tx.len  BY DEF FillNext
    <3>2. ~ Alsa => Avoids(FlushBuffer(FillNext), {"writei"})  BY <3>1, FlushAvoids
    <3>3. todo'["tx"] = FlushBuffer(FillNext)  BY <2>3 DEF TodoInv, Threads
    <3> QED  BY <2>1, <3>2, <3>3 DEF SendInv, Alsa, Emulated
  <2> QED  BY <1>5, <2>2, <2>3 DEF TxCycle
<1>6. CASE RxCycle \/ TimerStarts \/ TimerStops \/ TimerToggles
  <2>1. board' = board /\ \E t \in Threads \ {"tx"} : \E p : todo' = [todo EXCEPT ![t] = p]
    BY <1>6 DEF RxCycle, TimerStarts, TimerStops, TimerToggles, Threads, UserFrame
  <2>2. todo'["tx"] = todo["tx"]  BY <2>1 DEF TodoInv, Threads
  <2> QED  BY <1>1, <2>1, <2>2
<1>7. CASE Callback \/ (\E f \in Flags : Edge(f)) \/ Kernel
  BY <1>1, <1>7, NotHere DEF Elsewhere
<1> QED  BY <1>2, <1>3, <1>4, <1>5, <1>6, <1>7 DEF Next

(* While a transmission runs the device is in DAC mode.                    *)
LEMMA RunningInDacMode == ASSUME Order, Running PROVE Dac
<1>1. \A w : Opening(w) => Dac  BY DEF Opening, Off, Armed, OnAir, Has
<1>2. \A w : Closing(w) => Dac  BY DEF Closing, Off, OnAir, Has
<1>4. \A w : Acting(w) => Dac  BY <1>1, <1>2 DEF Acting, Pausing, Armed, OnAir, Has
<1>3. \A w : ~ Booting(w)  BY DEF Booting, Off, Has
<1> QED  BY <1>1, <1>2, <1>3, <1>4, Zenon DEF Order, Opens, TimerActs, UserCloses, Boots

(* A transmission starts only when none runs.                              *)
LEMMA StartsOnce ==
  ASSUME CommInv, NEW t \in Threads, todo[t] # <<>>, Head(todo[t]).op = "startTx" PROVE ~ Running
<1>1. Label(Head(todo[t])) = "startTx" /\ "startTx" \in Key  BY DEF Label, KeyOps, Key
<1>2. t \notin {"blink", "rx", "tx"}
  <2>1. Avoids(todo[t], KeyOps) => Head(todo[t]).op \notin KeyOps  BY AvoidsRest
  <2> QED  BY <2>1 DEF CommInv, RoleInv, KeyOps, Key
<1>3. \A w : Shows(todo[t], w) => w # <<>> /\ Head(w) = "startTx"  BY <1>1, ShowsRest
<1>4. ASSUME NEW w, Closing(w) \/ Pausing(w) \/ Booting(w), Shows(todo[t], w) PROVE FALSE
  BY <1>3, <1>4, OnlyOpeningStarts
<1>7. ASSUME NEW w, Opening(w), Shows(todo[t], w) PROVE ~ Running
  <2>1. w # <<>> /\ Head(w) = "startTx"  BY <1>3, <1>7
  <2>2. w = <<"startTx", "startRx", "commOn">> /\ Has(FALSE, TRUE, FALSE, FALSE, TRUE)
    BY <1>7, <2>1, Parts DEF Opening
  <2> QED  BY <2>2 DEF Has
<1>5. CASE t = "comm"
  <2>1. TimerActs  BY <1>5 DEF CommInv, Order, Opens, UserCloses, Boots, Idle
  <2> QED  BY <1>4, <1>5, <1>7, <2>1 DEF TimerActs, Acting
<1>6. CASE t = "main"
  <2>1. ~ UserCloses /\ ~ Boots  BY <1>4, <1>6 DEF UserCloses, Boots
  <2>2. ~ TimerActs  BY <1>3, <1>6 DEF TimerActs
  <2> QED  BY <1>6, <1>7, <2>1, <2>2 DEF CommInv, Order, Opens
<1> QED  BY <1>2, <1>5, <1>6 DEF Threads

(* No transfer to the DAC fails the assertion of its mode, no device of    *)
(* ALSA is opened twice, and an underrun is one of a sound card.           *)
LEMMA SoundOfStep ==
  ASSUME CommInv, SendInv, TodoInv, NEW t \in Threads, Dies(t)
  PROVE  dead' \notin {"sample", "pcm"} /\ (dead' = "underrun" => Alsa)
<1>1. Head(todo[t]).op \in {"writei", "transfer"} /\ todo[t] # <<>> => t = "tx"
  <2>1. Avoids(todo[t], {"writei", "transfer"}) /\ todo[t] # <<>> =>
          Head(todo[t]).op \notin {"writei", "transfer"}
    BY AvoidsRest
  <2> QED  BY <2>1 DEF CommInv, RoleInv
<1>2. ~ (dead' = "sample" /\ TransferDac(t))
  <2> SUFFICES ASSUME dead' = "sample", TransferDac(t) PROVE FALSE  OBVIOUS
  <2>1. t = "tx" /\ todo["tx"] # <<>> /\ dead = "no"  BY <1>1 DEF TransferDac, Is, Alive
  <2>2. Running  BY <2>1 DEF CommInv, TxInv, Idle, Running
  <2>3. spi.dacMode = 1  BY <2>2, RunningInDacMode DEF CommInv, Dac
  <2> QED  BY <2>1, <2>3 DEF TransferDac
<1>3. ~ (dead' = "pcm" /\ StartTx(t))
  <2> SUFFICES ASSUME dead' = "pcm", StartTx(t) PROVE FALSE  OBVIOUS
  <2>1. todo[t] # <<>> /\ Head(todo[t]).op = "startTx" /\ dead = "no"  BY DEF StartTx, Is, Alive
  <2>2. ~ Running  BY <2>1, StartsOnce
  <2>3. ~ tx.pcm  BY <2>2 DEF CommInv, TxInv
  <2> QED  BY <2>1, <2>3 DEF StartTx
<1>4. dead' = "underrun" /\ WriteBuffer(t) => Alsa
  <2> SUFFICES ASSUME WriteBuffer(t) PROVE Alsa  OBVIOUS
  <2>1. todo[t] # <<>> /\ Head(todo[t]).op = "writei"  BY DEF WriteBuffer, Is
  <2>2. Avoids(todo["tx"], {"writei"}) /\ todo["tx"] # <<>> => Head(todo["tx"]).op # "writei"
    BY AvoidsRest
  <2> QED  BY <1>1, <2>1, <2>2 DEF SendInv
<1> QED  BY <1>2, <1>3, <1>4 DEF Dies

(* The functions of the user's thread: which program each begins with, and *)
(* where it goes.                                                          *)
Abort == (PinOutSet("shutdown", 1) \o LedsRelease(version)) \o SpiRelease
Given(p, s) ==
  \/ stage = "start" /\ s = "leds" /\ p = LedsCreate(version)
  \/ stage = "start" /\ s = "failed" /\ p = <<>>
  \/ stage = "leds" /\ s = "spi" /\ (p = <<>> \/ p = SetDacMode(0))
  \/ stage = "leds" /\ s = "failed" /\ p = LedsRelease(version)
  \/ stage = "spi" /\ s = "probe" /\ p = AfeProbe
  \/ stage = "probe" /\ s = "created" /\ (p = <<>> \/ p = Configure(Defaults))
  \/ stage = "probe" /\ s = "failed" /\ p = Abort
  \/ stage = "created" /\ s = "idle" /\ \E x \in Settings : p = InitializeCape(x)
  \/ stage = "idle" /\ s = "idle" /\ ~ supervisor /\ Idle("comm") /\ p = Activate
  \/ stage = "idle" /\ s = "stopping" /\ Idle("comm") /\ p = Deactivate(comm)
  \/ stage = "stopping" /\ s = "idle" /\ p = <<>>
  \/ /\ stage = "idle" /\ s = "idle" /\ (p = ClearOverloads \/ p = GetOverloads)
     /\ comm \/ ~ Idle("comm") => "overloads while communicating" \in happened'
  \/ stage = "idle" /\ s = "created" /\ Quiescent /\ p = TerminateCape
  \/ stage = "idle" /\ s = "released" /\ Quiescent /\ p = TerminateCape \o ReleaseCape

LEMMA MainGives ==
  ASSUME Main
  PROVE  Alive /\ Idle("main") /\ MainFrame /\ happened \subseteq happened'
         /\ \E p, s : Call(p, s) /\ Given(p, s)
<1> DEFINE Found == \E p, s : Call(p, s) /\ Given(p, s)
<1>1. ASSUME NEW p, NEW s, Call(p, s), Given(p, s) PROVE Found  BY <1>1
<1>2. Alive /\ Idle("main") /\ MainFrame /\ happened \subseteq happened'
  BY DEF Main, Create, CreateFails, SpiCreate, SpiCreateFails, AfeCreate, AfeCreated, Initialize,
         MenuActivate, MenuDeactivate, Deactivated, MenuOverloads, MenuSettings, MenuExit, Menu, At
<1> SUFFICES Found  BY <1>2
<1> HIDE DEF Found
<1>3. CASE Create
  <2>1. Given(LedsCreate(version), "leds")  BY <1>3 DEF Create, At, Given
  <2> QED  BY <1>1, <1>3, <2>1 DEF Create
<1>4. CASE CreateFails
  <2>1. Given(<<>>, "failed")  BY <1>4 DEF CreateFails, At, Given
  <2> QED  BY <1>1, <1>4, <2>1 DEF CreateFails
<1>5. CASE SpiCreate
  <2>1. Given(<<>>, "spi") /\ Given(SetDacMode(0), "spi")  BY <1>5 DEF SpiCreate, At, Given
  <2> QED  BY <1>1, <1>5, <2>1, Zenon DEF SpiCreate
<1>6. CASE SpiCreateFails
  <2>1. Given(LedsRelease(version), "failed")  BY <1>6 DEF SpiCreateFails, At, Given
  <2> QED  BY <1>1, <1>6, <2>1 DEF SpiCreateFails
<1>7. CASE AfeCreate
  <2>1. Given(AfeProbe, "probe")  BY <1>7 DEF AfeCreate, At, Given
  <2> QED  BY <1>1, <1>7, <2>1 DEF AfeCreate
<1>8. CASE AfeCreated
  <2>1. stage = "probe"  BY <1>8 DEF AfeCreated, At
  <2>2. Given(<<>>, "created") /\ Given(Configure(Defaults), "created") /\ Given(Abort, "failed")
    BY <2>1 DEF Given
  <2>3. Call(<<>>, "created") \/ Call(Configure(Defaults), "created") \/ Call(Abort, "failed")
    BY <1>8, Zenon DEF AfeCreated, Abort
  <2> QED  BY <1>1, <2>2, <2>3, Zenon
<1>9. CASE Initialize
  <2>1. PICK x \in Settings : Call(InitializeCape(x), "idle")  BY <1>9 DEF Initialize
  <2>2. Given(InitializeCape(x), "idle")  BY <1>9 DEF Initialize, At, Given
  <2> QED  BY <1>1, <2>1, <2>2
<1>10. CASE MenuActivate
  <2>1. Given(Activate, "idle")  BY <1>10 DEF MenuActivate, Menu, At, Given
  <2> QED  BY <1>1, <1>10, <2>1 DEF MenuActivate
<1>11. CASE MenuDeactivate
  <2>1. Given(Deactivate(comm), "stopping")  BY <1>11 DEF MenuDeactivate, At, Given
  <2> QED  BY <1>1, <1>11, <2>1 DEF MenuDeactivate
<1>12. CASE Deactivated
  <2>1. Given(<<>>, "idle")  BY <1>12 DEF Deactivated, At, Given
  <2> QED  BY <1>1, <1>12, <2>1 DEF Deactivated
<1>13. CASE MenuOverloads
  <2>1. stage = "idle"  BY <1>13 DEF MenuOverloads, Menu, At
  <2>2. comm \/ ~ Idle("comm") => "overloads while communicating" \in happened'
    BY <1>13 DEF MenuOverloads
  <2>3. Given(ClearOverloads, "idle") /\ Given(GetOverloads, "idle")  BY <2>1, <2>2 DEF Given
  <2>4. Call(ClearOverloads, "idle") \/ Call(GetOverloads, "idle")  BY <1>13 DEF MenuOverloads
  <2> QED  BY <1>1, <2>3, <2>4
<1>14. CASE MenuSettings
  <2>1. Given(TerminateCape, "created")  BY <1>14 DEF MenuSettings, Menu, At, Given
  <2> QED  BY <1>1, <1>14, <2>1 DEF MenuSettings
<1>15. CASE MenuExit
  <2>1. Given(TerminateCape \o ReleaseCape, "released")  BY <1>15 DEF MenuExit, At, Given
  <2> QED  BY <1>1, <1>15, <2>1 DEF MenuExit
<1> QED
  BY <1>3, <1>4, <1>5, <1>6, <1>7, <1>8, <1>9, <1>10, <1>11, <1>12, <1>13, <1>14, <1>15 DEF Main

(* What a thread that avoids a kind of steps goes on with.                 *)
LEMMA ProceedsAvoids ==
  ASSUME NEW A, NEW t \in Threads, Proceeds(t), Avoids(todo[t], A),
         Avoids(AbandonTx, A) \/ "startTx" \in A, Avoids(AbandonRx, A) \/ "startRx" \in A
  PROVE  Avoids(todo'[t], A)
<1>1. Avoids(Tail(todo[t]), A) /\ Head(todo[t]).op \notin A  BY AvoidsRest DEF Proceeds
<1>2. ASSUME PutsBack(todo[t], todo'[t]), Head(todo[t]).op = "writei" PROVE Avoids(todo'[t], A)
  <2>1. PICK s : /\ s = <<>> \/ \E x : s = <<[op |-> "writei", samples |-> x]>>
                 /\ todo'[t] = s \o Tail(todo[t])
    BY <1>2 DEF PutsBack
  <2>2. Avoids(s, A)  BY <1>1, <1>2, <2>1, AvoidsNone, AvoidsOne
  <2> QED  BY <1>1, <2>1, <2>2, AvoidsJoined
<1> QED  BY <1>1, <1>2 DEF Proceeds

(* The callbacks are taken away at the end, when none is installed any more.*)
Ends == stage = "released"
HookInv ==
  /\ \A t \in Threads \ {"main"} : Avoids(todo[t], {"hook", "unhook"})
  /\ Ends => Avoids(todo["main"], {"hook"})
  /\ ~ Ends => Avoids(todo["main"], {"unhook"})

LEMMA GivenHooks ==
  ASSUME NEW p, NEW s, Given(p, s)
  PROVE  IF s = "released" THEN Avoids(p, {"hook"}) ELSE Avoids(p, {"unhook"})
<1> DEFINE U == {"unhook"}
           H == {"hook"}
<1>1. /\ U \subseteq Special /\ U \subseteq Special \ DacSteps /\ H \subseteq Special
      /\ \A op \in U : op \notin
        {"hook", "get", "put", "configure", "closeSpi", "ledsGone", "ledsReady", "supervisorOn",
         "supervisorOff", "startTx", "startRx", "commOn", "commOff", "joinRx", "joinTx",
         "requestStop"}
      /\ \A op \in H : op \notin {"unhook", "closeSpi", "ledsGone", "ledsReady"}
  BY DEF Special, DacSteps
<1> HIDE DEF U, H
<1>2. /\ Avoids(LedsCreate(version), U) /\ Avoids(LedsRelease(version), U)
      /\ Avoids(SpiRelease, U) /\ Avoids(TerminateCape, U)
      /\ Avoids(Activate, U) /\ Avoids(Deactivate(comm), U)
  BY <1>1, LedsAvoid, SpiReleaseAvoids, TerminateAvoids, ActivateAvoids, DeactivateAvoids
<1>3. /\ Avoids(SetDacMode(0), U) /\ Avoids(AfeProbe, U)
      /\ Avoids(Configure(Defaults), U) /\ Avoids(ClearOverloads, U)
      /\ Avoids(GetOverloads, U) /\ Avoids(PinOutSet("shutdown", 1), U)
  BY <1>1, CallsAreCore, PinsAreCore, AvoidsFewer
<1>4. Avoids(Abort, U) /\ Avoids(<<>>, U)  BY <1>2, <1>3, AvoidsJoined, AvoidsNone DEF Abort
<1>5. \A x : Avoids(InitializeCape(x), U)  BY <1>1, InitializeAvoids
<1>6. Avoids(TerminateCape \o ReleaseCape, H)
  BY <1>1, TerminateAvoids, ReleaseAvoids, AvoidsJoined
<1> QED  BY <1>2, <1>3, <1>4, <1>5, <1>6, ZenonT(40) DEF Given, U, H

(* A step of a thread, on what the others have to do.                      *)
LEMMA StepOfOne ==
  ASSUME TodoInv, TxTypes, SpiTypes, NEW t \in Threads, StepOf(t), Alive'
  PROVE  /\ Proceeds(t) /\ stage' = stage /\ board' = board /\ happened \subseteq happened'
         /\ \A u \in Threads : u # t => todo'[u] = todo[u]
<1>1. Proceeds(t) /\ Outcome(t) /\ board' = board /\ happened \subseteq happened'
  BY StepProceeds, StepOutcome, StepKeepsBoard, StepReads
<1>2. stage' = stage  BY <1>1 DEF Outcome, Effect
<1>3. \A u \in Threads : u # t => todo'[u] = todo[u]  BY <1>1 DEF Proceeds, TodoInv
<1> QED  BY <1>1, <1>2, <1>3

(* The programs of the other threads are given to them when they have none.*)
GivenTo(t, p) ==
  /\ t # "main" /\ Idle(t) /\ todo' = [todo EXCEPT ![t] = p]
  /\ UNCHANGED <<stage, board, comm, supervisor, pins, thread, spi>>
  /\ happened \subseteq happened'
  /\ \/ t = "tx" /\ p = FlushBuffer(FillNext)
     \/ t = "rx" /\ \E d \in {0, 1} : p = SetRxActivity(d)
     \/ t = "comm" /\ comm /\ stage = "idle" /\ (p = Deactivate(TRUE) \/ p = StopCommunication)
     \/ /\ t = "comm" /\ ~ comm /\ supervisor /\ stage = "idle" /\ settings.periodic
        /\ p = StartCommunication
        /\ ~ Idle("main") => "overloads while communicating" \in happened'
     \/ t = "blink" /\ supervisor /\ p = ToggleAppActivity

LEMMA CyclesGive ==
  ASSUME TxCycle \/ RxCycle \/ TimerStarts \/ TimerStops \/ TimerToggles
  PROVE  \/ UNCHANGED <<todo, stage, board, comm, supervisor, happened, pins, thread, spi>>
         \/ \E t \in Threads : \E p : GivenTo(t, p)
<1> DEFINE Found == \E t \in Threads : \E p : GivenTo(t, p)
<1>1. ASSUME NEW t \in Threads, NEW p, GivenTo(t, p) PROVE Found  BY <1>1
<1>2. "tx" \in Threads /\ "rx" \in Threads /\ "comm" \in Threads /\ "blink" \in Threads
  BY DEF Threads
<1> HIDE DEF Found
<1>3. CASE TxCycle
  <2>1. UNCHANGED <<stage, board, comm, supervisor, happened, pins, thread, spi>> /\ Idle("tx")
    BY <1>3 DEF TxCycle, UserFrame, flagVars
  <2>2. CASE UNCHANGED todo  BY <2>1, <2>2
  <2>3. CASE todo' = [todo EXCEPT !["tx"] = FlushBuffer(FillNext)]
    <3>1. GivenTo("tx", FlushBuffer(FillNext))  BY <2>1, <2>3 DEF GivenTo
    <3> QED  BY <1>1, <1>2, <3>1 DEF Found
  <2> QED  BY <1>3, <2>2, <2>3 DEF TxCycle
<1>4. CASE RxCycle
  <2>1. PICK d \in {0, 1} : todo' = [todo EXCEPT !["rx"] = SetRxActivity(d)]
    BY <1>4 DEF RxCycle
  <2>2. GivenTo("rx", SetRxActivity(d))  BY <1>4, <2>1 DEF GivenTo, RxCycle, flagVars
  <2> QED  BY <1>1, <1>2, <2>2 DEF Found
<1>5. CASE TimerStops
  <2>1. GivenTo("comm", Deactivate(TRUE)) \/ GivenTo("comm", StopCommunication)
    BY <1>5 DEF GivenTo, TimerStops, UserFrame, flagVars
  <2> QED  BY <1>1, <1>2, <2>1 DEF Found
<1>7. CASE TimerStarts
  <2>1. GivenTo("comm", StartCommunication)  BY <1>7 DEF GivenTo, TimerStarts, UserFrame, flagVars
  <2> QED  BY <1>1, <1>2, <2>1 DEF Found
<1>6. CASE TimerToggles
  <2>1. GivenTo("blink", ToggleAppActivity)  BY <1>6 DEF GivenTo, TimerToggles, flagVars
  <2> QED  BY <1>1, <1>2, <2>1 DEF Found
<1> QED  BY <1>3, <1>4, <1>5, <1>6, <1>7

Unstarted == (Special \ DacSteps)
  \ {"joinRx", "requestStop", "joinTx", "commOff", "supervisorOff", "startTx", "startRx", "commOn",
     "writei", "transfer"}

LEMMA GivenAvoids ==
  ASSUME TxTypes, NEW t \in Threads, NEW p, GivenTo(t, p), NEW A, A \subseteq Unstarted
  PROVE  Avoids(p, A)
<1>1. DOMAIN FillNext = 1..tx.len  BY DEF FillNext
<1>2. Avoids(FlushBuffer(FillNext), A)  BY <1>1, FlushAvoids DEF Unstarted
<1>5. A \subseteq Special  BY DEF Unstarted
<1>3. Avoids(Deactivate(TRUE), A) /\ Avoids(StopCommunication, A)
      /\ Avoids(StartCommunication, A)
  BY DeactivateAvoids, StartAvoids DEF Unstarted
<1>4. Avoids(ToggleAppActivity, A) /\ \A d : Avoids(SetRxActivity(d), A)
  BY <1>5, LedsAreCore, AvoidsFewer
<1> QED  BY <1>2, <1>3, <1>4 DEF GivenTo

LEMMA HookInvKept ==
  ASSUME TodoInv, TxTypes, SpiTypes, HookInv, Next, Alive' PROVE HookInv'
<1> DEFINE A == {"hook", "unhook"}
<1>1. /\ A \subseteq Unstarted
      /\ \A B : B \subseteq A => Avoids(AbandonTx, B) /\ Avoids(AbandonRx, B)
  <2>1. A \subseteq Unstarted  BY DEF Unstarted, Special, DacSteps
  <2>2. Avoids(AbandonTx, A) /\ Avoids(AbandonRx, A)  BY AbandonAvoids DEF Special, DacSteps
  <2> QED  BY <2>1, <2>2, AvoidsFewer
<1> HIDE DEF A
<1>2. {"hook"} \subseteq A /\ {"unhook"} \subseteq A  BY DEF A
<1>3. CASE \E t \in Threads : StepOf(t)
  <2>1. PICK t \in Threads : StepOf(t)  BY <1>3
  <2>2. /\ Proceeds(t) /\ stage' = stage
        /\ \A u \in Threads : u # t => todo'[u] = todo[u]
    BY <2>1, StepOfOne
  <2>3. ASSUME NEW B, B \subseteq A, Avoids(todo[t], B) PROVE Avoids(todo'[t], B)
    BY <1>1, <2>2, <2>3, ProceedsAvoids
  <2>4. \A u \in Threads \ {"main"} : Avoids(todo'[u], A)
    BY <2>2, <2>3 DEF HookInv, A
  <2>5. Ends => Avoids(todo'["main"], {"hook"})  BY <1>2, <2>2, <2>3 DEF HookInv, Threads
  <2>6. ~ Ends => Avoids(todo'["main"], {"unhook"})  BY <1>2, <2>2, <2>3 DEF HookInv, Threads
  <2> QED  BY <2>2, <2>4, <2>5, <2>6 DEF HookInv, Ends, A
<1>4. CASE Main
  <2>1. PICK p, s : Call(p, s) /\ Given(p, s)  BY <1>4, MainGives
  <2>2. /\ stage' = s /\ todo'["main"] = p
        /\ \A u \in Threads \ {"main"} : todo'[u] = todo[u]
    BY <2>1 DEF Call, TodoInv, Threads
  <2> QED  BY <2>1, <2>2, GivenHooks DEF HookInv, Ends
<1>5. CASE TxCycle \/ RxCycle \/ TimerStarts \/ TimerStops \/ TimerToggles
  <2>1. CASE UNCHANGED <<todo, stage>>  BY <2>1 DEF HookInv, Ends
  <2>2. CASE \E t \in Threads : \E p : GivenTo(t, p)
    <3>1. PICK t \in Threads : \E p : GivenTo(t, p)  BY <2>2
    <3>p. PICK p : GivenTo(t, p)  BY <3>1
    <3>2. Avoids(p, A)  BY <1>1, <3>p, GivenAvoids
    <3>3. /\ stage' = stage /\ todo'["main"] = todo["main"]
          /\ \A u \in Threads : todo'[u] = IF u = t THEN p ELSE todo[u]
      BY <3>p DEF GivenTo, TodoInv, Threads
    <3> QED  BY <3>2, <3>3 DEF HookInv, Ends, A
  <2> QED  BY <1>5, <2>1, <2>2, CyclesGive
<1>6. CASE Callback \/ (\E f \in Flags : Edge(f)) \/ Kernel
  BY <1>6, NotHere DEF Elsewhere, HookInv, Ends
<1> QED  BY <1>3, <1>4, <1>5, <1>6 DEF Next

(* A pin is freed at the end, when the last thread of its callback has     *)
(* gone; and there is one thread when the callback is installed once.      *)
Over(f) == pins[f].callback = 0 \/ thread[<<f, pins[f].callback>>].at = "gone"
FreedInv ==
  /\ \A f \in Flags : pins[f].freed => Ends /\ Over(f)
  /\ "reinitialised" \notin happened => \A f \in Flags : pins[f].callback <= 1

LEMMA SameFreed ==
  ASSUME FreedInv, UNCHANGED <<pins, thread>>, happened \subseteq happened', Ends => Ends'
  PROVE  FreedInv'
  BY DEF FreedInv, Over

LEMMA HookKeepsFreed ==
  ASSUME PinTypes, HookInv, FreedInv, NEW t \in Threads, Hook(t), stage' = stage,
         Head(todo[t]).flag \in Flags
  PROVE  FreedInv'
<1> DEFINE f == Head(todo[t]).flag
           g == pins[f].callback + 1
<1>1. todo[t] # <<>> /\ Head(todo[t]).op = "hook"  BY DEF Hook, Is
<1>2. ~ Ends
  <2>1. \A A : Avoids(todo[t], A) => Head(todo[t]).op \notin A  BY <1>1, AvoidsRest
  <2> QED  BY <1>1, <2>1 DEF HookInv, Threads
<1>3. CASE Emulated  BY <1>3, SameFreed DEF Hook, Ends
<1>4. CASE ~ Emulated
  <2>1. /\ pins' = [pins EXCEPT ![f].callback = g, ![f].end = FALSE, ![f].wake = FALSE]
        /\ happened' = happened \cup (IF g > 1 THEN {"reinitialised"} ELSE {})
    BY <1>4 DEF Hook, Next1
  <2>2. g \in Nat  BY DEF PinTypes
  <2> HIDE DEF g
  <2>3. \A h \in Flags : /\ pins'[h].freed = pins[h].freed
                         /\ pins'[h].callback = IF h = f THEN g ELSE pins[h].callback
    <3> DEFINE r == [pins[f] EXCEPT !.callback = g, !.end = FALSE, !.wake = FALSE]
    <3>1. r.freed = pins[f].freed /\ r.callback = g
      BY SMTT(30) DEF PinTypes
    <3>2. pins' = [pins EXCEPT ![f] = r]  BY <2>1 DEF PinTypes
    <3> HIDE DEF r
    <3>3. \A h \in Flags : pins'[h] = IF h = f THEN r ELSE pins[h]  BY <3>2 DEF PinTypes
    <3> QED  BY <3>1, <3>3
  <2>4. "reinitialised" \notin happened' => g <= 1 /\ "reinitialised" \notin happened
    BY <2>1, <2>2
  <2> QED  BY <1>2, <2>2, <2>3, <2>4 DEF FreedInv
<1> QED  BY <1>3, <1>4

LEMMA UnhookKeepsFreed ==
  ASSUME PinTypes, HookInv, FreedInv, NEW t \in Threads, Unhook(t), stage' = stage
  PROVE  FreedInv'
<1> DEFINE f == Head(todo[t]).flag
<1>1. /\ todo[t] # <<>> /\ Head(todo[t]).op = "unhook" /\ thread' = thread
      /\ happened' = happened
  BY DEF Unhook, Is
<1>2. Ends
  <2>1. \A A : Avoids(todo[t], A) => Head(todo[t]).op \notin A  BY <1>1, AvoidsRest
  <2> QED  BY <1>1, <2>1 DEF HookInv, Threads
<1>3. \/ pins' = [pins EXCEPT ![f].end = TRUE, ![f].wake = TRUE]
      \/ Over(f) /\ pins' = [pins EXCEPT ![f].freed = TRUE]
  BY DEF Unhook, Next1, Over
<1> HIDE DEF f
<1>4. \A h \in Flags : /\ pins'[h].callback = pins[h].callback
                       /\ pins'[h].freed => pins[h].freed \/ (h = f /\ Over(f))
  BY <1>3 DEF PinTypes
<1> QED  BY <1>1, <1>2, <1>4 DEF FreedInv, Over, Ends

LEMMA CallbackKeepsFreed == ASSUME PinTypes, FreedInv, Callback PROVE FreedInv'
<1>1. PICK f \in Flags, g \in Generations :
        \/ CallbackBegins(f, g) \/ CallbackOrphaned(f, g) \/ CallbackTests(f, g)
        \/ CallbackWakes(f, g) \/ CallbackReads(f, g) \/ CallbackStores(f, g)
  BY DEF Callback
<1>2. pins' = pins /\ happened' = happened /\ stage' = stage
  BY <1>1 DEF CallbackBegins, CallbackOrphaned, CallbackTests, CallbackWakes, CallbackReads,
     CallbackStores, CallbackFrame
<1>3. thread' = thread \/ (thread[<<f, g>>].at # "gone"
                           /\ \E r : thread' = [thread EXCEPT ![<<f, g>>] = r])
  <2>1. CASE CallbackBegins(f, g)  BY <2>1 DEF CallbackBegins
  <2>2. CASE CallbackOrphaned(f, g)  BY <2>2 DEF CallbackOrphaned
  <2>3. CASE CallbackTests(f, g)  BY <2>3 DEF CallbackTests
  <2>4. CASE CallbackWakes(f, g)  BY <2>4 DEF CallbackWakes
  <2>5. CASE CallbackReads(f, g)  BY <2>5 DEF CallbackReads
  <2>6. CASE CallbackStores(f, g)  BY <2>6 DEF CallbackStores
  <2> QED  BY <1>1, <2>1, <2>2, <2>3, <2>4, <2>5, <2>6
<1>4. \A h \in Flags : Over(h) => Over(h)'
  <2> SUFFICES ASSUME NEW h \in Flags, Over(h), pins[h].callback # 0
               PROVE  thread'[<<h, pins[h].callback>>].at = "gone"
    BY <1>2 DEF Over
  <2>1. thread[<<h, pins[h].callback>>].at = "gone"  BY DEF Over
  <2>2. ASSUME NEW k, k \in DOMAIN thread, thread[k].at = "gone" PROVE thread'[k].at = "gone"
    BY <1>3, <2>2
  <2>3. <<h, pins[h].callback>> \in DOMAIN thread
    BY PinsAssumption DEF PinTypes, Generations
  <2> QED  BY <2>1, <2>2, <2>3
<1> QED  BY <1>2, <1>4 DEF FreedInv, Ends

LEMMA EdgeKeepsFreed == ASSUME PinTypes, FreedInv, NEW f \in Flags, Edge(f) PROVE FreedInv'
<1>1. /\ pins' = [pins EXCEPT ![f].level = 1 - @] /\ stage' = stage /\ happened \subseteq happened'
      /\ thread' = [k \in DOMAIN thread |->
           IF k[1] = f /\ thread[k].at \in {"poll", "test", "get", "put"}
           THEN [thread[k] EXCEPT !.pending = TRUE] ELSE thread[k]]
  BY DEF Edge
<1>2. \A h \in Flags : pins'[h].callback = pins[h].callback /\ pins'[h].freed = pins[h].freed
  BY <1>1 DEF PinTypes
<1>3. \A k \in DOMAIN thread : thread[k].at = "gone" => thread'[k].at = "gone"
  BY <1>1
<1>4. \A h \in Flags : Over(h) => Over(h)'
  <2> SUFFICES ASSUME NEW h \in Flags, Over(h), pins[h].callback # 0
               PROVE  thread'[<<h, pins[h].callback>>].at = "gone"
    BY <1>2 DEF Over
  <2>1. thread[<<h, pins[h].callback>>].at = "gone"  BY DEF Over
  <2>2. <<h, pins[h].callback>> \in DOMAIN thread
    BY PinsAssumption DEF PinTypes, Generations
  <2> QED  BY <1>3, <2>1, <2>2
<1> QED  BY <1>1, <1>2, <1>4 DEF FreedInv, Ends

LEMMA FreedInvKept ==
  ASSUME PinInv, SpiTypes, HookInv, FreedInv, Next, Alive' PROVE FreedInv'
<1>1. TodoInv /\ TxTypes /\ PinTypes  BY DEF PinInv
<1>2. CASE \E t \in Threads : StepOf(t)
  <2>1. PICK t \in Threads : StepOf(t)  BY <1>2
  <2>2. stage' = stage /\ happened \subseteq happened' /\ todo[t] # <<>>
    BY <1>1, <2>1, StepOfOne DEF Proceeds
  <2>3. CASE UNCHANGED <<pins, thread>>  BY <2>2, <2>3, SameFreed DEF Ends
  <2>4. CASE Head(todo[t]).op \in {"hook", "put"}
    <3>1. CASE Hook(t)
      <4>1. t = "main" /\ ~ Avoids(todo["main"], Pinning)
        <5>1. "hook" \in Pinning /\ Head(todo[t]).op = "hook"  BY <3>1 DEF Pinning, Hook, Is
        <5>2. Avoids(todo[t], Pinning) => Head(todo[t]).op \notin Pinning  BY <2>2, AvoidsRest
        <5> QED  BY <5>1, <5>2 DEF PinInv, ShapeInv
      <4>2. Head(todo[t]).flag \in Flags
        <5>1. Head(todo[t]).op \in Pinning  BY <3>1 DEF Pinning, Hook, Is
        <5> QED  BY <2>2, <4>1, <5>1, InstallsRest DEF PinInv, ShapeInv
      <4> QED  BY <1>1, <2>2, <3>1, <4>2, HookKeepsFreed
    <3>2. CASE PutFlag(t)  BY <2>3, <3>2 DEF PutFlag
    <3> QED  BY <2>1, <2>4, <3>1, <3>2, PinningSteps DEF Pinning
  <2>5. CASE Head(todo[t]).op \notin {"hook", "put"}
    <3>1. CASE Unhook(t)  BY <1>1, <2>2, <3>1, UnhookKeepsFreed
    <3> QED  BY <2>1, <2>3, <2>5, <3>1, StepKeepsFlags DEF FlagsKept
  <2> QED  BY <2>4, <2>5
<1>3. CASE Main
  <2>1. /\ UNCHANGED <<pins, thread>> /\ happened \subseteq happened'
        /\ \E p, s : Call(p, s) /\ Given(p, s)
    BY <1>3, MainGives DEF MainFrame, flagVars
  <2>2. ~ Ends  BY <2>1 DEF Given, Ends
  <2> QED  BY <2>1, <2>2, SameFreed
<1>4. CASE TxCycle \/ RxCycle \/ TimerStarts \/ TimerStops \/ TimerToggles
  BY <1>4, CyclesGive, SameFreed DEF GivenTo, Ends
<1>5. CASE Callback  BY <1>1, <1>5, CallbackKeepsFreed
<1>6. CASE \E f \in Flags : Edge(f)  BY <1>1, <1>6, EdgeKeepsFreed
<1>7. CASE Kernel
  <2>1. UNCHANGED <<pins, thread>>  BY <1>7 DEF Kernel, UserUnchanged, flagVars
  <2> QED  BY <1>7, <2>1, NotHere, SameFreed DEF Elsewhere, Ends
<1> QED  BY <1>2, <1>3, <1>4, <1>5, <1>6, <1>7 DEF Next

(* Who finds its pin freed is the thread of an earlier callback.           *)
LEMMA OrphanOfStep ==
  ASSUME PinInv, FreedInv, Orphaned PROVE "reinitialised" \in happened
<1> SUFFICES ASSUME "reinitialised" \notin happened PROVE FALSE  OBVIOUS
<1>1. PICK f \in Flags : \E g \in Generations : CallbackOrphaned(f, g)  BY DEF Orphaned
<1>2. PICK g \in Generations : CallbackOrphaned(f, g)  BY <1>1
<1>3. pins[f].freed /\ thread[<<f, g>>].at \in {"test", "get", "put", "poll"}
  BY <1>2 DEF CallbackOrphaned
<1>4. g <= pins[f].callback  BY <1>3 DEF PinInv, ThreadsInv
<1>5. pins[f].callback <= 1 /\ Over(f)  BY <1>3 DEF FreedInv
<1>6. g = pins[f].callback /\ pins[f].callback # 0
  <2>1. g \in Nat /\ g >= 1 /\ pins[f].callback \in Nat
    BY PinsAssumption DEF PinInv, PinTypes, Generations
  <2> QED  BY <1>4, <1>5, <2>1
<1> QED  BY <1>3, <1>5, <1>6 DEF Over

(* The driver is given its bits per word and its speed while the cape has  *)
(* its file open.                                                          *)
Settles == {"bits", "speed", "startTx", "startRx"}
DriverInv ==
  /\ \A t \in {"blink", "rx", "tx"} : Avoids(todo[t], Settles)
  /\ ~ Ready => Avoids(todo["main"], Settles) /\ Avoids(todo["comm"], Settles)

LEMMA GivenDriver ==
  ASSUME NEW p, NEW s, Given(p, s),
         s \notin {"spi", "probe", "created", "idle", "stopping"}
  PROVE  Avoids(p, Settles)
<1>1. Settles \subseteq Special \ {"unhook", "closeSpi", "ledsGone", "ledsReady"}
  BY DEF Settles, Special, DacSteps
<1>2. /\ Avoids(LedsCreate(version), Settles) /\ Avoids(LedsRelease(version), Settles)
      /\ Avoids(SpiRelease, Settles) /\ Avoids(TerminateCape, Settles)
      /\ Avoids(ReleaseCape, Settles) /\ Avoids(<<>>, Settles)
  BY <1>1, LedsAvoid, SpiReleaseAvoids, TerminateAvoids, ReleaseAvoids, AvoidsNone
<1>3. Avoids(PinOutSet("shutdown", 1), Settles)  BY <1>1, PinsAreCore, AvoidsFewer
<1>4. Avoids(Abort, Settles) /\ Avoids(TerminateCape \o ReleaseCape, Settles)
  BY <1>2, <1>3, AvoidsJoined DEF Abort
<1> QED  BY <1>2, <1>4, Zenon DEF Given

LEMMA DriverInvKept ==
  ASSUME TodoInv, TxTypes, CommInv, DriverInv, Next, Alive' PROVE DriverInv'
<1>1. CASE \E t \in Threads : StepOf(t)
  <2>1. PICK t \in Threads : StepOf(t)  BY <1>1
  <2>2. /\ Proceeds(t) /\ stage' = stage
        /\ \A u \in Threads : u # t => todo'[u] = todo[u]
    BY <2>1, StepOfOne DEF CommInv
  <2>3. Avoids(todo[t], Settles) => Avoids(todo'[t], Settles)
    BY <2>2, ProceedsAvoids DEF Settles
  <2>4. \A u \in Threads : Avoids(todo[u], Settles) => Avoids(todo'[u], Settles)
    BY <2>2, <2>3
  <2>5. Ready' => Ready  BY <2>2 DEF Ready
  <2>6. ~ Ready' => ~ Ready  BY <2>2 DEF Ready
  <2> QED  BY <2>4, <2>6 DEF DriverInv, Threads
<1>2. CASE Main
  <2>1. PICK p, s : Call(p, s) /\ Given(p, s)  BY <1>2, MainGives
  <2>2. /\ stage' = s /\ todo'["main"] = p
        /\ \A u \in Threads \ {"main"} : todo'[u] = todo[u]
    BY <2>1 DEF Call, TodoInv, Threads
  <2>3. ~ Ready' => Avoids(todo'["main"], Settles)  BY <2>1, <2>2, GivenDriver DEF Ready
  <2>4. ~ Ready' => Avoids(todo'["comm"], Settles)
    <3> SUFFICES ASSUME ~ Ready' PROVE Avoids(todo["comm"], Settles)
      BY <2>2 DEF Threads
    <3>1. Idle("comm")
      <4>1. stage # "idle" => Idle("comm")  BY <1>2, Between, MainGives DEF CommInv
      <4>2. stage = "idle" => Idle("comm")
        <5> SUFFICES ASSUME stage = "idle" PROVE Idle("comm")  OBVIOUS
        <5>1. s = "released"  BY <2>1, <2>2 DEF Given, Ready
        <5> QED  BY <2>1, <5>1 DEF Given, Quiescent
      <4> QED  BY <4>1, <4>2
    <3> QED  BY <3>1, AvoidsNone DEF Idle
  <2>5. \A t \in {"blink", "rx", "tx"} : Avoids(todo'[t], Settles)
    BY <2>2 DEF DriverInv, Threads
  <2> QED  BY <2>3, <2>4, <2>5 DEF DriverInv
<1>3. CASE TxCycle \/ RxCycle \/ TimerStarts \/ TimerStops \/ TimerToggles
  <2>1. CASE UNCHANGED <<todo, stage>>  BY <2>1 DEF DriverInv, Ready
  <2>2. CASE \E t \in Threads : \E p : GivenTo(t, p)
    <3>1. PICK t \in Threads : \E p : GivenTo(t, p)  BY <2>2
    <3>2. PICK p : GivenTo(t, p)  BY <3>1
    <3>3. t # "comm" => Avoids(p, Settles)
      <4>1. Settles \subseteq Special /\ "writei" \notin Settles /\ "transfer" \notin Settles
        BY DEF Settles, Special, DacSteps
      <4>2. DOMAIN FillNext = 1..tx.len  BY DEF FillNext
      <4>3. Avoids(FlushBuffer(FillNext), Settles)  BY <4>1, <4>2, FlushAvoids
      <4>4. Avoids(ToggleAppActivity, Settles) /\ \A d : Avoids(SetRxActivity(d), Settles)
        BY <4>1, LedsAreCore, AvoidsFewer
      <4> QED  BY <3>2, <4>3, <4>4 DEF GivenTo
    <3>4. t = "comm" => Ready  BY <3>2 DEF GivenTo, Ready
    <3>5. /\ Ready' = Ready /\ todo'["main"] = todo["main"]
          /\ \A u \in Threads : todo'[u] = IF u = t THEN p ELSE todo[u]
      BY <3>2 DEF GivenTo, TodoInv, Threads, Ready
    <3>6. \A u \in {"blink", "rx", "tx"} : Avoids(todo'[u], Settles)
      BY <3>3, <3>5 DEF DriverInv, Threads
    <3>7. ~ Ready => Avoids(todo'["comm"], Settles)
      BY <3>4, <3>5 DEF DriverInv, Threads
    <3> QED  BY <3>5, <3>6, <3>7 DEF DriverInv
  <2> QED  BY <1>3, <2>1, <2>2, CyclesGive
<1>4. CASE Callback \/ (\E f \in Flags : Edge(f)) \/ Kernel
  BY <1>4, NotHere DEF Elsewhere, DriverInv, Ready
<1> QED  BY <1>1, <1>2, <1>3, <1>4 DEF Next

(* The driver refuses what it is given only when it has been unbound.      *)
LEMMA DriverOfStep ==
  ASSUME CommInv, NodesInv, DriverInv, NEW t \in Threads, SetDriver(t), dead = "no",
         dead' = "driver"
  PROVE  "unbound" \in happened
<1>1. ~ Emulated /\ ~ Bound(filp["cape"])
  BY DEF SetDriver, Reaches
<1>2. todo[t] # <<>> /\ Head(todo[t]).op \in Settles  BY DEF SetDriver, Is, Settles
<1>3. ~ Avoids(todo[t], Settles)  BY <1>2, AvoidsRest
<1>4. Ready  BY <1>3 DEF DriverInv, Threads
<1> QED  BY <1>1, <1>4 DEF NodesInv, OpenInv

(* Until the program ends nothing has gone wrong, and then nothing moves.  *)
LEMMA EndsInit ==
  Init => Uses /\ SendInv /\ HookInv /\ FreedInv /\ DriverInv /\ dead = "no"
<1> SUFFICES ASSUME Init PROVE Uses /\ SendInv /\ HookInv /\ FreedInv /\ DriverInv /\ dead = "no"
  OBVIOUS
<1>1. \A t \in Threads : todo[t] = <<>>  BY DEF Init
<1>2. \A A : \A t \in Threads : Avoids(todo[t], A)  BY <1>1, AvoidsNone
<1>3. SendInv /\ HookInv /\ DriverInv /\ dead = "no"
  BY <1>2 DEF Init, SendInv, HookInv, DriverInv, Threads
<1>4. FreedInv  BY DEF Init, FreedInv
<1>5. Uses
  <2> SpidevInit  BY DEF Init
  <2> USE DEF SpidevInit
  <2>1. ~ fault  BY Zenon
  <2>2. \A d \in SpiDevices : removing[d] = 0  OBVIOUS
  <2>3. Removers /\ Unlinkings  BY <2>2 DEF Removers, Unlinkings
  <2>4. InCall  BY DEF InCall
  <2>5. ListedIsHeld  BY DEF ListedIsHeld, Ids
  <2> QED  BY <2>1, <2>3, <2>4, <2>5 DEF Uses
<1> QED  BY <1>3, <1>4, <1>5

(* What holds while the program lives.                                     *)
LivingInv == HookInv /\ FreedInv /\ DriverInv

LEMMA LivingInvKept ==
  PinInv /\ (Alive => CommInv) /\ (Alive => LivingInv) /\ [Next]_vars => (Alive => LivingInv)'
<1> SUFFICES ASSUME PinInv, Alive => CommInv, Alive => LivingInv, [Next]_vars, Alive'
             PROVE  LivingInv'
  OBVIOUS
<1>1. CASE UNCHANGED vars
  <2>1. UNCHANGED <<stage, todo, pins, thread, happened, dead, fault>>
    BY <1>1 DEF vars, flagVars, spidevVars
  <2>2. Alive  BY <2>1 DEF Alive
  <2>3. HookInv'  BY <2>1, <2>2 DEF LivingInv, HookInv, Ends
  <2>4. FreedInv'  BY <2>1, <2>2, SameFreed DEF LivingInv, Ends
  <2>5. DriverInv'  BY <2>1, <2>2 DEF LivingInv, DriverInv, Ready
  <2> QED  BY <2>3, <2>4, <2>5 DEF LivingInv
<1>2. CASE Next
  <2>1. Alive /\ CommInv /\ LivingInv  BY <1>2, NextIsAlive
  <2>2. SpiTypes /\ TodoInv /\ TxTypes  BY <2>1 DEF CommInv, PinInv
  <2>3. HookInv'  BY <1>2, <2>1, <2>2, HookInvKept DEF LivingInv
  <2>4. FreedInv'  BY <1>2, <2>1, <2>2, FreedInvKept DEF LivingInv
  <2>5. DriverInv'  BY <1>2, <2>1, <2>2, DriverInvKept DEF LivingInv
  <2> QED  BY <2>3, <2>4, <2>5 DEF LivingInv
<1> QED  BY <1>1, <1>2

Program(p) == \E S : p \in Seq(S)

LEMMA ProgramJoined ==
  ASSUME NEW p, NEW q, Program(p), Program(q)
  PROVE  /\ Program(p \o q) /\ Len(p) \in Nat /\ Len(q) \in Nat /\ Len(p \o q) = Len(p) + Len(q)
         /\ \A k \in 1..Len(p) : (p \o q)[k] = p[k]
         /\ \A k \in 1..Len(q) : (p \o q)[Len(p) + k] = q[k]
         /\ \A k \in 1..Len(p \o q) :
              k \in 1..Len(p) \/ (k - Len(p) \in 1..Len(q) /\ (p \o q)[k] = q[k - Len(p)])
<1>1. PICK S : p \in Seq(S)  BY DEF Program
<1>2. PICK T : q \in Seq(T)  BY DEF Program
<1>3. p \in Seq(S \cup T) /\ q \in Seq(S \cup T)  BY <1>1, <1>2
<1>4. p \o q \in Seq(S \cup T)  BY <1>3
<1> QED  BY <1>3, <1>4 DEF Program

LEMMA ProgramRest ==
  ASSUME NEW p, Program(p), p # <<>>
  PROVE  /\ Program(Tail(p)) /\ Len(p) \in Nat \ {0} /\ Len(Tail(p)) = Len(p) - 1
         /\ Head(p) = p[1] /\ \A k \in 1..Len(Tail(p)) : Tail(p)[k] = p[k + 1]
<1>1. PICK S : p \in Seq(S)  BY DEF Program
<1> QED  BY <1>1 DEF Program

LEMMA AvoidsIsProgram ==
  ASSUME NEW p, NEW A, Avoids(p, A) PROVE Program(p) /\ \A k \in 1..Len(p) : p[k].op \notin A
  BY AvoidsAt DEF Program, Avoids

(* The LEDs are changed under their lock: two accesses between it and the  *)
(* unlock.  Locks says so of what is left of a program, which is Inside    *)
(* when the unlock comes before any lock; Fresh says it of a whole one.    *)
Body == {"load", "store", "flip"}
Lockers == {"lock", "unlock"}
Unlocks(p, k) == k + 3 \in 1..Len(p) /\ p[k + 3].op = "unlock"
Locks(p) ==
  /\ Program(p)
  /\ \A k \in 1..Len(p) :
       /\ p[k].op = "lock" => Unlocks(p, k)
       /\ p[k].op = "unlock" =>
            /\ k > 1 => p[k - 1].op \in Body
            /\ k > 2 => p[k - 2].op \in Body
            /\ k > 3 => p[k - 3].op = "lock"
Inside(p) == \E k \in 1..Len(p) : k <= 3 /\ p[k].op = "unlock"
Fresh(p) == Locks(p) /\ ~ Inside(p)

LEMMA PlainIsFresh == ASSUME NEW p, Avoids(p, Lockers) PROVE Fresh(p)
  BY AvoidsIsProgram DEF Fresh, Locks, Inside, Lockers

LEMMA FreshJoined ==
  ASSUME NEW p, NEW q, Fresh(p), Fresh(q) PROVE Fresh(p \o q)
<1> DEFINE r == p \o q
           m == Len(p)
           n == Len(q)
<1>1. /\ Program(r) /\ m \in Nat /\ n \in Nat /\ Len(r) = m + n
      /\ \A k \in 1..m : r[k] = p[k]
      /\ \A k \in 1..n : r[m + k] = q[k]
      /\ \A k \in 1..Len(r) : k \in 1..m \/ (k - m \in 1..n /\ r[k] = q[k - m])
  BY ProgramJoined DEF Fresh, Locks
<1>2. \A k \in 1..m :
        /\ p[k].op = "lock" => k + 3 \in 1..m /\ p[k + 3].op = "unlock"
        /\ p[k].op = "unlock" =>
             k > 3 /\ p[k - 1].op \in Body /\ p[k - 2].op \in Body /\ p[k - 3].op = "lock"
  BY <1>1 DEF Fresh, Locks, Inside, Unlocks
<1>3. \A k \in 1..n :
        /\ q[k].op = "lock" => k + 3 \in 1..n /\ q[k + 3].op = "unlock"
        /\ q[k].op = "unlock" =>
             k > 3 /\ q[k - 1].op \in Body /\ q[k - 2].op \in Body /\ q[k - 3].op = "lock"
  BY <1>1 DEF Fresh, Locks, Inside, Unlocks
<1> HIDE DEF r, m, n
<1>4. ASSUME NEW k \in 1..Len(r)
      PROVE  /\ r[k].op = "lock" => Unlocks(r, k)
             /\ r[k].op = "unlock" =>
                  k > 3 /\ r[k - 1].op \in Body /\ r[k - 2].op \in Body /\ r[k - 3].op = "lock"
  <2>1. CASE k \in 1..m
    <3>1. r[k] = p[k] /\ k \in 1..m  BY <1>1, <2>1
    <3>2. r[k].op = "lock" => Unlocks(r, k)
      <4> SUFFICES ASSUME r[k].op = "lock" PROVE Unlocks(r, k)  OBVIOUS
      <4>1. k + 3 \in 1..m /\ p[k + 3].op = "unlock"  BY <1>2, <3>1
      <4>2. r[k + 3] = p[k + 3] /\ k + 3 \in 1..Len(r)  BY <1>1, <4>1
      <4> QED  BY <4>1, <4>2 DEF Unlocks
    <3>3. r[k].op = "unlock" =>
            k > 3 /\ r[k - 1].op \in Body /\ r[k - 2].op \in Body /\ r[k - 3].op = "lock"
      <4> SUFFICES ASSUME r[k].op = "unlock"
                   PROVE  k > 3 /\ r[k - 1].op \in Body /\ r[k - 2].op \in Body
                          /\ r[k - 3].op = "lock"
        OBVIOUS
      <4>1. k > 3 /\ p[k - 1].op \in Body /\ p[k - 2].op \in Body /\ p[k - 3].op = "lock"
        BY <1>2, <3>1
      <4>2. k - 1 \in 1..m /\ k - 2 \in 1..m /\ k - 3 \in 1..m  BY <1>1, <3>1, <4>1
      <4>3. r[k - 1] = p[k - 1] /\ r[k - 2] = p[k - 2] /\ r[k - 3] = p[k - 3]  BY <1>1, <4>2
      <4> QED  BY <4>1, <4>3
    <3> QED  BY <3>2, <3>3
  <2>2. CASE k - m \in 1..n /\ r[k] = q[k - m]
    <3> DEFINE i == k - m
    <3>1. r[k] = q[i] /\ i \in 1..n /\ k = m + i  BY <1>1, <2>2
    <3> HIDE DEF i
    <3>2. r[k].op = "lock" => Unlocks(r, k)
      <4> SUFFICES ASSUME r[k].op = "lock" PROVE Unlocks(r, k)  OBVIOUS
      <4>1. i + 3 \in 1..n /\ q[i + 3].op = "unlock"  BY <1>3, <3>1
      <4>2. m + (i + 3) = k + 3 /\ k + 3 \in 1..Len(r)  BY <1>1, <3>1, <4>1
      <4>3. r[m + (i + 3)] = q[i + 3]  BY <1>1, <4>1
      <4> QED  BY <4>1, <4>2, <4>3 DEF Unlocks
    <3>3. r[k].op = "unlock" =>
            k > 3 /\ r[k - 1].op \in Body /\ r[k - 2].op \in Body /\ r[k - 3].op = "lock"
      <4> SUFFICES ASSUME r[k].op = "unlock"
                   PROVE  k > 3 /\ r[k - 1].op \in Body /\ r[k - 2].op \in Body
                          /\ r[k - 3].op = "lock"
        OBVIOUS
      <4>1. i > 3 /\ q[i - 1].op \in Body /\ q[i - 2].op \in Body /\ q[i - 3].op = "lock"
        BY <1>3, <3>1
      <4>2. i - 1 \in 1..n /\ i - 2 \in 1..n /\ i - 3 \in 1..n /\ k > 3
        BY <1>1, <3>1, <4>1
      <4>3. r[m + (i - 1)] = q[i - 1] /\ r[m + (i - 2)] = q[i - 2]
            /\ r[m + (i - 3)] = q[i - 3]
        BY <1>1, <4>2
      <4>4. m + (i - 1) = k - 1 /\ m + (i - 2) = k - 2 /\ m + (i - 3) = k - 3
        BY <1>1, <3>1
      <4> QED  BY <4>1, <4>2, <4>3, <4>4
    <3> QED  BY <3>2, <3>3
  <2> QED  BY <1>1, <2>1, <2>2
<1>5. Locks(r)  BY <1>1, <1>4 DEF Locks
<1>6. ~ Inside(r)  BY <1>4 DEF Inside
<1>7. Fresh(r)  BY <1>5, <1>6 DEF Fresh
<1> QED  BY <1>7 DEF r

LEMMA WrittenLocked ==
  ASSUME NEW a, NEW b, NEW c, NEW d PROVE (<<a>> \o <<b, c>>) \o <<d>> = <<a, b, c, d>>
<1> DEFINE S == {a, b, c, d}
<1>1. <<a, b, c>> \in Seq(S) /\ <<d>> \in Seq(S) /\ <<a, b, c, d>> \in Seq(S)  OBVIOUS
<1>2. SameSteps(<<a, b, c>> \o <<d>>, <<a, b, c, d>>, S)  BY <1>1 DEF SameSteps
<1> QED  BY <1>2, AreSame, Written3

LEMMA LockedIsFresh ==
  ASSUME NEW a, NEW b, a.op \in Body, b.op \in Body PROVE Fresh(Locked(<<a, b>>))
<1> DEFINE s == [op |-> "lock"]
           u == [op |-> "unlock"]
           r == <<s, a, b, u>>
<1>1. Locked(<<a, b>>) = r  BY WrittenLocked DEF Locked, Step
<1>2. s.op = "lock" /\ u.op = "unlock"  OBVIOUS
<1> HIDE DEF s, u
<1>3. r \in Seq({s, a, b, u}) /\ Len(r) = 4 /\ r[1] = s /\ r[2] = a /\ r[3] = b /\ r[4] = u
  OBVIOUS
<1> HIDE DEF r
<1>4. Program(r)  BY <1>3 DEF Program
<1>5. \A k \in 1..Len(r) : k = 1 \/ k = 2 \/ k = 3 \/ k = 4  BY <1>3
<1>6. ASSUME NEW k \in 1..Len(r)
      PROVE  /\ r[k].op = "lock" => k = 1
             /\ r[k].op = "unlock" => k = 4
  BY <1>2, <1>3, <1>5 DEF Body
<1>7. Locks(r)
  <2>1. Unlocks(r, 1)  BY <1>2, <1>3 DEF Unlocks
  <2>2. r[4 - 1].op \in Body /\ r[4 - 2].op \in Body /\ r[4 - 3].op = "lock"  BY <1>2, <1>3
  <2> QED  BY <1>4, <1>6, <2>1, <2>2 DEF Locks
<1>8. ~ Inside(r)  BY <1>6 DEF Inside
<1>9. Fresh(r)  BY <1>7, <1>8 DEF Fresh
<1> QED  BY <1>1, <1>9

LEMMA LedsAreFresh ==
  ASSUME NEW v, NEW on
  PROVE  /\ Fresh(ToggleAppActivity) /\ Fresh(SetAppActivity(v, on))
         /\ Fresh(SetTxActivity(on)) /\ Fresh(SetRxActivity(on))
  BY LockedIsFresh DEF ToggleAppActivity, SetAppActivity, SetTxActivity, SetRxActivity,
     PinOutSet, PinOutToggle, Body

(* What is left of a program after a step of it.                           *)
LEMMA LocksRest ==
  ASSUME NEW p, Locks(p), p # <<>>
  PROVE  /\ Locks(Tail(p))
         /\ Head(p).op = "lock" => ~ Inside(p) /\ Inside(Tail(p))
         /\ Head(p).op = "unlock" => Inside(p) /\ ~ Inside(Tail(p))
         /\ Head(p).op \notin Lockers => (Inside(Tail(p)) <=> Inside(p))
         /\ Inside(p) => Head(p).op \in Body \cup {"unlock"}
<1> DEFINE n == Len(p)
           q == Tail(p)
<1>1. /\ n \in Nat \ {0} /\ Len(q) = n - 1 /\ Head(p) = p[1] /\ Program(q)
      /\ \A k \in 1..Len(q) : q[k] = p[k + 1]
  BY ProgramRest DEF Locks
<1>2. \A k \in 1..n :
        /\ p[k].op = "lock" => k + 3 \in 1..n /\ p[k + 3].op = "unlock"
        /\ p[k].op = "unlock" =>
             /\ k > 1 => p[k - 1].op \in Body
             /\ k > 2 => p[k - 2].op \in Body
             /\ k > 3 => p[k - 3].op = "lock"
  BY DEF Locks, Unlocks
<1> HIDE DEF n, q
<1>3. \A k \in 1..Len(q) : k + 1 \in 1..n  BY <1>1
<1>4. Locks(q)
  <2>1. ASSUME NEW k \in 1..Len(q), q[k].op = "lock" PROVE Unlocks(q, k)
    <3>1. (k + 1) + 3 \in 1..n /\ p[(k + 1) + 3].op = "unlock"  BY <1>1, <1>2, <1>3, <2>1
    <3>2. k + 3 \in 1..Len(q) /\ (k + 3) + 1 = (k + 1) + 3  BY <1>1, <3>1
    <3> QED  BY <1>1, <3>1, <3>2 DEF Unlocks
  <2>2. ASSUME NEW k \in 1..Len(q), q[k].op = "unlock"
        PROVE  /\ k > 1 => q[k - 1].op \in Body
               /\ k > 2 => q[k - 2].op \in Body
               /\ k > 3 => q[k - 3].op = "lock"
    <3>1. p[k + 1].op = "unlock" /\ k + 1 \in 1..n  BY <1>1, <1>3, <2>2
    <3>2. k > 1 => p[(k + 1) - 1].op \in Body  BY <1>2, <3>1
    <3>3. k > 2 => p[(k + 1) - 2].op \in Body  BY <1>2, <3>1
    <3>4. k > 3 => p[(k + 1) - 3].op = "lock"  BY <1>2, <3>1
    <3>5. k > 1 => q[k - 1] = p[(k + 1) - 1]
      <4> SUFFICES ASSUME k > 1 PROVE q[k - 1] = p[(k + 1) - 1]  OBVIOUS
      <4>1. k - 1 \in 1..Len(q) /\ (k - 1) + 1 = (k + 1) - 1  BY <1>1
      <4> QED  BY <1>1, <4>1
    <3>6. k > 2 => q[k - 2] = p[(k + 1) - 2]
      <4> SUFFICES ASSUME k > 2 PROVE q[k - 2] = p[(k + 1) - 2]  OBVIOUS
      <4>1. k - 2 \in 1..Len(q) /\ (k - 2) + 1 = (k + 1) - 2  BY <1>1
      <4> QED  BY <1>1, <4>1
    <3>7. k > 3 => q[k - 3] = p[(k + 1) - 3]
      <4> SUFFICES ASSUME k > 3 PROVE q[k - 3] = p[(k + 1) - 3]  OBVIOUS
      <4>1. k - 3 \in 1..Len(q) /\ (k - 3) + 1 = (k + 1) - 3  BY <1>1
      <4> QED  BY <1>1, <4>1
    <3> QED  BY <3>2, <3>3, <3>4, <3>5, <3>6, <3>7
  <2> QED  BY <1>1, <2>1, <2>2 DEF Locks
<1>5. 1 \in 1..n  BY <1>1
<1>6. ASSUME NEW k \in 1..n, k <= 3, p[k].op = "unlock"
      PROVE  p[1].op \in Body \cup {"unlock"}
  <2>1. k = 1 \/ k = 2 \/ k = 3  BY <1>1, <1>6
  <2>2. CASE k = 1  BY <1>6, <2>2
  <2>3. CASE k = 2
    <3>1. p[2 - 1].op \in Body  BY <1>2, <1>6, <2>3
    <3> QED  BY <3>1
  <2>4. CASE k = 3
    <3>1. p[3 - 2].op \in Body  BY <1>2, <1>6, <2>4
    <3> QED  BY <3>1
  <2> QED  BY <2>1, <2>2, <2>3, <2>4
<1>7. Inside(p) => Head(p).op \in Body \cup {"unlock"}  BY <1>1, <1>6 DEF Inside, n
<1>8. ASSUME NEW k \in 1..Len(q), k <= 3, q[k].op = "unlock"
      PROVE  /\ p[1].op # "unlock"
             /\ p[1].op # "lock" => \E j \in 1..n : j <= 3 /\ p[j].op = "unlock"
  <2>1. k + 1 \in 1..n /\ p[k + 1].op = "unlock"  BY <1>1, <1>3, <1>8
  <2>2. k = 1 \/ k = 2 \/ k = 3  BY <1>8
  <2>3. CASE k = 1
    <3>1. p[2 - 1].op \in Body  BY <1>2, <2>1, <2>3
    <3>2. p[1].op # "unlock"  BY <3>1 DEF Body
    <3> QED  BY <2>1, <2>3, <3>2
  <2>4. CASE k = 2
    <3>1. p[3 - 2].op \in Body  BY <1>2, <2>1, <2>4
    <3>2. p[1].op # "unlock"  BY <3>1 DEF Body
    <3> QED  BY <2>1, <2>4, <3>2
  <2>5. CASE k = 3
    <3>1. p[4 - 3].op = "lock"  BY <1>2, <2>1, <2>5
    <3> QED  BY <3>1
  <2> QED  BY <2>2, <2>3, <2>4, <2>5
<1>9. ASSUME NEW k \in 1..n, k <= 3, p[k].op = "unlock", p[1].op # "unlock"
      PROVE  \E j \in 1..Len(q) : j <= 3 /\ q[j].op = "unlock"
  <2>1. k - 1 \in 1..Len(q) /\ k - 1 <= 3 /\ (k - 1) + 1 = k  BY <1>1, <1>9
  <2> QED  BY <1>1, <1>9, <2>1
<1>10. Inside(q) <=> \E k \in 1..Len(q) : k <= 3 /\ q[k].op = "unlock"  BY DEF Inside
<1>11. Inside(p) <=> \E k \in 1..n : k <= 3 /\ p[k].op = "unlock"  BY DEF Inside, n
<1>12. p[1].op = "lock" => Inside(q)
  <2> SUFFICES ASSUME p[1].op = "lock" PROVE Inside(q)  OBVIOUS
  <2>1. 1 + 3 \in 1..n /\ p[1 + 3].op = "unlock"  BY <1>2, <1>5
  <2>2. 3 \in 1..Len(q) /\ q[3] = p[3 + 1]  BY <1>1, <2>1
  <2> QED  BY <1>10, <2>1, <2>2
<1>13. p[1].op = "unlock" => Inside(p)  BY <1>5, <1>11
<1>14. p[1].op = "unlock" => ~ Inside(q)  BY <1>8, <1>10
<1>15. p[1].op = "lock" => ~ Inside(p)  BY <1>1, <1>7 DEF Body
<1>16. p[1].op \notin Lockers => (Inside(q) <=> Inside(p))
  BY <1>8, <1>9, <1>10, <1>11 DEF Lockers
<1>17. /\ Locks(q)
       /\ Head(p).op = "lock" => ~ Inside(p) /\ Inside(q)
       /\ Head(p).op = "unlock" => Inside(p) /\ ~ Inside(q)
       /\ Head(p).op \notin Lockers => (Inside(q) <=> Inside(p))
  BY <1>1, <1>4, <1>12, <1>13, <1>14, <1>15, <1>16
<1> QED  BY <1>7, <1>17 DEF q

(* What does not change the LEDs takes no lock.                            *)
LEMMA PlainCalls ==
  ASSUME NEW x, NEW v
  PROVE  /\ Avoids(PinOutSet(v, x), Lockers) /\ Avoids(SetDacMode(x), Lockers)
         /\ Avoids(ClearOverloads, Lockers) /\ Avoids(GetOverloads, Lockers)
         /\ Avoids(ActivateBlocks(x), Lockers) /\ Avoids(DisableAll, Lockers)
         /\ Avoids(Configure(x), Lockers) /\ Avoids(SetCalibrationMode(x), Lockers)
         /\ Avoids(SetStandby(x), Lockers) /\ Avoids(AfeProbe, Lockers)
<1>1. \A a, b : Avoids(PinOutSet(a, b), Lockers)  BY AvoidsTwo DEF PinOutSet, Lockers
<1>2. ASSUME NEW r, NEW m, NEW c
      PROVE  /\ Avoids(WriteCommand(r, c), Lockers) /\ Avoids(ReadCommand(r), Lockers)
             /\ Avoids(WriteBack(r, m, c), Lockers) /\ Avoids(Expect(m, c), Lockers)
             /\ Avoids(Remember(r, c), Lockers)
  <2>1. Avoids(WriteCommand(r, c), Lockers)  BY AvoidsOne DEF WriteCommand, Lockers
  <2>2. Avoids(ReadCommand(r), Lockers)  BY AvoidsTwo DEF ReadCommand, Lockers
  <2>3. Avoids(WriteBack(r, m, c), Lockers)  BY AvoidsOne DEF WriteBack, Lockers
  <2>4. Avoids(Expect(m, c), Lockers)  BY AvoidsOne DEF Expect, Lockers
  <2>5. Avoids(Remember(r, c), Lockers)  BY AvoidsOne DEF Remember, Lockers
  <2> QED  BY <2>1, <2>2, <2>3, <2>4, <2>5
<1>3. Avoids(SetDacMode(x), Lockers)
  <2>1. Avoids(<<[op |-> "dacMode", on |-> x], [op |-> "bits", on |-> x],
                 [op |-> "speed", on |-> x]>>, Lockers)
    BY AvoidsThree DEF Lockers
  <2> QED  BY <1>1, <2>1, AvoidsJoined DEF SetDacMode
<1>4. Avoids(ClearOverloads, Lockers) /\ Avoids(GetOverloads, Lockers)
  BY <1>2, AvoidsJoined DEF ClearOverloads, GetOverloads
<1>5. ASSUME NEW r, NEW c PROVE Avoids(SetRegValue(r, c), Lockers)
  BY <1>2, AvoidsJoined DEF SetRegValue
<1>6. ASSUME NEW r, NEW m, NEW c
      PROVE  Avoids(RegSetMask(r, m, c), Lockers) /\ Avoids(SetGains(m, c), Lockers)
  BY <1>2, AvoidsJoined DEF RegSetMask, SetGains
<1>7. ASSUME NEW b PROVE Avoids(ActivateBlocks(b), Lockers)
  BY <1>2, <1>4, <1>5, AvoidsJoined DEF ActivateBlocks
<1>8. Avoids(DisableAll, Lockers)  BY <1>7 DEF DisableAll
<1>9. Avoids(Configure(x), Lockers)  BY <1>2, <1>6, AvoidsJoined DEF Configure
<1>10. Avoids(SetCalibrationMode(x), Lockers)
  BY <1>2, <1>4, <1>6, AvoidsJoined DEF SetCalibrationMode
<1>11. Avoids(SetStandby(x), Lockers)  BY <1>1, <1>2, AvoidsJoined DEF SetStandby
<1>12. Avoids(AfeProbe, Lockers)  BY <1>1, <1>2, AvoidsJoined DEF AfeProbe
<1> QED  BY <1>1, <1>3, <1>4, <1>7, <1>8, <1>9, <1>10, <1>11, <1>12

LEMMA PlainEnds ==
  ASSUME NEW s
  PROVE  /\ Avoids(LedsCreate(version), Lockers) /\ Avoids(LedsRelease(version), Lockers)
         /\ Avoids(SpiRelease, Lockers) /\ Avoids(Abort, Lockers)
         /\ Avoids(InitializeCape(s), Lockers) /\ Avoids(TerminateCape, Lockers)
         /\ Avoids(TerminateCape \o ReleaseCape, Lockers)
<1>1. \A a, b : Avoids(PinOutSet(a, b), Lockers)  BY PlainCalls
<1>2. \A op : op \notin Lockers => Avoids(Step(op), Lockers)  BY StepAvoids
<1>3. Avoids(LedsCreate(version), Lockers) /\ Avoids(LedsRelease(version), Lockers)
  <2>1. Avoids(Step("ledsReady"), Lockers) /\ Avoids(Step("ledsGone"), Lockers)
    BY <1>2 DEF Lockers
  <2> QED  BY <1>1, <2>1, AvoidsJoined DEF LedsCreate, LedsRelease
<1>4. Avoids(SpiRelease, Lockers)
  <2>1. Avoids(Step("closeSpi"), Lockers)  BY <1>2 DEF Lockers
  <2> QED  BY <1>1, <2>1, AvoidsJoined DEF SpiRelease
<1>5. Avoids(Abort, Lockers)  BY <1>1, <1>3, <1>4, AvoidsJoined DEF Abort
<1>6. /\ Avoids(SetStandby(0), Lockers) /\ Avoids(SetStandby(1), Lockers)
      /\ Avoids(DisableAll, Lockers) /\ Avoids(Configure(s), Lockers)
      /\ Avoids(SetCalibrationMode(s.calibration), Lockers)
  BY PlainCalls
<1>7. Avoids(InitializeCape(s), Lockers)
  <2>1. Avoids(Step("configure"), Lockers)  BY <1>2 DEF Lockers
  <2>2. Avoids(SetFlagsCallback(FlagPins), Lockers)  BY HookingAvoids DEF Lockers
  <2> QED  BY <1>6, <2>1, <2>2, AvoidsJoined DEF InitializeCape
<1>8. Avoids(TerminateCape, Lockers)  BY <1>6, AvoidsJoined DEF TerminateCape
<1>9. Avoids(ReleaseCape, Lockers)
  <2> DEFINE u == [k \in 1..Len(FlagPins) |-> [op |-> "unhook", flag |-> FlagPins[k]]]
  <2>1. Avoids(u, Lockers)  BY UnhookingAvoids DEF Lockers
  <2> HIDE DEF u
  <2>2. AfeRelease(1, FlagPins) = SetStandby(0) \o DisableAll \o SetStandby(1) \o u
    BY DEF AfeRelease, u
  <2>3. Avoids(AfeRelease(1, FlagPins), Lockers)  BY <1>6, <2>1, <2>2, AvoidsJoined
  <2> QED  BY <1>3, <1>4, <2>3, AvoidsJoined DEF ReleaseCape
<1> QED  BY <1>3, <1>4, <1>5, <1>7, <1>8, <1>9, AvoidsJoined

(* The programs: each takes the lock it releases, and before the LEDs are  *)
(* there or after they are gone none takes it.                             *)
LEMMA StepIsFresh == ASSUME NEW op, op \notin Lockers PROVE Fresh(Step(op))
  BY StepAvoids, PlainIsFresh

LEMMA DeactivateIsFresh ==
  ASSUME NEW b PROVE Fresh(Deactivate(b)) /\ Fresh(StopCommunication)
<1>1. \A op \in {"joinRx", "requestStop", "joinTx", "commOff", "supervisorOff"} : Fresh(Step(op))
  BY StepIsFresh DEF Lockers
<1>2. \A x, y : /\ Fresh(SetRxActivity(x)) /\ Fresh(SetTxActivity(x)) /\ Fresh(SetAppActivity(x, y))
               /\ Fresh(SetDacMode(x)) /\ Fresh(DisableAll)
  BY LedsAreFresh, PlainCalls, PlainIsFresh
<1>3. Fresh(StopCommunication)  BY <1>1, <1>2, FreshJoined DEF StopCommunication
<1>4. Fresh(IF b THEN StopCommunication ELSE <<>>)  BY <1>3, AvoidsNone, PlainIsFresh
<1> QED  BY <1>1, <1>2, <1>3, <1>4, FreshJoined DEF Deactivate

LEMMA AbandonIsFresh == Fresh(AbandonTx) /\ Fresh(AbandonRx)
<1>1. Fresh(Step("requestStop")) /\ Fresh(Step("joinTx"))  BY StepIsFresh DEF Lockers
<1>2. Fresh(SetTxActivity(0)) /\ Fresh(SetDacMode(0)) /\ Fresh(DisableAll)
  BY LedsAreFresh, PlainCalls, PlainIsFresh
<1>3. Fresh(AbandonTx)  BY <1>2, DeactivateIsFresh, FreshJoined DEF AbandonTx
<1> QED  BY <1>1, <1>2, <1>3, FreshJoined DEF AbandonRx

LEMMA ActivateIsFresh == Fresh(Activate) /\ Fresh(StartCommunication)
<1>1. \A op \in {"supervisorOn", "startTx", "startRx", "commOn"} : Fresh(Step(op))
  BY StepIsFresh DEF Lockers
<1>2. Fresh(SetTxActivity(1)) /\ Fresh(SetDacMode(1)) /\ Fresh(ActivateBlocks(settings.blocks))
  BY LedsAreFresh, PlainCalls, PlainIsFresh
<1>3. Fresh(StartCommunication)  BY <1>1, <1>2, FreshJoined DEF StartCommunication
<1>4. Fresh(IF settings.periodic THEN <<>> ELSE StartCommunication)
  BY <1>3, AvoidsNone, PlainIsFresh
<1> QED  BY <1>1, <1>3, <1>4, FreshJoined DEF Activate

LEMMA GivenIsFresh ==
  ASSUME NEW p, NEW s, Given(p, s)
  PROVE  /\ Fresh(p)
         /\ s \notin {"spi", "probe", "created", "idle", "stopping"} => Avoids(p, {"lock"})
<1>1. Fresh(Activate) /\ Fresh(Deactivate(comm))  BY ActivateIsFresh, DeactivateIsFresh
<1>2. \A q : Avoids(q, Lockers) => Fresh(q) /\ Avoids(q, {"lock"})
  BY PlainIsFresh, AvoidsFewer DEF Lockers
<1>3. Avoids(<<>>, Lockers)  BY AvoidsNone
<1>4. /\ Avoids(SetDacMode(0), Lockers) /\ Avoids(AfeProbe, Lockers)
      /\ Avoids(Configure(Defaults), Lockers) /\ Avoids(ClearOverloads, Lockers)
      /\ Avoids(GetOverloads, Lockers)
  BY PlainCalls
<1>5. /\ Avoids(LedsCreate(version), Lockers) /\ Avoids(LedsRelease(version), Lockers)
      /\ Avoids(Abort, Lockers) /\ Avoids(TerminateCape, Lockers)
      /\ Avoids(TerminateCape \o ReleaseCape, Lockers)
      /\ \A x : Avoids(InitializeCape(x), Lockers)
  BY PlainEnds
<1>6. \/ Avoids(p, Lockers)
      \/ s \in {"idle", "stopping"} /\ (p = Activate \/ p = Deactivate(comm))
  BY <1>3, <1>4, <1>5, Zenon DEF Given
<1> QED  BY <1>1, <1>2, <1>6

(* The LEDs come and go once.                                              *)
Ledges == {"ledsReady", "ledsGone"}
Once(p) ==
  /\ Program(p)
  /\ \A j, k \in 1..Len(p) : p[j].op = "ledsGone" /\ p[k].op = "ledsGone" => j = k
Makes(p) == Program(p) /\ \E k \in 1..Len(p) : p[k].op = "ledsReady"

LEMMA AvoidsIsOnce == ASSUME NEW p, Avoids(p, {"ledsGone"}) PROVE Once(p)
  BY AvoidsIsProgram DEF Once

LEMMA OnceJoined ==
  ASSUME NEW p, NEW q, \/ Once(p) /\ Avoids(q, {"ledsGone"})
                       \/ Avoids(p, {"ledsGone"}) /\ Once(q)
  PROVE  Once(p \o q)
<1> DEFINE r == p \o q
           m == Len(p)
           n == Len(q)
<1>1. Program(p) /\ Program(q)  BY AvoidsIsProgram DEF Once
<1>2. /\ Program(r) /\ m \in Nat /\ n \in Nat /\ Len(r) = m + n
      /\ \A k \in 1..m : r[k] = p[k]
      /\ \A k \in 1..Len(r) : k \in 1..m \/ (k - m \in 1..n /\ r[k] = q[k - m])
  BY <1>1, ProgramJoined
<1>3. \/ /\ \A j, k \in 1..m : p[j].op = "ledsGone" /\ p[k].op = "ledsGone" => j = k
         /\ \A k \in 1..n : q[k].op # "ledsGone"
      \/ /\ \A j, k \in 1..n : q[j].op = "ledsGone" /\ q[k].op = "ledsGone" => j = k
         /\ \A k \in 1..m : p[k].op # "ledsGone"
  BY AvoidsIsProgram DEF Once
<1> HIDE DEF r, m, n
<1>4. ASSUME NEW j \in 1..Len(r), NEW k \in 1..Len(r), r[j].op = "ledsGone", r[k].op = "ledsGone"
      PROVE  j = k
  <2>1. CASE /\ \A i, l \in 1..m : p[i].op = "ledsGone" /\ p[l].op = "ledsGone" => i = l
             /\ \A l \in 1..n : q[l].op # "ledsGone"
    <3>1. j \in 1..m /\ k \in 1..m  BY <1>2, <1>4, <2>1
    <3> QED  BY <1>2, <1>4, <2>1, <3>1
  <2>2. CASE /\ \A i, l \in 1..n : q[i].op = "ledsGone" /\ q[l].op = "ledsGone" => i = l
             /\ \A l \in 1..m : p[l].op # "ledsGone"
    <3>1. j \notin 1..m /\ k \notin 1..m  BY <1>2, <1>4, <2>2
    <3>2. /\ j - m \in 1..n /\ r[j] = q[j - m]
          /\ k - m \in 1..n /\ r[k] = q[k - m]
      BY <1>2, <3>1
    <3>3. j - m = k - m  BY <1>4, <2>2, <3>2
    <3> QED  BY <1>2, <3>3
  <2> QED  BY <1>3, <2>1, <2>2
<1>5. Once(r)  BY <1>2, <1>4 DEF Once
<1> QED  BY <1>5 DEF r

LEMMA OnceRest ==
  ASSUME NEW p, Once(p), p # <<>>
  PROVE  Once(Tail(p)) /\ (Head(p).op = "ledsGone" => Avoids(Tail(p), {"ledsGone"}))
<1> DEFINE n == Len(p)
           q == Tail(p)
<1>1. /\ n \in Nat \ {0} /\ Len(q) = n - 1 /\ Head(p) = p[1] /\ Program(q)
      /\ \A k \in 1..Len(q) : q[k] = p[k + 1]
  BY ProgramRest DEF Once
<1>2. \A j, k \in 1..n : p[j].op = "ledsGone" /\ p[k].op = "ledsGone" => j = k  BY DEF Once
<1>3. q \in Seq({q[k] : k \in 1..Len(q)})
  <2>1. PICK S : q \in Seq(S)  BY <1>1 DEF Program
  <2> HIDE DEF q
  <2>2. Len(q) \in Nat /\ q = [k \in 1..Len(q) |-> q[k]]  BY <2>1
  <2>3. \A k \in 1..Len(q) : q[k] \in {q[l] : l \in 1..Len(q)}  OBVIOUS
  <2> DEFINE V == {q[k] : k \in 1..Len(q)}
  <2>4. \A k \in 1..Len(q) : q[k] \in V  BY <2>3
  <2> HIDE DEF V
  <2>5. q \in Seq(V)  BY <2>2, <2>4
  <2> QED  BY <2>5 DEF V
<1> HIDE DEF n, q
<1>4. \A k \in 1..Len(q) : k + 1 \in 1..n /\ k + 1 # 1 /\ 1 \in 1..n  BY <1>1
<1>5. ASSUME NEW j \in 1..Len(q), NEW k \in 1..Len(q), q[j].op = "ledsGone", q[k].op = "ledsGone"
      PROVE  j = k
  <2>1. j + 1 = k + 1  BY <1>1, <1>2, <1>4, <1>5
  <2> QED  BY <1>1, <2>1
<1>6. Head(p).op = "ledsGone" => \A k \in 1..Len(q) : q[k].op # "ledsGone"
  BY <1>1, <1>2, <1>4
<1>7. Once(q)  BY <1>1, <1>5 DEF Once
<1>8. Head(p).op = "ledsGone" => Avoids(q, {"ledsGone"})
  <2> SUFFICES ASSUME Head(p).op = "ledsGone" PROVE Avoids(q, {"ledsGone"})  OBVIOUS
  <2>1. \A s \in {q[k] : k \in 1..Len(q)} : s.op \notin {"ledsGone"}  BY <1>6
  <2> QED  BY <1>3, <2>1 DEF Avoids
<1> QED  BY <1>7, <1>8 DEF q

LEMMA MakesRest ==
  ASSUME NEW p, Makes(p), p # <<>>, Head(p).op # "ledsReady" PROVE Makes(Tail(p))
<1> DEFINE n == Len(p)
           q == Tail(p)
<1>1. /\ n \in Nat \ {0} /\ Len(q) = n - 1 /\ Head(p) = p[1] /\ Program(q)
      /\ \A k \in 1..Len(q) : q[k] = p[k + 1]
  BY ProgramRest DEF Makes
<1>2. PICK k \in 1..n : p[k].op = "ledsReady"  BY DEF Makes
<1> HIDE DEF n, q
<1>3. k - 1 \in 1..Len(q) /\ (k - 1) + 1 = k  BY <1>1, <1>2
<1>4. q[k - 1] = p[k]  BY <1>1, <1>3
<1>5. Makes(q)  BY <1>1, <1>2, <1>3, <1>4 DEF Makes
<1> QED  BY <1>5 DEF q

Booted == {"spi", "probe", "created", "idle", "stopping"}

LEMMA EdgesOfPins ==
  ASSUME NEW A, A \subseteq Special, NEW v, NEW x PROVE Avoids(PinOutSet(v, x), A)
  BY PinsAreCore, AvoidsFewer

LEMMA LedsCreated ==
  Makes(LedsCreate(version)) /\ Avoids(LedsCreate(version), {"ledsGone"})
<1> DEFINE p == PinOutSet("app", LevelOn(version)) \o PinOutSet("tx", 0) \o PinOutSet("rx", 0)
           s == [op |-> "ledsReady"]
<1>1. LedsCreate(version) = p \o <<s>>  BY DEF LedsCreate, Step
<1>2. {"ledsGone"} \subseteq Special /\ s.op = "ledsReady"  BY DEF Special
<1>3. Avoids(p, {"ledsGone"})  BY <1>2, EdgesOfPins, AvoidsJoined
<1>4. Avoids(<<s>>, {"ledsGone"})  BY <1>2, AvoidsOne
<1> HIDE DEF p, s
<1>5. Program(p) /\ Program(<<s>>)  BY <1>3, <1>4, AvoidsIsProgram
<1>6. <<s>> \in Seq({s}) /\ Len(<<s>>) = 1 /\ <<s>>[1] = s  OBVIOUS
<1>7. Len(p) \in Nat /\ Program(p \o <<s>>) /\ Len(p \o <<s>>) = Len(p) + 1
      /\ (p \o <<s>>)[Len(p) + 1] = s
  BY <1>5, <1>6, ProgramJoined
<1>8. Makes(p \o <<s>>)
  <2>1. Len(p) + 1 \in 1..Len(p \o <<s>>)  BY <1>7
  <2> QED  BY <1>2, <1>7, <2>1 DEF Makes
<1> QED  BY <1>1, <1>3, <1>4, <1>8, AvoidsJoined

LEMMA LedsReleased == Once(LedsRelease(version))
<1>1. {"ledsGone"} \subseteq Special  BY DEF Special
<1>2. \A v, x : Avoids(PinOutSet(v, x), {"ledsGone"})  BY <1>1, EdgesOfPins
<1>3. Once(Step("ledsGone"))
  <2> DEFINE s == [op |-> "ledsGone"]
  <2>1. Step("ledsGone") = <<s>>  BY DEF Step
  <2> HIDE DEF s
  <2>2. <<s>> \in Seq({s}) /\ Len(<<s>>) = 1  OBVIOUS
  <2>3. Program(<<s>>)  BY <2>2 DEF Program
  <2>4. \A j, k \in 1..Len(<<s>>) : j = k  BY <2>2
  <2>5. Once(<<s>>)  BY <2>3, <2>4 DEF Once
  <2> QED  BY <2>1, <2>5
<1> QED  BY <1>2, <1>3, OnceJoined DEF LedsRelease

LEMMA GivenEdges ==
  ASSUME NEW p, NEW s, Given(p, s)
  PROVE  /\ Once(p)
         /\ stage = "start" => Avoids(p, {"ledsGone"})
         /\ s = "leds" => Makes(p) /\ Avoids(p, {"ledsGone"})
         /\ s \in Booted => Avoids(p, Ledges)
         /\ stage \in {"start", "leds"} \/ Ready
<1>1. /\ Ledges \subseteq Special /\ Ledges \subseteq Special \ DacSteps
      /\ Ledges \subseteq Special \ {"hook", "get", "put", "configure"}
      /\ {"ledsGone"} \subseteq Special \ {"unhook", "closeSpi"}
      /\ {"ledsGone"} \subseteq Ledges
  BY DEF Ledges, Special, DacSteps
<1>2. \A q : Avoids(q, Ledges) => Avoids(q, {"ledsGone"}) /\ Once(q)
  BY <1>1, AvoidsFewer, AvoidsIsOnce
<1>3. /\ Avoids(<<>>, Ledges) /\ Avoids(SetDacMode(0), Ledges) /\ Avoids(AfeProbe, Ledges)
      /\ Avoids(Configure(Defaults), Ledges) /\ Avoids(ClearOverloads, Ledges)
      /\ Avoids(GetOverloads, Ledges) /\ Avoids(TerminateCape, Ledges)
  BY <1>1, AvoidsNone, CallsAreCore, TerminateAvoids, AvoidsFewer
<1>4. Avoids(Activate, Ledges) /\ Avoids(Deactivate(comm), Ledges)
  BY <1>1, ActivateAvoids, DeactivateAvoids DEF Ledges
<1>5. \A x : Avoids(InitializeCape(x), Ledges)  BY <1>1, InitializeAvoids
<1>6. Once(Abort)
  <2>1. Avoids(PinOutSet("shutdown", 1), {"ledsGone"})  BY <1>1, EdgesOfPins
  <2>2. Avoids(SpiRelease, {"ledsGone"})  BY <1>1, SpiReleaseAvoids
  <2> QED  BY <2>1, <2>2, LedsReleased, OnceJoined DEF Abort
<1>7. Once(TerminateCape \o ReleaseCape)
  <2> DEFINE u == [k \in 1..Len(FlagPins) |-> [op |-> "unhook", flag |-> FlagPins[k]]]
  <2>1. Avoids(u, {"ledsGone"})  BY UnhookingAvoids
  <2> HIDE DEF u
  <2>2. /\ Avoids(SetStandby(0), {"ledsGone"}) /\ Avoids(SetStandby(1), {"ledsGone"})
        /\ Avoids(DisableAll, {"ledsGone"})
    BY <1>1, CallsAreCore, AvoidsFewer
  <2>3. AfeRelease(1, FlagPins) = SetStandby(0) \o DisableAll \o SetStandby(1) \o u
    BY DEF AfeRelease, u
  <2>4. Avoids(AfeRelease(1, FlagPins), {"ledsGone"})  BY <2>1, <2>2, <2>3, AvoidsJoined
  <2>5. Avoids(SpiRelease, {"ledsGone"}) /\ Avoids(TerminateCape, {"ledsGone"})
    BY <1>1, SpiReleaseAvoids, TerminateAvoids
  <2>6. Avoids(AfeRelease(1, FlagPins) \o SpiRelease, {"ledsGone"})
    BY <2>4, <2>5, AvoidsJoined
  <2>7. Once(ReleaseCape)  BY <2>6, LedsReleased, OnceJoined DEF ReleaseCape
  <2> QED  BY <2>5, <2>7, OnceJoined
<1>8. Avoids(p, Ledges) \/ p = LedsCreate(version) \/ p = LedsRelease(version) \/ p = Abort
      \/ p = TerminateCape \o ReleaseCape
  BY <1>3, <1>4, <1>5, Zenon DEF Given
<1>9. Once(p)  BY <1>2, <1>6, <1>7, <1>8, LedsCreated, LedsReleased, AvoidsIsOnce
<1>10. stage = "start" => Avoids(p, {"ledsGone"})
  BY <1>2, <1>3, LedsCreated DEF Given
<1>11. s = "leds" => Makes(p) /\ Avoids(p, {"ledsGone"})  BY LedsCreated DEF Given
<1>12. s \in Booted => Avoids(p, Ledges)
  BY <1>3, <1>4, <1>5, Zenon DEF Given, Booted
<1>13. stage \in {"start", "leds"} \/ Ready  BY DEF Given, Ready
<1> QED  BY <1>9, <1>10, <1>11, <1>12, <1>13

(* The lock of the LEDs is there from their creation to their release, and *)
(* who is inside has it; so it is until a toggle is later than its timer.  *)
Late == "late toggle" \in happened
LockInv ==
  /\ \A t \in Threads : Locks(todo[t]) /\ (mutex = t <=> Inside(todo[t]))
  /\ mutex \in Threads \cup {"free", "none"}
  /\ Avoids(todo["tx"], Lockers \cup {"startTx", "startRx"})
EdgeInv ==
  /\ \A t \in Threads \ {"main"} : Avoids(todo[t], Ledges)
  /\ Once(todo["main"])
  /\ mutex = "none" => Avoids(todo["main"], {"ledsGone"})
  /\ ~ supervisor => Idle("blink")
  /\ Ready => mutex # "none" /\ Avoids(todo["main"], Ledges)
  /\ ~ Ready => Avoids(todo["main"], {"lock"})
  /\ stage = "leds" =>
       (mutex # "none" \/ Makes(todo["main"])) /\ Avoids(todo["main"], {"ledsGone"})
LedInv == LockInv /\ EdgeInv

LEMMA AloneOutside ==
  ASSUME CommInv, TxTypes, EdgeInv, ~ Ready PROVE \A t \in Threads \ {"main"} : Idle(t)
<1>1. Boots  BY DEF CommInv, Order, Opens, TimerActs, UserCloses, Ready
<1>2. Off /\ Idle("comm")  BY <1>1 DEF Boots, Booting
<1>3. ~ Running /\ ~ tx.rx /\ ~ supervisor  BY <1>2 DEF Off, Has
<1>4. tx.thread = "none"  BY <1>3 DEF Running
<1>5. Idle("tx") /\ Idle("rx")  BY <1>3, <1>4 DEF CommInv, TxInv
<1>6. Idle("blink")  BY <1>3 DEF EdgeInv
<1> QED  BY <1>2, <1>5, <1>6 DEF Threads

LEMMA InsideIsNotEmpty == Fresh(<<>>)
  BY AvoidsNone, PlainIsFresh

(* The steps.                                                              *)
LedOps == Lockers \cup Ledges
Turns(t) ==
  LET op == Head(todo[t]).op IN
  /\ op = "lock" => mutex = "free" /\ mutex' = t
  /\ op \in {"unlock", "ledsReady"} => mutex' = "free"
  /\ op = "ledsGone" => mutex = "free" /\ mutex' = "none"
  /\ op \notin LedOps => mutex' = mutex
  /\ op \in LedOps => todo'[t] = Tail(todo[t])

LEMMA StepTurns ==
  ASSUME NEW t \in Threads, TodoInv, StepOf(t), Alive' PROVE Turns(t)
<1> USE DEF LedOps, Lockers, Ledges
<1>1. dead' = "no"  BY DEF Alive
<1>2. CASE Lock(t)
  <2>1. mutex = "free" /\ mutex' = t /\ Advance(t) /\ Is(t, "lock")  BY <1>1, <1>2 DEF Lock, Die
  <2>2. todo'[t] = Tail(todo[t])  BY <2>1, AdvanceIsTail
  <2> QED  BY <2>1, <2>2 DEF Turns, Is
<1>3. CASE UnlockLeds(t)
  <2>1. Advance(t)  BY <1>3 DEF UnlockLeds
  <2>2. todo'[t] = Tail(todo[t])  BY <2>1, AdvanceIsTail
  <2>3. Head(todo[t]).op \in {"unlock", "ledsReady", "ledsGone"}  BY <1>3 DEF UnlockLeds, Is
  <2>4. Head(todo[t]).op = "ledsGone" => mutex = "free" /\ mutex' = "none"
    BY <1>1, <1>3 DEF UnlockLeds, Next1
  <2>5. Head(todo[t]).op # "ledsGone" => mutex' = "free"  BY <1>3 DEF UnlockLeds, Next1
  <2> QED  BY <2>2, <2>3, <2>4, <2>5 DEF Turns
<1>4. ASSUME Head(todo[t]).op \notin LedOps, mutex' = mutex PROVE Turns(t)
  BY <1>4 DEF Turns
<1>5. CASE LoadPin(t) \/ StorePin(t) \/ ExpectRegister(t) \/ RememberField(t)
  BY <1>4, <1>5 DEF LoadPin, StorePin, ExpectRegister, RememberField, Is, gpio
<1>6. CASE InDacMode(t) \/ WriteRegister(t) \/ AskRegister(t) \/ AnswerRegister(t)
  BY <1>4, <1>6 DEF InDacMode, RegisterStep, WriteRegister, AskRegister, AnswerRegister, Is, gpio
<1>7. CASE DacMode(t) \/ SetDriver(t) \/ TransferDac(t)
  BY <1>4, <1>7 DEF DacMode, SetDriver, TransferDac, Is, gpio
<1>8. CASE Hook(t) \/ GetPin(t) \/ PutFlag(t) \/ Unhook(t)
  BY <1>4, <1>8, SMTT(30) DEF Hook, GetPin, PutFlag, Unhook, Is, gpio
<1>9. CASE WriteBuffer(t) \/ ConfigureSpi(t) \/ StartTx(t) \/ StartRx(t) \/ StopThread(t)
  BY <1>4, <1>9 DEF WriteBuffer, ConfigureSpi, StartTx, StartRx, StopThread, Is, TxFrame, gpio
<1>10. CASE Communication(t) \/ Supervisor(t) \/ CloseSpi(t)
  BY <1>4, <1>10 DEF Communication, Supervisor, CloseSpi, Is, TxFrame, gpio
<1> QED
  BY <1>2, <1>3, <1>5, <1>6, <1>7, <1>8, <1>9, <1>10 DEF StepOf

LEMMA LateToggle ==
  ASSUME NEW t \in Threads, StepOf(t), Head(todo[t]).op = "supervisorOff"
  PROVE  Idle("blink") \/ Late'
<1>1. CASE Supervisor(t)
  BY <1>1 DEF Supervisor, Late, Next1
<1>2. ~ (LoadPin(t) \/ StorePin(t) \/ Lock(t) \/ UnlockLeds(t) \/ ExpectRegister(t))
  BY DEF LoadPin, StorePin, Lock, UnlockLeds, ExpectRegister, Is
<1>3. ~ (InDacMode(t) \/ WriteRegister(t) \/ AskRegister(t) \/ AnswerRegister(t)
         \/ RememberField(t))
  BY DEF InDacMode, RegisterStep, WriteRegister, AskRegister, AnswerRegister, RememberField, Is
<1>4. ~ (DacMode(t) \/ SetDriver(t) \/ TransferDac(t)) /\ ~ (WriteBuffer(t) \/ CloseSpi(t))
  <2>1. ~ (DacMode(t) \/ SetDriver(t) \/ TransferDac(t))
    BY SMTT(30) DEF DacMode, SetDriver, TransferDac, Is
  <2>2. WriteBuffer(t) => Is(t, "writei")  BY DEF WriteBuffer
  <2>3. CloseSpi(t) => Is(t, "closeSpi")  BY DEF CloseSpi
  <2> QED  BY <2>1, <2>2, <2>3 DEF Is
<1>5. ~ (Hook(t) \/ GetPin(t) \/ PutFlag(t) \/ Unhook(t) \/ Communication(t))
  BY DEF Hook, GetPin, PutFlag, Unhook, Communication, Is
<1>6. ~ (ConfigureSpi(t) \/ StartTx(t) \/ StartRx(t) \/ StopThread(t))
  BY DEF ConfigureSpi, StartTx, StartRx, StopThread, Is
<1> QED  BY <1>1, <1>2, <1>3, <1>4, <1>5, <1>6 DEF StepOf

LEMMA StepLocks ==
  ASSUME LockInv, RoleInv, TodoInv, NEW t \in Threads, Proceeds(t), Turns(t),
         \A u \in Threads : u # t => todo'[u] = todo[u],
         Head(todo[t]).op \in Ledges => \A u \in Threads : ~ Inside(todo[u])
  PROVE  LockInv'
<1> DEFINE op == Head(todo[t]).op
           sends == Lockers \cup {"startTx", "startRx"}
<1>1. todo[t] # <<>>  BY DEF Proceeds
<1>2. Locks(todo[t]) /\ Locks(Tail(todo[t]))  BY <1>1, LocksRest DEF LockInv
<1>3. \A u \in Threads : u # "free" /\ u # "none"  BY DEF Threads
<1>4. Avoids(todo'["tx"], sends)
  <2>1. CASE t = "tx"
    <3>1. Avoids(todo["tx"], sends)  BY DEF LockInv
    <3>2. "startTx" \in sends /\ "startRx" \in sends  OBVIOUS
    <3> HIDE DEF sends
    <3> QED  BY <2>1, <3>1, <3>2, ProceedsAvoids
  <2>2. CASE t # "tx"
    <3>1. todo'["tx"] = todo["tx"]  BY <2>2 DEF Threads
    <3> QED  BY <3>1 DEF LockInv
  <2> QED  BY <2>1, <2>2
<1>5. CASE op \in LedOps
  <2>1. todo'[t] = Tail(todo[t])  BY <1>5 DEF Turns
  <2>2. CASE op = "lock"
    <3>1. mutex = "free" /\ mutex' = t  BY <2>2 DEF Turns
    <3>2. Inside(todo'[t])  BY <1>1, <1>2, <2>1, <2>2, LocksRest
    <3>3. \A u \in Threads : Locks(todo'[u]) /\ (mutex' = u <=> Inside(todo'[u]))
      BY <1>2, <1>3, <2>1, <3>1, <3>2 DEF LockInv
    <3> QED  BY <1>4, <3>1, <3>3 DEF LockInv
  <2>3. CASE op = "unlock"
    <3>1. mutex' = "free"  BY <2>3 DEF Turns
    <3>2. Inside(todo[t]) /\ ~ Inside(todo'[t])  BY <1>1, <1>2, <2>1, <2>3, LocksRest
    <3>3. mutex = t  BY <3>2 DEF LockInv
    <3>4. \A u \in Threads : Locks(todo'[u]) /\ (mutex' = u <=> Inside(todo'[u]))
      BY <1>2, <1>3, <2>1, <3>1, <3>2, <3>3 DEF LockInv
    <3> QED  BY <1>4, <3>1, <3>4 DEF LockInv
  <2>4. CASE op \in Ledges
    <3>1. mutex' \in {"free", "none"}  BY <2>4 DEF Turns, Ledges
    <3>2. ~ Inside(todo[t])  BY <2>4
    <3>3. op \notin Lockers  BY <2>4 DEF Lockers, Ledges
    <3>4. ~ Inside(todo'[t])  BY <1>1, <1>2, <2>1, <3>2, <3>3, LocksRest
    <3>5. \A u \in Threads : ~ Inside(todo'[u])  BY <2>4, <3>4
    <3>6. \A u \in Threads : Locks(todo'[u])  BY <1>2, <2>1 DEF LockInv
    <3> QED  BY <1>3, <1>4, <3>1, <3>5, <3>6 DEF LockInv
  <2> QED  BY <1>5, <2>2, <2>3, <2>4 DEF LedOps, Lockers
<1>6. CASE op \notin LedOps
  <2>1. mutex' = mutex  BY <1>6 DEF Turns
  <2>2. Locks(todo'[t]) /\ (Inside(todo'[t]) <=> Inside(todo[t]))
    <3>1. CASE t = "tx"
      <4>1. Avoids(todo["tx"], Lockers) /\ Avoids(todo'["tx"], Lockers)
        BY <1>4, AvoidsFewer DEF LockInv
      <4> QED  BY <3>1, <4>1, PlainIsFresh DEF Fresh
    <3>2. CASE t # "tx"
      <4>1. op # "writei"
        <5>1. Avoids(todo[t], {"writei", "transfer"})  BY <3>2 DEF RoleInv
        <5>2. op \notin {"writei", "transfer"}  BY <1>1, <5>1, AvoidsRest
        <5> QED  BY <5>2
      <4>2. CASE todo'[t] = todo[t]  BY <1>2, <4>2
      <4>3. CASE todo'[t] = Tail(todo[t])
        <5>1. op \notin Lockers  BY <1>6 DEF LedOps
        <5> QED  BY <1>1, <1>2, <4>3, <5>1, LocksRest
      <4>4. CASE /\ op \in {"startTx", "startRx"}
                 /\ todo'[t] = AbandonTx \/ todo'[t] = AbandonRx
        <5>1. op \notin Body \cup {"unlock"}  BY <4>4 DEF Body
        <5>2. ~ Inside(todo[t])  BY <1>1, <1>2, <5>1, LocksRest
        <5> QED  BY <4>4, <5>2, AbandonIsFresh DEF Fresh
      <4> QED  BY <4>1, <4>2, <4>3, <4>4 DEF Proceeds
    <3> QED  BY <3>1, <3>2
  <2>3. \A u \in Threads : Locks(todo'[u]) /\ (mutex' = u <=> Inside(todo'[u]))
    BY <2>1, <2>2 DEF LockInv
  <2> QED  BY <1>4, <2>1, <2>3 DEF LockInv
<1> QED  BY <1>5, <1>6

LEMMA EdgeHead ==
  ASSUME EdgeInv, NEW t \in Threads, todo[t] # <<>>, Head(todo[t]).op \in Ledges
  PROVE  t = "main" /\ ~ Ready
<1>1. \A A : Avoids(todo[t], A) => Head(todo[t]).op \notin A  BY AvoidsRest
<1> QED  BY <1>1 DEF EdgeInv

LEMMA StepEdges ==
  ASSUME EdgeInv, RoleInv, TodoInv, DriverInv, NEW t \in Threads, Proceeds(t), Turns(t),
         \A u \in Threads : u # t => todo'[u] = todo[u], stage' = stage,
         ~ supervisor' => Idle("blink")'
  PROVE  EdgeInv'
<1> DEFINE op == Head(todo[t]).op
           m == todo["main"]
<1>1. todo[t] # <<>>  BY DEF Proceeds
<1>2. Ledges \subseteq (Special \ DacSteps)
        \ {"requestStop", "joinTx", "commOff", "supervisorOff", "joinRx"}
      /\ {"ledsGone"} \subseteq Ledges
  BY DEF Ledges, Special, DacSteps
<1>3. Avoids(AbandonTx, Ledges) /\ Avoids(AbandonRx, Ledges)  BY <1>2, AbandonAvoids
<1>4. Avoids(AbandonTx, {"ledsGone"}) /\ Avoids(AbandonRx, {"ledsGone"})
  BY <1>2, <1>3, AvoidsFewer
<1>5. \A u \in Threads : Avoids(todo[u], Ledges) => Avoids(todo'[u], Ledges)
  <2>1. Avoids(todo[t], Ledges) => Avoids(todo'[t], Ledges)  BY <1>3, ProceedsAvoids
  <2> QED  BY <2>1
<1>6. \A u \in Threads : Avoids(todo[u], {"ledsGone"}) => Avoids(todo'[u], {"ledsGone"})
  <2>1. Avoids(todo[t], {"ledsGone"}) => Avoids(todo'[t], {"ledsGone"})
    BY <1>4, ProceedsAvoids
  <2> QED  BY <2>1
<1>7. Ready' <=> Ready  BY DEF Ready
<1>8. op \in Ledges => t = "main" /\ ~ Ready  BY <1>1, EdgeHead
<1>9. t = "main" => \/ todo'["main"] = m \/ todo'["main"] = Tail(m)
                    \/ /\ op \in {"startTx", "startRx"}
                       /\ todo'["main"] = AbandonTx \/ todo'["main"] = AbandonRx
  <2> SUFFICES ASSUME t = "main"
               PROVE  \/ todo'["main"] = m \/ todo'["main"] = Tail(m)
                      \/ /\ op \in {"startTx", "startRx"}
                         /\ todo'["main"] = AbandonTx \/ todo'["main"] = AbandonRx
    OBVIOUS
  <2>1. Avoids(m, {"writei", "transfer"})  BY DEF RoleInv, Threads
  <2>2. op \notin {"writei", "transfer"}  BY <1>1, <2>1, AvoidsRest
  <2>3. op # "writei"  BY <2>2
  <2> QED  BY <2>3 DEF Proceeds
<1>10. ~ Ready => op \notin {"startTx", "startRx"} \/ t # "main"
  <2> SUFFICES ASSUME ~ Ready, t = "main" PROVE op \notin {"startTx", "startRx"}  OBVIOUS
  <2>1. Avoids(m, Settles)  BY DEF DriverInv
  <2>2. op \notin Settles  BY <1>1, <2>1, AvoidsRest
  <2> QED  BY <2>2 DEF Settles
<1>11. t # "main" => todo'["main"] = m  BY DEF Threads
<1>12. Once(todo'["main"])
  <2>1. Once(m)  BY DEF EdgeInv
  <2>2. m # <<>> => Once(Tail(m))  BY <2>1, OnceRest
  <2>3. Once(AbandonTx) /\ Once(AbandonRx)  BY <1>4, AvoidsIsOnce
  <2> QED  BY <1>1, <1>9, <1>11, <2>1, <2>2, <2>3
<1>13. mutex' = "none" => Avoids(todo'["main"], {"ledsGone"})
  <2>1. CASE op = "ledsGone"
    <3>1. t = "main"  BY <1>8, <2>1 DEF Ledges
    <3>2. todo'["main"] = Tail(m)  BY <2>1, <3>1 DEF Turns, LedOps, Ledges
    <3> QED  BY <1>1, <2>1, <3>1, <3>2, OnceRest DEF EdgeInv
  <2>2. CASE op # "ledsGone"
    <3>1. mutex' = "none" => mutex = "none"
      BY <2>2 DEF Turns, LedOps, Ledges, Lockers, Threads
    <3> QED  BY <1>6, <3>1 DEF EdgeInv, Threads
  <2> QED  BY <2>1, <2>2
<1>14. op # "ledsGone" /\ mutex # "none" => mutex' # "none"
  BY DEF Turns, LedOps, Ledges, Lockers, Threads
<1>15. Ready => mutex' # "none" /\ Avoids(todo'["main"], Ledges)
  <2> SUFFICES ASSUME Ready PROVE mutex' # "none" /\ Avoids(todo'["main"], Ledges)  OBVIOUS
  <2>1. op # "ledsGone"  BY <1>8 DEF Ledges
  <2> QED  BY <1>5, <1>14, <2>1 DEF EdgeInv, Threads
<1>16. ~ Ready => Avoids(todo'["main"], {"lock"})
  <2> SUFFICES ASSUME ~ Ready PROVE Avoids(todo'["main"], {"lock"})  OBVIOUS
  <2>1. Avoids(m, {"lock"})  BY DEF EdgeInv
  <2>2. m # <<>> => Avoids(Tail(m), {"lock"})  BY <2>1, AvoidsRest
  <2> QED  BY <1>1, <1>9, <1>10, <1>11, <2>1, <2>2
<1>17. stage = "leds" => (mutex' # "none" \/ Makes(todo'["main"]))
                         /\ Avoids(todo'["main"], {"ledsGone"})
  <2> SUFFICES ASSUME stage = "leds"
               PROVE  (mutex' # "none" \/ Makes(todo'["main"]))
                      /\ Avoids(todo'["main"], {"ledsGone"})
    OBVIOUS
  <2>1. ~ Ready  BY DEF Ready
  <2>2. (mutex # "none" \/ Makes(m)) /\ Avoids(m, {"ledsGone"})  BY DEF EdgeInv
  <2>3. Avoids(todo'["main"], {"ledsGone"})  BY <1>6, <2>2 DEF Threads
  <2>4. op # "ledsGone"
    <3>1. t = "main" => op # "ledsGone"
      <4>1. Avoids(m, {"ledsGone"})  BY <2>2
      <4>2. m # <<>> => Head(m).op \notin {"ledsGone"}  BY <4>1, AvoidsRest
      <4> QED  BY <1>1, <4>2
    <3> QED  BY <1>8, <3>1 DEF Ledges
  <2>5. mutex # "none" => mutex' # "none"  BY <1>14, <2>4
  <2>6. Makes(m) => mutex' # "none" \/ Makes(todo'["main"])
    <3> SUFFICES ASSUME Makes(m) PROVE mutex' # "none" \/ Makes(todo'["main"])  OBVIOUS
    <3>1. CASE op = "ledsReady"  BY <3>1 DEF Turns
    <3>2. CASE op # "ledsReady"
      <4>1. t = "main" /\ m # <<>> => Makes(Tail(m))  BY <3>2, MakesRest
      <4> QED  BY <1>1, <1>9, <1>10, <1>11, <2>1, <4>1
    <3> QED  BY <3>1, <3>2
  <2> QED  BY <2>2, <2>3, <2>5, <2>6
<1>18. \A u \in Threads \ {"main"} : Avoids(todo'[u], Ledges)  BY <1>5 DEF EdgeInv
<1> QED
  BY <1>7, <1>12, <1>13, <1>15, <1>16, <1>17, <1>18 DEF EdgeInv

LEMMA SameLocks == ASSUME LedInv, UNCHANGED <<todo, mutex, stage, supervisor>> PROVE LedInv'
  BY DEF LedInv, LockInv, EdgeInv, Idle, Ready

LEMMA GivenLocks ==
  ASSUME LockInv, TodoInv, NEW t \in Threads, Idle(t), NEW p, Fresh(p),
         t = "tx" => Avoids(p, Lockers \cup {"startTx", "startRx"}),
         todo' = [todo EXCEPT ![t] = p], mutex' = mutex
  PROVE  LockInv'
<1>1. \A u \in Threads : todo'[u] = IF u = t THEN p ELSE todo[u]  BY DEF TodoInv
<1>2. ~ Inside(todo[t])  BY InsideIsNotEmpty DEF Idle, Fresh
<1>3. \A u \in Threads : Locks(todo'[u]) /\ (mutex' = u <=> Inside(todo'[u]))
  BY <1>1, <1>2 DEF LockInv, Fresh
<1>4. Avoids(todo'["tx"], Lockers \cup {"startTx", "startRx"})
  BY <1>1 DEF LockInv, Threads
<1> QED  BY <1>3, <1>4 DEF LockInv

LEMMA MainKeepsLeds ==
  ASSUME LedInv, TodoInv, Main PROVE LedInv'
<1>1. Idle("main") /\ MainFrame  BY MainGives
<1>2. PICK p, s : Call(p, s) /\ Given(p, s)  BY MainGives
<1>3. /\ mutex' = mutex /\ supervisor' = supervisor /\ stage' = s
      /\ todo' = [todo EXCEPT !["main"] = p]
  BY <1>1, <1>2 DEF MainFrame, gpio, Call
<1>4. \A u \in Threads : todo'[u] = IF u = "main" THEN p ELSE todo[u]  BY <1>3 DEF TodoInv
<1>5. Fresh(p) /\ (s \notin Booted => Avoids(p, {"lock"}))
  BY <1>2, GivenIsFresh DEF Booted
<1>6. /\ Once(p)
      /\ stage = "start" => Avoids(p, {"ledsGone"})
      /\ s = "leds" => Makes(p) /\ Avoids(p, {"ledsGone"})
      /\ s \in Booted => Avoids(p, Ledges)
      /\ stage \in {"start", "leds"} \/ Ready
  BY <1>2, GivenEdges
<1>7. LockInv'  BY <1>1, <1>3, <1>5, GivenLocks DEF LedInv, Threads
<1>8. stage # "start" => mutex # "none"
  <2>1. ~ Makes(todo["main"])
    <3>1. todo["main"] = <<>>  BY <1>1 DEF Idle
    <3>2. Len(<<>>) = 0  OBVIOUS
    <3> QED  BY <3>1, <3>2 DEF Makes
  <2> QED  BY <1>6, <2>1 DEF LedInv, EdgeInv
<1>9. Ready' <=> s \in Booted  BY <1>3 DEF Ready, Booted
<1>10. s \in Booted => stage # "start"  BY <1>2 DEF Given, Booted
<1>11. mutex' = "none" => Avoids(p, {"ledsGone"})  BY <1>3, <1>6, <1>8
<1>12. Ready' => mutex' # "none" /\ Avoids(p, Ledges)  BY <1>3, <1>6, <1>8, <1>9, <1>10
<1>13. ~ Ready' => Avoids(p, {"lock"})  BY <1>5, <1>9
<1>14. stage' = "leds" => (mutex' # "none" \/ Makes(p)) /\ Avoids(p, {"ledsGone"})
  BY <1>3, <1>6
<1>15. ~ supervisor' => Idle("blink")'  BY <1>3, <1>4 DEF LedInv, EdgeInv, Idle, Threads
<1>16. \A u \in Threads \ {"main"} : Avoids(todo'[u], Ledges)  BY <1>4 DEF LedInv, EdgeInv
<1>17. todo'["main"] = p  BY <1>4 DEF Threads
<1>18. EdgeInv'  BY <1>6, <1>11, <1>12, <1>13, <1>14, <1>15, <1>16, <1>17 DEF EdgeInv
<1> QED  BY <1>7, <1>18 DEF LedInv

LEMMA CyclesKeepLeds ==
  ASSUME LedInv, TodoInv, TxTypes, TxCycle \/ RxCycle \/ TimerStarts \/ TimerStops \/ TimerToggles
  PROVE  LedInv'
<1>1. mutex' = mutex
  BY DEF TxCycle, RxCycle, TimerStarts, TimerStops, TimerToggles, gpio
<1>2. CASE UNCHANGED <<todo, stage, supervisor>>  BY <1>1, <1>2, SameLocks
<1>3. CASE \E t \in Threads : \E p : GivenTo(t, p)
  <2>1. PICK t \in Threads : \E p : GivenTo(t, p)  BY <1>3
  <2>2. PICK p : GivenTo(t, p)  BY <2>1
  <2>3. /\ t # "main" /\ Idle(t) /\ todo' = [todo EXCEPT ![t] = p]
        /\ UNCHANGED <<stage, supervisor>>
    BY <2>2 DEF GivenTo
  <2>4. \A u \in Threads : todo'[u] = IF u = t THEN p ELSE todo[u]  BY <2>3 DEF TodoInv
  <2>5. t = "tx" => Avoids(p, Lockers \cup {"startTx", "startRx"})
    <3>1. DOMAIN FillNext = 1..tx.len  BY DEF FillNext
    <3>2. "writei" \notin Lockers \cup {"startTx", "startRx"}
          /\ "transfer" \notin Lockers \cup {"startTx", "startRx"}
      BY DEF Lockers
    <3>3. Avoids(FlushBuffer(FillNext), Lockers \cup {"startTx", "startRx"})
      BY <3>1, <3>2, FlushAvoids
    <3> QED  BY <2>2, <3>3 DEF GivenTo
  <2>6. Fresh(p)
    <3>1. t = "tx" => Fresh(p)  BY <2>5, AvoidsFewer, PlainIsFresh
    <3> QED  BY <2>2, <3>1, LedsAreFresh, DeactivateIsFresh, ActivateIsFresh DEF GivenTo
  <2>7. LockInv'  BY <1>1, <2>3, <2>5, <2>6, GivenLocks DEF LedInv
  <2>8. Avoids(p, Ledges)
    <3>1. Ledges \subseteq Unstarted  BY DEF Unstarted, Ledges, Special, DacSteps
    <3> QED  BY <2>2, <3>1, GivenAvoids
  <2>9. ~ supervisor' => Idle("blink")'
    <3>1. t = "blink" => supervisor  BY <2>2 DEF GivenTo
    <3> QED  BY <2>3, <2>4, <3>1 DEF LedInv, EdgeInv, Idle, Threads
  <2>10. \A u \in Threads \ {"main"} : Avoids(todo'[u], Ledges)
    BY <2>4, <2>8 DEF LedInv, EdgeInv
  <2>11. todo'["main"] = todo["main"] /\ (Ready' <=> Ready)  BY <2>3, <2>4 DEF Ready, Threads
  <2>12. EdgeInv'  BY <1>1, <2>3, <2>9, <2>10, <2>11 DEF LedInv, EdgeInv
  <2> QED  BY <2>7, <2>12 DEF LedInv
<1> QED  BY <1>2, <1>3, CyclesGive

LEMMA StepKeepsLeds ==
  ASSUME LedInv, CommInv, TodoInv, TxTypes, DriverInv, NEW t \in Threads, StepOf(t), Alive'
  PROVE  LedInv' \/ Late'
<1>1. /\ Proceeds(t) /\ stage' = stage
      /\ \A u \in Threads : u # t => todo'[u] = todo[u]
  BY StepOfOne DEF CommInv
<1>2. Turns(t) /\ todo[t] # <<>>  BY <1>1, StepTurns DEF Proceeds
<1>3. LockInv'
  <2>1. Head(todo[t]).op \in Ledges => \A u \in Threads : ~ Inside(todo[u])
    <3> SUFFICES ASSUME Head(todo[t]).op \in Ledges, NEW u \in Threads PROVE ~ Inside(todo[u])
      OBVIOUS
    <3>1. t = "main" /\ ~ Ready  BY <1>2, EdgeHead DEF LedInv
    <3>2. u # "main" => Idle(u)  BY <3>1, AloneOutside DEF LedInv
    <3>3. u # "main" => ~ Inside(todo[u])  BY <3>2, InsideIsNotEmpty DEF Idle, Fresh
    <3>4. ~ Inside(todo[t])
      <4>1. Locks(todo[t])  BY DEF LedInv, LockInv
      <4>2. Head(todo[t]).op \notin Body \cup {"unlock"}  BY DEF Ledges, Body
      <4> QED  BY <1>2, <4>1, <4>2, LocksRest
    <3> QED  BY <3>1, <3>3, <3>4
  <2> QED  BY <1>1, <1>2, <2>1, StepLocks DEF LedInv, CommInv
<1>4. (~ supervisor' => Idle("blink")') \/ Late'
  <2> SUFFICES ASSUME ~ supervisor', ~ Late' PROVE Idle("blink")'  OBVIOUS
  <2>1. CASE supervisor
    <3>1. Outcome(t)  BY StepOutcome DEF CommInv
    <3>2. Label(Head(todo[t])) = "supervisorOff"  BY <2>1, <3>1 DEF Outcome, Effect
    <3>3. Head(todo[t]).op = "supervisorOff"
      BY <3>2 DEF Label
    <3>4. Idle("blink")  BY <3>3, LateToggle
    <3>5. t # "blink"  BY <1>2, <3>4 DEF Idle
    <3> QED  BY <1>1, <3>4, <3>5 DEF Idle, Threads
  <2>2. CASE ~ supervisor
    <3>1. Idle("blink")  BY <2>2 DEF LedInv, EdgeInv
    <3>2. t # "blink"  BY <1>2, <3>1 DEF Idle
    <3> QED  BY <1>1, <3>1, <3>2 DEF Idle, Threads
  <2> QED  BY <2>1, <2>2
<1>5. (~ supervisor' => Idle("blink")') => EdgeInv'
  BY <1>1, <1>2, StepEdges DEF LedInv, CommInv
<1> QED  BY <1>3, <1>4, <1>5 DEF LedInv

LEMMA LedInvInit == Init => LedInv
<1> SUFFICES ASSUME Init PROVE LedInv  OBVIOUS
<1>1. \A t \in Threads : todo[t] = <<>>  BY DEF Init
<1>2. \A A : \A t \in Threads : Avoids(todo[t], A)  BY <1>1, AvoidsNone
<1>3. \A t \in Threads : Locks(todo[t]) /\ ~ Inside(todo[t])
  BY <1>1, InsideIsNotEmpty DEF Fresh
<1>4. mutex = "none" /\ stage = "start"  BY DEF Init
<1>5. LockInv  BY <1>2, <1>3, <1>4 DEF LockInv, Threads
<1>6. Once(todo["main"])  BY <1>2, AvoidsIsOnce DEF Threads
<1>7. Idle("blink")  BY <1>1 DEF Idle, Threads
<1>8. EdgeInv  BY <1>2, <1>4, <1>6, <1>7 DEF EdgeInv, Ready, Threads
<1> QED  BY <1>5, <1>8 DEF LedInv

LEMMA LedInvKept ==
  /\ PinInv /\ (Alive => CommInv) /\ (Alive => LivingInv) /\ (Alive => LedInv \/ Late)
  /\ [Next]_vars
  => (Alive => LedInv \/ Late)'
<1> SUFFICES ASSUME PinInv, Alive => CommInv, Alive => LivingInv, Alive => LedInv \/ Late,
                    [Next]_vars, Alive', ~ Late'
             PROVE  LedInv'
  OBVIOUS
<1>1. ~ Late  BY HappenedStays DEF Late
<1>2. CASE UNCHANGED vars
  <2>1. UNCHANGED <<todo, mutex, stage, supervisor, dead, fault>>
    BY <1>2 DEF vars, gpio, spidevVars
  <2>2. Alive  BY <2>1 DEF Alive
  <2> QED  BY <1>1, <2>1, <2>2, SameLocks
<1>3. CASE Next
  <2>1. Alive /\ CommInv /\ DriverInv /\ LedInv  BY <1>1, <1>3, NextIsAlive DEF LivingInv
  <2>2. TodoInv /\ TxTypes  BY DEF PinInv
  <2>3. CASE \E t \in Threads : StepOf(t)  BY <2>1, <2>2, <2>3, StepKeepsLeds
  <2>4. CASE Main  BY <2>1, <2>2, <2>4, MainKeepsLeds
  <2>5. CASE TxCycle \/ RxCycle \/ TimerStarts \/ TimerStops \/ TimerToggles
    BY <2>1, <2>2, <2>5, CyclesKeepLeds
  <2>6. CASE Callback \/ (\E f \in Flags : Edge(f)) \/ Kernel
    <3>1. UNCHANGED <<todo, stage, supervisor>>  BY <2>6, NotHere DEF Elsewhere
    <3>2. Callback => mutex' = mutex
      BY DEF Callback, CallbackBegins, CallbackOrphaned, CallbackTests, CallbackWakes,
         CallbackReads, CallbackStores, CallbackFrame, gpio
    <3>3. (\E f \in Flags : Edge(f)) => mutex' = mutex  BY DEF Edge, gpio
    <3>4. Kernel => mutex' = mutex  BY DEF Kernel, UserUnchanged, gpio
    <3> QED  BY <2>1, <2>6, <3>1, <3>2, <3>3, <3>4, SameLocks
  <2> QED  BY <1>3, <2>3, <2>4, <2>5, <2>6 DEF Next
<1> QED  BY <1>2, <1>3

(* Who ends at the lock finds none, and there is one unless a toggle was   *)
(* late.                                                                   *)
LEMMA LockOfStep ==
  ASSUME LedInv, CommInv, TxTypes, NEW t \in Threads, Lock(t) \/ UnlockLeds(t), dead = "no"
  PROVE  dead' = "no"
<1> DEFINE op == Head(todo[t]).op
<1>1. todo[t] # <<>> /\ Locks(todo[t]) /\ (mutex = t <=> Inside(todo[t]))
  BY DEF Lock, UnlockLeds, Is, LedInv, LockInv
<1>2. CASE Lock(t)
  <2>1. op = "lock"  BY <1>2 DEF Lock, Is
  <2>2. Ready
    <3>1. ~ Ready => t = "main"
      BY <1>1, AloneOutside DEF LedInv, Idle
    <3>2. ~ Ready => Avoids(todo["main"], {"lock"})  BY DEF LedInv, EdgeInv
    <3>3. Avoids(todo[t], {"lock"}) => op \notin {"lock"}  BY <1>1, AvoidsRest
    <3> QED  BY <2>1, <3>1, <3>2, <3>3
  <2>3. mutex # "none"  BY <2>2 DEF LedInv, EdgeInv
  <2> QED  BY <1>2, <2>3 DEF Lock
<1>3. CASE UnlockLeds(t)
  <2>1. CASE op = "unlock"
    <3>1. mutex = t  BY <1>1, <2>1, LocksRest
    <3>2. mutex # "none"  BY <3>1 DEF Threads
    <3> QED  BY <1>3, <2>1, <3>2 DEF UnlockLeds, Next1
  <2>2. CASE op = "ledsGone"
    <3>1. t = "main" /\ ~ Ready
      BY <1>1, <2>2, EdgeHead DEF LedInv, Ledges
    <3>2. mutex # "none"
      <4>1. Avoids(todo["main"], {"ledsGone"}) => op \notin {"ledsGone"}
        BY <1>1, <3>1, AvoidsRest
      <4> QED  BY <2>2, <4>1 DEF LedInv, EdgeInv
    <3>3. ~ Inside(todo[t])
      <4>1. op \notin Body \cup {"unlock"}  BY <2>2 DEF Body
      <4> QED  BY <1>1, <4>1, LocksRest
    <3>4. ASSUME NEW u \in Threads PROVE mutex # u
      <4>1. CASE u = "main"  BY <1>1, <3>1, <3>3, <4>1
      <4>2. CASE u # "main"
        <5>1. Idle(u)  BY <3>1, <4>2, AloneOutside DEF LedInv
        <5>2. ~ Inside(todo[u])  BY <5>1, InsideIsNotEmpty DEF Idle, Fresh
        <5> QED  BY <5>2 DEF LedInv, LockInv
      <4> QED  BY <4>1, <4>2
    <3>5. mutex = "free"  BY <3>2, <3>4 DEF LedInv, LockInv
    <3> QED  BY <1>3, <2>2, <3>5 DEF UnlockLeds, Next1
  <2>3. CASE op = "ledsReady"  BY <1>3, <2>3 DEF UnlockLeds, Next1
  <2> QED  BY <1>3, <2>1, <2>2, <2>3 DEF UnlockLeds, Is
<1> QED  BY <1>2, <1>3

(* How the program has ended, when it has.                                 *)
EndInv ==
  /\ LedFailures /\ PinFailures /\ SoundFailures
  /\ dead = "driver" => "unbound" \in happened

LEMMA EndInvKept ==
  /\ PinInv /\ SendInv /\ (Alive => CommInv) /\ (Alive => NodesInv) /\ (Alive => LivingInv)
  /\ (Alive => LedInv \/ Late) /\ EndInv /\ [Next]_vars
  => EndInv'
<1> SUFFICES ASSUME PinInv, SendInv, Alive => CommInv, Alive => NodesInv, Alive => LivingInv,
                    Alive => LedInv \/ Late, EndInv, [Next]_vars
             PROVE  EndInv'
  OBVIOUS
<1>1. CASE UNCHANGED vars
  BY <1>1 DEF vars, EndInv, LedFailures, PinFailures, SoundFailures, Alsa, Emulated
<1>2. CASE Next /\ dead' = "no"
  BY <1>2 DEF EndInv, LedFailures, PinFailures, SoundFailures
<1>3. CASE Next /\ dead' # "no"
  <2>1. Alive /\ dead = "no"  BY <1>3, NextIsAlive DEF Alive
  <2>2. CommInv /\ NodesInv /\ HookInv /\ FreedInv /\ DriverInv /\ TodoInv
        /\ TxTypes /\ (LedInv \/ Late)
    BY <2>1 DEF LivingInv, PinInv
  <2>3. happened \subseteq happened'  BY <1>3, HappenedStays
  <2>4. CASE dead' = "pin" /\ Orphaned
    <3>1. "reinitialised" \in happened  BY <2>2, <2>4, OrphanOfStep
    <3> QED  BY <2>3, <2>4, <3>1 DEF EndInv, LedFailures, PinFailures, SoundFailures
  <2>5. CASE \E t \in Threads : StepOf(t) /\ Dies(t)
    <3>1. PICK t \in Threads : StepOf(t) /\ Dies(t)  BY <2>5
    <3>2. dead' \notin {"sample", "pcm"} /\ (dead' = "underrun" => Alsa)
      BY <2>2, <3>1, SoundOfStep
    <3>3. dead' = "driver" => "unbound" \in happened
      BY <2>1, <2>2, <3>1, DriverOfStep DEF Dies
    <3>4. board' = board  BY <3>1, StepKeepsBoard
    <3>5. dead' # "pin"  BY <3>1 DEF Dies
    <3>6. dead' = "leds" => Late
      <4>1. dead' = "leds" => Lock(t) \/ UnlockLeds(t)  BY <3>1 DEF Dies
      <4> QED  BY <2>1, <2>2, <4>1, LockOfStep
    <3>7. LedFailures'  BY <2>3, <3>6 DEF LedFailures, Late
    <3> QED
      BY <2>3, <3>2, <3>3, <3>4, <3>5, <3>7 DEF EndInv, PinFailures, SoundFailures, Alsa, Emulated
  <2> QED  BY <1>3, <2>1, <2>4, <2>5, Deaths
<1> QED  BY <1>1, <1>2, <1>3

(* LedFailures: the lock of the LEDs is missing, or in use as it is        *)
(* destroyed, only after a toggle later than its timer.                    *)
(* PinFailures and SoundFailures: a pin is freed under the thread of its   *)
(* callback only when the callback was installed twice, no sample reaches  *)
(* a DAC that is off, no device of ALSA is opened twice, and an underrun   *)
(* is one of a sound card.  DriverFailures: the driver refuses what it is  *)
(* given only after its device was unbound, and freed memory is used only  *)
(* after a node was closed between the two halves of the removal.          *)
THEOREM KnownEnds ==
  Spec => [](LedFailures /\ PinFailures /\ SoundFailures /\ DriverFailures)
<1>1. Spec => []PinInv  BY PinInvInit, PinInvKept, PTL DEF Spec
<1>2. Spec => [](Alive => CommInv)  BY <1>1, CommInvInit, CommInvKept, PTL DEF Spec
<1>3. Spec => [](Alive => NodesInv)  BY <1>1, <1>2, NodesInvInit, NodesInvKept, PTL DEF Spec
<1>4. Spec => []SendInv
  <2>1. Init => SendInv  BY EndsInit
  <2>2. PinInv /\ SendInv /\ [Next]_vars => SendInv'  BY SendInvKept DEF PinInv
  <2> QED  BY <1>1, <2>1, <2>2, PTL DEF Spec
<1>5. Spec => [](Alive => LivingInv)
  <2>1. Init => (Alive => LivingInv)  BY EndsInit DEF LivingInv
  <2> QED  BY <1>1, <1>2, <2>1, LivingInvKept, PTL DEF Spec
<1>6. Spec => []EndInv
  <2>1. Init => EndInv  BY EndsInit DEF EndInv, LedFailures, PinFailures, SoundFailures
  <2>2. Init => (Alive => LedInv \/ Late)  BY LedInvInit
  <2>3. Spec => [](Alive => LedInv \/ Late)
    BY <1>1, <1>2, <1>5, <2>2, LedInvKept, PTL DEF Spec
  <2> QED  BY <1>1, <1>2, <1>3, <1>4, <1>5, <2>1, <2>3, EndInvKept, PTL DEF Spec
<1>7. Spec => [](Closes \/ Uses)
  <2>1. Init => Inv /\ (Closes \/ Uses)  BY EndsInit, InvInit DEF Init
  <2>2. Inv /\ [Next]_vars => Inv'  BY InvNext, NextIsSpidev
  <2>3. Inv /\ Inv' /\ (Closes \/ Uses) /\ [Next]_vars => (Closes \/ Uses)'  BY UsesKept
  <2> QED  BY <2>1, <2>2, <2>3, PTL DEF Spec
<1>8. EndInv /\ (Closes \/ Uses) => LedFailures /\ PinFailures /\ SoundFailures /\ DriverFailures
  BY DEF EndInv, Closes, Uses, DriverFailures
<1> QED  BY <1>6, <1>7, <1>8, PTL
=============================================================================
