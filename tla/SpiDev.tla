------------------------------- MODULE SpiDev -------------------------------
(***************************************************************************)
(* spidev_plc.c: the character devices through which programs reach the    *)
(* SPI devices.  Each bound device has a spidev_data, which outlives the   *)
(* binding while a file is open on it.  Three locks: device_list_lock for  *)
(* probe, open, release and the second half of remove; buf_lock for a      *)
(* call on a file, which is therefore one step here once it has begun;     *)
(* and spi_lock for the binding itself.                                    *)
(***************************************************************************)
EXTENDS Integers, FiniteSets, Sequences

CONSTANTS
  SpiDevices,     \* the devices of the bus
  Openers,        \* who opens a node: each has one file at most
  MaxProbes,      \* bound: bindings, one spidev_data each
  NSpiMinors,     \* N_SPI_MINORS
  Bufsiz          \* bufsiz: bytes of the biggest message

ASSUME SpiDevAssumption ==
  /\ "none" \notin SpiDevices
  /\ IsFiniteSet(Openers)
  /\ NSpiMinors \in Nat

VARIABLES
  spidev,         \* the spidev_data allocated, in the order of their probes
  drvdata,        \* of each device: the spidev_data it is bound to, 0 for none
  removing,       \* of each device: the spidev_data spidev_remove still has to unlink
  filp,           \* of each opener: private_data, 0 when its file is not open
  call,           \* of each opener: "none", or what the ioctl found when it began
  fault           \* memory already freed was used

spidevVars == <<spidev, drvdata, removing, filp, call, fault>>

Listed == {i \in DOMAIN spidev : spidev[i].listed}
MinorsInUse == {spidev[i].minor : i \in Listed}
Bound(i) == i # 0 /\ \E d \in SpiDevices : spidev[i].spi = d

SpidevTypeOK ==
  /\ \A i \in DOMAIN spidev :
       spidev[i] \in [mem : {"live", "freed"}, spi : SpiDevices \cup {"none"}, listed : BOOLEAN,
                      minor : 0..NSpiMinors - 1, users : 0..Cardinality(Openers), buffer : BOOLEAN]
  /\ filp \in [Openers -> 0..Len(spidev)] /\ fault \in BOOLEAN

SpidevInit ==
  /\ spidev = <<>> /\ fault = FALSE
  /\ drvdata = [d \in SpiDevices |-> 0] /\ removing = [d \in SpiDevices |-> 0]
  /\ filp = [p \in Openers |-> 0] /\ call = [p \in Openers |-> "none"]

(***************************************************************************)
(* spidev_probe takes the first minor that is free; without one, without   *)
(* memory or without a node it leaves nothing behind.                      *)
(***************************************************************************)
Probe(d) ==
  /\ ~ fault /\ drvdata[d] = 0 /\ removing[d] = 0 /\ Len(spidev) < MaxProbes
  /\ \E minor \in 0..NSpiMinors - 1 :
       /\ minor \notin MinorsInUse /\ \A k \in 0..minor - 1 : k \in MinorsInUse
       /\ spidev' = Append(spidev, [mem |-> "live", spi |-> d, listed |-> TRUE, minor |-> minor,
                                    users |-> 0, buffer |-> FALSE])
  /\ drvdata' = [drvdata EXCEPT ![d] = Len(spidev')]
  /\ UNCHANGED <<removing, filp, call, fault>>

(***************************************************************************)
(* spidev_remove: the binding ends under spi_lock, "make sure ops on       *)
(* existing fds can abort cleanly", and the list is left under             *)
(* device_list_lock, "prevent new opens".  What happens in between finds   *)
(* the node still there.                                                   *)
(***************************************************************************)
RemoveDetach(d) ==
  /\ ~ fault /\ drvdata[d] # 0
  /\ spidev' = [spidev EXCEPT ![drvdata[d]].spi = "none"]
  /\ removing' = [removing EXCEPT ![d] = drvdata[d]]
  /\ drvdata' = [drvdata EXCEPT ![d] = 0]
  /\ UNCHANGED <<filp, call, fault>>

RemoveUnlink(d) ==
  LET i == removing[d] IN
  /\ ~ fault /\ i # 0
  /\ fault' = (spidev[i].mem = "freed")
  /\ spidev' = [spidev EXCEPT ![i].listed = FALSE,
                              ![i].mem = IF spidev[i].users = 0 THEN "freed" ELSE @]
  /\ removing' = [removing EXCEPT ![d] = 0]
  /\ UNCHANGED <<drvdata, filp, call>>

(***************************************************************************)
(* spidev_open on the node of i, which goes through the list; the first    *)
(* open allocates the buffer, or fails with -ENOMEM.                       *)
(***************************************************************************)
Opened(i) == [spidev EXCEPT ![i].users = @ + 1, ![i].buffer = TRUE]

OpenNode(p, i) ==
  /\ ~ fault /\ filp[p] = 0 /\ i \in Listed
  /\ spidev' = Opened(i)
  /\ filp' = [filp EXCEPT ![p] = i]
  /\ fault' = (\E j \in Listed : spidev[j].mem = "freed")
  /\ UNCHANGED <<drvdata, removing, call>>

(***************************************************************************)
(* spidev_release: the last close frees the buffer, and the spidev_data    *)
(* "after we unbound from the underlying device".                          *)
(***************************************************************************)
\* Mutant: the data of a removed device are left to spidev_remove.
CloseKeepsData(i) ==
  [spidev EXCEPT ![i].users = @ - 1, ![i].buffer = spidev[i].users > 1]

Closed(i) ==
  [spidev EXCEPT ![i].users = @ - 1, ![i].buffer = spidev[i].users > 1,
                 ![i].mem = IF spidev[i].users = 1 /\ spidev[i].spi = "none" THEN "freed" ELSE @]

CloseNode(p) ==
  /\ ~ fault /\ filp[p] # 0 /\ call[p] = "none"
  /\ spidev' = Closed(filp[p])
  /\ filp' = [filp EXCEPT ![p] = 0]
  /\ UNCHANGED <<drvdata, removing, call, fault>>

(***************************************************************************)
(* spidev_ioctl takes a reference to the device, or fails with -ESHUTDOWN; *)
(* then it waits for buf_lock.  A message looks at the binding again in    *)
(* spidev_sync; what configures the device goes on with the reference.     *)
(***************************************************************************)
BeginIoctl(p) ==
  /\ ~ fault /\ filp[p] # 0 /\ call[p] = "none"
  /\ fault' = (spidev[filp[p]].mem = "freed")
  /\ call' = [call EXCEPT ![p] = IF Bound(filp[p]) THEN "granted" ELSE "shutdown"]
  /\ UNCHANGED <<spidev, drvdata, removing, filp>>

\* spidev_sync: -ESHUTDOWN when the device has gone, or the bytes of the message.
Sync(i, bytes) == IF Bound(i) THEN bytes ELSE -1

\* spidev_message: the transfers share one bounce buffer of Bufsiz bytes.
Message(i, bytes) == IF bytes > Bufsiz THEN -1 ELSE Sync(i, bytes)

\* spidev_read and spidev_write do not ask for the device first.
ReadWrite(i, bytes) == IF bytes > Bufsiz THEN -1 ELSE Sync(i, bytes)

BeginReadWrite(p) ==
  /\ ~ fault /\ filp[p] # 0 /\ call[p] = "none"
  /\ ReadWrite(filp[p], Bufsiz) # -1
  /\ call' = [call EXCEPT ![p] = "transfer"]
  /\ UNCHANGED <<spidev, drvdata, removing, filp, fault>>

\* A system call ends, with the buffer and the data it began with.
EndCall(p) ==
  /\ ~ fault /\ call[p] # "none"
  /\ fault' = (spidev[filp[p]].mem = "freed" \/ ~ spidev[filp[p]].buffer)
  /\ call' = [call EXCEPT ![p] = "none"]
  /\ UNCHANGED <<spidev, drvdata, removing, filp>>

(***************************************************************************)
(* Every spidev_data is freed once nothing refers to it and not before;    *)
(* the bounce buffer exists while a file is open; two nodes never have the *)
(* same minor.                                                             *)
(***************************************************************************)
SpidevLifetimes ==
  ~ fault =>
    /\ \A i \in DOMAIN spidev :
         LET s == spidev[i]
             unlinking == \E d \in SpiDevices : removing[d] = i IN
         /\ s.users = Cardinality({p \in Openers : filp[p] = i})
         /\ s.mem = "live" => s.buffer = (s.users > 0)
         /\ s.mem = "live" => s.users > 0 \/ s.listed \/ unlinking
         /\ s.users > 0 \/ s.spi # "none" => s.mem = "live"
    /\ \A i, j \in Listed : spidev[i].minor = spidev[j].minor => i = j
=============================================================================
