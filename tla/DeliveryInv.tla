---------------------------- MODULE DeliveryInv -----------------------------
(***************************************************************************)
(* The inductive invariants of Delivery: why its safety properties hold.   *)
(*                                                                         *)
(* StreamInv   the ring is a queue: what lies between cons and prod is     *)
(*             numbered consecutively, so records are dispatched in order  *)
(* FilterInv   everything on its way to a subscriber was asked for         *)
(* RenameInv   the records of a thread's renames lie in the ring in the    *)
(*             order in which the thread made them                         *)
(***************************************************************************)
EXTENDS Delivery

(* The number of records in the ring, and how far p is from the oldest. *)
InFlight == reserved - consumed
Dist(p) == IF cons <= p THEN p - cons ELSE Size - cons + p

(* prod is InFlight positions after cons. *)
ProdIsAhead ==
    /\ InFlight <= Size
    /\ prod = IF cons + InFlight < Size THEN cons + InFlight
              ELSE cons + InFlight - Size

(* The used slots are the InFlight ones from cons on, numbered in order. *)
RingNumbers ==
    \A p \in Slots :
        IF Dist(p) < InFlight
        THEN slot[p] # "free" /\ record[p].id = consumed + 1 + Dist(p)
        ELSE slot[p] = "free" /\ record[p] = NoRecord

(* A thread between reserve and commit has a busy slot to itself. *)
Holders ==
    \A t \in Threads :
        held[t] # NoSlot => /\ slot[held[t]] = "busy"
                            /\ \A s \in Threads : held[s] = held[t] => s = t

(* What is in the ring or in pending_renames comes from an attached program. *)
RecordsAreReal ==
    /\ \A p \in Slots :
          slot[p] # "free" => record[p].hook \in attached /\ record[p].thread \in Threads
    /\ \A k \in Pendings :
          /\ pending[k].hook = "vfs_rename"
          /\ pending[k].thread \in Threads
          /\ PidTid(pending[k].thread) = k
    /\ \A t \in Threads : renaming[t] # 0 => "vfs_rename" \in attached

(* A stream that has ended stays empty. *)
EndedIsEmpty == \A o \in ended : loop = "over" /\ chan[o] = <<>>

StreamInv ==
    /\ TypeOK
    /\ ProdIsAhead
    /\ RingNumbers
    /\ Holders
    /\ RecordsAreReal
    /\ InRingOrder
    /\ EndedIsEmpty

-----------------------------------------------------------------------------
(* The program of the hook keeps a record only if its subscriber asked. *)
AskedFor(s, r) ==
    LET o == ConvertedBy(EventType[r.hook]) IN
    r.keep /\ r.hook # "vfs_rename_retval" =>
        /\ OperationMatches(s[o], o, EventType[r.hook], r.mode)
        /\ o = "Network" =>
              /\ Protocol(r.hook) \in {IF m = "TCP" THEN "Tcp" ELSE "Udp" :
                                           m \in s[o].protocol_mask}
              /\ r.hook # "inet_bind" => Protocol(r.hook) = r.sock
        /\ r.hook # "__vm_munmap" => KeyMatches(s[o].filter, Header[r.thread])

(* submit and discard follow keep; renames are never discarded. *)
KeepDecides ==
    \A p \in Slots :
        /\ slot[p] = "data" => record[p].keep
        /\ slot[p] = "discard" => ~record[p].keep
        /\ record[p].hook \in RenameHooks => record[p].keep

FilterInv ==
    /\ StreamInv
    /\ KeepDecides
    /\ \A p \in Slots : slot[p] # "free" => AskedFor(sub, record[p])
    /\ \A k \in Pendings : pending[k].keep /\ AskedFor(sub, pending[k])
    /\ OnlyWhatWasAskedFor

-----------------------------------------------------------------------------
(* A rename on its way through the system.  Its entry record is in the ring *)
(* and then waits in pending_renames; its exit is still to come while the   *)
(* rename runs, and is then a record in the ring.                           *)
IsEntry(r) == r.hook = "vfs_rename"
IsExit(r) == r.hook = "vfs_rename_retval"

InRing == {record[p] : p \in {q \in Slots : /\ slot[q] # "free"
                                            /\ record[q].hook \in RenameHooks}}
Waiting == {pending[k] : k \in Pendings}
ExitToCome(t) == [op |-> renaming[t], thread |-> t, hook |-> "vfs_rename_retval"]
Running == {ExitToCome(t) : t \in {s \in Threads : renaming[s] # 0}}

Traces == InRing \cup Waiting \cup Running

(* The renames in it have begun and have one thread each. *)
OpsHaveBegun ==
    /\ \A a \in Traces : a.op \in 1 .. renames
    /\ entered \subseteq 1 .. renames

OpsHaveOneThread ==
    \A a, b \in Traces : a.op = b.op => a.thread = b.thread

(* a is of an earlier rename than b, or its entry while b is its exit. *)
Before(a, b) == a.op < b.op \/ (a.op = b.op /\ IsEntry(a) /\ IsExit(b))

(* The renames of one thread are in order: what waits in pending_renames,   *)
(* then the ring from its oldest record on, then the one that runs.         *)
ThreadOrder ==
    /\ \A a, b \in InRing : a.thread = b.thread /\ a.id < b.id => Before(a, b)
    /\ \A a \in Waiting, b \in InRing \cup Running :
          a.thread = b.thread => Before(a, b)
    /\ \A a \in InRing, b \in Running : a.thread = b.thread => Before(a, b)

(* The exit of an entry is on its way or was lost, ... *)
EntriesHaveExits ==
    \A e \in Waiting \cup InRing : IsEntry(e) =>
        \/ e.op \in lostExits
        \/ \E x \in InRing \cup Running : IsExit(x) /\ x.op = e.op

(* ... and the entry of an exit, if it was accepted, is ahead of it. *)
ExitsHaveEntries ==
    \A x \in InRing \cup Running : IsExit(x) /\ x.op \in entered \ refused =>
        \E e \in Waiting \cup InRing : IsEntry(e) /\ e.op = x.op

Pipeline ==
    /\ OpsHaveBegun
    /\ OpsHaveOneThread
    /\ ThreadOrder
    /\ EntriesHaveExits
    /\ ExitsHaveEntries

RenameInv ==
    /\ FilterInv
    /\ Pipeline
    /\ PairedOrLost
=============================================================================
