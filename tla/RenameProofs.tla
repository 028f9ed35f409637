---------------------------- MODULE RenameProofs ----------------------------
(***************************************************************************)
(* convert_file_events pairs the entry of a rename with its exit by pid    *)
(* and tid alone.  Proved here for any number of threads, ring size and    *)
(* table size: the pair is of one operation unless the exit of the entry   *)
(* was lost to a full ring.                                                *)
(*                                                                         *)
(* RenameInv sees the system as a pipeline: pending_renames, then the ring *)
(* from its oldest record on, then the renames that run.  A thread does     *)
(* its renames one after the other, so along the pipeline they are in       *)
(* order (ThreadOrder).  The exit at the head of the ring is then of the    *)
(* oldest rename of its thread whose exit was not lost.                     *)
(***************************************************************************)
EXTENDS DeliveryProofs

-----------------------------------------------------------------------------
(* What the steps do to the pipeline. *)

LEMMA RingRecords ==
    ASSUME StreamInv, NEW r \in InRing
    PROVE  /\ r \in Records
           /\ r.hook \in RenameHooks
           /\ r.thread \in Threads
           /\ r.id \in Nat /\ r.id <= reserved
           /\ r.op \in Nat
  <1>1. PICK p \in Slots : /\ slot[p] # "free" /\ record[p].hook \in RenameHooks
                           /\ r = record[p]
    BY DEF InRing
  <1>2. r \in Records /\ r.thread \in Threads
    BY <1>1 DEF StreamInv, TypeOK, RecordsAreReal
  <1>3. Dist(p) < InFlight /\ record[p].id = consumed + 1 + Dist(p)
    BY <1>1 DEF StreamInv, RingNumbers
  <1>4. r.id <= reserved
    BY <1>1, <1>3, DistFacts, SizeAssumption, DeliveryAssumption
    DEF StreamInv, TypeOK, InFlight
  <1>5. r.id \in Nat /\ r.op \in Nat
    BY <1>2, DeliveryAssumption DEF Records, Ops
  <1> QED
    BY <1>1, <1>2, <1>4, <1>5

LEMMA RingAdds ==
    ASSUME StreamInv, NEW t \in Threads, NEW h, NEW in, NEW op,
           Writes(t, h, in, op)
    PROVE  /\ h \in RenameHooks => InRing' = InRing \cup {RecordOf(t, h, in, op)}
           /\ h \notin RenameHooks => InRing' = InRing
  <1> DEFINE x == RecordOf(t, h, in, op)
  <1>1. /\ slot' = [slot EXCEPT ![prod] = "busy"] /\ prod \in Slots
        /\ slot[prod] = "free"
        /\ record' = [record EXCEPT ![prod] = x]
        /\ slot \in [Slots -> {"free", "busy", "data", "discard"}]
        /\ record \in [Slots -> Records]
    BY DEF Writes, Write, Reserve, StreamInv, TypeOK, RingTypeOK
  <1>2. x.hook = h
    BY DEF RecordOf
  <1> HIDE DEF x
  <1>3. h \in RenameHooks => InRing' = InRing \cup {x}
    BY <1>1, <1>2 DEF InRing
  <1>4. h \notin RenameHooks => InRing' = InRing
    BY <1>1, <1>2 DEF InRing
  <1> QED
    BY <1>3, <1>4 DEF x

LEMMA RingKeeps ==
    ASSUME StreamInv,
           \/ \E t \in Threads : Finish(t)
           \/ Idle
           \/ \E o \in Owners : Poll(o) \/ PollNone(o) \/ Drop(o)
    PROVE  InRing' = InRing
  <1>1. CASE \E t \in Threads : Finish(t)
    <2>1. PICK t \in Threads : Finish(t)
      BY <1>1
    <2>2. /\ held[t] \in Slots /\ slot[held[t]] = "busy" /\ record' = record
          /\ \E how \in {"data", "discard"} : slot' = [slot EXCEPT ![held[t]] = how]
          /\ slot \in [Slots -> {"free", "busy", "data", "discard"}]
      BY <2>1
      DEF Finish, Commit, dataVars, StreamInv, TypeOK, RingTypeOK, Holders
    <2> QED
      BY <2>2 DEF InRing
  <1>2. CASE UNCHANGED <<slot, record>>
    BY <1>2 DEF InRing
  <1> QED
    BY <1>1, <1>2 DEF Idle, Poll, PollNone, Drop, DropStream, ringVars

LEMMA RingDrops ==
    ASSUME StreamInv, Dispatch \/ SkipDiscarded
    PROVE  InRing' = InRing \ {record[cons]}
  <1>1. /\ slot' = [slot EXCEPT ![cons] = "free"] /\ cons \in Slots
        /\ record' = [record EXCEPT ![cons] = NoRecord]
        /\ slot \in [Slots -> {"free", "busy", "data", "discard"}]
        /\ record \in [Slots -> Records]
    BY DEF Dispatch, SkipDiscarded, Consume, StreamInv, TypeOK, RingTypeOK
  <1>2. ASSUME NEW p \in Slots, slot[p] # "free", p # cons
        PROVE  record[p] # record[cons]
    <2>1. record[cons].id = consumed + 1
      BY HeadIsNext DEF StreamInv, Dispatch, SkipDiscarded, Consume
    <2>2. record[p].id = consumed + 1 + Dist(p)
      BY <1>2 DEF StreamInv, RingNumbers
    <2>3. Dist(p) \in Nat /\ Dist(p) # 0
      BY <1>1, <1>2, DistFacts, SizeAssumption DEF StreamInv
    <2> QED
      BY <2>1, <2>2, <2>3, DeliveryAssumption DEF StreamInv, TypeOK
  <1> QED
    BY <1>1, <1>2 DEF InRing

(* The record at the head is the oldest. *)
LEMMA HeadIsOldest ==
    ASSUME StreamInv, Dispatch, NEW r \in InRing, r # record[cons]
    PROVE  record[cons].id < r.id
  <1>1. PICK p \in Slots : slot[p] # "free" /\ r = record[p]
    BY DEF InRing
  <1>2. p # cons /\ record[cons].id = consumed + 1
    BY <1>1, DispatchedRecord
  <1>3. record[p].id = consumed + 1 + Dist(p)
    BY <1>1 DEF StreamInv, RingNumbers
  <1>4. Dist(p) \in Nat /\ Dist(p) # 0
    BY <1>1, <1>2, DistFacts, SizeAssumption DEF StreamInv, TypeOK, RingTypeOK
  <1> QED
    BY <1>1, <1>2, <1>3, <1>4, DeliveryAssumption DEF StreamInv, TypeOK

(* A key of pending_renames belongs to one thread. *)
LEMMA KeyIsOneThread ==
    ASSUME NEW s \in Threads, NEW t \in Threads, PidTid(s) = PidTid(t)
    PROVE  s = t
  BY ThreadsAssumption DEF PidTid

LEMMA WaitingEntries ==
    ASSUME StreamInv, NEW e \in Waiting
    PROVE  /\ e \in Records
           /\ IsEntry(e)
           /\ e.thread \in Threads
           /\ PidTid(e.thread) \in PidTids
           /\ e = pending[PidTid(e.thread)]
           /\ e.op \in Nat
  <1>1. PICK k \in PidTids : pending[k] # NoRecord /\ e = pending[k]
    BY DEF Waiting, Pendings
  <1>2. /\ e \in Records /\ e.hook = "vfs_rename" /\ e.thread \in Threads
        /\ PidTid(e.thread) = k
    BY <1>1 DEF StreamInv, TypeOK, RecordsAreReal, Pendings
  <1>3. e.op \in Nat
    BY <1>2, DeliveryAssumption DEF Records, Ops
  <1> QED
    BY <1>1, <1>2, <1>3 DEF IsEntry

LEMMA EntryWaits ==
    ASSUME StreamInv, NEW t \in Threads, NEW x \in Records, x # NoRecord,
           x.thread = t, pending' = [pending EXCEPT ![PidTid(t)] = x]
    PROVE  Waiting' = {e \in Waiting : e.thread # t} \cup {x}
  <1>1. PidTid(t) \in PidTids /\ pending \in [PidTids -> Records]
    BY DEF PidTids, StreamInv, TypeOK
  <1>2. \A k \in PidTids : pending[k] # NoRecord =>
            pending[k].thread \in Threads /\ PidTid(pending[k].thread) = k
    BY DEF StreamInv, RecordsAreReal, Pendings
  <1>3. \A k \in PidTids : pending[k] # NoRecord =>
            (k # PidTid(t) <=> pending[k].thread # t)
    BY <1>2, KeyIsOneThread
  <1>4. \A e \in Waiting' : e \in {d \in Waiting : d.thread # t} \cup {x}
    BY <1>1, <1>3 DEF Waiting, Pendings
  <1>5. \A e \in {d \in Waiting : d.thread # t} \cup {x} : e \in Waiting'
    BY <1>1, <1>3 DEF Waiting, Pendings
  <1> QED
    BY <1>4, <1>5

LEMMA EntryTaken ==
    ASSUME StreamInv, NEW t \in Threads,
           pending' = [pending EXCEPT ![PidTid(t)] = NoRecord]
    PROVE  Waiting' = {e \in Waiting : e.thread # t}
  <1>1. PidTid(t) \in PidTids /\ pending \in [PidTids -> Records]
    BY DEF PidTids, StreamInv, TypeOK
  <1>2. \A k \in PidTids : pending[k] # NoRecord =>
            pending[k].thread \in Threads /\ PidTid(pending[k].thread) = k
    BY DEF StreamInv, RecordsAreReal, Pendings
  <1>3. \A k \in PidTids : pending[k] # NoRecord =>
            (k # PidTid(t) <=> pending[k].thread # t)
    BY <1>2, KeyIsOneThread
  <1>4. \A e \in Waiting' : e \in {d \in Waiting : d.thread # t}
    BY <1>1, <1>3 DEF Waiting, Pendings
  <1>5. \A e \in {d \in Waiting : d.thread # t} : e \in Waiting'
    BY <1>1, <1>3 DEF Waiting, Pendings
  <1> QED
    BY <1>4, <1>5

LEMMA RenameBegins ==
    ASSUME TypeOK, NEW t \in Threads, renaming[t] = 0, NEW n \in Nat \ {0},
           renaming' = [renaming EXCEPT ![t] = n]
    PROVE  /\ Running' = Running \cup {ExitToCome(t)'}
           /\ \A x \in Running : x.thread # t
           /\ ExitToCome(t)'.op = n /\ ExitToCome(t)'.thread = t
           /\ IsExit(ExitToCome(t)')
  BY DEF TypeOK, Running, ExitToCome, IsExit

LEMMA RenameEnds ==
    ASSUME TypeOK, NEW t \in Threads, renaming[t] # 0,
           renaming' = [renaming EXCEPT ![t] = 0]
    PROVE  /\ ExitToCome(t) \in Running
           /\ Running' = Running \ {ExitToCome(t)}
           /\ \A x \in Running' : x.thread # t
  BY DEF TypeOK, Running, ExitToCome

LEMMA RunningExits ==
    ASSUME TypeOK, NEW x \in Running
    PROVE  /\ IsExit(x)
           /\ x.thread \in Threads /\ x.op \in Nat \ {0}
           /\ x = ExitToCome(x.thread) /\ x.op = renaming[x.thread]
  BY DeliveryAssumption DEF TypeOK, Running, ExitToCome, IsExit, Ops

-----------------------------------------------------------------------------
(* The steps of the pipeline keep it in order. *)

LEMMA TraceTypes ==
    ASSUME StreamInv
    PROVE  /\ renames \in Nat
           /\ \A a \in Traces : a.op \in Nat
           /\ \A a \in InRing : a.id \in Nat /\ a.id <= reserved
           /\ \A a \in InRing : IsEntry(a) \/ IsExit(a)
           /\ \A a \in Waiting : IsEntry(a)
           /\ \A a \in Running : IsExit(a)
           /\ \A a \in Traces : ~(IsEntry(a) /\ IsExit(a))
  <1>1. \A a \in InRing : IsEntry(a) \/ IsExit(a)
    BY RingRecords DEF RenameHooks, IsEntry, IsExit
  <1>2. \A a \in Traces : a.op \in Nat
    BY RingRecords, WaitingEntries, RunningExits DEF Traces, StreamInv
  <1>3. renames \in Nat /\ TypeOK
    BY DeliveryAssumption DEF StreamInv, TypeOK, Ops
  <1>4. \A a \in Traces : ~(IsEntry(a) /\ IsExit(a))
    BY DEF IsEntry, IsExit
  <1> QED
    BY <1>1, <1>2, <1>3, <1>4, RingRecords, WaitingEntries, RunningExits

LEMMA PipelineQuiet ==
    ASSUME Pipeline, InRing' = InRing, Waiting' = Waiting, Running' = Running,
           UNCHANGED <<renames, entered, refused, lostExits>>
    PROVE  Pipeline'
  BY DEF Pipeline, OpsHaveBegun, OpsHaveOneThread, ThreadOrder,
         EntriesHaveExits, ExitsHaveEntries, Traces, Before, IsEntry, IsExit

(* A rename begins; its entry record may not be written. *)
LEMMA PipelineBegins ==
    ASSUME StreamInv, Pipeline, NEW t \in Threads, NEW y, NEW New,
           renames' = renames + 1,
           y.op = renames + 1, y.thread = t, IsExit(y),
           Running' = Running \cup {y},
           \A a \in Running : a.thread # t,
           Waiting' = Waiting, refused' = refused, lostExits' = lostExits,
           InRing' = InRing \cup New,
           \A a \in New : /\ a.op = renames + 1 /\ a.thread = t
                          /\ IsEntry(a) /\ ~IsExit(a) /\ a.id = reserved + 1,
           entered' = entered \/ entered' = entered \cup {renames + 1},
           New = {} => entered' = entered
    PROVE  Pipeline'
  <1> USE TraceTypes DEF Pipeline
  <1>0. reserved \in Nat
    BY DeliveryAssumption DEF StreamInv, TypeOK
  <1>1. OpsHaveBegun'
    <2>1. renames \in Nat /\ renames + 1 \in 1 .. renames'
          /\ 1 .. renames \subseteq 1 .. renames'
      OBVIOUS
    <2>2. \A a \in Traces' : a \in Traces \/ a.op = renames + 1
      BY DEF Traces
    <2>3. entered' \subseteq 1 .. renames'
      BY <2>1 DEF OpsHaveBegun
    <2> QED
      BY <2>1, <2>2, <2>3 DEF OpsHaveBegun
  <1>2. OpsHaveOneThread'
    BY DEF OpsHaveBegun, OpsHaveOneThread, Traces
  <1>3. ThreadOrder'
    <2>1. ASSUME NEW a \in InRing', NEW b \in InRing', a.thread = b.thread, a.id < b.id
          PROVE  Before(a, b)
      BY <1>0, <2>1 DEF ThreadOrder, OpsHaveBegun, Traces, Before
    <2>2. ASSUME NEW a \in Waiting, NEW b \in InRing' \cup Running', a.thread = b.thread
          PROVE  Before(a, b)
      BY <2>2 DEF ThreadOrder, OpsHaveBegun, Traces, Before
    <2>3. ASSUME NEW a \in InRing', NEW b \in Running', a.thread = b.thread
          PROVE  Before(a, b)
      BY <2>3 DEF ThreadOrder, OpsHaveBegun, Traces, Before
    <2> QED
      BY <2>1, <2>2, <2>3 DEF ThreadOrder, Before, IsEntry, IsExit
  <1>4. EntriesHaveExits'
    BY DEF EntriesHaveExits, IsEntry, IsExit
  <1>5. ExitsHaveEntries'
    <2> SUFFICES ASSUME NEW x \in InRing' \cup Running', IsExit(x),
                        x.op \in entered' \ refused
                 PROVE  \E e \in Waiting \cup InRing' : IsEntry(e) /\ e.op = x.op
      BY DEF ExitsHaveEntries, IsEntry, IsExit
    <2>1. CASE x \in InRing \cup Running
      BY <2>1 DEF ExitsHaveEntries, OpsHaveBegun, Traces
    <2>2. CASE x = y
      BY <2>2 DEF OpsHaveBegun
    <2> QED
      BY <2>1, <2>2
  <1> QED
    BY <1>1, <1>2, <1>3, <1>4, <1>5

(* A rename ends: its exit record is written, ... *)
LEMMA PipelineEnds ==
    ASSUME StreamInv, Pipeline, NEW y \in Running, NEW x,
           Running' = Running \ {y},
           \A a \in Running' : a.thread # y.thread,
           x.op = y.op, x.thread = y.thread, IsExit(x), ~IsEntry(x),
           x.id = reserved + 1,
           InRing' = InRing \cup {x},
           UNCHANGED <<renames, entered, refused, lostExits>>,
           Waiting' = Waiting
    PROVE  Pipeline'
  <1> USE TraceTypes DEF Pipeline
  <1>0. reserved \in Nat /\ IsExit(y) /\ y \in Traces
    BY RunningExits, DeliveryAssumption DEF StreamInv, TypeOK, Traces
  <1>1. OpsHaveBegun'
    BY <1>0 DEF OpsHaveBegun, Traces
  <1>2. OpsHaveOneThread'
    BY <1>0 DEF OpsHaveOneThread, Traces
  <1>3. ThreadOrder'
    <2>1. ASSUME NEW a \in InRing', NEW b \in InRing', a.thread = b.thread, a.id < b.id
          PROVE  Before(a, b)
      BY <1>0, <2>1 DEF ThreadOrder, Before
    <2>2. ASSUME NEW a \in Waiting, NEW b \in InRing' \cup Running', a.thread = b.thread
          PROVE  Before(a, b)
      BY <1>0, <2>2 DEF ThreadOrder, Before
    <2>3. ASSUME NEW a \in InRing', NEW b \in Running', a.thread = b.thread
          PROVE  Before(a, b)
      BY <2>3 DEF ThreadOrder, Before
    <2> QED
      BY <2>1, <2>2, <2>3 DEF ThreadOrder, Before, IsEntry, IsExit
  <1>4. EntriesHaveExits'
    <2> SUFFICES ASSUME NEW e \in Waiting \cup InRing', IsEntry(e), e.op \notin lostExits
                 PROVE  \E z \in InRing' \cup Running' : IsExit(z) /\ z.op = e.op
      BY DEF EntriesHaveExits, IsEntry, IsExit
    <2>1. PICK z \in InRing \cup Running : IsExit(z) /\ z.op = e.op
      BY DEF EntriesHaveExits
    <2> QED
      BY <2>1
  <1>5. ExitsHaveEntries'
    <2> SUFFICES ASSUME NEW z \in InRing' \cup Running', IsExit(z),
                        z.op \in entered \ refused
                 PROVE  \E e \in Waiting \cup InRing' : IsEntry(e) /\ e.op = z.op
      BY DEF ExitsHaveEntries, IsEntry, IsExit
    <2>1. PICK w \in InRing \cup Running : IsExit(w) /\ w.op = z.op
      BY <1>0
    <2> QED
      BY <2>1 DEF ExitsHaveEntries
  <1> QED
    BY <1>1, <1>2, <1>3, <1>4, <1>5

(* ... or finds the ring full. *)
LEMMA PipelineLoses ==
    ASSUME StreamInv, Pipeline, NEW y \in Running,
           Running' = Running \ {y},
           InRing' = InRing, Waiting' = Waiting,
           UNCHANGED <<renames, entered, refused>>,
           lostExits' = lostExits \cup {y.op}
    PROVE  Pipeline'
  <1> USE DEF Pipeline
  <1>1. OpsHaveBegun' /\ OpsHaveOneThread'
    BY DEF OpsHaveBegun, OpsHaveOneThread, Traces
  <1>2. ThreadOrder'
    BY DEF ThreadOrder, Before, IsEntry, IsExit
  <1>3. EntriesHaveExits'
    BY DEF EntriesHaveExits, IsEntry, IsExit
  <1>4. ExitsHaveEntries'
    BY DEF ExitsHaveEntries, IsEntry, IsExit
  <1> QED
    BY <1>1, <1>2, <1>3, <1>4

(* The entry at the head of the ring goes to pending_renames, where it      *)
(* replaces what an earlier rename of its thread left; ... *)
LEMMA PipelineInserts ==
    ASSUME StreamInv, Pipeline, NEW x \in InRing, IsEntry(x),
           \A r \in InRing : r # x => x.id < r.id,
           InRing' = InRing \ {x}, Running' = Running,
           Waiting' = {e \in Waiting : e.thread # x.thread} \cup {x},
           UNCHANGED <<renames, entered, refused, lostExits>>
    PROVE  Pipeline'
  <1> USE TraceTypes DEF Pipeline
  <1>0. x \in Traces /\ ~IsExit(x) /\ Traces' \subseteq Traces
    BY DEF Traces
  <1>1. OpsHaveBegun' /\ OpsHaveOneThread'
    BY <1>0 DEF OpsHaveBegun, OpsHaveOneThread
  <1>2. \A b \in InRing' \cup Running : b.thread = x.thread => Before(x, b)
    BY DEF ThreadOrder
  <1>3. ThreadOrder'
    <2>1. ASSUME NEW a \in Waiting', NEW b \in InRing' \cup Running, a.thread = b.thread
          PROVE  Before(a, b)
      BY <1>2, <2>1 DEF ThreadOrder
    <2> QED
      BY <2>1 DEF ThreadOrder, Before, IsEntry, IsExit
  <1>4. EntriesHaveExits'
    <2> SUFFICES ASSUME NEW e \in Waiting' \cup InRing', IsEntry(e), e.op \notin lostExits
                 PROVE  \E z \in InRing' \cup Running : IsExit(z) /\ z.op = e.op
      BY DEF EntriesHaveExits, IsEntry, IsExit
    <2>1. PICK z \in InRing \cup Running : IsExit(z) /\ z.op = e.op
      BY DEF EntriesHaveExits
    <2> QED
      BY <1>0, <2>1
  <1>5. ExitsHaveEntries'
    <2> SUFFICES ASSUME NEW z \in InRing' \cup Running, IsExit(z),
                        z.op \in entered \ refused
                 PROVE  \E e \in Waiting' \cup InRing' : IsEntry(e) /\ e.op = z.op
      BY DEF ExitsHaveEntries, IsEntry, IsExit
    <2>1. PICK e \in Waiting \cup InRing : IsEntry(e) /\ e.op = z.op
      BY DEF ExitsHaveEntries
    <2>2. CASE e \in InRing \/ e.thread # x.thread
      BY <2>1, <2>2
    <2>3. CASE e \in Waiting /\ e.thread = x.thread
      <3>1. e \in Traces /\ z \in Traces /\ z.thread = x.thread
        BY <2>1, <2>3 DEF Traces, OpsHaveOneThread
      <3>2. Before(e, x) /\ Before(x, z)
        BY <1>2, <2>3, <3>1 DEF ThreadOrder
      <3>3. e.op < x.op /\ x.op <= z.op
        BY <1>0, <3>1, <3>2 DEF Before
      <3> QED
        BY <1>0, <2>1, <3>1, <3>3
    <2> QED
      BY <2>1, <2>2, <2>3
  <1> QED
    BY <1>1, <1>3, <1>4, <1>5

(* ... unless the table is full, when it is dropped. *)
LEMMA PipelineRefuses ==
    ASSUME StreamInv, Pipeline, NEW x \in InRing, IsEntry(x),
           InRing' = InRing \ {x}, Running' = Running, Waiting' = Waiting,
           UNCHANGED <<renames, entered, lostExits>>,
           refused' = refused \cup {x.op}
    PROVE  Pipeline'
  <1> USE TraceTypes DEF Pipeline
  <1>0. x \in Traces /\ ~IsExit(x) /\ Traces' \subseteq Traces
    BY DEF Traces
  <1>1. OpsHaveBegun' /\ OpsHaveOneThread'
    BY <1>0 DEF OpsHaveBegun, OpsHaveOneThread
  <1>2. ThreadOrder'
    BY DEF ThreadOrder, Before, IsEntry, IsExit
  <1>3. EntriesHaveExits'
    <2> SUFFICES ASSUME NEW e \in Waiting \cup InRing', IsEntry(e), e.op \notin lostExits
                 PROVE  \E z \in InRing' \cup Running : IsExit(z) /\ z.op = e.op
      BY DEF EntriesHaveExits, IsEntry, IsExit
    <2>1. PICK z \in InRing \cup Running : IsExit(z) /\ z.op = e.op
      BY DEF EntriesHaveExits
    <2> QED
      BY <1>0, <2>1
  <1>4. ExitsHaveEntries'
    <2> SUFFICES ASSUME NEW z \in InRing' \cup Running, IsExit(z),
                        z.op \in entered \ refused, z.op # x.op
                 PROVE  \E e \in Waiting \cup InRing' : IsEntry(e) /\ e.op = z.op
      BY DEF ExitsHaveEntries, IsEntry, IsExit
    <2>1. PICK e \in Waiting \cup InRing : IsEntry(e) /\ e.op = z.op
      BY DEF ExitsHaveEntries
    <2> QED
      BY <2>1
  <1> QED
    BY <1>1, <1>2, <1>3, <1>4

(* The exit at the head takes the entry of its thread out of the table. *)
LEMMA PipelineTakes ==
    ASSUME StreamInv, Pipeline, NEW x \in InRing, IsExit(x),
           \A r \in InRing : r # x => x.id < r.id,
           InRing' = InRing \ {x}, Running' = Running,
           Waiting' = {e \in Waiting : e.thread # x.thread},
           UNCHANGED <<renames, entered, refused, lostExits>>
    PROVE  Pipeline'
  <1> USE TraceTypes DEF Pipeline
  <1>0. x \in Traces /\ ~IsEntry(x) /\ Traces' \subseteq Traces
    BY DEF Traces
  <1>1. OpsHaveBegun' /\ OpsHaveOneThread'
    BY <1>0 DEF OpsHaveBegun, OpsHaveOneThread
  <1>2. \A b \in InRing' \cup Running : b.thread = x.thread => x.op < b.op
    BY <1>0 DEF ThreadOrder, Before
  <1>3. ThreadOrder'
    BY DEF ThreadOrder, Before, IsEntry, IsExit
  <1>4. EntriesHaveExits'
    <2> SUFFICES ASSUME NEW e \in Waiting' \cup InRing', IsEntry(e), e.op \notin lostExits
                 PROVE  \E z \in InRing' \cup Running : IsExit(z) /\ z.op = e.op
      BY DEF EntriesHaveExits, IsEntry, IsExit
    <2>1. PICK z \in InRing \cup Running : IsExit(z) /\ z.op = e.op
      BY DEF EntriesHaveExits
    <2>2. z # x
      <3> SUFFICES ASSUME z = x PROVE FALSE
        OBVIOUS
      <3>1. e \in Traces /\ e.thread = x.thread
        BY <1>0, <2>1 DEF Traces, OpsHaveOneThread
      <3>2. e \in InRing'
        BY <3>1
      <3> QED
        BY <1>2, <2>1, <3>1, <3>2
    <2> QED
      BY <2>1, <2>2
  <1>5. ExitsHaveEntries'
    <2> SUFFICES ASSUME NEW z \in InRing' \cup Running, IsExit(z),
                        z.op \in entered \ refused
                 PROVE  \E e \in Waiting' \cup InRing' : IsEntry(e) /\ e.op = z.op
      BY DEF ExitsHaveEntries, IsEntry, IsExit
    <2>1. PICK e \in Waiting \cup InRing : IsEntry(e) /\ e.op = z.op
      BY DEF ExitsHaveEntries
    <2>2. CASE e \in InRing \/ e.thread # x.thread
      BY <1>0, <2>1, <2>2
    <2>3. CASE e \in Waiting /\ e.thread = x.thread
      <3>1. e \in Traces /\ z \in Traces /\ z.thread = x.thread
        BY <2>1, <2>3 DEF Traces, OpsHaveOneThread
      <3>2. Before(e, x) /\ x.op < z.op
        BY <1>2, <2>3, <3>1 DEF ThreadOrder
      <3> QED
        BY <1>0, <2>1, <3>1, <3>2 DEF Before
    <2> QED
      BY <2>1, <2>2, <2>3
  <1> QED
    BY <1>1, <1>3, <1>4, <1>5

(* The entry the exit at the head finds is its own, or its exit was lost. *)
LEMMA HeadFindsItsEntry ==
    ASSUME StreamInv, Pipeline, NEW x \in InRing, IsExit(x),
           \A r \in InRing : r # x => x.id < r.id,
           NEW e \in Waiting, e.thread = x.thread
    PROVE  e.op = x.op \/ e.op \in lostExits
  <1> USE TraceTypes DEF Pipeline
  <1> SUFFICES ASSUME e.op # x.op, e.op \notin lostExits PROVE FALSE
    OBVIOUS
  <1>1. x \in Traces /\ e \in Traces /\ IsEntry(e) /\ ~IsEntry(x)
    BY DEF Traces
  <1>2. e.op < x.op
    BY <1>1 DEF ThreadOrder, Before
  <1>3. PICK y \in InRing \cup Running : IsExit(y) /\ y.op = e.op
    BY <1>1 DEF EntriesHaveExits
  <1>4. y \in Traces /\ y.thread = x.thread /\ y # x
    BY <1>1, <1>3 DEF Traces, OpsHaveOneThread
  <1>5. x.op < y.op
    BY <1>1, <1>3, <1>4 DEF ThreadOrder, Before
  <1> QED
    BY <1>1, <1>2, <1>3, <1>4, <1>5

-----------------------------------------------------------------------------
(* RenameInv is inductive. *)

LEMMA SameTables ==
    /\ UNCHANGED <<slot, record>> => InRing' = InRing
    /\ pending' = pending => Waiting' = Waiting
    /\ renaming' = renaming => Running' = Running
  BY DEF InRing, Waiting, Pendings, Running, ExitToCome

LEMMA KernelPipeline ==
    ASSUME FilterInv, Pipeline, NEW t \in Threads, KernelStep(t)
    PROVE  Pipeline'
  <1>0. StreamInv /\ TypeOK /\ renames \in Nat /\ renaming[t] \in Nat
    BY DeliveryAssumption DEF FilterInv, StreamInv, TypeOK, Ops
  <1>1. ASSUME NEW h \in attached \ RenameHooks, NEW in \in Inputs, Fire(t, h, in)
        PROVE  Pipeline'
    <2>1. Writes(t, h, in, 0) /\ UNCHANGED <<renaming, renames, entered, refused, lostExits>>
      BY <1>0, <1>1, FireWrites DEF history
    <2>2. InRing' = InRing
      BY <1>0, <1>1, <2>1, RingAdds
    <2> QED
      BY <2>1, <2>2, SameTables, PipelineQuiet DEF Writes
  <1>2. CASE Finish(t)
    <2>1. /\ UNCHANGED <<pending, renaming, renames, entered, refused, lostExits>>
          /\ InRing' = InRing
      BY <1>0, <1>2, RingKeeps DEF Finish, dataVars, history
    <2> QED
      BY <2>1, SameTables, PipelineQuiet
  <1>3. ASSUME BeginRename(t)
        PROVE  /\ renames' = renames + 1
               /\ ExitToCome(t)'.op = renames + 1 /\ ExitToCome(t)'.thread = t
               /\ IsExit(ExitToCome(t)')
               /\ Running' = Running \cup {ExitToCome(t)'}
               /\ \A a \in Running : a.thread # t
               /\ Waiting' = Waiting /\ refused' = refused /\ lostExits' = lostExits
    <2>1. /\ renaming[t] = 0 /\ renaming' = [renaming EXCEPT ![t] = renames + 1]
          /\ renames' = renames + 1 /\ UNCHANGED <<pending, refused, lostExits>>
      BY <1>3 DEF BeginRename
    <2>2. renames + 1 \in Nat \ {0}
      BY <1>0
    <2> QED
      BY <1>0, <2>1, <2>2, RenameBegins, SameTables
  <1>4. ASSUME NEW in \in Inputs, RenameEntry(t, in)
        PROVE  Pipeline'
    <2> DEFINE x == RecordOf(t, "vfs_rename", in, renames + 1)
    <2>1. Writes(t, "vfs_rename", in, renames + 1)
      BY <1>0, <1>4, EntryWrites
    <2>2. InRing' = InRing \cup {x}
      BY <1>0, <2>1, RingAdds DEF RenameHooks
    <2>3. /\ x.op = renames + 1 /\ x.thread = t /\ x.id = reserved + 1
          /\ IsEntry(x) /\ ~IsExit(x)
      BY DEF RecordOf, IsEntry, IsExit
    <2>4. BeginRename(t) /\ entered' = entered \cup {renames + 1}
      BY <1>4 DEF RenameEntry
    <2> DEFINE y == ExitToCome(t)'
               New == {x}
    <2>5. /\ y.op = renames + 1 /\ y.thread = t /\ IsExit(y)
          /\ Running' = Running \cup {y}
          /\ renames' = renames + 1 /\ \A a \in Running : a.thread # t
          /\ Waiting' = Waiting /\ refused' = refused /\ lostExits' = lostExits
      BY <1>3, <2>4
    <2>6. /\ InRing' = InRing \cup New /\ New # {}
          /\ \A a \in New : /\ a.op = renames + 1 /\ a.thread = t
                            /\ IsEntry(a) /\ ~IsExit(a) /\ a.id = reserved + 1
      BY <2>2, <2>3
    <2> HIDE DEF x, y, New
    <2> QED
      BY <1>0, <2>4, <2>5, <2>6, PipelineBegins
  <1>5. ASSUME NEW in \in Inputs, RenameEntrySkipped(t, in)
        PROVE  Pipeline'
    <2>1. BeginRename(t) /\ entered' = entered /\ UNCHANGED <<slot, record>>
      BY <1>5 DEF RenameEntrySkipped, ringVars
    <2> DEFINE y == ExitToCome(t)'
               New == {}
    <2>2. /\ y.op = renames + 1 /\ y.thread = t /\ IsExit(y)
          /\ Running' = Running \cup {y}
          /\ renames' = renames + 1 /\ \A a \in Running : a.thread # t
          /\ Waiting' = Waiting /\ refused' = refused /\ lostExits' = lostExits
      BY <1>3, <2>1
    <2>3. /\ InRing' = InRing \cup New
          /\ \A a \in New : /\ a.op = renames + 1 /\ a.thread = t
                            /\ IsEntry(a) /\ ~IsExit(a) /\ a.id = reserved + 1
      BY <2>1, SameTables
    <2> HIDE DEF y, New
    <2> QED
      BY <1>0, <2>1, <2>2, <2>3, PipelineBegins
  <1>6. CASE RenameExit(t)
    <2> DEFINE x == RecordOf(t, "vfs_rename_retval", NoInput, renaming[t])
    <2>1. Writes(t, "vfs_rename_retval", NoInput, renaming[t])
      BY <1>0, <1>6, ExitWrites
    <2>2. InRing' = InRing \cup {x}
      BY <1>0, <2>1, RingAdds DEF RenameHooks
    <2>3. /\ x.op = renaming[t] /\ x.thread = t /\ x.id = reserved + 1
          /\ IsExit(x) /\ ~IsEntry(x)
      BY DEF RecordOf, IsEntry, IsExit
    <2>4. /\ renaming[t] # 0 /\ renaming' = [renaming EXCEPT ![t] = 0]
          /\ UNCHANGED <<renames, entered, refused, lostExits, pending>>
      BY <1>6 DEF RenameExit, history
    <2>5. /\ ExitToCome(t) \in Running /\ Running' = Running \ {ExitToCome(t)}
          /\ \A a \in Running' : a.thread # t
      BY <1>0, <2>4, RenameEnds
    <2>6. ExitToCome(t).op = renaming[t] /\ ExitToCome(t).thread = t
      BY DEF ExitToCome
    <2> HIDE DEF x
    <2> QED
      BY <1>0, <2>2, <2>3, <2>4, <2>5, <2>6, SameTables, PipelineEnds
  <1>7. CASE RenameExitLost(t)
    <2>1. /\ renaming[t] # 0 /\ renaming' = [renaming EXCEPT ![t] = 0]
          /\ lostExits' = lostExits \cup {renaming[t]}
          /\ UNCHANGED <<slot, record, renames, entered, refused, pending>>
      BY <1>7 DEF RenameExitLost, ringVars
    <2>2. /\ ExitToCome(t) \in Running /\ Running' = Running \ {ExitToCome(t)}
          /\ ExitToCome(t).op = renaming[t]
      BY <1>0, <2>1, RenameEnds DEF ExitToCome
    <2> QED
      BY <1>0, <2>1, <2>2, SameTables, PipelineLoses
  <1> QED
    BY <1>1, <1>2, <1>4, <1>5, <1>6, <1>7 DEF KernelStep

LEMMA DispatchPipeline ==
    ASSUME FilterInv, Pipeline, Dispatch
    PROVE  Pipeline'
  <1> DEFINE x == record[cons]
  <1>0. /\ StreamInv /\ x \in Records /\ x.thread \in Threads
        /\ UNCHANGED <<renaming, renames, entered, lostExits>>
        /\ InRing' = InRing \ {x}
        /\ Running' = Running
    BY DispatchedRecord, RingDrops, SameTables DEF FilterInv, Dispatch
  <1>1. ASSUME x.hook \in RenameHooks
        PROVE  x \in InRing /\ \A r \in InRing : r # x => x.id < r.id
    <2>1. cons \in Slots /\ slot[cons] # "free"
      BY <1>0 DEF StreamInv, TypeOK, RingTypeOK, Dispatch
    <2> QED
      BY <1>0, <1>1, <2>1, HeadIsOldest DEF InRing
  <1>2. CASE x.hook = "vfs_rename" /\ InsertPending(x)
    <2>1. x \in InRing /\ IsEntry(x) /\ \A r \in InRing : r # x => x.id < r.id
      BY <1>1, <1>2 DEF RenameHooks, IsEntry
    <2>2. CASE Cardinality(Pendings) >= MaxPending
      <3>1. pending' = pending /\ refused' = refused \cup {x.op}
        BY <1>2, <2>2 DEF InsertPending
      <3> HIDE DEF x
      <3> QED
        BY <1>0, <2>1, <3>1, SameTables, PipelineRefuses
    <2>3. CASE ~(Cardinality(Pendings) >= MaxPending)
      <3>1. /\ pending' = [pending EXCEPT ![PidTid(x.thread)] = x]
            /\ refused' = refused /\ x # NoRecord
        BY <1>2, <2>3 DEF InsertPending, NoRecord
      <3> HIDE DEF x
      <3>2. Waiting' = {e \in Waiting : e.thread # x.thread} \cup {x}
        BY <1>0, <3>1, EntryWaits
      <3> QED
        BY <1>0, <2>1, <3>1, <3>2, PipelineInserts
    <2> QED
      BY <2>2, <2>3
  <1>3. CASE x.hook = "vfs_rename_retval" /\ TakePending(x)
    <2>1. x \in InRing /\ IsExit(x) /\ \A r \in InRing : r # x => x.id < r.id
      BY <1>1, <1>3 DEF RenameHooks, IsExit
    <2>2. pending' = [pending EXCEPT ![PidTid(x.thread)] = NoRecord] /\ refused' = refused
      BY <1>3 DEF TakePending
    <2> HIDE DEF x
    <2>3. Waiting' = {e \in Waiting : e.thread # x.thread}
      BY <1>0, <2>2, EntryTaken
    <2> QED
      BY <1>0, <2>1, <2>2, <2>3, PipelineTakes
  <1>4. CASE x.hook \notin RenameHooks /\ UNCHANGED <<pending, refused>>
    <2>1. InRing' = InRing
      BY <1>0, <1>4, RingRecords
    <2> QED
      BY <1>0, <1>4, <2>1, SameTables, PipelineQuiet
  <1> QED
    BY <1>0, <1>2, <1>3, <1>4, DispatchArms

LEMMA SkipPipeline ==
    ASSUME FilterInv, Pipeline, SkipDiscarded
    PROVE  Pipeline'
  <1>1. record[cons].hook \notin RenameHooks
    BY DEF SkipDiscarded, FilterInv, StreamInv, TypeOK, RingTypeOK, KeepDecides
  <1>2. InRing' = InRing
    BY <1>1, RingDrops, RingRecords DEF FilterInv
  <1> QED
    BY <1>2, SameTables, PipelineQuiet DEF SkipDiscarded, history

LEMMA NextPipeline ==
    ASSUME FilterInv, Pipeline, [Next]_vars
    PROVE  Pipeline'
  <1>1. ASSUME UNCHANGED <<slot, record, pending, renaming, renames, entered,
                           refused, lostExits>>
        PROVE  Pipeline'
    BY <1>1, SameTables, PipelineQuiet
  <1>2. ASSUME \/ LoopWakes \/ LoopParks \/ LoopFails
               \/ \E o \in Owners : Poll(o) \/ PollNone(o) \/ Drop(o)
               \/ UNCHANGED vars
        PROVE  UNCHANGED <<slot, record, pending, renaming, renames, entered,
                           refused, lostExits>>
    BY <1>2
    DEF LoopWakes, LoopParks, LoopFails, Wake, Park, Fail, Poll, PollNone, Drop,
        DropStream, vars, dataVars, ringVars, history
  <1> QED
    BY <1>1, <1>2, KernelPipeline, DispatchPipeline, SkipPipeline
    DEF Next, LoopStep

(* An event in a channel is not about a rename, or pairs what belongs       *)
(* together, unless the exit of the entry is among the lost ones.           *)
Paired(e, lost) ==
    e.event = "FileRename" => e.entry = e.exit \/ e.entry \in lost

LEMMA DispatchSendsPaired ==
    ASSUME FilterInv, Pipeline, Dispatch, NEW o \in Owners, chan'[o] # chan[o]
    PROVE  \E e \in Events : Paired(e, lostExits) /\ Sends(o, e)
  <1> DEFINE x == record[cons]
             k == PidTid(x.thread)
  <1>0. /\ StreamInv /\ x \in Records /\ k \in PidTids /\ x.hook \in Hooks
        /\ x.thread \in Threads
    BY DispatchedRecord DEF FilterInv
  <1>1. CASE x.hook = "vfs_rename" /\ InsertPending(x)
    BY <1>1 DEF InsertPending
  <1>2. CASE x.hook = "vfs_rename_retval" /\ TakePending(x)
    <2>1. pending[k] # NoRecord /\ try_send("File", RenameEvent(pending[k], x))
      BY <1>2 DEF TakePending, RenameEvent
    <2>2. Sends("File", RenameEvent(pending[k], x)) /\ o = "File"
      <3>1. Sends("File", RenameEvent(pending[k], x))
        BY <2>1, TrySend
      <3> QED
        BY <3>1 DEF Sends, FilterInv, StreamInv, TypeOK
    <2>3. x \in InRing /\ IsExit(x) /\ \A r \in InRing : r # x => x.id < r.id
      <3>1. cons \in Slots /\ slot[cons] # "free"
        BY <1>0 DEF StreamInv, TypeOK, RingTypeOK, Dispatch
      <3>2. x \in InRing /\ IsExit(x)
        BY <1>2, <3>1 DEF InRing, RenameHooks, IsExit
      <3> QED
        BY <1>0, <3>2, HeadIsOldest
    <2> HIDE DEF x
    <2>4. pending[k] \in Waiting
      BY <1>0, <2>1 DEF Waiting, Pendings
    <2>5. pending[k].thread = x.thread
      <3>1. pending[k].thread \in Threads /\ PidTid(pending[k].thread) = k
        BY <1>0, <2>1 DEF StreamInv, RecordsAreReal, Pendings
      <3> QED
        BY <1>0, <3>1, KeyIsOneThread
    <2> HIDE DEF k
    <2>6. pending[k].op = x.op \/ pending[k].op \in lostExits
      BY <1>0, <2>3, <2>4, <2>5, HeadFindsItsEntry
    <2>7. /\ RenameEvent(pending[k], x) \in Events
          /\ RenameEvent(pending[k], x).entry = pending[k].op
          /\ RenameEvent(pending[k], x).exit = x.op
      BY <1>0, <2>1, TakenEntry, RenameEventType
    <2> QED
      BY <2>2, <2>6, <2>7 DEF Paired
  <1>3. CASE /\ x.hook \notin RenameHooks
             /\ try_send(ConvertedBy(EventType[x.hook]), EventOf(x))
    <2>1. Sends(ConvertedBy(EventType[x.hook]), EventOf(x))
      BY <1>3, TrySend
    <2>2. ConvertedBy(EventType[x.hook]) = o
      BY <2>1 DEF Sends, FilterInv, StreamInv, TypeOK
    <2>3. EventOf(x) \in Events
      BY <1>0, EventOfType
    <2>4. EventOf(x).event # "FileRename"
      <3>1. \A h \in Hooks \ RenameHooks : EventType[h] # "FileRename"
        BY DEF Hooks, EventType, RenameHooks
      <3> QED
        BY <1>0, <1>3, <3>1 DEF EventOf
    <2> QED
      BY <2>1, <2>2, <2>3, <2>4 DEF Paired
  <1> QED
    BY <1>0, <1>1, <1>2, <1>3, DispatchArms

LEMMA LostStaysLost ==
    ASSUME [Next]_vars
    PROVE  lostExits \subseteq lostExits'
  <1>1. ASSUME NEW t \in Threads, KernelStep(t)
        PROVE  lostExits \subseteq lostExits'
    BY <1>1
    DEF KernelStep, Fire, Finish, RenameEntry, RenameEntrySkipped, BeginRename,
        RenameExit, RenameExitLost, history, dataVars
  <1> QED
    BY <1>1
    DEF Next, LoopStep, LoopWakes, LoopParks, LoopFails, Dispatch,
        SkipDiscarded, Poll, PollNone, Drop, vars, dataVars, history

LEMMA NextPairedOrLost ==
    ASSUME RenameInv, [Next]_vars
    PROVE  PairedOrLost'
  <1>0. /\ chan \in [Owners -> Seq(Events)] /\ StreamInv /\ FilterInv /\ Pipeline
        /\ \A o \in Owners : \A i \in 1 .. Len(chan[o]) : Paired(chan[o][i], lostExits)
    BY DEF RenameInv, FilterInv, StreamInv, TypeOK, PairedOrLost, Paired,
           Channelled
  <1> SUFFICES ASSUME NEW o \in Owners, NEW i \in 1 .. Len(chan'[o])
               PROVE  Paired(chan'[o][i], lostExits)
    BY LostStaysLost DEF PairedOrLost, Paired, Channelled
  <1>1. CASE chan'[o] = chan[o]
    BY <1>0, <1>1
  <1>2. CASE Dispatch /\ chan'[o] # chan[o]
    <2>1. PICK e \in Events : Paired(e, lostExits) /\ Sends(o, e)
      BY <1>0, <1>2, DispatchSendsPaired
    <2>2. chan'[o] = Append(chan[o], e)
      BY <1>0, <2>1 DEF Sends
    <2>3. chan'[o][i] = e \/ (i \in 1 .. Len(chan[o]) /\ chan'[o][i] = chan[o][i])
      BY <1>0, <2>2
    <2> QED
      BY <1>0, <2>1, <2>3
  <1>3. CASE Poll(o)
    <2>1. chan[o] # <<>> /\ chan'[o] = Tail(chan[o]) /\ chan[o] \in Seq(Events)
      BY <1>0, <1>3 DEF Poll
    <2>2. i + 1 \in 1 .. Len(chan[o]) /\ chan'[o][i] = chan[o][i + 1]
      BY <2>1
    <2> QED
      BY <1>0, <2>2
  <1>4. CASE Drop(o)
    <2>1. chan'[o] = <<>>
      BY <1>0, <1>4 DEF Drop
    <2> QED
      BY <2>1
  <1>5. \/ chan'[o] = chan[o] \/ Dispatch \/ Poll(o) \/ Drop(o)
    BY <1>0, NextIsOneOf
    DEF Writes, Finish, Idle, SkipDiscarded, Poll, PollNone, Drop, dataVars
  <1> QED
    BY <1>1, <1>2, <1>3, <1>4, <1>5

LEMMA InitRenameInv == Init => RenameInv
  <1> SUFFICES ASSUME Init PROVE RenameInv
    OBVIOUS
  <1>1. InRing = {} /\ Waiting = {} /\ Running = {}
    BY DEF Init, RingInit, InRing, Waiting, Pendings, Running
  <1>2. Pipeline
    BY <1>1
    DEF Init, Pipeline, OpsHaveBegun, OpsHaveOneThread, ThreadOrder,
        EntriesHaveExits, ExitsHaveEntries, Traces
  <1>3. PairedOrLost
    BY DEF Init, PairedOrLost, Channelled
  <1> QED
    BY <1>2, <1>3, InitFilterInv DEF RenameInv

LEMMA NextRenameInv == RenameInv /\ [Next]_vars => RenameInv'
  <1> SUFFICES ASSUME RenameInv, [Next]_vars PROVE RenameInv'
    OBVIOUS
  <1> QED
    BY NextFilterInv, NextPipeline, NextPairedOrLost DEF RenameInv

(* The renames of each thread stay in order from pending_renames through    *)
(* the ring to the rename that runs.                                        *)
THEOREM RenameInvariant == Spec => []RenameInv
  BY InitRenameInv, NextRenameInv, PTL DEF Spec

(* A rename event has the names and the result of one operation, unless the *)
(* exit record of the operation with the names was lost to a full ring.     *)
THEOREM PairsAreOneOperation == Spec => []PairedOrLost
  <1>1. RenameInv => PairedOrLost
    BY DEF RenameInv
  <1> QED
    BY <1>1, RenameInvariant, PTL

(* pending_renames holds only entries whose rename runs, whose exit is in   *)
(* the ring or whose exit was lost: it does not fill up in any other way.   *)
THEOREM PendingJustified == Spec => []PendingIsJustified
  <1>1. ASSUME RenameInv, NEW k \in Pendings
        PROVE  \/ renaming[pending[k].thread] = pending[k].op
               \/ pending[k].op \in lostExits
               \/ \E p \in Slots : /\ slot[p] # "free"
                                   /\ record[p].hook = "vfs_rename_retval"
                                   /\ record[p].op = pending[k].op
    <2> DEFINE e == pending[k]
    <2>1. StreamInv /\ TypeOK /\ Pipeline
      BY <1>1 DEF RenameInv, FilterInv, StreamInv
    <2>2. e \in Waiting /\ e \in Traces
      BY DEF Waiting, Traces
    <2>3. IsEntry(e) /\ e.thread \in Threads
      BY <2>1, <2>2, WaitingEntries
    <2>4. CASE e.op \in lostExits
      BY <2>4
    <2>5. ASSUME NEW x \in InRing, IsExit(x), x.op = e.op
          PROVE  \E p \in Slots : /\ slot[p] # "free"
                                 /\ record[p].hook = "vfs_rename_retval"
                                 /\ record[p].op = e.op
      BY <2>5 DEF InRing, IsExit
    <2>6. ASSUME NEW x \in Running, x.op = e.op
          PROVE  renaming[e.thread] = e.op
      <3>1. x.thread = e.thread
        BY <2>1, <2>2, <2>6 DEF Pipeline, OpsHaveOneThread, Traces
      <3> QED
        BY <2>1, <2>6, <3>1, RunningExits
    <2> HIDE DEF e
    <2>7. \/ e.op \in lostExits
          \/ \E x \in InRing \cup Running : IsExit(x) /\ x.op = e.op
      BY <2>1, <2>2, <2>3 DEF Pipeline, EntriesHaveExits
    <2> QED
      BY <2>4, <2>5, <2>6, <2>7 DEF e
  <1>2. RenameInv => PendingIsJustified
    BY <1>1 DEF PendingIsJustified
  <1> QED
    BY <1>2, RenameInvariant, PTL

(* An accepted entry is there when its exit is dispatched: no other thread  *)
(* and no earlier rename of its own thread removes it.                      *)
THEOREM EntriesAwaitExits == Spec => []EntryAwaitsExit
  <1>1. ASSUME RenameInv, NEW p \in Slots, record[p].hook = "vfs_rename_retval",
               record[p].op \in entered \ refused
        PROVE  \/ pending[PidTid(record[p].thread)].op = record[p].op
               \/ \E q \in Slots : record[q].hook = "vfs_rename"
                                   /\ record[q].op = record[p].op
    <2> DEFINE x == record[p]
    <2>1. StreamInv /\ Pipeline
      BY <1>1 DEF RenameInv, FilterInv
    <2>2. slot[p] # "free"
      BY <1>1, <2>1 DEF StreamInv, RingNumbers, NoRecord
    <2>3. x \in InRing /\ IsExit(x) /\ x \in Traces
      BY <1>1, <2>2 DEF InRing, RenameHooks, IsExit, Traces
    <2> HIDE DEF x
    <2>4. x.op \in entered \ refused
      BY <1>1 DEF x
    <2>5. PICK e \in Waiting \cup InRing : IsEntry(e) /\ e.op = x.op
      BY <2>1, <2>3, <2>4 DEF Pipeline, ExitsHaveEntries
    <2>6. CASE e \in InRing
      <3>1. \E q \in Slots : record[q].hook = "vfs_rename" /\ record[q].op = x.op
        BY <2>5, <2>6 DEF InRing, IsEntry
      <3> QED
        BY <3>1 DEF x
    <2>7. CASE e \in Waiting
      <3>1. e.thread = x.thread
        BY <2>1, <2>3, <2>5, <2>7 DEF Pipeline, OpsHaveOneThread, Traces
      <3>2. e = pending[PidTid(e.thread)]
        BY <2>1, <2>7, WaitingEntries
      <3>3. pending[PidTid(x.thread)].op = x.op
        BY <2>5, <3>1, <3>2
      <3> QED
        BY <3>3 DEF x
    <2> QED
      BY <2>5, <2>6, <2>7
  <1>2. RenameInv => EntryAwaitsExit
    BY <1>1 DEF EntryAwaitsExit
  <1> QED
    BY <1>2, RenameInvariant, PTL
=============================================================================
