--------------------------- MODULE DeliveryProofs ---------------------------
(***************************************************************************)
(* For every set of threads, ring size, set of subscribers, filters and    *)
(* channel capacity: Delivery keeps StreamInv, so that every stream gets    *)
(* its events in the order of the ring and none of them twice, and keeps   *)
(* the contract of Stream; and its steps on the ring are those of RingLoop.*)
(***************************************************************************)
EXTENDS DeliveryInv, ProbesProofs, SequenceTheorems, TLAPS

-----------------------------------------------------------------------------
(* What the tables of Probes say of the subscriptions. *)

LEMMA AttachedIsOwned ==
    ASSUME sub \in Subscriptions, NEW h \in attached
    PROVE  /\ h \in Hooks
           /\ ConvertedBy(EventType[h]) \in Owners
           /\ h \in Attached(ConvertedBy(EventType[h]), sub[ConvertedBy(EventType[h])])
  <1>1. PICK o \in Owners : h \in Attached(o, sub[o])
    BY DEF attached
  <1>2. o \in DOMAIN MaskFlags /\ IsFilter(o, sub[o])
    BY SubscriptionsAssumption
  <1> QED
    BY <1>1, <1>2, AttachedByOwner

(* The exit program of a rename is attached with its entry program. *)
LEMMA ExitIsAttached ==
    ASSUME sub \in Subscriptions, "vfs_rename" \in attached
    PROVE  "vfs_rename_retval" \in attached
  <1>1. ConvertedBy(EventType["vfs_rename"]) = "File"
    BY DEF EventType, ConvertedBy, NetworkEvents, ProcessEvents, FileEvents,
           MemoryEvents
  <1>2. "File" \in Owners /\ "vfs_rename" \in Attached("File", sub["File"])
    BY <1>1, AttachedIsOwned
  <1>3. IsFilter("File", sub["File"])
    BY <1>2, SubscriptionsAssumption
  <1>4. "RENAME" \in sub["File"].mask
    BY <1>2, <1>3
    DEF Attached, attach_file_probe, FileProbes, IsFilter, MaskFlags
  <1>5. "vfs_rename_retval" \in Attached("File", sub["File"])
    BY <1>4 DEF Attached, attach_file_probe, FileProbes
  <1> QED
    BY <1>2, <1>5 DEF attached

LEMMA RecordOfType ==
    ASSUME TypeOK, reserved < MaxRecords, NEW t \in Threads, NEW h \in Hooks,
           NEW in \in InputType, NEW op \in Ops
    PROVE  RecordOf(t, h, in, op) \in Records
  BY DeliveryAssumption
  DEF TypeOK, RecordOf, Records, InputType, SocketOf, Ops

(* A record makes an event. *)
LEMMA EventOfType ==
    ASSUME NEW r \in Records, r.hook \in Hooks, r.thread \in Threads
    PROVE  EventOf(r) \in Events
  BY DeliveryAssumption
  DEF Records, Events, EventOf, Protocol, RawProtocol, Ops

-----------------------------------------------------------------------------
(* The ring. *)

LEMMA SlotFacts ==
    /\ 0 \in Slots /\ NoSlot \notin Slots
    /\ \A p \in Slots : After(p) \in Slots
  BY SizeAssumption DEF Slots, NoSlot, After

(* Distances from the oldest record, before and after it is consumed. *)
LEMMA DistFacts ==
    ASSUME TypeOK
    PROVE  /\ Dist(cons) = 0
           /\ \A p \in Slots : Dist(p) \in 0 .. (Size - 1)
           /\ \A p, q \in Slots : Dist(p) = Dist(q) => p = q
  BY SizeAssumption DEF TypeOK, RingTypeOK, Slots, Dist

LEMMA ProdFacts ==
    ASSUME TypeOK, ProdIsAhead
    PROVE  /\ InFlight \in 0 .. Size
           /\ InFlight < Size => Dist(prod) = InFlight
           /\ InFlight = Size => prod = cons
  BY SizeAssumption, DeliveryAssumption
  DEF TypeOK, RingTypeOK, Slots, Dist, ProdIsAhead, InFlight

(* A record at the head is the next in order. *)
LEMMA HeadIsNext ==
    ASSUME TypeOK, RingNumbers, Committed(cons)
    PROVE  /\ InFlight > 0
           /\ record[cons].id = consumed + 1
           /\ slot[cons] # "free"
  BY DistFacts, DeliveryAssumption
  DEF TypeOK, RingTypeOK, RingNumbers, Committed, InFlight

(* EVENTS.reserve: a free slot at prod means that the ring is not full. *)
LEMMA ReserveKeepsNumbers ==
    ASSUME StreamInv, NEW t \in Threads, NEW h, NEW in, NEW op,
           Write(t, h, in, op), consumed' = consumed
    PROVE  ProdIsAhead' /\ RingNumbers'
  <1> USE DeliveryAssumption, SizeAssumption
      DEF StreamInv, TypeOK, RingTypeOK, Write, Reserve
  <1>1. InFlight < Size /\ Dist(prod) = InFlight
    <2>1. slot[prod] = "free" /\ prod \in Slots
      OBVIOUS
    <2>2. InFlight # Size
      BY <2>1, ProdFacts, DistFacts DEF RingNumbers
    <2> QED
      BY <2>2, ProdFacts
  <1>2. InFlight' = InFlight + 1
    BY DEF InFlight
  <1>3. \A p \in Slots : Dist(p)' = Dist(p)
    BY DEF Dist
  <1>4. ProdIsAhead'
    BY <1>1, <1>2 DEF ProdIsAhead, After, Slots, InFlight, Dist
  <1>5. RingNumbers'
    <2> SUFFICES ASSUME NEW p \in Slots
                 PROVE  IF Dist(p) < InFlight + 1
                        THEN slot'[p] # "free" /\ record'[p].id = consumed + 1 + Dist(p)
                        ELSE slot'[p] = "free" /\ record'[p] = NoRecord
      BY <1>2, <1>3 DEF RingNumbers
    <2>1. CASE p = prod
      BY <1>1, <2>1 DEF RecordOf, InFlight
    <2>2. CASE p # prod
      <3>1. Dist(p) # InFlight
        BY <1>1, <2>2, DistFacts
      <3> QED
        BY <2>2, <3>1, DistFacts, ProdFacts DEF RingNumbers
    <2> QED
      BY <2>1, <2>2
  <1> QED
    BY <1>4, <1>5

(* The release of the record at the head. *)
LEMMA ConsumeKeepsNumbers ==
    ASSUME StreamInv, Consume, consumed' = consumed + 1, reserved' = reserved,
           record' = [record EXCEPT ![cons] = NoRecord]
    PROVE  ProdIsAhead' /\ RingNumbers'
  <1> USE DeliveryAssumption, SizeAssumption
      DEF StreamInv, TypeOK, RingTypeOK, Consume
  <1>1. InFlight > 0 /\ InFlight \in 0 .. Size
    BY HeadIsNext, ProdFacts
  <1>2. InFlight' = InFlight - 1
    BY DEF InFlight
  <1>3. \A p \in Slots : Dist(p)' = IF p = cons THEN Size - 1 ELSE Dist(p) - 1
    BY DEF Dist, After, Slots
  <1>4. ProdIsAhead'
    BY <1>1, <1>2 DEF ProdIsAhead, After, Slots, InFlight
  <1>5. RingNumbers'
    <2> SUFFICES ASSUME NEW p \in Slots
                 PROVE  (IF Dist(p) < InFlight
                         THEN slot[p] # "free" /\ record[p].id = consumed + 1 + Dist(p)
                         ELSE slot[p] = "free" /\ record[p] = NoRecord)'
      BY DEF RingNumbers, Slots
    <2>1. CASE p = cons
      BY <1>1, <1>2, <1>3, <2>1
    <2>2. CASE p # cons
      <3>1. Dist(p) \in 1 .. (Size - 1) /\ Dist(p)' = Dist(p) - 1
        BY <1>3, <2>2, DistFacts
      <3>2. slot'[p] = slot[p] /\ record'[p] = record[p]
        BY <2>2
      <3> HIDE DEF Dist, InFlight
      <3> QED
        BY <1>1, <1>2, <3>1, <3>2 DEF RingNumbers
    <2> QED
      BY <2>1, <2>2
  <1> QED
    BY <1>4, <1>5

(* submit or discard. *)
LEMMA CommitKeepsNumbers ==
    ASSUME StreamInv, NEW t \in Threads, Finish(t)
    PROVE  ProdIsAhead' /\ RingNumbers'
  BY DEF StreamInv, TypeOK, RingTypeOK, Finish, Commit, Holders, RingNumbers,
         ProdIsAhead, InFlight, Dist, dataVars

-----------------------------------------------------------------------------
(* The steps of Next, by what they do to the ring. *)

(* A record is written by a program of thread t that does not return early. *)
Writes(t, h, in, op) ==
    /\ h \in attached
    /\ in \in InputType
    /\ op \in Ops
    /\ Run(t, h, in) # "return"
    /\ Write(t, h, in, op)
    /\ UNCHANGED <<sub, consumed, pending, chan, got, ended>>

LEMMA FireWrites ==
    ASSUME TypeOK, NEW t \in Threads, NEW h \in attached, NEW in \in Inputs,
           Fire(t, h, in)
    PROVE  Writes(t, h, in, 0) /\ renaming' = renaming /\ renames' = renames
           /\ UNCHANGED history
  BY ThreadsAssumption, DeliveryAssumption DEF Fire, Writes, Ops

LEMMA EntryWrites ==
    ASSUME TypeOK, NEW t \in Threads, NEW in \in Inputs, RenameEntry(t, in)
    PROVE  Writes(t, "vfs_rename", in, renames + 1)
  BY ThreadsAssumption, DeliveryAssumption
  DEF TypeOK, RenameEntry, BeginRename, Writes, Ops

LEMMA ExitWrites ==
    ASSUME StreamInv, NEW t \in Threads, RenameExit(t)
    PROVE  Writes(t, "vfs_rename_retval", NoInput, renaming[t])
  <1>1. "vfs_rename_retval" \in attached
    BY ExitIsAttached DEF StreamInv, TypeOK, RecordsAreReal, RenameExit
  <1>2. NoInput \in InputType
    BY DEF NoInput, InputType
  <1>3. Run(t, "vfs_rename_retval", NoInput) # "return"
    BY DEF Run, Outcome, vfs_rename_retval
  <1> QED
    BY <1>1, <1>2, <1>3 DEF StreamInv, TypeOK, RenameExit, Writes

(* The steps that leave the records and the channels alone: a rename whose  *)
(* entry or exit record is not written, the loop that wakes, parks or fails *)
Idle ==
    /\ UNCHANGED <<slot, cons, prod, held, open>>
    /\ UNCHANGED <<sub, record, reserved, consumed, pending, chan, got, ended>>
    /\ loop' \in {loop, "parked", "draining", "over"}
    /\ loop = "over" => loop' = "over"
    /\ \/ UNCHANGED <<renaming, renames, entered, refused, lostExits>>
       \/ /\ loop' = loop
          /\ \E t \in Threads, in \in Inputs : RenameEntrySkipped(t, in)
       \/ /\ loop' = loop
          /\ \E t \in Threads : RenameExitLost(t)

LEMMA NextIsOneOf ==
    ASSUME StreamInv, [Next]_vars
    PROVE  \/ \E t \in Threads, h \in attached, in \in InputType, op \in Ops :
                 Writes(t, h, in, op)
           \/ \E t \in Threads : Finish(t)
           \/ Idle
           \/ Dispatch
           \/ SkipDiscarded
           \/ \E o \in Owners : Poll(o) \/ PollNone(o) \/ Drop(o)
  <1> DEFINE Wr == \E t \in Threads, h \in attached, in \in InputType, op \in Ops :
                      Writes(t, h, in, op)
  <1>1. ASSUME NEW t \in Threads, KernelStep(t)
        PROVE  Wr \/ Finish(t) \/ Idle
    <2>1. ASSUME NEW h \in attached, NEW in \in Inputs, Fire(t, h, in) PROVE Wr
      BY <2>1, FireWrites DEF StreamInv, Writes
    <2>2. ASSUME NEW in \in Inputs, RenameEntry(t, in) PROVE Wr
      BY <2>2, EntryWrites DEF StreamInv, Writes
    <2>3. ASSUME RenameExit(t) PROVE Wr
      BY <2>3, ExitWrites DEF StreamInv, Writes
    <2>4. ASSUME NEW in \in Inputs, RenameEntrySkipped(t, in) PROVE Idle
      BY <2>4 DEF RenameEntrySkipped, BeginRename, Idle, ringVars
    <2>5. ASSUME RenameExitLost(t) PROVE Idle
      BY <2>5 DEF RenameExitLost, Idle, ringVars
    <2> HIDE DEF Wr
    <2> QED
      BY <1>1, <2>1, <2>2, <2>3, <2>4, <2>5 DEF KernelStep
  <1>2. ASSUME LoopWakes \/ LoopParks \/ LoopFails PROVE Idle
    BY <1>2
    DEF LoopWakes, LoopParks, LoopFails, Wake, Park, Fail, Idle, dataVars, history
  <1>3. ASSUME UNCHANGED vars PROVE Idle
    BY <1>3 DEF Idle, vars, ringVars, dataVars, history
  <1> HIDE DEF Wr
  <1>4. Wr \/ (\E t \in Threads : Finish(t)) \/ Idle \/ Dispatch \/ SkipDiscarded
        \/ \E o \in Owners : Poll(o) \/ PollNone(o) \/ Drop(o)
    BY <1>1, <1>2, <1>3 DEF Next, LoopStep
  <1> QED
    BY <1>4 DEF Wr

-----------------------------------------------------------------------------
(* What a dispatched record does. *)

LEMMA DispatchedRecord ==
    ASSUME StreamInv, Dispatch
    PROVE  /\ record[cons] \in Records
           /\ record[cons].hook \in attached
           /\ record[cons].hook \in Hooks
           /\ record[cons].thread \in Threads
           /\ record[cons].id = consumed + 1
           /\ ConvertedBy(EventType[record[cons].hook]) \in Owners
           /\ PidTid(record[cons].thread) \in PidTids
  <1>1. Committed(cons) /\ cons \in Slots /\ slot[cons] # "free"
    BY DEF StreamInv, TypeOK, RingTypeOK, Dispatch, Committed
  <1>2. record[cons].hook \in attached /\ record[cons].thread \in Threads
    BY <1>1 DEF StreamInv, RecordsAreReal
  <1> QED
    BY <1>1, <1>2, HeadIsNext, AttachedIsOwned DEF StreamInv, TypeOK, PidTids

(* The arms of the converter it can take. *)
LEMMA DispatchArms ==
    ASSUME StreamInv, Dispatch
    PROVE  \/ record[cons].hook = "vfs_rename" /\ InsertPending(record[cons])
           \/ record[cons].hook = "vfs_rename_retval" /\ TakePending(record[cons])
           \/ /\ record[cons].hook \notin RenameHooks
              /\ try_send(ConvertedBy(EventType[record[cons].hook]),
                          EventOf(record[cons]))
              /\ UNCHANGED <<pending, refused>>
  BY DispatchedRecord DEF Dispatch, Convert, RenameHooks

(* An event is put in the channel of a subscriber that is there. *)
Sends(o, e) ==
    /\ o \in open
    /\ Len(chan[o]) < Capacity
    /\ chan' = [chan EXCEPT ![o] = Append(@, e)]

LEMMA TrySend ==
    ASSUME NEW o, NEW e, try_send(o, e)
    PROVE  chan' = chan \/ Sends(o, e)
  BY DEF try_send, Sends

(* The entry a rename's exit takes out of the table. *)
LEMMA TakenEntry ==
    ASSUME StreamInv, NEW k \in PidTids, pending[k] # NoRecord
    PROVE  /\ pending[k] \in Records
           /\ pending[k].hook = "vfs_rename"
           /\ pending[k].hook \in Hooks
           /\ pending[k].thread \in Threads
  BY DEF StreamInv, TypeOK, RecordsAreReal, Pendings, Hooks, EventType

(* The event of a rename. *)
RenameEvent(e, x) ==
    [EventOf(e) EXCEPT !.id = x.id, !.entry = e.op, !.exit = x.op]

LEMMA RenameEventType ==
    ASSUME NEW e \in Records, NEW x \in Records, e.hook \in Hooks,
           e.thread \in Threads
    PROVE  /\ RenameEvent(e, x) \in Events
           /\ RenameEvent(e, x).id = x.id
           /\ RenameEvent(e, x).entry = e.op
           /\ RenameEvent(e, x).exit = x.op
           /\ RenameEvent(e, x).event = EventType[e.hook]
           /\ RenameEvent(e, x).thread = e.thread
           /\ RenameEvent(e, x).mode = e.mode
  <1>1. EventOf(e) \in Events
    BY EventOfType
  <1> QED
    BY <1>1 DEF RenameEvent, EventOf, Events, Records

LEMMA FileIsOwner ==
    ASSUME TypeOK, NEW h \in RenameHooks, h \in attached
    PROVE  "File" \in Owners /\ ConvertedBy(EventType[h]) = "File"
  <1>1. ConvertedBy(EventType[h]) = "File"
    BY DEF RenameHooks, EventType, ConvertedBy, NetworkEvents, ProcessEvents,
           FileEvents, MemoryEvents
  <1> QED
    BY <1>1, AttachedIsOwned DEF TypeOK

(* A dispatched record reaches at most one channel, under its own number. *)
LEMMA DispatchSends ==
    ASSUME StreamInv, Dispatch
    PROVE  \/ chan' = chan
           \/ \E o \in Owners, e \in Events : e.id = consumed + 1 /\ Sends(o, e)
  <1> DEFINE r == record[cons]
  <1>1. CASE InsertPending(r)
    BY <1>1 DEF InsertPending
  <1>2. CASE r.hook = "vfs_rename_retval" /\ TakePending(r)
    <2> DEFINE k == PidTid(r.thread)
    <2>1. CASE pending[k] = NoRecord
      BY <1>2, <2>1 DEF TakePending
    <2>2. CASE pending[k] # NoRecord
      <3>1. try_send("File", RenameEvent(pending[k], r))
        BY <1>2, <2>2 DEF TakePending, RenameEvent
      <3>2. k \in PidTids /\ r \in Records /\ r.id = consumed + 1
        BY DispatchedRecord
      <3>3. RenameEvent(pending[k], r) \in Events
            /\ RenameEvent(pending[k], r).id = consumed + 1
        <4> HIDE DEF k, r
        <4> QED
          BY <2>2, <3>2, TakenEntry, RenameEventType
      <3>4. "File" \in Owners
        BY <1>2, DispatchedRecord, FileIsOwner DEF StreamInv, RenameHooks
      <3> HIDE DEF k, r
      <3> QED
        BY <3>1, <3>3, <3>4, TrySend
    <2> QED
      BY <2>1, <2>2
  <1>3. CASE try_send(ConvertedBy(EventType[r.hook]), EventOf(r))
    <2>1. EventOf(r) \in Events
      BY DispatchedRecord, EventOfType
    <2>2. EventOf(r).id = consumed + 1
      BY DispatchedRecord DEF EventOf
    <2> HIDE DEF r
    <2>3. ConvertedBy(EventType[r.hook]) \in Owners
      BY DispatchedRecord DEF r
    <2> QED
      BY <1>3, <2>1, <2>2, <2>3, TrySend
  <1> QED
    BY <1>1, <1>2, <1>3, DispatchArms

LEMMA NoRecordType == NoRecord \in Records
  BY DeliveryAssumption DEF NoRecord, Records, Ops

(* A dispatched record changes pending_renames only at its thread's key. *)
LEMMA DispatchPending ==
    ASSUME StreamInv, Dispatch
    PROVE  /\ pending' \in [PidTids -> Records]
           /\ refused' \in SUBSET Ops
           /\ \A k \in PidTids :
                 \/ pending'[k] = pending[k]
                 \/ pending'[k] = NoRecord
                 \/ /\ pending'[k] = record[cons]
                    /\ record[cons].hook = "vfs_rename"
                    /\ PidTid(record[cons].thread) = k
  <1> DEFINE r == record[cons]
  <1> DEFINE k0 == PidTid(r.thread)
  <1>1. r \in Records /\ k0 \in PidTids /\ r.op \in Ops
    BY DispatchedRecord DEF Records
  <1>2. pending \in [PidTids -> Records] /\ refused \in SUBSET Ops
    BY DEF StreamInv, TypeOK
  <1>3. CASE r.hook = "vfs_rename" /\ InsertPending(r)
    <2>1. /\ pending' = pending \/ pending' = [pending EXCEPT ![k0] = r]
          /\ refused' = refused \/ refused' = refused \cup {r.op}
      BY <1>3 DEF InsertPending
    <2> QED
      BY <1>1, <1>2, <1>3, <2>1
  <1>4. CASE TakePending(r)
    <2>1. pending' = [pending EXCEPT ![k0] = NoRecord] /\ refused' = refused
      BY <1>4 DEF TakePending
    <2> QED
      BY <1>1, <1>2, <2>1, NoRecordType
  <1>5. CASE UNCHANGED <<pending, refused>>
    BY <1>2, <1>5
  <1> QED
    BY <1>3, <1>4, <1>5, DispatchArms

-----------------------------------------------------------------------------
(* StreamInv is inductive. *)

LEMMA InitStreamInv == Init => StreamInv
  <1> SUFFICES ASSUME Init PROVE StreamInv
    OBVIOUS
  <1> USE SizeAssumption, DeliveryAssumption, NoRecordType DEF Init, RingInit
  <1>1. TypeOK
    BY DEF TypeOK, RingTypeOK, Slots, NoSlot, Ops
  <1>2. ProdIsAhead /\ RingNumbers
    BY DEF ProdIsAhead, RingNumbers, InFlight, Dist, Slots
  <1>3. Holders /\ RecordsAreReal /\ EndedIsEmpty
    BY DEF Holders, RecordsAreReal, EndedIsEmpty, Pendings
  <1>4. InRingOrder
    BY DEF InRingOrder, Channelled
  <1> QED
    BY <1>1, <1>2, <1>3, <1>4 DEF StreamInv

LEMMA WritesTypeOK ==
    ASSUME StreamInv, NEW t \in Threads, NEW h \in attached,
           NEW in \in InputType, NEW op \in Ops, Writes(t, h, in, op),
           renaming' \in [Threads -> Ops], renames' \in Ops,
           entered' \in SUBSET Ops, refused' = refused, lostExits' = lostExits
    PROVE  TypeOK'
  <1>1. RecordOf(t, h, in, op) \in Records
    BY RecordOfType, AttachedIsOwned DEF StreamInv, TypeOK, Writes, Write
  <1>2. RingTypeOK'
    BY SlotFacts DEF StreamInv, TypeOK, RingTypeOK, Writes, Write, Reserve
  <1>3. record' \in [Slots -> Records]
    BY <1>1 DEF StreamInv, TypeOK, Writes, Write
  <1>4. reserved' \in 0 .. MaxRecords /\ consumed' \in 0 .. reserved'
    <2>1. /\ reserved \in 0 .. MaxRecords /\ consumed \in 0 .. reserved
          /\ reserved < MaxRecords /\ reserved' = reserved + 1
          /\ consumed' = consumed
      BY DEF StreamInv, TypeOK, Writes, Write
    <2> QED
      BY <2>1, DeliveryAssumption
  <1> QED
    BY <1>2, <1>3, <1>4 DEF StreamInv, TypeOK, Writes

LEMMA KernelTypeOK ==
    ASSUME StreamInv, NEW t \in Threads, KernelStep(t)
    PROVE  TypeOK'
  <1>0. /\ TypeOK /\ renaming \in [Threads -> Ops] /\ renames \in Ops
        /\ entered \in SUBSET Ops /\ lostExits \in SUBSET Ops
    BY DEF StreamInv, TypeOK
  <1>1. ASSUME NEW h \in attached, NEW in \in Inputs, Fire(t, h, in)
        PROVE  TypeOK'
    BY <1>0, <1>1, FireWrites, WritesTypeOK DEF Writes, history
  <1>2. CASE Finish(t)
    <2>1. RingTypeOK'
      BY <1>0, <1>2 DEF TypeOK, RingTypeOK, Finish, Commit
    <2> QED
      BY <1>0, <1>2, <2>1 DEF TypeOK, Finish, dataVars, history
  <1>3. ASSUME BeginRename(t)
        PROVE  renaming' \in [Threads -> Ops] /\ renames' \in Ops
               /\ renames + 1 \in Ops
    BY <1>0, <1>3, DeliveryAssumption DEF BeginRename, Ops
  <1>4. ASSUME NEW in \in Inputs, RenameEntry(t, in)
        PROVE  TypeOK'
    <2>1. Writes(t, "vfs_rename", in, renames + 1)
      BY <1>0, <1>4, EntryWrites
    <2>2. entered' \in SUBSET Ops /\ refused' = refused /\ lostExits' = lostExits
      BY <1>0, <1>3, <1>4 DEF RenameEntry, BeginRename
    <2> QED
      BY <1>3, <1>4, <2>1, <2>2, WritesTypeOK DEF RenameEntry, Writes
  <1>5. ASSUME NEW in \in Inputs, RenameEntrySkipped(t, in)
        PROVE  TypeOK'
    BY <1>0, <1>3, <1>5
    DEF TypeOK, RingTypeOK, RenameEntrySkipped, BeginRename, ringVars
  <1>6. CASE RenameExit(t)
    <2>1. Writes(t, "vfs_rename_retval", NoInput, renaming[t])
      BY <1>6, ExitWrites
    <2>2. renaming' \in [Threads -> Ops] /\ UNCHANGED <<renames, history>>
      BY <1>0, <1>6, DeliveryAssumption DEF RenameExit, Ops
    <2> QED
      BY <1>0, <2>1, <2>2, WritesTypeOK DEF Writes, history
  <1>7. CASE RenameExitLost(t)
    <2>1. renaming[t] \in Ops /\ 0 \in Ops
      BY <1>0, DeliveryAssumption DEF Ops
    <2>2. renaming' \in [Threads -> Ops] /\ lostExits' \in SUBSET Ops
      BY <1>0, <1>7, <2>1 DEF RenameExitLost
    <2> QED
      BY <1>0, <1>7, <2>2 DEF TypeOK, RingTypeOK, RenameExitLost, ringVars
  <1> QED
    BY <1>1, <1>2, <1>4, <1>5, <1>6, <1>7 DEF KernelStep

LEMMA LoopTypeOK ==
    ASSUME StreamInv, LoopStep \/ LoopFails
    PROVE  TypeOK'
  <1> USE DEF StreamInv
  <1>1. CASE LoopWakes \/ LoopParks \/ LoopFails
    BY <1>1
    DEF TypeOK, RingTypeOK, LoopWakes, LoopParks, LoopFails, Wake, Park, Fail,
        dataVars, history
  <1>2. ASSUME Consume, consumed' = consumed + 1, reserved' = reserved,
               record' = [record EXCEPT ![cons] = NoRecord]
        PROVE  /\ RingTypeOK' /\ record' \in [Slots -> Records]
               /\ consumed' \in 0 .. reserved'
    <2>1. InFlight > 0
      BY <1>2, HeadIsNext DEF Consume
    <2>2. RingTypeOK'
      BY <1>2, SlotFacts DEF TypeOK, RingTypeOK, Consume
    <2>3. record' \in [Slots -> Records]
      BY <1>2, NoRecordType DEF TypeOK
    <2>4. consumed' \in 0 .. reserved'
      <3>1. reserved \in 0 .. MaxRecords /\ consumed \in 0 .. reserved
        BY DEF TypeOK
      <3> QED
        BY <1>2, <2>1, <3>1, DeliveryAssumption DEF InFlight
    <2> QED
      BY <2>2, <2>3, <2>4
  <1>3. CASE Dispatch
    <2>1. chan' \in [Owners -> Seq(Events)]
      <3>1. ASSUME NEW o \in Owners, NEW e \in Events, Sends(o, e)
            PROVE  chan' \in [Owners -> Seq(Events)]
        <4>1. Append(chan[o], e) \in Seq(Events)
          BY DEF TypeOK
        <4> QED
          BY <3>1, <4>1 DEF TypeOK, Sends
      <3> QED
        BY <1>3, <3>1, DispatchSends DEF TypeOK
    <2> QED
      BY <1>2, <1>3, <2>1, DispatchPending DEF TypeOK, Dispatch
  <1>4. CASE SkipDiscarded
    BY <1>2, <1>4 DEF TypeOK, SkipDiscarded, history
  <1> QED
    BY <1>1, <1>3, <1>4 DEF LoopStep

LEMMA StreamTypeOK ==
    ASSUME StreamInv, NEW o \in Owners, Poll(o) \/ PollNone(o) \/ Drop(o)
    PROVE  TypeOK'
  <1> USE DEF StreamInv, history
  <1>1. CASE Poll(o)
    <2>1. chan[o] \in Seq(Events) /\ chan[o] # <<>>
      BY <1>1 DEF TypeOK, Poll
    <2>2. Head(chan[o]) \in Events /\ Tail(chan[o]) \in Seq(Events)
      BY <2>1
    <2>3. Head(chan[o]).id \in 0 .. MaxRecords
      BY <2>2 DEF Events
    <2> QED
      BY <1>1, <2>2, <2>3 DEF TypeOK, RingTypeOK, Poll, ringVars
  <1>2. CASE PollNone(o)
    BY <1>2 DEF TypeOK, RingTypeOK, PollNone, ringVars
  <1>3. CASE Drop(o)
    <2>1. <<>> \in Seq(Events)
      OBVIOUS
    <2> QED
      BY <1>3, <2>1 DEF TypeOK, RingTypeOK, Drop, DropStream
  <1> QED
    BY <1>1, <1>2, <1>3

LEMMA NextTypeOK ==
    ASSUME StreamInv, [Next]_vars
    PROVE  TypeOK'
  <1>1. CASE UNCHANGED vars
    BY <1>1
    DEF StreamInv, TypeOK, RingTypeOK, vars, ringVars, dataVars, history
  <1> QED
    BY <1>1, KernelTypeOK, LoopTypeOK, StreamTypeOK DEF Next

(* FILTER, CONFIG and the attached programs stay as they are. *)
LEMMA SubConstant ==
    ASSUME StreamInv, [Next]_vars
    PROVE  sub' = sub /\ attached' = attached
  <1>1. sub' = sub
    BY NextIsOneOf
    DEF Writes, Finish, Idle, Dispatch, SkipDiscarded, Poll, PollNone, Drop,
        dataVars
  <1> QED
    BY <1>1 DEF attached

LEMMA NextNumbers ==
    ASSUME StreamInv, [Next]_vars
    PROVE  ProdIsAhead' /\ RingNumbers'
  <1>1. ASSUME NEW t \in Threads, NEW h, NEW in, NEW op, Writes(t, h, in, op)
        PROVE  ProdIsAhead' /\ RingNumbers'
    BY <1>1, ReserveKeepsNumbers DEF Writes
  <1>2. ASSUME Dispatch \/ SkipDiscarded
        PROVE  ProdIsAhead' /\ RingNumbers'
    BY <1>2, ConsumeKeepsNumbers DEF Dispatch, SkipDiscarded
  <1>3. ASSUME UNCHANGED <<slot, cons, prod, record, reserved, consumed>>
        PROVE  ProdIsAhead' /\ RingNumbers'
    BY <1>3 DEF StreamInv, ProdIsAhead, RingNumbers, InFlight, Dist
  <1>4. ASSUME Idle \/ \E o \in Owners : Poll(o) \/ PollNone(o) \/ Drop(o)
        PROVE  UNCHANGED <<slot, cons, prod, record, reserved, consumed>>
    BY <1>4 DEF Idle, Poll, PollNone, Drop, DropStream, ringVars
  <1> QED
    BY <1>1, <1>2, <1>3, <1>4, CommitKeepsNumbers, NextIsOneOf

LEMMA NextHolders ==
    ASSUME StreamInv, [Next]_vars
    PROVE  Holders'
  <1> USE DEF StreamInv, TypeOK, RingTypeOK
  <1>1. ASSUME NEW t \in Threads, NEW h, NEW in, NEW op, Writes(t, h, in, op)
        PROVE  Holders'
    BY <1>1, SlotFacts DEF Writes, Write, Reserve, Holders
  <1>2. ASSUME NEW t \in Threads, Finish(t)
        PROVE  Holders'
    BY <1>2 DEF Finish, Commit, Holders
  <1>3. ASSUME Dispatch \/ SkipDiscarded
        PROVE  Holders'
    BY <1>3 DEF Dispatch, SkipDiscarded, Consume, Committed, Holders
  <1>4. ASSUME Idle \/ \E o \in Owners : Poll(o) \/ PollNone(o) \/ Drop(o)
        PROVE  UNCHANGED <<slot, held>>
    BY <1>4 DEF Idle, Poll, PollNone, Drop, DropStream, ringVars
  <1>5. ASSUME UNCHANGED <<slot, held>>
        PROVE  Holders'
    BY <1>5 DEF Holders
  <1> QED
    BY <1>1, <1>2, <1>3, <1>4, <1>5, NextIsOneOf

(* Who is in a rename: only BeginRename, which needs the program, starts one *)
LEMMA NextRenaming ==
    ASSUME StreamInv, [Next]_vars, NEW t \in Threads, renaming'[t] # 0,
           renaming[t] = 0
    PROVE  "vfs_rename" \in attached
  <1>1. ASSUME NEW s \in Threads, KernelStep(s)
        PROVE  "vfs_rename" \in attached
    <2>1. renaming' = renaming \/ BeginRename(s)
          \/ renaming' = [renaming EXCEPT ![s] = 0]
      BY <1>1
      DEF KernelStep, Fire, Finish, RenameEntry, RenameEntrySkipped, RenameExit,
          RenameExitLost, dataVars
    <2> QED
      BY <2>1 DEF BeginRename, StreamInv, TypeOK
  <1>2. ASSUME renaming' = renaming
        PROVE  "vfs_rename" \in attached
    BY <1>2
  <1>3. \/ \E s \in Threads : KernelStep(s)
        \/ renaming' = renaming
    BY DEF Next, LoopStep, LoopWakes, LoopParks, LoopFails, Dispatch,
           SkipDiscarded, Poll, PollNone, Drop, dataVars, vars
  <1> QED
    BY <1>1, <1>2, <1>3

LEMMA NextRecordsAreReal ==
    ASSUME StreamInv, [Next]_vars
    PROVE  RecordsAreReal'
  <1> USE DEF StreamInv, TypeOK, RingTypeOK
  <1>0. attached' = attached
    BY SubConstant
  <1>1. \A t \in Threads : renaming'[t] # 0 => "vfs_rename" \in attached
    BY NextRenaming DEF RecordsAreReal
  <1>2. \A p \in Slots : slot'[p] # "free" =>
                            record'[p].hook \in attached /\ record'[p].thread \in Threads
    <2>1. ASSUME NEW t \in Threads, NEW h, NEW in, NEW op, Writes(t, h, in, op),
                 NEW p \in Slots, slot'[p] # "free"
          PROVE  record'[p].hook \in attached /\ record'[p].thread \in Threads
      BY <2>1 DEF Writes, Write, Reserve, RecordOf, RecordsAreReal
    <2>2. ASSUME NEW t \in Threads, Finish(t), NEW p \in Slots, slot'[p] # "free"
          PROVE  record'[p].hook \in attached /\ record'[p].thread \in Threads
      BY <2>2 DEF Finish, Commit, dataVars, Holders, RecordsAreReal
    <2>3. ASSUME Dispatch \/ SkipDiscarded, NEW p \in Slots, slot'[p] # "free"
          PROVE  record'[p].hook \in attached /\ record'[p].thread \in Threads
      BY <2>3 DEF Dispatch, SkipDiscarded, Consume, RecordsAreReal
    <2>4. ASSUME UNCHANGED <<slot, record>>, NEW p \in Slots, slot'[p] # "free"
          PROVE  record'[p].hook \in attached /\ record'[p].thread \in Threads
      BY <2>4 DEF RecordsAreReal
    <2>5. ASSUME Idle \/ \E o \in Owners : Poll(o) \/ PollNone(o) \/ Drop(o)
          PROVE  UNCHANGED <<slot, record>>
      BY <2>5 DEF Idle, Poll, PollNone, Drop, DropStream, ringVars
    <2> QED
      BY <2>1, <2>2, <2>3, <2>4, <2>5, NextIsOneOf
  <1>3. \A k \in PidTids : pending'[k] # NoRecord =>
            /\ pending'[k].hook = "vfs_rename"
            /\ pending'[k].thread \in Threads
            /\ PidTid(pending'[k].thread) = k
    <2>1. pending' = pending \/ Dispatch
      BY NextIsOneOf
      DEF Writes, Finish, Idle, SkipDiscarded, Poll, PollNone, Drop, dataVars
    <2>2. CASE pending' = pending
      BY <2>2 DEF RecordsAreReal, Pendings
    <2>3. CASE Dispatch
      BY <2>3, DispatchPending, DispatchedRecord DEF RecordsAreReal, Pendings
    <2> QED
      BY <2>1, <2>2, <2>3
  <1> QED
    BY <1>0, <1>1, <1>2, <1>3 DEF RecordsAreReal, Pendings

-----------------------------------------------------------------------------
(* The channels. *)

(* The events of a channel are in order, after record g and up to record n. *)
Along(c, g, n) ==
    /\ \A i, j \in 1 .. Len(c) : i < j => c[i].id < c[j].id
    /\ \A i \in 1 .. Len(c) : g < c[i].id /\ c[i].id <= n
    /\ g <= n

LEMMA InRingOrderIsAlong ==
    InRingOrder <=> \A o \in Owners : Along(chan[o], got[o], consumed)
  BY DEF InRingOrder, Channelled, Along

LEMMA ChannelIds ==
    ASSUME NEW c \in Seq(Events)
    PROVE  Len(c) \in Nat /\ \A i \in 1 .. Len(c) : c[i].id \in Nat
  <1>1. \A e \in Events : e.id \in Nat
    BY DeliveryAssumption DEF Events
  <1>2. Len(c) \in Nat /\ \A i \in 1 .. Len(c) : c[i] \in Events
    OBVIOUS
  <1> QED
    BY <1>1, <1>2

LEMMA AlongAppend ==
    ASSUME NEW c \in Seq(Events), NEW g \in Nat, NEW n \in Nat, Along(c, g, n),
           NEW e \in Events, e.id = n + 1
    PROVE  Along(Append(c, e), g, n + 1)
  <1> DEFINE d == Append(c, e)
  <1>1. /\ Len(c) \in Nat
        /\ Len(d) = Len(c) + 1
        /\ \A i \in 1 .. Len(c) : d[i] = c[i]
        /\ d[Len(c) + 1] = e
    OBVIOUS
  <1>2. \A i \in 1 .. Len(c) : c[i].id \in Nat
    BY ChannelIds
  <1>3. \A i \in 1 .. Len(d) : i \in 1 .. Len(c) \/ i = Len(c) + 1
    BY <1>1
  <1> HIDE DEF d
  <1>4. Along(d, g, n + 1)
    <2>1. \A i \in 1 .. Len(c) : g < d[i].id /\ d[i].id <= n
      BY <1>1 DEF Along
    <2>2. \A i \in 1 .. Len(d) : g < d[i].id /\ d[i].id <= n + 1
      BY <1>1, <1>2, <1>3, <2>1 DEF Along
    <2>3. ASSUME NEW i \in 1 .. Len(d), NEW j \in 1 .. Len(d), i < j
          PROVE  d[i].id < d[j].id
      <3>1. i \in 1 .. Len(c)
        BY <1>1, <2>3
      <3>2. CASE j \in 1 .. Len(c)
        BY <1>1, <2>3, <3>1, <3>2 DEF Along
      <3>3. CASE j = Len(c) + 1
        BY <1>1, <1>2, <2>1, <3>1, <3>3
      <3> QED
        BY <1>3, <3>2, <3>3
    <2> QED
      BY <2>2, <2>3 DEF Along
  <1> QED
    BY <1>4 DEF d

LEMMA AlongTail ==
    ASSUME NEW c \in Seq(Events), c # <<>>, NEW g \in Nat, NEW n \in Nat,
           Along(c, g, n)
    PROVE  Along(Tail(c), Head(c).id, n)
  <1> DEFINE d == Tail(c)
  <1>1. /\ Len(c) \in Nat \ {0}
        /\ Len(d) = Len(c) - 1
        /\ \A i \in 1 .. Len(d) : d[i] = c[i + 1]
        /\ Head(c) = c[1]
    OBVIOUS
  <1>2. \A i \in 1 .. Len(c) : c[i].id \in Nat
    BY ChannelIds
  <1>3. 1 \in 1 .. Len(c) /\ \A i \in 1 .. Len(d) : i + 1 \in 1 .. Len(c)
    BY <1>1
  <1> HIDE DEF d
  <1>4. \A i \in 1 .. Len(d) : d[i].id = c[i + 1].id /\ c[i + 1].id \in Nat
                                /\ c[1].id < c[i + 1].id /\ c[i + 1].id <= n
    BY <1>1, <1>2, <1>3 DEF Along
  <1>5. \A i, j \in 1 .. Len(d) : i < j => d[i].id < d[j].id
    <2> SUFFICES ASSUME NEW i \in 1 .. Len(d), NEW j \in 1 .. Len(d), i < j
                 PROVE  c[i + 1].id < c[j + 1].id
      BY <1>4
    <2>1. i + 1 \in 1 .. Len(c) /\ j + 1 \in 1 .. Len(c) /\ i + 1 < j + 1
      BY <1>1, <1>3
    <2> QED
      BY <2>1 DEF Along
  <1>6. Along(d, Head(c).id, n)
    BY <1>1, <1>3, <1>4, <1>5 DEF Along
  <1> QED
    BY <1>6 DEF d

LEMMA AlongLater ==
    ASSUME NEW c \in Seq(Events), NEW g \in Nat, NEW n \in Nat, Along(c, g, n)
    PROVE  Along(c, g, n + 1)
  BY ChannelIds DEF Along

LEMMA NextInRingOrder ==
    ASSUME StreamInv, [Next]_vars
    PROVE  InRingOrder'
  <1>0. /\ chan \in [Owners -> Seq(Events)]
        /\ got \in [Owners -> Nat]
        /\ consumed \in Nat
        /\ \A o \in Owners : Along(chan[o], got[o], consumed)
    BY DeliveryAssumption, InRingOrderIsAlong DEF StreamInv, TypeOK
  <1> SUFFICES ASSUME NEW o \in Owners
               PROVE  Along(chan'[o], got'[o], consumed')
    BY DEF InRingOrder, Channelled, Along
  <1>1. ASSUME UNCHANGED <<chan, got, consumed>>
        PROVE  Along(chan'[o], got'[o], consumed')
    BY <1>0, <1>1
  <1>2. CASE Dispatch
    <2>1. got' = got /\ consumed' = consumed + 1
      BY <1>2 DEF Dispatch
    <2>2. chan'[o] = chan[o]
          \/ \E e \in Events : e.id = consumed + 1 /\ chan'[o] = Append(chan[o], e)
      BY <1>0, <1>2, DispatchSends DEF Sends
    <2> QED
      BY <1>0, <2>1, <2>2, AlongLater, AlongAppend
  <1>3. CASE SkipDiscarded
    BY <1>0, <1>3, AlongLater DEF SkipDiscarded
  <1>4. ASSUME NEW w \in Owners, Poll(w)
        PROVE  Along(chan'[o], got'[o], consumed')
    <2>1. CASE w = o
      <3>1. /\ chan[o] # <<>> /\ chan'[o] = Tail(chan[o])
            /\ got'[o] = Head(chan[o]).id /\ consumed' = consumed
        BY <1>0, <1>4, <2>1 DEF Poll
      <3> QED
        BY <1>0, <3>1, AlongTail
    <2>2. CASE w # o
      BY <1>0, <1>4, <2>2 DEF Poll
    <2> QED
      BY <2>1, <2>2
  <1>5. ASSUME NEW w \in Owners, Drop(w)
        PROVE  Along(chan'[o], got'[o], consumed')
    <2>1. got' = got /\ consumed' = consumed /\ (chan'[o] = chan[o] \/ chan'[o] = <<>>)
      BY <1>0, <1>5 DEF Drop
    <2> QED
      BY <1>0, <2>1 DEF Along
  <1>6. ASSUME \/ \E t \in Threads, h \in attached, in \in InputType, op \in Ops :
                     Writes(t, h, in, op)
               \/ \E t \in Threads : Finish(t)
               \/ Idle
               \/ \E w \in Owners : PollNone(w)
        PROVE  UNCHANGED <<chan, got, consumed>>
    BY <1>6 DEF Writes, Finish, dataVars, Idle, PollNone
  <1> QED
    BY <1>1, <1>2, <1>3, <1>4, <1>5, <1>6, NextIsOneOf

LEMMA NextEndedIsEmpty ==
    ASSUME StreamInv, [Next]_vars
    PROVE  EndedIsEmpty'
  <1> USE DEF StreamInv, TypeOK
  <1>1. ASSUME UNCHANGED <<chan, ended>>, loop = "over" => loop' = "over"
        PROVE  EndedIsEmpty'
    BY <1>1 DEF EndedIsEmpty
  <1>2. ASSUME Consume PROVE ended = {}
    BY <1>2 DEF Consume, EndedIsEmpty
  <1>3. ASSUME Dispatch \/ SkipDiscarded
        PROVE  EndedIsEmpty'
    BY <1>2, <1>3 DEF EndedIsEmpty, Dispatch, SkipDiscarded
  <1>4. ASSUME NEW o \in Owners, Poll(o) \/ PollNone(o) \/ Drop(o)
        PROVE  EndedIsEmpty'
    BY <1>4 DEF EndedIsEmpty, Poll, PollNone, Drop, DropStream, ringVars
  <1>5. ASSUME \/ \E t \in Threads, h \in attached, in \in InputType, op \in Ops :
                     Writes(t, h, in, op)
               \/ \E t \in Threads : Finish(t)
               \/ Idle
        PROVE  UNCHANGED <<chan, ended>> /\ (loop = "over" => loop' = "over")
    BY <1>5
    DEF Writes, Write, Reserve, Finish, Commit, dataVars, Idle
  <1> QED
    BY <1>1, <1>3, <1>4, <1>5, NextIsOneOf

LEMMA NextStreamInv == StreamInv /\ [Next]_vars => StreamInv'
  <1> SUFFICES ASSUME StreamInv, [Next]_vars PROVE StreamInv'
    OBVIOUS
  <1> QED
    BY NextTypeOK, NextNumbers, NextHolders, NextRecordsAreReal,
       NextInRingOrder, NextEndedIsEmpty DEF StreamInv

(* The ring is a queue whose records are dispatched once each and in the    *)
(* order of their reservation, whatever the threads, the loop and the       *)
(* application do: the invariant everything else about Delivery rests on.   *)
THEOREM StreamInvariant == Spec => []StreamInv
  BY InitStreamInv, NextStreamInv, PTL DEF Spec

(* The variables of the ring, the loop, the channels and the rename table   *)
(* stay in their types.                                                     *)
THEOREM TypeCorrect == Spec => []TypeOK
  <1>1. StreamInv => TypeOK
    BY DEF StreamInv
  <1> QED
    BY <1>1, StreamInvariant, PTL

(* Every subscriber receives the events in the order in which the records   *)
(* were reserved and no record twice, for every number of threads and       *)
(* subscribers, ring size and channel capacity.                             *)
THEOREM EventsInOrder == Spec => []InRingOrder
  <1>1. StreamInv => InRingOrder
    BY DEF StreamInv
  <1> QED
    BY <1>1, StreamInvariant, PTL

-----------------------------------------------------------------------------
(* Delivery on the ring is RingLoop. *)

LEMMA RingStep ==
    ASSUME [Next]_vars
    PROVE  [RingNext]_ringVars
  <1>1. ASSUME NEW t \in Threads, KernelStep(t)
        PROVE  RingNext \/ UNCHANGED ringVars
    <2>1. \/ Reserve(t)
          \/ Commit(t, "data") \/ Commit(t, "discard")
          \/ UNCHANGED ringVars
      BY <1>1
      DEF KernelStep, Fire, Write, Finish, RenameEntry, RenameEntrySkipped,
          RenameExit, RenameExitLost
    <2> QED
      BY <2>1 DEF RingNext
  <1>2. ASSUME LoopStep \/ LoopFails
        PROVE  RingNext
    BY <1>2
    DEF LoopStep, LoopFails, LoopWakes, LoopParks, Dispatch, SkipDiscarded,
        RingNext
  <1>3. ASSUME NEW o \in Owners, Poll(o) \/ PollNone(o) \/ Drop(o)
        PROVE  RingNext \/ UNCHANGED ringVars
    BY <1>3 DEF Poll, PollNone, Drop, RingNext
  <1>4. ASSUME UNCHANGED vars
        PROVE  UNCHANGED ringVars
    BY <1>4 DEF vars
  <1> QED
    BY <1>1, <1>2, <1>3, <1>4 DEF Next

(* Whatever RingLoop promises of the ring and the loop, Delivery keeps: its *)
(* converters, channels and rename table never block or skip a record.      *)
THEOREM ImplementsRing == Spec => RingSpec
  <1>1. Init => RingInit
    BY DEF Init
  <1> QED
    BY <1>1, RingStep, PTL DEF Spec, RingSpec

-----------------------------------------------------------------------------
(* Every subscription implements Stream. *)

Ids(c) == [i \in 1 .. Len(c) |-> c[i].id]

LEMMA IdsFacts ==
    ASSUME NEW c \in Seq(Events)
    PROVE  /\ Ids(c) \in Seq(Nat)
           /\ Len(Ids(c)) = Len(c)
           /\ Ids(c) = <<>> <=> c = <<>>
           /\ c # <<>> => Head(Ids(c)) = Head(c).id /\ Ids(Tail(c)) = Tail(Ids(c))
           /\ \A e \in Events : Ids(Append(c, e)) = Append(Ids(c), e.id)
  <1>1. Len(c) \in Nat /\ \A i \in 1 .. Len(c) : c[i].id \in Nat
    BY ChannelIds
  <1>2. Ids(c) \in Seq(Nat) /\ Len(Ids(c)) = Len(c)
    BY <1>1 DEF Ids
  <1>3. Ids(c) = <<>> <=> c = <<>>
    BY <1>1, <1>2
  <1>4. ASSUME c # <<>>
        PROVE  Head(Ids(c)) = Head(c).id /\ Ids(Tail(c)) = Tail(Ids(c))
    <2>1. Len(c) > 0 /\ Len(Tail(c)) = Len(c) - 1 /\ Head(c) = c[1]
          /\ \A i \in 1 .. Len(Tail(c)) : Tail(c)[i] = c[i + 1]
      BY <1>4
    <2>2. Head(Ids(c)) = Head(c).id
      BY <1>1, <1>2, <2>1 DEF Ids
    <2>3. /\ Tail(Ids(c)) \in Seq(Nat) /\ Len(Tail(Ids(c))) = Len(c) - 1
          /\ \A i \in 1 .. (Len(c) - 1) : Tail(Ids(c))[i] = c[i + 1].id
      BY <1>1, <1>2, <2>1 DEF Ids
    <2>4. /\ Ids(Tail(c)) \in Seq(Nat) /\ Len(Ids(Tail(c))) = Len(c) - 1
          /\ \A i \in 1 .. (Len(c) - 1) : Ids(Tail(c))[i] = c[i + 1].id
      BY <1>1, <2>1 DEF Ids
    <2>5. Ids(Tail(c)) = Tail(Ids(c))
      BY <2>3, <2>4, SeqEqual
    <2> QED
      BY <2>2, <2>5
  <1>5. ASSUME NEW e \in Events
        PROVE  Ids(Append(c, e)) = Append(Ids(c), e.id)
    <2>1. /\ Len(Append(c, e)) = Len(c) + 1
          /\ \A i \in 1 .. Len(c) : Append(c, e)[i] = c[i]
          /\ Append(c, e)[Len(c) + 1] = e
      OBVIOUS
    <2>2. e.id \in Nat
      BY DeliveryAssumption DEF Events
    <2> DEFINE F == [i \in 1 .. (Len(c) + 1) |->
                        IF i = Len(c) + 1 THEN e.id ELSE c[i].id]
    <2>3. Append(Ids(c), e.id) = F
      BY <1>1, <1>2, <2>2 DEF Ids
    <2>4. Ids(Append(c, e)) = F
      BY <1>1, <2>1 DEF Ids
    <2> QED
      BY <2>3, <2>4
  <1> QED
    BY <1>2, <1>3, <1>4, <1>5

(* The state of a stream as Stream has it. *)
StateOf(o) == IF o \notin open THEN "dropped"
              ELSE IF o \in ended THEN "ended" ELSE "open"

(* What the kernel puts before the stream of o, as Stream has it. *)
HeadIsEvent(o) == slot[cons] = "data" /\ IsEventFor(o, record[cons])

(* try_send loses an event only to a full or a closed channel. *)
LEMMA TrySendOrFull ==
    ASSUME NEW o, NEW e, try_send(o, e)
    PROVE  \/ Sends(o, e)
           \/ chan' = chan /\ (o \in open => ~(Len(chan[o]) < Capacity))
  BY DEF try_send, Sends

(* A dispatched record is sent to o exactly if it is an event for o and     *)
(* there is room.                                                           *)
LEMMA DispatchAnswers ==
    ASSUME StreamInv, Dispatch, NEW o \in Owners
    PROVE  \/ /\ chan'[o] = chan[o]
              /\ HeadIsEvent(o) /\ o \in open => ~(Len(chan[o]) < Capacity)
           \/ /\ HeadIsEvent(o)
              /\ \E e \in Events : e.id = consumed + 1 /\ Sends(o, e)
  <1> DEFINE r == record[cons]
  <1> DEFINE w == ConvertedBy(EventType[r.hook])
  <1>0. /\ w \in Owners /\ chan \in [Owners -> Seq(Events)]
        /\ slot[cons] = "data"
    BY DispatchedRecord DEF StreamInv, TypeOK, Dispatch
  <1>1. ASSUME NEW e \in Events, e.id = consumed + 1, try_send(w, e),
               w = o => HeadIsEvent(o), w # o => ~HeadIsEvent(o)
        PROVE  \/ /\ chan'[o] = chan[o]
                  /\ HeadIsEvent(o) /\ o \in open => ~(Len(chan[o]) < Capacity)
               \/ /\ HeadIsEvent(o)
                  /\ \E f \in Events : f.id = consumed + 1 /\ Sends(o, f)
    <2> HIDE DEF w
    <2>1. CASE w = o
      BY <1>1, <2>1, TrySendOrFull
    <2>2. CASE w # o
      BY <1>0, <1>1, <2>2, TrySendOrFull DEF Sends
    <2> QED
      BY <2>1, <2>2
  <1>2. CASE r.hook = "vfs_rename" /\ InsertPending(r)
    BY <1>2 DEF InsertPending, HeadIsEvent, IsEventFor
  <1>3. CASE r.hook = "vfs_rename_retval" /\ TakePending(r)
    <2> DEFINE k == PidTid(r.thread)
    <2>1. CASE pending[k] = NoRecord
      BY <1>3, <2>1 DEF TakePending, HeadIsEvent, IsEventFor
    <2>2. CASE pending[k] # NoRecord
      <3>1. try_send("File", RenameEvent(pending[k], r))
        BY <1>3, <2>2 DEF TakePending, RenameEvent
      <3>2. k \in PidTids /\ r \in Records /\ r.id = consumed + 1
        BY DispatchedRecord
      <3>3. RenameEvent(pending[k], r) \in Events
            /\ RenameEvent(pending[k], r).id = consumed + 1
        <4> HIDE DEF k, r
        <4> QED
          BY <2>2, <3>2, TakenEntry, RenameEventType
      <3>4. w = "File"
        BY <1>3, DispatchedRecord, FileIsOwner DEF StreamInv, RenameHooks
      <3>5. HeadIsEvent(o) <=> w = o
        BY <1>0, <1>3, <2>2 DEF HeadIsEvent, IsEventFor
      <3> HIDE DEF k, r, w
      <3> QED
        BY <1>1, <3>1, <3>3, <3>4, <3>5
    <2> QED
      BY <2>1, <2>2
  <1>4. CASE r.hook \notin RenameHooks /\ try_send(w, EventOf(r))
    <2>1. EventOf(r) \in Events
      BY DispatchedRecord, EventOfType
    <2>2. EventOf(r).id = consumed + 1
      BY DispatchedRecord DEF EventOf
    <2>3. HeadIsEvent(o) <=> w = o
      BY <1>0, <1>4 DEF HeadIsEvent, IsEventFor, RenameHooks
    <2> HIDE DEF r, w
    <2> QED
      BY <1>1, <1>4, <2>1, <2>2, <2>3
  <1> QED
    BY <1>2, <1>3, <1>4, DispatchArms

(* Reserving a record does not change the one at the head; committing one   *)
(* may put an event there and never takes one away.                         *)
LEMMA KernelArrives ==
    ASSUME StreamInv, NEW o \in Owners, NEW t \in Threads,
           Finish(t) \/ \E h \in attached, in \in InputType, op \in Ops :
                           Writes(t, h, in, op)
    PROVE  HeadIsEvent(o) => HeadIsEvent(o)'
  <1>0. /\ cons \in Slots /\ prod \in Slots /\ slot \in [Slots -> {"free", "busy", "data", "discard"}]
        /\ record \in [Slots -> Records]
    BY DEF StreamInv, TypeOK, RingTypeOK
  <1>1. CASE Finish(t)
    <2>1. /\ held[t] # NoSlot /\ slot[held[t]] = "busy" /\ cons' = cons
          /\ record' = record /\ pending' = pending
          /\ \A p \in Slots : p # held[t] => slot'[p] = slot[p]
      BY <1>0, <1>1 DEF Finish, Commit, dataVars, StreamInv, Holders
    <2> QED
      BY <1>0, <2>1 DEF HeadIsEvent, IsEventFor
  <1>2. CASE \E h \in attached, in \in InputType, op \in Ops :
                 Writes(t, h, in, op)
    <2>1. /\ slot[prod] = "free" /\ cons' = cons /\ pending' = pending
          /\ \A p \in Slots : p # prod => slot'[p] = slot[p] /\ record'[p] = record[p]
      BY <1>0, <1>2 DEF Writes, Write, Reserve
    <2> QED
      BY <1>0, <2>1 DEF HeadIsEvent, IsEventFor
  <1> QED
    BY <1>1, <1>2

LEMMA StreamStep ==
    ASSUME StreamInv, [Next]_vars, NEW o \in Owners
    PROVE  [StreamOf(o)!Next]_(StreamOf(o)!streamVars)
  <1> DEFINE Goal == StreamOf(o)!Next \/ UNCHANGED StreamOf(o)!streamVars
  <1>0. /\ chan[o] \in Seq(Events) /\ chan \in [Owners -> Seq(Events)]
        /\ got \in [Owners -> 0 .. MaxRecords]
        /\ o \in ended => loop = "over" /\ chan[o] = <<>>
    BY DEF StreamInv, TypeOK, EndedIsEmpty
  <1>1. ASSUME UNCHANGED <<consumed, open, ended, loop>>, chan'[o] = chan[o],
               got'[o] = got[o], HeadIsEvent(o)' = HeadIsEvent(o)
        PROVE  Goal
    <2>1. UNCHANGED StreamOf(o)!streamVars
      BY <1>1 DEF StreamOf!streamVars, HeadIsEvent
    <2> QED
      BY <2>1
  <1>2. ASSUME Idle PROVE Goal
    <2>0. HeadIsEvent(o)' = HeadIsEvent(o)
      BY <1>2 DEF Idle, HeadIsEvent, IsEventFor
    <2>1. CASE loop' = loop
      BY <1>1, <1>2, <2>0, <2>1 DEF Idle
    <2>2. CASE loop' # loop /\ loop' # "over"
      BY <1>2, <2>0, <2>2 DEF Idle, StreamOf!streamVars, HeadIsEvent
    <2>3. CASE loop # "over" /\ loop' = "over"
      <3>1. StreamOf(o)!Stop
        BY <1>2, <2>0, <2>3 DEF Idle, StreamOf!Stop, HeadIsEvent
      <3> QED
        BY <3>1 DEF StreamOf!Next
    <2> QED
      BY <2>1, <2>2, <2>3
  <1>3. ASSUME Dispatch \/ SkipDiscarded PROVE Goal
    <2>1. /\ loop = "draining" /\ UNCHANGED <<open, ended, loop, got>>
          /\ consumed' = consumed + 1
      BY <1>3 DEF Dispatch, SkipDiscarded, Consume
    <2>2. HeadIsEvent(o) \in BOOLEAN /\ HeadIsEvent(o)' \in BOOLEAN
      BY DEF HeadIsEvent
    <2>3. ASSUME chan'[o] = chan[o],
                 HeadIsEvent(o) /\ o \in open => ~(Len(chan[o]) < Capacity)
          PROVE  Goal
      <3>1. HeadIsEvent(o) =>
                StateOf(o) # "open" \/ Len(Ids(chan[o])) >= Capacity
        BY <1>0, <2>3, IdsFacts, LenProperties, DeliveryAssumption DEF StateOf
      <3>2. StateOf(o)' = StateOf(o) /\ Ids(chan'[o]) = Ids(chan[o])
        BY <2>1, <2>3 DEF StateOf
      <3>3. StreamOf(o)!Pass
        BY <2>1, <2>2, <3>1, <3>2 DEF StreamOf!Pass, Ids, StateOf, HeadIsEvent
      <3> QED
        BY <3>3 DEF StreamOf!Next
    <2>4. ASSUME HeadIsEvent(o), NEW e \in Events, e.id = consumed + 1,
                 Sends(o, e)
          PROVE  Goal
      <3>1. Ids(chan'[o]) = Append(Ids(chan[o]), consumed + 1)
        BY <1>0, <2>4, IdsFacts DEF Sends
      <3>2. Len(Ids(chan[o])) < Capacity
        BY <1>0, <2>4, IdsFacts DEF Sends
      <3>3. StateOf(o) = "open" /\ StateOf(o)' = StateOf(o)
        BY <1>0, <2>1, <2>4 DEF StateOf, Sends
      <3>4. StreamOf(o)!Send
        BY <2>1, <2>2, <2>4, <3>1, <3>2, <3>3
        DEF StreamOf!Send, Ids, StateOf, HeadIsEvent
      <3> QED
        BY <3>4 DEF StreamOf!Next
    <2>5. CASE Dispatch
      <3> HIDE DEF Goal
      <3> QED
        BY <2>3, <2>4, <2>5, DispatchAnswers
    <2>6. CASE SkipDiscarded
      <3>1. chan' = chan /\ ~HeadIsEvent(o)
        BY <2>6 DEF SkipDiscarded, HeadIsEvent
      <3> HIDE DEF Goal
      <3> QED
        BY <2>3, <3>1
    <2> QED
      BY <1>3, <2>5, <2>6
  <1>4. ASSUME Poll(o) PROVE Goal
    <2>1. /\ chan[o] # <<>> /\ chan'[o] = Tail(chan[o])
          /\ got'[o] = Head(chan[o]).id
          /\ UNCHANGED <<consumed, open, ended, loop>> /\ o \in open
          /\ HeadIsEvent(o)' = HeadIsEvent(o)
      BY <1>0, <1>4 DEF Poll, ringVars, HeadIsEvent, IsEventFor
    <2>2. /\ Ids(chan[o]) # <<>> /\ got'[o] = Head(Ids(chan[o]))
          /\ Ids(chan'[o]) = Tail(Ids(chan[o]))
      BY <1>0, <2>1, IdsFacts
    <2>3. StreamOf(o)!Receive
      BY <1>0, <2>1, <2>2 DEF StreamOf!Receive, Ids, HeadIsEvent
    <2> QED
      BY <2>3 DEF StreamOf!Next
  <1>5. ASSUME PollNone(o) PROVE Goal
    <2>1. Ids(chan[o]) = <<>>
      BY <1>0, <1>5, IdsFacts DEF PollNone
    <2>2. StreamOf(o)!End
      BY <1>5, <2>1
      DEF PollNone, ringVars, StreamOf!End, Ids, IsEventFor
    <2> QED
      BY <2>2 DEF StreamOf!Next
  <1>6. ASSUME Drop(o) PROVE Goal
    <2>1. /\ o \in open /\ open' = open \ {o} /\ chan'[o] = <<>>
          /\ UNCHANGED <<consumed, got, ended, loop>>
          /\ HeadIsEvent(o)' = HeadIsEvent(o)
      BY <1>0, <1>6 DEF Drop, DropStream, HeadIsEvent, IsEventFor
    <2>2. Ids(chan'[o]) = <<>>
      <3>1. <<>> \in Seq(Events)
        OBVIOUS
      <3> QED
        BY <2>1, <3>1, IdsFacts
    <2>3. StreamOf(o)!Drop
      BY <2>1, <2>2 DEF StreamOf!Drop, Ids, HeadIsEvent
    <2> QED
      BY <2>3 DEF StreamOf!Next
  <1>7. ASSUME NEW w \in Owners, w # o, Poll(w) \/ PollNone(w) \/ Drop(w)
        PROVE  Goal
    <2>1. /\ chan'[o] = chan[o] /\ got'[o] = got[o] /\ UNCHANGED <<consumed, loop>>
          /\ o \in open' <=> o \in open
          /\ o \in ended' <=> o \in ended
      BY <1>0, <1>7 DEF Poll, PollNone, Drop, DropStream, ringVars
    <2>2. HeadIsEvent(o)' = HeadIsEvent(o)
      BY <1>7
      DEF Poll, PollNone, Drop, DropStream, ringVars, HeadIsEvent, IsEventFor
    <2>3. UNCHANGED StreamOf(o)!streamVars
      BY <2>1, <2>2 DEF StreamOf!streamVars, HeadIsEvent
    <2> QED
      BY <2>3
  <1>8. ASSUME NEW t \in Threads,
               Finish(t) \/ \E h \in attached, in \in InputType, op \in Ops :
                               Writes(t, h, in, op)
        PROVE  Goal
    <2>1. UNCHANGED <<consumed, open, ended, loop, chan, got>>
      BY <1>8 DEF Finish, Commit, Writes, Write, Reserve, dataVars
    <2>2. CASE HeadIsEvent(o)' = HeadIsEvent(o)
      BY <1>1, <2>1, <2>2
    <2>3. CASE HeadIsEvent(o)' # HeadIsEvent(o)
      <3>1. ~HeadIsEvent(o) /\ HeadIsEvent(o)' = TRUE
        BY <1>8, <2>3, KernelArrives DEF HeadIsEvent
      <3>2. StreamOf(o)!Arrive
        BY <2>1, <3>1 DEF StreamOf!Arrive, HeadIsEvent
      <3> QED
        BY <3>2 DEF StreamOf!Next
    <2> QED
      BY <2>2, <2>3
  <1> HIDE DEF Goal
  <1>9. Goal
    BY <1>2, <1>3, <1>4, <1>5, <1>6, <1>7, <1>8, NextIsOneOf
  <1> QED
    BY <1>9 DEF Goal

LEMMA StreamInit ==
    ASSUME Init, NEW o \in Owners
    PROVE  StreamOf(o)!Init
  <1>1. chan[o] = <<>> /\ Ids(chan[o]) = <<>>
    <2>1. <<>> \in Seq(Events)
      OBVIOUS
    <2> QED
      BY <2>1, IdsFacts DEF Init
  <1>2. cons \in Slots /\ slot[cons] = "free"
    BY SizeAssumption DEF Init, RingInit, Slots
  <1>3. HeadIsEvent(o) = FALSE
    BY <1>2 DEF HeadIsEvent
  <1> QED
    BY <1>1, <1>3 DEF Init, RingInit, StreamOf!Init, Ids, HeadIsEvent

(* Every subscription keeps the contract of Stream: an event is lost only   *)
(* when its channel is full or its stream dropped, none comes twice or out  *)
(* of order, and a stream ends only when the loop is over and its channel   *)
(* empty, whatever the other subscribers do.                                *)
THEOREM StreamsImplemented == Spec => ImplementsStreams
  <1>1. Init => \A o \in Owners : StreamOf(o)!Init
    BY StreamInit
  <1>2. StreamInv /\ [Next]_vars =>
            [\A o \in Owners : [StreamOf(o)!Next]_(StreamOf(o)!streamVars)]_vars
    BY StreamStep
  <1> QED
    BY <1>1, <1>2, StreamInvariant, PTL DEF Spec, ImplementsStreams

-----------------------------------------------------------------------------
(***************************************************************************)
(* A subscriber receives only what its filter asks for, whatever the       *)
(* threads do, the filters are and the other subscribers asked for:        *)
(* Delivery keeps FilterInv, and from it OnlyWhatWasAskedFor.              *)
(*                                                                         *)
(* The argument follows an event from its program to its channel.  The     *)
(* program is attached because the mask has its operation (and protocol),   *)
(* it submits only after FILTER and CONFIG agreed, the slot says "data"     *)
(* only if the program submitted, and the converter sends the event to the *)
(* register that attached the program.                                     *)
(***************************************************************************)

(* What the programs and the masks decide. *)

LEMMA ProtocolIsTheSockets ==
    ASSUME NEW h \in NetworkHooks, h # "inet_bind", NEW in
    PROVE  Protocol(h) = SocketOf(h, in)
  BY DEF NetworkHooks, Protocol, RawProtocol, UdpHooks, EventType, SocketOf

(* A program that submits has a subscriber that asked. *)
LEMMA SubmitsWhatWasAsked ==
    ASSUME TypeOK, NEW t \in Threads, NEW h \in attached, NEW in, NEW op,
           Run(t, h, in) # "return"
    PROVE  /\ AskedFor(sub, RecordOf(t, h, in, op))
           /\ h \in RenameHooks => RecordOf(t, h, in, op).keep
  <1> DEFINE r == RecordOf(t, h, in, op)
             o == ConvertedBy(EventType[h])
             f == sub[o]
             ctx == [key |-> FILTER(o), config |-> CONFIG,
                     header |-> Header[t], input |-> in]
  <1>1. /\ r.hook = h /\ r.thread = t
        /\ r.keep = (Outcome(h, ctx) = "submit")
        /\ o = "File" => r.mode = in.mode
        /\ o = "Network" => r.sock = SocketOf(h, in)
    BY DEF RecordOf, Run
  <1>2. h \in Hooks /\ o \in Owners /\ h \in Attached(o, f)
    BY AttachedIsOwned DEF TypeOK
  <1>3. o \in DOMAIN MaskFlags /\ IsFilter(o, f)
    BY <1>2, SubscriptionsAssumption DEF TypeOK
  <1>4. h \in RenameHooks => r.keep
    BY <1>1 DEF RenameHooks, Run, Outcome, vfs_rename, vfs_rename_retval
  <1>5. ASSUME r.keep, h # "vfs_rename_retval"
        PROVE  /\ OperationMatches(f, o, EventType[h], r.mode)
               /\ o = "Network" =>
                     /\ Protocol(h) \in {IF m = "TCP" THEN "Tcp" ELSE "Udp" :
                                             m \in f.protocol_mask}
                     /\ h # "inet_bind" => Protocol(h) = r.sock
               /\ h # "__vm_munmap" => KeyMatches(f.filter, Header[t])
    <2>1. Operation[EventType[h]] \in f.mask
      BY <1>2, <1>3, <1>5, MaskHasOperation
    <2>2. ASSUME o = "File" PROVE r.mode \in f.file_mode
      <3>1. h \in FileHooks
        BY <1>2, <2>2, HooksAre
      <3>2. Outcome(h, ctx) = "submit" /\ h # "__vm_munmap"
        BY <1>1, <1>5, <3>1 DEF FileHooks
      <3>3. ctx.input.mode \in ctx.config
        BY <1>2, <1>5, <3>1, <3>2, SubmitsWhatIsWanted
      <3> QED
        BY <1>1, <1>2, <2>2, <3>3 DEF CONFIG
    <2>3. ASSUME o = "Network"
          PROVE  /\ Protocol(h) \in {IF m = "TCP" THEN "Tcp" ELSE "Udp" :
                                         m \in f.protocol_mask}
                 /\ h # "inet_bind" => Protocol(h) = r.sock
      <3>1. h \in NetworkHooks /\ h \in attach_network_probe(f)
        BY <1>2, <2>3, HooksAre DEF Attached
      <3> QED
        BY <1>1, <2>3, <3>1, MaskHasProtocol, ProtocolIsTheSockets
    <2>4. ASSUME h # "__vm_munmap" PROVE KeyMatches(f.filter, Header[t])
      <3>1. Wanted(ctx)
        BY <1>1, <1>2, <1>5, <2>4, SubmitsWhatIsWanted
      <3>2. ctx.key = f.filter /\ ctx.header = Header[t]
        BY <1>2 DEF FILTER
      <3>3. ctx.key.kind \in DOMAIN KeyField \cup {"None"}
        BY <1>3, <3>2 DEF IsFilter
      <3> HIDE DEF ctx
      <3> QED
        BY <3>1, <3>2, <3>3, WantedMatches
    <2> QED
      BY <2>1, <2>2, <2>3, <2>4 DEF OperationMatches
  <1> HIDE DEF r
  <1>6. AskedFor(sub, r)
    BY <1>1, <1>5 DEF AskedFor
  <1> QED
    BY <1>4, <1>6 DEF r

-----------------------------------------------------------------------------
(* What the converters make of it. *)

(* Event e in the channel of o is what subscription s asks for. *)
EventAskedFor(s, o, e) ==
    /\ OperationMatches(s[o], o, e.event, e.mode)
    /\ o = "Network" =>
          /\ e.protocol \in {IF m = "TCP" THEN "Tcp" ELSE "Udp" :
                                 m \in s[o].protocol_mask}
          /\ e.event # "Bind" => e.protocol = e.sock
    /\ e.event # "MemoryUnMap" => KeyMatches(s[o].filter, Header[e.thread])

LEMMA AskedIsByIndex ==
    OnlyWhatWasAskedFor <=>
        \A o \in Owners : \A i \in 1 .. Len(chan[o]) :
            EventAskedFor(sub, o, chan[o][i])
  BY DEF OnlyWhatWasAskedFor, EventAskedFor, Channelled

LEMMA EventIsRecords ==
    ASSUME NEW s, NEW r, r.hook \in Hooks \ {"vfs_rename_retval"}, r.keep,
           AskedFor(s, r)
    PROVE  EventAskedFor(s, ConvertedBy(EventType[r.hook]), EventOf(r))
  <1> DEFINE e == EventOf(r)
  <1>1. /\ e.event = EventType[r.hook] /\ e.mode = r.mode /\ e.sock = r.sock
        /\ e.protocol = Protocol(r.hook) /\ e.thread = r.thread
    BY DEF EventOf
  <1>2. r.hook = "inet_bind" => e.event = "Bind"
    BY <1>1 DEF EventType
  <1>3. r.hook = "__vm_munmap" => e.event = "MemoryUnMap"
    BY <1>1 DEF EventType
  <1> HIDE DEF e
  <1>4. EventAskedFor(s, ConvertedBy(EventType[r.hook]), e)
    BY <1>1, <1>2, <1>3 DEF AskedFor, EventAskedFor
  <1> QED
    BY <1>4 DEF e

LEMMA RenameEventIsEntrys ==
    ASSUME NEW s, NEW r \in Records, NEW x \in Records, r.hook = "vfs_rename",
           r.thread \in Threads, r.keep, AskedFor(s, r)
    PROVE  EventAskedFor(s, "File", RenameEvent(r, x))
  <1>1. r.hook \in Hooks /\ ConvertedBy(EventType[r.hook]) = "File"
    BY HooksAre DEF FileHooks
  <1>2. EventAskedFor(s, "File", EventOf(r))
    BY <1>1, EventIsRecords
  <1>3. /\ RenameEvent(r, x).event = EventOf(r).event
        /\ RenameEvent(r, x).mode = EventOf(r).mode
        /\ RenameEvent(r, x).thread = EventOf(r).thread
    BY <1>1, RenameEventType DEF EventOf
  <1> QED
    BY <1>2, <1>3 DEF EventAskedFor

-----------------------------------------------------------------------------
(* FilterInv is inductive. *)

LEMMA NextKeepDecides ==
    ASSUME FilterInv, [Next]_vars
    PROVE  KeepDecides'
  <1> USE DEF FilterInv, StreamInv, TypeOK, RingTypeOK
  <1>1. ASSUME NEW t \in Threads, NEW h, NEW in, NEW op, Writes(t, h, in, op)
        PROVE  KeepDecides'
    <2>1. RecordOf(t, h, in, op).hook \in RenameHooks => RecordOf(t, h, in, op).keep
      BY <1>1, SubmitsWhatWasAsked DEF Writes, RecordOf
    <2>2. /\ slot' = [slot EXCEPT ![prod] = "busy"]
          /\ record' = [record EXCEPT ![prod] = RecordOf(t, h, in, op)]
      BY <1>1 DEF Writes, Write, Reserve
    <2> QED
      BY <2>1, <2>2 DEF KeepDecides
  <1>2. ASSUME NEW t \in Threads, Finish(t)
        PROVE  KeepDecides'
    <2>1. /\ held[t] \in Slots /\ record' = record
          /\ slot' = [slot EXCEPT ![held[t]] =
                         IF record[held[t]].keep THEN "data" ELSE "discard"]
      BY <1>2 DEF Finish, Commit, dataVars
    <2> QED
      BY <2>1 DEF KeepDecides
  <1>3. ASSUME Dispatch \/ SkipDiscarded
        PROVE  KeepDecides'
    <2>1. /\ slot' = [slot EXCEPT ![cons] = "free"]
          /\ record' = [record EXCEPT ![cons] = NoRecord]
      BY <1>3 DEF Dispatch, SkipDiscarded, Consume
    <2> QED
      BY <2>1 DEF KeepDecides, NoRecord, RenameHooks
  <1>4. ASSUME Idle \/ \E o \in Owners : Poll(o) \/ PollNone(o) \/ Drop(o)
        PROVE  UNCHANGED <<slot, record>>
    BY <1>4 DEF Idle, Poll, PollNone, Drop, DropStream, ringVars
  <1>5. ASSUME UNCHANGED <<slot, record>>
        PROVE  KeepDecides'
    BY <1>5 DEF KeepDecides
  <1> QED
    BY <1>1, <1>2, <1>3, <1>4, <1>5, NextIsOneOf

LEMMA NextRingAsked ==
    ASSUME FilterInv, [Next]_vars, NEW p \in Slots, slot'[p] # "free"
    PROVE  AskedFor(sub, record'[p])
  <1> USE DEF FilterInv, StreamInv, TypeOK, RingTypeOK
  <1>1. ASSUME NEW t \in Threads, NEW h, NEW in, NEW op, Writes(t, h, in, op)
        PROVE  AskedFor(sub, record'[p])
    <2>1. AskedFor(sub, RecordOf(t, h, in, op))
      BY <1>1, SubmitsWhatWasAsked DEF Writes
    <2>2. /\ slot' = [slot EXCEPT ![prod] = "busy"]
          /\ record' = [record EXCEPT ![prod] = RecordOf(t, h, in, op)]
      BY <1>1 DEF Writes, Write, Reserve
    <2> QED
      BY <2>1, <2>2
  <1>2. ASSUME NEW t \in Threads, Finish(t)
        PROVE  AskedFor(sub, record'[p])
    BY <1>2 DEF Finish, Commit, dataVars, Holders
  <1>3. ASSUME Dispatch \/ SkipDiscarded
        PROVE  AskedFor(sub, record'[p])
    BY <1>3 DEF Dispatch, SkipDiscarded, Consume
  <1>4. ASSUME Idle \/ \E o \in Owners : Poll(o) \/ PollNone(o) \/ Drop(o)
        PROVE  UNCHANGED <<slot, record>>
    BY <1>4 DEF Idle, Poll, PollNone, Drop, DropStream, ringVars
  <1> QED
    BY <1>1, <1>2, <1>3, <1>4, NextIsOneOf

LEMMA HeadIsAsked ==
    ASSUME FilterInv, Dispatch
    PROVE  record[cons].keep /\ AskedFor(sub, record[cons])
  BY DEF FilterInv, StreamInv, TypeOK, RingTypeOK, KeepDecides, Dispatch

LEMMA NextPendingAsked ==
    ASSUME FilterInv, [Next]_vars, NEW k \in PidTids, pending'[k] # NoRecord
    PROVE  pending'[k].keep /\ AskedFor(sub, pending'[k])
  <1>1. pending' = pending \/ Dispatch
    BY NextIsOneOf
    DEF FilterInv, Writes, Finish, Idle, SkipDiscarded, Poll, PollNone, Drop,
        dataVars
  <1>2. CASE pending' = pending
    BY <1>2 DEF FilterInv, Pendings
  <1>3. CASE Dispatch
    BY <1>3, DispatchPending, HeadIsAsked DEF FilterInv, Pendings
  <1> QED
    BY <1>1, <1>2, <1>3

(* What a dispatched record sends was asked for. *)
LEMMA DispatchSendsAsked ==
    ASSUME FilterInv, Dispatch, NEW o \in Owners, chan'[o] # chan[o]
    PROVE  \E e \in Events : EventAskedFor(sub, o, e) /\ Sends(o, e)
  <1> DEFINE r == record[cons]
             k == PidTid(r.thread)
  <1>0. StreamInv /\ r \in Records /\ k \in PidTids
    BY DispatchedRecord DEF FilterInv
  <1>1. CASE r.hook = "vfs_rename" /\ InsertPending(r)
    BY <1>1 DEF InsertPending
  <1>2. CASE r.hook = "vfs_rename_retval" /\ TakePending(r)
    <2>1. pending[k] # NoRecord /\ try_send("File", RenameEvent(pending[k], r))
      BY <1>2 DEF TakePending, RenameEvent
    <2>2. Sends("File", RenameEvent(pending[k], r)) /\ o = "File"
      <3>1. Sends("File", RenameEvent(pending[k], r))
        BY <2>1, TrySend
      <3> QED
        BY <3>1 DEF Sends, FilterInv, StreamInv, TypeOK
    <2>3. pending[k].keep /\ AskedFor(sub, pending[k])
      BY <1>0, <2>1 DEF FilterInv, Pendings
    <2> HIDE DEF r, k
    <2>4. EventAskedFor(sub, "File", RenameEvent(pending[k], r))
          /\ RenameEvent(pending[k], r) \in Events
      BY <1>0, <2>1, <2>3, TakenEntry, RenameEventIsEntrys, RenameEventType
    <2> QED
      BY <2>2, <2>4
  <1>3. CASE /\ r.hook \notin RenameHooks
             /\ try_send(ConvertedBy(EventType[r.hook]), EventOf(r))
    <2> DEFINE w == ConvertedBy(EventType[r.hook])
    <2>1. Sends(w, EventOf(r))
      BY <1>3, TrySend
    <2>2. w = o
      BY <2>1 DEF Sends, FilterInv, StreamInv, TypeOK
    <2>3. EventOf(r) \in Events
      BY <1>0, DispatchedRecord, EventOfType
    <2>4. r.keep /\ AskedFor(sub, r) /\ r.hook \in Hooks \ {"vfs_rename_retval"}
      BY <1>0, <1>3, HeadIsAsked, DispatchedRecord DEF RenameHooks
    <2> HIDE DEF r
    <2>5. EventAskedFor(sub, w, EventOf(r))
      BY <2>4, EventIsRecords
    <2> QED
      BY <2>1, <2>2, <2>3, <2>5
  <1> QED
    BY <1>0, <1>1, <1>2, <1>3, DispatchArms

LEMMA NextOnlyAsked ==
    ASSUME FilterInv, [Next]_vars
    PROVE  OnlyWhatWasAskedFor'
  <1>0. /\ chan \in [Owners -> Seq(Events)] /\ sub' = sub /\ StreamInv
        /\ \A o \in Owners : \A i \in 1 .. Len(chan[o]) :
              EventAskedFor(sub, o, chan[o][i])
    BY AskedIsByIndex, SubConstant DEF FilterInv, StreamInv, TypeOK
  <1> SUFFICES ASSUME NEW o \in Owners, NEW i \in 1 .. Len(chan'[o])
               PROVE  EventAskedFor(sub, o, chan'[o][i])
    BY <1>0 DEF OnlyWhatWasAskedFor, EventAskedFor, Channelled
  <1>1. CASE chan'[o] = chan[o]
    BY <1>0, <1>1
  <1>2. CASE Dispatch /\ chan'[o] # chan[o]
    <2>1. PICK e \in Events : EventAskedFor(sub, o, e) /\ Sends(o, e)
      BY <1>2, DispatchSendsAsked
    <2>2. chan'[o] = Append(chan[o], e)
      BY <1>0, <2>1 DEF Sends
    <2>3. chan'[o][i] = e \/ (i \in 1 .. Len(chan[o]) /\ chan'[o][i] = chan[o][i])
      BY <1>0, <2>2
    <2> QED
      BY <1>0, <2>1, <2>3
  <1>3. CASE Poll(o)
    <2>1. chan[o] # <<>> /\ chan'[o] = Tail(chan[o]) /\ chan[o] \in Seq(Events)
      BY <1>0, <1>3 DEF Poll
    <2>2. i + 1 \in 1 .. Len(chan[o]) /\ chan'[o][i] = chan[o][i + 1]
      BY <2>1
    <2> QED
      BY <1>0, <2>2
  <1>4. CASE Drop(o)
    <2>1. chan'[o] = <<>>
      BY <1>0, <1>4 DEF Drop
    <2> QED
      BY <2>1
  <1>5. \/ chan'[o] = chan[o] \/ Dispatch \/ Poll(o) \/ Drop(o)
    BY <1>0, NextIsOneOf
    DEF Writes, Finish, Idle, SkipDiscarded, Poll, PollNone, Drop, dataVars
  <1> QED
    BY <1>1, <1>2, <1>3, <1>4, <1>5

LEMMA InitFilterInv == Init => FilterInv
  <1> SUFFICES ASSUME Init PROVE FilterInv
    OBVIOUS
  <1>1. StreamInv
    BY InitStreamInv
  <1>2. KeepDecides
    BY DEF Init, RingInit, KeepDecides, NoRecord, RenameHooks
  <1>3. OnlyWhatWasAskedFor
    BY DEF Init, OnlyWhatWasAskedFor, Channelled
  <1> QED
    BY <1>1, <1>2, <1>3 DEF FilterInv, Init, RingInit, Pendings

LEMMA NextFilterInv == FilterInv /\ [Next]_vars => FilterInv'
  <1> SUFFICES ASSUME FilterInv, [Next]_vars PROVE FilterInv'
    OBVIOUS
  <1>1. StreamInv' /\ sub' = sub
    BY NextStreamInv, SubConstant DEF FilterInv
  <1>2. \A p \in Slots : slot'[p] # "free" => AskedFor(sub', record'[p])
    BY <1>1, NextRingAsked
  <1>3. \A k \in PidTids : pending'[k] # NoRecord =>
                              pending'[k].keep /\ AskedFor(sub', pending'[k])
    BY <1>1, NextPendingAsked
  <1> QED
    BY <1>1, <1>2, <1>3, NextKeepDecides, NextOnlyAsked DEF FilterInv, Pendings

(* Everything on its way to a subscriber, in the ring, in pending_renames   *)
(* and in the channel, was asked for.                                       *)
THEOREM FilterInvariant == Spec => []FilterInv
  BY InitFilterInv, NextFilterInv, PTL DEF Spec

(* For all filters: no event reaches a subscriber whose operation, protocol, *)
(* file type, process or user its filter does not ask for, but for the two  *)
(* exceptions OnlyWhatWasAskedFor states.                                   *)
THEOREM OnlyAskedFor == Spec => []OnlyWhatWasAskedFor
  <1>1. FilterInv => OnlyWhatWasAskedFor
    BY DEF FilterInv
  <1> QED
    BY <1>1, FilterInvariant, PTL

(* The unwrap of handle_connect, handle_bind and handle_listen never        *)
(* panics: what is in the ring was written by a program that has a result.  *)
THEOREM UnwrapNeverPanics == Spec => []UnwrapIsFine
  <1>1. \A h \in Hooks : EventType[h] \in UnwrapsRetval => h \in HooksWithRetval
    BY DEF Hooks, EventType, UnwrapsRetval, HooksWithRetval
  <1>2. ASSUME StreamInv, NEW p \in Slots, slot[p] = "data"
        PROVE  record[p].hook \in Hooks
    BY <1>2, AttachedIsOwned DEF StreamInv, TypeOK, RecordsAreReal
  <1>3. StreamInv => UnwrapIsFine
    BY <1>1, <1>2 DEF UnwrapIsFine
  <1> QED
    BY <1>3, StreamInvariant, PTL
=============================================================================
