-------------------------- MODULE EventLoopProofs ---------------------------
(***************************************************************************)
(* For every set of threads, every ring size and every set of subscribers: *)
(* EventLoop keeps WakeInv, so no wake-up is lost, and every step of it is *)
(* a step of RingLoop or leaves RingLoop's variables alone.                *)
(***************************************************************************)
EXTENDS EventLoop, TLAPS

(* The position after a position of the ring is a position of the ring. *)
LEMMA AfterInSlots ==
    ASSUME NEW p \in Slots
    PROVE  After(p) \in Slots
  BY EventLoopAssumption DEF Slots, After

(* Slot 0 exists, and no slot is NoSlot. *)
LEMMA SlotFacts ==
    0 \in Slots /\ NoSlot \notin Slots
  BY EventLoopAssumption DEF Slots, NoSlot

LEMMA InitWakeInv ==
    Init => WakeInv
  BY SlotFacts
  DEF Init, WakeInv, TypeOK, NoLostWakeup, NoLostClear, GuardImpliesReady,
      OneRecordAtATime, BusyOwned, ItemIsData, Committed, Guarded, Ended

(* TypeOK is kept by every step. *)
LEMMA NextTypeOK ==
    ASSUME TypeOK, [Next]_vars
    PROVE  TypeOK'
  <1> USE AfterInSlots, SlotFacts DEF TypeOK
  <1>1. ASSUME NEW t \in Threads, Reserve(t)
        PROVE  TypeOK'
    BY <1>1 DEF Reserve, wakeSide
  <1>2. ASSUME NEW t \in Threads, NEW how \in {"data", "discard"}, Commit(t, how)
        PROVE  TypeOK'
    BY <1>2 DEF Commit, wakeSide
  <1>3. ASSUME NEW t \in Threads, Notify(t)
        PROVE  TypeOK'
    BY <1>3 DEF Notify
  <1>4. CASE IrqWork
    BY <1>4 DEF IrqWork, ringSide
  <1>5. CASE DriverTurn
    BY <1>5 DEF DriverTurn, ringSide
  <1>6. CASE AsyncFdNew
    BY <1>6 DEF AsyncFdNew, ringSide, RingReadable
  <1>7. CASE Readable
    BY <1>7 DEF Readable, ringSide, Guarded
  <1>8. CASE HasSubscribers
    BY <1>8 DEF HasSubscribers, ringSide, wakeSide, Guarded, Ended
  <1>9. CASE NextNone
    BY <1>9 DEF NextNone, ringSide, wakeSide, Guarded
  <1>10. CASE NextDiscard
    BY <1>10 DEF NextDiscard, wakeSide
  <1>11. CASE NextItem
    BY <1>11 DEF NextItem, ringSide, wakeSide, Guarded
  <1>12. CASE DropItem
    BY <1>12 DEF DropItem, wakeSide, Guarded
  <1>13. CASE ClearReady
    BY <1>13 DEF ClearReady, ringSide
  <1>14. CASE LoopError
    BY <1>14 DEF LoopError, ringSide, wakeSide, Ended
  <1>15. ASSUME NEW o \in Owners, DropStream(o)
         PROVE  TypeOK'
    BY <1>15 DEF DropStream, ringSide, wakeSide
  <1>16. CASE UNCHANGED vars
    BY <1>16 DEF vars
  <1> QED
    BY <1>1, <1>2, <1>3, <1>4, <1>5, <1>6, <1>7, <1>8, <1>9, <1>10, <1>11,
       <1>12, <1>13, <1>14, <1>15, <1>16 DEF Next, LoopStep
(* The theorem behind every other one of this module: the types of the ring,
   the notification path and the loop's program counter. *)
THEOREM TypeCorrect == Spec => []TypeOK
  <1>1. Init => TypeOK
    BY InitWakeInv DEF WakeInv
  <1>2. TypeOK /\ [Next]_vars => TypeOK'
    BY NextTypeOK
  <1> QED
    BY <1>1, <1>2, PTL DEF Spec

-----------------------------------------------------------------------------
(* The parts of WakeInv besides the types. *)
LEMMA NextOneRecord ==
    ASSUME TypeOK, OneRecordAtATime, [Next]_vars
    PROVE  OneRecordAtATime'
  BY SlotFacts
  DEF TypeOK, OneRecordAtATime, Next, LoopStep, vars, ringSide, wakeSide,
      Reserve, Commit, Notify, IrqWork, DriverTurn, AsyncFdNew, Readable,
      HasSubscribers, NextNone, NextDiscard, NextItem, DropItem, ClearReady,
      LoopError, DropStream

(* Reserving takes a free slot, which nobody holds; consuming frees a slot
   that is not busy. *)
LEMMA NextBusyOwned ==
    ASSUME TypeOK, BusyOwned, ItemIsData, [Next]_vars
    PROVE  BusyOwned'
  <1> USE SlotFacts DEF TypeOK, BusyOwned
  <1>1. ASSUME NEW t \in Threads, Reserve(t)
        PROVE  BusyOwned'
    BY <1>1 DEF Reserve
  <1>2. ASSUME NEW t \in Threads, NEW how \in {"data", "discard"}, Commit(t, how)
        PROVE  BusyOwned'
    BY <1>2 DEF Commit
  <1>3. CASE NextDiscard
    BY <1>3 DEF NextDiscard
  <1>4. CASE DropItem
    BY <1>4 DEF DropItem, ItemIsData
  <1>5. CASE UNCHANGED <<slot, held>>
    BY <1>5
  <1> QED
    BY <1>1, <1>2, <1>3, <1>4, <1>5
    DEF Next, LoopStep, vars, ringSide, Notify, IrqWork, DriverTurn,
        AsyncFdNew, Readable, HasSubscribers, NextNone, NextItem, ClearReady,
        LoopError, DropStream

LEMMA NextItemIsData ==
    ASSUME TypeOK, BusyOwned, ItemIsData, [Next]_vars
    PROVE  ItemIsData'
  <1> USE SlotFacts DEF TypeOK, ItemIsData
  <1>1. ASSUME NEW t \in Threads, Reserve(t)
        PROVE  ItemIsData'
    BY <1>1 DEF Reserve
  <1>2. ASSUME NEW t \in Threads, NEW how \in {"data", "discard"}, Commit(t, how)
        PROVE  ItemIsData'
    BY <1>2 DEF Commit, BusyOwned
  <1> QED
    BY <1>1, <1>2
    DEF Next, LoopStep, vars, ringSide, Notify, IrqWork, DriverTurn,
        AsyncFdNew, Readable, HasSubscribers, NextNone, NextDiscard, NextItem,
        DropItem, ClearReady, LoopError, DropStream

LEMMA NextGuard ==
    ASSUME TypeOK, GuardImpliesReady, [Next]_vars
    PROVE  GuardImpliesReady'
  BY DEF TypeOK, GuardImpliesReady, Guarded, Ended, Next, LoopStep, vars,
      wakeSide, Reserve, Commit, Notify, IrqWork, DriverTurn, AsyncFdNew,
      Readable, HasSubscribers, NextNone, NextDiscard, NextItem, DropItem,
      ClearReady, LoopError, DropStream

(* What a step does to the notifications on their way, action by action. *)
LEMMA NextNoLost ==
    ASSUME WakeInv, [Next]_vars
    PROVE  NoLostWakeup' /\ NoLostClear'
  <1> USE SlotFacts
      DEF WakeInv, TypeOK, NoLostWakeup, NoLostClear, Pending, Committed
  <1>1. ASSUME NEW t \in Threads, Reserve(t)
        PROVE  NoLostWakeup' /\ NoLostClear'
    BY <1>1 DEF Reserve, wakeSide
  <1>2. ASSUME NEW t \in Threads, NEW how \in {"data", "discard"}, Commit(t, how)
        PROVE  NoLostWakeup' /\ NoLostClear'
    <2>1. CASE held[t] = cons
      BY <1>2, <2>1 DEF Commit, wakeSide
    <2>2. CASE held[t] # cons
      BY <1>2, <2>2 DEF Commit, wakeSide, OneRecordAtATime
    <2> QED BY <2>1, <2>2
  <1>3. ASSUME NEW t \in Threads, Notify(t)
        PROVE  NoLostWakeup' /\ NoLostClear'
    BY <1>3 DEF Notify
  <1>4. CASE IrqWork
    BY <1>4 DEF IrqWork, ringSide, Registered, Ended
  <1>5. CASE DriverTurn
    BY <1>5 DEF DriverTurn, ringSide, RingReadable
  <1>6. CASE AsyncFdNew
    BY <1>6 DEF AsyncFdNew, ringSide, RingReadable
  <1>7. CASE Readable
    BY <1>7 DEF Readable
  <1>8. CASE HasSubscribers
    BY <1>8 DEF HasSubscribers
  <1>9. CASE NextNone
    BY <1>9 DEF NextNone, ringSide
  <1>10. CASE NextDiscard
    BY <1>10 DEF NextDiscard
  <1>11. CASE NextItem
    BY <1>11 DEF NextItem
  <1>12. CASE DropItem
    BY <1>12 DEF DropItem
  <1>13. CASE ClearReady
    BY <1>13 DEF ClearReady, ringSide, GuardImpliesReady, Guarded
  <1>14. CASE LoopError
    BY <1>14 DEF LoopError
  <1>15. ASSUME NEW o \in Owners, DropStream(o)
         PROVE  NoLostWakeup' /\ NoLostClear'
    BY <1>15 DEF DropStream, ringSide, wakeSide
  <1>16. CASE UNCHANGED vars
    BY <1>16 DEF vars
  <1> QED
    BY <1>1, <1>2, <1>3, <1>4, <1>5, <1>6, <1>7, <1>8, <1>9, <1>10, <1>11,
       <1>12, <1>13, <1>14, <1>15, <1>16 DEF Next, LoopStep

LEMMA NextWakeInv ==
    WakeInv /\ [Next]_vars => WakeInv'
  BY NextTypeOK, NextOneRecord, NextBusyOwned, NextItemIsData, NextGuard,
     NextNoLost
  DEF WakeInv

(* WakeInv, the inductive strengthening of NoLostWakeup and BusyOwned. *)
THEOREM WakeInvariant == Spec => []WakeInv
  BY InitWakeInv, NextWakeInv, PTL DEF Spec

(* event_loop never sleeps in readable().await on a committed record without
   a readiness or a notification that will set it. *)
THEOREM WakeupsNotLost == Spec => []NoLostWakeup
  <1>1. WakeInv => NoLostWakeup
    BY DEF WakeInv
  <1> QED
    BY <1>1, WakeInvariant, PTL

(* Two probes never write to the same record. *)
THEOREM RecordsExclusive == Spec => []BusyOwned
  <1>1. WakeInv => BusyOwned
    BY DEF WakeInv
  <1> QED
    BY <1>1, WakeInvariant, PTL

-----------------------------------------------------------------------------
(* EventLoop implements RingLoop. *)
LEMMA InitImplements ==
    Init => Abstract!RingInit
  BY DEF Init, Abstract!RingInit, Phase, Ended, Slots, Abstract!Slots, NoSlot,
     Abstract!NoSlot

LEMMA NextImplements ==
    ASSUME WakeInv, [Next]_vars
    PROVE  [Abstract!RingNext]_(Abstract!ringVars)
  <1> USE SlotFacts DEF Abstract!RingNext, Abstract!ringVars, WakeInv, TypeOK, Phase, Ended, Guarded, NoSlot, Abstract!NoSlot,
       After, Abstract!After, Committed, Abstract!Committed
  <1>1. ASSUME NEW t \in Threads, Reserve(t)
        PROVE  Abstract!Reserve(t)
    BY <1>1 DEF Reserve, Abstract!Reserve
  <1>2. ASSUME NEW t \in Threads, NEW how \in {"data", "discard"}, Commit(t, how)
        PROVE  Abstract!Commit(t, how)
    BY <1>2 DEF Commit, Abstract!Commit
  <1>3. CASE HasSubscribers
    BY <1>3 DEF HasSubscribers, ringSide, Abstract!Wake
  <1>4. CASE NextNone
    BY <1>4 DEF NextNone, ringSide, Abstract!Park
  <1>5. CASE NextDiscard
    BY <1>5 DEF NextDiscard, Abstract!Consume
  <1>6. CASE DropItem
    BY <1>6 DEF DropItem, Abstract!Consume, ItemIsData
  <1>7. CASE LoopError
    BY <1>7 DEF LoopError, ringSide, Abstract!Fail
  <1>8. ASSUME NEW o \in Owners, DropStream(o)
        PROVE  Abstract!DropStream(o)
    BY <1>8 DEF DropStream, ringSide, Abstract!DropStream
  <1>9. CASE \/ \E t \in Threads : Notify(t)
             \/ IrqWork \/ DriverTurn \/ AsyncFdNew \/ Readable \/ NextItem
             \/ ClearReady \/ UNCHANGED vars
    BY <1>9 DEF Notify, IrqWork, DriverTurn, AsyncFdNew, Readable, NextItem,
       ClearReady, ringSide, wakeSide, vars
  <1> QED
    BY <1>1, <1>2, <1>3, <1>4, <1>5, <1>6, <1>7, <1>8, <1>9 DEF Next, LoopStep

(* Every behaviour of the loop with its notifications is a behaviour of the
   abstract ring and loop (safety; the fairness is left to the run). *)
THEOREM Implementation == Spec => Abstract!RingSpec
  BY InitImplements, NextImplements, WakeInvariant, PTL
  DEF Spec, Abstract!RingSpec
=============================================================================
