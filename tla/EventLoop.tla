----------------------------- MODULE EventLoop ------------------------------
(***************************************************************************)
(* The wake-up path between the EVENTS ring buffer and Bpfx::event_loop,    *)
(* one atomic access at a time:                                            *)
(*                                                                         *)
(*   probe    reserve; clear the busy bit (submit / discard); compare the   *)
(*            record with consumer_pos and, if equal, queue an irq_work;    *)
(*   kernel   the irq_work marks the epoll item ready;                      *)
(*   tokio    a driver turn takes the item, polls the ring and, if it is    *)
(*            not empty, sets the readiness of the AsyncFd at a new tick;   *)
(*   loop     readable().await, has_subscribers(), ringbuf.next() until     *)
(*            None, clear_ready().                                          *)
(*                                                                         *)
(* The loop never re-examines the ring between its last next() and the      *)
(* await, so everything depends on no notification being lost between them. *)
(***************************************************************************)
EXTENDS Integers

CONSTANTS Threads, Size, Owners

ASSUME EventLoopAssumption == Size \in Nat \ {0}

VARIABLES
    slot, cons, prod, held, open,   \* as in RingLoop
    notify,     \* notify[t]: the record t committed and has not compared yet
    irq,        \* an irq_work of the ring is queued
    epoll,      \* the ring's item is on the epoll ready list
    readiness,  \* the readable bit of the AsyncFd
    newTick,    \* the driver set it after the guard "ready" was taken
    pc          \* where event_loop is

vars == <<slot, cons, prod, held, open, notify, irq, epoll, readiness,
          newTick, pc>>

Slots == 0 .. (Size - 1)
NoSlot == -1
(* Fault: the ring does not wrap. *)
AfterNoMask(p) == p + 1

After(p) == IF p = Size - 1 THEN 0 ELSE p + 1
Committed(p) == slot[p] \in {"data", "discard"}

(* The items next() has to work through sit between readable and clear. *)
Guarded == {"check", "next", "item", "clear"}
Ended == {"done", "failed"}
Registered == pc \notin {"start"} \cup Ended

(* ringbuf_map_poll: the ring is readable when prod # cons, which a busy    *)
(* record at the head is enough for.                                        *)
RingReadable == slot[cons] # "free"

TypeOK ==
    /\ slot \in [Slots -> {"free", "busy", "data", "discard"}]
    /\ cons \in Slots
    /\ prod \in Slots
    /\ held \in [Threads -> Slots \cup {NoSlot}]
    /\ open \in SUBSET Owners
    /\ notify \in [Threads -> Slots \cup {NoSlot}]
    /\ irq \in BOOLEAN
    /\ epoll \in BOOLEAN
    /\ readiness \in BOOLEAN
    /\ newTick \in BOOLEAN
    /\ pc \in {"start", "await"} \cup Guarded \cup Ended

Init ==
    /\ slot = [p \in Slots |-> "free"]
    /\ cons = 0
    /\ prod = 0
    /\ held = [t \in Threads |-> NoSlot]
    /\ open = Owners
    /\ notify = [t \in Threads |-> NoSlot]
    /\ irq = FALSE
    /\ epoll = FALSE
    /\ readiness = FALSE
    /\ newTick = FALSE
    /\ pc = "start"

ringSide == <<slot, cons, prod, held, notify>>
wakeSide == <<irq, epoll, readiness, newTick>>

-----------------------------------------------------------------------------
(* Fault: a reservation that does not look whether the ring is full. *)
ReserveOverwrites(t) ==
    /\ pc \notin Ended
    /\ held[t] = NoSlot
    /\ notify[t] = NoSlot
    /\ slot' = [slot EXCEPT ![prod] = "busy"]
    /\ held' = [held EXCEPT ![t] = prod]
    /\ prod' = After(prod)
    /\ UNCHANGED <<cons, open, notify, pc>>
    /\ UNCHANGED wakeSide

(* Probes.  The reservation fails, and the event is lost, when the ring is  *)
(* full; the probes are detached when event_loop returns and drops Bpfx.    *)
Reserve(t) ==
    /\ pc \notin Ended
    /\ held[t] = NoSlot
    /\ notify[t] = NoSlot
    /\ slot[prod] = "free"
    /\ slot' = [slot EXCEPT ![prod] = "busy"]
    /\ held' = [held EXCEPT ![t] = prod]
    /\ prod' = After(prod)
    /\ UNCHANGED <<cons, open, notify, pc>>
    /\ UNCHANGED wakeSide

(* submit and discard clear the busy bit first ... *)
Commit(t, how) ==
    /\ held[t] # NoSlot
    /\ slot' = [slot EXCEPT ![held[t]] = how]
    /\ held' = [held EXCEPT ![t] = NoSlot]
    /\ notify' = [notify EXCEPT ![t] = held[t]]
    /\ UNCHANGED <<cons, prod, open, pc>>
    /\ UNCHANGED wakeSide

(* Fault: the comparison is off by one record. *)
NotifyLate(t) ==
    /\ notify[t] # NoSlot
    /\ notify' = [notify EXCEPT ![t] = NoSlot]
    /\ irq' = (irq \/ After(notify[t]) = cons)
    /\ UNCHANGED <<slot, cons, prod, held, open, pc, epoll, readiness, newTick>>

(* ... and then notify if the consumer has caught up with this record. *)
Notify(t) ==
    /\ notify[t] # NoSlot
    /\ notify' = [notify EXCEPT ![t] = NoSlot]
    /\ irq' = (irq \/ notify[t] = cons)
    /\ UNCHANGED <<slot, cons, prod, held, open, pc, epoll, readiness, newTick>>

(* bpf_ringbuf_notify: wakes the ring's wait queue, where the epoll item    *)
(* waits from AsyncFd::new on.                                              *)
IrqWork ==
    /\ irq
    /\ irq' = FALSE
    /\ epoll' = (epoll \/ Registered)
    /\ UNCHANGED <<readiness, newTick, open, pc>>
    /\ UNCHANGED ringSide

(* epoll_wait takes the item off its edge-triggered ready list, polls the   *)
(* ring once more and reports it only if it is readable.                    *)
DriverTurn ==
    /\ epoll
    /\ epoll' = FALSE
    /\ readiness' = (readiness \/ RingReadable)
    /\ newTick' = (newTick \/ RingReadable)
    /\ UNCHANGED <<irq, open, pc>>
    /\ UNCHANGED ringSide

-----------------------------------------------------------------------------
(* Fault: registering the descriptor does not poll it. *)
AsyncFdNewNoPoll ==
    /\ pc = "start"
    /\ pc' = "await"
    /\ UNCHANGED <<epoll, irq, readiness, newTick, open>>
    /\ UNCHANGED ringSide

(* event_loop.  AsyncFd::new adds the descriptor to epoll, which polls it.  *)
AsyncFdNew ==
    /\ pc = "start"
    /\ epoll' = RingReadable
    /\ pc' = "await"
    /\ UNCHANGED <<irq, readiness, newTick, open>>
    /\ UNCHANGED ringSide

(* AsyncFd::new(fd)? or readable().await? returns Err. *)
LoopError ==
    /\ pc \in {"start", "await"}
    /\ pc' = "failed"
    /\ UNCHANGED open
    /\ UNCHANGED ringSide
    /\ UNCHANGED wakeSide

(* async_fd.readable().await: the guard remembers the driver's tick. *)
Readable ==
    /\ pc = "await"
    /\ readiness
    /\ newTick' = FALSE
    /\ pc' = "check"
    /\ UNCHANGED <<irq, epoll, readiness, open>>
    /\ UNCHANGED ringSide

(* Fault: has_subscribers looks whether a register exists, not whether its  *)
(* channel is closed.                                                       *)
HasSubscribersIgnoresClosed ==
    /\ pc = "check"
    /\ pc' = IF Owners # {} THEN "next" ELSE "done"
    /\ UNCHANGED open
    /\ UNCHANGED ringSide
    /\ UNCHANGED wakeSide

(* if !self.has_subscribers() { break; } *)
HasSubscribers ==
    /\ pc = "check"
    /\ pc' = IF open # {} THEN "next" ELSE "done"
    /\ UNCHANGED open
    /\ UNCHANGED ringSide
    /\ UNCHANGED wakeSide

(* self.ringbuf.next(): a busy or missing record ends the inner while, a    *)
(* discarded one is skipped, a submitted one is handed out.                 *)
NextNone ==
    /\ pc = "next"
    /\ ~Committed(cons)
    /\ pc' = "clear"
    /\ UNCHANGED open
    /\ UNCHANGED ringSide
    /\ UNCHANGED wakeSide

(* Fault: a busy record is skipped like a discarded one. *)
NextSkipsBusy ==
    /\ pc = "next"
    /\ slot[cons] \in {"busy", "discard"}
    /\ slot' = [slot EXCEPT ![cons] = "free"]
    /\ cons' = After(cons)
    /\ UNCHANGED <<prod, held, notify, open, pc>>
    /\ UNCHANGED wakeSide

NextDiscard ==
    /\ pc = "next"
    /\ slot[cons] = "discard"
    /\ slot' = [slot EXCEPT ![cons] = "free"]
    /\ cons' = After(cons)
    /\ UNCHANGED <<prod, held, notify, open, pc>>
    /\ UNCHANGED wakeSide

NextItem ==
    /\ pc = "next"
    /\ slot[cons] = "data"
    /\ pc' = "item"
    /\ UNCHANGED open
    /\ UNCHANGED ringSide
    /\ UNCHANGED wakeSide

(* The four convert_*_events ran; dropping the item frees the record. *)
DropItem ==
    /\ pc = "item"
    /\ slot' = [slot EXCEPT ![cons] = "free"]
    /\ cons' = After(cons)
    /\ pc' = "next"
    /\ UNCHANGED <<prod, held, notify, open>>
    /\ UNCHANGED wakeSide

(* Fault: clear_ready() clears a readiness that is newer than "ready". *)
ClearReadyAlways ==
    /\ pc = "clear"
    /\ readiness' = FALSE
    /\ pc' = "await"
    /\ UNCHANGED <<irq, epoll, newTick, open>>
    /\ UNCHANGED ringSide

(* ready.clear_ready() leaves a readiness alone that is newer than "ready". *)
ClearReady ==
    /\ pc = "clear"
    /\ readiness' = (readiness /\ newTick)
    /\ pc' = "await"
    /\ UNCHANGED <<irq, epoll, newTick, open>>
    /\ UNCHANGED ringSide

DropStream(o) ==
    /\ o \in open
    /\ open' = open \ {o}
    /\ UNCHANGED pc
    /\ UNCHANGED ringSide
    /\ UNCHANGED wakeSide

LoopStep ==
    \/ AsyncFdNew
    \/ Readable
    \/ HasSubscribers
    \/ NextNone
    \/ NextDiscard
    \/ NextItem
    \/ DropItem
    \/ ClearReady

Next ==
    \/ \E t \in Threads : Reserve(t)
    \/ \E t \in Threads : Commit(t, "data") \/ Commit(t, "discard")
    \/ \E t \in Threads : Notify(t)
    \/ IrqWork
    \/ DriverTurn
    \/ LoopStep
    \/ LoopError
    \/ \E o \in Owners : DropStream(o)

Spec == Init /\ [][Next]_vars

(* The verifier admits only programs that terminate, so a probe commits and *)
(* compares; the kernel runs queued irq_work, the tokio driver turns while  *)
(* it has events, and the runtime polls a task that can make progress.      *)
(* Nothing makes an event happen, a call fail or an application drop a      *)
(* stream.                                                                  *)
Fairness ==
    /\ \A t \in Threads : WF_vars(Commit(t, "data") \/ Commit(t, "discard"))
    /\ \A t \in Threads : WF_vars(Notify(t))
    /\ WF_vars(IrqWork)
    /\ WF_vars(DriverTurn)
    /\ WF_vars(LoopStep)

FairSpec == Spec /\ Fairness

-----------------------------------------------------------------------------
(* Properties *)

Pending ==
    epoll \/ irq \/ \E t \in Threads : notify[t] = cons

(* No notification is lost: whenever event_loop waits in readable() and the *)
(* oldest record is committed, the readiness is set or something is on its  *)
(* way that will set it.                                                    *)
NoLostWakeup ==
    pc = "await" /\ Committed(cons) => readiness \/ Pending

(* The same between the last next() and clear_ready(): a record committed   *)
(* in that gap must survive the clearing.                                   *)
NoLostClear ==
    pc = "clear" /\ Committed(cons) => newTick \/ Pending

(* clear_ready() can only be reached with the readiness it took still set.  *)
GuardImpliesReady == pc \in Guarded => readiness

(* A thread compares one record with consumer_pos before it reserves again. *)
OneRecordAtATime ==
    \A t \in Threads : held[t] # NoSlot => notify[t] = NoSlot

(* A busy record belongs to exactly one probe, so no two probes write to    *)
(* the same memory and next() never hands out a record being written.       *)
BusyOwned ==
    /\ \A t \in Threads : held[t] # NoSlot => slot[held[t]] = "busy"
    /\ \A t, u \in Threads : held[t] = held[u] /\ held[t] # NoSlot => t = u

(* An item being dispatched is a submitted record at the head. *)
ItemIsData == pc = "item" => slot[cons] = "data"

WakeInv ==
    /\ TypeOK
    /\ NoLostWakeup
    /\ NoLostClear
    /\ GuardImpliesReady
    /\ OneRecordAtATime
    /\ BusyOwned
    /\ ItemIsData

(* Every committed record leaves the ring unless the loop ends first. *)
Consumed ==
    \A p \in Slots : Committed(p) ~> (slot[p] = "free" \/ pc \in Ended)

(* With every stream dropped, a loop that waits ends at the next committed  *)
(* record.                                                                  *)
ExitsOnNextEvent ==
    (open = {} /\ pc = "await" /\ Committed(cons)) ~> pc \in Ended

(* run()'s documentation: the event loop exits when all subscriptions have  *)
(* been dropped.                                                            *)
ExitsWhenAllDropped == (open = {}) ~> pc \in Ended

(* The same promise for a system in which events keep coming. *)
ExitsUnderLoad ==
    ([]<>Committed(cons)) => ((open = {}) ~> pc \in Ended)

-----------------------------------------------------------------------------
(* EventLoop implements RingLoop: the notifications and the steps around    *)
(* the await are invisible there.                                           *)
Phase ==
    IF pc \in {"next", "item"} THEN "draining"
    ELSE IF pc \in Ended THEN "over"
    ELSE "parked"

Abstract == INSTANCE RingLoop WITH loop <- Phase

ImplementsRingLoop == Abstract!RingFairSpec
=============================================================================
