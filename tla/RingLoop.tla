------------------------------ MODULE RingLoop ------------------------------
(***************************************************************************)
(* What the EVENTS ring buffer and Bpfx::event_loop promise together.       *)
(*                                                                         *)
(* Kernel threads running the probes reserve a record, fill it and then    *)
(* submit or discard it; one loop drains the committed records in the      *)
(* order of their reservation.  Notifications are left out: the loop is    *)
(* "parked" and may wake at any time.  EventLoop, which has the epoll,     *)
(* irq_work and tokio readiness steps, is shown to implement this module,  *)
(* and Delivery, which has the contents of the records, is built on it.    *)
(***************************************************************************)
EXTENDS Integers

CONSTANTS
    Threads,   \* kernel threads that run a probe
    Size,      \* records that fit in EVENTS (4 MiB in the code)
    Owners     \* the subscriptions that exist when run() is called

ASSUME SizeAssumption == Size \in Nat \ {0}

VARIABLES
    slot,   \* slot[p]: the header state of the record at ring position p
    cons,   \* position of the oldest record, consumer_pos & mask
    prod,   \* position of the next reservation, producer_pos & mask
    held,   \* held[t]: the record t reserved and did not commit yet
    loop,   \* "parked", "draining" or "over"
    open    \* the owners whose stream is not dropped

ringVars == <<slot, cons, prod, held, loop, open>>

Slots == 0 .. (Size - 1)
NoSlot == -1
(* Fault: the ring does not wrap. *)
AfterNoMask(p) == p + 1

After(p) == IF p = Size - 1 THEN 0 ELSE p + 1

(* A record is readable once its busy bit is clear. *)
Committed(p) == slot[p] \in {"data", "discard"}

RingTypeOK ==
    /\ slot \in [Slots -> {"free", "busy", "data", "discard"}]
    /\ cons \in Slots
    /\ prod \in Slots
    /\ held \in [Threads -> Slots \cup {NoSlot}]
    /\ loop \in {"parked", "draining", "over"}
    /\ open \in SUBSET Owners

RingInit ==
    /\ slot = [p \in Slots |-> "free"]
    /\ cons = 0
    /\ prod = 0
    /\ held = [t \in Threads |-> NoSlot]
    /\ loop = "parked"
    /\ open = Owners

-----------------------------------------------------------------------------
(* The kernel side.  EVENTS.reserve fails when the ring is full; the probes *)
(* are attached until the loop has returned and dropped the Ebpf object.    *)
Reserve(t) ==
    /\ loop # "over"
    /\ held[t] = NoSlot
    /\ slot[prod] = "free"
    /\ slot' = [slot EXCEPT ![prod] = "busy"]
    /\ held' = [held EXCEPT ![t] = prod]
    /\ prod' = After(prod)
    /\ UNCHANGED <<cons, loop, open>>

(* buf.submit (how = "data") or buf.discard (how = "discard"). *)
Commit(t, how) ==
    /\ held[t] # NoSlot
    /\ slot' = [slot EXCEPT ![held[t]] = how]
    /\ held' = [held EXCEPT ![t] = NoSlot]
    /\ UNCHANGED <<cons, prod, loop, open>>

(* The loop: has_subscribers is looked at once per wake-up ... *)
Wake ==
    /\ loop = "parked"
    /\ loop' = IF open # {} THEN "draining" ELSE "over"
    /\ UNCHANGED <<slot, cons, prod, held, open>>

(* ... and the inner while runs until the oldest record is not committed. *)
Consume ==
    /\ loop = "draining"
    /\ Committed(cons)
    /\ slot' = [slot EXCEPT ![cons] = "free"]
    /\ cons' = After(cons)
    /\ UNCHANGED <<prod, held, loop, open>>

Park ==
    /\ loop = "draining"
    /\ ~Committed(cons)
    /\ loop' = "parked"
    /\ UNCHANGED <<slot, cons, prod, held, open>>

(* AsyncFd::new or readable() returns an error. *)
Fail ==
    /\ loop = "parked"
    /\ loop' = "over"
    /\ UNCHANGED <<slot, cons, prod, held, open>>

(* The application drops a stream, which closes its channel. *)
DropStream(o) ==
    /\ o \in open
    /\ open' = open \ {o}
    /\ UNCHANGED <<slot, cons, prod, held, loop>>

RingNext ==
    \/ \E t \in Threads : Reserve(t)
    \/ \E t \in Threads : Commit(t, "data") \/ Commit(t, "discard")
    \/ Wake
    \/ Consume
    \/ Park
    \/ Fail
    \/ \E o \in Owners : DropStream(o)

RingSpec == RingInit /\ [][RingNext]_ringVars

(* A probe's program terminates, so a reserved record is committed; the     *)
(* loop drains what it finds, and a committed record at the head wakes it.  *)
RingFairness ==
    /\ \A t \in Threads :
          WF_ringVars(Commit(t, "data") \/ Commit(t, "discard"))
    /\ WF_ringVars(Committed(cons) /\ Wake)
    /\ WF_ringVars(Consume \/ Park)

RingFairSpec == RingSpec /\ RingFairness
=============================================================================
