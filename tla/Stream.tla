------------------------------- MODULE Stream -------------------------------
(***************************************************************************)
(* What one subscription promises its application: the records of the ring *)
(* are offered to it in order; some of them are events for it; an event is *)
(* lost only when the channel is full or the stream is dropped; no event   *)
(* comes twice or out of order; and once the loop is over the stream gives *)
(* what it still buffers and then ends.                                    *)
(*                                                                         *)
(* The kernel decides which records are events: the variable event is its  *)
(* input to the contract, and the subscription answers it by Send or, only *)
(* where it may, by Pass.                                                  *)
(***************************************************************************)
EXTENDS Naturals, Sequences

CONSTANT Capacity    \* BpfxConfig::channel_capacity

VARIABLES
    event,     \* the next record is committed and an event for this stream
    offered,   \* records the loop has dispatched
    buf,       \* the records whose event is in the channel
    got,       \* the record of the last event the application received
    live,      \* the loop runs, so the sender exists
    state      \* "open", "dropped" or "ended"

streamVars == <<event, offered, buf, got, live, state>>

Init ==
    /\ event = FALSE
    /\ offered = 0
    /\ buf = <<>>
    /\ got = 0
    /\ live = TRUE
    /\ state = "open"

(* An event for this stream is committed at the head of the ring. *)
Arrive ==
    /\ ~event
    /\ event' = TRUE
    /\ UNCHANGED <<offered, buf, got, live, state>>

(* The loop is done with a record that is no event for this stream, or      *)
(* whose event is lost because the channel is full or closed.  The next     *)
(* record may be an event.                                                  *)
Pass ==
    /\ live
    /\ event => state # "open" \/ Len(buf) >= Capacity
    /\ offered' = offered + 1
    /\ event' \in BOOLEAN
    /\ UNCHANGED <<buf, got, live, state>>

Send ==
    /\ live
    /\ event
    /\ state = "open"
    /\ Len(buf) < Capacity
    /\ offered' = offered + 1
    /\ event' \in BOOLEAN
    /\ buf' = Append(buf, offered + 1)
    /\ UNCHANGED <<got, live, state>>

Stop ==
    /\ live
    /\ live' = FALSE
    /\ UNCHANGED <<event, offered, buf, got, state>>

(* poll_next is Ready(Some(event)). *)
Receive ==
    /\ state = "open"
    /\ buf # <<>>
    /\ got' = Head(buf)
    /\ buf' = Tail(buf)
    /\ UNCHANGED <<event, offered, live, state>>

(* poll_next is Ready(None). *)
End ==
    /\ state = "open"
    /\ ~live
    /\ buf = <<>>
    /\ state' = "ended"
    /\ UNCHANGED <<event, offered, buf, got, live>>

Drop ==
    /\ state \in {"open", "ended"}
    /\ state' = "dropped"
    /\ buf' = <<>>
    /\ UNCHANGED <<event, offered, got, live>>

Next == Arrive \/ Pass \/ Send \/ Stop \/ Receive \/ End \/ Drop

Spec == Init /\ [][Next]_streamVars

(* What the contract means for the application: events come in the order    *)
(* of the ring and none comes twice.                                        *)
Ordered ==
    /\ \A i, j \in 1 .. Len(buf) : i < j => buf[i] < buf[j]
    /\ \A i \in 1 .. Len(buf) : got < buf[i] /\ buf[i] <= offered
    /\ got <= offered
=============================================================================
