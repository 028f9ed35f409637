------------------------------ MODULE Delivery ------------------------------
(***************************************************************************)
(* From a hook to the application: the ring and the loop of RingLoop with   *)
(* the contents of the records, the four convert_*_events functions, the    *)
(* bounded channels, the streams that drain them and the table that pairs   *)
(* the entry of a rename with its exit.                                     *)
(*                                                                         *)
(* A record carries what the properties tell apart: its number, the hook    *)
(* and the thread it comes from, whether the program submits it, the file   *)
(* type, the socket's real protocol, and for a rename the number of the     *)
(* kernel operation, which the code does not have.                          *)
(***************************************************************************)
EXTENDS RingLoop, Probes, Sequences, FiniteSets

CONSTANTS
    Header,         \* Header[t]: pid, tid, ppid, uid and gid of a thread
    Inputs,         \* what hooks may find, see Probes
    Subscriptions,  \* the registrations to try: functions on Owners
    Capacity,       \* BpfxConfig::channel_capacity
    MaxPending,     \* MAX_PENDING_RENAMES
    MaxRecords,     \* bound: records reserved in a behaviour
    MaxRenames      \* bound: rename operations in a behaviour

(* tokio's mpsc::channel panics for a capacity of 0. *)
ASSUME DeliveryAssumption ==
    /\ Capacity \in Nat \ {0}
    /\ MaxPending \in Nat
    /\ MaxRecords \in Nat
    /\ MaxRenames \in Nat

(* Every register has a filter of its type; a tid is one thread's. *)
ASSUME SubscriptionsAssumption ==
    /\ Owners \subseteq DOMAIN MaskFlags
    /\ \A s \in Subscriptions :
          DOMAIN s = Owners /\ \A o \in Owners : IsFilter(o, s[o])

ASSUME ThreadsAssumption ==
    /\ Inputs \subseteq InputType
    /\ \A t \in Threads : Header[t] \in HeaderType
    /\ \A s, t \in Threads : Header[s].tid = Header[t].tid => s = t

VARIABLES
    sub,        \* the filters of the registers; FILTER, CONFIG and the
                \* attached programs follow from them
    record,     \* record[p]: the contents of the record at slot p
    reserved,   \* records reserved so far
    consumed,   \* records consumed so far
    renaming,   \* renaming[t]: the rename t is in the middle of, 0 if none
    renames,    \* renames begun so far
    entered,    \* renames whose entry record got into the ring
    refused,    \* renames whose entry a full pending_renames turned away
    lostExits,  \* renames whose exit record found the ring full
    pending,    \* pending_renames
    chan,       \* chan[o]: the events in the channel of o
    got,        \* got[o]: number of the last record o's stream returned
    ended       \* streams that returned None

history == <<entered, refused, lostExits>>
dataVars == <<sub, record, reserved, consumed, renaming, renames, history,
              pending, chan, got, ended>>
vars == <<ringVars, dataVars>>

-----------------------------------------------------------------------------
(* FILTER, CONFIG and the programs attached by the subscriptions. *)
NoKey == [kind |-> "None", id |-> 0]
FILTER(owner) == IF owner \in Owners THEN sub[owner].filter ELSE NoKey
CONFIG == IF "File" \in Owners THEN sub["File"].file_mode ELSE {}
attached == UNION {Attached(o, sub[o]) : o \in Owners}

(* What the program of a hook does on thread t. *)
Run(t, hook, in) ==
    Outcome(hook, [key |-> FILTER(ConvertedBy(EventType[hook])),
                   config |-> CONFIG, header |-> Header[t], input |-> in])

RenameHooks == {"vfs_rename", "vfs_rename_retval"}

NoRecord == [id |-> 0, hook |-> "none", thread |-> "none", keep |-> FALSE,
             mode |-> "none", sock |-> "none", op |-> 0]

(* The protocol of the socket a kernel function is called with: only        *)
(* inet_bind gets sockets of both.                                          *)
SocketOf(hook, in) ==
    CASE hook = "inet_bind" -> in.sock
      [] hook \in {"udp_connect", "udpv6_connect", "udp_destroy_sock"} -> "Udp"
      [] OTHER -> "Tcp"

RecordOf(t, hook, in, op) ==
    LET owner == ConvertedBy(EventType[hook]) IN
    [id |-> reserved + 1, hook |-> hook, thread |-> t,
     keep |-> Run(t, hook, in) = "submit",
     mode |-> IF owner = "File" THEN in.mode ELSE "none",
     sock |-> IF owner = "Network" THEN SocketOf(hook, in) ELSE "none",
     op |-> op]

(* vfs_rename_retval looks at nothing but the return value. *)
NoInput == [null |-> FALSE, readable |-> TRUE, addresses |-> TRUE,
            family |-> "other", sock |-> "none", mode |-> "none",
            path |-> FALSE]

(* Fault: renames are keyed by process only. *)
PidOnly(t) == <<Header[t].pid, 0>>

PidTid(t) == <<Header[t].pid, Header[t].tid>>
PidTids == {PidTid(t) : t \in Threads}

Pendings == {k \in PidTids : pending[k] # NoRecord}

Init ==
    /\ RingInit
    /\ sub \in Subscriptions
    /\ record = [p \in Slots |-> NoRecord]
    /\ reserved = 0
    /\ consumed = 0
    /\ renaming = [t \in Threads |-> 0]
    /\ renames = 0
    /\ entered = {}
    /\ refused = {}
    /\ lostExits = {}
    /\ pending = [k \in PidTids |-> NoRecord]
    /\ chan = [o \in Owners |-> <<>>]
    /\ got = [o \in Owners |-> 0]
    /\ ended = {}

-----------------------------------------------------------------------------
(* Kernel threads. *)

(* EVENTS.reserve and the writes to the reserved memory, which nobody else  *)
(* sees before the commit.  FILTER and CONFIG do not change while the loop  *)
(* runs, so what the program will decide is known here.                     *)
Write(t, hook, in, op) ==
    /\ reserved < MaxRecords
    /\ Reserve(t)
    /\ record' = [record EXCEPT ![prod] = RecordOf(t, hook, in, op)]
    /\ reserved' = reserved + 1

(* A hook that is not about renames fires.  One that returns before the     *)
(* reservation, or finds the ring full, changes nothing.                    *)
Fire(t, hook, in) ==
    /\ renaming[t] = 0
    /\ Run(t, hook, in) # "return"
    /\ Write(t, hook, in, 0)
    /\ UNCHANGED <<sub, consumed, renaming, renames, history, pending, chan,
                   got, ended>>

(* submit, or discard for a filtered or unreadable event. *)
Finish(t) ==
    /\ held[t] # NoSlot
    /\ Commit(t, IF record[held[t]].keep THEN "data" ELSE "discard")
    /\ UNCHANGED dataVars

BeginRename(t) ==
    /\ loop # "over"
    /\ "vfs_rename" \in attached
    /\ renaming[t] = 0
    /\ held[t] = NoSlot
    /\ renames < MaxRenames
    /\ renames' = renames + 1
    /\ renaming' = [renaming EXCEPT ![t] = renames + 1]
    /\ UNCHANGED <<sub, consumed, refused, lostExits, pending, chan, got,
                   ended>>

(* The fentry program vfs_rename at the start of a rename: it emits the     *)
(* names, ... *)
RenameEntry(t, in) ==
    /\ BeginRename(t)
    /\ Run(t, "vfs_rename", in) # "return"
    /\ Write(t, "vfs_rename", in, renames + 1)
    /\ entered' = entered \cup {renames + 1}

(* ... or it returns early, because of the filters or of a full ring. *)
RenameEntrySkipped(t, in) ==
    /\ BeginRename(t)
    /\ Run(t, "vfs_rename", in) # "return" => slot[prod] # "free"
    /\ UNCHANGED <<record, reserved, entered>>
    /\ UNCHANGED ringVars

(* The fexit program vfs_rename_retval at its end: it has no filter. *)
RenameExit(t) ==
    /\ renaming[t] # 0
    /\ renaming' = [renaming EXCEPT ![t] = 0]
    /\ Write(t, "vfs_rename_retval", NoInput, renaming[t])
    /\ UNCHANGED <<sub, consumed, renames, history, pending, chan, got,
                   ended>>

RenameExitLost(t) ==
    /\ loop # "over"
    /\ renaming[t] # 0
    /\ held[t] = NoSlot
    /\ slot[prod] # "free"
    /\ renaming' = [renaming EXCEPT ![t] = 0]
    /\ lostExits' = lostExits \cup {renaming[t]}
    /\ UNCHANGED <<sub, record, reserved, consumed, renames, entered, refused,
                   pending, chan, got, ended>>
    /\ UNCHANGED ringVars

-----------------------------------------------------------------------------
(* The loop. *)

(* Fault: the last place of the channel is never used. *)
try_send_early(o, event) ==
    chan' = IF o \in open /\ Len(chan[o]) + 1 < Capacity
            THEN [chan EXCEPT ![o] = Append(@, event)]
            ELSE chan

(* tx.try_send(event): Full and Closed are logged and the event is dropped. *)
try_send(o, event) ==
    chan' = IF o \in open /\ Len(chan[o]) < Capacity
            THEN [chan EXCEPT ![o] = Append(@, event)]
            ELSE chan

(* An event as the application sees it; entry and exit are the operations   *)
(* its two halves come from.                                                *)
EventOf(r) ==
    [id |-> r.id, event |-> EventType[r.hook], thread |-> r.thread,
     protocol |-> Protocol(r.hook), mode |-> r.mode, sock |-> r.sock,
     entry |-> 0, exit |-> 0]

(* Fault: entry(key).or_insert(event) instead of insert. *)
InsertKeepsOld(r) ==
    LET full == Cardinality(Pendings) >= MaxPending IN
    /\ pending' = IF full \/ pending[PidTid(r.thread)] # NoRecord THEN pending
                  ELSE [pending EXCEPT ![PidTid(r.thread)] = r]
    /\ refused' = IF full THEN refused \cup {r.op} ELSE refused
    /\ UNCHANGED chan

(* EventType::FileRename: the table takes the entry unless it is full; the  *)
(* length is tested even if the key is present.                             *)
InsertPending(r) ==
    LET full == Cardinality(Pendings) >= MaxPending IN
    /\ pending' = IF full THEN pending
                  ELSE [pending EXCEPT ![PidTid(r.thread)] = r]
    /\ refused' = IF full THEN refused \cup {r.op} ELSE refused
    /\ UNCHANGED chan

(* Fault: get instead of remove. *)
TakeLeavesEntry(r) ==
    LET e == pending[PidTid(r.thread)] IN
    /\ IF e = NoRecord THEN UNCHANGED chan
       ELSE try_send("File", [EventOf(e) EXCEPT !.id = r.id, !.entry = e.op,
                                                !.exit = r.op])
    /\ UNCHANGED <<pending, refused>>

(* EventType::PendingFileRename: the exit takes the entry with its pid and  *)
(* tid out of the table; the event has the entry's header, names and type   *)
(* and the exit's return value.  Without an entry it is an orphan.          *)
TakePending(r) ==
    LET e == pending[PidTid(r.thread)] IN
    /\ pending' = [pending EXCEPT ![PidTid(r.thread)] = NoRecord]
    /\ IF e = NoRecord THEN UNCHANGED chan
       ELSE try_send("File", [EventOf(e) EXCEPT !.id = r.id, !.entry = e.op,
                                                !.exit = r.op])
    /\ UNCHANGED refused

(* convert_network_events, convert_process_events, convert_file_events and  *)
(* convert_mem_events, each run if its register exists.                     *)
Convert(r) ==
    LET o == ConvertedBy(EventType[r.hook]) IN
    CASE o \notin Owners -> UNCHANGED <<pending, chan, refused>>
      [] r.hook = "vfs_rename" -> InsertPending(r)
      [] r.hook = "vfs_rename_retval" -> TakePending(r)
      [] OTHER -> try_send(o, EventOf(r)) /\ UNCHANGED <<pending, refused>>

(* Fault: the item is handled again, because it was not released. *)
DispatchAgain ==
    /\ slot[cons] = "data"
    /\ loop = "draining"
    /\ Convert(record[cons])
    /\ UNCHANGED <<sub, record, reserved, consumed, renaming, renames, entered,
                   lostExits, got, ended>>
    /\ UNCHANGED ringVars

(* Fault: send().await instead of try_send, which waits for the subscriber. *)
DispatchWaits ==
    LET o == ConvertedBy(EventType[record[cons].hook]) IN
    /\ slot[cons] = "data"
    /\ o \in open => Len(chan[o]) < Capacity
    /\ Consume
    /\ Convert(record[cons])
    /\ consumed' = consumed + 1
    /\ record' = [record EXCEPT ![cons] = NoRecord]
    /\ UNCHANGED <<sub, reserved, renaming, renames, entered, lostExits, got,
                   ended>>

Dispatch ==
    /\ slot[cons] = "data"
    /\ Consume
    /\ Convert(record[cons])
    /\ consumed' = consumed + 1
    /\ record' = [record EXCEPT ![cons] = NoRecord]
    /\ UNCHANGED <<sub, reserved, renaming, renames, entered, lostExits, got,
                   ended>>

SkipDiscarded ==
    /\ slot[cons] = "discard"
    /\ Consume
    /\ consumed' = consumed + 1
    /\ record' = [record EXCEPT ![cons] = NoRecord]
    /\ UNCHANGED <<sub, reserved, renaming, renames, history, pending, chan,
                   got, ended>>

LoopWakes == Wake /\ UNCHANGED dataVars
LoopParks == Park /\ UNCHANGED dataVars
LoopFails == Fail /\ UNCHANGED dataVars

-----------------------------------------------------------------------------
(* The application. *)

(* poll_next returns the oldest event of the channel, ... *)
Poll(o) ==
    /\ o \in open
    /\ chan[o] # <<>>
    /\ got' = [got EXCEPT ![o] = Head(chan[o]).id]
    /\ chan' = [chan EXCEPT ![o] = Tail(@)]
    /\ UNCHANGED <<sub, record, reserved, consumed, renaming, renames,
                   history, pending, ended>>
    /\ UNCHANGED ringVars

(* Fault: a stream waits for the other streams to be dropped. *)
PollNoneIfLast(o) ==
    /\ o \in open \ ended
    /\ open = {o}
    /\ chan[o] = <<>>
    /\ loop = "over"
    /\ ended' = ended \cup {o}
    /\ UNCHANGED <<sub, record, reserved, consumed, renaming, renames,
                   history, pending, chan, got>>
    /\ UNCHANGED ringVars

(* ... or None once the channel is empty and the loop dropped the sender. *)
PollNone(o) ==
    /\ o \in open \ ended
    /\ chan[o] = <<>>
    /\ loop = "over"
    /\ ended' = ended \cup {o}
    /\ UNCHANGED <<sub, record, reserved, consumed, renaming, renames,
                   history, pending, chan, got>>
    /\ UNCHANGED ringVars

Drop(o) ==
    /\ DropStream(o)
    /\ chan' = [chan EXCEPT ![o] = <<>>]
    /\ UNCHANGED <<sub, record, reserved, consumed, renaming, renames,
                   history, pending, got, ended>>

-----------------------------------------------------------------------------
KernelStep(t) ==
    \/ \E hook \in attached \ RenameHooks, in \in Inputs : Fire(t, hook, in)
    \/ Finish(t)
    \/ \E in \in Inputs : RenameEntry(t, in)
    \/ \E in \in Inputs : RenameEntrySkipped(t, in)
    \/ RenameExit(t)
    \/ RenameExitLost(t)

LoopStep == LoopWakes \/ LoopParks \/ Dispatch \/ SkipDiscarded

Next ==
    \/ \E t \in Threads : KernelStep(t)
    \/ LoopStep
    \/ LoopFails
    \/ \E o \in Owners : Poll(o) \/ PollNone(o) \/ Drop(o)

Spec == Init /\ [][Next]_vars

(* As in RingLoop; nothing is assumed of the application. *)
Fairness ==
    /\ \A t \in Threads : WF_vars(Finish(t))
    /\ WF_vars(Committed(cons) /\ LoopWakes)
    /\ WF_vars(LoopParks \/ Dispatch \/ SkipDiscarded)

FairSpec == Spec /\ Fairness

-----------------------------------------------------------------------------
(* Properties *)

Ops == 0 .. MaxRenames
Records ==
    [id : 0 .. MaxRecords, hook : Hooks \cup {"none"},
     thread : Threads \cup {"none"}, keep : BOOLEAN,
     mode : FileTypes \cup {"none"}, sock : {"Tcp", "Udp", "none"}, op : Ops]
Events ==
    [id : 0 .. MaxRecords, event : {EventType[h] : h \in Hooks},
     thread : Threads, protocol : {"Tcp", "Udp"},
     mode : FileTypes \cup {"none"}, sock : {"Tcp", "Udp", "none"},
     entry : Ops, exit : Ops]

TypeOK ==
    /\ RingTypeOK
    /\ sub \in Subscriptions
    /\ record \in [Slots -> Records]
    /\ reserved \in 0 .. MaxRecords
    /\ consumed \in 0 .. reserved
    /\ renaming \in [Threads -> Ops]
    /\ renames \in Ops
    /\ entered \in SUBSET Ops
    /\ refused \in SUBSET Ops
    /\ lostExits \in SUBSET Ops
    /\ pending \in [PidTids -> Records]
    /\ chan \in [Owners -> Seq(Events)]
    /\ got \in [Owners -> 0 .. MaxRecords]
    /\ ended \in SUBSET Owners

Channelled(o) == {chan[o][i] : i \in 1 .. Len(chan[o])}

(* Every event sent to a subscriber is one its filter asks for: the mask    *)
(* that chose the programs, the FILTER entry and CONFIG the programs read   *)
(* and the arm of the converter agree.  Two exceptions are the code's: the  *)
(* program of MemoryUnMap does not look at FILTER, and that of Bind reports *)
(* every socket as TCP, so that only there the protocol is not the socket's *)
OnlyWhatWasAskedFor ==
    \A o \in Owners : \A e \in Channelled(o) :
        /\ OperationMatches(sub[o], o, e.event, e.mode)
        /\ o = "Network" =>
              /\ e.protocol \in {IF m = "TCP" THEN "Tcp" ELSE "Udp" :
                                     m \in sub[o].protocol_mask}
              /\ e.event # "Bind" => e.protocol = e.sock
        /\ e.event # "MemoryUnMap" =>
              KeyMatches(sub[o].filter, Header[e.thread])

(* FilterKey: "restricts events to a specific process or user". *)
KeyIsHonoured ==
    \A o \in Owners : \A e \in Channelled(o) :
        KeyMatches(sub[o].filter, Header[e.thread])

(* handle_connect, handle_bind and handle_listen: "unwrap is fine here".    *)
(* No record reaches them that was written with retval None.                *)
UnwrapIsFine ==
    \A p \in Slots :
        slot[p] = "data" /\ EventType[record[p].hook] \in UnwrapsRetval
            => record[p].hook \in HooksWithRetval

(* The events of one thread reach a subscriber in the order they happened,  *)
(* and no record is dispatched twice: numbers grow along a channel and past *)
(* what was received.                                                       *)
InRingOrder ==
    \A o \in Owners :
        /\ \A i, j \in 1 .. Len(chan[o]) :
              i < j => chan[o][i].id < chan[o][j].id
        /\ \A e \in Channelled(o) : got[o] < e.id /\ e.id <= consumed
        /\ got[o] <= consumed

(* A rename event joins the names of one operation with the result of       *)
(* another only if the exit of the first was lost to a full ring.           *)
PairedOrLost ==
    \A o \in Owners : \A e \in Channelled(o) :
        e.event = "FileRename" => e.entry = e.exit \/ e.entry \in lostExits

(* An entry waits in pending_renames only while its rename runs, its exit   *)
(* is on the way in the ring, or its exit was lost.                         *)
PendingIsJustified ==
    \A k \in Pendings :
        LET e == pending[k] IN
        \/ renaming[e.thread] = e.op
        \/ e.op \in lostExits
        \/ \E p \in Slots : /\ slot[p] # "free"
                            /\ record[p].hook = "vfs_rename_retval"
                            /\ record[p].op = e.op

(* A rename whose entry was accepted finds it at its exit: until the exit   *)
(* is dispatched the entry is in the ring or in pending_renames, whatever   *)
(* other threads do and whatever earlier renames left behind.               *)
EntryAwaitsExit ==
    \A p \in Slots :
        LET x == record[p] IN
        x.hook = "vfs_rename_retval" /\ x.op \in entered \ refused =>
            \/ pending[PidTid(x.thread)].op = x.op
            \/ \E q \in Slots : record[q].hook = "vfs_rename"
                                /\ record[q].op = x.op

(* FileRenameEvent captures "both the operation metadata and its return     *)
(* value".                                                                  *)
RenameIsOneOperation ==
    \A o \in Owners : \A e \in Channelled(o) :
        e.event = "FileRename" => e.entry = e.exit

(* The same for a rename whose own entry was emitted.  Not so if the table  *)
(* is full when the entry arrives: it may not even replace what an earlier  *)
(* rename of the thread left there.                                         *)
EnteredIsOneOperation ==
    \A o \in Owners : \A e \in Channelled(o) :
        e.event = "FileRename" /\ e.exit \in entered => e.entry = e.exit

(* A subscriber that never polls holds nobody up: the ring still drains. *)
RingDrains ==
    \A p \in Slots : Committed(p) ~> (slot[p] = "free" \/ loop = "over")

(* An application that keeps polling a stream learns that the loop is over, *)
(* after what is still in the channel and whatever it does with the others. *)
StreamsEnd ==
    \A o \in Owners :
        WF_vars(Poll(o) \/ PollNone(o)) =>
            ((loop = "over") ~> (o \in ended \/ o \notin open))

-----------------------------------------------------------------------------
(* A submitted record is an event for the stream of its type, whatever room *)
(* there is.  The entry of a rename is none, it waits for its exit; the     *)
(* exit is one if its entry waits.                                          *)
IsEventFor(o, r) ==
    /\ ConvertedBy(EventType[r.hook]) = o
    /\ r.hook # "vfs_rename"
    /\ r.hook = "vfs_rename_retval" => pending[PidTid(r.thread)] # NoRecord

(* Every subscription keeps the contract of Stream: a converter that drops  *)
(* an event while its channel has room, sends what is no event, sends twice *)
(* or out of order, or a stream that ends early, breaks it.                 *)
StreamOf(o) == INSTANCE Stream WITH
    event <- slot[cons] = "data" /\ IsEventFor(o, record[cons]),
    offered <- consumed,
    buf <- [i \in 1 .. Len(chan[o]) |-> chan[o][i].id],
    got <- got[o],
    live <- loop # "over",
    state <- IF o \notin open THEN "dropped"
             ELSE IF o \in ended THEN "ended" ELSE "open"

ImplementsStreams ==
    /\ \A o \in Owners : StreamOf(o)!Init
    /\ [][\A o \in Owners : [StreamOf(o)!Next]_(StreamOf(o)!streamVars)]_vars
=============================================================================
