----------------------------- MODULE Subscribe -----------------------------
(***************************************************************************)
(* The life of a Bpfx: construction, subscribe() as the sequence of steps  *)
(* it is, run, and its end.  Programs run as soon as they are attached, in *)
(* the middle of a subscribe() and long before run(), with the FILTER and   *)
(* CONFIG of that moment; what they submit waits in the ring.              *)
(*                                                                         *)
(* A call that fails returns at once: what it has written and attached     *)
(* stays.  Delivery takes its subscriptions as given; here they are made.  *)
(* The ring is a queue (its steps are those of RingLoop) and the two        *)
(* programs of a rename do not fire (their pairing is in Delivery).        *)
(***************************************************************************)
EXTENDS Naturals, Probes, Sequences, FiniteSetsExt

CONSTANTS
    Owners,       \* the subscription types used
    Filters,      \* Filters[o]: the filters subscribe() is called with
    Capacities,   \* values of config.channel_capacity, a public field that
                  \* the application may assign between two calls
    Threads,      \* kernel threads
    Header,       \* Header[t]: pid, tid, ppid, uid and gid of a thread
    Inputs,       \* what hooks may find, see Probes
    RingSize,     \* records the ring holds
    MaxCalls      \* bound: calls of subscribe()

ASSUME SubscribeAssumption ==
    /\ RingSize \in Nat /\ MaxCalls \in Nat /\ Capacities \subseteq Nat
    /\ Owners \subseteq DOMAIN MaskFlags
    /\ \A o \in Owners : \A f \in Filters[o] : IsFilter(o, f)
    /\ Header \in [Threads -> HeaderType]
    /\ Inputs \subseteq InputType

VARIABLES
    bpfx,       \* "none", "idle", "running" or "gone"
    call,       \* the subscribe() in progress
    calls,      \* calls[o]: calls of subscribe() so far
    FILTER,     \* FILTER[o]; a missing entry is NoKey
    CONFIG,     \* the file types; {} while there is no entry
    loaded,     \* programs that were loaded, which aya does only once
    links,      \* programs that are attached
    register,   \* register[o]: the number of the stream it sends to, or 0
    streams,    \* the streams handed out: filter, capacity, channel, state
    ring        \* the committed records, oldest first

vars == <<bpfx, call, calls, FILTER, CONFIG, loaded, links, register, streams,
          ring>>
runtimeVars == <<bpfx, call, calls, FILTER, CONFIG, loaded, links, register>>

NoKey == [kind |-> "None", id |-> 0]

(* A call in progress has steps to do, the last of which is "register". *)
NoCall == [todo |-> {}]
Calling == call.todo # {}

(* Attached for their effect on FILE_PATH_MAP; they emit nothing. *)
PathPrograms == {"file_open", "__fput"}
RenameHooks == {"vfs_rename", "vfs_rename_retval"}

Init ==
    /\ bpfx = "none"
    /\ call = NoCall
    /\ calls = [o \in Owners |-> 0]
    /\ FILTER = [o \in Owners |-> NoKey]
    /\ CONFIG = {}
    /\ loaded = {}
    /\ links = {}
    /\ register = [o \in Owners |-> 0]
    /\ streams = <<>>
    /\ ring = <<>>

-----------------------------------------------------------------------------
(* new and with_config load the object and open the ring; an error leaves   *)
(* nothing behind, and the application may try again.                       *)
New ==
    /\ bpfx = "none"
    /\ bpfx' = "idle"
    /\ UNCHANGED <<call, calls, FILTER, CONFIG, loaded, links, register,
                   streams, ring>>

-----------------------------------------------------------------------------
(* subscribe(). *)

Programs == Hooks \cup PathPrograms

(* The order in which attach_*_probe goes through the programs.  A call     *)
(* attaches only those of its own type.                                     *)
AttachOrder ==
    [file_open |-> 1, __fput |-> 2,
     vfs_open |-> 3, filp_close |-> 4, vfs_read |-> 5, vfs_write |-> 6,
     vfs_unlink |-> 7, vfs_rename |-> 8, vfs_rename_retval |-> 9,
     tcp_v4_connect |-> 3, tcp_v6_connect |-> 4, inet_csk_accept |-> 5,
     tcp_close |-> 6, inet_bind |-> 7, inet_listen |-> 8, udp_connect |-> 9,
     udpv6_connect |-> 10, udp_destroy_sock |-> 11,
     sched_process_exec |-> 3, sched_process_fork |-> 4, do_group_exit |-> 5,
     vm_mmap_pgoff |-> 3, __vm_munmap |-> 4]

(* Fault: the filter is written once the programs are there. *)
FilterLast(step) ==
    CASE step = "channel"  -> 1
      [] step = "CONFIG"   -> 3
      [] step \in Programs -> 3 + AttachOrder[step]
      [] step = "FILTER"   -> 15
      [] step = "register" -> 16

(* Fault: the channel is made when the stream is. *)
ChannelLast(step) ==
    CASE step = "FILTER"   -> 2
      [] step = "CONFIG"   -> 3
      [] step \in Programs -> 3 + AttachOrder[step]
      [] step = "channel"  -> 15
      [] step = "register" -> 16

(* When a step is taken: mpsc::channel, write_to_fiter_map, write_to_map,   *)
(* the programs, the register.                                              *)
Place(step) ==
    CASE step = "channel"  -> 1
      [] step = "FILTER"   -> 2
      [] step = "CONFIG"   -> 3
      [] step \in Programs -> 3 + AttachOrder[step]
      [] step = "register" -> 15

(* Fault: CONFIG is left as it is. *)
NoConfig(o, f) ==
    {"channel", "FILTER", "register"} \cup Attached(o, f)
    \cup (IF o = "File" THEN PathPrograms ELSE {})

(* The steps of a call: those of every type, CONFIG and the programs of the *)
(* path table for files, and the programs of the mask.                      *)
StepsOf(o, f) ==
    {"channel", "FILTER", "register"} \cup Attached(o, f)
    \cup (IF o = "File" THEN {"CONFIG"} \cup PathPrograms ELSE {})

Subscribe(o, f, c) ==
    /\ bpfx = "idle"
    /\ ~Calling
    /\ MapThenSumSet(LAMBDA p : calls[p], Owners) < MaxCalls
    /\ calls' = [calls EXCEPT ![o] = @ + 1]
    /\ call' = [owner |-> o, filter |-> f, capacity |-> c,
                todo |-> StepsOf(o, f)]
    /\ UNCHANGED <<bpfx, FILTER, CONFIG, loaded, links, register, streams,
                   ring>>

(* The step the call is at, and what becomes of the call after it. *)
At(step) == /\ step \in call.todo
            /\ \A other \in call.todo : Place(step) <= Place(other)
Goes(step) == call' = [call EXCEPT !.todo = @ \ {step}]
Fails == call' = NoCall

(* Fault: a capacity of 0 gives a channel that holds nothing. *)
ChannelOfNothing ==
    /\ At("channel")
    /\ Goes("channel")
    /\ UNCHANGED <<bpfx, calls, FILTER, CONFIG, loaded, links, register,
                   streams, ring>>

(* mpsc::channel panics for a capacity of 0. *)
Channel ==
    /\ At("channel")
    /\ IF call.capacity = 0 THEN Fails ELSE Goes("channel")
    /\ UNCHANGED <<bpfx, calls, FILTER, CONFIG, loaded, links, register,
                   streams, ring>>

(* Fault: every filter type writes the entry of FilterOwner::Process. *)
write_for_process ==
    /\ At("FILTER")
    /\ \/ /\ FILTER' = [FILTER EXCEPT !["Process"] = call.filter.filter]
          /\ Goes("FILTER")
       \/ UNCHANGED FILTER /\ Fails
    /\ UNCHANGED <<bpfx, calls, CONFIG, loaded, links, register, streams,
                   ring>>

write_to_fiter_map ==
    /\ At("FILTER")
    /\ \/ /\ FILTER' = [FILTER EXCEPT ![call.owner] = call.filter.filter]
          /\ Goes("FILTER")
       \/ UNCHANGED FILTER /\ Fails
    /\ UNCHANGED <<bpfx, calls, CONFIG, loaded, links, register, streams,
                   ring>>

write_to_map ==
    /\ At("CONFIG")
    /\ \/ CONFIG' = call.filter.file_mode /\ Goes("CONFIG")
       \/ UNCHANGED CONFIG /\ Fails
    /\ UNCHANGED <<bpfx, calls, FILTER, loaded, links, register, streams,
                   ring>>

(* Fault: a program that was loaded but not attached is used as it is. *)
attach_unlinked(p) ==
    /\ At(p)
    /\ \/ /\ p \notin links
          /\ loaded' = loaded \cup {p}
          /\ \/ links' = links \cup {p} /\ Goes(p)
             \/ UNCHANGED links /\ Fails
       \/ UNCHANGED <<loaded, links>> /\ Fails
    /\ UNCHANGED <<bpfx, calls, FILTER, CONFIG, register, streams, ring>>

(* attach_fexit, attach_kprobe, attach_fentry, attach_tracepoint and        *)
(* attach_lsm_probe: load, which aya refuses the second time, then attach;  *)
(* each may fail.                                                           *)
attach(p) ==
    /\ At(p)
    /\ \/ /\ p \notin loaded
          /\ loaded' = loaded \cup {p}
          /\ \/ links' = links \cup {p} /\ Goes(p)
             \/ UNCHANGED links /\ Fails
       \/ UNCHANGED <<loaded, links>> /\ Fails
    /\ UNCHANGED <<bpfx, calls, FILTER, CONFIG, register, streams, ring>>

(* The register takes the sender, the application the receiver.  The sender *)
(* of the register's earlier stream is dropped.                             *)
Register ==
    /\ At("register")
    /\ streams' = Append(streams, [owner |-> call.owner,
                                   filter |-> call.filter,
                                   capacity |-> call.capacity,
                                   buf |-> <<>>, state |-> "open"])
    /\ register' = [register EXCEPT ![call.owner] = Len(streams) + 1]
    /\ call' = NoCall
    /\ UNCHANGED <<bpfx, calls, FILTER, CONFIG, loaded, links, ring>>

CallStep ==
    \/ Channel
    \/ write_to_fiter_map
    \/ write_to_map
    \/ \E p \in Programs : attach(p)
    \/ Register

-----------------------------------------------------------------------------
(* A program of some subscription runs to its end. *)
Fire(t, hook, in) ==
    LET o == ConvertedBy(EventType[hook]) IN
    /\ hook \in links \ (PathPrograms \cup RenameHooks)
    /\ Len(ring) < RingSize
    /\ Outcome(hook, [key |-> FILTER[o], config |-> CONFIG,
                      header |-> Header[t], input |-> in]) = "submit"
    /\ ring' = Append(ring, [event |-> EventType[hook], thread |-> t,
                             mode |-> in.mode])
    /\ UNCHANGED <<runtimeVars, streams>>

(* run(): the Bpfx moves into the task. *)
Run ==
    /\ bpfx = "idle"
    /\ ~Calling
    /\ bpfx' = "running"
    /\ UNCHANGED <<call, calls, FILTER, CONFIG, loaded, links, register,
                   streams, ring>>

(* One turn of the inner while: the converter of the register sends. *)
Dispatch ==
    LET o == ConvertedBy(Head(ring).event)
        s == register[o]
    IN
    /\ bpfx = "running"
    /\ ring # <<>>
    /\ ring' = Tail(ring)
    /\ streams' = IF s # 0 /\ streams[s].state = "open"
                     /\ Len(streams[s].buf) < streams[s].capacity
                  THEN [streams EXCEPT ![s].buf = Append(@, Head(ring))]
                  ELSE streams
    /\ UNCHANGED runtimeVars

(* The task returns (when it is, is the subject of EventLoop), or the       *)
(* application drops a Bpfx it does not run: programs and senders go.       *)
Ends ==
    /\ bpfx \in {"idle", "running"}
    /\ ~Calling
    /\ bpfx' = "gone"
    /\ links' = {}
    /\ register' = [o \in Owners |-> 0]
    /\ ring' = <<>>
    /\ UNCHANGED <<call, calls, FILTER, CONFIG, loaded, streams>>

-----------------------------------------------------------------------------
(* The application. *)
Poll(s) ==
    /\ streams[s].state = "open"
    /\ streams[s].buf # <<>>
    /\ streams' = [streams EXCEPT ![s].buf = Tail(@)]
    /\ UNCHANGED <<runtimeVars, ring>>

(* Fault: the register keeps the senders it had. *)
PollNoneAtTheEnd(s) ==
    /\ streams[s].state = "open"
    /\ streams[s].buf = <<>>
    /\ bpfx = "gone"
    /\ streams' = [streams EXCEPT ![s].state = "ended"]
    /\ UNCHANGED <<runtimeVars, ring>>

(* None: the channel is empty and its only sender was dropped. *)
PollNone(s) ==
    /\ streams[s].state = "open"
    /\ streams[s].buf = <<>>
    /\ register[streams[s].owner] # s
    /\ streams' = [streams EXCEPT ![s].state = "ended"]
    /\ UNCHANGED <<runtimeVars, ring>>

Drop(s) ==
    /\ streams[s].state # "dropped"
    /\ streams' = [streams EXCEPT ![s].state = "dropped", ![s].buf = <<>>]
    /\ UNCHANGED <<runtimeVars, ring>>

StreamIds == 1 .. Len(streams)

Next ==
    \/ New
    \/ \E o \in Owners : \E f \in Filters[o], c \in Capacities :
          Subscribe(o, f, c)
    \/ CallStep
    \/ \E t \in Threads, hook \in links, in \in Inputs : Fire(t, hook, in)
    \/ Run
    \/ Dispatch
    \/ Ends
    \/ \E s \in StreamIds : Poll(s) \/ PollNone(s) \/ Drop(s)

Spec == Init /\ [][Next]_vars

-----------------------------------------------------------------------------
(* Properties *)

Records == [event : {EventType[h] : h \in Hooks}, thread : Threads,
            mode : FileTypes \cup {"none"}]

AllFilters == UNION {Filters[o] : o \in Owners}
Steps == {"channel", "FILTER", "CONFIG", "register"} \cup Programs

StreamType == [owner : Owners, filter : AllFilters,
               capacity : Capacities \ {0}, buf : Seq(Records),
               state : {"open", "ended", "dropped"}]

TypeOK ==
    /\ bpfx \in {"none", "idle", "running", "gone"}
    /\ \/ call = NoCall
       \/ /\ call \in [owner : Owners, filter : AllFilters,
                        capacity : Capacities, todo : SUBSET Steps]
          /\ call.filter \in Filters[call.owner]
    /\ calls \in [Owners -> Nat]
    /\ FILTER \in [Owners -> {NoKey} \cup {f.filter : f \in AllFilters}]
    /\ CONFIG \subseteq FileTypes
    /\ loaded \subseteq Programs
    /\ links \subseteq loaded
    /\ register \in [Owners -> Nat]
    /\ \A o \in Owners :
          register[o] # 0 => /\ register[o] \in StreamIds
                             /\ streams[register[o]].owner = o
    /\ streams \in Seq(StreamType)
    /\ \A s \in StreamIds :
          /\ streams[s].filter \in Filters[streams[s].owner]
          /\ Len(streams[s].buf) <= streams[s].capacity
    /\ ring \in Seq(Records)
    /\ Len(ring) <= RingSize

InCall(o) == Calling /\ call.owner = o
StreamsOf(o) == {s \in StreamIds : streams[s].owner = o}

(* "Multiple subscriptions of different types may coexist": a type that was *)
(* subscribed once and successfully has, whatever calls for other types     *)
(* succeed, fail or are in progress, its register, its FILTER entry and its *)
(* programs; so it is never registered with a program missing.              *)
Coexist ==
    \A o \in Owners :
        register[o] # 0 /\ calls[o] = 1 =>
            LET f == streams[register[o]].filter IN
            /\ Attached(o, f) \subseteq links
            /\ FILTER[o] = f.filter
            /\ o = "File" => CONFIG = f.file_mode /\ PathPrograms \subseteq links

(* Event e is one that filter f of type o asks for; munmap is not filtered  *)
(* by process.                                                              *)
AskedFor(f, o, e) ==
    /\ OperationMatches(f, o, e.event, e.mode)
    /\ e.event # "MemoryUnMap" => KeyMatches(f.filter, Header[e.thread])

(* The filter is in place before the first program of it runs: a type       *)
(* subscribed once gives only events its filter asks for, those that        *)
(* happened during subscribe() included.                                    *)
FirstIsFiltered ==
    \A s \in StreamIds :
        LET o == streams[s].owner
        IN calls[o] = 1 =>
              \A i \in 1 .. Len(streams[s].buf) :
                  AskedFor(streams[s].filter, o, streams[s].buf[i])

(* A runtime has at most one file stream in its life.  The call that has    *)
(* loaded file_open is the only one that can make it: if that call fails at *)
(* a later program no retry ever succeeds, whatever its mask, while a call  *)
(* that failed before it (at the channel, FILTER or CONFIG) may be repeated *)
FileOnce ==
    /\ [](Cardinality(StreamsOf("File")) <= 1)
    /\ []("file_open" \in loaded /\ ~InCall("File") /\ StreamsOf("File") = {}
             => [](StreamsOf("File") = {}))

(* A call that panics for its capacity has changed no map, attached nothing *)
(* and replaced no stream.                                                  *)
PanicLeavesNoTrace ==
    [][Calling /\ call.capacity = 0
         => UNCHANGED <<FILTER, CONFIG, loaded, links, register>>]_vars

(* What Delivery starts from: when every type was subscribed at most once   *)
(* and no call failed, run() finds FILTER, CONFIG and the programs that     *)
(* follow from the filters of the registers, and nothing else.              *)
StartsLikeDelivery ==
    LET subscribed == {o \in Owners : register[o] # 0}
        sub == [o \in subscribed |-> streams[register[o]].filter]
    IN bpfx = "running" /\ (\A o \in Owners :
                               calls[o] = IF o \in subscribed THEN 1 ELSE 0) =>
          /\ \A o \in Owners :
                FILTER[o] = IF o \in subscribed THEN sub[o].filter ELSE NoKey
          /\ CONFIG = IF "File" \in subscribed THEN sub["File"].file_mode
                      ELSE {}
          /\ links \ PathPrograms = UNION {Attached(o, sub[o]) : o \in subscribed}

(* The register holds "the active filter": the one FILTER has. *)
ActiveFilter ==
    \A o \in Owners :
        register[o] # 0 /\ ~InCall(o) =>
            FILTER[o] = streams[register[o]].filter.filter

(* "The supplied filter determines which events are monitored and returned  *)
(* by the resulting event stream."  Not so for the second of two process    *)
(* streams: the programs of the first stay attached.                        *)
SuppliedFilterDetermines ==
    \A s \in StreamIds : \A i \in 1 .. Len(streams[s].buf) :
        OperationMatches(streams[s].filter, streams[s].owner,
                         streams[s].buf[i].event, streams[s].buf[i].mode)

(* A stream whose sender is gone (its register was given to a later         *)
(* subscription, or the Bpfx ended, run or not) ends for an application     *)
(* that keeps polling it.                                                   *)
CutStreamsEnd ==
    \A s \in 1 .. MaxCalls :
        WF_vars(s \in StreamIds /\ (Poll(s) \/ PollNone(s))) =>
            ((s \in StreamIds /\ register[streams[s].owner] # s)
                ~> (s \in StreamIds /\ streams[s].state # "open"))

-----------------------------------------------------------------------------
(* The inductive invariant. *)

OwnedBy(o) == {p \in Hooks : ConvertedBy(EventType[p]) = o}
              \cup (IF o = "File" THEN PathPrograms ELSE {})
ProgramsOf(o, f) == StepsOf(o, f) \cap Programs
Done == StepsOf(call.owner, call.filter) \ call.todo

(* Only a call of subscribe() for a type leaves traces of that type. *)
Traces ==
    /\ \A p \in loaded : \E o \in Owners : p \in OwnedBy(o) /\ calls[o] # 0
    /\ \A s \in StreamIds : calls[streams[s].owner] # 0
    /\ \A o \in Owners : FILTER[o] # NoKey => calls[o] # 0
    /\ CONFIG # {} => "File" \in Owners /\ calls["File"] # 0
    /\ \A i \in 1 .. Len(ring) :
          LET o == ConvertedBy(ring[i].event) IN o \in Owners /\ calls[o] # 0

(* What a call has done, and what is done in order: nothing before the      *)
(* channel, no program before the maps, the register last.                  *)
Progress ==
    Calling =>
        /\ bpfx = "idle"
        /\ calls[call.owner] # 0
        /\ call.todo \subseteq StepsOf(call.owner, call.filter)
        /\ "register" \in call.todo
        /\ call.capacity = 0 => "channel" \in call.todo
        /\ "FILTER" \in Done => FILTER[call.owner] = call.filter.filter
        /\ "CONFIG" \in Done => CONFIG = call.filter.file_mode
        /\ Done \cap Programs \subseteq links
        /\ "file_open" \in Done => StreamsOf("File") = {}

(* The first call for a type starts with nothing, and its programs come     *)
(* after the maps that they read.                                           *)
FirstCall ==
    Calling /\ calls[call.owner] = 1 =>
        /\ StreamsOf(call.owner) = {}
        /\ links \cap OwnedBy(call.owner) \subseteq Done
        /\ links \cap OwnedBy(call.owner) # {} =>
              call.todo \cap {"FILTER", "CONFIG"} = {}

(* While a type has had one call only, its stream finds the maps and        *)
(* programs of its filter.                                                  *)
OneCall ==
    \A s \in StreamIds :
        LET o == streams[s].owner
            f == streams[s].filter
        IN calls[o] = 1 =>
              /\ FILTER[o] = f.filter
              /\ o = "File" => CONFIG = f.file_mode
              /\ links \cap OwnedBy(o) \subseteq ProgramsOf(o, f)

(* What waits in the ring was asked for by the only call there was. *)
RingIsFiltered ==
    \A i \in 1 .. Len(ring) :
        LET o == ConvertedBy(ring[i].event)
        IN calls[o] = 1 =>
              /\ InCall(o) => AskedFor(call.filter, o, ring[i])
              /\ \A s \in StreamsOf(o) : AskedFor(streams[s].filter, o, ring[i])

OneFileStream ==
    /\ StreamsOf("File") # {} => "file_open" \in loaded
    /\ \A s1, s2 \in StreamsOf("File") : s1 = s2

(* What subscribe() may rely on between any two of its steps, whatever      *)
(* calls were made before it, succeeded or failed: the inductive invariant  *)
(* of the attach functions and the registers.                               *)
SubscribeInv ==
    /\ TypeOK
    /\ Traces
    /\ Progress
    /\ FirstCall
    /\ OneCall
    /\ Coexist
    /\ RingIsFiltered
    /\ FirstIsFiltered
    /\ OneFileStream
=============================================================================
