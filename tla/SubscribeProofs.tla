-------------------------- MODULE SubscribeProofs --------------------------
(***************************************************************************)
(* For every set of types, filters, capacities and threads, ring size and  *)
(* number of calls: Subscribe keeps SubscribeInv, and from it follow that   *)
(* types do not disturb each other, that nothing unfiltered is delivered,   *)
(* that there is one file stream at most, that a panic leaves no trace and  *)
(* that run() starts from what Delivery takes as given.                    *)
(***************************************************************************)
EXTENDS Subscribe, ProbesProofs, SequenceTheorems, FiniteSetTheorems, TLAPS

-----------------------------------------------------------------------------
(* The order of the steps. *)

(* A program is none of the other steps. *)
LEMMA ProgramsApart ==
    /\ Programs \cap {"channel", "FILTER", "CONFIG", "register"} = {}
    /\ "file_open" \in Programs
    /\ PathPrograms \cap Hooks = {}
  BY DEF Programs, PathPrograms, Hooks, EventType

LEMMA AttachOrderType ==
    \A p \in Programs : AttachOrder[p] \in 1 .. 11
  BY DEF Programs, PathPrograms, Hooks, EventType, AttachOrder

LEMMA Places ==
    /\ Place("channel") = 1 /\ Place("FILTER") = 2 /\ Place("CONFIG") = 3
    /\ Place("register") = 15
    /\ \A p \in Programs : Place(p) \in 4 .. 14
  <1>1. /\ Place("channel") = 1 /\ Place("FILTER") = 2 /\ Place("CONFIG") = 3
        /\ Place("register") = 15
    BY ProgramsApart DEF Place
  <1>2. ASSUME NEW p \in Programs PROVE Place(p) \in 4 .. 14
    <2>1. Place(p) = 3 + AttachOrder[p]
      BY ProgramsApart DEF Place
    <2> QED
      BY <2>1, AttachOrderType
  <1> QED
    BY <1>1, <1>2

(* What is done when a call is at a step. *)
LEMMA AtFacts ==
    ASSUME call.todo \subseteq Steps, NEW step, At(step)
    PROVE  /\ step \in call.todo /\ Calling
           /\ step # "channel" => "channel" \notin call.todo
           /\ step \in Programs \cup {"register"} =>
                 call.todo \cap {"FILTER", "CONFIG"} = {}
           /\ step = "register" => call.todo = {"register"}
  <1>1. step \in Steps
    BY DEF At
  <1>2. step # "channel" => "channel" \notin call.todo
    BY <1>1, Places DEF At, Steps
  <1>3. step \in Programs \cup {"register"} =>
           call.todo \cap {"FILTER", "CONFIG"} = {}
    BY <1>1, Places DEF At, Steps
  <1>4. step = "register" => call.todo = {"register"}
    BY Places DEF At, Steps
  <1> QED
    BY <1>2, <1>3, <1>4 DEF At, Calling

(* The steps of a call, and which types its programs belong to. *)
LEMMA StepsFacts ==
    ASSUME NEW o \in Owners, NEW f \in Filters[o]
    PROVE  /\ StepsOf(o, f) \subseteq Steps
           /\ {"channel", "FILTER", "register"} \subseteq StepsOf(o, f)
           /\ "CONFIG" \in StepsOf(o, f) <=> o = "File"
           /\ "file_open" \in StepsOf(o, f) <=> o = "File"
           /\ Attached(o, f) \subseteq Hooks
           /\ ProgramsOf(o, f) \subseteq OwnedBy(o)
           /\ ProgramsOf(o, f) =
                 Attached(o, f) \cup (IF o = "File" THEN PathPrograms ELSE {})
  <1>1. o \in DOMAIN MaskFlags /\ IsFilter(o, f)
    BY SubscribeAssumption
  <1>2. Attached(o, f) \subseteq {p \in Hooks : ConvertedBy(EventType[p]) = o}
    BY <1>1, AttachedByOwner
  <1>3. {"channel", "FILTER", "CONFIG", "register", "file_open"} \cap Hooks = {}
    BY ProgramsApart DEF Programs, PathPrograms
  <1> QED
    BY <1>2, <1>3, ProgramsApart
    DEF StepsOf, ProgramsOf, OwnedBy, Steps, Programs, PathPrograms

LEMMA OwnedApart ==
    ASSUME NEW o1, NEW o2, NEW p \in OwnedBy(o1), p \in OwnedBy(o2)
    PROVE  o1 = o2
  BY ProgramsApart DEF OwnedBy

-----------------------------------------------------------------------------
(* The steps of a call by what they change. *)

(* A step fails: the call returns.  A program may have been loaded. *)
FailedStep ==
    /\ Calling
    /\ call' = NoCall
    /\ loaded \subseteq loaded'
    /\ loaded' \subseteq loaded \cup (call.todo \cap Programs)
    /\ UNCHANGED <<bpfx, calls, FILTER, CONFIG, links, register, streams, ring>>

ChannelMade ==
    /\ At("channel")
    /\ call.capacity # 0
    /\ Goes("channel")
    /\ UNCHANGED <<bpfx, calls, FILTER, CONFIG, loaded, links, register,
                   streams, ring>>

FilterWritten ==
    /\ At("FILTER")
    /\ FILTER' = [FILTER EXCEPT ![call.owner] = call.filter.filter]
    /\ Goes("FILTER")
    /\ UNCHANGED <<bpfx, calls, CONFIG, loaded, links, register, streams, ring>>

ConfigWritten ==
    /\ At("CONFIG")
    /\ CONFIG' = call.filter.file_mode
    /\ Goes("CONFIG")
    /\ UNCHANGED <<bpfx, calls, FILTER, loaded, links, register, streams, ring>>

ProgramAttached(p) ==
    /\ At(p)
    /\ p \notin loaded
    /\ loaded' = loaded \cup {p}
    /\ links' = links \cup {p}
    /\ Goes(p)
    /\ UNCHANGED <<bpfx, calls, FILTER, CONFIG, register, streams, ring>>

LEMMA CallStepIs ==
    CallStep => \/ FailedStep
                \/ ChannelMade
                \/ FilterWritten
                \/ ConfigWritten
                \/ \E p \in Programs : ProgramAttached(p)
                \/ Register
  <1>1. ASSUME Channel PROVE FailedStep \/ ChannelMade
    BY <1>1 DEF Channel, Fails, FailedStep, ChannelMade, At, Calling
  <1>2. ASSUME write_to_fiter_map PROVE FailedStep \/ FilterWritten
    BY <1>2 DEF write_to_fiter_map, Fails, FailedStep, FilterWritten, At, Calling
  <1>3. ASSUME write_to_map PROVE FailedStep \/ ConfigWritten
    BY <1>3 DEF write_to_map, Fails, FailedStep, ConfigWritten, At, Calling
  <1>4. ASSUME NEW p \in Programs, attach(p)
        PROVE  FailedStep \/ ProgramAttached(p)
    <2>1. p \in call.todo /\ Calling
      BY <1>4 DEF attach, At, Calling
    <2> QED
      BY <1>4, <2>1 DEF attach, Fails, FailedStep, ProgramAttached
  <1> QED
    BY <1>1, <1>2, <1>3, <1>4 DEF CallStep

LEMMA CallFacts ==
    ASSUME TypeOK, Calling
    PROVE  /\ call \in [owner : Owners, filter : AllFilters,
                         capacity : Capacities, todo : SUBSET Steps]
           /\ call.owner \in Owners /\ call.filter \in Filters[call.owner]
           /\ call.todo \subseteq Steps
  BY DEF TypeOK, Calling, NoCall

LEMMA GoesFacts ==
    ASSUME TypeOK, Calling, NEW step, Goes(step)
    PROVE  /\ call' \in [owner : Owners, filter : AllFilters,
                          capacity : Capacities, todo : SUBSET Steps]
           /\ call'.owner = call.owner /\ call'.filter = call.filter
           /\ call'.capacity = call.capacity
           /\ call'.todo = call.todo \ {step}
  BY CallFacts DEF Goes

-----------------------------------------------------------------------------
(* Types. *)

(* What a step of a stream leaves alone. *)
StreamsKeep ==
    /\ streams' \in Seq(StreamType)
    /\ Len(streams') = Len(streams)
    /\ \A s \in StreamIds :
          /\ streams'[s].owner = streams[s].owner
          /\ streams'[s].filter = streams[s].filter
          /\ streams'[s].capacity = streams[s].capacity
          /\ Len(streams'[s].buf) <= streams'[s].capacity

LEMMA ChangeOne ==
    ASSUME TypeOK, NEW s \in StreamIds, NEW x \in StreamType,
           x.owner = streams[s].owner, x.filter = streams[s].filter,
           x.capacity = streams[s].capacity, Len(x.buf) <= x.capacity,
           streams' = [streams EXCEPT ![s] = x]
    PROVE  /\ StreamsKeep
           /\ \A q \in StreamIds : streams'[q] = IF q = s THEN x ELSE streams[q]
  <1>1. /\ streams' \in Seq(StreamType)
        /\ Len(streams') = Len(streams)
        /\ \A q \in StreamIds : streams'[q] = IF q = s THEN x ELSE streams[q]
    BY ExceptSeq DEF TypeOK, StreamIds
  <1> QED
    BY <1>1 DEF StreamsKeep, TypeOK

LEMMA StreamFacts ==
    ASSUME TypeOK, NEW s \in StreamIds
    PROVE  /\ streams[s] \in StreamType
           /\ streams[s].filter \in Filters[streams[s].owner]
           /\ streams[s].owner \in Owners /\ streams[s].filter \in AllFilters
           /\ streams[s].capacity \in Nat
           /\ streams[s].buf \in Seq(Records) /\ Len(streams[s].buf) \in Nat
           /\ Len(streams[s].buf) <= streams[s].capacity
  <1>1. streams[s] \in StreamType
    BY ElementOfSeq DEF TypeOK, StreamIds
  <1>2. /\ streams[s].owner \in Owners /\ streams[s].filter \in AllFilters
        /\ streams[s].capacity \in Capacities \ {0}
        /\ streams[s].buf \in Seq(Records)
    BY <1>1 DEF StreamType
  <1>3. Len(streams[s].buf) \in Nat
    BY <1>2, LenProperties
  <1> QED
    BY <1>1, <1>2, <1>3, SubscribeAssumption DEF TypeOK

(* Dispatch, Poll, PollNone and Drop change the channel of one stream. *)
LEMMA DispatchKeeps ==
    ASSUME TypeOK, Traces, Dispatch
    PROVE  /\ StreamsKeep
           /\ \A q \in StreamIds :
                 \/ streams'[q].buf = streams[q].buf
                 \/ /\ streams[q].owner = ConvertedBy(ring[1].event)
                    /\ streams'[q].buf = Append(streams[q].buf, ring[1])
           /\ ring' \in Seq(Records) /\ Len(ring') = Len(ring) - 1
           /\ 1 \in 1 .. Len(ring)
           /\ \A i \in 1 .. Len(ring') :
                 i + 1 \in 1 .. Len(ring) /\ ring'[i] = ring[i + 1]
  <1> DEFINE o == ConvertedBy(ring[1].event)
             s == register[o]
             x == [streams[s] EXCEPT !.buf = Append(@, ring[1])]
  <1>1. /\ ring \in Seq(Records) /\ ring # <<>> /\ ring' = Tail(ring)
        /\ Head(ring) = ring[1]
    BY DEF TypeOK, Dispatch
  <1>2. /\ 1 \in 1 .. Len(ring) /\ ring[1] \in Records
        /\ ring' \in Seq(Records) /\ Len(ring') = Len(ring) - 1
        /\ \A i \in 1 .. Len(ring') :
              i + 1 \in 1 .. Len(ring) /\ ring'[i] = ring[i + 1]
    BY <1>1
  <1>3. o \in Owners
    BY <1>2 DEF Traces
  <1>4. CASE streams' = streams
    <2>1. StreamsKeep
      BY <1>4, StreamFacts DEF StreamsKeep, TypeOK
    <2> QED
      BY <1>2, <1>4, <2>1
  <1>5. CASE /\ s # 0 /\ streams[s].state = "open"
             /\ Len(streams[s].buf) < streams[s].capacity
             /\ streams' = [streams EXCEPT ![s] = x]
    <2>1. s \in StreamIds /\ streams[s].owner = o
      BY <1>3, <1>5 DEF TypeOK
    <2>2. /\ Append(streams[s].buf, ring[1]) \in Seq(Records)
          /\ Len(Append(streams[s].buf, ring[1])) = Len(streams[s].buf) + 1
      BY <1>2, <2>1, StreamFacts, AppendProperties
    <2>3. /\ x \in StreamType /\ x.owner = streams[s].owner
          /\ x.filter = streams[s].filter /\ x.capacity = streams[s].capacity
          /\ x.buf = Append(streams[s].buf, ring[1])
      BY <2>1, <2>2, StreamFacts DEF StreamType
    <2>4. Len(x.buf) <= x.capacity
      <3>1. Len(streams[s].buf) \in Nat /\ streams[s].capacity \in Nat
        BY <2>1, StreamFacts
      <3>2. Len(streams[s].buf) + 1 <= streams[s].capacity
        BY <1>5, <3>1
      <3> QED
        BY <2>2, <2>3, <3>2
    <2>5. /\ streams' = [streams EXCEPT ![s] = x]
          /\ s \in StreamIds
      BY <1>5, <2>1
    <2> HIDE DEF x, s, o
    <2>6. /\ StreamsKeep
          /\ \A q \in StreamIds : streams'[q] = IF q = s THEN x ELSE streams[q]
      BY <2>3, <2>4, <2>5, ChangeOne
    <2>7. \A q \in StreamIds :
             \/ streams'[q].buf = streams[q].buf
             \/ /\ streams[q].owner = o
                /\ streams'[q].buf = Append(streams[q].buf, ring[1])
      BY <2>1, <2>3, <2>6
    <2> QED
      BY <1>2, <2>6, <2>7 DEF o
  <1> QED
    BY <1>1, <1>4, <1>5 DEF Dispatch

LEMMA PollKeeps ==
    ASSUME TypeOK, NEW s \in StreamIds, Poll(s) \/ PollNone(s) \/ Drop(s)
    PROVE  /\ StreamsKeep
           /\ \A q \in StreamIds :
                 \/ streams'[q].buf = streams[q].buf
                 \/ streams[q].buf # <<>> /\ streams'[q].buf = Tail(streams[q].buf)
                 \/ streams'[q].buf = <<>>
           /\ ring' = ring
  <1> DEFINE Changed(x) == streams' = [streams EXCEPT ![s] = x]
  <1>1. ring' = ring
    BY DEF Poll, PollNone, Drop
  <1>2. CASE Poll(s)
    <2> DEFINE x == [streams[s] EXCEPT !.buf = Tail(@)]
    <2>1. /\ streams[s].buf \in Seq(Records) /\ streams[s].buf # <<>>
          /\ Len(Tail(streams[s].buf)) = Len(streams[s].buf) - 1
          /\ Tail(streams[s].buf) \in Seq(Records)
      BY <1>2, StreamFacts, HeadTailProperties DEF Poll
    <2>2. /\ x \in StreamType /\ x.owner = streams[s].owner
          /\ x.filter = streams[s].filter /\ x.capacity = streams[s].capacity
          /\ x.buf = Tail(streams[s].buf)
      BY <2>1, StreamFacts DEF StreamType
    <2>3. Len(x.buf) <= x.capacity
      BY <2>1, <2>2, StreamFacts
    <2>4. Changed(x)
      BY <1>2 DEF Poll
    <2> HIDE DEF x
    <2>5. /\ StreamsKeep
          /\ \A q \in StreamIds : streams'[q] = IF q = s THEN x ELSE streams[q]
      BY <2>2, <2>3, <2>4, ChangeOne
    <2> QED
      BY <1>1, <2>1, <2>2, <2>5
  <1>3. CASE PollNone(s)
    <2> DEFINE x == [streams[s] EXCEPT !.state = "ended"]
    <2>1. /\ x \in StreamType /\ x.owner = streams[s].owner
          /\ x.filter = streams[s].filter /\ x.capacity = streams[s].capacity
          /\ x.buf = streams[s].buf
      BY StreamFacts DEF StreamType
    <2>2. Len(x.buf) <= x.capacity
      BY <2>1, StreamFacts
    <2>3. Changed(x)
      BY <1>3 DEF PollNone
    <2> HIDE DEF x
    <2>4. /\ StreamsKeep
          /\ \A q \in StreamIds : streams'[q] = IF q = s THEN x ELSE streams[q]
      BY <2>1, <2>2, <2>3, ChangeOne
    <2> QED
      BY <1>1, <2>1, <2>4
  <1>4. CASE Drop(s)
    <2> DEFINE x == [streams[s] EXCEPT !.state = "dropped", !.buf = <<>>]
    <2>1. /\ x \in StreamType /\ x.owner = streams[s].owner
          /\ x.filter = streams[s].filter /\ x.capacity = streams[s].capacity
          /\ x.buf = <<>>
      BY StreamFacts, EmptySeq DEF StreamType
    <2>2. Len(x.buf) <= x.capacity
      BY <2>1, StreamFacts
    <2>3. Changed(x)
      BY <1>4 DEF Drop
    <2> HIDE DEF x
    <2>4. /\ StreamsKeep
          /\ \A q \in StreamIds : streams'[q] = IF q = s THEN x ELSE streams[q]
      BY <2>1, <2>2, <2>3, ChangeOne
    <2> QED
      BY <1>1, <2>1, <2>4
  <1> QED
    BY <1>2, <1>3, <1>4

(* Register adds a stream; by then every other step was taken. *)
NewStream == [owner |-> call.owner, filter |-> call.filter,
              capacity |-> call.capacity, buf |-> <<>>, state |-> "open"]

LEMMA RegisterFacts ==
    ASSUME TypeOK, Progress, Register
    PROVE  /\ Calling /\ call.todo = {"register"} /\ call' = NoCall
           /\ NewStream \in StreamType
           /\ streams' \in Seq(StreamType)
           /\ Len(streams') = Len(streams) + 1 /\ Len(streams) \in Nat
           /\ \A s \in StreamIds : streams'[s] = streams[s]
           /\ streams'[Len(streams) + 1] = NewStream
           /\ register' = [register EXCEPT ![call.owner] = Len(streams) + 1]
           /\ UNCHANGED <<bpfx, calls, FILTER, CONFIG, loaded, links, ring>>
  <1>1. /\ At("register") /\ call' = NoCall
        /\ streams' = Append(streams, NewStream)
        /\ register' = [register EXCEPT ![call.owner] = Len(streams) + 1]
        /\ UNCHANGED <<bpfx, calls, FILTER, CONFIG, loaded, links, ring>>
    BY DEF Register, NewStream
  <1>2. Calling
    BY <1>1 DEF At, Calling
  <1>3. call.todo = {"register"}
    BY <1>1, <1>2, CallFacts, AtFacts
  <1>4. call.capacity \in Capacities \ {0}
    BY <1>2, <1>3, CallFacts DEF Progress
  <1>5. NewStream \in StreamType
    BY <1>2, <1>4, CallFacts, EmptySeq DEF NewStream, StreamType
  <1>6. streams \in Seq(StreamType)
    BY DEF TypeOK
  <1> QED
    BY <1>1, <1>2, <1>3, <1>5, <1>6, AppendProperties, LenProperties
    DEF StreamIds

(* What Next does. *)
LEMMA NextIsOneOf ==
    [Next]_vars =>
        \/ New
        \/ \E o \in Owners : \E f \in Filters[o], c \in Capacities :
              Subscribe(o, f, c)
        \/ FailedStep
        \/ ChannelMade
        \/ FilterWritten
        \/ ConfigWritten
        \/ \E p \in Programs : ProgramAttached(p)
        \/ Register
        \/ \E t \in Threads, hook \in links, in \in Inputs : Fire(t, hook, in)
        \/ Run
        \/ Dispatch
        \/ Ends
        \/ \E s \in StreamIds : Poll(s) \/ PollNone(s) \/ Drop(s)
        \/ UNCHANGED vars
  BY CallStepIs DEF Next

(* What a program that fires adds to the ring. *)
LEMMA FireFacts ==
    ASSUME TypeOK, NEW t \in Threads, NEW hook \in links, NEW in \in Inputs,
           Fire(t, hook, in)
    PROVE  /\ hook \in Hooks \ RenameHooks
           /\ hook \in OwnedBy(ConvertedBy(EventType[hook]))
           /\ ring' \in Seq(Records) /\ Len(ring') = Len(ring) + 1
           /\ Len(ring) \in Nat /\ Len(ring) < RingSize
           /\ \A i \in 1 .. Len(ring) : ring'[i] = ring[i]
           /\ ring'[Len(ring) + 1].event = EventType[hook]
           /\ ring'[Len(ring) + 1].thread = t
           /\ ring'[Len(ring) + 1].mode = in.mode
           /\ UNCHANGED <<runtimeVars, streams>>
  <1> DEFINE o == ConvertedBy(EventType[hook])
             e == [event |-> EventType[hook], thread |-> t, mode |-> in.mode]
  <1>1. /\ hook \in links \ (PathPrograms \cup RenameHooks)
        /\ Len(ring) < RingSize
        /\ ring' = Append(ring, e)
        /\ UNCHANGED <<runtimeVars, streams>>
    BY DEF Fire
  <1>2. hook \in Hooks \ RenameHooks /\ hook \in OwnedBy(o)
    BY <1>1 DEF TypeOK, Programs, OwnedBy
  <1>3. in.mode \in FileTypes \cup {"none"}
    BY SubscribeAssumption DEF InputType
  <1>4. /\ e \in Records
        /\ e.event = EventType[hook] /\ e.thread = t /\ e.mode = in.mode
    BY <1>2, <1>3 DEF Records
  <1> HIDE DEF e
  <1>5. ring \in Seq(Records)
    BY DEF TypeOK
  <1>6. /\ ring' \in Seq(Records) /\ Len(ring') = Len(ring) + 1
        /\ Len(ring) \in Nat
        /\ \A i \in 1 .. Len(ring) : ring'[i] = ring[i]
        /\ ring'[Len(ring) + 1] = e
    BY <1>1, <1>4, <1>5, AppendProperties, LenProperties
  <1> QED
    BY <1>1, <1>2, <1>4, <1>6

LEMMA NextTypeOK ==
    ASSUME TypeOK, Traces, Progress, [Next]_vars
    PROVE  TypeOK'
  <1>1. ASSUME NEW o \in Owners, NEW f \in Filters[o], NEW c \in Capacities,
               Subscribe(o, f, c)
        PROVE  TypeOK'
    <2>1. call' = [owner |-> o, filter |-> f, capacity |-> c,
                   todo |-> StepsOf(o, f)]
      BY <1>1 DEF Subscribe
    <2>2. call' \in [owner : Owners, filter : AllFilters,
                     capacity : Capacities, todo : SUBSET Steps]
      BY <2>1, StepsFacts DEF AllFilters
    <2>3. calls' \in [Owners -> Nat]
      BY <1>1 DEF TypeOK, Subscribe
    <2> QED
      BY <1>1, <2>1, <2>2, <2>3 DEF TypeOK, Subscribe, StreamIds
  <1>2. ASSUME FailedStep
        PROVE  TypeOK'
    BY <1>2 DEF TypeOK, FailedStep, StreamIds
  <1>3. ASSUME ChannelMade
        PROVE  TypeOK'
    <2>1. Calling
      BY <1>3 DEF ChannelMade, At, Calling
    <2> QED
      BY <1>3, <2>1, CallFacts, GoesFacts DEF TypeOK, ChannelMade, StreamIds
  <1>4. ASSUME FilterWritten
        PROVE  TypeOK'
    <2>1. Calling
      BY <1>4 DEF FilterWritten, At, Calling
    <2>2. call.filter.filter \in {f.filter : f \in AllFilters}
      BY <2>1, CallFacts
    <2>3. FILTER' \in [Owners -> {NoKey} \cup {f.filter : f \in AllFilters}]
      BY <1>4, <2>1, <2>2, CallFacts DEF TypeOK, FilterWritten
    <2> QED
      BY <1>4, <2>1, <2>3, CallFacts, GoesFacts
      DEF TypeOK, FilterWritten, StreamIds
  <1>5. ASSUME ConfigWritten
        PROVE  TypeOK'
    <2>1. Calling
      BY <1>5 DEF ConfigWritten, At, Calling
    <2>2. call.owner = "File"
      BY <1>5, <2>1, CallFacts, StepsFacts DEF ConfigWritten, At, Progress
    <2>3. CONFIG' \subseteq FileTypes
      BY <1>5, <2>1, <2>2, CallFacts, SubscribeAssumption
      DEF ConfigWritten, IsFilter
    <2> QED
      BY <1>5, <2>1, <2>3, CallFacts, GoesFacts
      DEF TypeOK, ConfigWritten, StreamIds
  <1>6. ASSUME NEW p \in Programs, ProgramAttached(p)
        PROVE  TypeOK'
    <2>1. Calling
      BY <1>6 DEF ProgramAttached, At, Calling
    <2> QED
      BY <1>6, <2>1, CallFacts, GoesFacts DEF TypeOK, ProgramAttached, StreamIds
  <1>7. ASSUME Register
        PROVE  TypeOK'
    <2>1. \A s \in 1 .. Len(streams') :
             /\ streams'[s].filter \in Filters[streams'[s].owner]
             /\ Len(streams'[s].buf) <= streams'[s].capacity
      <3> SUFFICES ASSUME NEW s \in 1 .. Len(streams')
                   PROVE  /\ streams'[s].filter \in Filters[streams'[s].owner]
                          /\ Len(streams'[s].buf) <= streams'[s].capacity
        OBVIOUS
      <3>1. s \in StreamIds \/ s = Len(streams) + 1
        BY <1>7, RegisterFacts DEF StreamIds
      <3>2. CASE s \in StreamIds
        BY <1>7, <3>2, RegisterFacts, StreamFacts
      <3>3. CASE s = Len(streams) + 1
        <4>1. /\ call.filter \in Filters[call.owner]
              /\ call.capacity \in Nat
          BY <1>7, RegisterFacts, CallFacts, SubscribeAssumption
        <4>2. streams'[s] = NewStream
          BY <1>7, <3>3, RegisterFacts
        <4> QED
          BY <4>1, <4>2, EmptySeq DEF NewStream
      <3> QED
        BY <3>1, <3>2, <3>3
    <2>2. /\ register' \in [Owners -> Nat]
          /\ \A o \in Owners :
                register'[o] # 0 => /\ register'[o] \in 1 .. Len(streams')
                                    /\ streams'[register'[o]].owner = o
      <3>1. call.owner \in Owners
        BY <1>7, RegisterFacts, CallFacts
      <3>2. register' \in [Owners -> Nat]
        <4>1. /\ register' = [register EXCEPT ![call.owner] = Len(streams) + 1]
              /\ Len(streams) + 1 \in Nat
          BY <1>7, RegisterFacts
        <4> QED
          BY <4>1 DEF TypeOK
      <3>3. ASSUME NEW o \in Owners, register'[o] # 0
            PROVE  /\ register'[o] \in 1 .. Len(streams')
                   /\ streams'[register'[o]].owner = o
        <4>1. CASE o = call.owner
          <5>1. register'[o] = Len(streams) + 1
            BY <1>7, <4>1, RegisterFacts DEF TypeOK
          <5> QED
            BY <1>7, <4>1, <5>1, RegisterFacts DEF NewStream
        <4>2. CASE o # call.owner
          <5>1. register'[o] = register[o]
            BY <1>7, <4>2, RegisterFacts DEF TypeOK
          <5>2. register[o] \in StreamIds /\ streams[register[o]].owner = o
            BY <3>3, <5>1 DEF TypeOK
          <5> QED
            BY <1>7, <5>1, <5>2, RegisterFacts DEF StreamIds
        <4> QED
          BY <4>1, <4>2
      <3> QED
        BY <3>2, <3>3
    <2> QED
      BY <1>7, <2>1, <2>2, RegisterFacts DEF TypeOK, StreamIds
  <1>8. ASSUME NEW t \in Threads, NEW hook \in links, NEW in \in Inputs,
               Fire(t, hook, in)
        PROVE  TypeOK'
    <2>1. /\ ring' \in Seq(Records) /\ Len(ring') = Len(ring) + 1
          /\ Len(ring) \in Nat /\ Len(ring) < RingSize
          /\ UNCHANGED <<runtimeVars, streams>>
      BY <1>8, FireFacts
    <2>2. Len(ring') <= RingSize
      BY <2>1, SubscribeAssumption
    <2> QED
      BY <2>1, <2>2 DEF TypeOK, StreamIds, runtimeVars
  <1>9. ASSUME StreamsKeep, UNCHANGED runtimeVars, ring' \in Seq(Records),
               Len(ring') <= RingSize
        PROVE  TypeOK'
    <2>1. StreamIds' = StreamIds
      BY <1>9 DEF StreamsKeep, StreamIds
    <2> QED
      BY <1>9, <2>1 DEF TypeOK, StreamsKeep, runtimeVars
  <1>10. ASSUME Dispatch
         PROVE  TypeOK'
    <2>1. Len(ring') <= RingSize
      BY <1>10, DispatchKeeps, LenProperties, SubscribeAssumption DEF TypeOK
    <2> QED
      BY <1>9, <1>10, <2>1, DispatchKeeps DEF Dispatch
  <1>11. ASSUME NEW s \in StreamIds, Poll(s) \/ PollNone(s) \/ Drop(s)
         PROVE  TypeOK'
    <2>1. UNCHANGED runtimeVars
      BY <1>11 DEF Poll, PollNone, Drop
    <2> QED
      BY <1>9, <1>11, <2>1, PollKeeps DEF TypeOK
  <1>12. ASSUME New \/ Run \/ UNCHANGED vars
         PROVE  TypeOK'
    BY <1>12 DEF TypeOK, New, Run, StreamIds, vars
  <1>13. ASSUME Ends
         PROVE  TypeOK'
    BY <1>13, EmptySeq, SubscribeAssumption DEF TypeOK, Ends, StreamIds
  <1> QED
    BY <1>1, <1>2, <1>3, <1>4, <1>5, <1>6, <1>7, <1>8, <1>10, <1>11, <1>12,
       <1>13, NextIsOneOf

-----------------------------------------------------------------------------
(* Traces. *)

(* Only Register adds a stream. *)
LEMMA NextKeepsStreams ==
    ASSUME TypeOK, Traces, [Next]_vars
    PROVE  Register \/ StreamsKeep
  <1>1. ASSUME UNCHANGED streams PROVE StreamsKeep
    BY <1>1, StreamFacts DEF StreamsKeep, TypeOK
  <1>2. ASSUME \/ New \/ Run \/ Ends \/ FailedStep \/ ChannelMade
               \/ FilterWritten \/ ConfigWritten
               \/ \E p \in Programs : ProgramAttached(p)
               \/ \E o \in Owners : \E f \in Filters[o], c \in Capacities :
                     Subscribe(o, f, c)
               \/ \E t \in Threads, hook \in links, in \in Inputs :
                     Fire(t, hook, in)
               \/ UNCHANGED vars
        PROVE  UNCHANGED streams
    BY <1>2 DEF New, Run, Ends, FailedStep, ChannelMade, FilterWritten,
                ConfigWritten, ProgramAttached, Subscribe, Fire, vars
  <1> QED
    BY <1>1, <1>2, DispatchKeeps, PollKeeps, NextIsOneOf

LEMMA KeptStreams ==
    ASSUME StreamsKeep
    PROVE  /\ StreamIds' = StreamIds
           /\ \A o : StreamsOf(o)' = StreamsOf(o)
  BY DEF StreamsKeep, StreamIds, StreamsOf

LEMMA CallsGrow ==
    ASSUME TypeOK, [Next]_vars, NEW o \in Owners
    PROVE  calls[o] # 0 => calls'[o] # 0
  <1>1. \/ UNCHANGED calls
        \/ \E q \in Owners : calls' = [calls EXCEPT ![q] = @ + 1]
    BY NextIsOneOf
    DEF New, Run, Ends, FailedStep, ChannelMade, FilterWritten, ConfigWritten,
        ProgramAttached, Subscribe, Fire, Register, Dispatch, Poll, PollNone,
        Drop, vars, runtimeVars
  <1> QED
    BY <1>1 DEF TypeOK

(* A call that has begun is in its type's count. *)
LEMMA CallOfType ==
    ASSUME TypeOK, Progress, Calling
    PROVE  /\ call.owner \in Owners /\ call.filter \in Filters[call.owner]
           /\ calls[call.owner] # 0
           /\ call.todo \subseteq StepsOf(call.owner, call.filter)
           /\ call.todo \cap Programs \subseteq OwnedBy(call.owner)
           /\ call.todo \subseteq Steps
  BY CallFacts, StepsFacts DEF Progress, ProgramsOf

LEMMA NextTraces ==
    ASSUME TypeOK, Traces, Progress, [Next]_vars
    PROVE  Traces'
  <1>1. ASSUME NEW p \in loaded'
        PROVE  \E o \in Owners : p \in OwnedBy(o) /\ calls'[o] # 0
    <2>1. \/ p \in loaded
          \/ Calling /\ p \in call.todo \cap Programs
      BY <1>1, NextIsOneOf
      DEF New, Run, Ends, FailedStep, ChannelMade, FilterWritten,
          ConfigWritten, ProgramAttached, At, Calling, Subscribe, Fire,
          Register, Dispatch, Poll, PollNone, Drop, vars, runtimeVars
    <2> QED
      BY <2>1, CallOfType, CallsGrow DEF Traces
  <1>2. ASSUME NEW s \in StreamIds'
        PROVE  calls'[streams'[s].owner] # 0
    <2>1. CASE StreamsKeep
      <3>1. s \in StreamIds /\ streams'[s].owner = streams[s].owner
        BY <1>2, <2>1, KeptStreams DEF StreamsKeep
      <3> QED
        BY <3>1, CallsGrow, StreamFacts DEF Traces
    <2>2. CASE Register
      <3>1. s \in StreamIds \/ s = Len(streams) + 1
        BY <1>2, <2>2, RegisterFacts DEF StreamIds
      <3>2. CASE s \in StreamIds
        BY <2>2, <3>2, RegisterFacts, StreamFacts DEF Traces
      <3>3. CASE s = Len(streams) + 1
        BY <2>2, <3>3, RegisterFacts, CallOfType DEF NewStream
      <3> QED
        BY <3>1, <3>2, <3>3
    <2> QED
      BY <2>1, <2>2, NextKeepsStreams
  <1>3. ASSUME NEW o \in Owners, FILTER'[o] # NoKey
        PROVE  calls'[o] # 0
    <2>1. \/ UNCHANGED FILTER
          \/ /\ Calling
             /\ FILTER' = [FILTER EXCEPT ![call.owner] = call.filter.filter]
      BY NextIsOneOf
      DEF New, Run, Ends, FailedStep, ChannelMade, FilterWritten,
          ConfigWritten, ProgramAttached, At, Calling, Subscribe, Fire,
          Register, Dispatch, Poll, PollNone, Drop, vars, runtimeVars
    <2>2. FILTER[o] # NoKey \/ (Calling /\ o = call.owner)
      BY <1>3, <2>1 DEF TypeOK
    <2> QED
      BY <2>2, CallOfType, CallsGrow DEF Traces
  <1>4. ASSUME CONFIG' # {}
        PROVE  "File" \in Owners /\ calls'["File"] # 0
    <2>1. \/ UNCHANGED CONFIG
          \/ Calling /\ "CONFIG" \in call.todo
      BY NextIsOneOf
      DEF New, Run, Ends, FailedStep, ChannelMade, FilterWritten,
          ConfigWritten, ProgramAttached, At, Calling, Subscribe, Fire,
          Register, Dispatch, Poll, PollNone, Drop, vars, runtimeVars
    <2>2. Calling /\ "CONFIG" \in call.todo => call.owner = "File"
      BY CallOfType, StepsFacts
    <2> QED
      BY <1>4, <2>1, <2>2, CallOfType, CallsGrow DEF Traces
  <1>5. ASSUME NEW i \in 1 .. Len(ring')
        PROVE  /\ ConvertedBy(ring'[i].event) \in Owners
               /\ calls'[ConvertedBy(ring'[i].event)] # 0
    <2>1. ASSUME NEW t \in Threads, NEW hook \in links, NEW in \in Inputs,
                 Fire(t, hook, in)
          PROVE  /\ ConvertedBy(ring'[i].event) \in Owners
                 /\ calls'[ConvertedBy(ring'[i].event)] # 0
      <3>1. /\ Len(ring) \in Nat /\ Len(ring') = Len(ring) + 1
            /\ \A j \in 1 .. Len(ring) : ring'[j] = ring[j]
            /\ ring'[Len(ring) + 1].event = EventType[hook]
            /\ hook \in OwnedBy(ConvertedBy(EventType[hook]))
        BY <2>1, FireFacts
      <3>2. i \in 1 .. Len(ring) \/ i = Len(ring) + 1
        BY <1>5, <3>1
      <3>3. CASE i \in 1 .. Len(ring)
        BY <3>1, <3>3, CallsGrow DEF Traces
      <3>4. CASE i = Len(ring) + 1
        <4>1. PICK o \in Owners : hook \in OwnedBy(o) /\ calls[o] # 0
          BY DEF Traces, TypeOK
        <4>2. o = ConvertedBy(EventType[hook])
          BY <3>1, <4>1, OwnedApart
        <4> QED
          BY <3>1, <3>4, <4>1, <4>2, CallsGrow
      <3> QED
        BY <3>2, <3>3, <3>4
    <2>2. ASSUME Dispatch
          PROVE  /\ ConvertedBy(ring'[i].event) \in Owners
                 /\ calls'[ConvertedBy(ring'[i].event)] # 0
      <3>1. i + 1 \in 1 .. Len(ring) /\ ring'[i] = ring[i + 1]
        BY <1>5, <2>2, DispatchKeeps
      <3> QED
        BY <3>1, CallsGrow DEF Traces
    <2>3. ASSUME ring' = ring
          PROVE  /\ ConvertedBy(ring'[i].event) \in Owners
                 /\ calls'[ConvertedBy(ring'[i].event)] # 0
      BY <1>5, <2>3, CallsGrow DEF Traces
    <2>4. ~Ends
      <3>1. ASSUME Ends PROVE Len(ring') = 0
        BY <3>1 DEF Ends
      <3> QED
        BY <1>5, <3>1
    <2>5. \/ ring' = ring \/ Dispatch
          \/ \E t \in Threads, hook \in links, in \in Inputs : Fire(t, hook, in)
      BY <2>4, NextIsOneOf
      DEF New, Run, FailedStep, ChannelMade, FilterWritten, ConfigWritten,
          ProgramAttached, Subscribe, Register, Poll, PollNone, Drop, vars
    <2> QED
      BY <2>1, <2>2, <2>3, <2>5
  <1> QED
    BY <1>1, <1>2, <1>3, <1>4, <1>5 DEF Traces

-----------------------------------------------------------------------------
(* Progress, and what the first call of a type finds. *)

LEMMA GoesDone ==
    ASSUME TypeOK, Progress, NEW step, At(step), step # "register", Goes(step)
    PROVE  /\ Calling /\ Calling'
           /\ call'.owner = call.owner /\ call'.filter = call.filter
           /\ call'.capacity = call.capacity
           /\ call'.todo = call.todo \ {step}
           /\ "register" \in call'.todo
           /\ call'.todo \subseteq StepsOf(call'.owner, call'.filter)
           /\ Done' = Done \cup {step}
           /\ StepsOf(call.owner, call.filter)' = StepsOf(call.owner, call.filter)
  <1>1. Calling /\ step \in call.todo
    BY DEF At, Calling
  <1>2. /\ call'.owner = call.owner /\ call'.filter = call.filter
        /\ call'.capacity = call.capacity
        /\ call'.todo = call.todo \ {step}
    BY <1>1, GoesFacts
  <1>3. /\ "register" \in call.todo
        /\ call.todo \subseteq StepsOf(call.owner, call.filter)
    BY <1>1 DEF Progress
  <1>4. StepsOf(call.owner, call.filter)' = StepsOf(call.owner, call.filter)
    BY <1>2
  <1> QED
    BY <1>1, <1>2, <1>3, <1>4 DEF Done, Calling

(* The steps that are not part of a call. *)
LEMMA OutsideCall ==
    ASSUME TypeOK, Progress, [Next]_vars, Calling', call' = call
    PROVE  /\ UNCHANGED <<bpfx, call, calls, FILTER, CONFIG, loaded, links,
                          register>>
           /\ ~Register
  <1>1. Calling
    BY DEF Calling
  <1>2. ~FailedStep /\ ~Register
    BY DEF FailedStep, Register, Calling, NoCall
  <1>3. ~ChannelMade /\ ~FilterWritten /\ ~ConfigWritten
    <2>1. \A step : At(step) /\ Goes(step) => call' # call
      BY <1>1, GoesFacts DEF At
    <2> QED
      BY <2>1 DEF ChannelMade, FilterWritten, ConfigWritten
  <1>4. ~\E p \in Programs : ProgramAttached(p)
    <2>1. \A step : At(step) /\ Goes(step) => call' # call
      BY <1>1, GoesFacts DEF At
    <2> QED
      BY <2>1 DEF ProgramAttached
  <1>5. ~New /\ ~Run /\ ~Ends
    BY <1>1 DEF New, Run, Ends, Progress
  <1>6. ~\E o \in Owners : \E f \in Filters[o], c \in Capacities :
            Subscribe(o, f, c)
    BY <1>1 DEF Subscribe
  <1> QED
    BY <1>2, <1>3, <1>4, <1>5, <1>6, NextIsOneOf
    DEF Fire, Dispatch, Poll, PollNone, Drop, vars, runtimeVars

(* What can become of a call. *)
LEMMA CallCases ==
    ASSUME [Next]_vars, Calling'
    PROVE  \/ call' = call
           \/ \E o \in Owners : \E f \in Filters[o], c \in Capacities :
                 Subscribe(o, f, c)
           \/ ChannelMade \/ FilterWritten \/ ConfigWritten
           \/ \E p \in Programs : ProgramAttached(p)
  <1>1. call' # NoCall
    BY DEF Calling, NoCall
  <1> QED
    BY <1>1, NextIsOneOf
    DEF New, Run, Ends, FailedStep, Fire, Register, Dispatch, Poll, PollNone,
        Drop, vars, runtimeVars

LEMMA SubscribeFacts ==
    ASSUME TypeOK, NEW o \in Owners, NEW f \in Filters[o],
           NEW c \in Capacities, Subscribe(o, f, c)
    PROVE  /\ call'.owner = o /\ call'.filter = f /\ call'.capacity = c
           /\ call'.todo = StepsOf(o, f) /\ Done' = {}
           /\ calls'[o] = calls[o] + 1 /\ calls[o] \in Nat
           /\ \A q \in Owners : q # o => calls'[q] = calls[q]
           /\ ~Calling /\ bpfx = "idle"
           /\ UNCHANGED <<bpfx, FILTER, CONFIG, loaded, links, register,
                          streams, ring>>
  <1>1. /\ call' = [owner |-> o, filter |-> f, capacity |-> c,
                    todo |-> StepsOf(o, f)]
        /\ calls' = [calls EXCEPT ![o] = @ + 1]
    BY DEF Subscribe
  <1>2. Done' = {}
    BY <1>1 DEF Done
  <1> QED
    BY <1>1, <1>2 DEF Subscribe, TypeOK

LEMMA NextProgress ==
    ASSUME TypeOK, Traces, Progress, OneFileStream, [Next]_vars
    PROVE  Progress'
  <1> SUFFICES ASSUME Calling' PROVE Progress'
    BY DEF Progress
  <1>1. ASSUME NEW o \in Owners, NEW f \in Filters[o], NEW c \in Capacities,
               Subscribe(o, f, c)
        PROVE  Progress'
    <2>1. calls'[o] # 0
      BY <1>1, SubscribeFacts
    <2>2. {"channel", "register"} \subseteq StepsOf(o, f)
      BY StepsFacts
    <2> QED
      BY <1>1, <2>1, <2>2, SubscribeFacts DEF Progress
  <1>2. ASSUME call' = call
        PROVE  Progress'
    <2>1. /\ UNCHANGED <<bpfx, call, calls, FILTER, CONFIG, links>>
          /\ StreamsOf("File")' = StreamsOf("File")
      BY <1>2, OutsideCall, NextKeepsStreams, KeptStreams
    <2> QED
      BY <2>1 DEF Progress, Done, Calling
  <1>3. ASSUME ChannelMade
        PROVE  Progress'
    <2>1. /\ At("channel") /\ Goes("channel") /\ call.capacity # 0
          /\ UNCHANGED <<bpfx, calls, FILTER, CONFIG, links, streams>>
      BY <1>3 DEF ChannelMade
    <2>2. StreamsOf("File")' = StreamsOf("File")
      BY <2>1 DEF StreamsOf, StreamIds
    <2> QED
      BY <2>1, <2>2, GoesDone, ProgramsApart DEF Progress
  <1>4. ASSUME FilterWritten
        PROVE  Progress'
    <2>1. /\ At("FILTER") /\ Goes("FILTER")
          /\ FILTER' = [FILTER EXCEPT ![call.owner] = call.filter.filter]
          /\ UNCHANGED <<bpfx, calls, CONFIG, links, streams>>
      BY <1>4 DEF FilterWritten
    <2>2. StreamsOf("File")' = StreamsOf("File")
      BY <2>1 DEF StreamsOf, StreamIds
    <2>3. call'.capacity = 0 => "channel" \in call'.todo
      BY <2>1, GoesDone DEF Progress
    <2>4. FILTER'[call.owner] = call.filter.filter
      BY <2>1, GoesDone, CallFacts DEF TypeOK
    <2> QED
      BY <2>1, <2>2, <2>3, <2>4, GoesDone, ProgramsApart DEF Progress
  <1>5. ASSUME ConfigWritten
        PROVE  Progress'
    <2>1. /\ At("CONFIG") /\ Goes("CONFIG")
          /\ CONFIG' = call.filter.file_mode
          /\ UNCHANGED <<bpfx, calls, FILTER, links, streams>>
      BY <1>5 DEF ConfigWritten
    <2>2. StreamsOf("File")' = StreamsOf("File")
      BY <2>1 DEF StreamsOf, StreamIds
    <2> QED
      BY <2>1, <2>2, GoesDone, ProgramsApart DEF Progress
  <1>6. ASSUME NEW p \in Programs, ProgramAttached(p)
        PROVE  Progress'
    <2>1. /\ At(p) /\ Goes(p) /\ p \notin loaded /\ links' = links \cup {p}
          /\ UNCHANGED <<bpfx, calls, FILTER, CONFIG, streams>>
      BY <1>6 DEF ProgramAttached
    <2>2. StreamsOf("File")' = StreamsOf("File")
      BY <2>1 DEF StreamsOf, StreamIds
    <2>3. p = "file_open" => StreamsOf("File") = {}
      BY <2>1 DEF OneFileStream
    <2> QED
      BY <2>1, <2>2, <2>3, GoesDone, ProgramsApart DEF Progress
  <1> QED
    BY <1>1, <1>2, <1>3, <1>4, <1>5, <1>6, CallCases

(* A type without a call has left nothing. *)
LEMMA NothingBefore ==
    ASSUME TypeOK, Traces, NEW o \in Owners, calls[o] = 0
    PROVE  /\ StreamsOf(o) = {}
           /\ loaded \cap OwnedBy(o) = {} /\ links \cap OwnedBy(o) = {}
  <1>1. StreamsOf(o) = {}
    BY DEF Traces, StreamsOf
  <1>2. loaded \cap OwnedBy(o) = {}
    BY OwnedApart DEF Traces
  <1> QED
    BY <1>1, <1>2 DEF TypeOK

LEMMA NextFirstCall ==
    ASSUME TypeOK, Traces, Progress, FirstCall, [Next]_vars
    PROVE  FirstCall'
  <1> SUFFICES ASSUME Calling', calls'[call'.owner] = 1 PROVE FirstCall'
    BY DEF FirstCall
  <1>1. ASSUME NEW o \in Owners, NEW f \in Filters[o], NEW c \in Capacities,
               Subscribe(o, f, c)
        PROVE  FirstCall'
    <2>1. calls[o] = 0 /\ call'.owner = o /\ UNCHANGED <<links, streams>>
      BY <1>1, SubscribeFacts
    <2>2. StreamsOf(o) = {} /\ links \cap OwnedBy(o) = {}
      BY <2>1, NothingBefore
    <2>3. StreamsOf(o)' = StreamsOf(o)
      BY <2>1 DEF StreamsOf, StreamIds
    <2> QED
      BY <2>1, <2>2, <2>3 DEF FirstCall, StreamsOf, StreamIds
  <1>2. ASSUME call' = call
        PROVE  FirstCall'
    <2>1. /\ UNCHANGED <<call, calls, links>>
          /\ \A o : StreamsOf(o)' = StreamsOf(o)
      BY <1>2, OutsideCall, NextKeepsStreams, KeptStreams
    <2>2. StreamsOf(call.owner)' = StreamsOf(call.owner)
      BY <2>1 DEF StreamsOf
    <2> QED
      BY <2>1, <2>2 DEF FirstCall, Done, Calling
  <1>3. ASSUME NEW step, At(step), Goes(step), step # "register",
               UNCHANGED <<calls, streams>>,
               \/ UNCHANGED links
               \/ step \in Programs /\ links' = links \cup {step}
        PROVE  FirstCall'
    <2>1. /\ Calling /\ call'.owner = call.owner
          /\ call'.todo = call.todo \ {step} /\ Done' = Done \cup {step}
      BY <1>3, GoesDone
    <2>2. StreamsOf(call.owner)' = StreamsOf(call.owner)
      BY <1>3, <2>1 DEF StreamsOf, StreamIds
    <2>3. step \in Programs => call.todo \cap {"FILTER", "CONFIG"} = {}
      BY <1>3, <2>1, CallFacts, AtFacts
    <2>4. OwnedBy(call.owner)' = OwnedBy(call.owner)
      BY <2>1
    <2> QED
      BY <1>3, <2>1, <2>2, <2>3, <2>4 DEF FirstCall
  <1>4. ASSUME ChannelMade \/ FilterWritten \/ ConfigWritten
        PROVE  FirstCall'
    BY <1>3, <1>4 DEF ChannelMade, FilterWritten, ConfigWritten
  <1>5. ASSUME NEW p \in Programs, ProgramAttached(p)
        PROVE  FirstCall'
    BY <1>3, <1>5, ProgramsApart DEF ProgramAttached
  <1> QED
    BY <1>1, <1>2, <1>4, <1>5, CallCases

-----------------------------------------------------------------------------
(* One file stream. *)

LEMMA RegisterStreams ==
    ASSUME TypeOK, Progress, Register
    PROVE  /\ StreamIds' = StreamIds \cup {Len(streams) + 1}
           /\ \A o : StreamsOf(o)' = StreamsOf(o) \cup
                        (IF o = call.owner THEN {Len(streams) + 1} ELSE {})
  <1>1. StreamIds' = StreamIds \cup {Len(streams) + 1}
    BY RegisterFacts DEF StreamIds
  <1>2. /\ \A s \in StreamIds : streams'[s] = streams[s]
        /\ streams'[Len(streams) + 1].owner = call.owner
    BY RegisterFacts DEF NewStream
  <1> QED
    BY <1>1, <1>2 DEF StreamsOf

LEMMA NextOneFileStream ==
    ASSUME TypeOK, Traces, Progress, OneFileStream, [Next]_vars
    PROVE  OneFileStream'
  <1>1. loaded \subseteq loaded'
    BY NextIsOneOf
    DEF New, Run, Ends, FailedStep, ChannelMade, FilterWritten, ConfigWritten,
        ProgramAttached, Subscribe, Fire, Register, Dispatch, Poll, PollNone,
        Drop, vars, runtimeVars
  <1>2. CASE StreamsKeep
    BY <1>1, <1>2, KeptStreams DEF OneFileStream
  <1>3. CASE Register
    <2>1. CASE call.owner = "File"
      <3>1. "file_open" \in Done
        BY <1>3, <2>1, RegisterFacts, CallOfType, StepsFacts DEF Done
      <3>2. StreamsOf("File") = {} /\ "file_open" \in loaded
        BY <1>3, <3>1, RegisterFacts, ProgramsApart DEF Progress, TypeOK
      <3> QED
        BY <1>1, <1>3, <3>2, RegisterStreams DEF OneFileStream
    <2>2. CASE call.owner # "File"
      BY <1>1, <1>3, <2>2, RegisterStreams DEF OneFileStream
    <2> QED
      BY <2>1, <2>2
  <1> QED
    BY <1>2, <1>3, NextKeepsStreams

-----------------------------------------------------------------------------
(* What other calls leave alone. *)

(* A count of 1 is not the work of the step that reaches it, for a type     *)
(* that was called before.                                                  *)
LEMMA StillOne ==
    ASSUME TypeOK, [Next]_vars, NEW o \in Owners, calls[o] # 0, calls'[o] = 1
    PROVE  /\ calls[o] = 1
           /\ ~\E f \in Filters[o], c \in Capacities : Subscribe(o, f, c)
  <1>1. ~\E f \in Filters[o], c \in Capacities : Subscribe(o, f, c)
    BY SubscribeFacts
  <1>2. ASSUME NEW q \in Owners, NEW f \in Filters[q], NEW c \in Capacities,
               Subscribe(q, f, c)
        PROVE  calls'[o] = calls[o]
    BY <1>1, <1>2, SubscribeFacts
  <1>3. \/ UNCHANGED calls
        \/ \E q \in Owners : \E f \in Filters[q], c \in Capacities :
              Subscribe(q, f, c)
    BY NextIsOneOf
    DEF New, Run, Ends, FailedStep, ChannelMade, FilterWritten, ConfigWritten,
        ProgramAttached, Fire, Register, Dispatch, Poll, PollNone, Drop, vars,
        runtimeVars
  <1> QED
    BY <1>1, <1>2, <1>3

(* The programs a step attaches are those of its call. *)
LEMMA LinksOfCall ==
    ASSUME TypeOK, Progress, [Next]_vars
    PROVE  \/ links' = links
           \/ links' = {} /\ Ends
           \/ Calling /\ \E p \in OwnedBy(call.owner) : links' = links \cup {p}
  <1>1. ASSUME NEW p \in Programs, ProgramAttached(p)
        PROVE  Calling /\ p \in OwnedBy(call.owner) /\ links' = links \cup {p}
    BY <1>1, CallOfType DEF ProgramAttached, At, Calling
  <1> QED
    BY <1>1, NextIsOneOf
    DEF New, Run, Ends, FailedStep, ChannelMade, FilterWritten, ConfigWritten,
        Subscribe, Fire, Register, Dispatch, Poll, PollNone, Drop, vars,
        runtimeVars

LEMMA MapsOfCall ==
    ASSUME TypeOK, Progress, [Next]_vars
    PROVE  /\ \A o \in Owners :
                 FILTER'[o] = FILTER[o] \/ (Calling /\ o = call.owner)
           /\ CONFIG' = CONFIG \/ (Calling /\ call.owner = "File")
  <1>1. \/ UNCHANGED FILTER
        \/ /\ Calling
           /\ FILTER' = [FILTER EXCEPT ![call.owner] = call.filter.filter]
    BY NextIsOneOf
    DEF New, Run, Ends, FailedStep, ChannelMade, FilterWritten,
        ConfigWritten, ProgramAttached, At, Calling, Subscribe, Fire,
        Register, Dispatch, Poll, PollNone, Drop, vars, runtimeVars
  <1>2. \/ UNCHANGED CONFIG
        \/ Calling /\ "CONFIG" \in call.todo
    BY NextIsOneOf
    DEF New, Run, Ends, FailedStep, ChannelMade, FilterWritten,
        ConfigWritten, ProgramAttached, At, Calling, Subscribe, Fire,
        Register, Dispatch, Poll, PollNone, Drop, vars, runtimeVars
  <1>3. Calling /\ "CONFIG" \in call.todo => call.owner = "File"
    BY CallOfType, StepsFacts
  <1> QED
    BY <1>1, <1>2, <1>3 DEF TypeOK

(* A type with a stream and one call is out of reach of every step but the  *)
(* end.                                                                     *)
LEMMA Undisturbed ==
    ASSUME TypeOK, Traces, Progress, FirstCall, [Next]_vars,
           NEW s \in StreamIds, calls'[streams[s].owner] = 1
    PROVE  /\ calls[streams[s].owner] = 1
           /\ ~InCall(streams[s].owner)
           /\ FILTER'[streams[s].owner] = FILTER[streams[s].owner]
           /\ streams[s].owner = "File" => CONFIG' = CONFIG
           /\ \/ links' = {} /\ Ends
              \/ links' \cap OwnedBy(streams[s].owner)
                     = links \cap OwnedBy(streams[s].owner)
  <1> DEFINE o == streams[s].owner
  <1>1. o \in Owners /\ s \in StreamsOf(o)
    BY StreamFacts DEF StreamsOf
  <1>2. calls[o] = 1
    BY <1>1, StillOne DEF Traces
  <1>3. ~InCall(o)
    BY <1>1, <1>2 DEF FirstCall, InCall
  <1>4. ~(Calling /\ call.owner = o)
    BY <1>3 DEF InCall
  <1> HIDE DEF o
  <1>5. FILTER'[o] = FILTER[o] /\ (o = "File" => CONFIG' = CONFIG)
    BY <1>1, <1>4, MapsOfCall
  <1>6. ASSUME Calling, NEW p \in OwnedBy(call.owner), links' = links \cup {p}
        PROVE  links' \cap OwnedBy(o) = links \cap OwnedBy(o)
    <2>1. p \notin OwnedBy(o)
      BY <1>4, <1>6, OwnedApart
    <2> QED
      BY <1>6, <2>1
  <1>7. \/ links' = {} /\ Ends
        \/ links' \cap OwnedBy(o) = links \cap OwnedBy(o)
    BY <1>6, LinksOfCall
  <1> QED
    BY <1>2, <1>3, <1>5, <1>7 DEF o

(* What is done when the register is filled. *)
LEMMA RegisterDone ==
    ASSUME TypeOK, Progress, Register
    PROVE  /\ Done = StepsOf(call.owner, call.filter) \ {"register"}
           /\ FILTER[call.owner] = call.filter.filter
           /\ call.owner = "File" => CONFIG = call.filter.file_mode
           /\ ProgramsOf(call.owner, call.filter) \subseteq links
  <1>1. Calling /\ Done = StepsOf(call.owner, call.filter) \ {"register"}
    BY RegisterFacts DEF Done
  <1>2. call.owner \in Owners /\ call.filter \in Filters[call.owner]
    BY <1>1, CallFacts
  <1> QED
    BY <1>1, <1>2, StepsFacts, ProgramsApart DEF Progress, ProgramsOf

LEMMA NextOneCall ==
    ASSUME TypeOK, Traces, Progress, FirstCall, OneCall, [Next]_vars
    PROVE  OneCall'
  <1> DEFINE Fits(o, f) == /\ FILTER'[o] = f.filter
                           /\ o = "File" => CONFIG' = f.file_mode
                           /\ links' \cap OwnedBy(o) \subseteq ProgramsOf(o, f)
  <1> SUFFICES ASSUME NEW s \in StreamIds', calls'[streams'[s].owner] = 1
               PROVE  Fits(streams'[s].owner, streams'[s].filter)
    BY DEF OneCall
  <1>1. ASSUME s \in StreamIds, streams'[s].owner = streams[s].owner,
               streams'[s].filter = streams[s].filter
        PROVE  Fits(streams'[s].owner, streams'[s].filter)
    <2> DEFINE o == streams[s].owner
               f == streams[s].filter
    <2>1. /\ calls[o] = 1 /\ FILTER'[o] = FILTER[o]
          /\ o = "File" => CONFIG' = CONFIG
          /\ \/ links' = {}
             \/ links' \cap OwnedBy(o) = links \cap OwnedBy(o)
      BY <1>1, Undisturbed
    <2>2. /\ FILTER[o] = f.filter
          /\ o = "File" => CONFIG = f.file_mode
          /\ links \cap OwnedBy(o) \subseteq ProgramsOf(o, f)
      BY <1>1, <2>1 DEF OneCall
    <2> HIDE DEF o, f
    <2>3. Fits(o, f)
      BY <2>1, <2>2
    <2> QED
      BY <1>1, <2>3 DEF o, f
  <1>2. CASE StreamsKeep
    BY <1>1, <1>2, KeptStreams DEF StreamsKeep
  <1>3. CASE Register
    <2>1. CASE s \in StreamIds
      BY <1>1, <1>3, <2>1, RegisterFacts
    <2>2. CASE s = Len(streams) + 1
      <3>1. /\ streams'[s].owner = call.owner /\ streams'[s].filter = call.filter
            /\ Calling /\ UNCHANGED <<calls, FILTER, CONFIG, links>>
        BY <1>3, <2>2, RegisterFacts DEF NewStream
      <3>2. links \cap OwnedBy(call.owner) \subseteq
                ProgramsOf(call.owner, call.filter)
        <4>1. links \cap OwnedBy(call.owner) \subseteq Done
          BY <3>1 DEF FirstCall
        <4> QED
          BY <4>1 DEF Done, ProgramsOf, TypeOK
      <3>3. Fits(call.owner, call.filter)
        BY <1>3, <3>1, <3>2, RegisterDone
      <3> QED
        BY <3>1, <3>3
    <2> QED
      BY <1>3, <2>1, <2>2, RegisterStreams
  <1> QED
    BY <1>2, <1>3, NextKeepsStreams

LEMMA NextCoexist ==
    ASSUME TypeOK, Traces, Progress, FirstCall, Coexist, [Next]_vars
    PROVE  Coexist'
  <1> DEFINE Whole(o, f) ==
                 /\ Attached(o, f) \subseteq links'
                 /\ FILTER'[o] = f.filter
                 /\ o = "File" => /\ CONFIG' = f.file_mode
                                  /\ PathPrograms \subseteq links'
  <1> SUFFICES ASSUME NEW o \in Owners, register'[o] # 0, calls'[o] = 1
               PROVE  Whole(o, streams'[register'[o]].filter)
    BY DEF Coexist
  <1>1. ASSUME register'[o] = register[o],
               streams'[register[o]].filter = streams[register[o]].filter
        PROVE  Whole(o, streams'[register'[o]].filter)
    <2> DEFINE r == register[o]
               f == streams[r].filter
    <2>1. r \in StreamIds /\ streams[r].owner = o
      BY <1>1 DEF TypeOK
    <2>2. ~Ends
      BY DEF Ends
    <2>3. /\ calls[o] = 1 /\ FILTER'[o] = FILTER[o]
          /\ o = "File" => CONFIG' = CONFIG
          /\ links' \cap OwnedBy(o) = links \cap OwnedBy(o)
      BY <2>1, <2>2, Undisturbed
    <2>4. /\ Attached(o, f) \subseteq links /\ FILTER[o] = f.filter
          /\ o = "File" => CONFIG = f.file_mode /\ PathPrograms \subseteq links
      BY <1>1, <2>3 DEF Coexist
    <2>5. f \in Filters[o]
      BY <2>1, StreamFacts
    <2>6. ProgramsOf(o, f) \subseteq OwnedBy(o)
      BY <2>5, StepsFacts
    <2>7. ProgramsOf(o, f) =
             Attached(o, f) \cup (IF o = "File" THEN PathPrograms ELSE {})
      BY <2>5, StepsFacts
    <2> HIDE DEF f, r
    <2>8. Whole(o, f)
      BY <2>3, <2>4, <2>6, <2>7
    <2> QED
      BY <1>1, <2>8 DEF f, r
  <1>2. CASE StreamsKeep
    <2>1. ~Register
      BY <1>2, RegisterFacts DEF StreamsKeep
    <2>2. register'[o] = register[o]
      BY <2>1, NextIsOneOf
      DEF New, Run, Ends, FailedStep, ChannelMade, FilterWritten,
          ConfigWritten, ProgramAttached, Subscribe, Fire, Dispatch, Poll,
          PollNone, Drop, vars, runtimeVars
    <2> QED
      BY <1>1, <1>2, <2>2 DEF StreamsKeep, TypeOK
  <1>3. CASE Register
    <2>1. CASE o # call.owner
      <3>1. register'[o] = register[o]
        BY <1>3, <2>1, RegisterFacts DEF TypeOK
      <3> QED
        BY <1>1, <1>3, <3>1, RegisterFacts DEF TypeOK
    <2>2. CASE o = call.owner
      <3>1. /\ Calling /\ UNCHANGED <<FILTER, CONFIG, links>>
            /\ register'[o] = Len(streams) + 1
        BY <1>3, <2>2, RegisterFacts DEF TypeOK
      <3>2. streams'[register'[o]].filter = call.filter
        BY <1>3, <3>1, RegisterFacts DEF NewStream
      <3>3. ProgramsOf(o, call.filter) =
               Attached(o, call.filter) \cup
                   (IF o = "File" THEN PathPrograms ELSE {})
        BY <2>2, <3>1, CallFacts, StepsFacts
      <3>4. Whole(o, call.filter)
        BY <1>3, <2>2, <3>1, <3>3, RegisterDone
      <3> QED
        BY <3>2, <3>4
    <2> QED
      BY <2>1, <2>2
  <1> QED
    BY <1>2, <1>3, NextKeepsStreams

-----------------------------------------------------------------------------
(* What is delivered. *)

(* A program of the mask that submits, with the maps of the filter, submits *)
(* what the filter asks for.                                                *)
LEMMA SubmittedIsAskedFor ==
    ASSUME NEW o \in Owners, NEW f \in Filters[o], NEW t, NEW in,
           NEW hook \in Attached(o, f) \ RenameHooks,
           FILTER[o] = f.filter, o = "File" => CONFIG = f.file_mode,
           Outcome(hook, [key |-> FILTER[o], config |-> CONFIG,
                          header |-> Header[t], input |-> in]) = "submit",
           NEW e, e.event = EventType[hook], e.thread = t, e.mode = in.mode
    PROVE  AskedFor(f, o, e)
  <1> DEFINE ctx == [key |-> FILTER[o], config |-> CONFIG,
                     header |-> Header[t], input |-> in]
  <1>1. /\ ctx.key = f.filter /\ ctx.header = Header[t]
        /\ ctx.input.mode = in.mode
        /\ o = "File" => ctx.config = f.file_mode
        /\ Outcome(hook, ctx) = "submit"
    OBVIOUS
  <1>2. o \in DOMAIN MaskFlags /\ IsFilter(o, f)
    BY SubscribeAssumption
  <1>3. hook \in Hooks /\ ConvertedBy(EventType[hook]) = o
    BY <1>2, AttachedByOwner
  <1>4. hook # "vfs_rename_retval"
    BY DEF RenameHooks
  <1>5. Operation[e.event] \in f.mask
    BY <1>2, <1>4, MaskHasOperation
  <1> HIDE DEF ctx
  <1>6. ASSUME o = "File" PROVE e.mode \in f.file_mode
    <2>1. hook \in FileHooks /\ hook # "__vm_munmap"
      BY <1>3, <1>6, HooksAre DEF FileHooks, NetworkHooks, ProcessHooks, MemoryHooks
    <2> QED
      BY <1>1, <1>3, <1>4, <1>6, <2>1, SubmitsWhatIsWanted
  <1>7. ASSUME e.event # "MemoryUnMap"
        PROVE  KeyMatches(f.filter, Header[e.thread])
    <2>1. hook # "__vm_munmap"
      BY <1>7 DEF EventType
    <2>2. Wanted(ctx)
      BY <1>1, <1>3, <1>4, <2>1, SubmitsWhatIsWanted
    <2>3. ctx.key.kind \in DOMAIN KeyField \cup {"None"}
      BY <1>1, <1>2 DEF IsFilter
    <2>4. KeyMatches(ctx.key, ctx.header)
      BY <2>2, <2>3, WantedMatches
    <2> QED
      BY <1>1, <2>4
  <1> QED
    BY <1>5, <1>6, <1>7 DEF AskedFor, OperationMatches

(* The filter a program of the first call runs with. *)
LEMMA FiresAsked ==
    ASSUME TypeOK, Traces, Progress, FirstCall, OneCall,
           NEW t \in Threads, NEW hook \in links, NEW in \in Inputs,
           Fire(t, hook, in),
           NEW o, o = ConvertedBy(EventType[hook]), calls[o] = 1,
           NEW e, e.event = EventType[hook], e.thread = t, e.mode = in.mode
    PROVE  /\ InCall(o) => AskedFor(call.filter, o, e)
           /\ \A s \in StreamsOf(o) : AskedFor(streams[s].filter, o, e)
  <1>1. /\ hook \in Hooks \ RenameHooks /\ hook \in OwnedBy(o)
        /\ hook \notin PathPrograms
    BY FireFacts, ProgramsApart
  <1>2. Outcome(hook, [key |-> FILTER[o], config |-> CONFIG,
                       header |-> Header[t], input |-> in]) = "submit"
    BY DEF Fire
  <1>3. ASSUME InCall(o)
        PROVE  AskedFor(call.filter, o, e)
    <2>1. /\ Calling /\ call.owner = o /\ o \in Owners
          /\ call.filter \in Filters[o]
      BY <1>3, CallFacts DEF InCall
    <2>2. /\ hook \in Done
          /\ call.todo \cap {"FILTER", "CONFIG"} = {}
      BY <1>1, <2>1 DEF FirstCall
    <2>3. /\ FILTER[o] = call.filter.filter
          /\ o = "File" => CONFIG = call.filter.file_mode
      BY <2>1, <2>2, StepsFacts DEF Progress, Done
    <2>4. hook \in Attached(o, call.filter) \ RenameHooks
      <3>1. hook \in ProgramsOf(o, call.filter)
        BY <1>1, <2>1, <2>2 DEF Done, ProgramsOf, Programs
      <3> QED
        BY <1>1, <2>1, <3>1, StepsFacts
    <2> QED
      BY <1>2, <2>1, <2>3, <2>4, SubmittedIsAskedFor
  <1>4. ASSUME NEW s \in StreamsOf(o)
        PROVE  AskedFor(streams[s].filter, o, e)
    <2>1. /\ s \in StreamIds /\ streams[s].owner = o /\ o \in Owners
          /\ streams[s].filter \in Filters[o]
      BY StreamFacts DEF StreamsOf
    <2>2. /\ FILTER[o] = streams[s].filter.filter
          /\ o = "File" => CONFIG = streams[s].filter.file_mode
          /\ links \cap OwnedBy(o) \subseteq ProgramsOf(o, streams[s].filter)
      BY <2>1 DEF OneCall
    <2>3. hook \in Attached(o, streams[s].filter) \ RenameHooks
      BY <1>1, <2>1, <2>2, StepsFacts
    <2> QED
      BY <1>2, <2>1, <2>2, <2>3, SubmittedIsAskedFor
  <1> QED
    BY <1>3, <1>4

LEMMA NextRingIsFiltered ==
    ASSUME TypeOK, Traces, Progress, FirstCall, OneCall, RingIsFiltered,
           [Next]_vars
    PROVE  RingIsFiltered'
  <1> DEFINE Good(o, e) ==
                 /\ Calling' /\ call'.owner = o => AskedFor(call'.filter, o, e)
                 /\ \A s \in StreamIds' :
                       streams'[s].owner = o => AskedFor(streams'[s].filter, o, e)
  <1> SUFFICES ASSUME NEW i \in 1 .. Len(ring'),
                      calls'[ConvertedBy(ring'[i].event)] = 1
               PROVE  Good(ConvertedBy(ring'[i].event), ring'[i])
    BY DEF RingIsFiltered, InCall, StreamsOf
  <1>1. ASSUME NEW j \in 1 .. Len(ring), ring'[i] = ring[j]
        PROVE  Good(ConvertedBy(ring'[i].event), ring'[i])
    <2> DEFINE e == ring[j]
               o == ConvertedBy(ring[j].event)
    <2>1. o \in Owners /\ calls[o] # 0
      BY DEF Traces
    <2>2. calls[o] = 1 /\ ~\E f \in Filters[o], c \in Capacities : Subscribe(o, f, c)
      BY <1>1, <2>1, StillOne
    <2>3. /\ InCall(o) => AskedFor(call.filter, o, e)
          /\ \A s \in StreamsOf(o) : AskedFor(streams[s].filter, o, e)
      BY <2>2 DEF RingIsFiltered
    <2> HIDE DEF e, o
    <2>4. ASSUME Calling', call'.owner = o
          PROVE  InCall(o) /\ call'.filter = call.filter
      <3>1. CASE call' = call
        BY <2>4, <3>1 DEF InCall, Calling
      <3>2. ASSUME NEW q \in Owners, NEW f \in Filters[q], NEW c \in Capacities,
                   Subscribe(q, f, c)
            PROVE  FALSE
        BY <2>2, <2>4, <3>2, SubscribeFacts
      <3>3. ASSUME NEW step, At(step), Goes(step)
            PROVE  InCall(o) /\ call'.filter = call.filter
        BY <2>4, <3>3, GoesFacts DEF InCall, At, Calling
      <3> QED
        BY <2>4, <3>1, <3>2, <3>3, CallCases
        DEF ChannelMade, FilterWritten, ConfigWritten, ProgramAttached
    <2>5. ASSUME NEW s \in StreamIds', streams'[s].owner = o
          PROVE  AskedFor(streams'[s].filter, o, e)
      <3>1. CASE StreamsKeep
        <4>1. s \in StreamsOf(o) /\ s \in StreamIds
          BY <2>5, <3>1, KeptStreams DEF StreamsOf, StreamsKeep
        <4>2. streams'[s].filter = streams[s].filter
          BY <3>1, <4>1 DEF StreamsKeep
        <4> QED
          BY <2>3, <4>1, <4>2
      <3>2. CASE Register
        <4>1. CASE s \in StreamIds
          <5>1. streams'[s] = streams[s]
            BY <3>2, <4>1, RegisterFacts
          <5>2. s \in StreamsOf(o)
            BY <2>5, <4>1, <5>1 DEF StreamsOf
          <5> QED
            BY <2>3, <5>1, <5>2
        <4>2. CASE s = Len(streams) + 1
          <5>1. /\ Calling /\ streams'[s].filter = call.filter
                /\ streams'[s].owner = call.owner
            BY <3>2, <4>2, RegisterFacts DEF NewStream
          <5> QED
            BY <2>3, <2>5, <5>1 DEF InCall
        <4> QED
          BY <2>5, <3>2, <4>1, <4>2, RegisterStreams
      <3> QED
        BY <3>1, <3>2, NextKeepsStreams
    <2>6. Good(o, e)
      BY <2>3, <2>4, <2>5
    <2> QED
      BY <1>1, <2>6 DEF o, e
  <1>2. ASSUME NEW t \in Threads, NEW hook \in links, NEW in \in Inputs,
               Fire(t, hook, in), i = Len(ring) + 1
        PROVE  Good(ConvertedBy(ring'[i].event), ring'[i])
    <2> DEFINE o == ConvertedBy(EventType[hook])
    <2>1. /\ ring'[i].event = EventType[hook] /\ ring'[i].thread = t
          /\ ring'[i].mode = in.mode
          /\ UNCHANGED <<runtimeVars, streams>>
      BY <1>2, FireFacts
    <2>2. calls[o] = 1
      BY <2>1 DEF runtimeVars
    <2>3. /\ InCall(o) => AskedFor(call.filter, o, ring'[i])
          /\ \A s \in StreamsOf(o) : AskedFor(streams[s].filter, o, ring'[i])
      BY <1>2, <2>1, <2>2, FiresAsked
    <2>4. /\ Calling' = Calling /\ StreamIds' = StreamIds
          /\ call' = call /\ streams' = streams
      BY <2>1 DEF Calling, StreamIds, runtimeVars
    <2>5. Good(o, ring'[i])
      BY <2>3, <2>4 DEF InCall, StreamsOf
    <2> QED
      BY <2>1, <2>5
  <1>3. ASSUME NEW t \in Threads, NEW hook \in links, NEW in \in Inputs,
               Fire(t, hook, in)
        PROVE  Good(ConvertedBy(ring'[i].event), ring'[i])
    <2>1. /\ Len(ring) \in Nat /\ Len(ring') = Len(ring) + 1
          /\ \A j \in 1 .. Len(ring) : ring'[j] = ring[j]
      BY <1>3, FireFacts
    <2>2. i \in 1 .. Len(ring) \/ i = Len(ring) + 1
      BY <2>1
    <2> QED
      BY <1>1, <1>2, <1>3, <2>1, <2>2
  <1>4. ASSUME Dispatch
        PROVE  Good(ConvertedBy(ring'[i].event), ring'[i])
    <2>1. i + 1 \in 1 .. Len(ring) /\ ring'[i] = ring[i + 1]
      BY <1>4, DispatchKeeps
    <2> QED
      BY <1>1, <2>1
  <1>5. ASSUME ring' = ring
        PROVE  Good(ConvertedBy(ring'[i].event), ring'[i])
    BY <1>1, <1>5
  <1>6. ~Ends
    <2>1. ASSUME Ends PROVE Len(ring') = 0
      BY <2>1 DEF Ends
    <2> QED
      BY <2>1
  <1>7. \/ ring' = ring \/ Dispatch
        \/ \E t \in Threads, hook \in links, in \in Inputs : Fire(t, hook, in)
    BY <1>6, NextIsOneOf
    DEF New, Run, FailedStep, ChannelMade, FilterWritten, ConfigWritten,
        ProgramAttached, Subscribe, Register, Poll, PollNone, Drop, vars
  <1> QED
    BY <1>3, <1>4, <1>5, <1>7

LEMMA NextFirstIsFiltered ==
    ASSUME TypeOK, Traces, Progress, RingIsFiltered, FirstIsFiltered,
           [Next]_vars
    PROVE  FirstIsFiltered'
  <1> DEFINE Good(o, f, b) == \A i \in 1 .. Len(b) : AskedFor(f, o, b[i])
  <1> SUFFICES ASSUME NEW s \in StreamIds', calls'[streams'[s].owner] = 1
               PROVE  Good(streams'[s].owner, streams'[s].filter, streams'[s].buf)
    BY DEF FirstIsFiltered
  <1>1. ASSUME s \in StreamIds, streams'[s].owner = streams[s].owner
        PROVE  /\ calls[streams[s].owner] = 1
               /\ Good(streams[s].owner, streams[s].filter, streams[s].buf)
    <2>1. calls[streams[s].owner] = 1
      BY <1>1, StillOne, StreamFacts DEF Traces
    <2> QED
      BY <1>1, <2>1 DEF FirstIsFiltered
  <1>2. ASSUME s \in StreamIds, streams'[s].owner = streams[s].owner,
               streams'[s].filter = streams[s].filter,
               streams'[s].buf = streams[s].buf
        PROVE  Good(streams'[s].owner, streams'[s].filter, streams'[s].buf)
    BY <1>1, <1>2
  <1>3. ASSUME Dispatch
        PROVE  Good(streams'[s].owner, streams'[s].filter, streams'[s].buf)
    <2>1. /\ s \in StreamIds /\ streams'[s].owner = streams[s].owner
          /\ streams'[s].filter = streams[s].filter
      BY <1>3, DispatchKeeps, KeptStreams DEF StreamsKeep
    <2>2. CASE /\ streams[s].owner = ConvertedBy(ring[1].event)
               /\ streams'[s].buf = Append(streams[s].buf, ring[1])
      <3> DEFINE o == streams[s].owner
                 f == streams[s].filter
                 b == streams[s].buf
      <3>1. 1 \in 1 .. Len(ring) /\ ring[1] \in Records
        BY <1>3, DispatchKeeps DEF TypeOK
      <3>2. AskedFor(f, o, ring[1])
        BY <1>1, <2>1, <2>2, <3>1 DEF RingIsFiltered, StreamsOf
      <3>3. b \in Seq(Records) /\ Good(o, f, b)
        BY <1>1, <2>1, StreamFacts
      <3> HIDE DEF o, f, b
      <3>4. /\ Len(Append(b, ring[1])) = Len(b) + 1 /\ Len(b) \in Nat
            /\ \A i \in 1 .. Len(b) : Append(b, ring[1])[i] = b[i]
            /\ Append(b, ring[1])[Len(b) + 1] = ring[1]
        BY <3>1, <3>3, AppendProperties, LenProperties
      <3>5. ASSUME NEW i \in 1 .. Len(Append(b, ring[1]))
            PROVE  AskedFor(f, o, Append(b, ring[1])[i])
        <4>1. i \in 1 .. Len(b) \/ i = Len(b) + 1
          BY <3>4, <3>5
        <4> QED
          BY <3>2, <3>3, <3>4, <4>1
      <3>6. Good(o, f, Append(b, ring[1]))
        BY <3>5
      <3> QED
        BY <2>1, <2>2, <3>6 DEF o, f, b
    <2> QED
      BY <1>2, <1>3, <2>1, <2>2, DispatchKeeps
  <1>4. ASSUME NEW q \in StreamIds, Poll(q) \/ PollNone(q) \/ Drop(q)
        PROVE  Good(streams'[s].owner, streams'[s].filter, streams'[s].buf)
    <2>1. /\ s \in StreamIds /\ streams'[s].owner = streams[s].owner
          /\ streams'[s].filter = streams[s].filter
      BY <1>4, PollKeeps, KeptStreams DEF StreamsKeep
    <2>2. CASE streams'[s].buf = <<>>
      BY <2>2
    <2>3. CASE streams[s].buf # <<>> /\ streams'[s].buf = Tail(streams[s].buf)
      <3> DEFINE b == streams[s].buf
      <3>1. b \in Seq(Records)
        BY <2>1, StreamFacts
      <3>2. \A i \in 1 .. Len(Tail(b)) :
               i + 1 \in 1 .. Len(b) /\ Tail(b)[i] = b[i + 1]
        BY <2>3, <3>1, HeadTailProperties, LenProperties
      <3> QED
        BY <1>1, <2>1, <2>3, <3>2
    <2> QED
      BY <1>2, <1>4, <2>1, <2>2, <2>3, PollKeeps
  <1>5. ASSUME Register
        PROVE  Good(streams'[s].owner, streams'[s].filter, streams'[s].buf)
    <2>1. CASE s \in StreamIds
      BY <1>2, <1>5, <2>1, RegisterFacts
    <2>2. CASE s = Len(streams) + 1
      <3>1. streams'[s].buf = <<>>
        BY <1>5, <2>2, RegisterFacts DEF NewStream
      <3> QED
        BY <3>1
    <2> QED
      BY <1>5, <2>1, <2>2, RegisterStreams
  <1>6. ASSUME UNCHANGED streams
        PROVE  Good(streams'[s].owner, streams'[s].filter, streams'[s].buf)
    <2>1. s \in StreamIds
      BY <1>6 DEF StreamIds
    <2> QED
      BY <1>2, <1>6, <2>1
  <1>7. \/ Dispatch \/ Register \/ UNCHANGED streams
        \/ \E q \in StreamIds : Poll(q) \/ PollNone(q) \/ Drop(q)
    BY NextIsOneOf
    DEF New, Run, Ends, FailedStep, ChannelMade, FilterWritten, ConfigWritten,
        ProgramAttached, Subscribe, Fire, vars
  <1> QED
    BY <1>3, <1>4, <1>5, <1>6, <1>7

-----------------------------------------------------------------------------
(* The theorems. *)

LEMMA InitSubscribeInv == Init => SubscribeInv
  <1> SUFFICES ASSUME Init PROVE SubscribeInv
    OBVIOUS
  <1>1. ~Calling /\ StreamIds = {} /\ Len(ring) = 0
    BY DEF Init, Calling, NoCall, StreamIds
  <1>2. StreamsOf("File") = {}
    BY <1>1 DEF StreamsOf
  <1>3. TypeOK
    BY <1>1, EmptySeq, SubscribeAssumption DEF Init, TypeOK
  <1>4. Traces
    BY <1>1 DEF Init, Traces
  <1>5. Progress /\ FirstCall
    BY <1>1 DEF Progress, FirstCall
  <1>6. OneCall /\ FirstIsFiltered
    BY <1>1 DEF OneCall, FirstIsFiltered
  <1>7. Coexist
    BY DEF Init, Coexist
  <1>8. RingIsFiltered
    BY <1>1 DEF RingIsFiltered
  <1>9. OneFileStream
    BY <1>2 DEF OneFileStream
  <1> QED
    BY <1>3, <1>4, <1>5, <1>6, <1>7, <1>8, <1>9 DEF SubscribeInv

LEMMA NextSubscribeInv == SubscribeInv /\ [Next]_vars => SubscribeInv'
  BY NextTypeOK, NextTraces, NextProgress, NextFirstCall, NextOneCall,
     NextCoexist, NextRingIsFiltered, NextFirstIsFiltered, NextOneFileStream
  DEF SubscribeInv

(* Between any two steps of subscribe(), whatever calls came before: the    *)
(* steps are taken in order, and what a type with one call has set up is    *)
(* what its filter says.                                                    *)
THEOREM SubscribeInvariant == Spec => []SubscribeInv
  BY InitSubscribeInv, NextSubscribeInv, PTL DEF Spec

(* The maps, programs, registers, streams and the ring keep their types; in *)
(* particular no channel exceeds its capacity and none has capacity 0.      *)
THEOREM TypeCorrect == Spec => []TypeOK
  <1>1. SubscribeInv => TypeOK
    BY DEF SubscribeInv
  <1> QED
    BY <1>1, SubscribeInvariant, PTL

(* Subscriptions of different types coexist (core.rs, subscribe): no call   *)
(* for another type, made, failed or in progress, takes away the register,  *)
(* the FILTER entry, CONFIG or a program of a type that was subscribed once. *)
THEOREM TypesCoexist == Spec => []Coexist
  <1>1. SubscribeInv => Coexist
    BY DEF SubscribeInv
  <1> QED
    BY <1>1, SubscribeInvariant, PTL

(* A type subscribed once delivers only events its filter asks for, those   *)
(* of programs that ran in the middle of subscribe() included.              *)
THEOREM NothingUnfiltered == Spec => []FirstIsFiltered
  <1>1. SubscribeInv => FirstIsFiltered
    BY DEF SubscribeInv
  <1> QED
    BY <1>1, SubscribeInvariant, PTL

(* file_open was loaded by a call that failed later: no call in progress    *)
(* has got past it.                                                         *)
FileSpent ==
    /\ "file_open" \in loaded
    /\ StreamsOf("File") = {}
    /\ InCall("File") => "file_open" \in call.todo

LEMMA SpentForGood ==
    ASSUME SubscribeInv, FileSpent, [Next]_vars
    PROVE  FileSpent'
  <1> USE DEF SubscribeInv
  <1>1. "file_open" \in loaded'
    BY NextIsOneOf
    DEF FileSpent, New, Run, Ends, FailedStep, ChannelMade, FilterWritten,
        ConfigWritten, ProgramAttached, Subscribe, Fire, Register, Dispatch,
        Poll, PollNone, Drop, vars, runtimeVars
  <1>2. StreamsOf("File")' = {}
    <2>1. CASE StreamsKeep
      BY <2>1, KeptStreams DEF FileSpent
    <2>2. CASE Register
      <3>1. call.owner # "File"
        BY <2>2, RegisterFacts, CallOfType, StepsFacts
        DEF FileSpent, InCall, Calling, Done
      <3> QED
        BY <2>2, <3>1, RegisterStreams DEF FileSpent
    <2> QED
      BY <2>1, <2>2, NextKeepsStreams
  <1>3. ASSUME InCall("File")' PROVE "file_open" \in call'.todo
    <2>0. Calling' /\ call'.owner = "File"
      BY <1>3 DEF InCall
    <2>1. ASSUME NEW o \in Owners, NEW f \in Filters[o], NEW c \in Capacities,
                 Subscribe(o, f, c)
          PROVE  "file_open" \in call'.todo
      BY <2>0, <2>1, SubscribeFacts, StepsFacts
    <2>2. CASE call' = call
      BY <1>3, <2>2 DEF FileSpent, InCall, Calling
    <2>3. ASSUME NEW step, At(step), Goes(step), step # "register",
                 step # "file_open"
          PROVE  "file_open" \in call'.todo
      BY <2>0, <2>3, GoesDone DEF FileSpent, InCall
    <2>4. ASSUME ChannelMade \/ FilterWritten \/ ConfigWritten
          PROVE  "file_open" \in call'.todo
      BY <2>3, <2>4 DEF ChannelMade, FilterWritten, ConfigWritten
    <2>5. ASSUME NEW p \in Programs, ProgramAttached(p)
          PROVE  "file_open" \in call'.todo
      BY <2>3, <2>5, ProgramsApart DEF ProgramAttached, FileSpent
    <2> QED
      BY <2>0, <2>1, <2>2, <2>4, <2>5, CallCases
  <1> QED
    BY <1>1, <1>2, <1>3 DEF FileSpent

LEMMA AtMostOneFileStream ==
    ASSUME SubscribeInv
    PROVE  Cardinality(StreamsOf("File")) <= 1
  <1> DEFINE S == StreamsOf("File")
  <1>1. \A s1, s2 \in S : s1 = s2
    BY DEF SubscribeInv, OneFileStream
  <1>2. CASE S = {}
    BY <1>2, FS_EmptySet
  <1>3. CASE S # {}
    <2>1. PICK x : S = {x}
      BY <1>1, <1>3
    <2>2. Cardinality(S) = 1
      BY <2>1, FS_Singleton
    <2> QED
      BY <2>2
  <1> QED
    BY <1>2, <1>3

(* A Bpfx hands out at most one file stream, and none once a call has       *)
(* loaded file_open and failed: no retry gets past attach_lsm_probe.        *)
THEOREM OneFileStreamOnly == Spec => FileOnce
  <1>1. SubscribeInv => Cardinality(StreamsOf("File")) <= 1
    BY AtMostOneFileStream
  <1>2. "file_open" \in loaded /\ ~InCall("File") /\ StreamsOf("File") = {}
            => FileSpent
    BY DEF FileSpent
  <1>3. SubscribeInv /\ FileSpent /\ [Next]_vars => FileSpent'
    BY SpentForGood
  <1>4. FileSpent => StreamsOf("File") = {}
    BY DEF FileSpent
  <1> QED
    BY <1>1, <1>2, <1>3, <1>4, SubscribeInvariant, PTL DEF Spec, FileOnce

(* A subscribe() that panics for a channel_capacity of 0 has not touched    *)
(* the maps, the programs or the registers.                                 *)
THEOREM PanicsLeaveNoTrace == Spec => PanicLeavesNoTrace
  <1>1. ASSUME SubscribeInv, [Next]_vars, Calling, call.capacity = 0
        PROVE  UNCHANGED <<FILTER, CONFIG, loaded, links, register>>
    <2>1. TypeOK /\ "channel" \in call.todo /\ bpfx = "idle"
      BY <1>1 DEF SubscribeInv, Progress
    <2>2. \A step : At(step) => step = "channel"
      BY <1>1, <2>1, CallFacts, AtFacts
    <2>3. ~At("FILTER") /\ ~At("CONFIG") /\ ~At("register")
      BY <2>2
    <2>4. \A p \in Programs : ~At(p)
      BY <2>2, ProgramsApart
    <2>5. UNCHANGED vars \/ Next
      BY <1>1
    <2> QED
      BY <1>1, <2>1, <2>3, <2>4, <2>5
      DEF Next, CallStep, New, Subscribe, Channel, write_to_fiter_map,
          write_to_map, attach, Register, Fire, Run, Dispatch, Ends, Poll,
          PollNone, Drop, vars, runtimeVars
  <1>2. SubscribeInv /\ [Next]_vars =>
           [Calling /\ call.capacity = 0 =>
               UNCHANGED <<FILTER, CONFIG, loaded, links, register>>]_vars
    BY <1>1
  <1> QED
    BY <1>2, SubscribeInvariant, PTL DEF Spec, PanicLeavesNoTrace

(* When each type was subscribed at most once and none of the calls failed, *)
(* run() finds the FILTER, CONFIG and programs that Delivery derives from   *)
(* the filters of the registers, and nothing else.                          *)
THEOREM RunStartsLikeDelivery == Spec => []StartsLikeDelivery
  <1>1. SubscribeInv => StartsLikeDelivery
    <2> DEFINE subscribed == {o \in Owners : register[o] # 0}
               sub == [o \in subscribed |-> streams[register[o]].filter]
    <2> SUFFICES ASSUME SubscribeInv,
                        \A o \in Owners :
                            calls[o] = IF o \in subscribed THEN 1 ELSE 0
                 PROVE
          /\ \A o \in Owners :
                FILTER[o] = IF o \in subscribed THEN sub[o].filter ELSE NoKey
          /\ CONFIG = IF "File" \in subscribed THEN sub["File"].file_mode
                      ELSE {}
          /\ links \ PathPrograms = UNION {Attached(o, sub[o]) : o \in subscribed}
      BY DEF StartsLikeDelivery
    <2> USE DEF SubscribeInv
    <2>1. ASSUME NEW o \in subscribed
          PROVE  /\ o \in Owners /\ sub[o] \in Filters[o]
                 /\ FILTER[o] = sub[o].filter
                 /\ o = "File" => CONFIG = sub[o].file_mode
                 /\ Attached(o, sub[o]) \subseteq links
                 /\ links \cap OwnedBy(o) \subseteq ProgramsOf(o, sub[o])
      <3>1. /\ o \in Owners /\ register[o] # 0 /\ calls[o] = 1
            /\ register[o] \in StreamIds /\ streams[register[o]].owner = o
            /\ sub[o] = streams[register[o]].filter
        BY DEF TypeOK
      <3>2. sub[o] \in Filters[o]
        BY <3>1, StreamFacts
      <3>3. /\ FILTER[o] = sub[o].filter
            /\ o = "File" => CONFIG = sub[o].file_mode
            /\ Attached(o, sub[o]) \subseteq links
        BY <3>1 DEF Coexist
      <3>4. links \cap OwnedBy(o) \subseteq ProgramsOf(o, sub[o])
        BY <3>1 DEF OneCall
      <3> QED
        BY <3>1, <3>2, <3>3, <3>4
    <2>2. ASSUME NEW o \in Owners, o \notin subscribed
          PROVE  calls[o] = 0 /\ FILTER[o] = NoKey /\ links \cap OwnedBy(o) = {}
      BY <2>2, NothingBefore DEF Traces
    <2>3. "File" \notin subscribed => CONFIG = {}
      BY <2>2 DEF Traces
    <2>4. ASSUME NEW p \in links \ PathPrograms
          PROVE  \E o \in subscribed : p \in Attached(o, sub[o])
      <3>1. PICK o \in Owners : p \in OwnedBy(o)
        BY DEF Traces, TypeOK
      <3>2. o \in subscribed
        BY <2>2, <3>1
      <3>3. p \in ProgramsOf(o, sub[o])
        BY <2>1, <3>1, <3>2
      <3>4. ProgramsOf(o, sub[o]) =
               Attached(o, sub[o]) \cup (IF o = "File" THEN PathPrograms ELSE {})
        BY <2>1, <3>2, StepsFacts
      <3> QED
        BY <3>2, <3>3, <3>4
    <2>5. ASSUME NEW o \in subscribed, NEW p \in Attached(o, sub[o])
          PROVE  p \in links \ PathPrograms
      BY <2>1, <2>5, StepsFacts, ProgramsApart
    <2> HIDE DEF sub
    <2>6. links \ PathPrograms = UNION {Attached(o, sub[o]) : o \in subscribed}
      BY <2>4, <2>5
    <2> HIDE DEF subscribed
    <2> QED
      BY <2>1, <2>2, <2>3, <2>6
  <1> QED
    BY <1>1, SubscribeInvariant, PTL
=============================================================================
