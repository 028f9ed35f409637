# A TLA+ model of bpfx

bpfx watches a Linux system with eBPF programs and hands what they see to a
Rust application as asynchronous streams.  This directory models the path of an
event from the kernel hook to the application's `next().await`: what is checked
with TLC on small instances, what is proved with TLAPS for all of them, and what
is left out.

## The system

| Part | Source | State | Operations |
|---|---|---|---|
| eBPF programs | `bpfx-ebpf/src/main.rs` | maps `EVENTS` (ring), `FILTER`, `CONFIG`, `FILE_PATH_MAP`, per-CPU scratch | 21 programs that emit a record, 2 that maintain paths |
| Ring buffer and event loop | `src/core.rs` (`run`, `event_loop`) | ring positions, epoll and tokio readiness, where the loop is | `reserve`, `submit`, `discard`; `readable`, `has_subscribers`, `next`, `clear_ready` |
| Converters | `src/core.rs` (`convert_*_events`, `handle_*`) | `pending_renames`, one channel per register | convert a record, `try_send` |
| Subscriptions | `src/{network,process,file,memory}.rs`, `src/core.rs` (`attach_*_probe`) | the four registers, `FILTER`, `CONFIG`, attached programs | `subscribe` |
| Streams | `PollNetwork`, `PollProcess`, `PollFile`, `PollMem` | the receiving end of a bounded channel | `poll_next`, drop |
| Accessors | `src/file.rs`, `process.rs`, `network.rs`, `memory.rs`, `common.rs` | none | `status`, `event_type`, flags, masks, `dedup_key`, `Display` |

`subscribe` writes the filter into the maps and attaches programs; the programs
run on any number of kernel threads at once and write into one ring; `run`
consumes the `Bpfx` and drains the ring in one task, which offers every record
to the four converters; each converter knows its own event types and sends with
`try_send` into a bounded channel; the application polls the other end.  A
rename is two records, one at the entry and one at the exit of `vfs_rename`,
which the file converter joins through a table keyed by pid and tid.

What is hard in it: the loop sleeps on an edge-triggered notification and must
not miss one; records are committed out of the order of their reservation; the
ring, the channels and the rename table all drop when they are full; streams
come and go while the loop runs; the decision which events a subscriber gets is
spread over masks, attached programs, two maps and the converters.

For each part, what makes it correct:

* ring and loop: no lost wake-up, no record lost or taken twice, records taken
  in ring order, the loop ends when nobody listens;
* programs, filters and converters: a subscriber gets only what its filter asks
  for, and no record makes a converter panic;
* rename table: an event joins the two halves of one operation;
* streams: in order, at most once, a slow one disturbs nobody, each ends;
* subscriptions: types do not disturb each other, nothing unfiltered gets in
  while a subscription is being made, a call that fails leaves the live ones as
  they were;
* path table: a file is reported with its own path, and the table does not fill
  up with the dead;
* conversions: the numbers of an event are those of the kernel object, and the
  bits of a filter mean the flags that were named.

## Modules

| Module | Models |
|---|---|
| `RingLoop` | the abstract ring and loop: reserve, commit, wake, consume, park |
| `EventLoop` | the same with every step of the notification path |
| `EventLoopProofs` | theorems about `EventLoop` |
| `Probes` | the programs and the attach functions, as operators without state |
| `ProbesProofs` | lemmas about these operators, for the proofs about `Delivery` and `Subscribe` |
| `Delivery` | `RingLoop` with record contents, converters, channels, streams and renames; uses `Probes` |
| `DeliveryInv` | the inductive invariants of `Delivery`: `StreamInv`, `FilterInv`, `RenameInv` |
| `DeliveryProofs`, `RenameProofs` | theorems about `Delivery`: order, refinement and filters; renames |
| `Stream` | the contract of one subscription |
| `StreamProofs` | what the contract gives: received in order |
| `Subscribe` | the life of a `Bpfx`: construction, `subscribe` step by step, `run`, its end; uses `Probes` |
| `SubscribeProofs` | theorems about `Subscribe` |
| `FilePaths` | `FILE_PATH_MAP`, `PATH_BUF`, `file_open`, `__fput` and the programs that look a path up; uses `Probes` |
| `FilePathsProofs` | theorems about `FilePaths` |
| `MaskBits` | the bits of the masks and their operators |
| `Payload` | the numbers in records and events, and the accessors that read them; uses `Probes` and `MaskBits` |
| `PayloadProofs` | theorems about `Payload` and `MaskBits` |
| `MCDelivery`, `MCSubscribe`, `MCFilePaths`, `MCPayload` | threads, inputs, filters and operations for TLC |

Definitions whose comment begins with "Fault:" are wrong variants of the
definition that follows them.  No specification uses them; each is put in place
of the right one to see that a property notices.

### RingLoop and EventLoop

The ring is a function from positions `0 .. Size-1` to the state of the record
header (`free`, `busy`, `data`, `discard`), with the masked consumer and
producer positions; a free slot at the consumer means empty, a used one at the
producer means full.  Records have one size.  The number of records in a
behaviour is not bounded: the state space is finite because the ring wraps.

`EventLoop` splits what the kernel and tokio do into their atomic steps:

1. `Reserve`, `Commit`: a program reserves a busy record and clears the bit.
2. `Notify`: after that it compares the record with the consumer position and
   queues an irq_work only if they are equal.
3. `IrqWork`: the wait queue's callback puts the descriptor on the epoll ready
   list, if `AsyncFdNew` has registered it.
4. `DriverTurn`: `epoll_wait` takes it off (edge-triggered), polls the ring, and
   if that is not empty tokio sets the readiness at a new tick.
5. `Readable`, `HasSubscribers`, `NextNone` / `NextDiscard` / `NextItem`,
   `DropItem`, `ClearReady`: the lines of `event_loop`.  `clear_ready` does not
   clear a readiness set after its guard was taken (`newTick`).

Steps 2 to 4 are the behaviour of Linux and tokio that the loop relies on; they
are marked external in the map.  `LoopError` is the `?` on `AsyncFd::new` and on
`readable().await`.  Init is the start of the task with its subscriptions made;
`run()` without any subscription has no programs attached and no events, and is
left out.

### Probes

One operator per program gives its outcome: `"return"` before the reservation,
`"discard"` or `"submit"` after it.  An input record says what the program finds
(null, unreadable, family, file type, path known).  Masks are sets of flags and
the `attach_*_probe` functions are tables from flags to programs.
`OperationMatches` and `KeyMatches` state what a subscriber asked for in the
terms of the filter types, independently of the tables.

### Delivery

`Delivery` extends `RingLoop`: each of its actions on the ring is an action of
`RingLoop` with the contents added (`ImplementsRing` proves it), and `EventLoop`
is the justification for the fairness it assumes.  `Fire` is a
program up to its reservation, `Finish` its commit.  A rename is `RenameEntry`
or `RenameEntrySkipped` (filtered, or the ring is full), then `RenameExit` or
`RenameExitLost`.  `Dispatch` is one turn of the inner `while`: the converters,
the table, `try_send`, and the release of the record.  `Poll`, `PollNone` and
`Drop` are the application.  `lostExits`, `entered`, `refused` and the operation
numbers are history: the code does not have them, the properties do.

`Header` gives each thread its pid, tid, ppid, uid and gid.  `sub` holds the
filters chosen at the start; `FILTER`, `CONFIG` and `attached` follow from it.

`Stream` is what one subscription promises.  `event` is its input from the
kernel (`Arrive`): the record at the head of the ring is committed and is an
event for this stream.  The loop answers a record with `Send` or `Pass`, and
`Pass` may answer an event only if the channel is full or the stream is no
longer open.  `IsEventFor` gives `event` its meaning in `Delivery` without
looking at channels: the event type is the register's, and a rename counts at
its exit, if its entry waits.

`Delivery` takes the subscriptions as made.  `StartsLikeDelivery` in `Subscribe`
is the link: when no call failed and none was repeated, `run` finds exactly the
`FILTER`, `CONFIG` and programs that `Delivery` derives from `sub`.

### Subscribe

A call of `subscribe` is a set of steps (`StepsOf`), taken in the order of the
code (`Place`): make the channel, write `FILTER`, for files write `CONFIG` and
attach `file_open` and `__fput`, attach the programs of the mask (`AttachOrder`),
fill the register.  Each step
may fail, and then the call returns with what it has done left in place; a
capacity of 0 panics in the first.  `loaded` is what aya remembers: a program is
loaded once, whether its attachment succeeded or not.  Between any two steps
programs that are attached fire (`Fire`), with the maps as they are.  The
register of a type is overwritten by a later call; the sender in it is dropped
(`PollNone` sees that).  `config` is a public field of `Bpfx`, so each call has
a capacity of its own.

### FilePaths

`file[a]` is the kernel's struct file at address `a` with the references to it:
threads in a call on it, and `"fd"`.  An open is `Alloc`, `file_open` (write
`PATH_BUF`), `file_open_insert` (copy it into the table), `VfsOpen` or
`VfsOpenFails`; a read or write is `Enter`, `Leave`; a close drops the reference
before its program runs (`Close`, `filp_close_exit`); whoever drops the last
reference does `Free` and then, at the exit of the kernel's function, the
program `__fput`.  Between these two the address may be given to a new file.
What the reporting programs do with what they find is `Outcome` of `Probes`.

Assumed of the kernel: every file ends in `__fput`, an open that failed
included; an update of the hash map is atomic; the exit program of `__fput` is
not skipped.  The recursion guard of fexit programs can skip it when it is
preempted on its CPU, and then the entry stays until the address is used again.

### Payload

One operation at a time (`Happens`), its program (`Program`), its converter
(`Convert`).  Modes, flags, masks and exit codes are the sets of the positions
of their 1 bits, because masking, joining and shifting is what the code does to
them: `&` is `\cap`, `|` is `\cup`, `1 << n` is `{n}` and 0 is `{}`.  Ports are
numbers, whose two bytes are swapped, and addresses sequences of bytes.
`ctx.arg(n)` gives the result only if
`n` is the number of parameters of the kernel function (`Arity`).  `f_flags` is
what the kernel keeps of the flags of an open: of an `O_PATH` open only
`PathFlags`, of any other all but `CLOEXEC`, which belongs to the descriptor, and
`CREAT`, `EXCL`, `NOCTTY` and `TRUNC`, which are done with.  The file
types are in four tables (`FileTypeBit`, `FILE_`, `S_IF`, `mode_bits`), as in
the code.  `Provenance` says where records and events come from, and is the
inductive invariant of the proofs.

## Runs

| Run | Shows |
|---|---|
| `EventLoop` | `NoLostWakeup`, `BusyOwned`, their inductive strengthening `WakeInv`; every committed record is consumed (`Consumed`); with all streams dropped a waiting loop ends at the next event (`ExitsOnNextEvent`); refinement of `RingLoop` with its fairness |
| `Probes` | for all programs, all their ways out and three sets of subscriptions: `OnlyWhatWasAskedFor`, `UnwrapIsFine` |
| `Streams` | `InRingOrder` and its strengthening `StreamInv`, the contract `ImplementsStreams` (no event is lost while the channel has room and the stream is open), `RingDrains` although nobody need poll, and `StreamsEnd` for a stream that is polled |
| `Renames` | `PairedOrLost`, `PendingIsJustified`, `EntryAwaitsExit` and their strengthening `RenameInv`, which has the filter for renames in it; `ImplementsStreams` for events that are joined from two records |
| `Subscribe` | the inductive invariant `SubscribeInv`; `Coexist`, `FirstIsFiltered`, `StartsLikeDelivery`; a runtime has one file stream at most, and none ever after a file call that failed with `file_open` loaded (`FileOnce`; one that failed before that, at the channel, `FILTER` or `CONFIG`, can be repeated); `PanicLeavesNoTrace`; a stream that lost its sender ends (`CutStreamsEnd`) |
| `FilePaths` | the table has a live file's own path, none, or one that is about to be removed (`PathUnlessReleasing`), and an open, a read, a write and the last close of a file are reported accordingly (`PathIsTheFilesOrReleasing`); no entry outlives its file (`EntriesAreJustified`, `PathsReclaimed`) |
| `Payload` | the bits of filters (`MasksMeanTheirFlags`), file types, event types, results, addresses and local ports, and flags of events |

Five runs show where the code does something else than its documentation says:

| Run | What happens |
|---|---|
| `ExitsWhenAllDropped` | the last stream is dropped, no event follows, the task waits forever |
| `RenamePairing` | an exit record is lost to a full ring; a later rename of the thread is reported with the old names |
| `UnmapFilter` | `__vm_munmap` does not look at `FILTER` |
| `ActiveFilter` | a stream of process starts is live; a second call with the same mask and another key overwrites `FILTER` and then fails at `sched_process_exec`, which is loaded already; the live stream goes on with the key of the call that failed |
| `ReleaseRace` | a file at the address of one just freed, with a path too long to record or none, is reported with the other's path |

### Other differences from the documentation

They have no run of their own.  The definitions named here state what the
documentation says; TLC refutes each when it takes the place of the properties
of the run in the second column.

| Claim | Run | Documentation | The code |
|---|---|---|---|
| `ExitsUnderLoad` | `EventLoop` | `core.rs:273` | while every `next()` finds a record, `has_subscribers` is not asked |
| `SuppliedFilterDetermines` | `Subscribe` | `core.rs:248` | a second process stream also gets the event types of the first, whose programs stay attached |
| `EnteredIsOneOperation` | `Renames` | `file.rs:446` | a rename whose entry reached the loop is still reported with the names of another: the full table refuses the entry (`core.rs:1139`), even where it would replace a stale one of the same thread |
| `PathIsTheFiles` with `Cpu <- OneCpu` | `FilePaths` | `file.rs:622` | an open preempted between `bpf_d_path` and the copy records the path of the open that preempted it: one `PATH_BUF` per CPU |
| `AccessIsReported` with `MaxPaths = 2` | `FilePaths` | `file.rs:332`, `:376` | `__fput`'s program removes the entry of the file that took the address; its reads and writes are not reported |
| `RemotePortIsThePort` | `Payload` | `network.rs:58` | the remote port is in network byte order: 443 is reported as 47873 |
| `StatusIsTheExitStatus` | `Payload` | `raw.rs:141` | `status()` shifts the wrong way and is always 0 |
| `SyncMeansSync` | `Payload` | `file.rs:30` | `O_SYNC` includes the bit of `O_DSYNC`, and one bit is enough for `flags()` |
| `FlagsPassed` | `Payload` | `file.rs:26` | the kernel has cleared `CLOEXEC`, `CREAT`, `EXCL`, `NOCTTY` and `TRUNC` when `vfs_open` returns, so that the example at `file.rs:78`, "WRONLY\|APPEND\|CLOEXEC", cannot occur |
| `DefaultIsRegular` | `Payload` | `file.rs:957` | `FileTypeFilter::default()` is `ALL` |
| `ConnectSucceeded` | `Payload` | `network.rs:284` | a failed connect is reported as well |

`inet_bind` reports the bind of a UDP socket as TCP (`network.rs:265` promises
TCP only); `OnlyWhatWasAskedFor` excepts it by name, as it does `MemoryUnMap`.

### Bounds

* `EventLoop`: two threads and two records are the least with which a record is
  committed behind a busy head and with which the ring is full; more threads
  repeat the same roles.  Two owners tell "one dropped" from "all dropped".  The
  theorems cover every size.
* `Probes`: one record is enough, because what the properties say concerns one
  record and its subscription; width (all programs, nine inputs, two threads,
  three subscription sets) is what matters.
* `Streams`: four records, a ring of two and channels of two, so that rings and
  channels are both full at times, a channel has two events to keep in order,
  and one with an event in it still has to take another.
* `Renames`: four renames and six records by two threads of one process; the
  table holds two, so that it is full, and stale entries are replaced and
  refused.  `MAX_PENDING_RENAMES` is 1024 in the code.
* `Subscribe`: three calls for any of four types, so that a type is subscribed
  twice with a third call between, before or after; filters with disjoint masks
  and with a program in common; capacities 0 and 1; a ring of one record, enough
  for one event from before `run`.
* `ActiveFilter`: two process filters with one mask and different keys, and two
  calls: the second call's first program is the first call's.
* `FilePaths`: two threads and two addresses, so that an address is released by
  one thread while the other takes it; a table of one path, so that it is full;
  a path that cannot be recorded and files without one.  The number of
  operations is not bounded.
* `Payload`: every file type with and without permissions, under filters of one
  type, two and all; every access mode with every flag alone and some together;
  success, an error and a number of bytes as the result; both IP versions, ports
  whose bytes differ, exit by code and by signal; for the masks every set of
  flags.  Every operation follows every other.

Deadlock is checked where the system never stops (`FilePaths`, `Payload`) and
not elsewhere: the task returns when the loop ends, and the bounded runs end
when their records or calls are used up.  No symmetry is used: liveness is
checked, or threads differ.

### Fairness

Weak fairness of `Commit` / `Finish` and `Notify` (the verifier admits only
programs that end), of `IrqWork` and `DriverTurn` (the kernel and the tokio
driver do queued work) and of the loop's own steps (the runtime polls a ready
task).  None for errors, events, drops or polling; `StreamsEnd` and
`CutStreamsEnd` have the fairness of the poll of the stream in question as their
premise, so they speak of an application that polls that stream.  In
`FilePaths` a thread that is releasing a file goes on (`Free`, `__fput`: the
kernel does not stop there).  `RingLoop` assumes that a committed head wakes the
loop; that `EventLoop` implements it shows why this may be assumed.

## Proofs

The theorems hold for every value of the constants that satisfies the named
assumptions: every set of threads, every size of the ring, the channels and the
tables, every filter of the filter types.  The bounds of the TLC runs
(`MaxRecords`, `MaxRenames`, `MaxCalls`) are constants too, any natural number.

### What is proved

| Module | Theorem | States |
|---|---|---|
| `EventLoopProofs` | `TypeCorrect`, `WakeInvariant` | `TypeOK`, `WakeInv` |
| | `WakeupsNotLost`, `RecordsExclusive` | `NoLostWakeup`, `BusyOwned` |
| | `Implementation` | `Abstract!RingSpec`: the loop implements `RingLoop` |
| `StreamProofs` | `ContractIsOrdered` | `Ordered`: the contract of a stream delivers in order, each at most once |
| `DeliveryProofs` | `TypeCorrect`, `StreamInvariant` | `TypeOK`, `StreamInv` |
| | `EventsInOrder` | `InRingOrder` |
| | `ImplementsRing` | `RingSpec`: contents, converters and channels do not change what the ring does |
| | `StreamsImplemented` | `ImplementsStreams`: each register is a `Stream`, so an event is lost only to a full channel or a dropped stream |
| | `FilterInvariant`, `OnlyAskedFor` | `FilterInv`, `OnlyWhatWasAskedFor` |
| | `UnwrapNeverPanics` | `UnwrapIsFine` |
| `RenameProofs` | `RenameInvariant`, `PairsAreOneOperation` | `RenameInv`, `PairedOrLost` |
| | `PendingJustified`, `EntriesAwaitExits` | `PendingIsJustified`, `EntryAwaitsExit` |
| `SubscribeProofs` | `TypeCorrect`, `SubscribeInvariant` | `TypeOK`, `SubscribeInv` |
| | `TypesCoexist`, `NothingUnfiltered` | `Coexist`, `FirstIsFiltered` |
| | `OneFileStreamOnly` | `FileOnce`: at most one file stream, and none once a failed call has loaded `file_open` |
| | `PanicsLeaveNoTrace` | `PanicLeavesNoTrace`, an action property |
| | `RunStartsLikeDelivery` | `StartsLikeDelivery` |
| `FilePathsProofs` | `TypeCorrect`, `TableInvariant`, `EntriesJustified` | `TypeOK`, `TableInv`, `EntriesAreJustified` |
| | `PathsOfLiveFiles`, `ReportedPaths` | `PathUnlessReleasing`, `PathIsTheFilesOrReleasing` (an action property), where threads do not share a CPU |
| `PayloadProofs` | `ProvenanceKept`, `TypeCorrect` | `Provenance`, `TypeOK` |
| | `FlagsAttach`, `FilesByType` | `MasksMeanTheirFlags`, `ReportedByType` |
| | `TypeIsInodes`, `EventTypeIsProbes`, `RetvalIsResult` | `TypeIsTheInodes`, `EventTypeIsTheProbes`, `RetvalIsTheResult` |
| | `EndpointsAreSockets`, `FlagsAreFiles` | `EndpointsAreTheSockets`, `FlagsAreTheFiles` |
| | `StatusOfFailureLost` | `StatusOnlyOfSuccess`: `status()` tells the status passed to `exit()` only if that is 0 |

### From which assumptions

* `SizeAssumption`, `EventLoopAssumption`: the ring has room for a record.
* `DeliveryAssumption`: channels have room for an event (`mpsc::channel(0)`
  panics); the other bounds are natural numbers.
* `SubscriptionsAssumption`, `SubscribeAssumption`: a filter has a mask of its
  type's flags, a protocol mask or a file mode where the code's struct has one.
* `ThreadsAssumption`: a tid belongs to one thread.  The rename theorems rest on
  it: the table is keyed by pid and tid.
* `FilePathsAssumption`: names, marks and CPUs are what they are called.
* `PayloadAssumption`: an operation is one of a file with any 16 bits of mode,
  any CONFIG, access mode and set of open flags, one of a socket with any
  address of its family and any ports, or an exit with any 32 bits of code.  The
  operations of `MCPayload` are some of these.
* `CpuPerThread`, a hypothesis of the two theorems about paths only: `PATH_BUF`
  is one buffer per CPU, and an open that is preempted between `bpf_d_path` and
  the copy records the other's path (`PathIsTheFiles` under "Other differences").
  `TableInvariant` does without it.

### Along which argument

`EventLoop`.  `NoLostWakeup` speaks of a loop that waits, and is not inductive:
`ClearReady` would break it.  `NoLostClear` states the same one step earlier,
with the new tick in place of the readiness; `GuardImpliesReady` says that a new
tick means a readiness that survives; `OneRecordAtATime` says that a commit
never overwrites a comparison that is still due.  `BusyOwned` needs
`ItemIsData`: releasing an item frees a record nobody holds.  The refinement
uses `ItemIsData` too, since `DropItem` is `Consume` only for a committed record.

`Delivery`, order.  That events arrive in order says nothing about the slots
they came from.  `StreamInv` adds that the ring is a queue: the used slots are
the `InFlight` ones from `cons` on, and the record at distance `Dist(p)` from
`cons` has the number `consumed + 1 + Dist(p)`.  A record that is dispatched has
then a number above all that were sent before, which `InRingOrder` and the step
`Send` of `Stream` need.  `Holders` is why a commit writes to a slot of its own.
For the refinement, `DispatchAnswers` follows the arms of the converters: a
record that `IsEventFor` says is an event is sent or finds its channel full or
closed (`TrySendOrFull`), any other is not; `KernelArrives` says that the programs
change what the head is only by committing it.

`Delivery`, filters.  `OnlyWhatWasAskedFor` speaks of channels.  `FilterInv`
carries it back to the program: `KeepDecides` says that only a record the
program kept is submitted, `AskedFor` that it keeps a record only if the filter
asks, and both for the ring and for the entries that wait in `pending_renames`.
The lemmas of `ProbesProofs` (`AttachedByOwner`, `MaskHasOperation`,
`MaskHasProtocol`, `SubmitsWhatIsWanted`, `WantedMatches`) compare the attach
tables and the programs with the words of the filter types.

`Delivery`, renames.  `RenameInv` puts the renames of a thread in one line:
what waits in the table, then its records in the ring, oldest first, then the
one that runs (`ThreadOrder`).  Each entry has its exit further back or among
the lost (`EntriesHaveExits`), and each exit whose entry was accepted has it
further ahead (`ExitsHaveEntries`).  When an exit is dispatched, the entry it
meets in the table is the last of its thread before it: its own, unless the exit
of that entry was lost.

`Subscribe`.  What a stream may rely on was set up by the call that made it, so
`SubscribeInv` says what a call has done by the time it stands before a step
(`Progress`), that the first call for a type finds nothing of that type and
attaches only after the maps are written (`FirstCall`), and that while there was
one call only, maps and programs are those of its filter (`OneCall`).  Records
made before `run` are covered by `RingIsFiltered`.  `Traces` and `OwnedBy` keep
the types apart.  `FileOnce` follows from `loaded`: the call that has loaded
`file_open` is the only one that gets past that step.  `FileSpent` (it is loaded,
no file call is on its way, there is no file stream) is stable
(`SpentForGood`), so a failure there is for good.

`FilePaths`.  `EntriesAreJustified` needs the references: `TableInv` ties the
step a thread is at to the reference it holds (`CallsHaveRefs`) and every
reference to such a step (`RefsHaveCalls`), so that a file that is opened,
read or copied from is alive and one that is released is so once.  The path
theorems add `BufIsOwn`.

`Payload`.  `Provenance` makes the event `EventOf(RecordOf(op))`; after that
there is no state, only tables.  A mask gives back its flags when each flag has
a bit that no other has (`OwnBits`, `FlagsOfMask`), which holds for the tables of
all filter types; the constants of the filters are such masks
(`ConstantsAreMasks`), so joining them joins flags.  The open flags have no such
bits: `SharedBits` says which of them share one.  `BitsOfFile` gives the bits the
kernel keeps, `KeptFlagsNamed` that a kept flag is among what `flags()` makes of
them, and `NamedFlagsPassed` that what it names was passed or shares a bit with
what was.  For the file types, `TypesDiffer` says that no two have
the same number, so each table can be read backwards (`BitOfType`, `NameOfType`),
and `FilterBits` that the application's numbers are the programs'.

### Only model-checked

* Liveness, which is out of the prover's reach: `Consumed`, `ExitsOnNextEvent`,
  `RingDrains`, `StreamsEnd`, `CutStreamsEnd`, `PathsReclaimed`, and the
  fairness part of the refinement of `RingLoop`.

All other properties of the passing runs are stated by a theorem, but for
`ImplementsRingLoop`, whose safety part is `Implementation`.

## Not modelled, and plan

The plan of modules and proofs is done: every component with state has its
module, every safety property its theorem.

Abstracted away: record sizes (a small record may fit where a large one does
not); the contents of names, paths, timestamps and memory addresses, and where
strings are cut off at their NUL; nested renames (a stacked file system calling
`vfs_rename` from within); the read of a whole `PendingConnect` from a shorter
record in `convert_network_events`, of which only the event type is used.  The
flags of a rename event are always 0: the program never sets those of its
buffer.

Not modelled at all: loading the object and BTF, which fail or succeed before
there is any state (`New`); which error a step returns; logging (`with_config`
does not set up the eBPF logger, `new` does); `Display`; accessors that return a
field (`is_kernel_thread` is `pid == 0`, so only the idle task is one); examples
and tests.  `dedup_key` copies fields into a key, and what two events must share to
be the same is only what the documentation says it is; for a close it says the
inode (`file.rs:508`), and the code has the return value in the key as well.
