----------------------------- MODULE FilePaths -----------------------------
(***************************************************************************)
(* The table FILE_PATH_MAP, which gives a file's path to the programs that *)
(* report opens, reads, writes and closes.  Its key is the address of the  *)
(* struct file.  file_open, at the lsm hook of an open, writes the path    *)
(* into the buffer of its CPU and copies it from there into the table;     *)
(* __fput, at the exit of the kernel function that frees the file, removes *)
(* it.                                                                     *)
(*                                                                         *)
(* The life of a struct file is the kernel's: references, and addresses    *)
(* that are used again.  The filters and the ring are those of Probes and  *)
(* Delivery; here everything is wanted and the ring has room.              *)
(***************************************************************************)
EXTENDS Naturals, Probes, FiniteSets

CONSTANTS
    Threads,    \* kernel threads
    Cpu,        \* Cpu[t]: where t runs; a thread may be preempted by another
    Addrs,      \* addresses of struct file
    Names,      \* paths
    TooLong,    \* the paths for which bpf_d_path fails
    MaxPaths    \* entries FILE_PATH_MAP holds (4096)

(* No path is what a pipe or a socket has: they are never opened by name. *)
NoName == "no name"

ASSUME FilePathsAssumption ==
    /\ NoName \notin Names
    /\ TooLong \subseteq Names
    /\ DOMAIN Cpu = Threads
    /\ "fd" \notin Threads

VARIABLES
    file,           \* file[a]: the file at a: its name and who refers to it
    doing,          \* doing[t]: the step t is at, and with which file
    PATH_BUF,       \* PATH_BUF[c]: the path last written on CPU c
    FILE_PATH_MAP,  \* the table, a function on the addresses present
    event           \* what the last step submitted: the file's name and the
                    \* path reported for it

vars == <<file, doing, PATH_BUF, FILE_PATH_MAP, event>>

Cpus == {Cpu[t] : t \in Threads}
Hold == Threads \cup {"fd"}

(* refs: the threads in the middle of a call on the file, and "fd" when a   *)
(* descriptor refers to it.                                                 *)
NoFile == [name |-> NoName, refs |-> {}]
Idle == [step |-> "idle", addr |-> "none", name |-> NoName, last |-> FALSE]
NoEvent == [name |-> NoName, path |-> NoName]

Live(a) == file[a].refs # {}
At(t, step) == doing[t].step = step

Init ==
    /\ file = [a \in Addrs |-> NoFile]
    /\ doing = [t \in Threads |-> Idle]
    /\ PATH_BUF = [c \in Cpus |-> NoName]
    /\ FILE_PATH_MAP = [a \in {} |-> NoName]
    /\ event = NoEvent

-----------------------------------------------------------------------------
(* The table. *)

(* insert with flag 0: a full table refuses a new key; the error is ignored *)
Insert(a, path) ==
    FILE_PATH_MAP' =
        IF a \in DOMAIN FILE_PATH_MAP
           \/ Cardinality(DOMAIN FILE_PATH_MAP) < MaxPaths
        THEN [b \in DOMAIN FILE_PATH_MAP \cup {a} |->
                 IF b = a THEN path ELSE FILE_PATH_MAP[b]]
        ELSE FILE_PATH_MAP

(* Fault: the key is not the one the path was inserted under. *)
RemoveNothing(a) == UNCHANGED FILE_PATH_MAP

Remove(a) ==
    FILE_PATH_MAP' = [b \in DOMAIN FILE_PATH_MAP \ {a} |-> FILE_PATH_MAP[b]]

(* A program that reports an operation on the file n at address a: what     *)
(* Probes says of it, with the type it finds and the table it looks in.     *)
Report(hook, a, n, mode) ==
    LET ctx == [key |-> [kind |-> "None", id |-> 0], config |-> FileTypes,
                header |-> <<>>,
                input |-> [null |-> FALSE, mode |-> mode,
                           path |-> a \in DOMAIN FILE_PATH_MAP]]
    IN event' = IF Outcome(hook, ctx) = "submit"
                THEN [name |-> n, path |-> FILE_PATH_MAP[a]]
                ELSE NoEvent

-----------------------------------------------------------------------------
(* Opening. *)

(* The kernel allocates a struct file for an open by name. *)
Alloc(t, a, n) ==
    /\ At(t, "idle")
    /\ ~Live(a)
    /\ file' = [file EXCEPT ![a] = [name |-> n, refs |-> {t}]]
    /\ doing' = [doing EXCEPT ![t] = [step |-> "hook", addr |-> a, name |-> n,
                                      last |-> FALSE]]
    /\ UNCHANGED <<PATH_BUF, FILE_PATH_MAP>> /\ event' = NoEvent

(* A pipe or a socket gets its struct file without the hook of an open. *)
AllocUnnamed(t, a) ==
    /\ At(t, "idle")
    /\ ~Live(a)
    /\ file' = [file EXCEPT ![a] = [name |-> NoName, refs |-> {"fd"}]]
    /\ UNCHANGED <<doing, PATH_BUF, FILE_PATH_MAP>> /\ event' = NoEvent

(* Fault: the result of bpf_d_path is not looked at. *)
file_open_unchecked(t) ==
    LET n == doing[t].name IN
    /\ At(t, "hook")
    /\ doing' = [doing EXCEPT ![t].step = "copy"]
    /\ PATH_BUF' = IF n \in TooLong THEN PATH_BUF
                   ELSE [PATH_BUF EXCEPT ![Cpu[t]] = n]
    /\ UNCHANGED <<file, FILE_PATH_MAP>> /\ event' = NoEvent

(* file_open up to bpf_d_path, which fails for a path of 256 bytes, ... *)
file_open(t) ==
    LET n == doing[t].name IN
    /\ At(t, "hook")
    /\ IF n \in TooLong
       THEN /\ doing' = [doing EXCEPT ![t].step = "open"]
            /\ UNCHANGED PATH_BUF
       ELSE /\ doing' = [doing EXCEPT ![t].step = "copy"]
            /\ PATH_BUF' = [PATH_BUF EXCEPT ![Cpu[t]] = n]
    /\ UNCHANGED <<file, FILE_PATH_MAP>> /\ event' = NoEvent

(* ... and the copy of the buffer into the table. *)
file_open_insert(t) ==
    /\ At(t, "copy")
    /\ doing' = [doing EXCEPT ![t].step = "open"]
    /\ Insert(doing[t].addr, PATH_BUF[Cpu[t]])
    /\ UNCHANGED <<file, PATH_BUF>> /\ event' = NoEvent

(* vfs_open returns: its program runs, then the descriptor is installed.    *)
VfsOpen(t) ==
    LET a == doing[t].addr IN
    /\ At(t, "open")
    /\ Report("vfs_open", a, doing[t].name, "REG")
    /\ file' = [file EXCEPT ![a].refs = {"fd"}]
    /\ doing' = [doing EXCEPT ![t] = Idle]
    /\ UNCHANGED <<PATH_BUF, FILE_PATH_MAP>>

(* vfs_open fails: the inode is gone by the time the program asks for its   *)
(* type, and the file is released.                                          *)
VfsOpenFails(t) ==
    LET a == doing[t].addr IN
    /\ At(t, "open")
    /\ Report("vfs_open", a, doing[t].name, "none")
    /\ doing' = [doing EXCEPT ![t].step = "release"]
    /\ UNCHANGED <<file, PATH_BUF, FILE_PATH_MAP>>

-----------------------------------------------------------------------------
(* Reading and writing, closing, releasing. *)

(* A thread enters vfs_read or vfs_write with a reference of its own. *)
Enter(t, a) ==
    /\ At(t, "idle")
    /\ "fd" \in file[a].refs
    /\ file' = [file EXCEPT ![a].refs = @ \cup {t}]
    /\ doing' = [doing EXCEPT ![t] = [step |-> "use", addr |-> a,
                                      name |-> file[a].name, last |-> FALSE]]
    /\ UNCHANGED <<PATH_BUF, FILE_PATH_MAP>> /\ event' = NoEvent

(* The program at its exit reports, then the reference is dropped; whoever  *)
(* drops the last one releases the file.                                    *)
Leave(t, hook) ==
    LET a == doing[t].addr IN
    /\ At(t, "use")
    /\ Report(hook, a, doing[t].name, "REG")
    /\ IF file[a].refs = {t}
       THEN /\ doing' = [doing EXCEPT ![t].step = "release"]
            /\ UNCHANGED file
       ELSE /\ doing' = [doing EXCEPT ![t] = Idle]
            /\ file' = [file EXCEPT ![a].refs = @ \ {t}]
    /\ UNCHANGED <<PATH_BUF, FILE_PATH_MAP>>

(* filp_close drops the descriptor's reference, ... *)
Close(t, a) ==
    LET last == file[a].refs = {"fd"} IN
    /\ At(t, "idle")
    /\ "fd" \in file[a].refs
    /\ file' = [file EXCEPT ![a].refs = IF last THEN {t} ELSE @ \ {"fd"}]
    /\ doing' = [doing EXCEPT ![t] = [step |-> "close", addr |-> a,
                                      name |-> file[a].name, last |-> last]]
    /\ UNCHANGED <<PATH_BUF, FILE_PATH_MAP>> /\ event' = NoEvent

(* ... and its program runs at the exit, without one if others remain.  The *)
(* closer that dropped the last reference releases the file after that.     *)
filp_close_exit(t) ==
    LET a == doing[t].addr IN
    /\ At(t, "close")
    /\ \E mode \in IF Live(a) THEN {"REG"} ELSE {"REG", "none"} :
          Report("filp_close", a, doing[t].name, mode)
    /\ doing' = [doing EXCEPT ![t] = IF doing[t].last
                                     THEN [@ EXCEPT !.step = "release"]
                                     ELSE Idle]
    /\ UNCHANGED <<file, PATH_BUF, FILE_PATH_MAP>>

(* The kernel's __fput frees the struct file; from here on the address may  *)
(* be used again.                                                           *)
Free(t) ==
    /\ At(t, "release")
    /\ file' = [file EXCEPT ![doing[t].addr] = NoFile]
    /\ doing' = [doing EXCEPT ![t].step = "fput"]
    /\ UNCHANGED <<PATH_BUF, FILE_PATH_MAP>> /\ event' = NoEvent

(* The program __fput at its exit. *)
__fput(t) ==
    /\ At(t, "fput")
    /\ Remove(doing[t].addr)
    /\ doing' = [doing EXCEPT ![t] = Idle]
    /\ UNCHANGED <<file, PATH_BUF>> /\ event' = NoEvent

Step(t) ==
    \/ \E a \in Addrs, n \in Names : Alloc(t, a, n)
    \/ \E a \in Addrs : AllocUnnamed(t, a)
    \/ file_open(t)
    \/ file_open_insert(t)
    \/ VfsOpen(t)
    \/ VfsOpenFails(t)
    \/ \E a \in Addrs : Enter(t, a)
    \/ \E hook \in {"vfs_read", "vfs_write"} : Leave(t, hook)
    \/ \E a \in Addrs : Close(t, a)
    \/ filp_close_exit(t)
    \/ Free(t)
    \/ __fput(t)

Next == \E t \in Threads : Step(t)

Spec == Init /\ [][Next]_vars

(* A thread that has begun to release a file goes on. *)
FairSpec ==
    Spec /\ \A t \in Threads : WF_vars(Free(t) \/ __fput(t))

-----------------------------------------------------------------------------
(* Properties *)

Steps == {"idle", "hook", "copy", "open", "use", "close", "release", "fput"}

TypeOK ==
    /\ file \in [Addrs -> [name : Names \cup {NoName}, refs : SUBSET Hold]]
    /\ doing \in [Threads -> [step : Steps, addr : Addrs \cup {"none"},
                              name : Names \cup {NoName}, last : BOOLEAN]]
    /\ PATH_BUF \in [Cpus -> Names \cup {NoName}]
    /\ DOMAIN FILE_PATH_MAP \subseteq Addrs
    /\ FILE_PATH_MAP \in [DOMAIN FILE_PATH_MAP -> Names]
    /\ event \in [name : Names \cup {NoName}, path : Names \cup {NoName}]

(* __fput's program is still to run for an earlier file at a. *)
Releasing(a) == \E t \in Threads : At(t, "fput") /\ doing[t].addr = a

(* The table has a file's own path or none, unless an earlier file at its   *)
(* address is still being released: file_open overwrites what it finds, and *)
(* nothing else puts a path under a live file.  Needs CpuPerThread.         *)
PathUnlessReleasing ==
    \A a \in DOMAIN FILE_PATH_MAP :
        Live(a) => FILE_PATH_MAP[a] = file[a].name \/ Releasing(a)

(* An entry belongs to a file that lives or is being released, so that the  *)
(* table of 4096 entries cannot fill up with the dead, and a pipe does not  *)
(* inherit a path: every way a file ends passes through __fput.             *)
EntriesAreJustified ==
    \A a \in DOMAIN FILE_PATH_MAP : Live(a) \/ Releasing(a)

(* The steps of a call at which the caller has the only reference. *)
Sole(t) ==
    \/ doing[t].step \in {"hook", "copy", "open", "release"}
    \/ At(t, "close") /\ doing[t].last

(* A thread at such a step has the file to itself, and one in a read or     *)
(* write has a reference; ...                                               *)
CallsHaveRefs ==
    \A t \in Threads :
        /\ ~At(t, "idle") => doing[t].addr \in Addrs
        /\ Sole(t) => file[doing[t].addr].refs = {t}
        /\ At(t, "use") => t \in file[doing[t].addr].refs
        /\ Sole(t) \/ At(t, "use") => doing[t].name = file[doing[t].addr].name

(* ... nobody else has one. *)
RefsHaveCalls ==
    \A a \in Addrs : \A t \in Threads :
        t \in file[a].refs => doing[t].addr = a /\ (Sole(t) \/ At(t, "use"))

(* A thread that is about to copy a path has written one on its CPU. *)
BufIsWritten ==
    \A t \in Threads :
        /\ At(t, "hook") \/ At(t, "copy") => doing[t].name \in Names
        /\ At(t, "copy") => PATH_BUF[Cpu[t]] \in Names

(* What makes EntriesAreJustified inductive. *)
TableInv ==
    /\ TypeOK
    /\ CallsHaveRefs
    /\ RefsHaveCalls
    /\ BufIsWritten
    /\ EntriesAreJustified

(* Nobody is preempted between bpf_d_path and the copy. *)
CpuPerThread == \A s, t \in Threads : Cpu[s] = Cpu[t] => s = t

(* On a CPU of its own a thread copies the path it wrote. *)
BufIsOwn ==
    CpuPerThread =>
        \A t \in Threads : At(t, "copy") => PATH_BUF[Cpu[t]] = doing[t].name

(* "Returns the full path associated with the event": the path of the file  *)
(* that was opened, read, written or closed.                                *)
PathIsTheFiles == event.path = event.name

(* The steps at which a thread reports a file it has a reference to: an     *)
(* open, a read or write, and a close that dropped the last one and is yet  *)
(* to release the file.                                                     *)
HoldsReported(t) ==
    doing[t].step \in {"open", "use"} \/ (At(t, "close") /\ doing[t].last)

(* What is true of it: such a report has the path of its file, unless       *)
(* __fput's program is still to run for an earlier file at the address.     *)
(* Any other close has no reference when it is reported.                    *)
PathIsTheFilesOrReleasing ==
    [][\A t \in Threads :
          HoldsReported(t) /\ doing'[t] # doing[t] /\ event' # NoEvent =>
             \/ event'.path = doing[t].name /\ event'.name = doing[t].name
             \/ Releasing(doing[t].addr)]_vars

(* FileReadEvent and FileWriteEvent are "emitted immediately after the      *)
(* kernel finishes processing" the request: a read or write of a file whose *)
(* path can be recorded is reported.  Nothing is filtered here and the ring *)
(* has room.  Not so if __fput's program removed the entry of the file that *)
(* took the address, even in a table with room for all.                     *)
AccessIsReported ==
    [][\A t \in Threads :
          At(t, "use") /\ doing'[t].step # "use"
          /\ doing[t].name \notin TooLong \cup {NoName} => event' # NoEvent]_vars

(* The path of a released file leaves the table, or its address is in use   *)
(* again.                                                                   *)
PathsReclaimed ==
    \A a \in Addrs :
        (a \in DOMAIN FILE_PATH_MAP /\ ~Live(a))
            ~> (a \notin DOMAIN FILE_PATH_MAP \/ Live(a))
=============================================================================
