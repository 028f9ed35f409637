-------------------------- MODULE FilePathsProofs ---------------------------
(***************************************************************************)
(* For every set of threads, addresses and paths and every size of the     *)
(* table: FilePaths keeps its types, no entry of FILE_PATH_MAP outlives    *)
(* its file, and with a CPU per thread an entry of a live file is its own  *)
(* or about to be removed.                                                 *)
(***************************************************************************)
EXTENDS FilePaths, TLAPS

(* The programs that report a path do so only if the table has one. *)
LEMMA SubmitNeedsPath ==
    ASSUME NEW ctx,
           NEW hook \in {"vfs_open", "vfs_read", "vfs_write", "filp_close"},
           Outcome(hook, ctx) = "submit"
    PROVE  ctx.input.path
  BY DEF Outcome, vfs_open, vfs_read, vfs_write, filp_close, Reserved

(* What it then submits is the name of the file and the path of the table. *)
LEMMA ReportIsTheEntry ==
    ASSUME NEW hook \in {"vfs_open", "vfs_read", "vfs_write", "filp_close"},
           NEW a, NEW n, NEW mode, Report(hook, a, n, mode)
    PROVE  \/ event' = NoEvent
           \/ /\ a \in DOMAIN FILE_PATH_MAP
              /\ event' = [name |-> n, path |-> FILE_PATH_MAP[a]]
  <1> DEFINE ctx == [key |-> [kind |-> "None", id |-> 0], config |-> FileTypes,
                     header |-> <<>>,
                     input |-> [null |-> FALSE, mode |-> mode,
                                path |-> a \in DOMAIN FILE_PATH_MAP]]
  <1>1. CASE Outcome(hook, ctx) = "submit"
    <2>1. ctx.input.path
      BY <1>1, SubmitNeedsPath
    <2>2. ctx.input.path <=> a \in DOMAIN FILE_PATH_MAP
      OBVIOUS
    <2> QED
      BY <1>1, <2>1, <2>2 DEF Report
  <1>2. CASE Outcome(hook, ctx) # "submit"
    BY <1>2 DEF Report
  <1> QED
    BY <1>1, <1>2

LEMMA ReportType ==
    ASSUME TypeOK,
           NEW hook \in {"vfs_open", "vfs_read", "vfs_write", "filp_close"},
           NEW a, NEW n \in Names \cup {NoName}, NEW mode,
           Report(hook, a, n, mode)
    PROVE  event' \in [name : Names \cup {NoName}, path : Names \cup {NoName}]
  BY ReportIsTheEntry DEF TypeOK, NoEvent

(* Insert and Remove keep the type of the table. *)
LEMMA InsertType ==
    ASSUME TypeOK, NEW a \in Addrs, NEW path \in Names, Insert(a, path)
    PROVE  /\ DOMAIN FILE_PATH_MAP' \subseteq Addrs
           /\ FILE_PATH_MAP' \in [DOMAIN FILE_PATH_MAP' -> Names]
           /\ DOMAIN FILE_PATH_MAP' \subseteq DOMAIN FILE_PATH_MAP \cup {a}
           /\ \A b \in DOMAIN FILE_PATH_MAP' :
                 \/ b = a /\ FILE_PATH_MAP'[b] = path
                 \/ b \in DOMAIN FILE_PATH_MAP /\ FILE_PATH_MAP'[b] = FILE_PATH_MAP[b]
  BY DEF TypeOK, Insert

LEMMA RemoveType ==
    ASSUME TypeOK, NEW a, Remove(a)
    PROVE  /\ DOMAIN FILE_PATH_MAP' = DOMAIN FILE_PATH_MAP \ {a}
           /\ FILE_PATH_MAP' \in [DOMAIN FILE_PATH_MAP' -> Names]
           /\ \A b \in DOMAIN FILE_PATH_MAP' : FILE_PATH_MAP'[b] = FILE_PATH_MAP[b]
  BY DEF TypeOK, Remove

LEMMA InitTableInv ==
    Init => TableInv /\ BufIsOwn /\ PathUnlessReleasing
  BY FilePathsAssumption
  DEF Init, TableInv, TypeOK, CallsHaveRefs, RefsHaveCalls, BufIsWritten,
      EntriesAreJustified, BufIsOwn, PathUnlessReleasing, NoFile, Idle, NoEvent, At, Sole, Steps, Hold

-----------------------------------------------------------------------------
(* TypeOK is kept by every step; that a thread at "copy" finds a path in its
   buffer and one in a call has an address comes from the invariant. *)
LEMMA NextTypeOK ==
    ASSUME TableInv, [Next]_vars
    PROVE  TypeOK'
  <1>0. ASSUME NEW a, Remove(a)
        PROVE  /\ DOMAIN FILE_PATH_MAP' \subseteq Addrs
               /\ FILE_PATH_MAP' \in [DOMAIN FILE_PATH_MAP' -> Names]
    <2>1. TypeOK
      BY DEF TableInv
    <2>2. DOMAIN FILE_PATH_MAP \subseteq Addrs
      BY <2>1 DEF TypeOK
    <2> QED
      BY <1>0, <2>1, <2>2, RemoveType
  <1> USE FilePathsAssumption
      DEF TableInv, TypeOK, Steps, Hold, NoEvent, NoFile, Idle, At
  <1>1. ASSUME NEW t \in Threads, NEW a \in Addrs, NEW n \in Names,
               Alloc(t, a, n)
        PROVE  TypeOK'
    BY <1>1 DEF Alloc
  <1>2. ASSUME NEW t \in Threads, NEW a \in Addrs, AllocUnnamed(t, a)
        PROVE  TypeOK'
    BY <1>2 DEF AllocUnnamed
  <1>3. ASSUME NEW t \in Threads, file_open(t)
        PROVE  TypeOK'
    <2>1. CASE doing[t].name \in TooLong
      BY <1>3, <2>1 DEF file_open
    <2>2. CASE doing[t].name \notin TooLong
      <3>1. Cpu[t] \in Cpus /\ doing[t].name \in Names
        BY <1>3 DEF file_open, Cpus, BufIsWritten
      <3>2. PATH_BUF' \in [Cpus -> Names \cup {NoName}]
        BY <1>3, <2>2, <3>1 DEF file_open
      <3>3. /\ doing' = [doing EXCEPT ![t].step = "copy"]
            /\ UNCHANGED <<file, FILE_PATH_MAP>> /\ event' = NoEvent
        BY <1>3, <2>2 DEF file_open
      <3> QED
        BY <3>2, <3>3
    <2> QED
      BY <2>1, <2>2
  <1>4. ASSUME NEW t \in Threads, file_open_insert(t)
        PROVE  TypeOK'
    BY <1>4, InsertType DEF file_open_insert, CallsHaveRefs, BufIsWritten
  <1>5. ASSUME NEW t \in Threads, VfsOpen(t)
        PROVE  TypeOK'
    BY <1>5, ReportType DEF VfsOpen, CallsHaveRefs
  <1>6. ASSUME NEW t \in Threads, VfsOpenFails(t)
        PROVE  TypeOK'
    BY <1>6, ReportType DEF VfsOpenFails
  <1>7. ASSUME NEW t \in Threads, NEW a \in Addrs, Enter(t, a)
        PROVE  TypeOK'
    BY <1>7 DEF Enter
  <1>8. ASSUME NEW t \in Threads, NEW hook \in {"vfs_read", "vfs_write"},
               Leave(t, hook)
        PROVE  TypeOK'
    <2>1. event' \in [name : Names \cup {NoName}, path : Names \cup {NoName}]
      BY <1>8, ReportType DEF Leave
    <2>2. CASE file[doing[t].addr].refs = {t}
      BY <1>8, <2>1, <2>2 DEF Leave
    <2>3. CASE file[doing[t].addr].refs # {t}
      <3>1. /\ doing' = [doing EXCEPT ![t] = Idle]
            /\ file' = [file EXCEPT ![doing[t].addr].refs = @ \ {t}]
            /\ UNCHANGED <<PATH_BUF, FILE_PATH_MAP>>
            /\ doing[t].addr \in Addrs
        BY <1>8, <2>3 DEF Leave, CallsHaveRefs
      <3> QED
        BY <2>1, <3>1
    <2> QED
      BY <2>2, <2>3
  <1>9. ASSUME NEW t \in Threads, NEW a \in Addrs, Close(t, a)
        PROVE  TypeOK'
    BY <1>9 DEF Close
  <1>10. ASSUME NEW t \in Threads, filp_close_exit(t)
         PROVE  TypeOK'
    BY <1>10, ReportType DEF filp_close_exit
  <1>11. ASSUME NEW t \in Threads, Free(t)
         PROVE  TypeOK'
    BY <1>11 DEF Free, CallsHaveRefs
  <1>12. ASSUME NEW t \in Threads, __fput(t)
         PROVE  TypeOK'
    <2>1. /\ DOMAIN FILE_PATH_MAP' \subseteq Addrs
          /\ FILE_PATH_MAP' \in [DOMAIN FILE_PATH_MAP' -> Names]
      BY <1>0, <1>12 DEF __fput
    <2>2. /\ doing' = [doing EXCEPT ![t] = Idle]
          /\ UNCHANGED <<file, PATH_BUF>> /\ event' = NoEvent
      BY <1>12 DEF __fput
    <2> QED
      BY <2>1, <2>2
  <1>13. CASE UNCHANGED vars
    BY <1>13 DEF vars
  <1> HIDE DEF TableInv, TypeOK
  <1> QED
    BY <1>1, <1>2, <1>3, <1>4, <1>5, <1>6, <1>7, <1>8, <1>9, <1>10, <1>11,
       <1>12, <1>13 DEF Next, Step

(* Whoever is in a call on a file refers to it. *)
LEMMA NextCallsHaveRefs ==
    ASSUME TableInv, [Next]_vars
    PROVE  CallsHaveRefs'
  <1> USE FilePathsAssumption
      DEF TableInv, TypeOK, CallsHaveRefs, RefsHaveCalls, Hold, NoFile, Idle, At, Sole
  <1>1. ASSUME NEW t \in Threads, NEW a \in Addrs, NEW n \in Names,
               Alloc(t, a, n)
        PROVE  CallsHaveRefs'
    <2>1. /\ doing' = [doing EXCEPT ![t] = [step |-> "hook", addr |-> a,
                                           name |-> n, last |-> FALSE]]
          /\ file' = [file EXCEPT ![a] = [name |-> n, refs |-> {t}]]
          /\ At(t, "idle") /\ file[a].refs = {}
      BY <1>1 DEF Alloc, Live
    <2> QED
      BY <2>1
  <1>2. ASSUME NEW t \in Threads, NEW a \in Addrs, AllocUnnamed(t, a)
        PROVE  CallsHaveRefs'
    <2>1. /\ file' = [file EXCEPT ![a] = [name |-> NoName, refs |-> {"fd"}]]
          /\ doing' = doing /\ file[a].refs = {}
      BY <1>2 DEF AllocUnnamed, Live
    <2>2. ASSUME NEW s \in Threads, Sole(s) \/ At(s, "use")
          PROVE  file'[doing[s].addr] = file[doing[s].addr]
      <3>1. doing[s].addr \in Addrs /\ s \in file[doing[s].addr].refs
        BY <2>2
      <3> QED
        BY <2>1, <3>1
    <2>3. \A s \in Threads : (Sole(s)' <=> Sole(s)) /\ doing'[s] = doing[s]
      BY <2>1
    <2> HIDE DEF Sole, TypeOK, RefsHaveCalls
    <2> QED
      BY <2>2, <2>3
  <1>3. ASSUME NEW t \in Threads, file_open(t)
        PROVE  CallsHaveRefs'
    <2>1. /\ \/ doing' = [doing EXCEPT ![t].step = "open"]
             \/ doing' = [doing EXCEPT ![t].step = "copy"]
          /\ file' = file /\ At(t, "hook")
      BY <1>3 DEF file_open
    <2>2. \A s \in Threads : /\ doing'[s].addr = doing[s].addr
                             /\ doing'[s].name = doing[s].name
                             /\ Sole(s)' <=> Sole(s)
                             /\ At(s, "use")' <=> At(s, "use")
                             /\ At(s, "idle")' <=> At(s, "idle")
      BY <2>1
    <2> HIDE DEF Sole, At, TypeOK, RefsHaveCalls
    <2> QED
      BY <2>1, <2>2
  <1>4. ASSUME NEW t \in Threads, file_open_insert(t)
        PROVE  CallsHaveRefs'
    BY <1>4 DEF file_open_insert
  <1>5. ASSUME NEW t \in Threads, VfsOpen(t)
        PROVE  CallsHaveRefs'
    BY <1>5 DEF VfsOpen
  <1>6. ASSUME NEW t \in Threads, VfsOpenFails(t)
        PROVE  CallsHaveRefs'
    BY <1>6 DEF VfsOpenFails
  <1>7. ASSUME NEW t \in Threads, NEW a \in Addrs, Enter(t, a)
        PROVE  CallsHaveRefs'
    BY <1>7 DEF Enter
  <1>8. ASSUME NEW t \in Threads, NEW hook \in {"vfs_read", "vfs_write"},
               Leave(t, hook)
        PROVE  CallsHaveRefs'
    BY <1>8 DEF Leave
  <1>9. ASSUME NEW t \in Threads, NEW a \in Addrs, Close(t, a)
        PROVE  CallsHaveRefs'
    <2>1. CASE file[a].refs = {"fd"}
      <3>1. /\ doing' = [doing EXCEPT ![t] = [step |-> "close", addr |-> a,
                                             name |-> file[a].name, last |-> TRUE]]
            /\ file' = [file EXCEPT ![a].refs = {t}]
            /\ At(t, "idle")
        BY <1>9, <2>1 DEF Close
      <3> QED
        BY <2>1, <3>1
    <2>2. CASE file[a].refs # {"fd"}
      <3>1. /\ doing' = [doing EXCEPT ![t] = [step |-> "close", addr |-> a,
                                             name |-> file[a].name, last |-> FALSE]]
            /\ file' = [file EXCEPT ![a].refs = @ \ {"fd"}]
            /\ At(t, "idle") /\ "fd" \in file[a].refs
        BY <1>9, <2>2 DEF Close
      <3> QED
        BY <2>2, <3>1
    <2> QED
      BY <2>1, <2>2
  <1>10. ASSUME NEW t \in Threads, filp_close_exit(t)
        PROVE  CallsHaveRefs'
    BY <1>10 DEF filp_close_exit
  <1>11. ASSUME NEW t \in Threads, Free(t)
        PROVE  CallsHaveRefs'
    BY <1>11 DEF Free
  <1>12. ASSUME NEW t \in Threads, __fput(t)
        PROVE  CallsHaveRefs'
    BY <1>12 DEF __fput
  <1>13. CASE UNCHANGED vars
    BY <1>13 DEF vars
  <1> HIDE DEF CallsHaveRefs
  <1> QED
    BY <1>1, <1>2, <1>3, <1>4, <1>5, <1>6, <1>7, <1>8, <1>9, <1>10, <1>11,
       <1>12, <1>13 DEF Next, Step

(* Whoever refers to a file is in a call on it. *)
LEMMA NextRefsHaveCalls ==
    ASSUME TableInv, [Next]_vars
    PROVE  RefsHaveCalls'
  <1> USE FilePathsAssumption
      DEF TableInv, TypeOK, CallsHaveRefs, RefsHaveCalls, Hold, NoFile, Idle, At, Sole
  <1>1. ASSUME NEW t \in Threads, NEW a \in Addrs, NEW n \in Names,
               Alloc(t, a, n)
        PROVE  RefsHaveCalls'
    BY <1>1 DEF Alloc, Live
  <1>2. ASSUME NEW t \in Threads, NEW a \in Addrs, AllocUnnamed(t, a)
        PROVE  RefsHaveCalls'
    BY <1>2 DEF AllocUnnamed, Live
  <1>3. ASSUME NEW t \in Threads, file_open(t)
        PROVE  RefsHaveCalls'
    BY <1>3 DEF file_open
  <1>4. ASSUME NEW t \in Threads, file_open_insert(t)
        PROVE  RefsHaveCalls'
    BY <1>4 DEF file_open_insert
  <1>5. ASSUME NEW t \in Threads, VfsOpen(t)
        PROVE  RefsHaveCalls'
    BY <1>5 DEF VfsOpen
  <1>6. ASSUME NEW t \in Threads, VfsOpenFails(t)
        PROVE  RefsHaveCalls'
    BY <1>6 DEF VfsOpenFails
  <1>7. ASSUME NEW t \in Threads, NEW a \in Addrs, Enter(t, a)
        PROVE  RefsHaveCalls'
    BY <1>7 DEF Enter
  <1>8. ASSUME NEW t \in Threads, NEW hook \in {"vfs_read", "vfs_write"},
               Leave(t, hook)
        PROVE  RefsHaveCalls'
    BY <1>8 DEF Leave
  <1>9. ASSUME NEW t \in Threads, NEW a \in Addrs, Close(t, a)
        PROVE  RefsHaveCalls'
    <2>1. CASE file[a].refs = {"fd"}
      <3>1. /\ doing' = [doing EXCEPT ![t] = [step |-> "close", addr |-> a,
                                             name |-> file[a].name, last |-> TRUE]]
            /\ file' = [file EXCEPT ![a].refs = {t}]
            /\ At(t, "idle")
        BY <1>9, <2>1 DEF Close
      <3> QED
        BY <2>1, <3>1
    <2>2. CASE file[a].refs # {"fd"}
      <3>1. /\ doing' = [doing EXCEPT ![t] = [step |-> "close", addr |-> a,
                                             name |-> file[a].name, last |-> FALSE]]
            /\ file' = [file EXCEPT ![a].refs = @ \ {"fd"}]
            /\ At(t, "idle") /\ "fd" \in file[a].refs
        BY <1>9, <2>2 DEF Close
      <3> QED
        BY <2>2, <3>1
    <2> QED
      BY <2>1, <2>2
  <1>10. ASSUME NEW t \in Threads, filp_close_exit(t)
        PROVE  RefsHaveCalls'
    BY <1>10 DEF filp_close_exit
  <1>11. ASSUME NEW t \in Threads, Free(t)
        PROVE  RefsHaveCalls'
    BY <1>11 DEF Free
  <1>12. ASSUME NEW t \in Threads, __fput(t)
        PROVE  RefsHaveCalls'
    BY <1>12 DEF __fput
  <1>13. CASE UNCHANGED vars
    BY <1>13 DEF vars
  <1> HIDE DEF RefsHaveCalls
  <1> QED
    BY <1>1, <1>2, <1>3, <1>4, <1>5, <1>6, <1>7, <1>8, <1>9, <1>10, <1>11,
       <1>12, <1>13 DEF Next, Step

(* A path is in the buffer when it is about to be copied. *)
LEMMA NextBufIsWritten ==
    ASSUME TableInv, [Next]_vars
    PROVE  BufIsWritten'
  <1> USE FilePathsAssumption
      DEF TableInv, TypeOK, Cpus, Idle, At, BufIsWritten
  <1>1. ASSUME NEW t \in Threads, NEW a \in Addrs, NEW n \in Names,
               Alloc(t, a, n)
        PROVE  BufIsWritten'
    BY <1>1 DEF Alloc
  <1>2. ASSUME NEW t \in Threads, NEW a \in Addrs, AllocUnnamed(t, a)
        PROVE  BufIsWritten'
    BY <1>2 DEF AllocUnnamed
  <1>3. ASSUME NEW t \in Threads, file_open(t)
        PROVE  BufIsWritten'
    <2>1. CASE doing[t].name \in TooLong
      BY <1>3, <2>1 DEF file_open
    <2>2. CASE doing[t].name \notin TooLong
      <3>1. /\ doing' = [doing EXCEPT ![t].step = "copy"]
            /\ PATH_BUF' = [PATH_BUF EXCEPT ![Cpu[t]] = doing[t].name]
            /\ doing[t].name \in Names
        BY <1>3, <2>2 DEF file_open
      <3> QED
        BY <3>1
    <2> QED
      BY <2>1, <2>2
  <1>4. ASSUME NEW t \in Threads, file_open_insert(t)
        PROVE  BufIsWritten'
    BY <1>4 DEF file_open_insert
  <1>5. ASSUME NEW t \in Threads, VfsOpen(t)
        PROVE  BufIsWritten'
    BY <1>5 DEF VfsOpen
  <1>6. ASSUME NEW t \in Threads, VfsOpenFails(t)
        PROVE  BufIsWritten'
    BY <1>6 DEF VfsOpenFails
  <1>7. ASSUME NEW t \in Threads, NEW a \in Addrs, Enter(t, a)
        PROVE  BufIsWritten'
    BY <1>7 DEF Enter
  <1>8. ASSUME NEW t \in Threads, NEW hook \in {"vfs_read", "vfs_write"},
               Leave(t, hook)
        PROVE  BufIsWritten'
    BY <1>8 DEF Leave
  <1>9. ASSUME NEW t \in Threads, NEW a \in Addrs, Close(t, a)
        PROVE  BufIsWritten'
    BY <1>9 DEF Close
  <1>10. ASSUME NEW t \in Threads, filp_close_exit(t)
        PROVE  BufIsWritten'
    BY <1>10 DEF filp_close_exit
  <1>11. ASSUME NEW t \in Threads, Free(t)
        PROVE  BufIsWritten'
    BY <1>11 DEF Free
  <1>12. ASSUME NEW t \in Threads, __fput(t)
        PROVE  BufIsWritten'
    BY <1>12 DEF __fput
  <1>13. CASE UNCHANGED vars
    BY <1>13 DEF vars
  <1> HIDE DEF BufIsWritten
  <1> QED
    BY <1>1, <1>2, <1>3, <1>4, <1>5, <1>6, <1>7, <1>8, <1>9, <1>10, <1>11,
       <1>12, <1>13 DEF Next, Step

(* An entry keeps its file, or somebody who will remove it. *)
LEMMA NextEntriesAreJustified ==
    ASSUME TableInv, [Next]_vars
    PROVE  EntriesAreJustified'
  <1> USE FilePathsAssumption
      DEF TableInv, TypeOK, Hold, NoFile, Idle, At, Sole, Live, Releasing,
          CallsHaveRefs, RefsHaveCalls, EntriesAreJustified
  (* A step that adds no entry, frees no file and ends no release. *)
  <1>0. ASSUME FILE_PATH_MAP' = FILE_PATH_MAP,
               \A b \in Addrs : file'[b].refs = file[b].refs \/ file'[b].refs # {},
               \A s \in Threads : At(s, "fput") => doing'[s] = doing[s]
        PROVE  EntriesAreJustified'
    <2> SUFFICES ASSUME NEW b \in DOMAIN FILE_PATH_MAP
                 PROVE  (Live(b) \/ Releasing(b))'
      BY <1>0
    <2>1. CASE Live(b)
      BY <1>0, <2>1
    <2>2. CASE Releasing(b)
      <3>1. PICK s \in Threads : At(s, "fput") /\ doing[s].addr = b
        BY <2>2
      <3> QED
        BY <1>0, <3>1
    <2> QED
      BY <2>1, <2>2
  <1>1. ASSUME NEW t \in Threads, NEW a \in Addrs, NEW n \in Names,
               Alloc(t, a, n)
        PROVE  EntriesAreJustified'
    <2>1. /\ file' = [file EXCEPT ![a] = [name |-> n, refs |-> {t}]]
          /\ FILE_PATH_MAP' = FILE_PATH_MAP
      BY <1>1 DEF Alloc
    <2>2. \A b \in Addrs : file'[b].refs = file[b].refs \/ t \in file'[b].refs
      BY <2>1
    <2>3. \A s \in Threads : At(s, "fput") => doing'[s] = doing[s]
      BY <1>1 DEF Alloc
    <2> QED
      BY <1>0, <2>1, <2>2, <2>3
  <1>2. ASSUME NEW t \in Threads, NEW a \in Addrs, AllocUnnamed(t, a)
        PROVE  EntriesAreJustified'
    <2>1. /\ file' = [file EXCEPT ![a] = [name |-> NoName, refs |-> {"fd"}]]
          /\ doing' = doing /\ FILE_PATH_MAP' = FILE_PATH_MAP
      BY <1>2 DEF AllocUnnamed
    <2>2. \A b \in Addrs : file'[b].refs = file[b].refs \/ "fd" \in file'[b].refs
      BY <2>1
    <2> QED
      BY <1>0, <2>1, <2>2
  <1>3. ASSUME NEW t \in Threads, file_open(t)
        PROVE  EntriesAreJustified'
    BY <1>3 DEF file_open
  <1>4. ASSUME NEW t \in Threads, file_open_insert(t)
        PROVE  EntriesAreJustified'
    <2>1. DOMAIN FILE_PATH_MAP' \subseteq DOMAIN FILE_PATH_MAP \cup {doing[t].addr}
      BY <1>4, InsertType DEF file_open_insert, BufIsWritten
    <2>2. file[doing[t].addr].refs # {}
      BY <1>4 DEF file_open_insert
    <2> QED
      BY <1>4, <2>1, <2>2 DEF file_open_insert
  <1>5. ASSUME NEW t \in Threads, VfsOpen(t)
        PROVE  EntriesAreJustified'
    <2>1. /\ doing' = [doing EXCEPT ![t] = Idle]
          /\ file' = [file EXCEPT ![doing[t].addr].refs = {"fd"}]
          /\ UNCHANGED FILE_PATH_MAP
          /\ At(t, "open") /\ doing[t].addr \in Addrs
      BY <1>5 DEF VfsOpen
    <2>2. \A b \in Addrs : file'[b].refs = file[b].refs \/ "fd" \in file'[b].refs
      BY <2>1
    <2>3. \A s \in Threads : At(s, "fput") => doing'[s] = doing[s]
      BY <2>1
    <2> QED
      BY <1>0, <2>1, <2>2, <2>3
  <1>6. ASSUME NEW t \in Threads, VfsOpenFails(t)
        PROVE  EntriesAreJustified'
    BY <1>6 DEF VfsOpenFails
  <1>7. ASSUME NEW t \in Threads, NEW a \in Addrs, Enter(t, a)
        PROVE  EntriesAreJustified'
    BY <1>7 DEF Enter
  <1>8. ASSUME NEW t \in Threads, NEW hook \in {"vfs_read", "vfs_write"},
               Leave(t, hook)
        PROVE  EntriesAreJustified'
    <2>1. /\ FILE_PATH_MAP' = FILE_PATH_MAP /\ doing[t].addr \in Addrs
          /\ t \in file[doing[t].addr].refs
          /\ \/ file' = file
             \/ /\ file' = [file EXCEPT ![doing[t].addr].refs = @ \ {t}]
                /\ file[doing[t].addr].refs # {t}
      BY <1>8 DEF Leave
    <2>2. \A b \in Addrs : file'[b].refs = file[b].refs \/ file'[b].refs # {}
      <3>1. CASE /\ file' = [file EXCEPT ![doing[t].addr].refs = @ \ {t}]
                 /\ file[doing[t].addr].refs # {t}
        <4>1. file[doing[t].addr].refs \ {t} # {}
          BY <2>1, <3>1
        <4> QED
          BY <2>1, <3>1, <4>1
      <3> QED
        BY <2>1, <3>1
    <2>3. \A s \in Threads : At(s, "fput") => doing'[s] = doing[s]
      BY <1>8 DEF Leave
    <2> QED
      BY <1>0, <2>1, <2>2, <2>3
  <1>9. ASSUME NEW t \in Threads, NEW a \in Addrs, Close(t, a)
        PROVE  EntriesAreJustified'
    <2>1. /\ FILE_PATH_MAP' = FILE_PATH_MAP
          /\ \/ file' = [file EXCEPT ![a].refs = {t}]
             \/ /\ file' = [file EXCEPT ![a].refs = @ \ {"fd"}]
                /\ "fd" \in file[a].refs /\ file[a].refs # {"fd"}
      BY <1>9 DEF Close
    <2>2. \A b \in Addrs : file'[b].refs = file[b].refs \/ file'[b].refs # {}
      <3>1. CASE file' = [file EXCEPT ![a].refs = {t}]
        BY <3>1
      <3>2. CASE /\ file' = [file EXCEPT ![a].refs = @ \ {"fd"}]
                 /\ "fd" \in file[a].refs /\ file[a].refs # {"fd"}
        <4>1. file[a].refs \ {"fd"} # {}
          BY <3>2
        <4> QED
          BY <3>2, <4>1
      <3> QED
        BY <2>1, <3>1, <3>2
    <2>3. \A s \in Threads : At(s, "fput") => doing'[s] = doing[s]
      BY <1>9 DEF Close
    <2> QED
      BY <1>0, <2>1, <2>2, <2>3
  <1>10. ASSUME NEW t \in Threads, filp_close_exit(t)
        PROVE  EntriesAreJustified'
    BY <1>10 DEF filp_close_exit
  <1>11. ASSUME NEW t \in Threads, Free(t)
        PROVE  EntriesAreJustified'
    BY <1>11 DEF Free
  <1>12. ASSUME NEW t \in Threads, __fput(t)
        PROVE  EntriesAreJustified'
    <2> SUFFICES ASSUME NEW b \in DOMAIN FILE_PATH_MAP'
                 PROVE  (Live(b) \/ Releasing(b))'
      OBVIOUS
    <2>1. b # doing[t].addr /\ b \in DOMAIN FILE_PATH_MAP
      BY <1>12 DEF __fput, Remove
    <2>2. CASE Live(b)
      BY <1>12, <2>2 DEF __fput
    <2>3. CASE Releasing(b)
      <3>1. PICK s \in Threads : At(s, "fput") /\ doing[s].addr = b
        BY <2>3
      <3>2. doing'[s] = doing[s]
        BY <1>12, <2>1, <3>1 DEF __fput
      <3> QED
        BY <3>1, <3>2
    <2> QED
      BY <2>1, <2>2, <2>3
  <1>13. CASE UNCHANGED vars
    BY <1>13 DEF vars
  <1> HIDE DEF EntriesAreJustified
  <1> QED
    BY <1>1, <1>2, <1>3, <1>4, <1>5, <1>6, <1>7, <1>8, <1>9, <1>10, <1>11,
       <1>12, <1>13 DEF Next, Step

LEMMA NextTableInv ==
    TableInv /\ [Next]_vars => TableInv'
  BY NextTypeOK, NextCallsHaveRefs, NextRefsHaveCalls, NextBufIsWritten,
     NextEntriesAreJustified
  DEF TableInv

(* TableInv, the inductive strengthening of EntriesAreJustified. *)
THEOREM TableInvariant == Spec => []TableInv
  BY InitTableInv, NextTableInv, PTL DEF Spec

(* The types of the table, the buffers, the files and the events. *)
THEOREM TypeCorrect == Spec => []TypeOK
  <1>1. TableInv => TypeOK
    BY DEF TableInv
  <1> QED
    BY <1>1, TableInvariant, PTL

(* Whatever the order of opens, failed opens, reads, closes and releases, no
   entry of FILE_PATH_MAP outlives its file and the pending __fput. *)
THEOREM EntriesJustified == Spec => []EntriesAreJustified
  <1>1. TableInv => EntriesAreJustified
    BY DEF TableInv
  <1> QED
    BY <1>1, TableInvariant, PTL

-----------------------------------------------------------------------------
(* With a CPU per thread nobody overwrites a buffer between bpf_d_path and
   the copy. *)
LEMMA NextBufIsOwn ==
    ASSUME TableInv, BufIsOwn, [Next]_vars
    PROVE  BufIsOwn'
  <1> SUFFICES ASSUME CpuPerThread, NEW s \in Threads, At(s, "copy")'
               PROVE  PATH_BUF'[Cpu[s]] = doing'[s].name
    BY DEF BufIsOwn
  <1> USE FilePathsAssumption
      DEF TableInv, TypeOK, Cpus, Idle, At, BufIsOwn, CpuPerThread
  <1>1. ASSUME NEW t \in Threads, file_open(t)
        PROVE  PATH_BUF'[Cpu[s]] = doing'[s].name
    <2>1. CASE doing[t].name \in TooLong
      BY <1>1, <2>1 DEF file_open
    <2>2. CASE doing[t].name \notin TooLong
      BY <1>1, <2>2 DEF file_open
    <2> QED
      BY <2>1, <2>2
  <1>2. CASE ~\E t \in Threads : file_open(t)
    <2>1. UNCHANGED PATH_BUF
      BY <1>2
      DEF Next, Step, vars, Alloc, AllocUnnamed, file_open_insert, VfsOpen,
          VfsOpenFails, Enter, Leave, Close, filp_close_exit, Free, __fput
    <2>2. doing'[s] = doing[s]
      <3>1. ASSUME NEW t \in Threads, NEW d, d.step # "copy",
                   doing' = [doing EXCEPT ![t] = d]
            PROVE  doing'[s] = doing[s]
        BY <3>1
      <3>2. ASSUME NEW t \in Threads, Step(t)
            PROVE  doing'[s] = doing[s]
        BY <1>2, <3>1, <3>2
        DEF Step, Alloc, AllocUnnamed, file_open_insert, VfsOpen,
            VfsOpenFails, Enter, Leave, Close, filp_close_exit, Free, __fput
      <3> QED
        BY <3>2 DEF Next, vars
    <2> QED
      BY <2>1, <2>2
  <1> QED
    BY <1>1, <1>2

(* A file that is freed, opened or used keeps its own path, unless a release
   of its address is pending. *)
LEMMA NextPathUnlessReleasing ==
    ASSUME CpuPerThread, TableInv, BufIsOwn, PathUnlessReleasing, [Next]_vars
    PROVE  PathUnlessReleasing'
  <1> SUFFICES ASSUME NEW b \in DOMAIN FILE_PATH_MAP', Live(b)'
               PROVE  FILE_PATH_MAP'[b] = file'[b].name \/ Releasing(b)'
    BY DEF PathUnlessReleasing
  <1> DEFINE Goal == FILE_PATH_MAP'[b] = file'[b].name \/ Releasing(b)'
  <1>0. b \in Addrs
    BY NextTableInv DEF TableInv, TypeOK
  <1> USE <1>0, FilePathsAssumption
      DEF TableInv, TypeOK, Hold, At, Live, PathUnlessReleasing
  (* Only __fput ends a release. *)
  <1>1. ASSUME Releasing(b), ~\E t \in Threads : __fput(t)
        PROVE  Releasing(b)'
    <2>1. PICK s \in Threads : At(s, "fput") /\ doing[s].addr = b
      BY <1>1 DEF Releasing
    <2>2. doing'[s] = doing[s]
      <3>1. CASE UNCHANGED vars
        BY <3>1 DEF vars
      <3>2. ASSUME NEW t \in Threads, Step(t)
            PROVE  doing'[s] = doing[s]
        <4>1. t # s
          BY <1>1, <2>1, <3>2
          DEF Step, Alloc, AllocUnnamed, file_open, file_open_insert, VfsOpen,
              VfsOpenFails, Enter, Leave, Close, filp_close_exit, Free
        <4> QED
          BY <1>1, <3>2, <4>1
          DEF Step, Alloc, AllocUnnamed, file_open, file_open_insert, VfsOpen,
              VfsOpenFails, Enter, Leave, Close, filp_close_exit, Free
      <3> QED
        BY <3>1, <3>2 DEF Next
    <2> QED
      BY <2>1, <2>2 DEF Releasing
  (* An address that is taken again had no file. *)
  <1>2. ASSUME NEW a \in Addrs, ~Live(a), UNCHANGED FILE_PATH_MAP,
               \A c \in Addrs \ {a} : file'[c] = file[c],
               ~\E t \in Threads : __fput(t)
        PROVE  Goal
    BY <1>1, <1>2 DEF EntriesAreJustified
  <1>3. ASSUME UNCHANGED FILE_PATH_MAP, file'[b].name = file[b].name, Live(b),
               ~\E t \in Threads : __fput(t)
        PROVE  Goal
    BY <1>1, <1>3
  <1>4. ASSUME NEW t \in Threads, __fput(t)
        PROVE  Goal
    <2>1. b # doing[t].addr /\ b \in DOMAIN FILE_PATH_MAP
      BY <1>4 DEF __fput, Remove
    <2>2. FILE_PATH_MAP'[b] = FILE_PATH_MAP[b] /\ UNCHANGED file
      BY <1>4 DEF __fput, Remove
    <2>3. ASSUME Releasing(b)
          PROVE  Releasing(b)'
      <3>1. PICK s \in Threads : At(s, "fput") /\ doing[s].addr = b
        BY <2>3 DEF Releasing
      <3>2. doing'[s] = doing[s]
        BY <1>4, <2>1, <3>1 DEF __fput
      <3> QED
        BY <3>1, <3>2 DEF Releasing
    <2> QED
      BY <2>1, <2>2, <2>3
  <1>5. CASE ~\E t \in Threads : __fput(t)
    <2>1. ASSUME NEW t \in Threads, NEW a \in Addrs,
                 AllocUnnamed(t, a) \/ \E n \in Names : Alloc(t, a, n)
          PROVE  Goal
      BY <1>2, <1>5, <2>1 DEF Alloc, AllocUnnamed
    <2>2. ASSUME NEW t \in Threads, file_open_insert(t)
          PROVE  Goal
      <3>1. /\ doing[t].addr \in Addrs
            /\ PATH_BUF[Cpu[t]] \in Names
            /\ PATH_BUF[Cpu[t]] = file[doing[t].addr].name
        BY <2>2
        DEF file_open_insert, CallsHaveRefs, Sole, BufIsWritten, BufIsOwn
      <3>2. CASE b = doing[t].addr /\ FILE_PATH_MAP'[b] = PATH_BUF[Cpu[t]]
        BY <2>2, <3>1, <3>2 DEF file_open_insert
      <3>3. CASE b \in DOMAIN FILE_PATH_MAP /\ FILE_PATH_MAP'[b] = FILE_PATH_MAP[b]
        BY <1>1, <1>5, <2>2, <3>3 DEF file_open_insert
      <3> QED
        BY <2>2, <3>1, <3>2, <3>3, InsertType DEF file_open_insert
    <2>3. ASSUME NEW t \in Threads,
                 VfsOpen(t) \/ \E hook \in {"vfs_read", "vfs_write"} : Leave(t, hook)
          PROVE  Goal
      <3>1. doing[t].addr \in Addrs /\ t \in file[doing[t].addr].refs
        BY <2>3 DEF VfsOpen, Leave, CallsHaveRefs, Sole
      <3>2. Live(b)
        BY <2>3, <3>1 DEF VfsOpen, Leave
      <3>3. \/ file' = [file EXCEPT ![doing[t].addr].refs = {"fd"}]
            \/ file' = [file EXCEPT ![doing[t].addr].refs = @ \ {t}]
            \/ UNCHANGED file
        BY <2>3 DEF VfsOpen, Leave
      <3>4. file'[b].name = file[b].name
        <4>1. CASE file' = [file EXCEPT ![doing[t].addr].refs = {"fd"}]
          BY <4>1
        <4>2. CASE file' = [file EXCEPT ![doing[t].addr].refs = @ \ {t}]
          BY <4>2
        <4> QED
          BY <3>3, <4>1, <4>2
      <3>5. UNCHANGED FILE_PATH_MAP
        BY <2>3 DEF VfsOpen, Leave
      <3> QED
        BY <1>3, <1>5, <3>2, <3>4, <3>5
    <2>4. ASSUME NEW t \in Threads, NEW a \in Addrs, Enter(t, a) \/ Close(t, a)
          PROVE  Goal
      BY <1>3, <1>5, <2>4 DEF Enter, Close
    <2>5. ASSUME NEW t \in Threads, Free(t)
          PROVE  Goal
      BY <1>3, <1>5, <2>5 DEF Free, NoFile, CallsHaveRefs, Sole
    <2>6. CASE UNCHANGED <<file, FILE_PATH_MAP>>
      BY <1>3, <1>5, <2>6
    <2> HIDE DEF TableInv, TypeOK, PathUnlessReleasing
    <2>7. ASSUME NEW t \in Threads, Step(t)
          PROVE  Goal
      <3>1. CASE file_open(t) \/ VfsOpenFails(t) \/ filp_close_exit(t)
        BY <2>6, <3>1 DEF file_open, VfsOpenFails, filp_close_exit
      <3> QED
        BY <1>5, <2>1, <2>2, <2>3, <2>4, <2>5, <2>7, <3>1 DEF Step
    <2> QED
      BY <2>6, <2>7 DEF Next, vars
  <1> QED
    BY <1>4, <1>5

LEMMA PathInvariant ==
    ASSUME CpuPerThread
    PROVE  Spec => [](TableInv /\ BufIsOwn /\ PathUnlessReleasing)
  <1>1. Init => TableInv /\ BufIsOwn /\ PathUnlessReleasing
    BY InitTableInv
  <1>2. /\ TableInv /\ BufIsOwn /\ PathUnlessReleasing
        /\ [Next]_vars
        => (TableInv /\ BufIsOwn /\ PathUnlessReleasing)'
    BY CpuPerThread, NextTableInv, NextBufIsOwn, NextPathUnlessReleasing
  <1> QED
    BY <1>1, <1>2, PTL DEF Spec

(* Where no open is preempted, the table has for a live file its own path,
   none, or one that a pending __fput will remove. *)
THEOREM PathsOfLiveFiles ==
    ASSUME CpuPerThread
    PROVE  Spec => []PathUnlessReleasing
  BY PathInvariant, PTL

(* There, an open, read or write, and a close that dropped the last
   reference, is reported with its file's path, unless the address is still
   being released for an earlier file. *)
THEOREM ReportedPaths ==
    ASSUME CpuPerThread
    PROVE  Spec => PathIsTheFilesOrReleasing
  <1> DEFINE Right ==
          \A t \in Threads :
              HoldsReported(t) /\ doing'[t] # doing[t] /\ event' # NoEvent =>
                 \/ event'.path = doing[t].name /\ event'.name = doing[t].name
                 \/ Releasing(doing[t].addr)
  <1>1. ASSUME TableInv, PathUnlessReleasing, [Next]_vars
        PROVE  [Right]_vars
    <2> SUFFICES ASSUME NEW t \in Threads, Next,
                        HoldsReported(t),
                        doing'[t] # doing[t], event' # NoEvent
                 PROVE  \/ event'.path = doing[t].name /\ event'.name = doing[t].name
                        \/ Releasing(doing[t].addr)
      BY <1>1
    <2> DEFINE a == doing[t].addr
    <2>1. /\ a \in Addrs
          /\ Live(a)
          /\ doing[t].name = file[a].name
      BY <1>1 DEF TableInv, CallsHaveRefs, HoldsReported, Sole, At, Live
    <2>2. \E hook \in {"vfs_open", "vfs_read", "vfs_write", "filp_close"},
              mode \in {"REG", "none"} :
             Report(hook, a, doing[t].name, mode)
      <3>1. PICK s \in Threads : Step(s)
        BY DEF Next
      <3>2. s = t
        BY <1>1, <3>1
        DEF Step, TableInv, TypeOK, Alloc, AllocUnnamed, file_open,
            file_open_insert, VfsOpen, VfsOpenFails, Enter, Leave, Close,
            filp_close_exit, Free, __fput
      <3> QED
        BY <3>1, <3>2
        DEF HoldsReported, Step, At, Alloc, AllocUnnamed, file_open, file_open_insert, VfsOpen,
            VfsOpenFails, Enter, Leave, Close, filp_close_exit, Free, __fput
    <2>3. a \in DOMAIN FILE_PATH_MAP
          /\ event' = [name |-> doing[t].name, path |-> FILE_PATH_MAP[a]]
      BY <2>2, ReportIsTheEntry
    <2> QED
      BY <1>1, <2>1, <2>3 DEF PathUnlessReleasing
  <1> QED
    BY <1>1, PathInvariant, PTL DEF Spec, PathIsTheFilesOrReleasing
=============================================================================
