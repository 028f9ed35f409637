------------------------------- MODULE Probes -------------------------------
(***************************************************************************)
(* The decisions of the eBPF programs and of the functions that attach     *)
(* them, as tables and operators.  A mask is the set of its flags.         *)
(*                                                                         *)
(* A program runs with a context: the header of its thread (pid, tid, ppid, *)
(* uid, gid), the FILTER entry of its owner (key), the CONFIG entry         *)
(* (config), and what it finds out about its arguments (input):            *)
(*   null       the object it is about is a null pointer                   *)
(*   readable   the socket's family, or the tracepoint's fields, are read  *)
(*   addresses  the IPv6 addresses are read                                *)
(*   family     "v4", "v6" or "other": the socket's skc_family             *)
(*   sock       "Tcp" or "Udp": the protocol the socket really has         *)
(*   mode       the file type of i_mode & S_IFMT, "none" if unknown        *)
(*   path       FILE_PATH_MAP has an entry for the file                    *)
(***************************************************************************)
EXTENDS Naturals

FileTypes == {"REG", "DIR", "CHR", "BLK", "FIFO", "LNK", "SOCK"}

-----------------------------------------------------------------------------
(* Which EventType a program writes into the header. *)
EventType ==
    [tcp_v4_connect     |-> "Connect",
     tcp_v6_connect     |-> "Connect",
     udp_connect        |-> "Connect",
     udpv6_connect      |-> "Connect",
     inet_csk_accept    |-> "Accept",
     tcp_close          |-> "Close",
     udp_destroy_sock   |-> "Close",
     inet_bind          |-> "Bind",
     inet_listen        |-> "Listen",
     sched_process_exec |-> "ProcessStart",
     sched_process_fork |-> "ProcessFork",
     do_group_exit      |-> "ProcessExit",
     vfs_open           |-> "FileOpen",
     filp_close         |-> "FileClose",
     vfs_read           |-> "FileRead",
     vfs_write          |-> "FileWrite",
     vfs_unlink         |-> "FileDelete",
     vfs_rename         |-> "FileRename",
     vfs_rename_retval  |-> "PendingFileRename",
     vm_mmap_pgoff      |-> "MemoryMap",
     __vm_munmap        |-> "MemoryUnMap"]

Hooks == DOMAIN EventType

NetworkEvents == {"Connect", "Accept", "Close", "Bind", "Listen"}
ProcessEvents == {"ProcessStart", "ProcessFork", "ProcessExit"}
FileEvents == {"FileOpen", "FileClose", "FileRead", "FileWrite", "FileDelete",
               "FileRename", "PendingFileRename"}
MemoryEvents == {"MemoryMap", "MemoryUnMap"}

(* The register whose convert_*_events has an arm for the event type; the   *)
(* three others fall through to "_ => {}".                                  *)
ConvertedBy(event) ==
    CASE event \in NetworkEvents -> "Network"
      [] event \in ProcessEvents -> "Process"
      [] event \in FileEvents    -> "File"
      [] event \in MemoryEvents  -> "Memory"

(* The protocol number passed to emit_v4 / emit_v6: 1 is Tcp, 2 is Udp. *)
UdpHooks == {"udp_connect", "udpv6_connect", "udp_destroy_sock"}
RawProtocol(hook) == IF hook \in UdpHooks THEN "Udp" ELSE "Tcp"

(* handle_tcp_accept, handle_bind and handle_listen do not look at the record's *)
(* protocol.                                                                *)
Protocol(hook) ==
    IF EventType[hook] \in {"Accept", "Bind", "Listen"} THEN "Tcp"
    ELSE RawProtocol(hook)

(* Fault: inet_listen passes None, as tcp_close does. *)
RetvalNotOfListen == {"tcp_v4_connect", "tcp_v6_connect", "udp_connect",
                      "udpv6_connect", "inet_bind"}

(* The programs that pass Some(retval), and the event types whose handler   *)
(* calls retval.unwrap().                                                   *)
HooksWithRetval == {"tcp_v4_connect", "tcp_v6_connect", "udp_connect",
                    "udpv6_connect", "inet_bind", "inet_listen"}
UnwrapsRetval == {"Connect", "Bind", "Listen"}

-----------------------------------------------------------------------------
(* The attach_*_probe functions: which programs a filter attaches. *)
NetworkProbes ==
    { <<"TCP", "CONNECT", {"tcp_v4_connect", "tcp_v6_connect"}>>,
      <<"TCP", "ACCEPT",  {"inet_csk_accept"}>>,
      <<"TCP", "CLOSE",   {"tcp_close"}>>,
      <<"TCP", "BIND",    {"inet_bind"}>>,
      <<"TCP", "LISTEN",  {"inet_listen"}>>,
      <<"UDP", "CONNECT", {"udp_connect", "udpv6_connect"}>>,
      <<"UDP", "CLOSE",   {"udp_destroy_sock"}>> }

attach_network_probe(f) ==
    UNION {p[3] : p \in {q \in NetworkProbes : /\ q[1] \in f.protocol_mask
                                               /\ q[2] \in f.mask}}

ProcessProbes ==
    [START |-> {"sched_process_exec"}, FORK |-> {"sched_process_fork"},
     EXIT |-> {"do_group_exit"}]

attach_process_probe(f) == UNION {ProcessProbes[m] : m \in f.mask}

(* Besides, file_open (lsm) and __fput are attached; they emit nothing. *)
FileProbes ==
    [OPEN |-> {"vfs_open"}, CLOSE |-> {"filp_close"}, READ |-> {"vfs_read"},
     WRITE |-> {"vfs_write"}, DELETE |-> {"vfs_unlink"},
     RENAME |-> {"vfs_rename", "vfs_rename_retval"}]

attach_file_probe(f) == UNION {FileProbes[m] : m \in f.mask}

MemoryProbes == [MMAP |-> {"vm_mmap_pgoff"}, UNMAP |-> {"__vm_munmap"}]

attach_mem_probe(f) == UNION {MemoryProbes[m] : m \in f.mask}

Attached(owner, f) ==
    CASE owner = "Network" -> attach_network_probe(f)
      [] owner = "Process" -> attach_process_probe(f)
      [] owner = "File"    -> attach_file_probe(f)
      [] owner = "Memory"  -> attach_mem_probe(f)

-----------------------------------------------------------------------------
(* The field of the header each kind of FilterKey is compared with. *)
KeyField == [Pid |-> "pid", Tid |-> "tid", Ppid |-> "ppid", Uid |-> "uid",
             Gid |-> "gid"]

(* What a program may find out, what a thread's header has, and what the    *)
(* fields of the four filter types can hold.                                *)
InputType ==
    [null : BOOLEAN, readable : BOOLEAN, addresses : BOOLEAN,
     family : {"v4", "v6", "other"}, sock : {"Tcp", "Udp", "none"},
     mode : FileTypes \cup {"none"}, path : BOOLEAN]

HeaderType == [pid : Nat, tid : Nat, ppid : Nat, uid : Nat, gid : Nat]

MaskFlags ==
    [Network |-> {"CONNECT", "ACCEPT", "CLOSE", "BIND", "LISTEN"},
     Process |-> {"START", "FORK", "EXIT"},
     File    |-> {"OPEN", "CLOSE", "READ", "WRITE", "DELETE", "RENAME"},
     Memory  |-> {"MMAP", "UNMAP"}]

IsFilter(owner, f) ==
    /\ f.mask \subseteq MaskFlags[owner]
    /\ owner = "Network" => f.protocol_mask \subseteq {"TCP", "UDP"}
    /\ owner = "File" => f.file_mode \subseteq FileTypes
    /\ f.filter.kind \in DOMAIN KeyField \cup {"None"}

(* Fault: the arm for Uid is missing. *)
FilterForgetsUid(key, header) ==
    /\ key.kind \in DOMAIN KeyField \ {"Uid"}
    /\ header[KeyField[key.kind]] # key.id

(* filter_events: TRUE when the event is to be dropped.  A key of kind       *)
(* "None" has no field to compare, and neither has a missing entry.         *)
filter_events(key, header) ==
    /\ key.kind \in DOMAIN KeyField
    /\ header[KeyField[key.kind]] # key.id

(* capture_file and capture_inode: is the file's type in CONFIG? *)
capture_file(ctx) == ctx.input.mode \in ctx.config
capture_inode(ctx) == ctx.input.mode \in ctx.config

Wanted(ctx) == ~filter_events(ctx.key, ctx.header)

-----------------------------------------------------------------------------
(* The programs.  The outcome of one is "return" when it ends before        *)
(* EVENTS.reserve; otherwise it reserves a record and then makes it         *)
(* "submit" or "discard".                                                   *)
Reserved(keep) == IF keep THEN "submit" ELSE "discard"

emit_v4(ctx) == Reserved(Wanted(ctx))
emit_v6(ctx) == Reserved(Wanted(ctx) /\ ctx.input.addresses)

(* match family { AF_INET => emit_v4, AF_INET6 => emit_v6, _ => return } *)
emit_by_family(ctx) ==
    CASE ctx.input.family = "v4" -> emit_v4(ctx)
      [] ctx.input.family = "v6" -> emit_v6(ctx)
      [] OTHER -> "return"

tcp_v4_connect(ctx) == IF ctx.input.null THEN "return" ELSE emit_v4(ctx)
tcp_v6_connect(ctx) == IF ctx.input.null THEN "return" ELSE emit_v6(ctx)
udp_connect(ctx) == IF ctx.input.null THEN "return" ELSE emit_v4(ctx)
udpv6_connect(ctx) == IF ctx.input.null THEN "return" ELSE emit_v6(ctx)

NoSocket(input) == input.null \/ ~input.readable

inet_csk_accept(ctx) ==
    IF NoSocket(ctx.input) THEN "return" ELSE emit_by_family(ctx)

(* No null test here, but reading the family of a null socket fails. *)
tcp_close(ctx) ==
    IF NoSocket(ctx.input) THEN "return" ELSE emit_by_family(ctx)

udp_destroy_sock(ctx) ==
    IF NoSocket(ctx.input) THEN "return" ELSE emit_by_family(ctx)

inet_bind(ctx) ==
    IF NoSocket(ctx.input) THEN "return" ELSE emit_by_family(ctx)

inet_listen(ctx) ==
    IF NoSocket(ctx.input) THEN "return" ELSE emit_by_family(ctx)

sched_process_exec(ctx) == Reserved(Wanted(ctx) /\ ctx.input.readable)
sched_process_fork(ctx) == Reserved(Wanted(ctx) /\ ctx.input.readable)
do_group_exit(ctx) == Reserved(Wanted(ctx))

(* filter, null test, capture_file and the look-up in FILE_PATH_MAP, each   *)
(* of which discards the record.                                            *)
vfs_open(ctx) ==
    Reserved(/\ Wanted(ctx) /\ ~ctx.input.null
             /\ capture_file(ctx) /\ ctx.input.path)

(* filp_close tests for null last; a null file has no type before that. *)
filp_close(ctx) ==
    Reserved(/\ Wanted(ctx) /\ capture_file(ctx)
             /\ ~ctx.input.null /\ ctx.input.path)

vfs_read(ctx) ==
    Reserved(/\ Wanted(ctx) /\ ~ctx.input.null
             /\ capture_file(ctx) /\ ctx.input.path)

vfs_write(ctx) ==
    Reserved(/\ Wanted(ctx) /\ ~ctx.input.null
             /\ capture_file(ctx) /\ ctx.input.path)

vfs_unlink(ctx) == Reserved(Wanted(ctx) /\ capture_inode(ctx))

(* Fault: vfs_rename does not ask for the file type. *)
vfs_rename_any_type(ctx) == IF Wanted(ctx) THEN "submit" ELSE "return"

(* vfs_rename filters before it reserves; its exit does not filter. *)
vfs_rename(ctx) ==
    IF Wanted(ctx) /\ capture_inode(ctx) THEN "submit" ELSE "return"
vfs_rename_retval(ctx) == "submit"

vm_mmap_pgoff(ctx) == Reserved(Wanted(ctx))
__vm_munmap(ctx) == "submit"   \* FILTER is not looked at

Outcome(hook, ctx) ==
    CASE hook = "tcp_v4_connect"     -> tcp_v4_connect(ctx)
      [] hook = "tcp_v6_connect"     -> tcp_v6_connect(ctx)
      [] hook = "udp_connect"        -> udp_connect(ctx)
      [] hook = "udpv6_connect"      -> udpv6_connect(ctx)
      [] hook = "inet_csk_accept"    -> inet_csk_accept(ctx)
      [] hook = "tcp_close"          -> tcp_close(ctx)
      [] hook = "udp_destroy_sock"   -> udp_destroy_sock(ctx)
      [] hook = "inet_bind"          -> inet_bind(ctx)
      [] hook = "inet_listen"        -> inet_listen(ctx)
      [] hook = "sched_process_exec" -> sched_process_exec(ctx)
      [] hook = "sched_process_fork" -> sched_process_fork(ctx)
      [] hook = "do_group_exit"      -> do_group_exit(ctx)
      [] hook = "vfs_open"           -> vfs_open(ctx)
      [] hook = "filp_close"         -> filp_close(ctx)
      [] hook = "vfs_read"           -> vfs_read(ctx)
      [] hook = "vfs_write"          -> vfs_write(ctx)
      [] hook = "vfs_unlink"         -> vfs_unlink(ctx)
      [] hook = "vfs_rename"         -> vfs_rename(ctx)
      [] hook = "vfs_rename_retval"  -> vfs_rename_retval(ctx)
      [] hook = "vm_mmap_pgoff"      -> vm_mmap_pgoff(ctx)
      [] hook = "__vm_munmap"        -> __vm_munmap(ctx)

-----------------------------------------------------------------------------
(* What a subscriber asks for, in the words of the filter types' docs: the  *)
(* operation is in the mask, the file type in file_mode, and the process    *)
(* key matches.  Protocols are stated separately.                           *)
Operation ==
    [Connect |-> "CONNECT", Accept |-> "ACCEPT", Close |-> "CLOSE",
     Bind |-> "BIND", Listen |-> "LISTEN", ProcessStart |-> "START",
     ProcessFork |-> "FORK", ProcessExit |-> "EXIT", FileOpen |-> "OPEN",
     FileClose |-> "CLOSE", FileRead |-> "READ", FileWrite |-> "WRITE",
     FileDelete |-> "DELETE", FileRename |-> "RENAME", MemoryMap |-> "MMAP",
     MemoryUnMap |-> "UNMAP"]

KeyMatches(key, header) ==
    CASE key.kind = "None" -> TRUE
      [] key.kind = "Pid"  -> header.pid = key.id
      [] key.kind = "Tid"  -> header.tid = key.id
      [] key.kind = "Ppid" -> header.ppid = key.id
      [] key.kind = "Uid"  -> header.uid = key.id
      [] key.kind = "Gid"  -> header.gid = key.id

OperationMatches(f, owner, event, mode) ==
    /\ Operation[event] \in f.mask
    /\ owner = "File" => mode \in f.file_mode
=============================================================================
