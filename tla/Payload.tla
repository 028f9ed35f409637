------------------------------ MODULE Payload ------------------------------
(***************************************************************************)
(* What an event says: from the object in the kernel, through the record   *)
(* a program writes and the event the converter makes of it, to what the    *)
(* accessors of the event answer.  One operation at a time; FILTER, the     *)
(* ring and the channels are in Delivery.                                  *)
(*                                                                         *)
(* Modes, flags and exit codes are sets of bits, as in MaskBits, because    *)
(* the code masks and shifts them; ports are numbers, whose bytes are      *)
(* swapped.  Names, paths and identifiers are copied and left out.         *)
(***************************************************************************)
EXTENDS Integers, Sequences, Probes, MaskBits

CONSTANT Ops    \* the kernel operations to try, see MCPayload

VARIABLES
    op,       \* the operation
    record,   \* what its program wrote
    event,    \* what the converter sent
    stage     \* "quiet", "done", "dropped", "written" or "sent"

vars == <<op, record, event, stage>>

Nothing == [hook |-> "none"]

Init == op = Nothing /\ record = Nothing /\ event = Nothing /\ stage = "quiet"

FileHooks == {"vfs_open", "filp_close", "vfs_read", "vfs_write", "vfs_unlink",
              "vfs_rename"}
NetworkHooks == {h \in Hooks : EventType[h] \in NetworkEvents}

-----------------------------------------------------------------------------
(* The kernel's side. *)

(* The bits of open(2), as raw.rs has them. *)
OpenBit ==
    [APPEND |-> {10}, ASYNC |-> {13}, CLOEXEC |-> {19}, CREAT |-> {6},
     DIRECT |-> {14}, DIRECTORY |-> {16}, DSYNC |-> {12}, EXCL |-> {7},
     NOATIME |-> {18}, NOCTTY |-> {8}, NOFOLLOW |-> {17}, NONBLOCK |-> {11},
     PATH |-> {21}, SYNC |-> {12, 20}, TRUNC |-> {9}, TMPFILE |-> {16, 22}]
O_RDONLY == {}
O_WRONLY == {0}
O_RDWR == {1}
O_ACCMODE == {0, 1}

(* The operations: on a file of any mode, with any flags, under any CONFIG; *)
(* on a socket of either family; an exit with any code.                     *)
FileOperation ==
    [hook : FileHooks, i_mode : SUBSET (0 .. 15), config : SUBSET (0 .. 15),
     access : SUBSET O_ACCMODE, open : SUBSET DOMAIN OpenBit, ret : Int]

u16 == 0 .. 65535

SocketOperation(family, size) ==
    [hook : NetworkHooks, family : {family}, saddr : [1 .. size -> 0 .. 255],
     daddr : [1 .. size -> 0 .. 255], num : u16, dport : u16, ret : Int]

ExitOperation == [hook : {"do_group_exit"}, exit_code : SUBSET (0 .. 31)]

ASSUME PayloadAssumption ==
    \A o \in Ops : \/ o \in FileOperation
                   \/ o \in SocketOperation("v4", 4)
                   \/ o \in SocketOperation("v6", 16)
                   \/ o \in ExitOperation

(* What open(2) leaves of its flags in f_flags: of an O_PATH open only the   *)
(* O_PATH_FLAGS, not even the access mode; of any other not O_CLOEXEC,       *)
(* which belongs to the descriptor, nor the flags do_dentry_open takes out   *)
(* (O_LARGEFILE, which open adds, has no name in raw.rs and is left out).    *)
PathFlags == {"DIRECTORY", "NOFOLLOW", "PATH"}
ClearedByOpen == {"CLOEXEC", "CREAT", "EXCL", "NOCTTY", "TRUNC"}
f_flags(o) ==
    LET passed == o.access \cup MaskOf(o.open, OpenBit) IN
    IF "PATH" \in o.open THEN passed \cap MaskOf(PathFlags, OpenBit)
    ELSE passed \ MaskOf(ClearedByOpen, OpenBit)

(* skc_dport is in network order; the same function converts both ways. *)
htons(port) == (port % 256) * 256 + port \div 256
ntohs(port) == htons(port)

(* How many arguments the function of an fexit program has; ctx.arg(n)      *)
(* gives argument n, here always Argument, and the return value after the   *)
(* last.                                                                    *)
Argument == 4096
Arity ==
    [tcp_v4_connect |-> 3, tcp_v6_connect |-> 3, udp_connect |-> 3,
     udpv6_connect |-> 3, inet_bind |-> 3, inet_listen |-> 2, vfs_open |-> 2,
     filp_close |-> 2, vfs_read |-> 4, vfs_write |-> 4, vfs_unlink |-> 4,
     vfs_rename |-> 1]
arg(o, n) == IF n = Arity[o.hook] THEN o.ret ELSE Argument

-----------------------------------------------------------------------------
(* The programs. *)
S_IFMT == 12 .. 15
S_IF == [REG |-> {15}, DIR |-> {14}, CHR |-> {13}, BLK |-> {13, 14},
         FIFO |-> {12}, LNK |-> {13, 15}, SOCK |-> {14, 15}]

(* FILE_REG ... FILE_SOCK of raw.rs: not the constants of FileTypeFilter. *)
FILE_ == [REG |-> {0}, DIR |-> {1}, CHR |-> {2}, BLK |-> {3}, FIFO |-> {4},
          LNK |-> {5}, SOCK |-> {6}]

(* Fault: a mode without the mask. *)
file_bit_unmasked(i_mode) == UNION {FILE_[t] : t \in {u \in FileTypes : S_IF[u] = i_mode}}

(* capture_file and capture_inode: the FILE_ bit of an inode, 0 for none of *)
(* the types.                                                               *)
file_bit(i_mode) ==
    UNION {FILE_[t] : t \in {u \in FileTypes : S_IF[u] = i_mode \cap S_IFMT}}

(* Fault: the third argument of vfs_read, not its result. *)
RetvalArgShort ==
    [tcp_v4_connect |-> 3, tcp_v6_connect |-> 3, udp_connect |-> 3,
     udpv6_connect |-> 3, inet_bind |-> 3, inet_listen |-> 2, vfs_open |-> 2,
     filp_close |-> 2, vfs_read |-> 3, vfs_write |-> 4, vfs_unlink |-> 4,
     vfs_rename |-> 1]

(* The n of ctx.arg(n) each program reports as retval; that of vfs_rename   *)
(* is read by vfs_rename_retval.                                            *)
RetvalArg ==
    [tcp_v4_connect |-> 3, tcp_v6_connect |-> 3, udp_connect |-> 3,
     udpv6_connect |-> 3, inet_bind |-> 3, inet_listen |-> 2, vfs_open |-> 2,
     filp_close |-> 2, vfs_read |-> 4, vfs_write |-> 4, vfs_unlink |-> 4,
     vfs_rename |-> 1]

(* A file record.  That of vfs_unlink has no flags, and vfs_rename never    *)
(* writes those of its buffer, which stay 0.                                *)
FileRecord(o) ==
    LET named == o.hook \in {"vfs_unlink", "vfs_rename"} IN
    [hook |-> o.hook, file_mode |-> file_bit(o.i_mode),
     retval |-> arg(o, RetvalArg[o.hook]),
     flags |-> IF named THEN {} ELSE f_flags(o)]

(* sock_num, sock_dport, the addresses in the order of their bytes in       *)
(* memory: the first 4 of 16 for IPv4.                                      *)
PendingConnect(o) ==
    [hook |-> o.hook, ip_version |-> o.family,
     src_port |-> o.num, dst_port |-> o.dport,
     src_addr |-> [i \in 1 .. 16 |-> IF i <= Len(o.saddr) THEN o.saddr[i] ELSE 0],
     dst_addr |-> [i \in 1 .. 16 |-> IF i <= Len(o.daddr) THEN o.daddr[i] ELSE 0],
     retval |-> IF o.hook \in HooksWithRetval THEN arg(o, RetvalArg[o.hook])
                ELSE "None"]

ExitRecord(o) == [hook |-> o.hook, exit_code |-> o.exit_code]

(* The program of the hook: a file whose type is not in CONFIG is not       *)
(* reported.                                                                *)
Discards(o) == o.hook \in FileHooks /\ (o.config \cap file_bit(o.i_mode)) = {}

RecordOf(o) ==
    CASE o.hook \in FileHooks    -> FileRecord(o)
      [] o.hook \in NetworkHooks -> PendingConnect(o)
      [] OTHER                   -> ExitRecord(o)

Program ==
    /\ stage = "done"
    /\ IF Discards(op)
       THEN stage' = "dropped" /\ record' = Nothing
       ELSE stage' = "written" /\ record' = RecordOf(op)
    /\ UNCHANGED <<op, event>>

-----------------------------------------------------------------------------
(* The converters. *)
Variant ==
    [vfs_open |-> "Open", filp_close |-> "Close", vfs_read |-> "Read",
     vfs_write |-> "Write", vfs_unlink |-> "Delete", vfs_rename |-> "Rename"]

FileTypeName == [REG |-> "Regular", DIR |-> "Directory", CHR |-> "CharDevice",
                 BLK |-> "BlockDevice", FIFO |-> "Fifo", LNK |-> "Symlink",
                 SOCK |-> "Socket"]

(* Fault: no arm for sockets. *)
FileTypeNoSocket(bit) ==
    LET is == {t \in FileTypes \ {"SOCK"} : FILE_[t] = bit}
    IN IF is = {} THEN "Unknown" ELSE FileTypeName[CHOOSE t \in is : TRUE]

(* FileType::from(FileModeFilter) *)
FileType(bit) ==
    LET is == {t \in FileTypes : FILE_[t] = bit}
    IN IF is = {} THEN "Unknown" ELSE FileTypeName[CHOOSE t \in is : TRUE]

(* Fault: the local and the remote address change places. *)
parse_swapped(r) ==
    LET Ip(addr) == IF r.ip_version = "v4" THEN SubSeq(addr, 1, 4) ELSE addr IN
    [local_ip |-> Ip(r.dst_addr), local_port |-> r.src_port,
     remote_ip |-> Ip(r.src_addr), remote_port |-> r.dst_port]

parse_network_event(r) ==
    LET Ip(addr) == IF r.ip_version = "v4" THEN SubSeq(addr, 1, 4) ELSE addr IN
    [local_ip |-> Ip(r.src_addr), local_port |-> r.src_port,
     remote_ip |-> Ip(r.dst_addr), remote_port |-> r.dst_port]

EventOf(r) ==
    CASE r.hook \in FileHooks ->
           [hook |-> r.hook, variant |-> Variant[r.hook],
            file_type |-> FileType(r.file_mode),
            retval |-> r.retval, flags |-> r.flags]
      [] r.hook \in NetworkHooks ->
           [hook |-> r.hook, endpoints |-> parse_network_event(r),
            retval |-> r.retval]
      [] OTHER -> [hook |-> r.hook, exit_code |-> r.exit_code]

Convert ==
    /\ stage = "written"
    /\ stage' = "sent"
    /\ event' = EventOf(record)
    /\ UNCHANGED <<op, record>>

(* The next operation. *)
Happens(o) ==
    /\ stage \in {"quiet", "dropped", "sent"}
    /\ op' = o
    /\ record' = Nothing
    /\ event' = Nothing
    /\ stage' = "done"

Next == (\E o \in Ops : Happens(o)) \/ Program \/ Convert

Spec == Init /\ [][Next]_vars

-----------------------------------------------------------------------------
(* The accessors. *)
mode_bits ==
    [Regular |-> {15}, Directory |-> {14}, CharDevice |-> {13},
     BlockDevice |-> {13, 14}, Fifo |-> {12}, Symlink |-> {13, 15},
     Socket |-> {14, 15}, Unknown |-> {}]

is_read(e) == (e.flags \cap O_ACCMODE) \in {O_RDONLY, O_RDWR}
is_write(e) == (e.flags \cap O_ACCMODE) \in {O_WRONLY, O_RDWR}
has_flag(e, n) == (e.flags \cap OpenBit[n]) # {}

(* Fault: TMPFILE tested like the others, though it has two bits. *)
FlagsAllAlike(e) == {n \in DOMAIN OpenBit : has_flag(e, n)}

(* flags(): the names after the access mode. *)
flags(e) ==
    {n \in DOMAIN OpenBit \ {"TMPFILE"} : has_flag(e, n)}
    \cup {n \in {"TMPFILE"} : contains(e.flags, OpenBit[n])}

(* << 8 on an i32, then & 0xff. *)
status(e) == {i \in 8 .. 31 : i - 8 \in e.exit_code} \cap (0 .. 7)

(* Fault: reads are classified as writes. *)
event_type_swapped(e) ==
    [Open |-> "OPEN", Close |-> "CLOSE", Read |-> "WRITE", Write |-> "READ",
     Rename |-> "RENAME", Delete |-> "DELETE"][e.variant]

event_type(e) ==
    [Open |-> "OPEN", Close |-> "CLOSE", Read |-> "READ", Write |-> "WRITE",
     Rename |-> "RENAME", Delete |-> "DELETE"][e.variant]

-----------------------------------------------------------------------------
(* Properties *)

Sent(hooks) == stage = "sent" /\ event.hook \in hooks

TypeOK ==
    /\ stage \in {"quiet", "done", "dropped", "written", "sent"}
    /\ op \in Ops \cup {Nothing}
    /\ Sent(FileHooks) => /\ event.file_type \in DOMAIN mode_bits \ {"Unknown"}
                          /\ event.flags \subseteq 0 .. 31
                          /\ event.retval \in Int

(* What there is comes from the operation: the record is the program's, of  *)
(* an operation it reports, and the event is the converter's.  The          *)
(* properties below follow from this and from the tables.                   *)
Provenance ==
    /\ stage \in {"quiet", "done", "dropped", "written", "sent"}
    /\ IF stage = "quiet" THEN op = Nothing ELSE op \in Ops
    /\ stage = "dropped" => Discards(op)
    /\ stage \in {"written", "sent"} => ~Discards(op) /\ record = RecordOf(op)
    /\ stage = "sent" => event = EventOf(record)

(* A filter with the flags an application names; what a type does not have  *)
(* is {}.                                                                   *)
FilterOf(o, f) ==
    [mask |-> MaskOf(f.mask, MaskBit[o]),
     protocol_mask |-> MaskOf(f.protocol_mask, ProtocolBit),
     file_mode |-> MaskOf(f.file_mode, FileTypeBit)]

(* The filter as Probes has it, read from its bits. *)
AsSets(o, filter) ==
    [mask |-> FlagsIn(filter.mask, MaskBit[o]),
     protocol_mask |-> FlagsIn(filter.protocol_mask, ProtocolBit),
     file_mode |-> FlagsIn(filter.file_mode, FileTypeBit)]

(* Whatever flags an application joins, in a mask or by joining a filter    *)
(* with one of the constants, the bits attach the programs of those flags   *)
(* and no others, for the protocols and file types of the left side; the    *)
(* default filter has every operation and protocol (of its file types see   *)
(* DefaultIsRegular).                                                       *)
(* A fact about constants, evaluated once.                                  *)
MasksMeanTheirFlags ==
    stage = "quiet" => \A o \in DOMAIN MaskBit :
        LET Named == [mask : SUBSET DOMAIN MaskBit[o],
                      protocol_mask : IF o = "Network"
                                      THEN SUBSET DOMAIN ProtocolBit ELSE {{}},
                      file_mode : IF o = "File" THEN SUBSET FileTypes ELSE {{}}]
            Means(filter, f) ==
                LET bits == AsSets(o, filter) IN
                /\ Attached(o, bits) = Attached(o, f)
                /\ bits.file_mode = f.file_mode
        IN /\ \A f \in Named : Means(FilterOf(o, f), f)
           /\ \A f \in Named, c \in FilterConstants[o] :
                 Means(BitOr(FilterOf(o, f), c),
                       [f EXCEPT !.mask = @ \cup AsSets(o, c).mask])
           /\ AsSets(o, Default(o)).mask = DOMAIN MaskBit[o]
           /\ o = "Network" =>
                 AsSets(o, Default(o)).protocol_mask = DOMAIN ProtocolBit

(* A file is reported exactly if its type is among those the subscriber     *)
(* named: the constants of FileTypeFilter, the FILE_ constants the program  *)
(* has and the bits of i_mode agree, permissions do not matter.             *)
ReportedByType ==
    op.hook \in FileHooks =>
        LET wanted == \E t \in FlagsIn(op.config, FileTypeBit) :
                          S_IF[t] = op.i_mode \ (0 .. 11)
        IN /\ stage = "dropped" => ~wanted
           /\ stage \in {"written", "sent"} => wanted

(* The type that arrives is the inode's: mode_bits() gives back the S_IF    *)
(* part of i_mode, after three tables of the seven types.                   *)
TypeIsTheInodes ==
    Sent(FileHooks) =>
        mode_bits[event.file_type] = op.i_mode \ (0 .. 11)

(* event_type() is the flag for which the program was attached. *)
EventTypeIsTheProbes ==
    Sent(FileHooks) => event.hook \in FileProbes[event_type(event)]

(* retval is the function's result, not one of its arguments; for a rename  *)
(* it comes from the second of its two programs.                            *)
RetvalIsTheResult ==
    Sent(FileHooks \cup HooksWithRetval) => event.retval = op.ret

(* The addresses are the socket's, of either family and each at its end,    *)
(* and so is the local port.  For the remote port see RemotePortIsThePort.  *)
EndpointsAreTheSockets ==
    Sent(NetworkHooks) =>
        /\ event.endpoints.local_ip = op.saddr
        /\ event.endpoints.remote_ip = op.daddr
        /\ event.endpoints.local_port = op.num

OpenEvent == Sent({"vfs_open", "filp_close", "vfs_read", "vfs_write"})

KeptFlags(o) == IF "PATH" \in o.open THEN o.open \cap PathFlags
                ELSE o.open \ ClearedByOpen

(* flags() names every flag of the open that the kernel keeps, and none     *)
(* that was not passed or is part of one that was: the two flags with two   *)
(* bits, SYNC and TMPFILE, include DSYNC and DIRECTORY.  SYNC itself is      *)
(* excepted, see SyncMeansSync.  is_read and is_write tell the access mode, *)
(* which an O_PATH open does not have.                                      *)
FlagsAreTheFiles ==
    OpenEvent =>
        /\ KeptFlags(op) \subseteq flags(event)
        /\ \A n \in flags(event) \ {"SYNC"} :
              \/ n \in op.open
              \/ n = "DSYNC" /\ "SYNC" \in op.open
              \/ n = "DIRECTORY" /\ "TMPFILE" \in op.open
        /\ "PATH" \notin op.open =>
              /\ is_read(event) = (op.access \in {O_RDONLY, O_RDWR})
              /\ is_write(event) = (op.access \in {O_WRONLY, O_RDWR})

-----------------------------------------------------------------------------
(* What the documentation says and the code does not do; each is refuted    *)
(* by an operation of MCPayload.                                            *)

(* "By default, only regular files are monitored." *)
DefaultIsRegular ==
    Sent(FileHooks) /\ op.config = Default("File").file_mode =>
        event.file_type = "Regular"

(* The flags are read with "the Linux open(2) semantics": SYNC is reported  *)
(* if the file was opened with O_SYNC.                                      *)
SyncMeansSync == OpenEvent => ("SYNC" \in flags(event)) = ("SYNC" \in op.open)

(* "Implementors expose the flags passed when the file was opened." *)
FlagsPassed == Sent({"vfs_open"}) => op.open \subseteq flags(event)

(* remote_port is the "Port number of the remote socket endpoint." *)
RemotePortIsThePort ==
    Sent(NetworkHooks) => event.endpoints.remote_port = ntohs(op.dport)

(* status() is the status the process passed to exit(), which do_group_exit *)
(* gets in the second byte of its argument.                                 *)
StatusIsTheExitStatus ==
    Sent({"do_group_exit"}) =>
        status(event) = {i \in 0 .. 7 : i + 8 \in op.exit_code}

(* ConnectEvent: "Emitted after the kernel completes processing a           *)
(* successful connect() call."                                              *)
ConnectSucceeded ==
    stage = "sent" /\ event.hook \in Hooks
    /\ EventType[event.hook] = "Connect" => event.retval = 0
=============================================================================
