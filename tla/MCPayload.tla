----------------------------- MODULE MCPayload -----------------------------
(***************************************************************************)
(* Kernel operations for Payload.                                          *)
(***************************************************************************)
EXTENDS Payload

FileOp(hook, i_mode, config, access, open, ret) ==
    [hook |-> hook, i_mode |-> i_mode, config |-> config, access |-> access,
     open |-> open, ret |-> ret]

Rwxr == {0, 2, 3, 5, 6, 7, 8}    \* permission bits 0755

(* Every type, with and without permission bits, and no type at all, under  *)
(* filters of one type, two and all; every program.                         *)
TypeOps ==
    {FileOp(hook, s \cup perm, config, O_RDONLY, {}, 0) :
        hook \in FileHooks, s \in {S_IF[t] : t \in FileTypes} \cup {{}},
        perm \in {{}, Rwxr},
        config \in {FileTypeBit[t] : t \in FileTypes} \cup {{0, 6}, AllFileTypes}}

(* Success, an error, a number of bytes. *)
ResultOps ==
    {FileOp(hook, S_IF["REG"], {0}, O_RDWR, {"APPEND"}, ret) :
        hook \in FileHooks, ret \in {0, -5, 512}}

(* Every access mode with every flag alone and some together. *)
FlagOps ==
    {FileOp(hook, S_IF["REG"] \cup Rwxr, {0}, access, open, 0) :
        hook \in {"vfs_open", "filp_close", "vfs_read", "vfs_write"},
        access \in SUBSET O_ACCMODE,
        open \in {{n} : n \in DOMAIN OpenBit}
                 \cup {{}, {"APPEND", "CLOEXEC"}, {"CREAT", "TRUNC", "NOFOLLOW"},
                       {"DIRECT", "DSYNC", "NOATIME"}, {"TMPFILE", "EXCL"},
                       {"DIRECTORY", "PATH"}, {"PATH", "CLOEXEC", "TMPFILE"},
                       {"SYNC", "NONBLOCK"}}}

V4 == <<10, 0, 0, 1>>
V4Peer == <<192, 168, 1, 20>>
V6 == [i \in 1 .. 16 |-> i]
V6Peer == [i \in 1 .. 16 |-> 17 - i]

SocketOp(hook, family, saddr, daddr, num, port, ret) ==
    [hook |-> hook, family |-> family, saddr |-> saddr, daddr |-> daddr,
     num |-> num, dport |-> htons(port), ret |-> ret]

SocketOps ==
    {SocketOp(hook, "v4", V4, V4Peer, num, port, ret) :
        hook \in NetworkHooks \ {"tcp_v6_connect", "udpv6_connect"},
        num \in {80, 54321}, port \in {0, 80, 443}, ret \in {0, -111}}
    \cup
    {SocketOp(hook, "v6", V6, V6Peer, 54321, 443, 0) :
        hook \in NetworkHooks \ {"tcp_v4_connect", "udp_connect"}}

(* exit(n), and death by signal 9. *)
ExitOps == {[hook |-> "do_group_exit", exit_code |-> c] : c \in {{}, {8}, 8 .. 15, {0, 3}}}

AllOps == TypeOps \cup ResultOps \cup FlagOps \cup SocketOps \cup ExitOps
=============================================================================
