---------------------------- MODULE ProbesProofs ----------------------------
(***************************************************************************)
(* What the programs and the attach functions decide, for every context    *)
(* and every filter: a filter attaches the programs of its own operations, *)
(* whose events its own converter takes, and a program submits only what   *)
(* FILTER and CONFIG ask for.                                              *)
(***************************************************************************)
EXTENDS Probes, TLAPS

-----------------------------------------------------------------------------
(* What the programs decide. *)

NetworkHooks == {"tcp_v4_connect", "tcp_v6_connect", "inet_csk_accept",
                 "tcp_close", "inet_bind", "inet_listen", "udp_connect",
                 "udpv6_connect", "udp_destroy_sock"}
ProcessHooks == {"sched_process_exec", "sched_process_fork", "do_group_exit"}
FileHooks == {"vfs_open", "filp_close", "vfs_read", "vfs_write", "vfs_unlink",
              "vfs_rename", "vfs_rename_retval"}
MemoryHooks == {"vm_mmap_pgoff", "__vm_munmap"}

(* Every program that emits a record belongs to one of the four types. *)
LEMMA HooksAre ==
    /\ Hooks = NetworkHooks \cup ProcessHooks \cup FileHooks \cup MemoryHooks
    /\ \A h \in NetworkHooks : ConvertedBy(EventType[h]) = "Network"
    /\ \A h \in ProcessHooks : ConvertedBy(EventType[h]) = "Process"
    /\ \A h \in FileHooks : ConvertedBy(EventType[h]) = "File"
    /\ \A h \in MemoryHooks : ConvertedBy(EventType[h]) = "Memory"
  <1> USE DEF NetworkHooks, ProcessHooks, FileHooks, MemoryHooks
  <1>1. Hooks = NetworkHooks \cup ProcessHooks \cup FileHooks \cup MemoryHooks
    BY DEF Hooks, EventType
  <1> USE DEF EventType, ConvertedBy, NetworkEvents, ProcessEvents, FileEvents,
              MemoryEvents
  <1>2. \A h \in NetworkHooks : ConvertedBy(EventType[h]) = "Network"
    OBVIOUS
  <1>3. \A h \in ProcessHooks : ConvertedBy(EventType[h]) = "Process"
    OBVIOUS
  <1>4. \A h \in FileHooks : ConvertedBy(EventType[h]) = "File"
    OBVIOUS
  <1>5. \A h \in MemoryHooks : ConvertedBy(EventType[h]) = "Memory"
    OBVIOUS
  <1> QED
    BY <1>1, <1>2, <1>3, <1>4, <1>5

(* A program submits only when FILTER agrees, and those about files only    *)
(* when CONFIG has the file's type.                                         *)
LEMMA SubmitsWhatIsWanted ==
    ASSUME NEW h \in Hooks, NEW ctx, Outcome(h, ctx) = "submit",
           h \notin {"vfs_rename_retval", "__vm_munmap"}
    PROVE  /\ Wanted(ctx)
           /\ h \in FileHooks => ctx.input.mode \in ctx.config
  <1> HIDE DEF Wanted
  <1>1. CASE h \in {"tcp_v4_connect", "tcp_v6_connect", "udp_connect",
                    "udpv6_connect"}
    BY <1>1
    DEF Outcome, tcp_v4_connect, tcp_v6_connect, udp_connect, udpv6_connect,
        emit_v4, emit_v6, Reserved, FileHooks
  <1>2. CASE h \in {"inet_csk_accept", "tcp_close", "udp_destroy_sock",
                    "inet_bind", "inet_listen"}
    <2>1. Outcome(h, ctx) = IF NoSocket(ctx.input) THEN "return"
                            ELSE emit_by_family(ctx)
      BY <1>2
      DEF Outcome, inet_csk_accept, tcp_close, udp_destroy_sock, inet_bind,
          inet_listen
    <2> QED
      BY <1>2, <2>1 DEF emit_by_family, emit_v4, emit_v6, Reserved, FileHooks
  <1>3. CASE h \in {"sched_process_exec", "sched_process_fork",
                    "do_group_exit", "vm_mmap_pgoff"}
    BY <1>3
    DEF Outcome, sched_process_exec, sched_process_fork, do_group_exit,
        vm_mmap_pgoff, Reserved, FileHooks
  <1>4. CASE h \in {"vfs_open", "filp_close", "vfs_read", "vfs_write",
                    "vfs_unlink", "vfs_rename"}
    BY <1>4
    DEF Outcome, vfs_open, filp_close, vfs_read, vfs_write, vfs_unlink,
        vfs_rename, capture_file, capture_inode, Reserved
  <1> QED
    BY <1>1, <1>2, <1>3, <1>4, HooksAre
    DEF NetworkHooks, ProcessHooks, FileHooks, MemoryHooks

(* filter_events compares the field that the kind of the key names. *)
LEMMA WantedMatches ==
    ASSUME NEW ctx, ctx.key.kind \in DOMAIN KeyField \cup {"None"}, Wanted(ctx)
    PROVE  KeyMatches(ctx.key, ctx.header)
  <1>1. ctx.key.kind \in {"None", "Pid", "Tid", "Ppid", "Uid", "Gid"}
    BY DEF KeyField
  <1>2. CASE ctx.key.kind = "None"
    BY <1>2 DEF KeyMatches
  <1>3. CASE ctx.key.kind # "None"
    <2>1. ctx.header[KeyField[ctx.key.kind]] = ctx.key.id
      BY <1>1, <1>3 DEF Wanted, filter_events, KeyField
    <2>2. /\ ctx.key.kind = "Pid"  => ctx.header.pid = ctx.key.id
          /\ ctx.key.kind = "Tid"  => ctx.header.tid = ctx.key.id
          /\ ctx.key.kind = "Ppid" => ctx.header.ppid = ctx.key.id
          /\ ctx.key.kind = "Uid"  => ctx.header.uid = ctx.key.id
          /\ ctx.key.kind = "Gid"  => ctx.header.gid = ctx.key.id
      BY <2>1 DEF KeyField
    <2> QED
      BY <1>1, <1>3, <2>2 DEF KeyMatches
  <1> QED
    BY <1>2, <1>3

-----------------------------------------------------------------------------
(* What the masks decide. *)

(* The programs a filter attaches are hooks whose events go to its register. *)
LEMMA AttachedByOwner ==
    ASSUME NEW o \in DOMAIN MaskFlags, NEW f, IsFilter(o, f),
           NEW h \in Attached(o, f)
    PROVE  h \in Hooks /\ ConvertedBy(EventType[h]) = o
  <1> USE DEF IsFilter, MaskFlags, Attached
  <1>1. CASE o = "Network"
    <2>1. PICK q \in NetworkProbes : h \in q[3]
      BY <1>1 DEF attach_network_probe
    <2>2. h \in {"tcp_v4_connect", "tcp_v6_connect", "inet_csk_accept",
                 "tcp_close", "inet_bind", "inet_listen", "udp_connect",
                 "udpv6_connect", "udp_destroy_sock"}
      BY <2>1 DEF NetworkProbes
    <2> QED
      BY <1>1, <2>2
      DEF Hooks, EventType, ConvertedBy, NetworkEvents, ProcessEvents,
          FileEvents, MemoryEvents
  <1>2. CASE o = "Process"
    <2>1. h \in {"sched_process_exec", "sched_process_fork", "do_group_exit"}
      BY <1>2 DEF attach_process_probe, ProcessProbes
    <2> QED
      BY <1>2, <2>1
      DEF Hooks, EventType, ConvertedBy, NetworkEvents, ProcessEvents,
          FileEvents, MemoryEvents
  <1>3. CASE o = "File"
    <2>1. h \in {"vfs_open", "filp_close", "vfs_read", "vfs_write",
                 "vfs_unlink", "vfs_rename", "vfs_rename_retval"}
      BY <1>3 DEF attach_file_probe, FileProbes
    <2> QED
      BY <1>3, <2>1
      DEF Hooks, EventType, ConvertedBy, NetworkEvents, ProcessEvents,
          FileEvents, MemoryEvents
  <1>4. CASE o = "Memory"
    <2>1. h \in {"vm_mmap_pgoff", "__vm_munmap"}
      BY <1>4 DEF attach_mem_probe, MemoryProbes
    <2> QED
      BY <1>4, <2>1
      DEF Hooks, EventType, ConvertedBy, NetworkEvents, ProcessEvents,
          FileEvents, MemoryEvents
  <1> QED
    BY <1>1, <1>2, <1>3, <1>4

(* A program attached for a mask reports an operation the mask names. *)
LEMMA MaskHasOperation ==
    ASSUME NEW o \in DOMAIN MaskFlags, NEW f, IsFilter(o, f),
           NEW h \in Attached(o, f), h # "vfs_rename_retval"
    PROVE  Operation[EventType[h]] \in f.mask
  <1> USE DEF IsFilter, MaskFlags, Attached
  <1>1. CASE o = "Network"
    <2>1. PICK q \in NetworkProbes : q[2] \in f.mask /\ h \in q[3]
      BY <1>1 DEF attach_network_probe
    <2>2. Operation[EventType[h]] = q[2]
      BY <2>1 DEF NetworkProbes, Operation, EventType
    <2> QED
      BY <2>1, <2>2
  <1>2. CASE o = "Process"
    <2>1. PICK m \in f.mask : m \in {"START", "FORK", "EXIT"} /\ h \in ProcessProbes[m]
      BY <1>2 DEF attach_process_probe
    <2> QED
      BY <2>1 DEF ProcessProbes, Operation, EventType
  <1>3. CASE o = "File"
    <2>1. PICK m \in f.mask : /\ m \in {"OPEN", "CLOSE", "READ", "WRITE", "DELETE", "RENAME"}
                              /\ h \in FileProbes[m]
      BY <1>3 DEF attach_file_probe
    <2> QED
      BY <2>1 DEF FileProbes, Operation, EventType
  <1>4. CASE o = "Memory"
    <2>1. PICK m \in f.mask : m \in {"MMAP", "UNMAP"} /\ h \in MemoryProbes[m]
      BY <1>4 DEF attach_mem_probe
    <2> QED
      BY <2>1 DEF MemoryProbes, Operation, EventType
  <1> QED
    BY <1>1, <1>2, <1>3, <1>4

(* The protocol an event reports is in the mask that attached its program,  *)
(* and is the socket's but for inet_bind.                                   *)
LEMMA MaskHasProtocol ==
    ASSUME NEW f, NEW h \in attach_network_probe(f)
    PROVE  Protocol(h) \in {IF m = "TCP" THEN "Tcp" ELSE "Udp" :
                                m \in f.protocol_mask}
  <1>1. PICK q \in NetworkProbes : q[1] \in f.protocol_mask /\ h \in q[3]
    BY DEF attach_network_probe
  <1>2. Protocol(h) = IF q[1] = "TCP" THEN "Tcp" ELSE "Udp"
    BY <1>1 DEF NetworkProbes, Protocol, RawProtocol, UdpHooks, EventType
  <1> QED
    BY <1>1, <1>2
=============================================================================
