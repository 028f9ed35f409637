----------------------------- MODULE MCDelivery -----------------------------
(***************************************************************************)
(* Small instances of Delivery: threads, inputs and subscriptions.         *)
(***************************************************************************)
EXTENDS DeliveryInv

(* Two threads of one process, and a third of another user's process. *)
MCHeader ==
    [t \in {"worker", "sibling", "stranger"} |->
        CASE t = "worker"   -> [pid |-> 10, tid |-> 10, ppid |-> 1, uid |-> 5, gid |-> 5]
          [] t = "sibling"  -> [pid |-> 10, tid |-> 11, ppid |-> 1, uid |-> 5, gid |-> 5]
          [] t = "stranger" -> [pid |-> 20, tid |-> 20, ppid |-> 2, uid |-> 6, gid |-> 6]]

Plain == [null |-> FALSE, readable |-> TRUE, addresses |-> TRUE,
          family |-> "v4", sock |-> "Tcp", mode |-> "REG", path |-> TRUE]

(* One input per way out of a program. *)
EveryInput ==
    { Plain,
      [Plain EXCEPT !.null = TRUE],
      [Plain EXCEPT !.readable = FALSE],
      [Plain EXCEPT !.family = "v6"],
      [Plain EXCEPT !.family = "v6", !.addresses = FALSE],
      [Plain EXCEPT !.family = "other"],
      [Plain EXCEPT !.sock = "Udp"],
      [Plain EXCEPT !.mode = "DIR"],
      [Plain EXCEPT !.mode = "none"],
      [Plain EXCEPT !.path = FALSE] }

(* A regular file, which the subscription wants, and a directory. *)
FileInputs == {Plain, [Plain EXCEPT !.mode = "DIR"]}

NoFilter == [kind |-> "None", id |-> 0]
PidFilter == [kind |-> "Pid", id |-> 10]

NetworkFilterOf(protocols, mask, key) ==
    [protocol_mask |-> protocols, mask |-> mask, filter |-> key]
FileFilterOf(mask, modes, key) ==
    [mask |-> mask, file_mode |-> modes, filter |-> key]
FilterOf(mask, key) == [mask |-> mask, filter |-> key]

(* Everything, for everybody; everything of one process, regular files      *)
(* only; one thread or one user with narrow masks.                          *)
FourSubscriptions ==
    { [Network |-> NetworkFilterOf({"TCP", "UDP"}, {"CONNECT", "ACCEPT", "CLOSE", "BIND", "LISTEN"}, NoFilter),
       Process |-> FilterOf({"START", "FORK", "EXIT"}, NoFilter),
       File    |-> FileFilterOf({"OPEN", "CLOSE", "READ", "WRITE", "DELETE", "RENAME"}, FileTypes, NoFilter),
       Memory  |-> FilterOf({"MMAP", "UNMAP"}, NoFilter)],
      [Network |-> NetworkFilterOf({"TCP"}, {"CONNECT", "CLOSE", "LISTEN"}, PidFilter),
       Process |-> FilterOf({"START", "FORK", "EXIT"}, PidFilter),
       File    |-> FileFilterOf({"OPEN", "CLOSE", "READ", "WRITE", "DELETE", "RENAME"}, {"REG"}, PidFilter),
       Memory  |-> FilterOf({"MMAP", "UNMAP"}, PidFilter)],
      [Network |-> NetworkFilterOf({"UDP"}, {"CONNECT", "BIND", "CLOSE"}, [kind |-> "Tid", id |-> 20]),
       Process |-> FilterOf({"EXIT"}, [kind |-> "Uid", id |-> 5]),
       File    |-> FileFilterOf({"RENAME"}, {"DIR"}, [kind |-> "Gid", id |-> 5]),
       Memory  |-> FilterOf({"MMAP"}, [kind |-> "Ppid", id |-> 2])] }

(* Two owners with one operation each. *)
TwoStreams ==
    { [Network |-> NetworkFilterOf({"TCP"}, {"CLOSE"}, PidFilter),
       File    |-> FileFilterOf({"WRITE"}, {"REG"}, NoFilter)] }

RenameStream == { [File |-> FileFilterOf({"RENAME"}, {"REG"}, PidFilter)] }

MemoryStream == { [Memory |-> FilterOf({"UNMAP"}, PidFilter)] }
=============================================================================
