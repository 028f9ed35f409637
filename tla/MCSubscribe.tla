---------------------------- MODULE MCSubscribe ----------------------------
(***************************************************************************)
(* Small instances of Subscribe: filters, threads and inputs.              *)
(***************************************************************************)
EXTENDS Subscribe

MCHeader ==
    [worker   |-> [pid |-> 10, tid |-> 10, ppid |-> 1, uid |-> 5, gid |-> 5],
     stranger |-> [pid |-> 20, tid |-> 20, ppid |-> 2, uid |-> 6, gid |-> 6]]

Plain == [null |-> FALSE, readable |-> TRUE, addresses |-> TRUE,
          family |-> "v4", sock |-> "Tcp", mode |-> "REG", path |-> TRUE]
TwoTypes == {Plain, [Plain EXCEPT !.mode = "DIR"]}
OneType == {Plain}

PidFilter == [kind |-> "Pid", id |-> 10]
FilterOf(mask, key) == [mask |-> mask, filter |-> key]
FileFilterOf(mask, modes, key) ==
    [mask |-> mask, file_mode |-> modes, filter |-> key]

(* Two filters with disjoint masks for processes, two that share a program  *)
(* for files, one for the other types.                                      *)
FourTypes ==
    [Network |-> {[protocol_mask |-> {"TCP"}, mask |-> {"ACCEPT"},
                   filter |-> PidFilter]},
     Process |-> {FilterOf({"START"}, PidFilter), FilterOf({"FORK"}, NoKey)},
     File    |-> {FileFilterOf({"OPEN"}, {"REG"}, PidFilter),
                  FileFilterOf({"OPEN"}, {"DIR"}, NoKey)},
     Memory  |-> {FilterOf({"MMAP", "UNMAP"}, PidFilter)}]

(* Two filters for processes that share their program. *)
SameMask ==
    [Process |-> {FilterOf({"START"}, PidFilter), FilterOf({"START"}, NoKey)}]
=============================================================================
