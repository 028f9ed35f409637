------------------------------ MODULE MaskBits ------------------------------
(***************************************************************************)
(* The bits of the filter masks.  A number that the code masks or joins is *)
(* the set of the positions of its 1 bits: 1 << n is {n}, & is \cap, | is   *)
(* \cup and 0 is {}.                                                       *)
(***************************************************************************)
EXTENDS Naturals

(* The constants of the mask types. *)
ProcessMask == [START |-> {0}, FORK |-> {1}, EXIT |-> {2}]

FileMask == [OPEN |-> {0}, CLOSE |-> {1}, READ |-> {2}, WRITE |-> {3},
             DELETE |-> {4}, RENAME |-> {5}]

MemoryMask == [MMAP |-> {0}, UNMAP |-> {1}]

NetworkMask == [CONNECT |-> {0}, ACCEPT |-> {1}, CLOSE |-> {2}, BIND |-> {3},
                LISTEN |-> {4}]

MaskBit == [Process |-> ProcessMask, File |-> FileMask, Memory |-> MemoryMask,
            Network |-> NetworkMask]

(* Of ProtocolMask and of FileTypeFilter. *)
ProtocolBit == [TCP |-> {0}, UDP |-> {1}]

FileTypeBit == [REG |-> {0}, DIR |-> {1}, CHR |-> {2}, BLK |-> {3},
                FIFO |-> {4}, LNK |-> {5}, SOCK |-> {6}]

contains(mask, bit) == (mask \cap bit) = bit

(* The flags a mask contains. *)
FlagsIn(mask, bits) == {n \in DOMAIN bits : contains(mask, bits[n])}

(* Fault: |= overwrites. *)
JoinLast(mask, bit) == bit

(* BitOr and BitOrAssign of the mask types. *)
Join(mask, bit) == mask \cup bit

(* A mask as an application writes it: the constants it names, joined in    *)
(* any order.                                                               *)
MaskOf(named, bits) == UNION {bits[n] : n \in named}

(* The constants ALL. *)
AllMask ==
    [Process |-> MaskOf({"START", "FORK", "EXIT"}, ProcessMask),
     File    |-> MaskOf({"OPEN", "CLOSE", "READ", "WRITE", "DELETE", "RENAME"},
                        FileMask),
     Memory  |-> MaskOf({"MMAP", "UNMAP"}, MemoryMask),
     Network |-> MaskOf({"CONNECT", "ACCEPT", "CLOSE", "BIND", "LISTEN"},
                        NetworkMask)]
AllProtocols == MaskOf({"TCP", "UDP"}, ProtocolBit)
AllFileTypes == MaskOf({"REG", "DIR", "CHR", "BLK", "FIFO", "LNK", "SOCK"},
                       FileTypeBit)

(* BitOr of the four filter types: the masks are joined; the protocols, the *)
(* file types and the key are those of the left side.                       *)
BitOr(a, b) == [a EXCEPT !.mask = Join(a.mask, b.mask)]

(* The Default implementations of the filter types. *)
Default(o) ==
    [mask |-> AllMask[o],
     protocol_mask |-> IF o = "Network" THEN AllProtocols ELSE {},
     file_mode |-> IF o = "File" THEN AllFileTypes ELSE {}]

(* The constants of the filter types (START, OPEN, TCP, ALL...); what a     *)
(* type does not have is {}.                                                *)
Filter(mask, protocols, types) ==
    [mask |-> mask, protocol_mask |-> protocols, file_mode |-> types]
Values(bits) == {bits[n] : n \in DOMAIN bits}

ProcessFilter ==
    {Filter(m, {}, {}) : m \in Values(ProcessMask) \cup {AllMask["Process"]}}

FileFilter == {Filter(m, {}, AllFileTypes) :
                   m \in Values(FileMask) \cup {AllMask["File"]}}

MemoryFilter ==
    {Filter(m, {}, {}) : m \in Values(MemoryMask) \cup {AllMask["Memory"]}}

NetworkFilter == {Filter(AllMask["Network"], p, {}) :
                      p \in Values(ProtocolBit) \cup {AllProtocols}}

FilterConstants == [Process |-> ProcessFilter, File |-> FileFilter,
                    Memory |-> MemoryFilter, Network |-> NetworkFilter]
=============================================================================
