--------------------------- MODULE PayloadProofs ----------------------------
(***************************************************************************)
(* For every operation on every kind of file, socket and process: what an  *)
(* event says is what the kernel object is, and the bits of a filter are   *)
(* the flags that were named.                                              *)
(*                                                                         *)
(* Payload keeps Provenance: the event is EventOf(RecordOf(op)).  The rest *)
(* is about the tables: each has its own numbering of the same seven file  *)
(* types, sixteen open flags or mask flags, and the lemmas compare them.   *)
(***************************************************************************)
EXTENDS Payload, SequenceTheorems, TLAPS

-----------------------------------------------------------------------------
(* Masks. *)

(* Each flag has a bit that is no other flag's. *)
OwnBits(bits) ==
    \A n \in DOMAIN bits : \E i \in bits[n] :
        \A m \in DOMAIN bits : i \in bits[m] => m = n

(* Such a mask gives back the flags it was joined from. *)
LEMMA FlagsOfMask ==
    ASSUME NEW bits, OwnBits(bits), NEW S \in SUBSET DOMAIN bits
    PROVE  FlagsIn(MaskOf(S, bits), bits) = S
  <1>1. ASSUME NEW n \in S
        PROVE  n \in FlagsIn(MaskOf(S, bits), bits)
    BY DEF FlagsIn, MaskOf, contains
  <1>2. ASSUME NEW n \in FlagsIn(MaskOf(S, bits), bits)
        PROVE  n \in S
    <2>1. n \in DOMAIN bits /\ bits[n] \subseteq MaskOf(S, bits)
      BY DEF FlagsIn, contains
    <2>2. PICK i \in bits[n] : \A m \in DOMAIN bits : i \in bits[m] => m = n
      BY <2>1 DEF OwnBits
    <2>3. PICK m \in S : i \in bits[m]
      BY <2>1, <2>2 DEF MaskOf
    <2> QED
      BY <2>2, <2>3
  <1> QED
    BY <1>1, <1>2

(* Joining masks joins their flags. *)
LEMMA JoinOfMasks ==
    ASSUME NEW bits, NEW S \in SUBSET DOMAIN bits, NEW T \in SUBSET DOMAIN bits
    PROVE  Join(MaskOf(S, bits), MaskOf(T, bits)) = MaskOf(S \cup T, bits)
  BY DEF Join, MaskOf

(* Every table of flags is such a mask. *)
LEMMA OwnBitsOfTables ==
    /\ \A o \in DOMAIN MaskBit : OwnBits(MaskBit[o])
    /\ OwnBits(ProtocolBit)
    /\ OwnBits(FileTypeBit)
  <1>1. OwnBits(ProcessMask)
    BY DEF OwnBits, ProcessMask
  <1>2. OwnBits(FileMask)
    BY DEF OwnBits, FileMask
  <1>3. OwnBits(MemoryMask)
    BY DEF OwnBits, MemoryMask
  <1>4. OwnBits(NetworkMask)
    BY DEF OwnBits, NetworkMask
  <1>5. OwnBits(ProtocolBit)
    BY DEF OwnBits, ProtocolBit
  <1>6. OwnBits(FileTypeBit)
    BY DEF OwnBits, FileTypeBit
  <1> QED
    BY <1>1, <1>2, <1>3, <1>4, <1>5, <1>6 DEF MaskBit

(* The flags a filter has are the flags it was made of. *)
LEMMA FlagsOfFilter ==
    ASSUME NEW o \in DOMAIN MaskBit, NEW f,
           f.mask \subseteq DOMAIN MaskBit[o],
           f.protocol_mask \subseteq DOMAIN ProtocolBit,
           f.file_mode \subseteq DOMAIN FileTypeBit
    PROVE  AsSets(o, FilterOf(o, f)) =
               [mask |-> f.mask, protocol_mask |-> f.protocol_mask,
                file_mode |-> f.file_mode]
  <1>1. FlagsIn(MaskOf(f.mask, MaskBit[o]), MaskBit[o]) = f.mask
    BY FlagsOfMask, OwnBitsOfTables
  <1>2. FlagsIn(MaskOf(f.protocol_mask, ProtocolBit), ProtocolBit) = f.protocol_mask
    BY FlagsOfMask, OwnBitsOfTables
  <1>3. FlagsIn(MaskOf(f.file_mode, FileTypeBit), FileTypeBit) = f.file_mode
    BY FlagsOfMask, OwnBitsOfTables
  <1> QED
    BY <1>1, <1>2, <1>3 DEF AsSets, FilterOf

(* ALL and the defaults name every flag. *)
LEMMA AllMaskIsAll ==
    /\ \A o \in DOMAIN MaskBit : AllMask[o] = MaskOf(DOMAIN MaskBit[o], MaskBit[o])
    /\ AllProtocols = MaskOf(DOMAIN ProtocolBit, ProtocolBit)
    /\ AllFileTypes = MaskOf(DOMAIN FileTypeBit, FileTypeBit)
  <1>1. AllMask["Process"] = MaskOf(DOMAIN ProcessMask, ProcessMask)
    <2>1. DOMAIN ProcessMask = {"START", "FORK", "EXIT"}
      BY DEF ProcessMask
    <2> QED
      BY <2>1 DEF AllMask
  <1>2. AllMask["File"] = MaskOf(DOMAIN FileMask, FileMask)
    <2>1. DOMAIN FileMask = {"OPEN", "CLOSE", "READ", "WRITE", "DELETE", "RENAME"}
      BY DEF FileMask
    <2> QED
      BY <2>1 DEF AllMask
  <1>3. AllMask["Memory"] = MaskOf(DOMAIN MemoryMask, MemoryMask)
    <2>1. DOMAIN MemoryMask = {"MMAP", "UNMAP"}
      BY DEF MemoryMask
    <2> QED
      BY <2>1 DEF AllMask
  <1>4. AllMask["Network"] = MaskOf(DOMAIN NetworkMask, NetworkMask)
    <2>1. DOMAIN NetworkMask = {"CONNECT", "ACCEPT", "CLOSE", "BIND", "LISTEN"}
      BY DEF NetworkMask
    <2> QED
      BY <2>1 DEF AllMask
  <1>5. AllProtocols = MaskOf(DOMAIN ProtocolBit, ProtocolBit)
    <2>1. DOMAIN ProtocolBit = {"TCP", "UDP"}
      BY DEF ProtocolBit
    <2> QED
      BY <2>1 DEF AllProtocols
  <1>6. AllFileTypes = MaskOf(DOMAIN FileTypeBit, FileTypeBit)
    <2>1. DOMAIN FileTypeBit = {"REG", "DIR", "CHR", "BLK", "FIFO", "LNK", "SOCK"}
      BY DEF FileTypeBit
    <2> QED
      BY <2>1 DEF AllFileTypes
  <1> QED
    BY <1>1, <1>2, <1>3, <1>4, <1>5, <1>6 DEF MaskBit

(* The mask of each constant filter is joined from flags of its type. *)
LEMMA ConstantsAreMasks ==
    ASSUME NEW o \in DOMAIN MaskBit, NEW c \in FilterConstants[o]
    PROVE  \E T \in SUBSET DOMAIN MaskBit[o] : c.mask = MaskOf(T, MaskBit[o])
  <1>1. \A bits : \A m \in Values(bits) :
            \E T \in SUBSET DOMAIN bits : m = MaskOf(T, bits)
    <2> SUFFICES ASSUME NEW bits, NEW n \in DOMAIN bits
                 PROVE  \E T \in SUBSET DOMAIN bits : bits[n] = MaskOf(T, bits)
      BY DEF Values
    <2>1. bits[n] = MaskOf({n}, bits)
      BY DEF MaskOf
    <2> QED
      BY <2>1
  <1>2. c.mask \in Values(MaskBit[o]) \cup {AllMask[o]}
    BY DEF FilterConstants, ProcessFilter, FileFilter, MemoryFilter,
           NetworkFilter, Filter, MaskBit
  <1>3. AllMask[o] = MaskOf(DOMAIN MaskBit[o], MaskBit[o])
    BY AllMaskIsAll
  <1> QED
    BY <1>1, <1>2, <1>3

(* Joining a filter with a constant adds the flags of the constant. *)
LEMMA FlagsOfJoin ==
    ASSUME NEW o \in DOMAIN MaskBit, NEW c \in FilterConstants[o],
           NEW f, f.mask \subseteq DOMAIN MaskBit[o],
           f.protocol_mask \subseteq DOMAIN ProtocolBit,
           f.file_mode \subseteq DOMAIN FileTypeBit
    PROVE  AsSets(o, BitOr(FilterOf(o, f), c)) =
               [mask |-> f.mask \cup AsSets(o, c).mask,
                protocol_mask |-> f.protocol_mask, file_mode |-> f.file_mode]
  <1>1. PICK T \in SUBSET DOMAIN MaskBit[o] : c.mask = MaskOf(T, MaskBit[o])
    BY ConstantsAreMasks
  <1>2. AsSets(o, c).mask = T
    BY <1>1, FlagsOfMask, OwnBitsOfTables DEF AsSets
  <1>3. Join(MaskOf(f.mask, MaskBit[o]), c.mask) = MaskOf(f.mask \cup T, MaskBit[o])
    BY <1>1, JoinOfMasks
  <1>4. FlagsIn(MaskOf(f.mask \cup T, MaskBit[o]), MaskBit[o]) = f.mask \cup T
    BY FlagsOfMask, OwnBitsOfTables
  <1>5. FlagsIn(MaskOf(f.protocol_mask, ProtocolBit), ProtocolBit) = f.protocol_mask
    BY FlagsOfMask, OwnBitsOfTables
  <1>6. FlagsIn(MaskOf(f.file_mode, FileTypeBit), FileTypeBit) = f.file_mode
    BY FlagsOfMask, OwnBitsOfTables
  <1>7. BitOr(FilterOf(o, f), c) =
            [mask |-> MaskOf(f.mask \cup T, MaskBit[o]),
             protocol_mask |-> MaskOf(f.protocol_mask, ProtocolBit),
             file_mode |-> MaskOf(f.file_mode, FileTypeBit)]
    BY <1>3 DEF BitOr, FilterOf
  <1>8. AsSets(o, BitOr(FilterOf(o, f), c)) =
            [mask |-> f.mask \cup T, protocol_mask |-> f.protocol_mask,
             file_mode |-> f.file_mode]
    BY <1>4, <1>5, <1>6, <1>7 DEF AsSets
  <1> QED
    BY <1>2, <1>8

(* Empty masks have no flags. *)
LEMMA FlagsOfDefault ==
    ASSUME NEW o \in DOMAIN MaskBit
    PROVE  /\ AsSets(o, Default(o)).mask = DOMAIN MaskBit[o]
           /\ o = "Network" =>
                 AsSets(o, Default(o)).protocol_mask = DOMAIN ProtocolBit
  <1>1. FlagsIn(AllMask[o], MaskBit[o]) = DOMAIN MaskBit[o]
    BY FlagsOfMask, OwnBitsOfTables, AllMaskIsAll
  <1>2. FlagsIn(AllProtocols, ProtocolBit) = DOMAIN ProtocolBit
    BY FlagsOfMask, OwnBitsOfTables, AllMaskIsAll
  <1> QED
    BY <1>1, <1>2 DEF AsSets, Default

(* The bits of a filter attach the programs of the flags it was made of. *)
LEMMA MasksMeanFlags == MasksMeanTheirFlags
  <1> SUFFICES ASSUME NEW o \in DOMAIN MaskBit
               PROVE  LET Named == [mask : SUBSET DOMAIN MaskBit[o],
                                    protocol_mask : IF o = "Network"
                                                    THEN SUBSET DOMAIN ProtocolBit
                                                    ELSE {{}},
                                    file_mode : IF o = "File" THEN SUBSET FileTypes
                                                ELSE {{}}]
                          Means(filter, f) ==
                              LET bits == AsSets(o, filter) IN
                              /\ Attached(o, bits) = Attached(o, f)
                              /\ bits.file_mode = f.file_mode
                      IN /\ \A f \in Named : Means(FilterOf(o, f), f)
                         /\ \A f \in Named, c \in FilterConstants[o] :
                               Means(BitOr(FilterOf(o, f), c),
                                     [f EXCEPT !.mask = @ \cup AsSets(o, c).mask])
                         /\ AsSets(o, Default(o)).mask = DOMAIN MaskBit[o]
                         /\ o = "Network" =>
                               AsSets(o, Default(o)).protocol_mask
                                   = DOMAIN ProtocolBit
    BY DEF MasksMeanTheirFlags
  <1> DEFINE Named == [mask : SUBSET DOMAIN MaskBit[o],
                       protocol_mask : IF o = "Network"
                                       THEN SUBSET DOMAIN ProtocolBit ELSE {{}},
                       file_mode : IF o = "File" THEN SUBSET FileTypes ELSE {{}}]
  <1>1. FileTypes = DOMAIN FileTypeBit
    BY DEF FileTypes, FileTypeBit
  <1>2. ASSUME NEW f \in Named
        PROVE  /\ f.mask \subseteq DOMAIN MaskBit[o]
               /\ f.protocol_mask \subseteq DOMAIN ProtocolBit
               /\ f.file_mode \subseteq DOMAIN FileTypeBit
               /\ f = [mask |-> f.mask, protocol_mask |-> f.protocol_mask,
                       file_mode |-> f.file_mode]
    BY <1>1
  <1>3. ASSUME NEW f \in Named
        PROVE  AsSets(o, FilterOf(o, f)) = f
    BY <1>2, FlagsOfFilter
  <1>4. ASSUME NEW f \in Named, NEW c \in FilterConstants[o]
        PROVE  AsSets(o, BitOr(FilterOf(o, f), c)) =
                   [f EXCEPT !.mask = @ \cup AsSets(o, c).mask]
    <2>1. AsSets(o, BitOr(FilterOf(o, f), c)) =
              [mask |-> f.mask \cup AsSets(o, c).mask,
               protocol_mask |-> f.protocol_mask, file_mode |-> f.file_mode]
      BY <1>2, FlagsOfJoin
    <2>2. [f EXCEPT !.mask = @ \cup AsSets(o, c).mask] =
              [mask |-> f.mask \cup AsSets(o, c).mask,
               protocol_mask |-> f.protocol_mask, file_mode |-> f.file_mode]
      BY <1>2
    <2> QED
      BY <2>1, <2>2
  <1>5. /\ AsSets(o, Default(o)).mask = DOMAIN MaskBit[o]
        /\ o = "Network" =>
              AsSets(o, Default(o)).protocol_mask = DOMAIN ProtocolBit
    BY FlagsOfDefault
  <1> QED
    BY <1>3, <1>4, <1>5

-----------------------------------------------------------------------------
(* File types: three numberings of seven types, in the kernel, in the       *)
(* records and in the filters, and the names of the events.                 *)

(* No two types have the same number. *)
LEMMA TypesDiffer ==
    /\ \A t, u \in FileTypes : S_IF[t] = S_IF[u] => t = u
    /\ \A t, u \in FileTypes : FILE_[t] = FILE_[u] => t = u
  <1>1. \A t \in FileTypes : 12 \in S_IF[t] <=> t = "FIFO"
    BY DEF FileTypes, S_IF
  <1>2. \A t \in FileTypes : 13 \in S_IF[t] <=> t \in {"CHR", "BLK", "LNK"}
    BY DEF FileTypes, S_IF
  <1>3. \A t \in FileTypes : 14 \in S_IF[t] <=> t \in {"DIR", "BLK", "SOCK"}
    BY DEF FileTypes, S_IF
  <1>4. \A t \in FileTypes : 15 \in S_IF[t] <=> t \in {"REG", "LNK", "SOCK"}
    BY DEF FileTypes, S_IF
  <1>5. \A t, u \in FileTypes : S_IF[t] = S_IF[u] => t = u
    <2> SUFFICES ASSUME NEW t \in FileTypes, NEW u \in FileTypes, S_IF[t] = S_IF[u]
                 PROVE  t = u
      OBVIOUS
    <2>1. /\ t = "FIFO" <=> u = "FIFO"
          /\ t \in {"CHR", "BLK", "LNK"} <=> u \in {"CHR", "BLK", "LNK"}
          /\ t \in {"DIR", "BLK", "SOCK"} <=> u \in {"DIR", "BLK", "SOCK"}
          /\ t \in {"REG", "LNK", "SOCK"} <=> u \in {"REG", "LNK", "SOCK"}
      BY <1>1, <1>2, <1>3, <1>4
    <2> QED
      BY <2>1 DEF FileTypes
  <1>6. \A t \in FileTypes : \E n \in 0 .. 6 :
            n \in FILE_[t] /\ \A u \in FileTypes : n \in FILE_[u] => u = t
    BY DEF FileTypes, FILE_
  <1>7. \A t, u \in FileTypes : FILE_[t] = FILE_[u] => t = u
    BY <1>6
  <1> QED
    BY <1>5, <1>7

(* The bit of the record names the type of the inode. *)
LEMMA BitOfType ==
    ASSUME NEW i_mode \in SUBSET (0 .. 15), NEW t \in FileTypes,
           S_IF[t] = i_mode \cap S_IFMT
    PROVE  file_bit(i_mode) = FILE_[t]
  <1>1. {u \in FileTypes : S_IF[u] = i_mode \cap S_IFMT} = {t}
    BY TypesDiffer
  <1> QED
    BY <1>1 DEF file_bit

(* An inode of none of the types has no bit. *)
LEMMA BitOfNoType ==
    ASSUME NEW i_mode \in SUBSET (0 .. 15),
           \A t \in FileTypes : S_IF[t] # i_mode \cap S_IFMT
    PROVE  file_bit(i_mode) = {}
  BY DEF file_bit

(* Permissions are all of i_mode that is not within S_IFMT. *)
LEMMA ModeWithoutPermissions ==
    ASSUME NEW i_mode \in SUBSET (0 .. 15)
    PROVE  i_mode \ (0 .. 11) = i_mode \cap S_IFMT
  <1>1. \A n \in 0 .. 15 : n \notin 0 .. 11 <=> n \in S_IFMT
    BY DEF S_IFMT
  <1> QED
    BY <1>1

(* The filter of the application and the program number the types alike. *)
LEMMA FilterBits ==
    /\ DOMAIN FileTypeBit = FileTypes
    /\ \A t \in FileTypes : FileTypeBit[t] = FILE_[t]
    /\ \A t \in FileTypes : \E n \in 0 .. 6 : FILE_[t] = {n}
  BY DEF FileTypeBit, FileTypes, FILE_

(* The converter names the type of the bit, and mode_bits() gives back its  *)
(* S_IF number.                                                             *)
LEMMA NameOfType ==
    ASSUME NEW t \in FileTypes
    PROVE  /\ FileType(FILE_[t]) = FileTypeName[t]
           /\ mode_bits[FileTypeName[t]] = S_IF[t]
           /\ FileTypeName[t] \in DOMAIN mode_bits \ {"Unknown"}
  <1>1. {u \in FileTypes : FILE_[u] = FILE_[t]} = {t}
    BY TypesDiffer
  <1>2. FileType(FILE_[t]) = FileTypeName[t]
    BY <1>1 DEF FileType
  <1>3. /\ mode_bits[FileTypeName[t]] = S_IF[t]
        /\ FileTypeName[t] \in DOMAIN mode_bits \ {"Unknown"}
    BY DEF FileTypes, FileTypeName, mode_bits, S_IF
  <1> QED
    BY <1>2, <1>3

(* A program reports a file exactly if CONFIG has the type of its inode. *)
LEMMA ReportedType ==
    ASSUME NEW o \in FileOperation
    PROVE  ~Discards(o) <=>
               \E t \in FlagsIn(o.config, FileTypeBit) :
                   S_IF[t] = o.i_mode \ (0 .. 11)
  <1>1. o.hook \in FileHooks /\ o.i_mode \in SUBSET (0 .. 15)
    BY DEF FileOperation
  <1>2. o.i_mode \ (0 .. 11) = o.i_mode \cap S_IFMT
    BY <1>1, ModeWithoutPermissions
  <1>3. \A t \in FileTypes :
            t \in FlagsIn(o.config, FileTypeBit) <=> (o.config \cap FILE_[t]) # {}
    BY FilterBits DEF FlagsIn, contains
  <1>4. FlagsIn(o.config, FileTypeBit) \subseteq FileTypes
    BY FilterBits DEF FlagsIn
  <1>5. ASSUME NEW t \in FileTypes, S_IF[t] = o.i_mode \cap S_IFMT
        PROVE  ~Discards(o) <=> t \in FlagsIn(o.config, FileTypeBit)
    BY <1>1, <1>3, <1>5, BitOfType DEF Discards
  <1>6. CASE \E t \in FileTypes : S_IF[t] = o.i_mode \cap S_IFMT
    <2>1. PICK t \in FileTypes : S_IF[t] = o.i_mode \cap S_IFMT
      BY <1>6
    <2>2. \A u \in FileTypes : S_IF[u] = o.i_mode \cap S_IFMT => u = t
      BY <2>1, TypesDiffer
    <2> QED
      BY <1>2, <1>4, <1>5, <2>1, <2>2
  <1>7. CASE \A t \in FileTypes : S_IF[t] # o.i_mode \cap S_IFMT
    <2>1. Discards(o)
      BY <1>1, <1>7, BitOfNoType DEF Discards
    <2> QED
      BY <1>2, <1>4, <1>7, <2>1
  <1> QED
    BY <1>6, <1>7

(* The type of a reported file. *)
LEMMA TypeOfReported ==
    ASSUME NEW o \in FileOperation, ~Discards(o)
    PROVE  \E t \in FileTypes : /\ S_IF[t] = o.i_mode \ (0 .. 11)
                                /\ file_bit(o.i_mode) = FILE_[t]
  <1>1. PICK t \in FlagsIn(o.config, FileTypeBit) : S_IF[t] = o.i_mode \ (0 .. 11)
    BY ReportedType
  <1>2. t \in FileTypes
    BY FilterBits DEF FlagsIn
  <1>3. o.i_mode \in SUBSET (0 .. 15)
    BY DEF FileOperation
  <1>4. S_IF[t] = o.i_mode \cap S_IFMT
    BY <1>1, <1>3, ModeWithoutPermissions
  <1> QED
    BY <1>1, <1>2, <1>3, <1>4, BitOfType

-----------------------------------------------------------------------------
(* The flags of open(2): sixteen flags on fifteen bits, two of them shared. *)

(* Which flags have a bit. *)
LEMMA FlagsOfBit ==
    ASSUME NEW n \in DOMAIN OpenBit
    PROVE  /\ 6 \in OpenBit[n] <=> n = "CREAT"
           /\ 7 \in OpenBit[n] <=> n = "EXCL"
           /\ 8 \in OpenBit[n] <=> n = "NOCTTY"
           /\ 9 \in OpenBit[n] <=> n = "TRUNC"
           /\ 10 \in OpenBit[n] <=> n = "APPEND"
           /\ 11 \in OpenBit[n] <=> n = "NONBLOCK"
           /\ 12 \in OpenBit[n] <=> n \in {"DSYNC", "SYNC"}
           /\ 13 \in OpenBit[n] <=> n = "ASYNC"
           /\ 14 \in OpenBit[n] <=> n = "DIRECT"
           /\ 16 \in OpenBit[n] <=> n \in {"DIRECTORY", "TMPFILE"}
           /\ 17 \in OpenBit[n] <=> n = "NOFOLLOW"
           /\ 18 \in OpenBit[n] <=> n = "NOATIME"
           /\ 19 \in OpenBit[n] <=> n = "CLOEXEC"
           /\ 20 \in OpenBit[n] <=> n = "SYNC"
           /\ 21 \in OpenBit[n] <=> n = "PATH"
           /\ 22 \in OpenBit[n] <=> n = "TMPFILE"
           /\ OpenBit[n] \subseteq 6 .. 22
  BY DEF OpenBit

(* The pairs of flags that share a bit. *)
SharesBit(n, m) ==
    \/ n = m
    \/ n \in {"SYNC", "DSYNC"} /\ m \in {"SYNC", "DSYNC"}
    \/ n \in {"DIRECTORY", "TMPFILE"} /\ m \in {"DIRECTORY", "TMPFILE"}

(* Two flags have a bit in common exactly if they are such a pair. *)
LEMMA SharedBits ==
    ASSUME NEW n \in DOMAIN OpenBit, NEW m \in DOMAIN OpenBit
    PROVE  (OpenBit[n] \cap OpenBit[m]) # {} <=> SharesBit(n, m)
  <1>1. ASSUME NEW i \in OpenBit[n] \cap OpenBit[m]
        PROVE  SharesBit(n, m)
    <2>1. OpenBit[n] \subseteq {6, 7, 8, 9, 10, 11, 12, 13, 14, 16, 17, 18, 19,
                                20, 21, 22}
      BY DEF OpenBit
    <2>2. i \in {6, 7, 8, 9, 10, 11, 12, 13, 14, 16, 17, 18, 19, 20, 21, 22}
      BY <2>1
    <2> QED
      BY <2>2, FlagsOfBit DEF SharesBit
  <1>2. ASSUME n = m
        PROVE  (OpenBit[n] \cap OpenBit[m]) # {}
    <2>1. OpenBit[n] # {}
      BY DEF OpenBit
    <2> QED
      BY <1>2, <2>1
  <1>3. ASSUME n \in {"SYNC", "DSYNC"}, m \in {"SYNC", "DSYNC"}
        PROVE  12 \in OpenBit[n] \cap OpenBit[m]
    BY <1>3, FlagsOfBit
  <1>4. ASSUME n \in {"DIRECTORY", "TMPFILE"}, m \in {"DIRECTORY", "TMPFILE"}
        PROVE  16 \in OpenBit[n] \cap OpenBit[m]
    BY <1>4, FlagsOfBit
  <1> QED
    BY <1>1, <1>2, <1>3, <1>4 DEF SharesBit

(* f_flags has nothing that was not passed, has the flags the kernel keeps, *)
(* and has the access mode in its two low bits unless the open is O_PATH.   *)
LEMMA BitsOfFile ==
    ASSUME NEW o \in FileOperation
    PROVE  /\ f_flags(o) \subseteq 0 .. 31
           /\ f_flags(o) \subseteq o.access \cup MaskOf(o.open, OpenBit)
           /\ "PATH" \notin o.open => f_flags(o) \cap O_ACCMODE = o.access
           /\ \A m \in KeptFlags(o) : OpenBit[m] \subseteq f_flags(o)
  <1> DEFINE passed == o.access \cup MaskOf(o.open, OpenBit)
  <1>1. o.access \subseteq {0, 1} /\ o.open \subseteq DOMAIN OpenBit
    BY DEF FileOperation, O_ACCMODE
  <1>2. ClearedByOpen \subseteq DOMAIN OpenBit
    BY DEF ClearedByOpen, OpenBit
  <1>3. ASSUME NEW names \in SUBSET DOMAIN OpenBit
        PROVE  MaskOf(names, OpenBit) \subseteq 6 .. 22
    <2> SUFFICES ASSUME NEW m \in names
                 PROVE  OpenBit[m] \subseteq 6 .. 22
      BY DEF MaskOf
    <2> QED
      BY FlagsOfBit
  <1>4. /\ \A i \in 6 .. 22 : i \notin {0, 1}
        /\ 6 .. 22 \subseteq 0 .. 31
        /\ {0, 1} \subseteq 0 .. 31
    OBVIOUS
  <1>5. f_flags(o) = IF "PATH" \in o.open
                     THEN passed \cap MaskOf(PathFlags, OpenBit)
                     ELSE passed \ MaskOf(ClearedByOpen, OpenBit)
    BY DEF f_flags
  <1>6. f_flags(o) \subseteq passed
    BY <1>5
  <1>7. passed \subseteq 0 .. 31
    BY <1>1, <1>3, <1>4
  <1>8. ASSUME "PATH" \notin o.open
        PROVE  f_flags(o) \cap O_ACCMODE = o.access
    <2>1. /\ MaskOf(o.open, OpenBit) \cap {0, 1} = {}
          /\ MaskOf(ClearedByOpen, OpenBit) \cap {0, 1} = {}
      BY <1>1, <1>2, <1>3, <1>4
    <2> QED
      BY <1>1, <1>5, <1>8, <2>1 DEF O_ACCMODE
  <1>9. ASSUME NEW m \in KeptFlags(o)
        PROVE  OpenBit[m] \subseteq f_flags(o)
    <2>1. m \in o.open /\ OpenBit[m] \subseteq passed
      BY <1>9 DEF KeptFlags, MaskOf
    <2>2. CASE "PATH" \in o.open
      <3>1. OpenBit[m] \subseteq MaskOf(PathFlags, OpenBit)
        BY <1>9, <2>2 DEF KeptFlags, MaskOf
      <3> QED
        BY <1>5, <2>1, <2>2, <3>1
    <2>3. CASE "PATH" \notin o.open
      <3>1. m \notin ClearedByOpen
        BY <1>9, <2>3 DEF KeptFlags
      <3>2. ASSUME NEW c \in ClearedByOpen
            PROVE  (OpenBit[m] \cap OpenBit[c]) = {}
        <4>1. ~SharesBit(m, c)
          BY <3>1 DEF SharesBit, ClearedByOpen
        <4> QED
          BY <1>1, <1>2, <2>1, <4>1, SharedBits
      <3>3. (OpenBit[m] \cap MaskOf(ClearedByOpen, OpenBit)) = {}
        BY <3>2 DEF MaskOf
      <3> QED
        BY <1>5, <2>1, <2>3, <3>3
    <2> QED
      BY <2>2, <2>3
  <1> QED
    BY <1>6, <1>7, <1>8, <1>9

(* A bit of a flag that is found in f_flags is one of a flag passed. *)
LEMMA BitWasPassed ==
    ASSUME NEW o \in FileOperation, NEW i \in 6 .. 22, i \in f_flags(o)
    PROVE  \E m \in o.open : i \in OpenBit[m]
  <1>1. i \notin o.access
    BY DEF FileOperation, O_ACCMODE
  <1> QED
    BY <1>1, BitsOfFile DEF MaskOf

(* flags() names the flags the kernel keeps, ... *)
LEMMA KeptFlagsNamed ==
    ASSUME NEW o \in FileOperation, NEW e, e.flags = f_flags(o)
    PROVE  KeptFlags(o) \subseteq flags(e)
  <1> SUFFICES ASSUME NEW m \in KeptFlags(o) PROVE m \in flags(e)
    OBVIOUS
  <1>1. m \in DOMAIN OpenBit /\ OpenBit[m] \subseteq e.flags
    BY BitsOfFile DEF FileOperation, KeptFlags
  <1>2. OpenBit[m] # {}
    BY <1>1, SharedBits DEF SharesBit
  <1>3. has_flag(e, m) /\ contains(e.flags, OpenBit[m])
    BY <1>1, <1>2 DEF has_flag, contains
  <1> QED
    BY <1>1, <1>3 DEF flags

(* ... and but for SYNC only what was passed or is part of it. *)
LEMMA NamedFlagsPassed ==
    ASSUME NEW o \in FileOperation, NEW e, e.flags = f_flags(o),
           NEW n \in flags(e) \ {"SYNC"}
    PROVE  \/ n \in o.open
           \/ n = "DSYNC" /\ "SYNC" \in o.open
           \/ n = "DIRECTORY" /\ "TMPFILE" \in o.open
  <1>1. n \in DOMAIN OpenBit /\ o.open \subseteq DOMAIN OpenBit
    BY DEF flags, OpenBit, FileOperation
  <1>2. CASE n = "TMPFILE"
    <2>1. 22 \in f_flags(o)
      BY <1>2 DEF flags, has_flag, contains, OpenBit
    <2>2. PICK m \in o.open : 22 \in OpenBit[m]
      BY <2>1, BitWasPassed
    <2> QED
      BY <1>1, <1>2, <2>2, FlagsOfBit
  <1>3. CASE n # "TMPFILE"
    <2>1. PICK i \in OpenBit[n] : i \in f_flags(o)
      BY <1>3 DEF flags, has_flag
    <2>2. PICK m \in o.open : i \in OpenBit[m]
      BY <1>1, <2>1, FlagsOfBit, BitWasPassed
    <2>3. SharesBit(n, m)
      BY <1>1, <2>1, <2>2, SharedBits
    <2> QED
      BY <1>3, <2>2, <2>3 DEF SharesBit
  <1> QED
    BY <1>2, <1>3

-----------------------------------------------------------------------------
(* From the operation to the event. *)

(* A hook is of one kind. *)
LEMMA HooksApart ==
    /\ NetworkHooks \cap FileHooks = {}
    /\ "do_group_exit" \notin FileHooks \cup NetworkHooks
    /\ "none" \notin FileHooks \cup NetworkHooks \cup {"do_group_exit"}
    /\ HooksWithRetval \subseteq NetworkHooks
  <1>1. NetworkHooks = {"tcp_v4_connect", "tcp_v6_connect", "inet_csk_accept",
                        "tcp_close", "inet_bind", "inet_listen", "udp_connect",
                        "udpv6_connect", "udp_destroy_sock"}
    BY DEF NetworkHooks, Hooks, EventType, NetworkEvents
  <1> QED
    BY <1>1 DEF FileHooks, HooksWithRetval

(* Each program asks for the argument after the last, the result. *)
LEMMA ArgIsResult ==
    ASSUME NEW o, o.hook \in FileHooks \cup HooksWithRetval
    PROVE  arg(o, RetvalArg[o.hook]) = o.ret
  <1>1. \A h \in FileHooks \cup HooksWithRetval : RetvalArg[h] = Arity[h]
    BY DEF FileHooks, HooksWithRetval, RetvalArg, Arity
  <1> QED
    BY <1>1 DEF arg

(* The event of a file operation. *)
LEMMA FileEventOf ==
    ASSUME NEW o \in FileOperation
    PROVE  LET e == EventOf(RecordOf(o))
               named == o.hook \in {"vfs_unlink", "vfs_rename"} IN
           /\ o.hook \in FileHooks
           /\ e.hook = o.hook
           /\ e.variant = Variant[o.hook]
           /\ e.file_type = FileType(file_bit(o.i_mode))
           /\ e.retval = o.ret
           /\ e.flags = IF named THEN {} ELSE f_flags(o)
  <1>1. o.hook \in FileHooks
    BY DEF FileOperation
  <1>2. RecordOf(o) = FileRecord(o)
    BY <1>1, HooksApart DEF RecordOf
  <1>3. arg(o, RetvalArg[o.hook]) = o.ret
    BY <1>1, ArgIsResult
  <1> DEFINE r == FileRecord(o)
             named == o.hook \in {"vfs_unlink", "vfs_rename"}
  <1>4. /\ r.hook = o.hook
        /\ r.file_mode = file_bit(o.i_mode)
        /\ r.retval = o.ret
        /\ r.flags = IF named THEN {} ELSE f_flags(o)
    BY <1>3 DEF FileRecord
  <1> HIDE DEF r
  <1>5. EventOf(r) = [hook |-> r.hook, variant |-> Variant[r.hook],
                      file_type |-> FileType(r.file_mode),
                      retval |-> r.retval, flags |-> r.flags]
    BY <1>1, <1>4, HooksApart DEF EventOf
  <1>6. EventOf(RecordOf(o)) = EventOf(r)
    BY <1>2 DEF r
  <1> QED
    BY <1>1, <1>4, <1>5, <1>6

(* The event of a socket operation: padding an IPv4 address to 16 bytes and *)
(* taking its first 4 gives it back.                                        *)
LEMMA SocketEventOf ==
    ASSUME NEW family \in {"v4", "v6"}, NEW size \in {4, 16},
           (family = "v4") <=> (size = 4),
           NEW o \in SocketOperation(family, size)
    PROVE  LET e == EventOf(RecordOf(o)) IN
           /\ o.hook \in NetworkHooks
           /\ e.hook = o.hook
           /\ e.endpoints.local_ip = o.saddr
           /\ e.endpoints.remote_ip = o.daddr
           /\ e.endpoints.local_port = o.num
           /\ e.endpoints.remote_port = o.dport
           /\ o.hook \in HooksWithRetval => e.retval = o.ret
  <1>1. /\ o.hook \in NetworkHooks
        /\ o.family = family
        /\ o.saddr \in [1 .. size -> 0 .. 255]
        /\ o.daddr \in [1 .. size -> 0 .. 255]
    BY DEF SocketOperation
  <1>2. o.hook \notin FileHooks
    BY <1>1, HooksApart
  <1>3. RecordOf(o) = PendingConnect(o)
    BY <1>1, <1>2 DEF RecordOf
  <1> DEFINE r == PendingConnect(o)
             Pad(a) == [i \in 1 .. 16 |-> IF i <= Len(a) THEN a[i] ELSE 0]
             Ip(a) == IF family = "v4" THEN SubSeq(a, 1, 4) ELSE a
  <1>4. /\ r.hook = o.hook
        /\ r.ip_version = family
        /\ r.src_port = o.num
        /\ r.dst_port = o.dport
        /\ r.src_addr = Pad(o.saddr)
        /\ r.dst_addr = Pad(o.daddr)
        /\ o.hook \in HooksWithRetval => r.retval = o.ret
    BY <1>1, ArgIsResult DEF PendingConnect
  <1>5. ASSUME NEW a \in [1 .. size -> 0 .. 255]
        PROVE  Ip(Pad(a)) = a
    <2>1. a \in Seq(0 .. 255) /\ Len(a) = size
      BY <1>5
    <2>2. CASE family = "v4"
      <3>1. size = 4
        BY <2>2
      <3>2. /\ \A i \in 1 .. 4 : Pad(a)[i] \in 0 .. 255
            /\ \A i \in 1 .. 4 : Pad(a)[i] = a[i]
        BY <1>5, <2>1, <3>1
      <3> HIDE DEF Pad
      <3>3. /\ SubSeq(Pad(a), 1, 4) \in Seq(0 .. 255)
            /\ Len(SubSeq(Pad(a), 1, 4)) = 4
            /\ \A i \in 1 .. 4 : SubSeq(Pad(a), 1, 4)[i] = Pad(a)[i]
        BY <3>2, SubSeqProperties
      <3>4. SubSeq(Pad(a), 1, 4) = a
        BY <2>1, <3>1, <3>2, <3>3
      <3> QED
        BY <2>2, <3>4
    <2>3. CASE family = "v6"
      <3>1. size = 16
        BY <2>3
      <3>2. Pad(a) = a
        BY <1>5, <2>1, <3>1
      <3> QED
        BY <2>3, <3>2
    <2> QED
      BY <2>2, <2>3
  <1> HIDE DEF r, Pad, Ip
  <1>6. Ip(r.src_addr) = o.saddr /\ Ip(r.dst_addr) = o.daddr
    <2>1. Ip(Pad(o.saddr)) = o.saddr
      BY <1>1, <1>5
    <2>2. Ip(Pad(o.daddr)) = o.daddr
      BY <1>1, <1>5
    <2> QED
      BY <1>4, <2>1, <2>2
  <1>7. parse_network_event(r) =
            [local_ip |-> Ip(r.src_addr), local_port |-> r.src_port,
             remote_ip |-> Ip(r.dst_addr), remote_port |-> r.dst_port]
    BY <1>4 DEF parse_network_event, Ip
  <1>8. EventOf(r) = [hook |-> r.hook, endpoints |-> parse_network_event(r),
                      retval |-> r.retval]
    BY <1>1, <1>2, <1>4 DEF EventOf
  <1>9. EventOf(RecordOf(o)) = EventOf(r)
    BY <1>3 DEF r
  <1> QED
    BY <1>1, <1>4, <1>6, <1>7, <1>8, <1>9

(* The event of an exit. *)
LEMMA ExitEventOf ==
    ASSUME NEW o \in ExitOperation
    PROVE  LET e == EventOf(RecordOf(o)) IN
           /\ o.hook = "do_group_exit"
           /\ e.hook = o.hook
           /\ e.exit_code = o.exit_code
           /\ o.exit_code \subseteq 0 .. 31
  <1>1. /\ o.hook = "do_group_exit"
        /\ o.exit_code \subseteq 0 .. 31
    BY DEF ExitOperation
  <1>2. o.hook \notin FileHooks /\ o.hook \notin NetworkHooks
    BY <1>1, HooksApart
  <1>3. RecordOf(o) = [hook |-> o.hook, exit_code |-> o.exit_code]
    BY <1>2 DEF RecordOf, ExitRecord
  <1> DEFINE r == RecordOf(o)
  <1>4. r.hook = o.hook /\ r.exit_code = o.exit_code
    BY <1>3
  <1> HIDE DEF r
  <1>5. EventOf(r) = [hook |-> r.hook, exit_code |-> r.exit_code]
    BY <1>2, <1>4 DEF EventOf
  <1> QED
    BY <1>1, <1>4, <1>5 DEF r

(* The hook tells the kind of an operation. *)
LEMMA KindOfOperation ==
    ASSUME NEW o \in Ops
    PROVE  /\ o.hook \in FileHooks => o \in FileOperation
           /\ o.hook \in NetworkHooks =>
                  o \in SocketOperation("v4", 4) \/ o \in SocketOperation("v6", 16)
           /\ o.hook = "do_group_exit" => o \in ExitOperation
  <1>1. o \in FileOperation => o.hook \in FileHooks
    BY DEF FileOperation
  <1>2. o \in SocketOperation("v4", 4) => o.hook \in NetworkHooks
    BY DEF SocketOperation
  <1>3. o \in SocketOperation("v6", 16) => o.hook \in NetworkHooks
    BY DEF SocketOperation
  <1>4. o \in ExitOperation => o.hook = "do_group_exit"
    BY DEF ExitOperation
  <1> QED
    BY <1>1, <1>2, <1>3, <1>4, PayloadAssumption, HooksApart

(* The event is that of the operation. *)
LEMMA SentEvent ==
    ASSUME Provenance, stage = "sent"
    PROVE  /\ op \in Ops
           /\ ~Discards(op)
           /\ event = EventOf(RecordOf(op))
           /\ event.hook = op.hook
  <1>1. op \in Ops /\ ~Discards(op) /\ event = EventOf(RecordOf(op))
    BY DEF Provenance
  <1>2. CASE op \in FileOperation
    BY <1>1, <1>2, FileEventOf
  <1>3. CASE op \in SocketOperation("v4", 4)
    BY <1>1, <1>3, SocketEventOf
  <1>4. CASE op \in SocketOperation("v6", 16)
    BY <1>1, <1>4, SocketEventOf
  <1>5. CASE op \in ExitOperation
    BY <1>1, <1>5, ExitEventOf
  <1> QED
    BY <1>1, <1>2, <1>3, <1>4, <1>5, PayloadAssumption

(* What a file event says. *)
LEMMA SentFileEvent ==
    ASSUME Provenance, Sent(FileHooks)
    PROVE  /\ op \in FileOperation
           /\ event.hook = op.hook
           /\ event.variant = Variant[op.hook]
           /\ event.file_type = FileType(file_bit(op.i_mode))
           /\ event.retval = op.ret
           /\ event.flags = IF op.hook \in {"vfs_unlink", "vfs_rename"} THEN {}
                            ELSE f_flags(op)
  <1>1. /\ op \in Ops
        /\ event = EventOf(RecordOf(op))
        /\ event.hook = op.hook
        /\ op.hook \in FileHooks
    BY SentEvent DEF Sent
  <1>2. op \in FileOperation
    BY <1>1, KindOfOperation
  <1> QED
    BY <1>1, <1>2, FileEventOf

-----------------------------------------------------------------------------
(* Provenance is kept. *)

(* A record is what the program of the operation writes of it, and only of  *)
(* an operation it reports; an event is what the converter makes of it.     *)
THEOREM ProvenanceKept == Spec => []Provenance
  <1>1. Init => Provenance
    BY DEF Init, Provenance
  <1>2. ASSUME Provenance, [Next]_vars
        PROVE  Provenance'
    <2>1. ASSUME NEW o \in Ops, Happens(o)
          PROVE  Provenance'
      BY <2>1 DEF Happens, Provenance
    <2>2. CASE Program
      <3>1. stage = "done" /\ op \in Ops /\ op' = op
        BY <1>2, <2>2 DEF Program, Provenance
      <3>2. Discards(op)' <=> Discards(op)
        BY <3>1 DEF Discards
      <3>3. RecordOf(op)' = RecordOf(op)
        BY <3>1
      <3>4. CASE Discards(op)
        <4>1. stage' = "dropped"
          BY <2>2, <3>4 DEF Program
        <4> QED
          BY <3>1, <3>2, <3>4, <4>1 DEF Provenance
      <3>5. CASE ~Discards(op)
        <4>1. stage' = "written" /\ record' = RecordOf(op)
          BY <2>2, <3>5 DEF Program
        <4> QED
          BY <3>1, <3>2, <3>3, <3>5, <4>1 DEF Provenance
      <3> QED
        BY <3>4, <3>5
    <2>3. CASE Convert
      <3>1. /\ stage = "written" /\ stage' = "sent"
            /\ op' = op /\ record' = record
            /\ event' = EventOf(record)
        BY <2>3 DEF Convert
      <3>2. op \in Ops /\ ~Discards(op) /\ record = RecordOf(op)
        BY <1>2, <3>1 DEF Provenance
      <3> QED
        BY <3>1, <3>2 DEF Provenance
    <2>4. CASE UNCHANGED vars
      BY <1>2, <2>4 DEF vars, Provenance
    <2> QED
      BY <1>2, <2>1, <2>2, <2>3, <2>4 DEF Next
  <1> QED
    BY <1>1, <1>2, PTL DEF Spec

-----------------------------------------------------------------------------
(* The properties. *)

(* Every event has a type it names, flags of 32 bits and a number as its    *)
(* result.                                                                  *)
THEOREM TypeCorrect == Spec => []TypeOK
  <1>1. Provenance => TypeOK
    <2> SUFFICES ASSUME Provenance
                 PROVE  TypeOK
      OBVIOUS
    <2>1. /\ stage \in {"quiet", "done", "dropped", "written", "sent"}
          /\ op \in Ops \cup {Nothing}
      BY DEF Provenance
    <2>2. ASSUME Sent(FileHooks)
          PROVE  /\ event.file_type \in DOMAIN mode_bits \ {"Unknown"}
                 /\ event.flags \subseteq 0 .. 31
                 /\ event.retval \in Int
      <3>1. op \in FileOperation /\ ~Discards(op)
        BY <2>2, SentFileEvent, SentEvent DEF Sent
      <3>2. event.file_type \in DOMAIN mode_bits \ {"Unknown"}
        BY <2>2, <3>1, SentFileEvent, TypeOfReported, NameOfType
      <3>3. event.flags \subseteq 0 .. 31
        BY <2>2, <3>1, SentFileEvent, BitsOfFile
      <3>4. event.retval \in Int
        <4>1. op.ret \in Int
          BY <3>1 DEF FileOperation
        <4> QED
          BY <2>2, <4>1, SentFileEvent
      <3> QED
        BY <3>2, <3>3, <3>4
    <2> QED
      BY <2>1, <2>2 DEF TypeOK
  <1> QED
    BY <1>1, ProvenanceKept, PTL

(* Whatever flags are joined, the bits attach their programs. *)
THEOREM FlagsAttach == Spec => []MasksMeanTheirFlags
  BY MasksMeanFlags, PTL

(* A file is reported exactly if its type was asked for. *)
THEOREM FilesByType == Spec => []ReportedByType
  <1>1. Provenance => ReportedByType
    <2> SUFFICES ASSUME Provenance, op.hook \in FileHooks
                 PROVE  LET wanted == \E t \in FlagsIn(op.config, FileTypeBit) :
                                          S_IF[t] = op.i_mode \ (0 .. 11)
                        IN /\ stage = "dropped" => ~wanted
                           /\ stage \in {"written", "sent"} => wanted
      BY DEF ReportedByType
    <2>1. op \in Ops
      BY HooksApart DEF Provenance, Nothing
    <2>2. op \in FileOperation
      BY <2>1, KindOfOperation
    <2>3. /\ stage = "dropped" => Discards(op)
          /\ stage \in {"written", "sent"} => ~Discards(op)
      BY DEF Provenance
    <2> QED
      BY <2>2, <2>3, ReportedType
  <1> QED
    BY <1>1, ProvenanceKept, PTL

(* The type of an event is the type of the inode. *)
THEOREM TypeIsInodes == Spec => []TypeIsTheInodes
  <1>1. Provenance => TypeIsTheInodes
    <2> SUFFICES ASSUME Provenance, Sent(FileHooks)
                 PROVE  mode_bits[event.file_type] = op.i_mode \ (0 .. 11)
      BY DEF TypeIsTheInodes
    <2>1. op \in FileOperation /\ ~Discards(op)
      BY SentFileEvent, SentEvent DEF Sent
    <2>2. PICK t \in FileTypes : /\ S_IF[t] = op.i_mode \ (0 .. 11)
                                 /\ file_bit(op.i_mode) = FILE_[t]
      BY <2>1, TypeOfReported
    <2>3. event.file_type = FileTypeName[t]
      BY <2>2, SentFileEvent, NameOfType
    <2> QED
      BY <2>2, <2>3, NameOfType
  <1> QED
    BY <1>1, ProvenanceKept, PTL

(* event_type() is the flag that attached the program. *)
THEOREM EventTypeIsProbes == Spec => []EventTypeIsTheProbes
  <1>1. Provenance => EventTypeIsTheProbes
    <2> SUFFICES ASSUME Provenance, Sent(FileHooks)
                 PROVE  event.hook \in FileProbes[event_type(event)]
      BY DEF EventTypeIsTheProbes
    <2>1. event.hook \in FileHooks /\ event.variant = Variant[event.hook]
      BY SentFileEvent DEF Sent
    <2> QED
      BY <2>1 DEF FileHooks, Variant, event_type, FileProbes
  <1> QED
    BY <1>1, ProvenanceKept, PTL

(* retval is the result of the function. *)
THEOREM RetvalIsResult == Spec => []RetvalIsTheResult
  <1>1. Provenance => RetvalIsTheResult
    <2> SUFFICES ASSUME Provenance, Sent(FileHooks \cup HooksWithRetval)
                 PROVE  event.retval = op.ret
      BY DEF RetvalIsTheResult
    <2>1. CASE event.hook \in FileHooks
      BY <2>1, SentFileEvent DEF Sent
    <2>2. CASE event.hook \in HooksWithRetval
      <3>1. /\ op \in Ops
            /\ event = EventOf(RecordOf(op))
            /\ op.hook \in HooksWithRetval
        BY <2>2, SentEvent DEF Sent
      <3>2. op \in SocketOperation("v4", 4) \/ op \in SocketOperation("v6", 16)
        BY <3>1, KindOfOperation, HooksApart
      <3> QED
        BY <3>1, <3>2, SocketEventOf
    <2> QED
      BY <2>1, <2>2 DEF Sent
  <1> QED
    BY <1>1, ProvenanceKept, PTL

(* The addresses and the local port are those of the socket, for both       *)
(* families.                                                                *)
THEOREM EndpointsAreSockets == Spec => []EndpointsAreTheSockets
  <1>1. Provenance => EndpointsAreTheSockets
    <2> SUFFICES ASSUME Provenance, Sent(NetworkHooks)
                 PROVE  /\ event.endpoints.local_ip = op.saddr
                        /\ event.endpoints.remote_ip = op.daddr
                        /\ event.endpoints.local_port = op.num
      BY DEF EndpointsAreTheSockets
    <2>1. /\ op \in Ops
          /\ event = EventOf(RecordOf(op))
          /\ op.hook \in NetworkHooks
      BY SentEvent DEF Sent
    <2>2. op \in SocketOperation("v4", 4) \/ op \in SocketOperation("v6", 16)
      BY <2>1, KindOfOperation
    <2> QED
      BY <2>1, <2>2, SocketEventOf
  <1> QED
    BY <1>1, ProvenanceKept, PTL

(* flags(), is_read and is_write tell how the file was opened: every flag   *)
(* that the kernel keeps, and none that was not passed.                     *)
THEOREM FlagsAreFiles == Spec => []FlagsAreTheFiles
  <1>1. Provenance => FlagsAreTheFiles
    <2> SUFFICES ASSUME Provenance, OpenEvent
                 PROVE  FlagsAreTheFiles
      BY DEF FlagsAreTheFiles
    <2>1. Sent(FileHooks) /\ event.hook \notin {"vfs_unlink", "vfs_rename"}
      BY DEF OpenEvent, Sent, FileHooks
    <2>2. op \in FileOperation /\ event.flags = f_flags(op)
      BY <2>1, SentFileEvent
    <2>3. KeptFlags(op) \subseteq flags(event)
      BY <2>2, KeptFlagsNamed
    <2>4. \A n \in flags(event) \ {"SYNC"} :
              \/ n \in op.open
              \/ n = "DSYNC" /\ "SYNC" \in op.open
              \/ n = "DIRECTORY" /\ "TMPFILE" \in op.open
      BY <2>2, NamedFlagsPassed
    <2>5. ASSUME "PATH" \notin op.open
          PROVE  /\ is_read(event) = (op.access \in {O_RDONLY, O_RDWR})
                 /\ is_write(event) = (op.access \in {O_WRONLY, O_RDWR})
      <3>1. event.flags \cap O_ACCMODE = op.access
        BY <2>2, <2>5, BitsOfFile
      <3> QED
        BY <3>1 DEF is_read, is_write
    <2> QED
      BY <2>3, <2>4, <2>5 DEF FlagsAreTheFiles
  <1> QED
    BY <1>1, ProvenanceKept, PTL

(* status() gives the status a process passed to exit(), the second byte of *)
(* the code do_group_exit gets, only where that status is 0: the shift      *)
(* leaves nothing of any code in the low byte.                              *)
StatusOnlyOfSuccess ==
    Sent({"do_group_exit"}) =>
        (status(event) = {i \in 0 .. 7 : i + 8 \in op.exit_code})
            <=> (op.exit_code \cap (8 .. 15)) = {}

(* For every exit code, the event tells no status but 0. *)
THEOREM StatusOfFailureLost == Spec => []StatusOnlyOfSuccess
  <1>1. StatusOnlyOfSuccess
    <2>1. status(event) = {}
      BY DEF status
    <2>2. \A n \in 8 .. 15 : n - 8 \in 0 .. 7 /\ (n - 8) + 8 = n
      OBVIOUS
    <2>3. \A i \in 0 .. 7 : i + 8 \in 8 .. 15
      OBVIOUS
    <2>4. {i \in 0 .. 7 : i + 8 \in op.exit_code} = {}
              <=> (op.exit_code \cap (8 .. 15)) = {}
      <3>1. ASSUME NEW n \in op.exit_code \cap (8 .. 15)
            PROVE  n - 8 \in {i \in 0 .. 7 : i + 8 \in op.exit_code}
        BY <2>2
      <3>2. ASSUME NEW i \in 0 .. 7, i + 8 \in op.exit_code
            PROVE  i + 8 \in op.exit_code \cap (8 .. 15)
        BY <2>3, <3>2
      <3> QED
        BY <3>1, <3>2
    <2> QED
      BY <2>1, <2>4 DEF StatusOnlyOfSuccess
  <1> QED
    BY <1>1, PTL
=============================================================================
