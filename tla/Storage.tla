------------------------------ MODULE Storage ------------------------------
(***************************************************************************)
(* The user storages of a board: storage.conf is loaded by the first call   *)
(* (src/linux_support.c:470-661), the user area of a PICMG EEPROM is found  *)
(* by walking its chain of blocks (src/storage_picmg.c:93-96, 194-239,      *)
(* 341-351), and an area is read and written with as many system calls as   *)
(* the kernel makes of it (src/storage.c).                                  *)
(*                                                                          *)
(* A block is its identifier and the two bytes of its length in words; what *)
(* lies between the blocks is not modelled, and a walk that leaves the chain*)
(* is lost: it reads what no one wrote, or outside of the buffer.  char is  *)
(* signed on x86 and unsigned on ARM, and the bytes of an EEPROM are chars. *)
(***************************************************************************)
EXTENDS Integers, Sequences, FiniteSets

CONSTANTS
  Half,       \* half the values of a byte: 128
  IntMax,     \* the largest int32_t
  Confs,      \* contents of storage.conf
  Numbers,    \* numbers of storages asked for
  Offsets,    \* offsets asked for
  Lengths     \* lengths asked for

Ints == -IntMax - 1 .. IntMax
Bytes == 0 .. 2 * Half - 1
Ids == {"usr", "vendor", "crc", "other", "end"}

\* The entries of the list: not an object; without a path or with a wrong
\* start or size; a file that cannot be read; one that is no PICMG EEPROM; an
\* EEPROM; a range of a file, with the size the file really has.
Entries ==
  [type : {"alien", "wrong", "unreadable", "notPicmg"}]
    \cup [type : {"picmg"}, first : Bytes, blocks : Seq([id : Ids, hi : Bytes, lo : Bytes])]
    \cup [type : {"range"}, start : 0 .. IntMax, size : 1 .. IntMax, file : 0 .. IntMax]

ASSUME HalfAssumption == Half \in Nat \ {0}
ASSUME IntMaxAssumption == IntMax \in Nat \ {0}
ASSUME InputsAssumption ==
  Numbers \subseteq Nat /\ Offsets \subseteq Ints /\ Lengths \subseteq Ints
ASSUME ConfsAssumption ==
  \A c \in Confs : c.file \in {"list", "denied", "wrong"} /\ c.storages \in Seq(Entries)

VARIABLES
  char,       \* the build: "signed" or "unsigned"
  conf,       \* storage.conf
  siArr,      \* the storages, while they are loaded and after; <<>> is NULL
  siArrCount,
  pc,
  op,         \* the call
  nr,         \* the storage it is about
  i,          \* the entry of siArr that is storage nr
  bpos,       \* the walk: the offset of the block it is at
  blockCount, \* the blocks it has counted
  heads,      \* the blocks it has listed, with their offsets
  offset,     \* the first byte asked for, in the area
  dataLength, \* the bytes asked for, less those transferred
  buf,        \* the bytes transferred: the offset in pData
  pos,        \* the offset of the open file
  touched,    \* history: which byte of pData was moved from or to which of the file
  ret

input == <<char, conf>>
storages == <<siArr, siArrCount>>
walk == <<bpos, blockCount, heads>>
request == <<op, nr, offset>>
access == <<i, dataLength, buf, pos, touched>>
vars == <<input, storages, pc, walk, request, access, ret>>

Area == [usr : BOOLEAN, start : Int, size : Int]

TypeOK ==
  /\ char \in {"signed", "unsigned"}
  /\ siArr \in Seq(Area)
  /\ siArrCount \in 0 .. Len(siArr)
  /\ pc \in {"idle", "count", "load", "entry", "walk", "data", "search", "choose",
             "open", "transfer", "lost"}
  /\ op \in {"count", "size", "read", "write"}
  /\ nr \in Nat /\ i \in Nat
  /\ bpos \in Int /\ blockCount \in Nat
  /\ heads \in Seq([offset : Int, block : [id : Ids, hi : Bytes, lo : Bytes]])
  /\ offset \in Int /\ dataLength \in Int /\ buf \in Nat /\ pos \in Int
  /\ touched \subseteq Nat \X Int
  /\ ret \in {"none", "success", "param_error", "param_null", "error", "permission_denied"}

Init ==
  /\ char \in {"signed", "unsigned"}
  /\ conf \in Confs
  /\ siArr = <<>> /\ siArrCount = 0
  /\ pc = "idle" /\ op = "count" /\ nr = 0 /\ i = 0
  /\ bpos = 0 /\ blockCount = 0 /\ heads = <<>>
  /\ offset = 0 /\ dataLength = 0 /\ buf = 0 /\ pos = 0 /\ touched = {}
  /\ ret = "none"

-----------------------------------------------------------------------------
(* Bytes and blocks *)

\* A byte of an EEPROM as an int.
AsInt(b) == IF char = "signed" /\ b >= Half THEN b - 2 * Half ELSE b

\* (p[1] << 8) | p[2]: a negative low byte has ones where the high byte would be.
Words(b) == IF AsInt(b.lo) < 0 THEN AsInt(b.lo) ELSE 2 * Half * AsInt(b.hi) + b.lo

\* What is left of n in two bytes, with a sign.
Int16(n) == ((n + 2 * Half * Half) % (4 * Half * Half)) - 2 * Half * Half

CrcLength == 6

\* Broken: the CRC block is as long as it says.
LengthAsWritten(n) == n

\* The length of a block, whose length field says n bytes.
Length(n) == IF n = 0 THEN CrcLength ELSE n

UserHead == 14    \* what precedes the data of a user block: 0x0E

\* The length in bytes a block was written with, and where it begins.
TrueLength(b) == IF b.id = "crc" THEN CrcLength ELSE 2 * (2 * Half * b.hi + b.lo)
TrueOffset(e, k) ==
  LET at[n \in 1 .. k] ==
        IF n = 1 THEN 2 * e.first ELSE at[n - 1] + TrueLength(e.blocks[n - 1])
  IN  at[k]

FileSize(e) == IF e.type = "picmg" THEN TrueOffset(e, Len(e.blocks)) + 3 ELSE e.file

\* The entry that is being loaded, and the block the walk is at.
Entry == conf.storages[Len(siArr) + 1]
AtBlock(b) == \E k \in 1 .. Len(Entry.blocks) :
                Entry.blocks[k] = b /\ TrueOffset(Entry, k) = bpos
OffChain == \A k \in 1 .. Len(Entry.blocks) : TrueOffset(Entry, k) # bpos
-----------------------------------------------------------------------------
GoTo(l) == pc' = l

Return(r) == GoTo("idle") /\ ret' = r

Call(o, n, off, len) ==
  /\ pc = "idle"
  /\ GoTo("count")
  /\ op' = o /\ nr' = n /\ offset' = off
  /\ i' = 0 /\ dataLength' = len /\ buf' = 0 /\ pos' = 0 /\ touched' = {}
  /\ ret' = "none"
  /\ UNCHANGED <<input, storages, walk>>

Count ==
  /\ pc = "count"
  /\ GoTo(IF siArr = <<>> \/ siArrCount = 0 THEN "load" ELSE "choose")
  /\ UNCHANGED <<input, storages, walk, request, access, ret>>

\* conf_error: nothing stays loaded, and there are no storages.
LoadFails(r) ==
  /\ siArr' = <<>> /\ siArrCount' = 0
  /\ Return(IF r = "permission_denied" THEN r
            ELSE IF op = "count" THEN "success" ELSE "param_error")
  /\ UNCHANGED <<input, request, access>>

\* The only thread gets the mutex.
Load ==
  /\ pc = "load"
  /\ \/ /\ conf.file = "list"
        /\ GoTo("entry")
        /\ siArr' = <<>> /\ siArrCount' = 0
        /\ UNCHANGED <<input, request, access, ret>>
     \/ conf.file = "denied" /\ LoadFails("permission_denied")
     \/ conf.file = "wrong" /\ LoadFails("error")
  /\ UNCHANGED walk

Append1(area) ==
  /\ siArr' = Append(siArr, area)
  /\ GoTo("entry")
  /\ bpos' = 0 /\ blockCount' = 0 /\ heads' = <<>>
  /\ UNCHANGED <<input, siArrCount, request, access, ret>>

\* Broken: the entry that failed counts.
GoodAndFailed(n) == n + 1

\* The entries before the one that failed.
Good(n) == n

\* read_error: what is loaded stays, if there is anything.
KeepLoaded ==
  /\ \/ /\ siArr # <<>>
        /\ siArrCount' = Good(Len(siArr))
        /\ GoTo("choose")
        /\ UNCHANGED <<input, siArr, request, access, ret>>
     \/ siArr = <<>> /\ LoadFails("error")
  /\ bpos' = 0 /\ blockCount' = 0 /\ heads' = <<>>

\* The next entry, or the end of the list.  conf_error looks at the entry it
\* has made no room for, when there are entries before it: what is there is
\* freed, if it is not 0 by chance.
LoadEntry ==
  /\ pc = "entry"
  /\ \/ /\ Len(siArr) = Len(conf.storages)
        /\ siArrCount' = Len(siArr)
        /\ GoTo("choose")
        /\ UNCHANGED <<input, siArr, walk, request, access, ret>>
     \/ /\ Len(siArr) < Len(conf.storages)
        /\ \/ /\ Entry.type = "alien" /\ siArr # <<>>
              /\ GoTo("lost")
              /\ UNCHANGED <<input, storages, walk, request, access, ret>>
           \/ Entry.type \in {"alien", "wrong"} /\ LoadFails("error") /\ UNCHANGED walk
           \/ Entry.type \in {"unreadable", "notPicmg"} /\ KeepLoaded
           \/ /\ Entry.type = "range"
              /\ Append1([usr |-> TRUE, start |-> Entry.start, size |-> Entry.size])
           \/ /\ Entry.type = "picmg"
              /\ bpos' = 2 * AsInt(Entry.first)
              /\ GoTo("walk")
              /\ UNCHANGED <<input, storages, blockCount, heads, request, access, ret>>

\* The first walk is off the chain, or it goes round in it.
Stray ==
  /\ pc \in {"walk", "data"}
  /\ OffChain \/ blockCount > Len(Entry.blocks)
  /\ GoTo("lost")
  /\ UNCHANGED <<input, storages, walk, request, access, ret>>

\* The first walk counts blocks, with lengths of 16 bits.  It knows the CRC
\* block by an identifier that a signed char is never equal to.
CountBlock ==
  /\ pc = "walk" /\ blockCount <= Len(Entry.blocks)
  /\ \E b \in {Entry.blocks[k] : k \in 1 .. Len(Entry.blocks)} :
       /\ AtBlock(b)
       /\ LET blen == Int16(2 * Words(b))
              crc == b.id = "crc" /\ char = "unsigned"
          IN  IF blen = 0 /\ ~crc
              THEN /\ bpos' = 2 * AsInt(Entry.first)
                   /\ GoTo("data")
                   /\ UNCHANGED blockCount
              ELSE /\ bpos' = bpos + Length(blen)
                   /\ blockCount' = blockCount + 1
                   /\ UNCHANGED pc
  /\ UNCHANGED <<input, storages, heads, request, access, ret>>

\* The second walk lists as many blocks, with lengths of 32 bits.
ListBlock ==
  /\ pc = "data" /\ Len(heads) < blockCount
  /\ \E b \in {Entry.blocks[k] : k \in 1 .. Len(Entry.blocks)} :
       /\ AtBlock(b)
       /\ \/ /\ Words(b) = 0 /\ b.id # "crc"
             /\ KeepLoaded
          \/ /\ Words(b) # 0 \/ b.id = "crc"
             /\ heads' = Append(heads, [offset |-> bpos, block |-> b])
             /\ bpos' = bpos + Length(2 * Words(b))
             /\ UNCHANGED <<input, storages, pc, blockCount, request, access, ret>>

\* Broken: the header of the user block is counted in its area.
SizeWithHead(b) == 2 * Words(b)

Size(b) == 2 * Words(b) - UserHead

\* The user block: what follows its header is the user area.
UserHeads == {k \in 1 .. Len(heads) : heads[k].block.id = "usr"}

Search ==
  /\ pc = "data" /\ Len(heads) = blockCount
  /\ \/ /\ UserHeads = {}
        /\ Append1([usr |-> FALSE, start |-> 0, size |-> 0])
     \/ \E k \in UserHeads :
          /\ \A j \in UserHeads : k <= j
          /\ Append1([usr |-> TRUE, start |-> heads[k].offset + UserHead,
                      size |-> Size(heads[k].block)])
-----------------------------------------------------------------------------
(* The calls *)

\* Storage nr is the entry before which there are nr with a user area.
Nth(n) == /\ siArr[n].usr
          /\ Cardinality({k \in 1 .. n - 1 : siArr[k].usr}) = nr
Chosen == {n \in 1 .. siArrCount : Nth(n)}

\* What the sum of two ints that are not negative can be: its overflow is
\* undefined, and both the value that wraps and the one that does not occur.
SumOf(a, b) == {a + b} \cup {s \in {a + b - 2 * (IntMax + 1)} : a + b > IntMax}

\* Broken: only the first byte is compared with the size.
BeginFits(n, sum) == offset < siArr[n].size

Fits(n, sum) == sum <= siArr[n].size

\* The storage of a call and its parameters are looked at; pData may be NULL.
\* No entry has an empty path.
Choose ==
  /\ pc = "choose"
  /\ \/ /\ op \in {"count", "size"}
        /\ Return(IF op = "count" \/ Chosen # {} THEN "success" ELSE "param_error")
        /\ UNCHANGED access
     \/ /\ op \in {"read", "write"}
        /\ Chosen = {} \/ dataLength < 1 \/ offset < 0
        /\ Return("param_error")
        /\ UNCHANGED access
     \/ /\ op \in {"read", "write"} /\ Chosen # {}
        /\ Return("param_null")
        /\ UNCHANGED access
     \/ /\ op \in {"read", "write"}
        /\ dataLength >= 1 /\ offset >= 0
        /\ \E n \in Chosen, sum \in SumOf(offset, dataLength) :
             \/ Fits(n, sum) /\ i' = n /\ GoTo("open") /\ UNCHANGED ret
             \/ ~Fits(n, sum) /\ i' = n /\ Return("param_error")
        /\ UNCHANGED <<dataLength, buf, pos, touched>>
  /\ UNCHANGED <<input, storages, walk, request>>

Open ==
  /\ pc = "open"
  /\ \E p \in SumOf(siArr[i].start, offset) :
       /\ p >= 0
       /\ pos' = p
  /\ GoTo("transfer")
  /\ UNCHANGED <<input, storages, walk, request, i, dataLength, buf, touched, ret>>

\* No access, or open or lseek fails.
OpenFails ==
  /\ pc = "open"
  /\ \E r \in {"permission_denied", "error"} : Return(r)
  /\ UNCHANGED <<input, storages, walk, request, access>>

\* Broken: the next call moves its bytes to the same place in the buffer.
AdvanceInFile(n) == dataLength' = dataLength - n /\ UNCHANGED buf

Advance(n) == dataLength' = dataLength - n /\ buf' = buf + n

\* read or write moves n bytes, not always all; a device does not grow.  When
\* the file has ended they move none, and the loop makes the same call for ever.
Transfer ==
  /\ pc = "transfer"
  /\ \E n \in 1 .. dataLength :
       /\ pos + n <= FileSize(conf.storages[i])
       /\ touched' = touched \cup {<<buf + m, pos + m>> : m \in 0 .. n - 1}
       /\ pos' = pos + n
       /\ IF n = dataLength
          THEN Return("success") /\ UNCHANGED <<dataLength, buf>>
          ELSE Advance(n) /\ UNCHANGED <<pc, ret>>
  /\ UNCHANGED <<input, storages, walk, request, i>>

TransferFails ==
  /\ pc = "transfer"
  /\ Return("error")
  /\ UNCHANGED <<input, storages, walk, request, access>>

Calls ==
  \/ Call("count", 0, 0, 0)
  \/ \E n \in Numbers : Call("size", n, 0, 0)
  \/ \E o \in {"read", "write"}, n \in Numbers, off \in Offsets, len \in Lengths :
       Call(o, n, off, len)

Step ==
  \/ Count \/ Load \/ LoadEntry \/ CountBlock \/ ListBlock \/ Search
  \/ Choose \/ Open \/ Transfer

Next == Calls \/ Step \/ Stray \/ OpenFails \/ TransferFails

Spec == Init /\ [][Next]_vars

\* The thread runs; nobody has to call, and nothing has to fail.
Fairness == WF_vars(Step)

FairSpec == Spec /\ Fairness
-----------------------------------------------------------------------------
(* Properties *)

\* A chain as the walks expect it (storage_picmg.c:204-207, 230-233): the end of
\* the list is its last block and the only one without a length, the length
\* fields of a CRC block are 0, and no byte or length is so large that a char or
\* 16 bits would lose its sign.
WellFormed(e) ==
  LET n == Len(e.blocks) IN
  /\ n > 0 /\ e.first < Half
  /\ \A k \in 1 .. n : /\ e.blocks[k].id = "end" <=> k = n
                       /\ TrueLength(e.blocks[k]) = 0 <=> k = n
                       /\ e.blocks[k].id = "crc" => e.blocks[k].hi = 0 /\ e.blocks[k].lo = 0
                       /\ e.blocks[k].lo < Half
                       /\ TrueLength(e.blocks[k]) < 2 * Half * Half

\* With a signed char the chain ends at its first CRC block.
CrcIsSeen(e) ==
  \/ char = "unsigned"
  \/ \A j, k \in 1 .. Len(e.blocks) :
       j < k => ~(e.blocks[j].id = "crc" /\ e.blocks[k].id = "usr")

\* What the chain says: the first user block.
UserBlocks(e) == {k \in 1 .. Len(e.blocks) : e.blocks[k].id = "usr"}
UserArea(e) ==
  IF UserBlocks(e) = {} THEN [usr |-> FALSE, start |-> 0, size |-> 0]
  ELSE LET k == CHOOSE j \in UserBlocks(e) : \A l \in UserBlocks(e) : j <= l
       IN  [usr |-> TRUE, start |-> TrueOffset(e, k) + UserHead,
            size |-> TrueLength(e.blocks[k]) - UserHead]

\* The two walks find the user area that the chain describes, on every EEPROM
\* whose chain is well-formed (storage_picmg.c:194-239, 341-351).
UserAreaFound ==
  \A n \in 1 .. Len(siArr) :
    LET e == conf.storages[n] IN
    e.type = "picmg" /\ WellFormed(e) /\ CrcIsSeen(e) => siArr[n] = UserArea(e)

NoOverflow == offset + buf + dataLength <= IntMax

\* A read or a write touches the area of its storage only, however the kernel
\* splits it, if no sum of its offset with a length or a start is too large.
StaysInArea ==
  \A t \in touched :
    NoOverflow /\ siArr[i].start + offset <= IntMax =>
      siArr[i].start <= t[2] /\ t[2] < siArr[i].start + siArr[i].size

\* The first k bytes asked for, from or to the offsets of the file from p on.
Moved(p, k) == {<<m, p + m>> : m \in 0 .. k - 1}

\* Success of a read or a write means that each byte of the buffer was moved,
\* from or to its own place in the area, and no other byte.
SuccessMeansDone ==
  op \in {"read", "write"} /\ ret = "success" =>
    \E p \in SumOf(siArr[i].start, offset) :
      touched = Moved(p, buf + dataLength)

\* What a call needs to end: chains it finds its way through, no entry the
\* clean-up trips over, and areas that are inside their files.
Sane ==
  /\ \A n \in 1 .. Len(conf.storages) :
       LET e == conf.storages[n] IN
       /\ e.type # "alien"
       /\ e.type = "picmg" => WellFormed(e)
       /\ e.type = "range" => e.start + e.size <= e.file
  /\ NoOverflow

\* Every such call returns.
CallsReturn == (Sane /\ pc # "idle") ~> (pc = "idle")
=============================================================================
