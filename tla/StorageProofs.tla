--------------------------- MODULE StorageProofs ---------------------------
(* What holds of the storages for any storage.conf, any EEPROM and any      *)
(* numbers: the loading keeps its types, the two walks find the user area   *)
(* that the chain of blocks describes, a transfer stays in the area of its  *)
(* storage and success means that all of it was done.                       *)
EXTENDS Storage, FiniteSetTheorems, TLAPS

Block == [id : Ids, hi : Bytes, lo : Bytes]
Listing == [offset : Int, block : Block]

\* While an entry is looked into, there is one, and it is an EEPROM.
Walking ==
  /\ conf \in Confs
  /\ pc \in {"entry", "walk", "data"} => Len(siArr) <= Len(conf.storages)
  /\ pc \in {"walk", "data"} =>
       Len(siArr) < Len(conf.storages) /\ Entry.type = "picmg"

Loaded == TypeOK /\ Walking

LEMMA ModType ==
  ASSUME NEW a \in Int, NEW b \in Nat \ {0}
  PROVE  a % b \in Int
BY SMT

\* The bytes of a block give a length, with a sign.
LEMMA LengthType ==
  ASSUME NEW b \in Block, char \in {"signed", "unsigned"}
  PROVE  Words(b) \in Int /\ Int16(2 * Words(b)) \in Int
<1>1. Half \in Nat /\ Half > 0
  BY HalfAssumption
<1>2. b.lo \in Int /\ b.hi \in Int
  BY <1>1 DEF Block, Bytes
<1>3. AsInt(b.lo) \in Int /\ AsInt(b.hi) \in Int
  BY <1>1, <1>2 DEF AsInt
<1>4. Words(b) \in Int
  BY <1>1, <1>2, <1>3 DEF Words
<1>5. (2 * Words(b) + 2 * Half * Half) \in Int /\ 4 * Half * Half \in Nat \ {0}
  BY <1>1, <1>4
<1>6. (2 * Words(b) + 2 * Half * Half) % (4 * Half * Half) \in Int
  BY <1>5, ModType
<1> QED BY <1>1, <1>4, <1>6 DEF Int16

\* What is known of the entry that is looked into.
LEMMA EntryType ==
  ASSUME conf \in Confs, siArr \in Seq(Area), Len(siArr) < Len(conf.storages)
  PROVE  /\ Entry.type = "picmg" => Entry.first \in Bytes /\ Entry.blocks \in Seq(Block)
         /\ Entry.type = "range" => Entry.start \in Int /\ Entry.size \in Int
<1>1. conf.storages \in Seq(Entries)
  BY ConfsAssumption
<1>2. Entry \in Entries
  BY <1>1 DEF Entry
<1> QED BY <1>2, IntMaxAssumption DEF Entries, Block

LEMMA FirstType ==
  ASSUME NEW b \in Bytes, char \in {"signed", "unsigned"}
  PROVE  AsInt(b) \in Int
BY HalfAssumption DEF AsInt, Bytes

LEMMA LoadedInit == Init => Loaded
BY DEF Init, Loaded, TypeOK, Walking

\* What ends a load without a storage.
LEMMA FailKeeps ==
  ASSUME Loaded, NEW r \in {"permission_denied", "error"}, LoadFails(r),
         UNCHANGED walk \/ (bpos' = 0 /\ blockCount' = 0 /\ heads' = <<>>)
  PROVE  Loaded'
<1> USE DEF LoadFails, Return, GoTo
<1>0. TypeOK
  BY DEF Loaded
<1>2. bpos' \in Int /\ blockCount' \in Nat /\ heads' \in Seq(Listing)
  <2>1. CASE UNCHANGED walk
    BY <1>0, <2>1 DEF TypeOK, walk, Listing, Block
  <2>2. CASE bpos' = 0 /\ blockCount' = 0 /\ heads' = <<>>
    BY <2>2
  <2> QED BY <2>1, <2>2
<1>3. siArr' \in Seq(Area) /\ siArrCount' \in 0 .. Len(siArr')
  OBVIOUS
<1>4. ret' \in {"success", "param_error", "permission_denied"}
  OBVIOUS
<1>1. TypeOK' /\ conf' = conf /\ pc' = "idle"
  BY <1>0, <1>2, <1>3, <1>4 DEF TypeOK, input, request, access, Listing, Block
<1> QED BY <1>1 DEF Loaded, Walking

LEMMA KeepKeeps ==
  ASSUME Loaded, KeepLoaded
  PROVE  Loaded'
<1>1. CASE siArr # <<>> /\ siArrCount' = Good(Len(siArr)) /\ GoTo("choose")
             /\ UNCHANGED <<input, siArr, request, access, ret>>
  BY <1>1 DEF Loaded, TypeOK, Walking, KeepLoaded, Good, GoTo, input, request, access
<1>2. CASE LoadFails("error")
  BY <1>2, FailKeeps DEF KeepLoaded
<1> QED BY <1>1, <1>2 DEF KeepLoaded

LEMMA AppendKeeps ==
  ASSUME Loaded, Len(siArr) < Len(conf.storages), NEW a \in Area, Append1(a)
  PROVE  Loaded'
<1>1. siArr' \in Seq(Area) /\ Len(siArr') = Len(siArr) + 1
  BY DEF Loaded, TypeOK, Append1
<1>2. conf.storages \in Seq(Entries)
  BY ConfsAssumption DEF Loaded, Walking
<1>3. TypeOK'
  BY <1>1 DEF Loaded, TypeOK, Append1, GoTo, input, request, access
<1>4. Walking'
  BY <1>1, <1>2 DEF Loaded, Walking, Append1, GoTo, input
<1> QED BY <1>3, <1>4 DEF Loaded

LEMMA LoadKeeps ==
  ASSUME Loaded, Load
  PROVE  Loaded'
<1>1. CASE conf.file = "list" /\ GoTo("entry") /\ siArr' = <<>> /\ siArrCount' = 0
             /\ UNCHANGED <<input, request, access, ret>>
  <2>1. conf.storages \in Seq(Entries)
    BY ConfsAssumption DEF Loaded, Walking
  <2>2. Len(siArr') = 0 /\ Len(siArr') <= Len(conf.storages)
    BY <1>1, <2>1
  <2>3. TypeOK'
    BY <1>1, <2>2 DEF Loaded, TypeOK, Load, GoTo, input, request, access, walk
  <2> QED BY <1>1, <2>2, <2>3 DEF Loaded, Walking, GoTo, input
<1>2. CASE LoadFails("permission_denied")
  BY <1>2, FailKeeps DEF Load
<1>3. CASE LoadFails("error")
  BY <1>3, FailKeeps DEF Load
<1> QED BY <1>1, <1>2, <1>3 DEF Load

LEMMA EntryKeeps ==
  ASSUME Loaded, LoadEntry
  PROVE  Loaded'
<1> USE DEF LoadEntry
<1>1. CASE /\ Len(siArr) = Len(conf.storages)
           /\ siArrCount' = Len(siArr)
           /\ GoTo("choose")
           /\ UNCHANGED <<input, siArr, walk, request, access, ret>>
  BY <1>1 DEF Loaded, TypeOK, Walking, GoTo, input, walk, request, access
<1>2. CASE Len(siArr) < Len(conf.storages)
  <2> USE <1>2
  <2>1. CASE GoTo("lost") /\ UNCHANGED <<input, storages, walk, request, access, ret>>
    BY <2>1 DEF Loaded, TypeOK, Walking, GoTo, input, storages, walk, request, access
  <2>2. CASE LoadFails("error") /\ UNCHANGED walk
    BY <2>2, FailKeeps
  <2>3. CASE KeepLoaded
    BY <2>3, KeepKeeps
  <2>4. CASE Entry.type = "range"
             /\ Append1([usr |-> TRUE, start |-> Entry.start, size |-> Entry.size])
    <3>1. [usr |-> TRUE, start |-> Entry.start, size |-> Entry.size] \in Area
      BY <2>4, EntryType DEF Area, Loaded, TypeOK, Walking
    <3> QED BY <2>4, <3>1, AppendKeeps
  <2>5. CASE /\ Entry.type = "picmg"
             /\ bpos' = 2 * AsInt(Entry.first)
             /\ GoTo("walk")
             /\ UNCHANGED <<input, storages, blockCount, heads, request, access, ret>>
    <3>1. Entry.first \in Bytes
      BY <2>5, EntryType DEF Loaded, TypeOK, Walking
    <3>2. AsInt(Entry.first) \in Int
      BY <3>1, FirstType DEF Loaded, TypeOK
    <3>3. bpos' \in Int
      BY <2>5, <3>2
    <3>4. TypeOK'
      BY <2>5, <3>3 DEF Loaded, TypeOK, GoTo, input, storages, request, access
    <3>5. Walking'
      BY <2>5 DEF Loaded, Walking, GoTo, input, storages, Entry
    <3> QED BY <3>4, <3>5 DEF Loaded
  <2> QED BY <2>1, <2>2, <2>3, <2>4, <2>5
<1> QED BY <1>1, <1>2

LEMMA CountBlockKeeps ==
  ASSUME Loaded, CountBlock
  PROVE  Loaded'
<1>1. Entry.blocks \in Seq(Block) /\ Entry.first \in Bytes
  BY EntryType DEF Loaded, TypeOK, Walking, CountBlock
<1>2. PICK b \in {Entry.blocks[k] : k \in 1 .. Len(Entry.blocks)} :
        LET blen == Int16(2 * Words(b)) IN
        \/ bpos' = 2 * AsInt(Entry.first) /\ GoTo("data") /\ UNCHANGED blockCount
        \/ bpos' = bpos + Length(blen) /\ blockCount' = blockCount + 1 /\ UNCHANGED pc
  BY DEF CountBlock
<1>3. b \in Block
  BY <1>1
<1>4. Int16(2 * Words(b)) \in Int /\ AsInt(Entry.first) \in Int
  BY <1>1, <1>3, LengthType, FirstType DEF Loaded, TypeOK
<1>5. bpos' \in Int /\ blockCount' \in Nat
  BY <1>2, <1>4 DEF Loaded, TypeOK, Length, CrcLength
<1>6. pc' \in {"walk", "data"} /\ UNCHANGED <<input, storages, heads, request, access, ret>>
  BY <1>2 DEF CountBlock, GoTo
<1>7. TypeOK'
  BY <1>5, <1>6 DEF Loaded, TypeOK, input, storages, request, access
<1>8. Walking'
  BY <1>6 DEF Loaded, Walking, CountBlock, Entry, input, storages
<1> QED BY <1>7, <1>8 DEF Loaded

LEMMA ListBlockKeeps ==
  ASSUME Loaded, ListBlock
  PROVE  Loaded'
<1>1. Entry.blocks \in Seq(Block)
  BY EntryType DEF Loaded, TypeOK, Walking, ListBlock
<1>2. PICK b \in {Entry.blocks[k] : k \in 1 .. Len(Entry.blocks)} :
        \/ KeepLoaded
        \/ /\ heads' = Append(heads, [offset |-> bpos, block |-> b])
           /\ bpos' = bpos + Length(2 * Words(b))
           /\ UNCHANGED <<input, storages, pc, blockCount, request, access, ret>>
  BY DEF ListBlock
<1>3. CASE KeepLoaded
  BY <1>3, KeepKeeps
<1>4. CASE /\ heads' = Append(heads, [offset |-> bpos, block |-> b])
           /\ bpos' = bpos + Length(2 * Words(b))
           /\ UNCHANGED <<input, storages, pc, blockCount, request, access, ret>>
  <2>1. b \in Block
    BY <1>1
  <2>2. Words(b) \in Int
    BY <2>1, LengthType DEF Loaded, TypeOK
  <2>3. bpos' \in Int
    BY <1>4, <2>2 DEF Loaded, TypeOK, Length, CrcLength
  <2>4. [offset |-> bpos, block |-> b] \in Listing
    BY <2>1 DEF Loaded, TypeOK, Listing
  <2>5. heads \in Seq(Listing)
    BY DEF Loaded, TypeOK, Listing, Block
  <2>6. heads' \in Seq(Listing)
    BY <1>4, <2>4, <2>5
  <2>7. TypeOK'
    BY <1>4, <2>3, <2>6 DEF Loaded, TypeOK, Listing, Block, input, storages, request, access
  <2>8. Walking'
    BY <1>4 DEF Loaded, Walking, Entry, input, storages
  <2> QED BY <2>7, <2>8 DEF Loaded
<1> QED BY <1>2, <1>3, <1>4

LEMMA SearchKeeps ==
  ASSUME Loaded, Search
  PROVE  Loaded'
<1>0. Len(siArr) < Len(conf.storages)
  BY DEF Loaded, Walking, Search
<1>1. CASE Append1([usr |-> FALSE, start |-> 0, size |-> 0])
  <2>1. [usr |-> FALSE, start |-> 0, size |-> 0] \in Area
    BY DEF Area
  <2> QED BY <1>0, <1>1, <2>1, AppendKeeps
<1>2. ASSUME NEW k \in UserHeads,
             Append1([usr |-> TRUE, start |-> heads[k].offset + UserHead,
                      size |-> Size(heads[k].block)])
      PROVE  Loaded'
  <2>0. heads \in Seq(Listing) /\ k \in 1 .. Len(heads)
    BY <1>2 DEF UserHeads, Loaded, TypeOK, Listing, Block
  <2>1. heads[k] \in Listing
    BY <2>0
  <2>2. heads[k].offset \in Int /\ heads[k].block \in Block
    BY <2>1 DEF Listing
  <2>3. Words(heads[k].block) \in Int
    BY <2>2, LengthType DEF Loaded, TypeOK
  <2>4. heads[k].offset + UserHead \in Int /\ Size(heads[k].block) \in Int
    BY <2>2, <2>3 DEF UserHead, Size
  <2>5. [usr |-> TRUE, start |-> heads[k].offset + UserHead,
         size |-> Size(heads[k].block)] \in Area
    BY <2>4 DEF Area
  <2> QED BY <1>0, <1>2, <2>5, AppendKeeps
<1> QED BY <1>1, <1>2 DEF Search
-----------------------------------------------------------------------------
(* Transfers *)

Requested ==
  /\ op \in {"read", "write"}
  /\ i \in 1 .. Len(siArr)
  /\ offset >= 0 /\ dataLength >= 1
  /\ \E sum \in SumOf(offset, buf + dataLength) : sum <= siArr[i].size

TransferInv ==
  /\ pc \notin {"idle", "transfer"} => touched = {} /\ buf = 0
  /\ pc = "open" => Requested
  /\ pc = "transfer" =>
       /\ Requested
       /\ \E p \in SumOf(siArr[i].start, offset) : pos = p + buf /\ touched = Moved(p, buf)
  /\ touched # {} =>
       /\ Requested
       /\ \E p \in SumOf(siArr[i].start, offset), k \in 0 .. buf + dataLength :
            touched = Moved(p, k)
  /\ pc = "idle" => SuccessMeansDone
  /\ pc # "idle" => ret = "none"

StorageInv == Loaded /\ TransferInv

LEMMA MovedMore ==
  ASSUME NEW p \in Int, NEW k \in Nat, NEW n \in Nat
  PROVE  Moved(p, k) \cup {<<k + m, p + k + m>> : m \in 0 .. n - 1} = Moved(p, k + n)
<1>1. ASSUME NEW x \in Moved(p, k + n)
      PROVE  x \in Moved(p, k) \cup {<<k + m, p + k + m>> : m \in 0 .. n - 1}
  <2>1. PICK m \in 0 .. k + n - 1 : x = <<m, p + m>>
    BY DEF Moved
  <2>2. CASE m < k
    BY <2>1, <2>2 DEF Moved
  <2>3. CASE m >= k
    <3>1. m - k \in 0 .. n - 1 /\ m = k + (m - k) /\ p + m = p + k + (m - k)
      BY <2>3
    <3> QED BY <2>1, <3>1
  <2> QED BY <2>1, <2>2, <2>3
<1>2. ASSUME NEW x \in Moved(p, k)
      PROVE  x \in Moved(p, k + n)
  BY DEF Moved
<1>3. ASSUME NEW m \in 0 .. n - 1
      PROVE  <<k + m, p + k + m>> \in Moved(p, k + n)
  <2>1. k + m \in 0 .. k + n - 1 /\ p + k + m = p + (k + m)
    OBVIOUS
  <2> QED BY <2>1 DEF Moved
<1> QED BY <1>1, <1>2, <1>3

LEMMA SumType ==
  ASSUME NEW a \in Int, NEW b \in Int, NEW s \in SumOf(a, b)
  PROVE  s \in Int
BY IntMaxAssumption DEF SumOf

\* While nothing is transferred only the places matter.
LEMMA QuietStep ==
  ASSUME TransferInv, pc \notin {"idle", "transfer"}, UNCHANGED <<request, access>>,
         pc' \notin {"open", "transfer"}, pc' # "idle" => ret' = ret,
         pc' = "idle" => ret' # "success" \/ op = "count" \/ op = "size"
  PROVE  TransferInv'
BY DEF TransferInv, request, access, SuccessMeansDone

\* The area a request is about is one.
LEMMA RequestType ==
  ASSUME Loaded, Requested
  PROVE  siArr[i].start \in Int /\ siArr[i].size \in Int /\ offset \in Int
<1>1. siArr \in Seq(Area) /\ i \in 1 .. Len(siArr) /\ offset \in Int
  BY DEF Loaded, TypeOK, Requested
<1>2. siArr[i] \in Area
  BY <1>1
<1> QED BY <1>1, <1>2 DEF Area

LEMMA StorageInit == Init => StorageInv
<1> SUFFICES ASSUME Init PROVE StorageInv
  OBVIOUS
<1>1. TransferInv
  BY DEF Init, TransferInv, SuccessMeansDone
<1> QED BY <1>1, LoadedInit DEF StorageInv

LEMMA CallKeeps ==
  ASSUME StorageInv, Calls
  PROVE  StorageInv'
<1>1. PICK o \in {"count", "size", "read", "write"}, n \in Nat, off \in Int, len \in Int :
        Call(o, n, off, len)
  <2>1. Numbers \subseteq Nat /\ Offsets \subseteq Int /\ Lengths \subseteq Int
    BY InputsAssumption, IntMaxAssumption DEF Ints
  <2> QED BY <2>1 DEF Calls
<1> USE DEF Call, GoTo
<1>2. Loaded'
  BY <1>1 DEF StorageInv, Loaded, TypeOK, Walking, input, storages, walk
<1>3. TransferInv'
  BY <1>1 DEF TransferInv
<1> QED BY <1>2, <1>3 DEF StorageInv

\* The steps before the choice of the storage.
LEMMA LoadingKeeps ==
  ASSUME StorageInv, Count \/ Load \/ LoadEntry \/ CountBlock \/ ListBlock \/ Search \/ Stray
  PROVE  StorageInv'
<1> USE DEF StorageInv
<1>0. ASSUME NEW r, LoadFails(r), UNCHANGED <<request>>, UNCHANGED access
      PROVE  pc' = "idle" /\ (ret' # "success" \/ op = "count")
  BY <1>0 DEF LoadFails, Return, GoTo
<1>1. CASE Count
  <2>1. Loaded'
    BY <1>1 DEF Count, GoTo, Loaded, TypeOK, Walking, input, storages, walk, request, access
  <2>2. TransferInv'
    BY <1>1, QuietStep DEF Count, GoTo
  <2> QED BY <2>1, <2>2
<1>2. CASE Load
  <2>1. pc = "load" /\ UNCHANGED <<request, access>> /\ pc' \in {"entry", "idle"}
        /\ (pc' = "idle" => ret' # "success" \/ op = "count")
        /\ (pc' # "idle" => ret' = ret)
    BY <1>2 DEF Load, LoadFails, Return, GoTo
  <2> QED BY <1>2, <2>1, LoadKeeps, QuietStep
<1>3. CASE LoadEntry
  <2>1. pc = "entry" /\ UNCHANGED <<request, access>> /\ pc' \in {"choose", "lost", "idle", "entry", "walk"}
        /\ (pc' = "idle" => ret' # "success" \/ op = "count")
        /\ (pc' # "idle" => ret' = ret)
    BY <1>3 DEF LoadEntry, LoadFails, KeepLoaded, Append1, Return, GoTo
  <2> QED BY <1>3, <2>1, EntryKeeps, QuietStep
<1>4. CASE CountBlock
  <2>1. pc = "walk" /\ UNCHANGED <<request, access, ret>> /\ pc' \in {"walk", "data"}
    BY <1>4 DEF CountBlock, GoTo
  <2> QED BY <1>4, <2>1, CountBlockKeeps, QuietStep
<1>5. CASE ListBlock
  <2>1. pc = "data" /\ UNCHANGED <<request, access>> /\ pc' \in {"data", "choose", "idle"}
        /\ (pc' = "idle" => ret' # "success" \/ op = "count")
        /\ (pc' # "idle" => ret' = ret)
    BY <1>5 DEF ListBlock, LoadFails, KeepLoaded, Return, GoTo
  <2> QED BY <1>5, <2>1, ListBlockKeeps, QuietStep
<1>6. CASE Search
  <2>1. pc = "data" /\ UNCHANGED <<request, access, ret>> /\ pc' = "entry"
    BY <1>6 DEF Search, Append1, GoTo
  <2> QED BY <1>6, <2>1, SearchKeeps, QuietStep
<1>7. CASE Stray
  <2>1. Loaded'
    BY <1>7 DEF Stray, GoTo, Loaded, TypeOK, Walking, input, storages, walk, request, access
  <2>2. TransferInv'
    BY <1>7, QuietStep DEF Stray, GoTo
  <2> QED BY <2>1, <2>2
<1> QED BY <1>1, <1>2, <1>3, <1>4, <1>5, <1>6, <1>7

LEMMA ChooseKeeps ==
  ASSUME StorageInv, Choose
  PROVE  StorageInv'
<1> USE DEF StorageInv
<1>0. pc = "choose" /\ UNCHANGED <<input, storages, walk, request>>
  BY DEF Choose
<1>1. CASE /\ op \in {"count", "size"}
           /\ Return(IF op = "count" \/ Chosen # {} THEN "success" ELSE "param_error")
           /\ UNCHANGED access
  <2>1. Loaded'
    BY <1>0, <1>1 DEF Return, GoTo, Loaded, TypeOK, Walking, input, storages, walk, request, access
  <2>2. TransferInv'
    BY <1>0, <1>1, QuietStep DEF Return, GoTo
  <2> QED BY <2>1, <2>2
<1>2. ASSUME NEW r \in {"param_error", "param_null"}, Return(r), UNCHANGED access
      PROVE  StorageInv'
  <2>1. Loaded'
    BY <1>0, <1>2 DEF Return, GoTo, Loaded, TypeOK, Walking, input, storages, walk, request, access
  <2>2. TransferInv'
    BY <1>0, <1>2, QuietStep DEF Return, GoTo
  <2> QED BY <2>1, <2>2
<1>3. ASSUME op \in {"read", "write"}, dataLength >= 1, offset >= 0,
             UNCHANGED <<dataLength, buf, pos, touched>>,
             NEW n \in Chosen, NEW sum \in SumOf(offset, dataLength), i' = n,
             \/ Fits(n, sum) /\ GoTo("open") /\ UNCHANGED ret
             \/ Return("param_error")
      PROVE  StorageInv'
  <2>1. n \in 1 .. Len(siArr) /\ n \in Nat
    BY DEF Chosen, Loaded, TypeOK
  <2>2. pc' \in {"open", "idle"} /\ (pc' = "idle" => ret' = "param_error")
        /\ ret' \in {ret, "param_error"} /\ (pc' = "open" => ret' = ret)
    BY <1>3 DEF Return, GoTo
  <2>3. Loaded'
    BY <1>0, <1>3, <2>1, <2>2 DEF Loaded, TypeOK, Walking, input, storages, walk, request
  <2>4. touched' = {} /\ buf' = 0
    BY <1>0, <1>3 DEF TransferInv
  <2>5. ASSUME pc' = "open" PROVE Requested'
    <3>1. sum <= siArr[n].size
      BY <1>3, <2>5 DEF Fits, Return, GoTo
    <3>2. sum \in SumOf(offset', buf' + dataLength')
      BY <1>0, <1>3, <2>4 DEF request, Loaded, TypeOK
    <3>3. sum <= siArr'[i'].size
      BY <1>0, <1>3, <3>1 DEF storages
    <3>4. i' \in 1 .. Len(siArr') /\ op' \in {"read", "write"} /\ offset' >= 0 /\ dataLength' >= 1
      BY <1>0, <1>3, <2>1 DEF storages, request
    <3> QED BY <3>2, <3>3, <3>4 DEF Requested
  <2>6. TransferInv'
    BY <1>0, <2>2, <2>4, <2>5 DEF TransferInv, SuccessMeansDone
  <2> QED BY <2>3, <2>6
<1> QED BY <1>1, <1>2, <1>3 DEF Choose

LEMMA OpenKeeps ==
  ASSUME StorageInv, Open \/ OpenFails
  PROVE  StorageInv'
<1> USE DEF StorageInv
<1>1. CASE Open
  <2>1. PICK p \in SumOf(siArr[i].start, offset) : pos' = p
    BY <1>1 DEF Open
  <2>2. /\ pc = "open" /\ pc' = "transfer"
        /\ UNCHANGED <<input, storages, walk, request, i, dataLength, buf, touched, ret>>
    BY <1>1 DEF Open, GoTo
  <2>3. Requested /\ touched = {} /\ buf = 0
    BY <2>2 DEF TransferInv
  <2>4. siArr[i].start \in Int /\ offset \in Int
    BY <2>3, RequestType
  <2>5. p \in Int
    BY <2>4, SumType
  <2>6. Loaded'
    BY <2>1, <2>2, <2>5 DEF Loaded, TypeOK, Walking, input, storages, walk, request
  <2>7. Requested'
    BY <2>2, <2>3 DEF Requested, storages, request
  <2>8. p \in SumOf(siArr'[i'].start, offset') /\ pos' = p + buf' /\ touched' = Moved(p, buf')
    BY <2>1, <2>2, <2>3, <2>5 DEF storages, request, Moved
  <2>9. TransferInv'
    BY <2>2, <2>3, <2>7, <2>8 DEF TransferInv
  <2> QED BY <2>6, <2>9
<1>2. CASE OpenFails
  <2>1. /\ pc = "open" /\ pc' = "idle" /\ ret' \in {"permission_denied", "error"}
        /\ UNCHANGED <<input, storages, walk, request, access>>
    BY <1>2 DEF OpenFails, Return, GoTo
  <2>2. Loaded'
    BY <2>1 DEF Loaded, TypeOK, Walking, input, storages, walk, request, access
  <2>3. TransferInv'
    BY <2>1, QuietStep
  <2> QED BY <2>2, <2>3
<1> QED BY <1>1, <1>2

LEMMA TransferKeeps ==
  ASSUME StorageInv, Transfer
  PROVE  StorageInv'
<1> USE DEF StorageInv
<1>1. PICK n \in 1 .. dataLength :
        /\ touched' = touched \cup {<<buf + m, pos + m>> : m \in 0 .. n - 1}
        /\ pos' = pos + n
        /\ IF n = dataLength
           THEN Return("success") /\ UNCHANGED <<dataLength, buf>>
           ELSE Advance(n) /\ UNCHANGED <<pc, ret>>
  BY DEF Transfer
<1>2. pc = "transfer" /\ UNCHANGED <<input, storages, walk, request, i>>
  BY DEF Transfer
<1>3. Requested
  BY <1>2 DEF TransferInv
<1>4. PICK p \in SumOf(siArr[i].start, offset) : pos = p + buf /\ touched = Moved(p, buf)
  BY <1>2 DEF TransferInv
<1>5. p \in Int /\ buf \in Nat /\ n \in Nat /\ dataLength \in Nat /\ offset \in Int
  <2>1. siArr[i].start \in Int /\ offset \in Int
    BY <1>3, RequestType
  <2> QED BY <1>3, <2>1, SumType DEF Requested, Loaded, TypeOK
<1>6. touched' = Moved(p, buf + n)
  <2>1. \A m \in 0 .. n - 1 : pos + m = p + buf + m
    BY <1>4, <1>5
  <2>2. {<<buf + m, pos + m>> : m \in 0 .. n - 1} = {<<buf + m, p + buf + m>> : m \in 0 .. n - 1}
    BY <2>1
  <2>3. Moved(p, buf) \cup {<<buf + m, p + buf + m>> : m \in 0 .. n - 1} = Moved(p, buf + n)
    BY <1>5, MovedMore
  <2>4. touched' = touched \cup {<<buf + m, pos + m>> : m \in 0 .. n - 1}
    BY <1>1
  <2>5. touched = Moved(p, buf)
    BY <1>4
  <2> QED BY <2>2, <2>3, <2>4, <2>5, Zenon
<1>7. touched' \subseteq Nat \X Int
  BY <1>5, <1>6 DEF Moved
<1>8. p \in SumOf(siArr'[i'].start, offset')
  BY <1>2 DEF storages, request
<1>9. CASE n = dataLength
  <2>1. /\ pc' = "idle" /\ ret' = "success"
        /\ UNCHANGED <<dataLength, buf>>
    BY <1>1, <1>9 DEF Return, GoTo
  <2>2. Loaded'
    BY <1>1, <1>2, <1>5, <1>7, <2>1 DEF Loaded, TypeOK, Walking, input, storages, walk, request
  <2>3. Requested'
    BY <1>2, <1>3, <2>1 DEF Requested, storages, request
  <2>4. touched' = Moved(p, buf' + dataLength')
    BY <1>6, <1>9, <2>1
  <2>5. buf' + dataLength' \in 0 .. buf' + dataLength'
    BY <1>5, <2>1
  <2>6. SuccessMeansDone'
    BY <1>8, <2>4 DEF SuccessMeansDone
  <2>7. TransferInv'
    BY <1>8, <2>1, <2>3, <2>4, <2>5, <2>6 DEF TransferInv
  <2> QED BY <2>2, <2>7
<1>10. CASE n # dataLength
  <2>1. /\ UNCHANGED <<pc, ret>>
        /\ dataLength' = dataLength - n /\ buf' = buf + n
    BY <1>1, <1>10 DEF Advance
  <2>2. dataLength' \in Nat /\ dataLength' >= 1 /\ buf' \in Nat
        /\ buf' + dataLength' = buf + dataLength
    BY <1>1, <1>5, <1>10, <2>1
  <2>3. Loaded'
    BY <1>1, <1>2, <1>5, <1>7, <2>1, <2>2
    DEF Loaded, TypeOK, Walking, input, storages, walk, request
  <2>4. Requested'
    BY <1>2, <1>3, <2>2 DEF Requested, storages, request
  <2>5. touched' = Moved(p, buf') /\ pos' = p + buf' /\ buf' \in 0 .. buf' + dataLength'
    BY <1>1, <1>4, <1>5, <1>6, <2>1, <2>2
  <2>6. TransferInv'
    BY <1>2, <1>8, <2>1, <2>4, <2>5 DEF TransferInv
  <2> QED BY <2>3, <2>6
<1> QED BY <1>9, <1>10

LEMMA TransferFailsKeeps ==
  ASSUME StorageInv, TransferFails
  PROVE  StorageInv'
<1> USE DEF StorageInv
<1>1. /\ pc = "transfer" /\ pc' = "idle" /\ ret' = "error"
      /\ UNCHANGED <<input, storages, walk, request, access>>
  BY DEF TransferFails, Return, GoTo
<1>2. Loaded'
  BY <1>1 DEF Loaded, TypeOK, Walking, input, storages, walk, request, access
<1>3. TransferInv'
  BY <1>1 DEF TransferInv, Requested, SuccessMeansDone, storages, request, access
<1> QED BY <1>2, <1>3

LEMMA StorageStep == StorageInv /\ [Next]_vars => StorageInv'
<1> SUFFICES ASSUME StorageInv, [Next]_vars PROVE StorageInv'
  OBVIOUS
<1>1. CASE UNCHANGED vars
  <2>1. UNCHANGED <<input, storages, pc, walk, request, access, ret>>
    BY <1>1 DEF vars
  <2>2. Loaded'
    BY <2>1 DEF StorageInv, Loaded, TypeOK, Walking, Entry, input, storages, walk, request, access
  <2>3. TransferInv'
    BY <2>1 DEF StorageInv, TransferInv, Requested, SuccessMeansDone, storages, request, access
  <2> QED BY <2>2, <2>3 DEF StorageInv
<1> QED
  BY <1>1, CallKeeps, LoadingKeeps, ChooseKeeps, OpenKeeps, TransferKeeps, TransferFailsKeeps
  DEF Next, Step

\* The inductive invariant of the storages (storage.c, linux_support.c:470-661).
THEOREM StorageInvariant == Spec => []StorageInv
BY StorageInit, StorageStep, PTL DEF Spec

\* The variables keep their types: loading never counts an entry it has not
\* made room for.
THEOREM StorageTypeCorrect == Spec => []TypeOK
<1>1. StorageInv => TypeOK
  BY DEF StorageInv, Loaded
<1> QED BY <1>1, StorageInvariant, PTL

\* A read or a write stays in the area of its storage, for any areas, offsets
\* and lengths whose sums are no larger than an int32_t, however it is split.
THEOREM TransferStaysInArea == Spec => []StaysInArea
<1>1. StorageInv => StaysInArea
  <2> SUFFICES ASSUME StorageInv, NEW t \in touched, NoOverflow,
                      siArr[i].start + offset <= IntMax
               PROVE  siArr[i].start <= t[2] /\ t[2] < siArr[i].start + siArr[i].size
    BY DEF StaysInArea
  <2>1. Requested
    BY DEF StorageInv, TransferInv
  <2>2. PICK p \in SumOf(siArr[i].start, offset), k \in 0 .. buf + dataLength :
          touched = Moved(p, k)
    BY DEF StorageInv, TransferInv
  <2>3. /\ siArr[i].start \in Int /\ siArr[i].size \in Int
        /\ offset \in Int /\ buf \in Nat /\ dataLength \in Int
    BY <2>1, RequestType DEF StorageInv, Loaded, TypeOK
  <2>4. p = siArr[i].start + offset
    BY <2>3, IntMaxAssumption DEF SumOf
  <2>5. offset + (buf + dataLength) <= siArr[i].size
    BY <2>1, <2>3, IntMaxAssumption DEF Requested, SumOf, NoOverflow
  <2>6. PICK m \in 0 .. k - 1 : t = <<m, p + m>>
    BY <2>2 DEF Moved
  <2>7. t[2] = p + m /\ m \in Nat /\ m < buf + dataLength /\ offset >= 0
    BY <2>1, <2>2, <2>3, <2>6 DEF Requested
  <2> QED BY <2>3, <2>4, <2>5, <2>7
<1> QED BY <1>1, StorageInvariant, PTL

\* Success means that every byte asked for was moved to or from its place,
\* and no other one.
THEOREM SuccessIsDone == Spec => []SuccessMeansDone
<1>1. StorageInv => SuccessMeansDone
  <2> SUFFICES ASSUME StorageInv, op \in {"read", "write"}, ret = "success"
               PROVE  SuccessMeansDone
    BY DEF SuccessMeansDone
  <2> QED BY DEF StorageInv, TransferInv, SuccessMeansDone
<1> QED BY <1>1, StorageInvariant, PTL

-----------------------------------------------------------------------------
(* The offsets of the blocks.  They are defined by recursion over the chain; *)
(* that the definition defines them is proved by induction, which needs the  *)
(* least element of a set of numbers.                                        *)

LEMMA LeastNumber ==
  ASSUME NEW T \in SUBSET Nat, T # {}
  PROVE  \E m \in T : \A k \in T : m <= k
<1>1. PICK n \in T : TRUE
  OBVIOUS
<1> DEFINE S == 0 .. n
           R == StrictSubsetOrdering(S)
           C == {0 .. k : k \in T \cap S}
<1>2. IsFiniteSet(S)
  BY FS_Interval
<1>3. IsWellFoundedOn(R, FiniteSubsetsOf(S))
  BY <1>2, FS_StrictSubsetOrderingWellFounded
<1>4. C \subseteq FiniteSubsetsOf(S) /\ C # {}
  <2>1. C # {}
    BY <1>1
  <2>2. ASSUME NEW k \in T \cap S
        PROVE  0 .. k \in FiniteSubsetsOf(S)
    <3>1. 0 .. k \subseteq S /\ 0 \in Int /\ k \in Int
      OBVIOUS
    <3>2. IsFiniteSet(0 .. k)
      BY <3>1, FS_Interval
    <3> QED
      BY <3>1, <3>2 DEF FiniteSubsetsOf
  <2> QED
    BY <2>1, <2>2
<1>5. PICK c \in C : \A d \in C : <<d, c>> \notin R
  BY <1>3, <1>4, WFMin
<1>6. PICK m \in T \cap S : c = 0 .. m
  OBVIOUS
<1>7. ASSUME NEW k \in T, k < m
      PROVE  FALSE
  <2>1. 0 .. k \in C
    BY <1>6, <1>7
  <2>2. 0 .. k \subseteq 0 .. m /\ m \in 0 .. m /\ m \notin 0 .. k
    BY <1>7
  <2>3. <<0 .. k, c>> \in R
    BY <1>6, <1>7, <2>2 DEF StrictSubsetOrdering
  <2> QED
    BY <1>5, <2>1, <2>3
<1> QED
  BY <1>6, <1>7

LEMMA Induction ==
  ASSUME NEW S, 0 \in S, \A n \in Nat : n \in S => n + 1 \in S
  PROVE  Nat \subseteq S
<1> DEFINE T == Nat \ S
<1> SUFFICES ASSUME T # {} PROVE FALSE
  OBVIOUS
<1>1. PICK m \in T : \A k \in T : m <= k
  BY LeastNumber
<1>2. m # 0 /\ m - 1 \in Nat /\ m - 1 \notin T
  BY <1>1
<1>3. (m - 1) + 1 \in S
  BY <1>2
<1> QED
  BY <1>1, <1>3

\* f has the offsets of the first k blocks of e.
OffsetsUpTo(f, e, k) ==
  f = [n \in 1 .. k |-> IF n = 1 THEN 2 * e.first ELSE f[n - 1] + TrueLength(e.blocks[n - 1])]

LEMMA OffsetsExist ==
  ASSUME NEW e, NEW k \in Nat
  PROVE  \E f : OffsetsUpTo(f, e, k)
<1> DEFINE S == {l \in Nat : \E f : OffsetsUpTo(f, e, l)}
<1>1. 0 \in S
  <2>1. OffsetsUpTo([n \in 1 .. 0 |-> 0], e, 0) BY DEF OffsetsUpTo
  <2> QED BY <2>1
<1>2. ASSUME NEW l \in Nat, l \in S PROVE l + 1 \in S
  <2>1. PICK f : OffsetsUpTo(f, e, l) BY <1>2
  <2> DEFINE new == IF l = 0 THEN 2 * e.first ELSE f[l] + TrueLength(e.blocks[l])
             h == [n \in 1 .. l + 1 |-> IF n <= l THEN f[n] ELSE new]
  <2>2. \A n \in 1 .. l : f[n] = IF n = 1 THEN 2 * e.first ELSE f[n - 1] + TrueLength(e.blocks[n - 1])
    BY <2>1 DEF OffsetsUpTo
  <2>3. \A n \in 1 .. l + 1 : h[n] = IF n = 1 THEN 2 * e.first ELSE h[n - 1] + TrueLength(e.blocks[n - 1])
    <3> TAKE n \in 1 .. l + 1
    <3>1. CASE n <= l
      <4>1. n \in 1 .. l /\ (n # 1 => n - 1 \in 1 .. l + 1 /\ n - 1 <= l) BY <3>1
      <4> QED BY <2>2, <3>1, <4>1
    <3>2. CASE n = l + 1
      <4>1. n # 1 => n - 1 = l /\ l \in 1 .. l + 1 BY <3>2
      <4> QED BY <3>2, <4>1
    <3> QED BY <3>1, <3>2
  <2>4. h = [n \in 1 .. l + 1 |-> h[n]]
    OBVIOUS
  <2> HIDE DEF h
  <2>5. OffsetsUpTo(h, e, l + 1) BY <2>3, <2>4 DEF OffsetsUpTo
  <2> QED BY <2>5
<1> HIDE DEF S
<1>3. k \in S BY <1>1, <1>2, Induction
<1> QED BY <1>3 DEF S

LEMMA OffsetsAgree ==
  ASSUME NEW e, NEW k \in Nat, NEW l \in Nat, k <= l, NEW f, NEW g,
         OffsetsUpTo(f, e, k), OffsetsUpTo(g, e, l)
  PROVE  \A n \in 1 .. k : f[n] = g[n]
<1> DEFINE T == {n \in 1 .. k : f[n] # g[n]}
<1> SUFFICES ASSUME T # {} PROVE FALSE
  OBVIOUS
<1>1. PICK m \in T : \A n \in T : m <= n
  <2>1. T \in SUBSET Nat OBVIOUS
  <2> HIDE DEF T
  <2> QED BY <2>1, LeastNumber
<1>2. m \in 1 .. k /\ m \in 1 .. l
  OBVIOUS
<1>3. /\ f[m] = IF m = 1 THEN 2 * e.first ELSE f[m - 1] + TrueLength(e.blocks[m - 1])
      /\ g[m] = IF m = 1 THEN 2 * e.first ELSE g[m - 1] + TrueLength(e.blocks[m - 1])
  BY <1>2 DEF OffsetsUpTo
<1>4. m # 1 => f[m - 1] = g[m - 1]
  <2>1. m # 1 => m - 1 \in 1 .. k /\ ~(m <= m - 1) BY <1>2
  <2> QED BY <1>1, <2>1
<1>5. f[m] # g[m]
  OBVIOUS
<1> QED BY <1>3, <1>4, <1>5

LEMMA OffsetIs ==
  ASSUME NEW e, NEW k \in Nat \ {0}, NEW f, OffsetsUpTo(f, e, k)
  PROVE  TrueOffset(e, k) = f[k]
<1> DEFINE at == CHOOSE g : OffsetsUpTo(g, e, k)
<1>1. TrueOffset(e, k) = at[k] BY DEF TrueOffset, OffsetsUpTo
<1>2. OffsetsUpTo(at, e, k)
  OBVIOUS
<1> HIDE DEF at
<1>3. at[k] = f[k] BY <1>2, OffsetsAgree
<1> QED BY <1>1, <1>3

\* A block begins where the one before it ends.
LEMMA NextOffset ==
  ASSUME NEW e, NEW k \in Nat \ {0}
  PROVE  /\ TrueOffset(e, 1) = 2 * e.first
         /\ TrueOffset(e, k + 1) = TrueOffset(e, k) + TrueLength(e.blocks[k])
<1>1. PICK f : OffsetsUpTo(f, e, k + 1)
  <2>1. k + 1 \in Nat OBVIOUS
  <2> QED BY <2>1, OffsetsExist
<1>2. PICK g : OffsetsUpTo(g, e, k) BY OffsetsExist
<1>3. TrueOffset(e, k) = g[k] BY <1>2, OffsetIs
<1>4. k + 1 \in Nat \ {0} /\ k <= k + 1 /\ k \in 1 .. k
  OBVIOUS
<1>5. TrueOffset(e, k + 1) = f[k + 1] BY <1>1, <1>4, OffsetIs
<1>6. f[k] = g[k] BY <1>1, <1>2, <1>4, OffsetsAgree
<1>7. f[k + 1] = f[k] + TrueLength(e.blocks[k])
  <2>1. k + 1 \in 1 .. k + 1 /\ k + 1 # 1 /\ (k + 1) - 1 = k OBVIOUS
  <2> QED BY <1>1, <2>1 DEF OffsetsUpTo
<1>8. PICK h : OffsetsUpTo(h, e, 1) BY OffsetsExist
<1>9. TrueOffset(e, 1) = h[1] /\ h[1] = 2 * e.first
  <2>1. 1 \in Nat \ {0} /\ 1 \in 1 .. 1 OBVIOUS
  <2>2. h[1] = IF 1 = 1 THEN 2 * e.first ELSE h[1 - 1] + TrueLength(e.blocks[1 - 1])
    BY <1>8, <2>1 DEF OffsetsUpTo
  <2> QED BY <1>8, <2>1, <2>2, OffsetIs
<1> QED BY <1>3, <1>5, <1>6, <1>7, <1>9

\* An EEPROM as an entry of the list: numbers and blocks.
Eeprom(e) == e.first \in Bytes /\ e.blocks \in Seq(Block)

LEMMA TrueLengthType ==
  ASSUME NEW b \in Block
  PROVE  TrueLength(b) \in Nat
<1>1. b.hi \in Nat /\ b.lo \in Nat BY HalfAssumption DEF Block, Bytes
<1>2. 2 * Half \in Nat BY HalfAssumption
<1>3. (2 * Half) * b.hi \in Nat BY <1>1, <1>2
<1>4. 2 * Half * b.hi + b.lo \in Nat BY <1>1, <1>3
<1> HIDE DEF Block
<1> QED BY <1>4 DEF TrueLength, CrcLength

\* The offsets grow along a chain.
LEMMA OffsetsGrow ==
  ASSUME NEW e, Eeprom(e), WellFormed(e),
         NEW j \in 1 .. Len(e.blocks), NEW k \in 1 .. Len(e.blocks), j < k
  PROVE  /\ TrueOffset(e, j) \in Int /\ TrueOffset(e, k) \in Int
         /\ TrueOffset(e, j) < TrueOffset(e, k)
<1> DEFINE N == Len(e.blocks)
           Above(l) == l \in 1 .. N => /\ TrueOffset(e, l) \in Int
                                       /\ \A n \in 1 .. l - 1 : /\ TrueOffset(e, n) \in Int
                                                               /\ TrueOffset(e, n) < TrueOffset(e, l)
           S == {l \in Nat : Above(l)}
<1>0. N \in Nat BY DEF Eeprom
<1>1. 0 \in S BY <1>0
<1>2. ASSUME NEW l \in Nat, l \in S PROVE l + 1 \in S
  <2> SUFFICES ASSUME l + 1 \in 1 .. N PROVE Above(l + 1)
    OBVIOUS
  <2>1. CASE l = 0
    <3>1. TrueOffset(e, 1) = 2 * e.first
      <4>1. 1 \in Nat \ {0} OBVIOUS
      <4> QED BY <4>1, NextOffset
    <3>2. TrueOffset(e, 1) \in Int BY <3>1, HalfAssumption DEF Eeprom, Bytes
    <3> QED BY <2>1, <3>2
  <2>2. CASE l # 0
    <3>1. l \in Nat \ {0} /\ l \in 1 .. N /\ l # N BY <1>0, <2>2
    <3>2. TrueOffset(e, l + 1) = TrueOffset(e, l) + TrueLength(e.blocks[l])
      BY <3>1, NextOffset
    <3>3. e.blocks[l] \in Block BY <3>1 DEF Eeprom
    <3>4. TrueLength(e.blocks[l]) \in Nat /\ TrueLength(e.blocks[l]) # 0
      BY <3>1, <3>3, TrueLengthType DEF WellFormed
    <3>5. TrueOffset(e, l) \in Int
          /\ \A n \in 1 .. l - 1 : TrueOffset(e, n) \in Int /\ TrueOffset(e, n) < TrueOffset(e, l)
      BY <1>2, <3>1
    <3>6. TrueOffset(e, l) < TrueOffset(e, l + 1) /\ TrueOffset(e, l + 1) \in Int
      BY <3>2, <3>4, <3>5
    <3>7. ASSUME NEW n \in 1 .. (l + 1) - 1
          PROVE  TrueOffset(e, n) \in Int /\ TrueOffset(e, n) < TrueOffset(e, l + 1)
      <4>1. CASE n = l BY <3>5, <3>6, <4>1
      <4>2. CASE n \in 1 .. l - 1 BY <3>5, <3>6, <4>2
      <4> QED BY <3>1, <4>1, <4>2
    <3> QED BY <3>6, <3>7
  <2> QED BY <2>1, <2>2
<1>3. k \in S
  <2> HIDE DEF S
  <2> QED BY <1>0, <1>1, <1>2, Induction
<1>4. k \in 1 .. N /\ j \in 1 .. k - 1 BY <1>0
<1> QED BY <1>3, <1>4

\* So a walk at the offset of a block finds that block.
LEMMA BlockAt ==
  ASSUME NEW e, Eeprom(e), WellFormed(e),
         NEW j \in 1 .. Len(e.blocks), NEW k \in 1 .. Len(e.blocks),
         TrueOffset(e, j) = TrueOffset(e, k)
  PROVE  j = k
<1>1. j \in Int /\ k \in Int OBVIOUS
<1>2. CASE j < k BY <1>2, OffsetsGrow
<1>3. CASE k < j BY <1>3, OffsetsGrow
<1> QED BY <1>1, <1>2, <1>3

-----------------------------------------------------------------------------
(* The walks *)

LEMMA ModSmall ==
  ASSUME NEW m \in Nat \ {0}, NEW a \in 0 .. m - 1
  PROVE  a % m = a
BY SMT

\* In a well-formed chain a walk reads the lengths the blocks have, and 0 of a
\* CRC block.
LEMMA RightLength ==
  ASSUME NEW e, Eeprom(e), WellFormed(e), NEW k \in 1 .. Len(e.blocks),
         char \in {"signed", "unsigned"}
  PROVE  /\ e.blocks[k].id # "crc" => /\ 2 * Words(e.blocks[k]) = TrueLength(e.blocks[k])
                                      /\ Int16(2 * Words(e.blocks[k])) = TrueLength(e.blocks[k])
         /\ e.blocks[k].id = "crc" => /\ Words(e.blocks[k]) = 0
                                      /\ Int16(2 * Words(e.blocks[k])) = 0
<1> DEFINE b == e.blocks[k]
<1>1. b \in Block BY DEF Eeprom
<1> HIDE DEF b
<1>2. Half \in Nat /\ Half > 0 BY HalfAssumption
<1>3. b.hi \in Nat /\ b.lo \in Nat BY <1>1, <1>2 DEF Block, Bytes
<1>4. /\ b.lo < Half /\ TrueLength(b) < 2 * Half * Half
      /\ b.id = "crc" => b.hi = 0 /\ b.lo = 0
  BY DEF WellFormed, b
<1>5. AsInt(b.lo) = b.lo
  <2>1. ~(b.lo >= Half) BY <1>2, <1>3, <1>4
  <2> QED BY <2>1 DEF AsInt
<1>6. ~(AsInt(b.lo) < 0) BY <1>3, <1>5
<1>7. CASE b.id # "crc"
  <2>1. TrueLength(b) = 2 * (2 * Half * b.hi + b.lo) BY <1>7 DEF TrueLength
  <2>2. b.hi < Half
    <3> SUFFICES ASSUME b.hi >= Half PROVE FALSE
      BY <1>2, <1>3
    <3>1. Half * b.hi >= Half * Half
      BY <1>2, <1>3
    <3>2. Half * b.hi \in Nat /\ Half * Half \in Nat
      BY <1>2, <1>3
    <3>3. 2 * (2 * Half * b.hi + b.lo) = 4 * (Half * b.hi) + 2 * b.lo /\ 2 * Half * Half = 2 * (Half * Half)
      BY <1>2, <1>3
    <3>4. 4 * (Half * b.hi) + 2 * b.lo < 2 * (Half * Half)
      BY <1>4, <2>1, <3>3
    <3>5. Half * Half >= 0 BY <3>2
    <3> QED BY <1>3, <3>1, <3>2, <3>4, <3>5
  <2>3. AsInt(b.hi) = b.hi BY <1>2, <1>3, <2>2 DEF AsInt
  <2>4. Words(b) = 2 * Half * b.hi + b.lo BY <1>5, <1>6, <2>3, Zenon DEF Words
  <2>5. 2 * Words(b) = TrueLength(b) BY <2>1, <2>4
  <2>6. Int16(TrueLength(b)) = TrueLength(b)
    <3> DEFINE h == 2 * Half * Half
    <3>1. h \in Nat /\ 4 * Half * Half = 2 * h /\ h > 0
      <4>1. Half * Half \in Nat /\ Half * Half > 0 BY <1>2
      <4> QED BY <1>2, <4>1
    <3>2. TrueLength(b) \in Nat /\ TrueLength(b) < h
      BY <1>1, <1>4, TrueLengthType
    <3> HIDE DEF h
    <3>3. TrueLength(b) + h \in 0 .. 2 * h - 1 /\ 2 * h \in Nat \ {0} BY <3>1, <3>2
    <3>4. (TrueLength(b) + h) % (2 * h) = TrueLength(b) + h BY <3>3, ModSmall
    <3>5. Int16(TrueLength(b)) = ((TrueLength(b) + h) % (2 * h)) - h
      BY <3>1 DEF Int16, h
    <3> QED BY <3>1, <3>2, <3>4, <3>5
  <2> QED BY <1>7, <2>5, <2>6 DEF b
<1>8. CASE b.id = "crc"
  <2>1. b.hi = 0 /\ b.lo = 0 BY <1>4, <1>8
  <2>2. AsInt(b.hi) = 0 /\ AsInt(b.lo) = 0 BY <1>2, <2>1 DEF AsInt
  <2>3. Words(b) = 0 BY <1>2, <2>1, <2>2 DEF Words
  <2>4. Int16(0) = 0
    <3> DEFINE h == 2 * Half * Half
    <3>1. h \in Nat /\ 4 * Half * Half = 2 * h /\ h > 0
      <4>1. Half * Half \in Nat /\ Half * Half > 0 BY <1>2
      <4> QED BY <1>2, <4>1
    <3> HIDE DEF h
    <3>2. 0 + h \in 0 .. 2 * h - 1 /\ 2 * h \in Nat \ {0} BY <3>1
    <3>3. (0 + h) % (2 * h) = 0 + h BY <3>2, ModSmall
    <3>4. Int16(0) = ((0 + h) % (2 * h)) - h BY <3>1 DEF Int16, h
    <3> QED BY <3>1, <3>3, <3>4
  <2> QED BY <1>8, <2>3, <2>4 DEF b
<1> QED BY <1>7, <1>8 DEF b

\* How far a walk has come: the first one has counted the blocks before the one
\* it is at; the second one has listed them, and ends where the first one did,
\* at the last block or, with a signed char, at a CRC block.
OnChain ==
  /\ blockCount < Len(Entry.blocks)
  /\ pc = "walk" => heads = <<>> /\ bpos = TrueOffset(Entry, blockCount + 1)
  /\ pc = "data" =>
       /\ Len(heads) <= blockCount
       /\ bpos = TrueOffset(Entry, Len(heads) + 1)
       /\ \/ blockCount + 1 = Len(Entry.blocks)
          \/ char = "signed" /\ Entry.blocks[blockCount + 1].id = "crc"
  /\ \A j \in 1 .. Len(heads) :
       heads[j] = [offset |-> TrueOffset(Entry, j), block |-> Entry.blocks[j]]

WalkInv ==
  /\ pc \notin {"walk", "data", "lost"} => heads = <<>> /\ blockCount = 0
  /\ pc \in {"walk", "data"} /\ WellFormed(Entry) => OnChain

AreaInv == Loaded /\ WalkInv /\ UserAreaFound

\* A block a walk finds at its offset is the one it has come to.
LEMMA FoundAt ==
  ASSUME NEW n \in 1 .. Len(Entry.blocks), Eeprom(Entry), WellFormed(Entry),
         bpos = TrueOffset(Entry, n), NEW b, AtBlock(b)
  PROVE  b = Entry.blocks[n]
<1>1. PICK j \in 1 .. Len(Entry.blocks) : Entry.blocks[j] = b /\ TrueOffset(Entry, j) = bpos
  BY DEF AtBlock
<1>2. j = n BY <1>1, BlockAt
<1> QED BY <1>1, <1>2

LEMMA CountBlockWalks ==
  ASSUME AreaInv, CountBlock
  PROVE  AreaInv'
<1> USE DEF AreaInv
<1>1. Loaded' BY CountBlockKeeps
<1>2. /\ pc = "walk" /\ pc' \in {"walk", "data"} /\ Entry.type = "picmg"
      /\ UNCHANGED <<char, conf, siArr, heads>>
  BY DEF CountBlock, GoTo, input, storages, Loaded, Walking
<1>3. Entry' = Entry BY <1>2 DEF Entry
<1>4. UserAreaFound' BY <1>2 DEF UserAreaFound, UserArea, CrcIsSeen
<1>5. ASSUME WellFormed(Entry) PROVE OnChain'
  <2>1. Eeprom(Entry) BY <1>2, EntryType DEF Loaded, TypeOK, Walking, Eeprom
  <2>2. OnChain BY <1>2, <1>5 DEF WalkInv
  <2>3. blockCount + 1 \in 1 .. Len(Entry.blocks) /\ blockCount \in Nat /\ Len(Entry.blocks) \in Nat
    BY <2>1, <2>2 DEF OnChain, Loaded, TypeOK, Eeprom
  <2> DEFINE b == Entry.blocks[blockCount + 1]
             blen == Int16(2 * Words(b))
  <2>4. \/ /\ blen = 0 /\ ~(b.id = "crc" /\ char = "unsigned")
           /\ bpos' = 2 * AsInt(Entry.first) /\ pc' = "data" /\ UNCHANGED blockCount
        \/ /\ ~(blen = 0 /\ ~(b.id = "crc" /\ char = "unsigned"))
           /\ bpos' = bpos + Length(blen) /\ blockCount' = blockCount + 1 /\ UNCHANGED pc
    <3>1. bpos = TrueOffset(Entry, blockCount + 1) BY <1>2, <2>2 DEF OnChain
    <3>2. PICK c \in {Entry.blocks[k] : k \in 1 .. Len(Entry.blocks)} :
            /\ AtBlock(c)
            /\ LET cl == Int16(2 * Words(c))
                   crc == c.id = "crc" /\ char = "unsigned"
               IN  IF cl = 0 /\ ~crc
                   THEN /\ bpos' = 2 * AsInt(Entry.first) /\ GoTo("data") /\ UNCHANGED blockCount
                   ELSE /\ bpos' = bpos + Length(cl) /\ blockCount' = blockCount + 1 /\ UNCHANGED pc
      BY DEF CountBlock
    <3>3. c = b BY <1>5, <2>1, <2>3, <3>1, <3>2, FoundAt
    <3> QED BY <3>2, <3>3 DEF GoTo
  <2>5. /\ b.id # "crc" => blen = TrueLength(b)
        /\ b.id = "crc" => blen = 0
    BY <1>5, <2>1, <2>3, RightLength DEF Loaded, TypeOK
  <2>6. TrueLength(b) = 0 <=> blockCount + 1 = Len(Entry.blocks)
    BY <1>5, <2>3 DEF WellFormed
  <2>7. heads = <<>> /\ bpos = TrueOffset(Entry, blockCount + 1) BY <1>2, <2>2 DEF OnChain
  <2> HIDE DEF b, blen
  <2>8. CASE /\ blen = 0 /\ ~(b.id = "crc" /\ char = "unsigned")
             /\ bpos' = 2 * AsInt(Entry.first) /\ pc' = "data" /\ UNCHANGED blockCount
    <3>1. AsInt(Entry.first) = Entry.first
      <4>1. Entry.first < Half /\ Entry.first \in Bytes BY <1>5, <2>1 DEF WellFormed, Eeprom
      <4>2. ~(Entry.first >= Half) BY <4>1, HalfAssumption DEF Bytes
      <4> QED BY <4>2 DEF AsInt
    <3>2. bpos' = TrueOffset(Entry, 1)
      <4>1. 1 \in Nat \ {0} OBVIOUS
      <4> QED BY <2>8, <3>1, <4>1, NextOffset
    <3>3. \/ blockCount + 1 = Len(Entry.blocks)
          \/ char = "signed" /\ Entry.blocks[blockCount + 1].id = "crc"
      BY <2>5, <2>6, <2>8 DEF b, Loaded, TypeOK
    <3>4. Len(heads') = 0 BY <1>2, <2>7
    <3> QED BY <1>2, <1>3, <2>3, <2>7, <2>8, <3>2, <3>3, <3>4 DEF OnChain
  <2>9. CASE /\ ~(blen = 0 /\ ~(b.id = "crc" /\ char = "unsigned"))
             /\ bpos' = bpos + Length(blen) /\ blockCount' = blockCount + 1 /\ UNCHANGED pc
    <3>1. Length(blen) = TrueLength(b)
      BY <2>5, <2>9 DEF Length, TrueLength
    <3>2. TrueLength(b) # 0 BY <2>5, <2>9 DEF TrueLength, CrcLength
    <3>3. blockCount + 1 \in Nat \ {0} BY <2>3
    <3>4. bpos' = TrueOffset(Entry, blockCount' + 1)
      BY <2>7, <2>9, <3>1, <3>3, NextOffset DEF b
    <3>5. blockCount' < Len(Entry.blocks) BY <2>3, <2>6, <2>9, <3>2
    <3> QED BY <1>2, <1>3, <2>7, <2>9, <3>4, <3>5 DEF OnChain
  <2> QED BY <2>4, <2>8, <2>9
<1>6. WellFormed(Entry)' <=> WellFormed(Entry) BY <1>3 DEF WellFormed
<1> QED BY <1>1, <1>2, <1>4, <1>5, <1>6 DEF WalkInv

\* Nothing is loaded any more, or no more than was.
LEMMA KeepsAreas ==
  ASSUME UserAreaFound, conf' = conf, char' = char, siArr' \in {siArr, <<>>}
  PROVE  UserAreaFound'
<1>1. Len(<<>>) = 0
  OBVIOUS
<1>2. CASE siArr' = siArr BY <1>2 DEF UserAreaFound, UserArea, CrcIsSeen
<1>3. CASE siArr' = <<>> BY <1>1, <1>3 DEF UserAreaFound
<1> QED BY <1>2, <1>3

LEMMA AppendsArea ==
  ASSUME AreaInv, Len(siArr) < Len(conf.storages), NEW a \in Area, Append1(a),
         Entry.type = "picmg" /\ WellFormed(Entry) /\ CrcIsSeen(Entry) => a = UserArea(Entry)
  PROVE  AreaInv'
<1>1. Loaded' BY AppendKeeps DEF AreaInv
<1>2. /\ siArr' = Append(siArr, a) /\ conf' = conf /\ char' = char
      /\ pc' = "entry" /\ heads' = <<>> /\ blockCount' = 0
  BY DEF Append1, GoTo, input
<1>3. siArr \in Seq(Area) BY DEF AreaInv, Loaded, TypeOK
<1>4. UserAreaFound'
  <2> SUFFICES ASSUME NEW n \in 1 .. Len(siArr'),
                      conf.storages[n].type = "picmg", WellFormed(conf.storages[n]),
                      CrcIsSeen(conf.storages[n])
               PROVE  siArr'[n] = UserArea(conf.storages[n])
    BY <1>2 DEF UserAreaFound, UserArea, CrcIsSeen
  <2>1. Len(siArr') = Len(siArr) + 1 /\ Len(siArr) \in Nat BY <1>2, <1>3
  <2>2. CASE n = Len(siArr) + 1
    <3>1. siArr'[n] = a BY <1>2, <1>3, <2>2
    <3> QED BY <2>2, <3>1 DEF Entry
  <2>3. CASE n # Len(siArr) + 1
    <3>1. n \in 1 .. Len(siArr) BY <2>1, <2>3
    <3>2. siArr'[n] = siArr[n] BY <1>2, <1>3, <3>1
    <3> QED BY <3>1, <3>2 DEF AreaInv, UserAreaFound
  <2> QED BY <2>2, <2>3
<1>5. WalkInv' BY <1>2 DEF WalkInv
<1> QED BY <1>1, <1>4, <1>5 DEF AreaInv

LEMMA KeepLoadedWalks ==
  ASSUME AreaInv, KeepLoaded
  PROVE  AreaInv'
<1>1. Loaded' BY KeepKeeps DEF AreaInv
<1>2. /\ pc' \in {"choose", "idle"} /\ heads' = <<>> /\ blockCount' = 0
      /\ conf' = conf /\ char' = char /\ siArr' \in {siArr, <<>>}
  BY DEF KeepLoaded, LoadFails, Return, GoTo, input
<1>3. UserAreaFound' BY <1>2, KeepsAreas DEF AreaInv
<1>4. WalkInv' BY <1>2 DEF WalkInv
<1> QED BY <1>1, <1>3, <1>4 DEF AreaInv

LEMMA ListBlockWalks ==
  ASSUME AreaInv, ListBlock
  PROVE  AreaInv'
<1> USE DEF AreaInv
<1>1. Loaded' BY ListBlockKeeps
<1>2. pc = "data" /\ Entry.type = "picmg" /\ Len(heads) < blockCount
  BY DEF ListBlock, Loaded, Walking
<1>3. CASE KeepLoaded BY <1>3, KeepLoadedWalks
<1>4. CASE ~KeepLoaded
  <2>1. PICK b \in {Entry.blocks[k] : k \in 1 .. Len(Entry.blocks)} :
          /\ AtBlock(b)
          /\ heads' = Append(heads, [offset |-> bpos, block |-> b])
          /\ bpos' = bpos + Length(2 * Words(b))
          /\ UNCHANGED <<input, storages, pc, blockCount, request, access, ret>>
    BY <1>4 DEF ListBlock
  <2>2. UNCHANGED <<char, conf, siArr, pc, blockCount>> BY <2>1 DEF input, storages
  <2>3. Entry' = Entry BY <2>2 DEF Entry
  <2>4. UserAreaFound' BY <2>2, KeepsAreas
  <2>5. ASSUME WellFormed(Entry) PROVE OnChain'
    <3>1. Eeprom(Entry) BY <1>2, EntryType DEF Loaded, TypeOK, Walking, Eeprom
    <3>2. OnChain BY <1>2, <2>5 DEF WalkInv
    <3> DEFINE n == Len(heads) + 1
    <3>3. /\ heads \in Seq(Listing) /\ n \in Nat \ {0} /\ n \in 1 .. Len(Entry.blocks)
          /\ n # Len(Entry.blocks) /\ blockCount \in Nat
      <4>1. heads \in Seq(Listing) /\ blockCount \in Nat /\ Len(Entry.blocks) \in Nat
        BY <3>1 DEF Loaded, TypeOK, Listing, Block, Eeprom
      <4>2. blockCount < Len(Entry.blocks) BY <3>2 DEF OnChain
      <4> QED BY <1>2, <4>1, <4>2
    <3>4. bpos = TrueOffset(Entry, n) BY <1>2, <3>2 DEF OnChain
    <3>5. b = Entry.blocks[n] BY <2>1, <2>5, <3>1, <3>3, <3>4, FoundAt
    <3>6. Length(2 * Words(b)) = TrueLength(b)
      <4>1. b.id # "crc" => 2 * Words(b) = TrueLength(b) BY <2>5, <3>1, <3>3, <3>5, RightLength DEF Loaded, TypeOK
      <4>2. b.id = "crc" => Words(b) = 0 BY <2>5, <3>1, <3>3, <3>5, RightLength DEF Loaded, TypeOK
      <4>3. TrueLength(b) # 0 BY <2>5, <3>3, <3>5 DEF WellFormed
      <4>4. CASE b.id # "crc" BY <4>1, <4>3, <4>4 DEF Length
      <4>5. CASE b.id = "crc"
        <5>1. 2 * Words(b) = 0 BY <4>2, <4>5
        <5> QED BY <4>5, <5>1 DEF Length, TrueLength
      <4> QED BY <4>4, <4>5
    <3>7. bpos' = TrueOffset(Entry, n + 1) BY <2>1, <3>3, <3>4, <3>5, <3>6, NextOffset
    <3>8. Len(heads') = n BY <2>1, <3>3
    <3>9. ASSUME NEW j \in 1 .. Len(heads')
          PROVE  heads'[j] = [offset |-> TrueOffset(Entry, j), block |-> Entry.blocks[j]]
      <4>1. CASE j = n
        <5>1. heads'[n] = [offset |-> bpos, block |-> b] BY <2>1, <3>3
        <5> QED BY <3>4, <3>5, <4>1, <5>1
      <4>2. CASE j # n
        <5>1. j \in 1 .. Len(heads) BY <3>3, <3>8, <4>2
        <5>2. heads'[j] = heads[j] BY <2>1, <3>3, <5>1
        <5> QED BY <3>2, <5>1, <5>2 DEF OnChain
      <4> QED BY <4>1, <4>2
    <3>10. n <= blockCount BY <1>2, <3>3
    <3> QED BY <1>2, <2>2, <2>3, <3>2, <3>7, <3>8, <3>9, <3>10 DEF OnChain
  <2>6. WellFormed(Entry)' <=> WellFormed(Entry) BY <2>3 DEF WellFormed
  <2> QED BY <1>1, <1>2, <2>2, <2>4, <2>5, <2>6 DEF WalkInv
<1> QED BY <1>3, <1>4

\* The user block of the listing is that of the chain.
LEMMA SearchFinds ==
  ASSUME AreaInv, pc = "data", Len(heads) = blockCount, Entry.type = "picmg",
         WellFormed(Entry), CrcIsSeen(Entry)
  PROVE  /\ UserHeads = UserBlocks(Entry)
         /\ \A k \in UserHeads : heads[k].offset = TrueOffset(Entry, k)
                                 /\ Size(heads[k].block) = TrueLength(Entry.blocks[k]) - UserHead
<1> USE DEF AreaInv
<1>1. Eeprom(Entry) BY EntryType DEF Loaded, TypeOK, Walking, Eeprom
<1>2. OnChain BY DEF WalkInv
<1>3. /\ blockCount \in Nat /\ Len(Entry.blocks) \in Nat /\ blockCount < Len(Entry.blocks)
      /\ char \in {"signed", "unsigned"}
  BY <1>1, <1>2 DEF OnChain, Loaded, TypeOK, Eeprom
<1>4. \A j \in 1 .. blockCount :
        heads[j] = [offset |-> TrueOffset(Entry, j), block |-> Entry.blocks[j]]
  BY <1>2 DEF OnChain
<1>5. ASSUME NEW k \in UserBlocks(Entry) PROVE k \in 1 .. blockCount
  <2>1. k \in 1 .. Len(Entry.blocks) /\ Entry.blocks[k].id = "usr" BY DEF UserBlocks
  <2> SUFFICES ASSUME k > blockCount PROVE FALSE
    BY <1>3, <2>1
  <2>2. CASE blockCount + 1 = Len(Entry.blocks)
    <3>1. k = Len(Entry.blocks) BY <1>3, <2>1, <2>2
    <3> QED BY <2>1, <3>1 DEF WellFormed
  <2>3. CASE char = "signed" /\ Entry.blocks[blockCount + 1].id = "crc"
    <3>1. k # blockCount + 1 BY <2>1, <2>3
    <3>2. blockCount + 1 \in 1 .. Len(Entry.blocks) /\ blockCount + 1 < k
      BY <1>3, <2>1, <3>1
    <3> QED BY <2>1, <2>3, <3>2 DEF CrcIsSeen
  <2> QED BY <1>2, <2>2, <2>3 DEF OnChain
<1>6. UserHeads = UserBlocks(Entry)
  BY <1>3, <1>4, <1>5 DEF UserHeads, UserBlocks
<1>7. ASSUME NEW k \in UserHeads
      PROVE  heads[k].offset = TrueOffset(Entry, k)
             /\ Size(heads[k].block) = TrueLength(Entry.blocks[k]) - UserHead
  <2>1. k \in 1 .. Len(Entry.blocks) /\ Entry.blocks[k].id = "usr" /\ k \in 1 .. blockCount
    BY <1>5, <1>6 DEF UserBlocks
  <2>2. heads[k].offset = TrueOffset(Entry, k) /\ heads[k].block = Entry.blocks[k]
    BY <1>4, <2>1
  <2>3. 2 * Words(Entry.blocks[k]) = TrueLength(Entry.blocks[k])
    BY <1>1, <1>3, <2>1, RightLength
  <2> QED BY <2>2, <2>3 DEF Size
<1> QED BY <1>6, <1>7

LEMMA SearchWalks ==
  ASSUME AreaInv, Search
  PROVE  AreaInv'
<1> USE DEF AreaInv
<1>1. /\ pc = "data" /\ Len(heads) = blockCount /\ Entry.type = "picmg"
      /\ Len(siArr) < Len(conf.storages)
  BY DEF Search, Loaded, Walking
<1>2. CASE UserHeads = {} /\ Append1([usr |-> FALSE, start |-> 0, size |-> 0])
  <2>1. [usr |-> FALSE, start |-> 0, size |-> 0] \in Area BY DEF Area
  <2>2. WellFormed(Entry) /\ CrcIsSeen(Entry) => UserBlocks(Entry) = {}
    BY <1>1, <1>2, SearchFinds
  <2>3. WellFormed(Entry) /\ CrcIsSeen(Entry) =>
          [usr |-> FALSE, start |-> 0, size |-> 0] = UserArea(Entry)
    BY <2>2 DEF UserArea
  <2> QED BY <1>1, <1>2, <2>1, <2>3, AppendsArea
<1>3. ASSUME NEW k \in UserHeads, \A j \in UserHeads : k <= j,
             Append1([usr |-> TRUE, start |-> heads[k].offset + UserHead,
                      size |-> Size(heads[k].block)])
      PROVE  AreaInv'
  <2> DEFINE a == [usr |-> TRUE, start |-> heads[k].offset + UserHead, size |-> Size(heads[k].block)]
  <2>1. a \in Area
    <3>1. heads \in Seq(Listing) /\ k \in 1 .. Len(heads)
      BY DEF UserHeads, Loaded, TypeOK, Listing, Block
    <3>2. heads[k].offset \in Int /\ heads[k].block \in Block
      <4>1. heads[k] \in Listing BY <3>1
      <4> QED BY <4>1 DEF Listing
    <3>3. Words(heads[k].block) \in Int BY <3>2, LengthType DEF Loaded, TypeOK
    <3> QED BY <3>2, <3>3 DEF Area, UserHead, Size
  <2>2. ASSUME WellFormed(Entry), CrcIsSeen(Entry) PROVE a = UserArea(Entry)
    <3>1. UserHeads = UserBlocks(Entry) BY <1>1, <2>2, SearchFinds
    <3> DEFINE m == CHOOSE j \in UserBlocks(Entry) : \A l \in UserBlocks(Entry) : j <= l
    <3>2. m \in UserBlocks(Entry) /\ \A l \in UserBlocks(Entry) : m <= l BY <1>3, <3>1
    <3>3. m = k
      <4>1. m <= k /\ k <= m BY <1>3, <3>1, <3>2
      <4>2. m \in Int /\ k \in Int BY <3>1, <3>2 DEF UserHeads
      <4> HIDE DEF m
      <4> QED BY <4>1, <4>2
    <3>4. heads[k].offset = TrueOffset(Entry, k) /\ Size(heads[k].block) = TrueLength(Entry.blocks[k]) - UserHead
      BY <1>1, <2>2, SearchFinds
    <3>5. UserArea(Entry) = [usr |-> TRUE, start |-> TrueOffset(Entry, m) + UserHead,
                             size |-> TrueLength(Entry.blocks[m]) - UserHead]
      BY <3>2 DEF UserArea
    <3> HIDE DEF m
    <3> QED BY <3>3, <3>4, <3>5
  <2> HIDE DEF a
  <2>3. Append1(a) BY <1>3 DEF a
  <2> QED BY <1>1, <2>1, <2>2, <2>3, AppendsArea
<1> QED BY <1>2, <1>3 DEF Search

\* The other steps list nothing.
LEMMA OtherWalks ==
  ASSUME AreaInv, Loaded', UNCHANGED <<input, walk>>, siArr' \in {siArr, <<>>},
         \/ {pc, pc'} \cap {"walk", "data", "lost"} = {}
         \/ pc' = "lost"
  PROVE  AreaInv'
  BY KeepsAreas DEF AreaInv, WalkInv, input, walk

LEMMA EntryWalks ==
  ASSUME AreaInv, LoadEntry
  PROVE  AreaInv'
<1> USE DEF AreaInv
<1>1. Loaded' BY EntryKeeps
<1>2. pc = "entry" BY DEF LoadEntry
<1>3. CASE /\ Len(siArr) < Len(conf.storages) /\ Entry.type = "range"
           /\ Append1([usr |-> TRUE, start |-> Entry.start, size |-> Entry.size])
  <2>1. [usr |-> TRUE, start |-> Entry.start, size |-> Entry.size] \in Area
    BY <1>3, EntryType DEF Area, Loaded, TypeOK, Walking
  <2> QED BY <1>3, <2>1, AppendsArea
<1>4. CASE KeepLoaded BY <1>4, KeepLoadedWalks
<1>5. CASE /\ Entry.type = "picmg" /\ bpos' = 2 * AsInt(Entry.first) /\ GoTo("walk")
           /\ Len(siArr) < Len(conf.storages)
           /\ UNCHANGED <<input, storages, blockCount, heads, request, access, ret>>
  <2>1. UNCHANGED <<char, conf, siArr>> /\ pc' = "walk" BY <1>5 DEF input, storages, GoTo
  <2>2. Entry' = Entry BY <2>1 DEF Entry
  <2>3. heads' = <<>> /\ blockCount' = 0 BY <1>2, <1>5 DEF WalkInv
  <2>4. ASSUME WellFormed(Entry) PROVE OnChain'
    <3>1. Eeprom(Entry) BY <1>5, EntryType DEF Loaded, TypeOK, Walking, Eeprom
    <3>2. Entry.first < Half /\ Entry.first \in Bytes /\ Len(Entry.blocks) > 0
      BY <2>4, <3>1 DEF WellFormed, Eeprom
    <3>3. ~(Entry.first >= Half) BY <3>2, HalfAssumption DEF Bytes
    <3>4. AsInt(Entry.first) = Entry.first BY <3>3 DEF AsInt
    <3>5. bpos' = TrueOffset(Entry, 1)
      <4>1. 1 \in Nat \ {0} OBVIOUS
      <4> QED BY <1>5, <3>4, <4>1, NextOffset
    <3>6. blockCount' < Len(Entry.blocks) /\ blockCount' + 1 = 1 /\ Len(heads') = 0
      BY <2>3, <3>2
    <3> QED BY <2>1, <2>2, <2>3, <3>5, <3>6 DEF OnChain
  <2>5. WellFormed(Entry)' <=> WellFormed(Entry) BY <2>2 DEF WellFormed
  <2>6. UserAreaFound' BY <2>1, KeepsAreas
  <2> QED BY <1>1, <2>1, <2>4, <2>5, <2>6 DEF WalkInv
<1>6. CASE /\ UNCHANGED <<input, walk>> /\ siArr' \in {siArr, <<>>}
           /\ pc' \in {"choose", "lost", "idle"}
  BY <1>1, <1>2, <1>6, OtherWalks
<1> QED
  BY <1>2, <1>3, <1>4, <1>5, <1>6 DEF LoadEntry, LoadFails, Return, GoTo, storages

LEMMA AreaStep == AreaInv /\ Loaded' /\ [Next]_vars => AreaInv'
<1> SUFFICES ASSUME AreaInv, Loaded', [Next]_vars PROVE AreaInv'
  OBVIOUS
<1>1. CASE UNCHANGED vars
  <2>1. UNCHANGED <<char, conf, siArr, siArrCount, pc, bpos, blockCount, heads>>
    BY <1>1 DEF vars, input, storages, walk
  <2>2. UserAreaFound' BY <2>1, KeepsAreas DEF AreaInv
  <2>3. WalkInv' BY <2>1 DEF AreaInv, WalkInv, OnChain, Entry
  <2> QED BY <2>2, <2>3 DEF AreaInv
<1>2. CASE Calls \/ Count \/ Load \/ Choose \/ Open \/ Transfer \/ OpenFails \/ TransferFails \/ Stray
  <2>1. UNCHANGED <<input, walk>> /\ siArr' \in {siArr, <<>>}
    BY <1>2 DEF Calls, Call, Count, Load, LoadFails, Choose, Open, Transfer, OpenFails,
                TransferFails, Stray, storages
  <2>2. \/ {pc, pc'} \cap {"walk", "data", "lost"} = {}
        \/ pc' = "lost"
    BY <1>2 DEF Calls, Call, Count, Load, LoadFails, Choose, Open, Transfer, OpenFails,
                TransferFails, Stray, Return, GoTo
  <2> QED BY <2>1, <2>2, OtherWalks
<1> QED
  BY <1>1, <1>2, EntryWalks, CountBlockWalks, ListBlockWalks, SearchWalks DEF Next, Step

\* The two walks find the user area that the chain describes, on every EEPROM
\* whose chain is well-formed, however many blocks it has and whatever the width
\* of a byte (src/storage_picmg.c:194-239, 341-351).
THEOREM WalksFindUserArea == Spec => []UserAreaFound
<1>1. Init => AreaInv
  <2> SUFFICES ASSUME Init PROVE AreaInv
    OBVIOUS
  <2>1. Len(siArr) = 0 BY DEF Init
  <2> QED BY <2>1, LoadedInit DEF Init, AreaInv, WalkInv, UserAreaFound
<1>2. StorageInv => Loaded BY DEF StorageInv
<1> QED BY <1>1, <1>2, AreaStep, StorageInvariant, PTL DEF Spec, AreaInv
=============================================================================
