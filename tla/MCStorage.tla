---------------------------- MODULE MCStorage ----------------------------
(* Bytes of eight values and numbers up to 255.  Chains of up to three      *)
(* blocks before the end: right ones, and ones whose bytes or lengths have  *)
(* the sign that a char or 16 bits give them.                               *)
EXTENDS Storage

Block(n, h, l) == [id |-> n, hi |-> h, lo |-> l]
End == Block("end", 0, 0)

\* A user block too short for its header, two of some bytes, one whose low
\* byte and one whose length is negative; the other kinds of blocks, a CRC block
\* with a length among them.
Blocks == {Block("usr", 0, 3), Block("usr", 1, 0), Block("usr", 1, 1),
           Block("usr", 1, 7), Block("usr", 2, 1), Block("vendor", 1, 1),
           Block("crc", 0, 0), Block("crc", 0, 2), Block("other", 0, 2), Block("other", 0, 0)}

Chains == {<<>>, <<End>>, <<Block("usr", 0, 0)>>} \cup {<<b, End>> : b \in Blocks}
            \cup {<<b, c, End>> : b, c \in Blocks}
            \cup {<<Block("other", 0, 2), b, c, End>> : b, c \in Blocks}

Eeprom(f, c) == [type |-> "picmg", first |-> f, blocks |-> c]
Range0(s, l, f) == [type |-> "range", start |-> s, size |-> l, file |-> f]

\* Entries of each kind: ranges inside a file, past its end and at the end of
\* the numbers.
Kinds == {[type |-> "alien"], [type |-> "wrong"], [type |-> "unreadable"], [type |-> "notPicmg"],
          Eeprom(1, <<Block("usr", 1, 1), End>>), Eeprom(1, <<End>>),
          Range0(1, 3, 4), Range0(2, 3, 4), Range0(254, 2, 255)}

SomeConfs ==
  {[file |-> f, storages |-> <<>>] : f \in {"list", "denied", "wrong"}}
    \cup {[file |-> "list", storages |-> <<Eeprom(f, c)>>] : f \in {1, 4}, c \in Chains}
    \cup {[file |-> "list", storages |-> <<d>>] : d \in Kinds}
    \cup {[file |-> "list", storages |-> <<d, e>>] : d, e \in Kinds}

SomeOffsets == {-1, 1, 254}
SomeLengths == {0, 2, 4}
=============================================================================
