-------------------------- MODULE GpioChipProofs --------------------------
(***************************************************************************)
(* The calls through /dev/gpiochip*, for any threads, lines, chips and       *)
(* descriptors: what the descriptors are open for, the types, and that a    *)
(* call nobody disturbs does what it was asked.                             *)
(***************************************************************************)
EXTENDS GpioChip, TLAPS

Places == {"idle", "caps", "chip"} \cup UsesChip

Shape ==
  /\ pc \in [Threads -> Places]
  /\ chip \in [Threads -> Fds \cup {NoFd}]
  /\ lfd \in [Threads -> Fds \cup {NoFd}]
  /\ fds \subseteq Fds /\ leaked \subseteq fds /\ Stdin \in fds
  /\ held = [d \in Fds |-> held[d]]

\* What a descriptor is open for, one kind after the other.
IsChip(d) == \E t \in Threads : pc[t] \in UsesChip /\ chip[t] = d
OpenForSomething == \A d \in fds : d = Stdin \/ d \in leaked \/ IsChip(d) \/ held[d] # {}

ChipsApart ==
  /\ \A t \in Threads : pc[t] \in UsesChip =>
       chip[t] \in fds /\ chip[t] # Stdin /\ chip[t] \notin leaked /\ held[chip[t]] = {}
  /\ \A t, u \in Threads : pc[t] \in UsesChip /\ pc[u] \in UsesChip /\ chip[t] = chip[u] => t = u

\* Who uses lines has them, alone.
LinesApart ==
  /\ \A d \in Fds : held[d] # {} =>
       d \in fds /\ d # Stdin /\ d \notin leaked /\ \E t \in Threads : pc[t] \in UsesLine /\ lfd[t] = d
  /\ \A t \in Threads : pc[t] \in UsesLine /\ lfd[t] \in Fds \ {Stdin} => held[lfd[t]] # {}
  /\ \A t, u \in Threads :
       pc[t] \in UsesLine /\ pc[u] \in UsesLine /\ lfd[t] = lfd[u] /\ lfd[t] \in Fds \ {Stdin} => t = u
  /\ \A t \in Threads : pc[t] \in {"info", "setIn", "setOut", "drive"} => lfd[t] \in {NoFd, Stdin}

Inv == ~spoiled => Shape /\ OpenForSomething /\ ChipsApart /\ LinesApart

LEMMA Numbers == Stdin \in Fds /\ NoFd \notin Fds
  BY MaxFdAssumption DEF Stdin, Fds, NoFd

LEMMA InitInv == Init => Inv
<1> SUFFICES ASSUME Init PROVE Shape /\ OpenForSomething /\ ChipsApart /\ LinesApart
  BY DEF Inv
<1> USE Numbers DEF Init
<1>1. Shape BY DEF Shape, Places
<1>2. OpenForSomething BY DEF OpenForSomething
<1>3. ChipsApart BY DEF ChipsApart, UsesChip, UsesLine
<1>4. LinesApart BY DEF LinesApart, UsesLine
<1> QED BY <1>1, <1>2, <1>3, <1>4

\* A step of t that opens and closes nothing, after which t uses a chip if it did
\* before, and lines only if it has none of its own or did before.
LEMMA Quiet ==
  ASSUME Inv, ~spoiled, NEW t \in Threads, NEW l \in Places,
         pc' = [pc EXCEPT ![t] = l],
         UNCHANGED <<fds, held, leaked>>,
         chip' \in [Threads -> Fds \cup {NoFd}],
         \A u \in Threads \ {t} : chip'[u] = chip[u],
         pc[t] \in UsesChip => chip'[t] = chip[t],
         lfd' \in [Threads -> Fds \cup {NoFd}],
         \A u \in Threads \ {t} : lfd'[u] = lfd[u],
         pc[t] \in UsesChip <=> l \in UsesChip,
         pc[t] \in UsesLine => l \in UsesLine /\ lfd'[t] = lfd[t],
         pc[t] \notin UsesLine => lfd'[t] \in {NoFd, Stdin} \/ l \notin UsesLine,
         l \in {"info", "setIn", "setOut", "drive"} => lfd'[t] \in {NoFd, Stdin}
  PROVE  Inv'
<1> USE Numbers DEF Inv
<1>1. Shape' BY DEF Shape
<1>2. \A u \in Threads : /\ pc'[u] \in UsesChip <=> pc[u] \in UsesChip
                        /\ pc[u] \in UsesChip => chip'[u] = chip[u]
  BY DEF Shape
<1>3. \A u \in Threads : pc[u] \in UsesLine => pc'[u] \in UsesLine /\ lfd'[u] = lfd[u]
  BY DEF Shape
<1>4. \A u \in Threads : pc'[u] \in UsesLine /\ lfd'[u] \in Fds \ {Stdin} => pc[u] \in UsesLine /\ lfd'[u] = lfd[u]
  BY DEF Shape
<1>5. OpenForSomething' BY <1>2 DEF OpenForSomething, IsChip, Shape
<1>6. ChipsApart' BY <1>2 DEF ChipsApart, Shape
<1>7. LinesApart'
  <2>1. \A d \in Fds : held[d] # {} =>
          d \in fds /\ d # Stdin /\ d \notin leaked /\ \E u \in Threads : pc'[u] \in UsesLine /\ lfd'[u] = d
    BY <1>3 DEF LinesApart
  <2>2. \A u \in Threads : pc'[u] \in UsesLine /\ lfd'[u] \in Fds \ {Stdin} => held[lfd'[u]] # {}
    BY <1>4 DEF LinesApart
  <2>3. \A u, v \in Threads :
          pc'[u] \in UsesLine /\ pc'[v] \in UsesLine /\ lfd'[u] = lfd'[v] /\ lfd'[u] \in Fds \ {Stdin} => u = v
    BY <1>4 DEF LinesApart
  <2>4. \A u \in Threads : pc'[u] \in {"info", "setIn", "setOut", "drive"} => lfd'[u] \in {NoFd, Stdin}
    BY DEF LinesApart, Shape
  <2> QED BY <2>1, <2>2, <2>3, <2>4 DEF LinesApart
<1> QED BY <1>1, <1>5, <1>6, <1>7

\* A new descriptor is nobody's.
LEMMA Fresh ==
  ASSUME Inv, ~spoiled, NEW d \in Fds, d \notin fds
  PROVE  /\ d # Stdin /\ d \notin leaked /\ held[d] = {}
         /\ \A t \in Threads : pc[t] \in UsesChip => chip[t] # d
         /\ \A t \in Threads : pc[t] \in UsesLine => lfd[t] # d
<1> USE Numbers DEF Inv
<1>1. d # Stdin /\ d \notin leaked BY DEF Shape
<1>2. held[d] = {} BY DEF LinesApart
<1>3. \A t \in Threads : pc[t] \in UsesChip => chip[t] # d BY DEF ChipsApart
<1>4. \A t \in Threads : pc[t] \in UsesLine => lfd[t] # d BY <1>1, <1>2 DEF LinesApart
<1> QED BY <1>1, <1>2, <1>3, <1>4

\* The chip is found.
LEMMA Found ==
  ASSUME Inv, ~spoiled, NEW t \in Threads, pc[t] = "chip",
         NEW d \in Fds, Allots(d), ChipFound(t, d), UNCHANGED held
  PROVE  Inv'
<1> USE Numbers DEF Inv
<1>1. d \notin fds BY DEF Allots
<1>f. /\ d # Stdin /\ d \notin leaked /\ held[d] = {}
      /\ \A u \in Threads : pc[u] \in UsesChip => chip[u] # d
      /\ \A u \in Threads : pc[u] \in UsesLine => lfd[u] # d
  BY <1>1, Fresh
<1> DEFINE l == IF op[t] = "setLevels" THEN "info" ELSE "probe"
<1>2. pc' = [pc EXCEPT ![t] = l] /\ (l = "info" => lfd'[t] \in {NoFd, Stdin}) /\ l \in {"probe", "info"}
  BY DEF ChipFound, GoTo, Shape
<1>3. l \in UsesChip /\ l \notin UsesLine /\ pc[t] \notin UsesChip /\ pc[t] \notin UsesLine
  BY DEF UsesChip, UsesLine
<1> HIDE DEF l
<1>4. fds' = fds \cup {d} /\ leaked' = leaked /\ chip' = [chip EXCEPT ![t] = d]
  BY DEF ChipFound
<1>5. lfd' \in [Threads -> Fds \cup {NoFd}] /\ \A u \in Threads \ {t} : lfd'[u] = lfd[u]
  BY DEF ChipFound, Shape
<1>6. Shape' BY <1>2, <1>4, <1>5 DEF Shape, Places, UsesChip
<1>7. OpenForSomething'
  <2> SUFFICES ASSUME NEW e \in fds', e # Stdin, e \notin leaked, held[e] = {}
               PROVE  \E u \in Threads : pc'[u] \in UsesChip /\ chip'[u] = e
    BY <1>4 DEF OpenForSomething, IsChip
  <2>1. CASE e = d BY <2>1, <1>2, <1>3, <1>4 DEF Shape
  <2>2. CASE e # d
    <3>1. e \in fds BY <2>2, <1>4
    <3>2. PICK u \in Threads : pc[u] \in UsesChip /\ chip[u] = e
      BY <3>1 DEF OpenForSomething, IsChip
    <3>3. u # t BY <3>2, <1>3
    <3> QED BY <3>2, <3>3, <1>2, <1>4 DEF Shape
  <2> QED BY <2>1, <2>2
<1>8. ChipsApart'
  <2>1. \A u \in Threads \ {t} : pc'[u] = pc[u] /\ chip'[u] = chip[u] BY <1>2, <1>4 DEF Shape
  <2>2. chip'[t] = d BY <1>4 DEF Shape
  <2> QED BY <2>1, <2>2, <1>4, <1>f DEF ChipsApart
<1>9. LinesApart'
  <2>1. pc'[t] = l BY <1>2 DEF Shape
  <2>2. \A u \in Threads : pc'[u] \in UsesLine => pc[u] \in UsesLine /\ lfd'[u] = lfd[u] /\ u # t
    BY <1>2, <1>3, <1>5, <2>1 DEF Shape
  <2>3. \A u \in Threads : pc[u] \in UsesLine => pc'[u] \in UsesLine /\ lfd'[u] = lfd[u]
    BY <1>2, <1>3, <1>5 DEF Shape
  <2>4. \A u \in Threads : pc'[u] \in {"info", "setIn", "setOut", "drive"} => lfd'[u] \in {NoFd, Stdin}
    BY <1>2, <1>5, <2>1 DEF LinesApart, Shape
  <2>5. \A e \in Fds : held[e] # {} =>
          e \in fds' /\ e # Stdin /\ e \notin leaked' /\ \E u \in Threads : pc'[u] \in UsesLine /\ lfd'[u] = e
    BY <2>3, <1>4 DEF LinesApart
  <2>6. \A u \in Threads : pc'[u] \in UsesLine /\ lfd'[u] \in Fds \ {Stdin} => held[lfd'[u]] # {}
    BY <2>2 DEF LinesApart
  <2>7. \A u, v \in Threads :
          pc'[u] \in UsesLine /\ pc'[v] \in UsesLine /\ lfd'[u] = lfd'[v] /\ lfd'[u] \in Fds \ {Stdin} => u = v
    BY <2>2 DEF LinesApart
  <2> QED BY <2>4, <2>5, <2>6, <2>7 DEF LinesApart
<1> QED BY <1>6, <1>7, <1>8, <1>9

\* Another chip is found and stays open.
LEMMA Leaks ==
  ASSUME Inv, ~spoiled, NEW t \in Threads, NEW d \in Fds, Allots(d), OtherChip(t, d), UNCHANGED held
  PROVE  Inv'
<1> USE Numbers DEF Inv, OtherChip
<1>1. d \notin fds BY DEF Allots
<1>f. d # Stdin /\ d \notin leaked /\ held[d] = {} BY <1>1, Fresh
<1>g. \A u \in Threads : pc[u] \in UsesChip => chip[u] # d BY <1>1, Fresh
<1>2. Shape' BY DEF Shape
<1>3. OpenForSomething' BY DEF OpenForSomething, IsChip
<1>4. ChipsApart' BY <1>g DEF ChipsApart
<1>5. LinesApart' BY <1>f DEF LinesApart
<1> QED BY <1>2, <1>3, <1>4, <1>5

\* Lines are requested by a thread that has none.
LEMMA Requested ==
  ASSUME Inv, ~spoiled, NEW t \in Threads, NEW l \in UsesLine, NEW d \in Fds, NEW ls,
         pc[t] \in UsesChip \ UsesLine, pc' = [pc EXCEPT ![t] = l],
         Hold(t, d, ls), UNCHANGED chip
  PROVE  Inv'
<1> USE Numbers DEF Inv
<1>1. d \notin fds /\ ls # {} BY DEF Hold, Allots, Requestable
<1>f. d # Stdin /\ d \notin leaked /\ held[d] = {} BY <1>1, Fresh
<1>g. \A u \in Threads : pc[u] \in UsesChip => chip[u] # d BY <1>1, Fresh
<1>h. \A u \in Threads : pc[u] \in UsesLine => lfd[u] # d BY <1>1, Fresh
<1>2. /\ fds' = fds \cup {d} /\ leaked' = leaked /\ held' = [held EXCEPT ![d] = ls]
      /\ lfd' = [lfd EXCEPT ![t] = d]
  BY DEF Hold
<1>3. l \in UsesChip /\ l \notin {"info", "setIn", "setOut", "drive"} BY DEF UsesChip, UsesLine
<1>4. held'[d] = ls /\ \A e \in Fds \ {d} : held'[e] = held[e] BY <1>2 DEF Shape
<1>5. pc'[t] = l /\ lfd'[t] = d /\ \A u \in Threads \ {t} : pc'[u] = pc[u] /\ lfd'[u] = lfd[u]
  BY <1>2 DEF Shape
<1>6. Shape' BY <1>2, <1>3 DEF Shape, Places
<1>7. \A u \in Threads : pc'[u] \in UsesChip <=> pc[u] \in UsesChip BY <1>3, <1>5
<1>8. OpenForSomething' BY <1>1, <1>2, <1>4, <1>7 DEF OpenForSomething, IsChip, Shape
<1>9. ChipsApart' BY <1>2, <1>4, <1>7, <1>g DEF ChipsApart, Shape
<1>10. LinesApart'
  <2>1. \A e \in Fds : held'[e] # {} => e \in fds' /\ e # Stdin /\ e \notin leaked'
    BY <1>2, <1>4, <1>f DEF LinesApart
  <2>2. \A e \in Fds : held'[e] # {} => \E u \in Threads : pc'[u] \in UsesLine /\ lfd'[u] = e
    <3> SUFFICES ASSUME NEW e \in Fds, held'[e] # {}
                 PROVE  \E u \in Threads : pc'[u] \in UsesLine /\ lfd'[u] = e
      OBVIOUS
    <3>1. CASE e = d BY <3>1, <1>5
    <3>2. CASE e # d
      <4>1. PICK u \in Threads : pc[u] \in UsesLine /\ lfd[u] = e BY <3>2, <1>4 DEF LinesApart
      <4> QED BY <4>1, <1>5
    <3> QED BY <3>1, <3>2
  <2>3. \A u \in Threads : pc'[u] \in UsesLine /\ u # t => pc[u] \in UsesLine /\ lfd'[u] = lfd[u] /\ lfd[u] # d
    BY <1>5, <1>h
  <2>4. \A u \in Threads : pc'[u] \in UsesLine /\ lfd'[u] \in Fds \ {Stdin} => held'[lfd'[u]] # {}
    BY <2>3, <1>1, <1>4, <1>5 DEF LinesApart
  <2>5. \A u, v \in Threads :
          pc'[u] \in UsesLine /\ pc'[v] \in UsesLine /\ lfd'[u] = lfd'[v] /\ lfd'[u] \in Fds \ {Stdin} => u = v
    BY <2>3, <1>5 DEF LinesApart
  <2>6. \A u \in Threads : pc'[u] \in {"info", "setIn", "setOut", "drive"} => lfd'[u] \in {NoFd, Stdin}
    BY <1>3, <1>5 DEF LinesApart
  <2> QED BY <2>1, <2>2, <2>4, <2>5, <2>6 DEF LinesApart
<1> QED BY <1>6, <1>8, <1>9, <1>10

\* The lines of t are released.
LEMMA Released ==
  ASSUME Inv, ~spoiled, NEW t \in Threads, NEW l \in UsesChip \ UsesLine,
         pc[t] \in UsesLine, pc' = [pc EXCEPT ![t] = l], lfd[t] \in Fds \ {Stdin},
         lfd' = [lfd EXCEPT ![t] = NoFd], CloseFile(lfd[t]), UNCHANGED <<leaked, chip>>
  PROVE  Inv'
<1> USE Numbers DEF Inv
<1> DEFINE d == lfd[t]
<1>1. d \in Fds /\ d # Stdin /\ held[d] # {} /\ d \notin leaked /\ d \in fds BY DEF LinesApart
<1>2. fds' = fds \ {d} /\ held'[d] = {} /\ \A e \in Fds \ {d} : held'[e] = held[e]
  BY <1>1 DEF CloseFile
<1>3. pc'[t] = l /\ lfd'[t] = NoFd /\ \A u \in Threads \ {t} : pc'[u] = pc[u] /\ lfd'[u] = lfd[u]
  BY DEF Shape
<1>4. pc[t] \in UsesChip BY DEF UsesChip
<1>5. \A u \in Threads : pc'[u] \in UsesChip <=> pc[u] \in UsesChip BY <1>3, <1>4
<1>6. \A u \in Threads : pc'[u] \in UsesLine => u # t /\ pc[u] \in UsesLine /\ lfd'[u] = lfd[u]
  BY <1>3
<1>7. \A u \in Threads : pc[u] \in UsesLine /\ lfd[u] = d => u = t BY <1>1 DEF LinesApart
<1>8. Shape'
  <2>1. pc' \in [Threads -> Places] BY DEF Shape, Places
  <2>2. lfd' \in [Threads -> Fds \cup {NoFd}] BY DEF Shape
  <2>3. held' = [e \in Fds |-> held'[e]] BY <1>1 DEF Shape, CloseFile
  <2>4. fds' \subseteq Fds /\ leaked' \subseteq fds' /\ Stdin \in fds' BY <1>1, <1>2 DEF Shape
  <2> HIDE DEF d
  <2> QED BY <2>1, <2>2, <2>3, <2>4 DEF Shape
<1> HIDE DEF d
<1>9. OpenForSomething' BY <1>2, <1>5 DEF OpenForSomething, IsChip, Shape
<1>10. ChipsApart' BY <1>1, <1>2, <1>5 DEF ChipsApart, Shape
<1>11. LinesApart'
  <2>1. \A e \in Fds : held'[e] # {} =>
          e \in fds' /\ e # Stdin /\ e \notin leaked' /\ \E u \in Threads : pc'[u] \in UsesLine /\ lfd'[u] = e
    <3> SUFFICES ASSUME NEW e \in Fds, held'[e] # {}
                 PROVE  /\ e \in fds' /\ e # Stdin /\ e \notin leaked'
                        /\ \E u \in Threads : pc'[u] \in UsesLine /\ lfd'[u] = e
      OBVIOUS
    <3>1. e # d /\ held[e] # {} BY <1>2
    <3>2. PICK u \in Threads : pc[u] \in UsesLine /\ lfd[u] = e BY <3>1 DEF LinesApart
    <3>3. u # t BY <3>1, <3>2 DEF d
    <3> QED BY <3>1, <3>2, <3>3, <1>2, <1>3 DEF LinesApart
  <2>2. \A u \in Threads : pc'[u] \in UsesLine /\ lfd'[u] \in Fds \ {Stdin} => held'[lfd'[u]] # {}
    BY <1>2, <1>6, <1>7 DEF LinesApart
  <2>3. \A u, v \in Threads :
          pc'[u] \in UsesLine /\ pc'[v] \in UsesLine /\ lfd'[u] = lfd'[v] /\ lfd'[u] \in Fds \ {Stdin} => u = v
    BY <1>6 DEF LinesApart
  <2>4. \A u \in Threads : pc'[u] \in {"info", "setIn", "setOut", "drive"} => lfd'[u] \in {NoFd, Stdin}
    BY <1>3 DEF LinesApart
  <2> QED BY <2>1, <2>2, <2>3, <2>4 DEF LinesApart
<1> QED BY <1>8, <1>9, <1>10, <1>11

\* The chip of t is closed.
LEMMA ChipClosed ==
  ASSUME Inv, ~spoiled, NEW t \in Threads, NEW l \in Places \ UsesChip, pc[t] = "closeChip",
         pc' = [pc EXCEPT ![t] = l], CloseFile(chip[t]), chip' = [chip EXCEPT ![t] = NoFd],
         lfd' \in [Threads -> Fds \cup {NoFd}], \A u \in Threads \ {t} : lfd'[u] = lfd[u],
         UNCHANGED leaked
  PROVE  Inv'
<1> USE Numbers DEF Inv
<1> DEFINE d == chip[t]
<1>1. pc[t] \in UsesChip /\ pc[t] \notin UsesLine BY DEF UsesChip, UsesLine
<1>2. d \in Fds /\ d \in fds /\ d # Stdin /\ d \notin leaked /\ held[d] = {}
  BY <1>1 DEF ChipsApart, Shape
<1>3. fds' = fds \ {d} /\ \A e \in Fds : held'[e] = held[e] BY <1>2 DEF CloseFile
<1>4. pc'[t] = l /\ \A u \in Threads \ {t} : pc'[u] = pc[u] /\ chip'[u] = chip[u] BY DEF Shape
<1>5. l \notin UsesChip /\ l \notin UsesLine /\ l \notin {"info", "setIn", "setOut", "drive"}
  BY DEF UsesChip
<1>6. \A u \in Threads : pc[u] \in UsesChip /\ chip[u] = d => u = t BY <1>1 DEF ChipsApart
<1>7. Shape'
  <2>1. pc' \in [Threads -> Places] BY DEF Shape, Places
  <2>2. chip' \in [Threads -> Fds \cup {NoFd}] BY DEF Shape
  <2>3. held' = [e \in Fds |-> held'[e]] BY DEF Shape, CloseFile
  <2>4. fds' \subseteq Fds /\ leaked' \subseteq fds' /\ Stdin \in fds' BY <1>2, <1>3 DEF Shape
  <2> HIDE DEF d
  <2> QED BY <2>1, <2>2, <2>3, <2>4 DEF Shape
<1>8. OpenForSomething'
  <2> SUFFICES ASSUME NEW e \in fds', e # Stdin, e \notin leaked, held[e] = {}
               PROVE  \E u \in Threads : pc'[u] \in UsesChip /\ chip'[u] = e
    BY <1>3 DEF OpenForSomething, IsChip, Shape
  <2>1. e \in fds /\ e # d BY <1>3
  <2>2. PICK u \in Threads : pc[u] \in UsesChip /\ chip[u] = e
    BY <2>1 DEF OpenForSomething, IsChip
  <2>3. u # t BY <2>1, <2>2
  <2> QED BY <2>2, <2>3, <1>4
<1>9. ChipsApart'
  <2>1. \A u \in Threads : pc'[u] \in UsesChip => u # t /\ pc[u] \in UsesChip /\ chip'[u] = chip[u] /\ chip[u] # d
    BY <1>4, <1>5, <1>6
  <2> HIDE DEF d
  <2> QED BY <2>1, <1>3 DEF ChipsApart, Shape
<1>10. LinesApart'
  <2>1. \A u \in Threads : pc'[u] \in UsesLine => pc[u] \in UsesLine /\ lfd'[u] = lfd[u]
    BY <1>4, <1>5
  <2>2. \A u \in Threads : pc[u] \in UsesLine => pc'[u] \in UsesLine /\ lfd'[u] = lfd[u]
    BY <1>1, <1>4
  <2>3. \A e \in Fds : held'[e] # {} =>
          e \in fds' /\ e # Stdin /\ e \notin leaked' /\ \E u \in Threads : pc'[u] \in UsesLine /\ lfd'[u] = e
    BY <2>2, <1>2, <1>3 DEF LinesApart
  <2>4. \A u \in Threads : pc'[u] \in UsesLine /\ lfd'[u] \in Fds \ {Stdin} => held'[lfd'[u]] # {}
    BY <2>1, <1>3 DEF LinesApart
  <2>5. \A u, v \in Threads :
          pc'[u] \in UsesLine /\ pc'[v] \in UsesLine /\ lfd'[u] = lfd'[v] /\ lfd'[u] \in Fds \ {Stdin} => u = v
    BY <2>1 DEF LinesApart
  <2>6. \A u \in Threads : pc'[u] \in {"info", "setIn", "setOut", "drive"} => lfd'[u] \in {NoFd, Stdin}
    BY <1>4, <1>5 DEF LinesApart
  <2> QED BY <2>3, <2>4, <2>5, <2>6 DEF LinesApart
<1> QED BY <1>7, <1>8, <1>9, <1>10

\* A call begins, and the chip is looked for.
LEMMA BeginInv ==
  ASSUME Inv, ~spoiled, NEW t \in Threads, Call(t)
  PROVE  Inv'
<1>1. PICK l \in {"caps", "chip"} : /\ pc[t] = "idle" /\ pc' = [pc EXCEPT ![t] = l]
                                  /\ UNCHANGED <<fds, held, leaked, chip, lfd>>
  BY DEF Call, GetGpioPortDirections, GetGpioPortLevels, SetGpioPortDirections, SetGpioPortLevels,
         EApiGPIOSetDirection, EApiGPIOSetLevel, JidaIOXorAndXor, Begin, GoTo, files
<1>2. Shape BY DEF Inv
<1>3. {"idle", "caps", "chip"} \subseteq Places \ UsesChip /\ UsesLine \subseteq UsesChip
  BY DEF Places, UsesChip, UsesLine
<1> QED BY <1>1, <1>2, <1>3, Quiet DEF Shape

LEMMA ReturnInv ==
  ASSUME Inv, ~spoiled, NEW t \in Threads, pc[t] \in {"caps", "chip"}, Return(t), UNCHANGED files
  PROVE  Inv'
<1>1. pc' = [pc EXCEPT ![t] = "idle"] /\ UNCHANGED <<fds, held, leaked>> BY DEF Return, GoTo, files
<1>2. Shape BY DEF Inv
<1>3. /\ chip' \in [Threads -> Fds \cup {NoFd}] /\ lfd' \in [Threads -> Fds \cup {NoFd}]
      /\ \A u \in Threads \ {t} : chip'[u] = chip[u] /\ lfd'[u] = lfd[u]
  BY <1>2 DEF Return, Forget, Shape
<1>4. {"idle", "caps", "chip"} \subseteq Places \ UsesChip /\ UsesLine \subseteq UsesChip
  BY DEF Places, UsesChip, UsesLine
<1> QED BY <1>1, <1>2, <1>3, <1>4, Quiet

LEMMA CheckCapsInv ==
  ASSUME Inv, ~spoiled, NEW t \in Threads, CheckCaps(t)
  PROVE  Inv'
<1>1. pc[t] = "caps" /\ UNCHANGED files BY DEF CheckCaps
<1>2. CASE Return(t) BY <1>1, <1>2, ReturnInv
<1>3. CASE GoTo(t, "chip") /\ UNCHANGED <<chip, lfd>>
  <2>1. Shape BY DEF Inv
  <2>2. "chip" \in Places \ UsesChip /\ "caps" \notin UsesChip /\ UsesLine \subseteq UsesChip
    BY DEF Places, UsesChip, UsesLine
  <2>3. pc' = [pc EXCEPT ![t] = "chip"] /\ UNCHANGED <<fds, held, leaked, chip, lfd>>
    BY <1>1, <1>3 DEF GoTo, files
  <2> QED BY <1>1, <2>1, <2>2, <2>3, Quiet DEF Shape
<1> QED BY <1>2, <1>3 DEF CheckCaps

LEMMA StutterInv ==
  ASSUME Inv, UNCHANGED <<pc, files, chip, lfd>>
  PROVE  Inv'
  BY DEF Inv, Shape, OpenForSomething, IsChip, ChipsApart, LinesApart, files

LEMMA GetChipDevInv ==
  ASSUME Inv, ~spoiled, NEW t \in Threads, GetChipDev(t)
  PROVE  Inv'
<1>1. pc[t] = "chip" BY DEF GetChipDev
<1>2. CASE Return(t) /\ UNCHANGED files BY <1>1, <1>2, ReturnInv
<1>3. CASE UNCHANGED <<pc, files, chip, lfd>> BY <1>3, StutterInv
<1>4. CASE \E d \in Fds : /\ Allots(d) /\ UNCHANGED held
                          /\ IF k[t] = Others THEN ChipFound(t, d) ELSE OtherChip(t, d)
  BY <1>1, <1>4, Found, Leaks
<1> QED BY <1>2, <1>3, <1>4 DEF GetChipDev

\* The lines are used.
LEMMA GetLinehandleInv ==
  ASSUME Inv, ~spoiled, NEW t \in Threads, GetLinehandle(t)
  PROVE  Inv'
<1> DEFINE l == IF op[t] = "getLevels" THEN "values" ELSE "closeProbe"
<1>1. l \in UsesLine /\ pc[t] \in UsesChip \ UsesLine /\ pc' = [pc EXCEPT ![t] = l] /\ UNCHANGED chip
  BY DEF GetLinehandle, GoTo, UsesLine, UsesChip
<1> HIDE DEF l
<1>2. CASE \E d \in Fds : Hold(t, d, Lines) BY <1>1, <1>2, Requested
<1>3. CASE spoiled' = TRUE BY <1>3 DEF Inv
<1> QED BY <1>2, <1>3 DEF GetLinehandle

\* A step between two uses of the same lines, or of none.
LEMMA OnLines ==
  ASSUME Inv, ~spoiled, NEW t \in Threads, NEW l \in UsesChip,
         pc' = [pc EXCEPT ![t] = l], UNCHANGED <<files, chip, lfd>>,
         \/ pc[t] \in UsesLine /\ l \in UsesLine
         \/ pc[t] \in {"info", "setIn", "setOut", "drive"}
  PROVE  Inv'
<1>1. Shape /\ LinesApart BY DEF Inv
<1>2. /\ {"info", "setIn", "setOut", "drive"} \cap UsesLine = {}
      /\ UsesLine \subseteq UsesChip /\ {"info", "setIn", "setOut", "drive"} \subseteq UsesChip
      /\ UsesChip \subseteq Places
  BY DEF UsesChip, UsesLine, Places
<1>3. pc[t] \in {"info", "setIn", "setOut", "drive"} => lfd[t] \in {NoFd, Stdin} BY <1>1 DEF LinesApart
<1> QED BY <1>1, <1>2, <1>3, Quiet DEF Shape, files

LEMMA ReadInv ==
  ASSUME Inv, ~spoiled, NEW t \in Threads, GetValues(t) \/ GetLineinfo(t)
  PROVE  Inv'
<1> USE DEF GoTo, Fails, UsesLine, UsesChip
<1>1. CASE GetValues(t) BY <1>1, OnLines DEF GetValues
<1>2. CASE GetLineinfo(t)
  <2>1. pc[t] = "info" /\ UNCHANGED <<files, chip, lfd>> BY <1>2 DEF GetLineinfo
  <2>2. CASE UNCHANGED pc BY <2>1, <2>2, StutterInv
  <2>3. CASE \E l \in {"closeLine", "setIn", "drive"} : pc' = [pc EXCEPT ![t] = l]
    BY <2>1, <2>3, OnLines
  <2> QED BY <1>2, <2>2, <2>3 DEF GetLineinfo
<1> QED BY <1>1, <1>2

\* Lines are requested, or the request fails.
LEMMA RequestInv ==
  ASSUME Inv, ~spoiled, NEW t \in Threads, NEW ls, NEW l \in UsesLine,
         pc[t] \in {"setIn", "setOut", "drive"}, UNCHANGED chip,
         \/ (\E d \in Fds : Hold(t, d, ls)) /\ GoTo(t, l)
         \/ Fails(t, "closeLine") /\ UNCHANGED <<files, lfd>>
  PROVE  Inv'
<1>1. pc[t] \in UsesChip \ UsesLine BY DEF UsesChip, UsesLine
<1>2. CASE (\E d \in Fds : Hold(t, d, ls)) /\ GoTo(t, l) BY <1>1, <1>2, Requested DEF GoTo
<1>3. CASE Fails(t, "closeLine") /\ UNCHANGED <<files, lfd>>
  <2>1. "closeLine" \in UsesChip BY DEF UsesChip, UsesLine
  <2> QED BY <1>3, <2>1, OnLines DEF Fails, GoTo
<1> QED BY <1>2, <1>3

LEMMA ChangeInv ==
  ASSUME Inv, ~spoiled, NEW t \in Threads, SetIn(t) \/ SetOut(t) \/ SetLevels(t)
  PROVE  Inv'
<1> USE DEF GoTo, UsesLine, UsesChip
<1>1. CASE SetIn(t)
  <2>1. CASE GoTo(t, "setOut") /\ UNCHANGED <<files, lfd>> BY <1>1, <2>1, OnLines DEF SetIn
  <2>2. CASE Request(t, ToInput(t), "closeIn", Float(t, ToInput(t)))
    BY <1>1, <2>2, RequestInv DEF SetIn, Request
  <2> QED BY <1>1, <2>1, <2>2 DEF SetIn
<1>2. CASE SetOut(t)
  <2>1. CASE GoTo(t, "closeLine") /\ UNCHANGED <<files, lfd>> BY <1>2, <2>1, OnLines DEF SetOut
  <2>2. CASE Request(t, ToOutput(t), "closeLine", Drive(t, ToOutput(t), {}))
    BY <1>2, <2>2, RequestInv DEF SetOut, Request
  <2> QED BY <1>2, <2>1, <2>2 DEF SetOut
<1>3. CASE SetLevels(t) BY <1>3, RequestInv DEF SetLevels, Request
<1> QED BY <1>1, <1>2, <1>3

LEMMA CloseLineInv ==
  ASSUME Inv, ~spoiled, NEW t \in Threads, CloseLine(t)
  PROVE  Inv'
<1> DEFINE l == CASE pc[t] = "closeProbe" -> "info" [] pc[t] = "closeIn" -> "setOut"
                  [] pc[t] = "closeLine" -> "closeChip"
<1>1. /\ pc[t] \in {"closeProbe", "closeIn", "closeLine"} /\ UNCHANGED chip
      /\ pc' = [pc EXCEPT ![t] = l] /\ lfd' = [lfd EXCEPT ![t] = NoFd]
  BY DEF CloseLine, LineClosed, GoTo, Forget
<1>2. l \in UsesChip \ UsesLine /\ pc[t] \in UsesLine BY <1>1 DEF UsesChip, UsesLine
<1> HIDE DEF l
<1>3. CASE lfd[t] = NoFd
  <2>1. UNCHANGED <<fds, held, leaked>> BY <1>3 DEF CloseLine, files
  <2>2. Shape BY DEF Inv
  <2>3. UsesLine \subseteq UsesChip /\ UsesChip \subseteq Places BY DEF UsesLine, UsesChip, Places
  <2>4. lfd' = lfd BY <1>1, <1>3, <2>2 DEF Shape
  <2>5. Shape'
    BY <1>1, <1>2, <2>1, <2>2, <2>3, <2>4 DEF Shape
  <2>6. \A u \in Threads : (pc'[u] \in UsesChip <=> pc[u] \in UsesChip) /\ (u # t => pc'[u] = pc[u])
    BY <1>1, <1>2, <2>2, <2>3 DEF Shape
  <2>7. pc'[t] = l /\ NoFd \notin Fds BY <1>1, <2>2, Numbers DEF Shape
  <2>8. OpenForSomething' BY <1>1, <2>1, <2>6 DEF Inv, OpenForSomething, IsChip
  <2>9. ChipsApart' BY <1>1, <2>1, <2>6 DEF Inv, ChipsApart
  <2>10. LinesApart' BY <1>2, <1>3, <2>1, <2>4, <2>6, <2>7 DEF Inv, LinesApart
  <2> QED BY <2>5, <2>8, <2>9, <2>10 DEF Inv
<1>4. CASE lfd[t] = Stdin
  <2>1. spoiled' BY <1>4, Numbers DEF CloseLine
  <2> QED BY <2>1 DEF Inv
<1>5. CASE lfd[t] \in Fds \ {Stdin}
  <2>1. CloseFile(lfd[t]) /\ UNCHANGED leaked BY <1>5, Numbers DEF CloseLine
  <2> QED BY <1>1, <1>2, <1>5, <2>1, Released
<1>6. lfd[t] \in Fds \cup {NoFd} BY DEF Inv, Shape
<1> QED BY <1>3, <1>4, <1>5, <1>6

LEMMA CloseChipInv ==
  ASSUME Inv, ~spoiled, NEW t \in Threads, CloseChip(t)
  PROVE  Inv'
<1>1. pc[t] = "closeChip" /\ CloseFile(chip[t]) /\ UNCHANGED leaked BY DEF CloseChip
<1>2. Shape BY DEF Inv
<1>3. PICK l \in {"idle", "caps", "chip"} :
        pc' = [pc EXCEPT ![t] = l] /\ chip' = [chip EXCEPT ![t] = NoFd]
  BY DEF CloseChip, GoTo, Return
<1>4. l \in Places \ UsesChip BY DEF Places, UsesChip, UsesLine
<1>5. lfd' \in [Threads -> Fds \cup {NoFd}] /\ \A u \in Threads \ {t} : lfd'[u] = lfd[u]
  BY <1>2 DEF CloseChip, Return, Forget, Shape
<1> QED BY <1>1, <1>3, <1>4, <1>5, ChipClosed

\* The inductive invariant: a descriptor is open for one thing, which knows it.
THEOREM ChipInvariant == Spec => []Inv
<1>1. Init => Inv BY InitInv
<1>2. Inv /\ [Next]_vars => Inv'
  <2> SUFFICES ASSUME Inv, [Next]_vars PROVE Inv'
    OBVIOUS
  <2>1. CASE UNCHANGED vars BY <2>1, StutterInv DEF vars, files
  <2>2. CASE Next
    <3>1. ~spoiled BY <2>2 DEF Next
    <3>2. PICK t \in Threads : Call(t) \/ Run(t) BY <2>2 DEF Next
    <3>3. CASE Call(t) BY <3>1, <3>3, BeginInv
    <3>4. CASE Run(t)
      BY <3>1, <3>4, CheckCapsInv, GetChipDevInv, GetLinehandleInv, ReadInv, ChangeInv,
         CloseLineInv, CloseChipInv DEF Run
    <3> QED BY <3>2, <3>3, <3>4
  <2> QED BY <2>1, <2>2
<1> QED BY <1>1, <1>2, PTL DEF Spec

\* Every descriptor is accounted for, for any number of threads, lines and chips
\* (src/gpio_pins.c:249-503), until a call closes one that was not its own.
THEOREM NoDescriptorLost == Spec => []DescriptorsAccounted
<1>1. Inv => DescriptorsAccounted
  <2> SUFFICES ASSUME Inv, ~spoiled PROVE DescriptorsAccounted
    BY DEF DescriptorsAccounted
  <2> USE Numbers DEF Inv
  <2>1. fds = {Stdin} \cup leaked \cup {chip[t] : t \in {u \in Threads : pc[u] \in UsesChip}}
                \cup {d \in Fds : held[d] # {}}
    <3>1. ASSUME NEW d \in fds
          PROVE  d \in {Stdin} \cup leaked \cup {chip[t] : t \in {u \in Threads : pc[u] \in UsesChip}}
                         \cup {e \in Fds : held[e] # {}}
      BY DEF OpenForSomething, IsChip, Shape
    <3>2. {Stdin} \cup leaked \subseteq fds BY DEF Shape
    <3>3. {chip[t] : t \in {u \in Threads : pc[u] \in UsesChip}} \subseteq fds BY DEF ChipsApart
    <3>4. {e \in Fds : held[e] # {}} \subseteq fds BY DEF LinesApart
    <3> QED BY <3>1, <3>2, <3>3, <3>4
  <2>2. \A t \in Threads : pc[t] \in UsesChip => chip[t] \notin {Stdin} \cup leaked /\ held[chip[t]] = {}
    BY DEF ChipsApart
  <2>3. \A t, u \in Threads : pc[t] \in UsesChip /\ pc[u] \in UsesChip /\ chip[t] = chip[u] => t = u
    BY DEF ChipsApart
  <2>4. \A d \in Fds : held[d] # {} =>
          d # Stdin /\ d \notin leaked /\ \E t \in Threads : pc[t] \in UsesLine /\ lfd[t] = d
    BY DEF LinesApart
  <2> QED BY <2>1, <2>2, <2>3, <2>4 DEF DescriptorsAccounted
<1> QED BY <1>1, ChipInvariant, PTL

-----------------------------------------------------------------------------
\* Types.

LEMMA ConstantTypes ==
  /\ 0 \in 0 .. Others /\ 0 \in 0 .. NLines
  /\ Inputs \subseteq Lines /\ Outputs \subseteq Lines
  /\ \A w \in Words \cup Masks : w \in SUBSET Lines
  BY NLinesAssumption, IntBitsAssumption, OthersAssumption, CapsAssumption, MasksAssumption

LEMMA SymDiffType ==
  ASSUME NEW a \in SUBSET Lines, NEW b \in SUBSET Lines
  PROVE  SymDiff(a, b) \in SUBSET Lines
  BY DEF SymDiff

LEMMA TypeInit == Init => TypeOK
<1> SUFFICES ASSUME Init PROVE TypeOK
  OBVIOUS
<1> USE ConstantTypes, Numbers DEF Init
<1>1. {} \in SUBSET Lines /\ "getLevels" \in Ops BY DEF Ops
<1>2. outs \subseteq Lines /\ high \subseteq outs OBVIOUS
<1>3. fds \subseteq Fds /\ leaked \subseteq Fds /\ spoiled \in BOOLEAN OBVIOUS
<1>4. held \in [Fds -> SUBSET Lines] BY <1>1
<1> QED BY <1>1, <1>2, <1>3, <1>4 DEF TypeOK

\* A call begins: its operation, what it writes back, and two words.
LEMMA BeginType ==
  ASSUME TypeOK, NEW t \in Threads, NEW l \in {"caps", "chip"}, NEW o \in Ops,
         NEW nx \in {"none", "setDirections", "setLevels"},
         NEW a \in SUBSET Lines, NEW x \in SUBSET Lines, NEW f \in BOOLEAN,
         Begin(t, l, o, nx, a, x, f)
  PROVE  TypeOK'
  BY DEF TypeOK, Begin, GoTo, port, files, loop

LEMMA CallBegins ==
  ASSUME NEW t \in Threads, Call(t)
  PROVE  \E l \in {"caps", "chip"}, o \in Ops, nx \in {"none", "setDirections", "setLevels"},
            a, x \in SUBSET Lines, f \in BOOLEAN :
           /\ Begin(t, l, o, nx, a, x, f)
           /\ nx = "none" => a = {}
           /\ nx = "setDirections" => o = "getDirections"
           /\ nx = "setLevels" => o = "getLevels"
           /\ l = "caps" <=> o = "setDirections"
           /\ f => nx = "setLevels"
<1> USE ConstantTypes DEF Ops
<1>1. CASE GetGpioPortDirections(t) BY <1>1 DEF GetGpioPortDirections
<1>2. CASE GetGpioPortLevels(t) BY <1>2 DEF GetGpioPortLevels
<1>3. ASSUME NEW w \in Words, SetGpioPortDirections(t, w)
      PROVE  \E x \in SUBSET Lines : Begin(t, "caps", "setDirections", "none", {}, x, FALSE)
  BY <1>3 DEF SetGpioPortDirections
<1>4. ASSUME NEW w \in Words, SetGpioPortLevels(t, w)
      PROVE  \E x \in SUBSET Lines : Begin(t, "chip", "setLevels", "none", {}, x, FALSE)
  BY <1>4 DEF SetGpioPortLevels
<1>5. ASSUME NEW mask \in Masks, NEW w \in Words, EApiGPIOSetDirection(t, mask, w)
      PROVE  \E a, x \in SUBSET Lines : Begin(t, "chip", "getDirections", "setDirections", a, x, FALSE)
  <2>1. Lines \ mask \in SUBSET Lines /\ w \cap mask \in SUBSET Lines
    OBVIOUS
  <2> QED BY <1>5, <2>1 DEF EApiGPIOSetDirection
<1>6. ASSUME NEW mask \in Masks, NEW w \in Words, EApiGPIOSetLevel(t, mask, w)
      PROVE  \E a, x \in SUBSET Lines : Begin(t, "chip", "getLevels", "setLevels", a, x, FALSE)
  <2>1. Lines \ mask \in SUBSET Lines /\ w \cap mask \in SUBSET Lines
    OBVIOUS
  <2> QED BY <1>6, <2>1 DEF EApiGPIOSetLevel
<1>7. ASSUME NEW x1 \in Words, NEW x2 \in Words, NEW a \in Masks, JidaIOXorAndXor(t, x1, a, x2)
      PROVE  \E b, x \in SUBSET Lines : Begin(t, "chip", "getLevels", "setLevels", b, x, TRUE)
  <2>1. a \in SUBSET Lines /\ x1 \cap a \in SUBSET Lines /\ x2 \in SUBSET Lines
    OBVIOUS
  <2> QED BY <1>7, <2>1, SymDiffType DEF JidaIOXorAndXor
<1>8. {} \in SUBSET Lines
  OBVIOUS
<1> QED BY <1>1, <1>2, <1>3, <1>4, <1>5, <1>6, <1>7, <1>8 DEF Call

LEMMA ForgetType ==
  ASSUME TypeOK, NEW t \in Threads, Forget(t)
  PROVE  /\ ret' \in [Threads -> {"none", "success", "error"}]
         /\ op' \in [Threads -> Ops]
         /\ then' \in [Threads -> {"none", "setDirections", "setLevels"}]
         /\ andMask' \in [Threads -> SUBSET Lines] /\ xorMask' \in [Threads -> SUBSET Lines]
         /\ saysFalse' \in [Threads -> BOOLEAN]
         /\ word' \in [Threads -> SUBSET Lines]
         /\ k' \in [Threads -> 0 .. Others] /\ i' \in [Threads -> 0 .. NLines]
         /\ seen' \in [Threads -> SUBSET Lines]
         /\ lfd' \in [Threads -> Fds \cup {NoFd}]
         /\ outs0' \in [Threads -> SUBSET Lines] /\ high0' \in [Threads -> SUBSET Lines]
         /\ alone' \in [Threads -> BOOLEAN]
<1>1. "getLevels" \in Ops BY DEF Ops
<1> QED BY <1>1, ConstantTypes DEF TypeOK, Forget

LEMMA ReturnType ==
  ASSUME TypeOK, NEW t \in Threads, Return(t), UNCHANGED port,
         fds' \subseteq Fds, leaked' \subseteq Fds, spoiled' \in BOOLEAN,
         held' \in [Fds -> SUBSET Lines]
  PROVE  TypeOK'
  BY ForgetType DEF TypeOK, Return, GoTo, port

LEMMA DisturbsType ==
  ASSUME TypeOK, NEW t \in Threads, Disturbs(t)
  PROVE  /\ alone' \in [Threads -> BOOLEAN]
         /\ outs0' \in [Threads -> SUBSET Lines] /\ high0' \in [Threads -> SUBSET Lines]
  BY DEF TypeOK, Disturbs

\* Lines are requested and changed, or not.
LEMMA RequestType ==
  ASSUME TypeOK, NEW t \in Threads, NEW ls \in SUBSET Lines, NEW w \in SUBSET Lines,
         NEW l \in UsesChip,
         \/ Request(t, ls, l, Drive(t, ls, w)) \/ Request(t, ls, l, Float(t, ls)),
         UNCHANGED <<word, loop, chip>>, Stay(t)
  PROVE  TypeOK'
<1> USE DEF TypeOK, GoTo, Fails, Stay, request, loop
<1>1. CASE \E d \in Fds : Hold(t, d, ls)
  <2>1. /\ fds' \subseteq Fds /\ held' \in [Fds -> SUBSET Lines] /\ lfd' \in [Threads -> Fds \cup {NoFd}]
        /\ leaked' \subseteq Fds /\ spoiled' \in BOOLEAN
    BY <1>1 DEF Hold
  <2>2. CASE Drive(t, ls, w) /\ ret' = [ret EXCEPT ![t] = "success"] /\ GoTo(t, l)
    <3>1. outs' \subseteq Lines /\ high' \subseteq outs' BY <2>2 DEF Drive
    <3> QED BY <2>1, <2>2, <3>1, DisturbsType DEF Drive
  <2>3. CASE Float(t, ls) /\ ret' = [ret EXCEPT ![t] = "success"] /\ GoTo(t, l)
    <3>1. outs' \subseteq Lines /\ high' \subseteq outs' BY <2>3 DEF Float
    <3> QED BY <2>1, <2>3, <3>1, DisturbsType DEF Float
  <2>4. CASE Fails(t, "closeLine") /\ UNCHANGED <<port, files, lfd, before>>
    BY <2>4 DEF port, files, before, UsesChip, UsesLine
  <2> QED BY <2>2, <2>3, <2>4 DEF Request
<1>2. CASE Fails(t, "closeLine") /\ UNCHANGED <<port, files, lfd, before>>
  BY <1>2 DEF port, files, before, UsesChip, UsesLine
<1> QED BY <1>1, <1>2 DEF Request

LEMMA CloseFileType ==
  ASSUME TypeOK, NEW d \in Fds \cup {NoFd}, CloseFile(d)
  PROVE  fds' \subseteq Fds /\ held' \in [Fds -> SUBSET Lines]
  BY DEF TypeOK, CloseFile

LEMMA RunType ==
  ASSUME TypeOK, NEW t \in Threads, Run(t)
  PROVE  TypeOK'
<1> USE DEF GoTo, UsesChip, UsesLine
<1>1. CASE CheckCaps(t)
  <2>1. CASE Return(t)
    BY <1>1, <2>1, ReturnType DEF CheckCaps, files, TypeOK
  <2>2. CASE GoTo(t, "chip") /\ UNCHANGED <<op, request, word, loop, chip, lfd, ret, before>>
    BY <1>1, <2>2 DEF CheckCaps, TypeOK, port, files, request, loop, before
  <2> QED BY <1>1, <2>1, <2>2 DEF CheckCaps
<1>2. CASE GetChipDev(t)
  <2>1. CASE Return(t) /\ UNCHANGED files
    BY <1>2, <2>1, ReturnType DEF GetChipDev, files, TypeOK
  <2>2. CASE /\ k[t] < Others /\ k' = [k EXCEPT ![t] = @ + 1]
             /\ UNCHANGED <<pc, files, i, seen, word, chip, lfd, ret, before>> /\ Stay(t)
    BY <1>2, <2>2, OthersAssumption DEF GetChipDev, TypeOK, Stay, request, port, files, before
  <2>3. ASSUME NEW d \in Fds, IF k[t] = Others THEN ChipFound(t, d) ELSE OtherChip(t, d),
               UNCHANGED <<held, spoiled, i, seen, word, before>>, Stay(t)
        PROVE  TypeOK'
    <3>1. CASE k[t] = Others
      BY <1>2, <2>3, <3>1, ConstantTypes, Numbers
      DEF GetChipDev, ChipFound, TypeOK, Stay, request, port, before
    <3>2. CASE k[t] # Others
      <4>1. k[t] + 1 \in 0 .. Others BY <3>2, OthersAssumption DEF TypeOK
      <4> QED
        BY <1>2, <2>3, <3>2, <4>1 DEF GetChipDev, OtherChip, TypeOK, Stay, request, port, before
    <3> QED BY <3>1, <3>2
  <2> QED BY <1>2, <2>1, <2>2, <2>3 DEF GetChipDev
<1>3. CASE GetLinehandle(t)
  <2>1. /\ fds' \subseteq Fds /\ held' \in [Fds -> SUBSET Lines] /\ lfd' \in [Threads -> Fds \cup {NoFd}]
        /\ leaked' \subseteq Fds /\ spoiled' \in BOOLEAN
    <3>1. Lines \in SUBSET Lines OBVIOUS
    <3>2. CASE \E d \in Fds : Hold(t, d, Lines)
      BY <3>1, <3>2 DEF Hold, TypeOK
    <3>3. CASE spoiled' = TRUE /\ UNCHANGED <<fds, held, leaked, lfd>>
      BY <3>3 DEF TypeOK
    <3> QED BY <1>3, <3>2, <3>3 DEF GetLinehandle
  <2> QED BY <1>3, <2>1 DEF GetLinehandle, TypeOK, port, loop, before, Stay, request
<1>4. CASE GetValues(t)
  <2>1. word' \in [Threads -> SUBSET Lines]
    <3>1. \A w \in SUBSET (Lines \ outs) : high \cup w \in SUBSET Lines BY DEF TypeOK
    <3> QED BY <1>4, <3>1 DEF GetValues, Fails, TypeOK
  <2> QED BY <1>4, <2>1 DEF GetValues, Fails, TypeOK, port, files, loop, before, Stay, request
<1>5. CASE GetLineinfo(t)
  <2>1. /\ i' \in [Threads -> 0 .. NLines] /\ seen' \in [Threads -> SUBSET Lines]
        /\ word' \in [Threads -> SUBSET Lines]
    <3>1. i[t] < NLines => i[t] + 1 \in 0 .. NLines BY NLinesAssumption, IntBitsAssumption DEF TypeOK
    <3>2. seen[t] \cup ({i[t]} \cap outs) \in SUBSET Lines BY DEF TypeOK
    <3> QED BY <1>5, <3>1, <3>2 DEF GetLineinfo, TypeOK
  <2> QED BY <1>5, <2>1 DEF GetLineinfo, Fails, TypeOK, port, files, before, Stay, request
<1>6. CASE SetIn(t)
  <2>1. CASE GoTo(t, "setOut") /\ UNCHANGED <<port, files, lfd, ret, before>>
    BY <1>6, <2>1 DEF SetIn, TypeOK, port, files, loop, before, Stay, request
  <2>2. CASE Request(t, ToInput(t), "closeIn", Float(t, ToInput(t)))
    <3>1. ToInput(t) \in SUBSET Lines BY DEF ToInput, TypeOK
    <3> QED BY <1>6, <2>2, <3>1, RequestType DEF SetIn
  <2> QED BY <1>6, <2>1, <2>2 DEF SetIn
<1>7. CASE SetOut(t)
  <2>1. CASE /\ ret' = [ret EXCEPT ![t] = "success"] /\ GoTo(t, "closeLine")
             /\ UNCHANGED <<port, files, lfd, before>>
    BY <1>7, <2>1 DEF SetOut, TypeOK, port, files, loop, before, Stay, request
  <2>2. CASE Request(t, ToOutput(t), "closeLine", Drive(t, ToOutput(t), {}))
    <3>1. ToOutput(t) \in SUBSET Lines /\ {} \in SUBSET Lines BY DEF ToOutput
    <3> QED BY <1>7, <2>2, <3>1, RequestType DEF SetOut
  <2> QED BY <1>7, <2>1, <2>2 DEF SetOut
<1>8. CASE SetLevels(t)
  <2>1. seen[t] \in SUBSET Lines /\ word[t] \in SUBSET Lines BY DEF TypeOK
  <2> QED BY <1>8, <2>1, RequestType DEF SetLevels
<1>9. CASE CloseLine(t)
  <2>1. fds' \subseteq Fds /\ held' \in [Fds -> SUBSET Lines] /\ leaked' \subseteq Fds /\ spoiled' \in BOOLEAN
    <3>1. lfd[t] \in Fds \cup {NoFd} BY DEF TypeOK
    <3> QED BY <1>9, <3>1, CloseFileType DEF CloseLine, files, TypeOK
  <2>2. CASE Forget(t) /\ GoTo(t, "closeChip")
    BY <1>9, <2>1, <2>2, ForgetType DEF CloseLine, LineClosed, TypeOK, port
  <2>3. CASE ~(Forget(t) /\ GoTo(t, "closeChip"))
    BY <1>9, <2>1, <2>3 DEF CloseLine, LineClosed, TypeOK, port, loop, before, Stay, request
  <2> QED BY <2>2, <2>3
<1>10. CASE CloseChip(t)
  <2>1. fds' \subseteq Fds /\ held' \in [Fds -> SUBSET Lines] /\ leaked' \subseteq Fds /\ spoiled' \in BOOLEAN
    <3>1. chip[t] \in Fds \cup {NoFd} BY DEF TypeOK
    <3> QED BY <1>10, <3>1, CloseFileType DEF CloseChip, TypeOK
  <2>2. CASE Return(t) BY <1>10, <2>1, <2>2, ReturnType DEF CloseChip
  <2>3. CASE GoesOn(t) /\ ~Return(t)
    <3>1. WrittenBack(t) \in SUBSET Lines BY SymDiffType DEF WrittenBack, TypeOK
    <3>2. then[t] \in Ops BY <2>3 DEF GoesOn, TypeOK, Ops
    <3>3. {} \in SUBSET Lines OBVIOUS
    <3> HIDE DEF WrittenBack
    <3>4. /\ op' \in [Threads -> Ops] /\ word' \in [Threads -> SUBSET Lines]
          /\ then' \in [Threads -> {"none", "setDirections", "setLevels"}]
          /\ i' \in [Threads -> 0 .. NLines] /\ seen' \in [Threads -> SUBSET Lines]
      BY <1>10, <2>3, <3>1, <3>2, <3>3, ConstantTypes DEF CloseChip, TypeOK
    <3>5. /\ pc' \in [Threads -> {"idle", "caps", "chip"} \cup UsesChip]
          /\ chip' \in [Threads -> Fds \cup {NoFd}]
          /\ ret' \in [Threads -> {"none", "success", "error"}]
      BY <1>10, <2>3 DEF CloseChip, TypeOK
    <3>6. UNCHANGED <<port, leaked, spoiled, andMask, xorMask, saysFalse, k, lfd, before>>
      BY <1>10, <2>3 DEF CloseChip
    <3> QED BY <2>1, <3>4, <3>5, <3>6 DEF TypeOK, port, before
  <2> QED BY <1>10, <2>2, <2>3 DEF CloseChip
<1> QED BY <1>1, <1>2, <1>3, <1>4, <1>5, <1>6, <1>7, <1>8, <1>9, <1>10 DEF Run

LEMMA TypeStep == TypeOK /\ [Next]_vars => TypeOK'
<1> SUFFICES ASSUME TypeOK, [Next]_vars PROVE TypeOK'
  OBVIOUS
<1>1. CASE UNCHANGED vars
  BY <1>1 DEF vars, port, files, request, loop, before, TypeOK
<1>2. ASSUME NEW t \in Threads, Call(t) PROVE TypeOK'
  BY <1>2, CallBegins, BeginType
<1>3. ASSUME NEW t \in Threads, Run(t) PROVE TypeOK'
  BY <1>3, RunType
<1> QED BY <1>1, <1>2, <1>3 DEF Next

\* The variables keep their types: whatever threads do to the port, only outputs
\* are driven, and a word never has a bit the port has not
\* (src/gpio_pins.c:249-503).
THEOREM ChipTypeCorrect == Spec => []TypeOK
  BY TypeInit, TypeStep, PTL DEF Spec

-----------------------------------------------------------------------------
\* A call nobody disturbs.  OnTrack is what a call keeps whatever the others do:
\* which operation is at which place, and where its loop starts.  The rest holds
\* while it is alone with the port: what its word is worth (WordRight), what it
\* has seen (SeenRight) and how far it has changed the port (PortRight).

OnTrack(t) ==
  /\ pc[t] \in {"idle", "caps", "chip", "probe", "closeProbe"} => i[t] = 0 /\ seen[t] = {}
  /\ then[t] = "setDirections" => op[t] = "getDirections"
  /\ then[t] = "setLevels" => op[t] = "getLevels"
  /\ saysFalse[t] => op[t] \in {"getLevels", "setLevels"}
  /\ pc[t] \in {"caps", "setIn", "closeIn", "setOut"} => op[t] = "setDirections"
  /\ pc[t] = "values" => op[t] = "getLevels"
  /\ pc[t] = "closeProbe" => op[t] # "getLevels"
  /\ pc[t] = "info" => op[t] # "getLevels"
  /\ pc[t] = "drive" => op[t] = "setLevels"
  /\ pc[t] \in {"idle", "caps", "chip", "probe", "closeProbe", "values", "info", "setIn", "drive"} =>
       ret[t] = "none"
  /\ pc[t] = "closeLine" => ret[t] \in {"success", "error"}

\* What is to be written is what was asked for; what was read is what was there.
WordRight(t) ==
  /\ high0[t] \subseteq outs0[t] /\ outs0[t] \subseteq Lines
  /\ op[t] = "setLevels" => word[t] \cap outs0[t] = Asked(t, high0[t]) \cap outs0[t]
  /\ op[t] = "setDirections" => word[t] = Asked(t, Lines \ outs0[t])
  /\ op[t] = "getLevels" /\ ret[t] = "success" => word[t] \cap outs0[t] = high0[t]
  /\ op[t] = "getDirections" /\ ret[t] = "success" => word[t] = Lines \ outs0[t]

SeenRight(t) ==
  /\ pc[t] = "info" => seen[t] = {l \in outs0[t] : l < i[t]}
  /\ pc[t] \in {"setIn", "closeIn", "setOut", "drive"} => seen[t] = outs0[t]

PortRight(t) ==
  /\ pc[t] \in {"caps", "chip", "probe", "values", "closeProbe", "info", "setIn", "drive"} => Untouched(t)
  /\ op[t] \in {"getDirections", "getLevels"} => Untouched(t)
  /\ pc[t] \in {"closeIn", "setOut"} => outs = outs0[t] \ word[t] /\ high = high0[t] \cap outs
  /\ pc[t] = "closeLine" /\ op[t] = "setDirections" /\ ret[t] = "success" =>
       outs = Lines \ word[t] /\ high = high0[t] \cap outs
  /\ pc[t] = "closeLine" /\ op[t] = "setDirections" /\ ret[t] = "error" =>
       outs \in {outs0[t], outs0[t] \ word[t]} /\ high = high0[t] \cap outs
  /\ pc[t] = "closeLine" /\ op[t] = "setLevels" /\ ret[t] = "success" =>
       outs = outs0[t] /\ high = word[t] \cap outs0[t]
  /\ pc[t] = "closeLine" /\ op[t] = "setLevels" /\ ret[t] = "error" => Untouched(t)

AloneRight(t) == alone[t] => pc[t] # "idle" /\ WordRight(t) /\ SeenRight(t) /\ PortRight(t)

CallsRight == \A t \in Threads : OnTrack(t) /\ AloneRight(t)

LEMMA CallsRightInit == Init => CallsRight
  BY DEF Init, CallsRight, OnTrack, AloneRight

\* At the end of what it does to the port the call has done what it was asked, or
\* what its error allows.
LEMMA EndsAsAsked ==
  ASSUME TypeOK, NEW t \in Threads, OnTrack(t), AloneRight(t), alone[t], Ends(t)
  PROVE  AsAsked(t, Answer(t))
<1> USE DEF OnTrack, AloneRight, WordRight, PortRight, Untouched
<1>1. op[t] \in Ops /\ saysFalse[t] \in BOOLEAN BY DEF TypeOK
<1>2. pc[t] \in {"closeLine", "caps", "chip"} BY DEF Ends
<1>3. Answer(t) \in {"success", "error"} BY DEF Answer
<1>4. CASE ret[t] = "success"
  <2>1. pc[t] = "closeLine" BY <1>2, <1>4
  <2>2. Done(t)
    <3>1. CASE op[t] = "setLevels" BY <1>4, <2>1, <3>1 DEF Done
    <3>2. CASE op[t] = "setDirections"
      <4>1. word[t] \subseteq Lines BY DEF TypeOK
      <4> QED BY <1>4, <2>1, <3>2, <4>1 DEF Done
    <3>3. CASE op[t] = "getLevels" BY <1>4, <2>1, <3>3 DEF Done
    <3>4. CASE op[t] = "getDirections" BY <1>4, <2>1, <3>4 DEF Done
    <3> QED BY <1>1, <3>1, <3>2, <3>3, <3>4 DEF Ops
  <2>3. Answer(t) = "success" \/ (Answer(t) = "error" /\ saysFalse[t]) BY <1>1, <1>4 DEF Answer
  <2> QED BY <2>2, <2>3 DEF AsAsked
<1>5. CASE ret[t] # "success"
  <2>1. Answer(t) = "error" BY <1>5 DEF Answer
  <2>2. CASE op[t] = "setDirections" /\ pc[t] = "closeLine"
    <3>1. word[t] = Asked(t, Lines \ outs0[t]) /\ outs \in {outs0[t], outs0[t] \ word[t]}
          /\ high = high0[t] \cap outs
      BY <1>5, <2>2
    <3>2. PartlyDirected(t) BY <3>1 DEF PartlyDirected
    <3>3. ~saysFalse[t] BY <2>2
    <3> QED BY <2>1, <2>2, <3>2, <3>3 DEF AsAsked
  <2>3. CASE ~(op[t] = "setDirections" /\ pc[t] = "closeLine")
    <3>1. Untouched(t) /\ high0[t] \subseteq outs0[t] BY <1>1, <1>2, <1>5, <2>3 DEF Ops
    <3>2. PartlyDirected(t) BY <3>1 DEF PartlyDirected
    <3> QED BY <1>1, <2>1, <3>1, <3>2 DEF AsAsked
  <2> QED BY <2>2, <2>3
<1> QED BY <1>4, <1>5

\* What a call has of its own, and what it may count on.
Frame(u) ==
  <<pc[u], op[u], then[u], andMask[u], xorMask[u], saysFalse[u], word[u], i[u], seen[u], ret[u]>>
Witness(u) == <<port, outs0[u], high0[u]>>

LEMMA ForgetElsewhere ==
  ASSUME TypeOK, NEW t \in Threads, NEW u \in Threads \ {t}, Forget(t),
         UNCHANGED pc \/ \E l : GoTo(t, l), UNCHANGED port
  PROVE  Frame(u)' = Frame(u) /\ (alone'[u] => alone[u] /\ Witness(u)' = Witness(u))
  BY DEF TypeOK, Forget, GoTo, Frame, Witness, port

LEMMA RequestElsewhere ==
  ASSUME TypeOK, NEW t \in Threads, NEW u \in Threads \ {t}, NEW ls, NEW w, NEW l,
         \/ Request(t, ls, l, Drive(t, ls, w)) \/ Request(t, ls, l, Float(t, ls)),
         UNCHANGED <<word, loop, chip>>, Stay(t)
  PROVE  Frame(u)' = Frame(u) /\ (alone'[u] => alone[u] /\ Witness(u)' = Witness(u))
<1> USE DEF Request, Stay, request, loop, GoTo
<1>1. Frame(u)' = Frame(u)
  BY DEF TypeOK, Frame, Fails
<1>2. CASE Disturbs(t)
  BY <1>1, <1>2 DEF Disturbs
<1>3. CASE UNCHANGED <<port, before>>
  BY <1>1, <1>3 DEF before, Witness
<1> QED BY <1>2, <1>3 DEF Drive, Float

\* A step of t leaves the frame of u alone; if it changes the port, u is no longer
\* alone.
LEMMA Bystander ==
  ASSUME TypeOK, NEW t \in Threads, NEW u \in Threads \ {t}, Call(t) \/ Run(t)
  PROVE  Frame(u)' = Frame(u) /\ (alone'[u] => alone[u] /\ Witness(u)' = Witness(u))
<1> USE DEF GoTo, Stay, request, loop, before
<1>1. CASE Call(t)
  BY <1>1, CallBegins DEF Begin, TypeOK, Frame, Witness, port
<1>2. CASE CheckCaps(t)
  BY <1>2, ForgetElsewhere DEF CheckCaps, Return, TypeOK, Frame, Witness, port
<1>3. CASE GetChipDev(t)
  <2>1. CASE Return(t)
    BY <1>3, <2>1, ForgetElsewhere DEF GetChipDev, Return
  <2>2. CASE UNCHANGED <<i, seen, word, before>> /\ Stay(t)
    <3>1. UNCHANGED port BY <1>3 DEF GetChipDev
    <3>2. UNCHANGED <<pc, ret>> \/ Return(t) \/ \E d \in Fds : ChipFound(t, d)
      BY <1>3 DEF GetChipDev, OtherChip
    <3>3. pc'[u] = pc[u] /\ ret'[u] = ret[u]
      BY <3>2 DEF ChipFound, Return, Forget, TypeOK
    <3> QED BY <2>2, <3>1, <3>3 DEF Frame, Witness
  <2> QED BY <1>3, <2>1, <2>2 DEF GetChipDev
<1>4. CASE GetLinehandle(t)
  BY <1>4 DEF GetLinehandle, Hold, TypeOK, Frame, Witness, port
<1>5. CASE GetValues(t)
  BY <1>5 DEF GetValues, Fails, TypeOK, Frame, Witness, port
<1>6. CASE GetLineinfo(t)
  BY <1>6 DEF GetLineinfo, Fails, TypeOK, Frame, Witness, port
<1>7. CASE SetIn(t)
  <2>1. CASE Request(t, ToInput(t), "closeIn", Float(t, ToInput(t)))
    BY <1>7, <2>1, RequestElsewhere DEF SetIn
  <2>2. CASE UNCHANGED <<port, ret, before>> /\ GoTo(t, "setOut")
    BY <1>7, <2>2 DEF SetIn, TypeOK, Frame, Witness, port
  <2> QED BY <1>7, <2>1, <2>2 DEF SetIn
<1>8. CASE SetOut(t)
  <2>1. CASE Request(t, ToOutput(t), "closeLine", Drive(t, ToOutput(t), {}))
    BY <1>8, <2>1, RequestElsewhere DEF SetOut
  <2>2. CASE UNCHANGED <<port, before>> /\ ret' = [ret EXCEPT ![t] = "success"] /\ GoTo(t, "closeLine")
    BY <1>8, <2>2 DEF SetOut, TypeOK, Frame, Witness, port
  <2> QED BY <1>8, <2>1, <2>2 DEF SetOut
<1>9. CASE SetLevels(t)
  BY <1>9, RequestElsewhere DEF SetLevels
<1>10. CASE CloseLine(t)
  <2>1. CASE Forget(t) /\ GoTo(t, "closeChip")
    BY <1>10, <2>1, ForgetElsewhere DEF CloseLine, LineClosed
  <2>2. CASE ~(Forget(t) /\ GoTo(t, "closeChip"))
    BY <1>10, <2>2 DEF CloseLine, LineClosed, TypeOK, Frame, Witness, port
  <2> QED BY <2>1, <2>2
<1>11. CASE CloseChip(t)
  <2>1. CASE Return(t)
    BY <1>11, <2>1, ForgetElsewhere DEF CloseChip, Return
  <2>2. CASE ~Return(t)
    BY <1>11, <2>2 DEF CloseChip, TypeOK, Frame, Witness, port
  <2> QED BY <2>1, <2>2
<1> QED
  BY <1>1, <1>2, <1>3, <1>4, <1>5, <1>6, <1>7, <1>8, <1>9, <1>10, <1>11 DEF Run

LEMMA BystanderRight ==
  ASSUME NEW u \in Threads, OnTrack(u), AloneRight(u), Frame(u)' = Frame(u),
         alone'[u] => alone[u] /\ Witness(u)' = Witness(u)
  PROVE  OnTrack(u)' /\ AloneRight(u)'
<1>1. OnTrack(u)'
  BY DEF OnTrack, Frame
<1>2. CASE alone'[u]
  <2>1. /\ alone[u] /\ outs' = outs /\ high' = high /\ outs0'[u] = outs0[u] /\ high0'[u] = high0[u]
        /\ pc'[u] = pc[u] /\ op'[u] = op[u] /\ andMask'[u] = andMask[u] /\ xorMask'[u] = xorMask[u]
        /\ word'[u] = word[u] /\ i'[u] = i[u] /\ seen'[u] = seen[u] /\ ret'[u] = ret[u]
    BY <1>2 DEF Frame, Witness, port
  <2>2. WordRight(u)' BY <2>1 DEF AloneRight, WordRight, Asked
  <2>3. SeenRight(u)' BY <2>1 DEF AloneRight, SeenRight
  <2>4. PortRight(u)' BY <2>1 DEF AloneRight, PortRight, Untouched
  <2> QED BY <1>1, <2>1, <2>2, <2>3, <2>4 DEF AloneRight
<1> QED BY <1>1, <1>2 DEF AloneRight

LEMMA NoDifference == \A x : SymDiff({}, x) = x
  BY DEF SymDiff

LEMMA BeginRight ==
  ASSUME TypeOK, NEW t \in Threads, OnTrack(t), Call(t)
  PROVE  OnTrack(t)' /\ AloneRight(t)'
<1>1. PICK l \in {"caps", "chip"}, o \in Ops, nx \in {"none", "setDirections", "setLevels"},
           a \in SUBSET Lines, x \in SUBSET Lines, f \in BOOLEAN :
             /\ Begin(t, l, o, nx, a, x, f)
             /\ nx = "none" => a = {}
             /\ nx = "setDirections" => o = "getDirections"
             /\ nx = "setLevels" => o = "getLevels"
             /\ l = "caps" <=> o = "setDirections"
             /\ f => nx = "setLevels"
  BY CallBegins
<1>2. /\ pc[t] = "idle" /\ pc'[t] = l /\ op'[t] = o /\ then'[t] = nx
      /\ andMask'[t] = a /\ xorMask'[t] = x /\ saysFalse'[t] = f
      /\ word'[t] = (IF nx = "none" THEN x ELSE {})
      /\ outs0'[t] = outs /\ high0'[t] = high
      /\ i'[t] = i[t] /\ seen'[t] = seen[t] /\ ret'[t] = ret[t]
      /\ outs' = outs /\ high' = high
  BY <1>1 DEF Begin, GoTo, TypeOK, loop, port
<1>3. OnTrack(t)'
  BY <1>1, <1>2 DEF OnTrack
<1>4. WordRight(t)'
  <2>1. ret'[t] = "none" BY <1>2 DEF OnTrack
  <2>2. high0'[t] \subseteq outs0'[t] /\ outs0'[t] \subseteq Lines BY <1>2 DEF TypeOK
  <2>3. op'[t] \in {"setLevels", "setDirections"} => nx = "none" /\ a = {} /\ word'[t] = x
    BY <1>1, <1>2
  <2>4. nx = "none" /\ a = {} => \A b : SymDiff(b \cap a, x) = x
    BY NoDifference
  <2> QED BY <1>2, <2>1, <2>2, <2>3, <2>4 DEF WordRight, Asked
<1>5. SeenRight(t)' BY <1>2 DEF SeenRight
<1>6. PortRight(t)' BY <1>2 DEF PortRight, Untouched
<1> QED BY <1>2, <1>3, <1>4, <1>5, <1>6 DEF AloneRight

\* A call that is over is not alone with anything.
LEMMA ForgetRight ==
  ASSUME TypeOK, NEW t \in Threads, Forget(t), NEW l \in {"idle", "closeChip"}, GoTo(t, l)
  PROVE  OnTrack(t)' /\ AloneRight(t)'
<1>1. /\ pc'[t] = l /\ ~alone'[t] /\ i'[t] = 0 /\ seen'[t] = {}
      /\ then'[t] = "none" /\ op'[t] = "getLevels" /\ ret'[t] = "none" /\ ~saysFalse'[t]
  BY DEF Forget, GoTo, TypeOK
<1> QED BY <1>1 DEF OnTrack, AloneRight

\* A step that goes on with the same word, and touches no line.
LEMMA GoesOnRight ==
  ASSUME TypeOK, NEW t \in Threads, OnTrack(t), AloneRight(t), NEW l \in UsesChip \cup {"chip"},
         pc' = [pc EXCEPT ![t] = l], UNCHANGED <<op, request, word, ret, i, seen, port, before>>,
         \/ pc[t] = "caps" /\ l = "chip"
         \/ pc[t] = "chip" /\ l = "probe" /\ op[t] # "setLevels"
         \/ pc[t] = "chip" /\ l = "info" /\ op[t] = "setLevels"
         \/ pc[t] = "probe" /\ l = "values" /\ op[t] = "getLevels"
         \/ pc[t] = "probe" /\ l = "closeProbe" /\ op[t] # "getLevels"
         \/ pc[t] = "closeProbe" /\ l = "info"
         \/ pc[t] = "info" /\ i[t] = NLines /\ l = "setIn" /\ op[t] = "setDirections"
         \/ pc[t] = "info" /\ i[t] = NLines /\ l = "drive" /\ op[t] = "setLevels"
         \/ pc[t] = "closeIn" /\ l = "setOut"
         \/ pc[t] = "setIn" /\ l = "setOut" /\ word[t] \cap seen[t] = {}
         \/ pc[t] = "closeLine" /\ l = "closeChip" /\ GoesOn(t)
  PROVE  OnTrack(t)' /\ AloneRight(t)'
<1>1. /\ pc'[t] = l /\ op'[t] = op[t] /\ then'[t] = then[t]
      /\ andMask'[t] = andMask[t] /\ xorMask'[t] = xorMask[t] /\ saysFalse'[t] = saysFalse[t]
      /\ word'[t] = word[t] /\ ret'[t] = ret[t] /\ i'[t] = i[t] /\ seen'[t] = seen[t]
      /\ outs' = outs /\ high' = high /\ alone'[t] = alone[t]
      /\ outs0'[t] = outs0[t] /\ high0'[t] = high0[t]
  BY DEF TypeOK, request, port, before
<1>2. OnTrack(t)'
  BY <1>1 DEF OnTrack
<1>3. ASSUME alone[t] PROVE WordRight(t)' /\ SeenRight(t)' /\ PortRight(t)'
  <2>a. WordRight(t) /\ SeenRight(t) /\ PortRight(t)
    BY <1>3 DEF AloneRight
  <2>1. WordRight(t)' BY <1>1, <2>a DEF WordRight, Asked
  <2>2. SeenRight(t)'
    <3>1. CASE pc[t] = "info"
      <4>1. {m \in outs0[t] : m < i[t]} = outs0[t] \/ i[t] # NLines
        BY <2>a, NLinesAssumption, IntBitsAssumption DEF WordRight, Lines
      <4> QED BY <1>1, <2>a, <3>1, <4>1 DEF SeenRight
    <3>2. CASE l = "info"
      <4>1. i[t] = 0 /\ seen[t] = {} BY <3>2 DEF OnTrack
      <4>2. {m \in outs0[t] : m < 0} = {} BY <2>a, NLinesAssumption, IntBitsAssumption DEF WordRight, Lines
      <4> QED BY <1>1, <3>2, <4>1, <4>2 DEF SeenRight
    <3>3. CASE pc[t] # "info" /\ l # "info"
      BY <1>1, <2>a, <3>3 DEF SeenRight
    <3> QED BY <3>1, <3>2, <3>3
  <2>3. PortRight(t)'
    <3>1. CASE pc[t] = "setIn"
      <4>1. outs = outs0[t] /\ high = high0[t] /\ word[t] \cap outs0[t] = {} /\ high0[t] \subseteq outs0[t]
            /\ l = "setOut" /\ op[t] = "setDirections"
        BY <2>a, <3>1 DEF WordRight, SeenRight, PortRight, Untouched, OnTrack
      <4>2. outs0[t] \ word[t] = outs0[t] /\ high0[t] \cap outs0[t] = high0[t]
        BY <4>1
      <4> QED BY <1>1, <4>1, <4>2 DEF PortRight, Untouched
    <3>2. CASE pc[t] = "closeIn"
      BY <1>1, <2>a, <3>2 DEF PortRight, Untouched, OnTrack
    <3>3. CASE pc[t] = "closeLine"
      <4>1. op[t] \in {"getDirections", "getLevels"}
        BY <3>3 DEF GoesOn, OnTrack, TypeOK
      <4> QED BY <1>1, <2>a, <3>3, <4>1 DEF PortRight, Untouched
    <3>4. CASE pc[t] \in {"caps", "chip", "probe", "closeProbe", "info"}
      <4>1. Untouched(t) BY <2>a, <3>4 DEF PortRight
      <4>2. l \notin {"closeIn", "setOut", "closeLine"} BY <3>4
      <4> QED BY <1>1, <4>1, <4>2 DEF PortRight, Untouched
    <3> QED BY <3>1, <3>2, <3>3, <3>4
  <2> QED BY <2>1, <2>2, <2>3
<1>4. l # "idle" BY DEF UsesChip, UsesLine
<1> QED BY <1>1, <1>2, <1>3, <1>4 DEF AloneRight

\* The chip is looked at.
LEMMA GetChipDevRight ==
  ASSUME TypeOK, NEW t \in Threads, OnTrack(t), AloneRight(t), GetChipDev(t)
  PROVE  OnTrack(t)' /\ AloneRight(t)'
<1>1. CASE Return(t) BY <1>1, ForgetRight DEF Return
<1>2. CASE UNCHANGED <<pc, ret, i, seen, word, before>> /\ Stay(t)
  <2>1. Frame(t)' = Frame(t) /\ alone'[t] = alone[t] /\ Witness(t)' = Witness(t)
    BY <1>2 DEF GetChipDev, Frame, Witness, Stay, request, before
  <2> QED BY <2>1, BystanderRight
<1>3. CASE \E d \in Fds : ChipFound(t, d) /\ UNCHANGED <<i, seen, word, before>> /\ Stay(t)
  <2> DEFINE l == IF op[t] = "setLevels" THEN "info" ELSE "probe"
  <2>1. /\ pc[t] = "chip" /\ pc' = [pc EXCEPT ![t] = l]
        /\ UNCHANGED <<op, request, word, ret, i, seen, port, before>>
    BY <1>3 DEF GetChipDev, ChipFound, GoTo, Stay, before
  <2>2. l \in UsesChip BY DEF UsesChip
  <2> QED BY <2>1, <2>2, GoesOnRight
<1> QED BY <1>1, <1>2, <1>3 DEF GetChipDev, OtherChip

LEMMA GetLinehandleRight ==
  ASSUME TypeOK, NEW t \in Threads, OnTrack(t), AloneRight(t), GetLinehandle(t)
  PROVE  OnTrack(t)' /\ AloneRight(t)'
<1> DEFINE l == IF op[t] = "getLevels" THEN "values" ELSE "closeProbe"
<1>1. /\ pc[t] = "probe" /\ pc' = [pc EXCEPT ![t] = l]
      /\ UNCHANGED <<op, request, word, ret, i, seen, port, before>>
  BY DEF GetLinehandle, GoTo, Stay, loop
<1>2. l \in UsesChip BY DEF UsesChip, UsesLine
<1> QED BY <1>1, <1>2, GoesOnRight

\* The call has its answer or an error, and touches no line.
LEMMA AnswerRight ==
  ASSUME TypeOK, NEW t \in Threads, OnTrack(t), AloneRight(t),
         pc' = [pc EXCEPT ![t] = "closeLine"],
         NEW r \in {"success", "error"}, ret' = [ret EXCEPT ![t] = r],
         UNCHANGED <<op, request, i, seen, port, before>>,
         \A u \in Threads \ {t} : word'[u] = word[u],
         \/ /\ pc[t] = "values" /\ r = "success" /\ word'[t] \cap outs = high
         \/ /\ pc[t] = "info" /\ r = "success" /\ op[t] = "getDirections" /\ i[t] = NLines
            /\ word'[t] = Lines \ seen[t]
         \/ /\ pc[t] \in {"values", "info", "setIn", "drive"} /\ r = "error" /\ word'[t] = word[t]
  PROVE  OnTrack(t)' /\ AloneRight(t)'
<1>1. /\ pc'[t] = "closeLine" /\ op'[t] = op[t] /\ then'[t] = then[t]
      /\ andMask'[t] = andMask[t] /\ xorMask'[t] = xorMask[t] /\ saysFalse'[t] = saysFalse[t]
      /\ ret'[t] = r /\ i'[t] = i[t] /\ seen'[t] = seen[t]
      /\ outs' = outs /\ high' = high /\ alone'[t] = alone[t]
      /\ outs0'[t] = outs0[t] /\ high0'[t] = high0[t]
  BY DEF TypeOK, request, port, before
<1>2. OnTrack(t)' BY <1>1 DEF OnTrack
<1>3. ASSUME alone[t] PROVE WordRight(t)' /\ SeenRight(t)' /\ PortRight(t)'
  <2>a. WordRight(t) /\ SeenRight(t) /\ PortRight(t)
    BY <1>3 DEF AloneRight
  <2>b. Untouched(t) BY <2>a DEF PortRight
  <2>1. SeenRight(t)' BY <1>1 DEF SeenRight
  <2>2. WordRight(t)'
    <3>1. CASE r = "error"
      <4>1. word'[t] = word[t] BY <3>1
      <4> QED BY <1>1, <2>a, <3>1, <4>1 DEF WordRight, Asked
    <3>2. CASE pc[t] = "values" /\ r = "success"
      <4>1. op[t] = "getLevels" /\ word'[t] \cap outs0[t] = high0[t]
        BY <2>b, <3>2 DEF OnTrack, Untouched
      <4> QED BY <1>1, <2>a, <4>1 DEF WordRight
    <3>3. CASE pc[t] = "info" /\ r = "success"
      <4>1. op[t] = "getDirections" /\ word'[t] = Lines \ seen[t] /\ i[t] = NLines
        BY <3>3
      <4>2. {m \in outs0[t] : m < NLines} = outs0[t]
        BY <2>a, NLinesAssumption, IntBitsAssumption DEF WordRight, Lines
      <4>3. seen[t] = outs0[t]
        BY <2>a, <3>3, <4>1, <4>2 DEF SeenRight
      <4> QED BY <1>1, <2>a, <4>1, <4>3 DEF WordRight
    <3> QED BY <3>1, <3>2, <3>3
  <2>3. PortRight(t)'
    <3>1. op[t] \in {"setDirections", "setLevels"} => r = "error"
      BY DEF OnTrack
    <3>2. high0[t] \cap outs0[t] = high0[t] BY <2>a DEF WordRight
    <3> QED BY <1>1, <2>b, <3>1, <3>2 DEF PortRight, Untouched
  <2> QED BY <2>1, <2>2, <2>3
<1> QED BY <1>1, <1>2, <1>3 DEF AloneRight

LEMMA GetValuesRight ==
  ASSUME TypeOK, NEW t \in Threads, OnTrack(t), AloneRight(t), GetValues(t)
  PROVE  OnTrack(t)' /\ AloneRight(t)'
<1>1. pc[t] = "values" /\ UNCHANGED <<op, request, i, seen, port, before>>
  BY DEF GetValues, Stay, loop
<1>2. CASE /\ \E w \in SUBSET (Lines \ outs) : word' = [word EXCEPT ![t] = high \cup w]
           /\ ret' = [ret EXCEPT ![t] = "success"] /\ GoTo(t, "closeLine")
  <2>1. word'[t] \cap outs = high /\ \A u \in Threads \ {t} : word'[u] = word[u]
    BY <1>2 DEF TypeOK
  <2> QED BY <1>1, <1>2, <2>1, AnswerRight DEF GoTo
<1>3. CASE Fails(t, "closeLine") /\ UNCHANGED word
  BY <1>1, <1>3, AnswerRight DEF Fails, GoTo
<1> QED BY <1>2, <1>3 DEF GetValues

\* One more line is looked at.
LEMMA LineSeen ==
  ASSUME TypeOK, NEW t \in Threads, OnTrack(t), AloneRight(t), pc[t] = "info",
         i' = [i EXCEPT ![t] = @ + 1],
         seen' = [seen EXCEPT ![t] = @ \cup ({i[t]} \cap outs)],
         UNCHANGED <<pc, op, request, word, ret, port, before>>
  PROVE  OnTrack(t)' /\ AloneRight(t)'
<1>1. /\ pc'[t] = "info" /\ op'[t] = op[t] /\ then'[t] = then[t]
      /\ andMask'[t] = andMask[t] /\ xorMask'[t] = xorMask[t] /\ saysFalse'[t] = saysFalse[t]
      /\ word'[t] = word[t] /\ ret'[t] = ret[t]
      /\ i'[t] = i[t] + 1 /\ seen'[t] = seen[t] \cup ({i[t]} \cap outs)
      /\ outs' = outs /\ high' = high /\ alone'[t] = alone[t]
      /\ outs0'[t] = outs0[t] /\ high0'[t] = high0[t]
  BY DEF TypeOK, request, port, before
<1>2. OnTrack(t)' BY <1>1 DEF OnTrack
<1>3. ASSUME alone[t] PROVE WordRight(t)' /\ SeenRight(t)' /\ PortRight(t)'
  <2>a. WordRight(t) /\ SeenRight(t) /\ PortRight(t)
    BY <1>3 DEF AloneRight
  <2>1. WordRight(t)' BY <1>1, <2>a DEF WordRight, Asked
  <2>2. PortRight(t)' BY <1>1, <2>a DEF PortRight, Untouched
  <2>3. outs = outs0[t] BY <2>a DEF PortRight, Untouched
  <2>4. i[t] \in Int /\ outs0[t] \subseteq Int
    BY <2>a, NLinesAssumption, IntBitsAssumption DEF TypeOK, WordRight, Lines
  <2>5. {m \in outs0[t] : m < i[t] + 1} = {m \in outs0[t] : m < i[t]} \cup ({i[t]} \cap outs0[t])
    BY <2>4
  <2>6. SeenRight(t)' BY <1>1, <2>a, <2>3, <2>5 DEF SeenRight
  <2> QED BY <2>1, <2>2, <2>6
<1> QED BY <1>1, <1>2, <1>3 DEF AloneRight

LEMMA GetLineinfoRight ==
  ASSUME TypeOK, NEW t \in Threads, OnTrack(t), AloneRight(t), GetLineinfo(t)
  PROVE  OnTrack(t)' /\ AloneRight(t)'
<1>1. pc[t] = "info" /\ UNCHANGED <<op, request, port, before>>
  BY DEF GetLineinfo, Stay
<1>2. CASE /\ i' = [i EXCEPT ![t] = @ + 1]
           /\ seen' = [seen EXCEPT ![t] = @ \cup ({i[t]} \cap outs)]
           /\ UNCHANGED <<pc, word, ret>>
  BY <1>1, <1>2, LineSeen
<1>3. CASE Fails(t, "closeLine") /\ UNCHANGED <<i, seen, word>>
  BY <1>1, <1>3, AnswerRight DEF Fails, GoTo
<1>4. CASE /\ i[t] = NLines /\ op[t] = "getDirections" /\ UNCHANGED <<i, seen>>
           /\ word' = [word EXCEPT ![t] = Lines \ seen[t]]
           /\ ret' = [ret EXCEPT ![t] = "success"] /\ GoTo(t, "closeLine")
  <2>1. word'[t] = Lines \ seen[t] /\ \A u \in Threads \ {t} : word'[u] = word[u]
    BY <1>4 DEF TypeOK
  <2> QED BY <1>1, <1>4, <2>1, AnswerRight DEF GoTo
<1>5. CASE /\ i[t] = NLines /\ UNCHANGED <<word, ret, i, seen>>
           /\ \/ op[t] = "setDirections" /\ GoTo(t, "setIn")
              \/ op[t] = "setLevels" /\ GoTo(t, "drive")
  <2>1. {"setIn", "drive"} \subseteq UsesChip BY DEF UsesChip
  <2> QED BY <1>1, <1>5, <2>1, GoesOnRight DEF GoTo
<1> QED BY <1>2, <1>3, <1>4, <1>5 DEF GetLineinfo

\* A request has been made; this is what it comes to for the call itself.
LEMMA Changed ==
  ASSUME TypeOK, NEW t \in Threads, OnTrack(t), AloneRight(t), Disturbs(t) \/ UNCHANGED before,
         NEW l \in {"closeIn", "closeLine"}, GoTo(t, l), NEW r \in {"success", "error"},
         ret' = [ret EXCEPT ![t] = r],
         UNCHANGED <<op, request, word, i, seen>>,
         op[t] \in {"setDirections", "setLevels"}, pc[t] # "idle",
         l = "closeIn" => op[t] = "setDirections",
         alone[t] => /\ l = "closeIn" => seen[t] = outs0[t]
                     /\ op[t] = "setLevels" /\ r = "error" =>
                          outs' = outs0[t] /\ high' = high0[t]
                     /\ op[t] = "setLevels" /\ r = "success" =>
                          outs' = outs0[t] /\ high' = word[t] \cap outs0[t]
                     /\ op[t] = "setDirections" => high' = high0[t] \cap outs'
                     /\ l = "closeIn" => outs' = outs0[t] \ word[t]
                     /\ op[t] = "setDirections" /\ l = "closeLine" /\ r = "success" => outs' = Lines \ word[t]
                     /\ op[t] = "setDirections" /\ l = "closeLine" /\ r = "error" =>
                          outs' \in {outs0[t], outs0[t] \ word[t]}
  PROVE  OnTrack(t)' /\ AloneRight(t)'
<1>1. /\ pc'[t] = l /\ op'[t] = op[t] /\ then'[t] = then[t]
      /\ andMask'[t] = andMask[t] /\ xorMask'[t] = xorMask[t] /\ saysFalse'[t] = saysFalse[t]
      /\ word'[t] = word[t] /\ ret'[t] = r /\ i'[t] = i[t] /\ seen'[t] = seen[t]
      /\ alone'[t] = alone[t] /\ outs0'[t] = outs0[t] /\ high0'[t] = high0[t]
  BY DEF TypeOK, GoTo, Disturbs, request, before
<1>2. OnTrack(t)' BY <1>1 DEF OnTrack
<1>3. ASSUME alone[t] PROVE WordRight(t)' /\ SeenRight(t)' /\ PortRight(t)'
  <2>1. WordRight(t)'
    <3>1. WordRight(t) BY <1>3 DEF AloneRight
    <3> QED BY <1>1, <3>1 DEF WordRight, Asked
  <2>2. SeenRight(t)' BY <1>1, <1>3 DEF SeenRight
  <2>3. PortRight(t)' BY <1>1, <1>3 DEF PortRight, Untouched
  <2> QED BY <2>1, <2>2, <2>3
<1> QED BY <1>1, <1>2, <1>3 DEF AloneRight

LEMMA SetInRight ==
  ASSUME TypeOK, NEW t \in Threads, OnTrack(t), AloneRight(t), SetIn(t)
  PROVE  OnTrack(t)' /\ AloneRight(t)'
<1>1. /\ pc[t] = "setIn" /\ op[t] = "setDirections"
      /\ UNCHANGED <<op, request, word, i, seen>>
  BY DEF SetIn, OnTrack, Stay, loop
<1>2. CASE ToInput(t) = {} /\ GoTo(t, "setOut") /\ UNCHANGED <<port, files, lfd, ret, before>>
  <2>1. "setOut" \in UsesChip BY DEF UsesChip
  <2> QED BY <1>1, <1>2, <2>1, GoesOnRight DEF GoTo, ToInput
<1>3. CASE Fails(t, "closeLine") /\ UNCHANGED <<port, before>>
  BY <1>1, <1>3, AnswerRight DEF Fails, GoTo
<1>4. CASE /\ Float(t, ToInput(t)) /\ ret' = [ret EXCEPT ![t] = "success"] /\ GoTo(t, "closeIn")
  <2>1. ASSUME alone[t]
        PROVE  outs' = outs0[t] \ word[t] /\ high' = high0[t] \cap outs' /\ seen[t] = outs0[t]
    <3>1. /\ seen[t] = outs0[t] /\ outs = outs0[t] /\ high = high0[t]
          /\ high0[t] \subseteq outs0[t]
      BY <1>1, <2>1 DEF AloneRight, WordRight, SeenRight, PortRight, Untouched
    <3>2. outs' = outs \ (word[t] \cap seen[t]) /\ high' = high \ (word[t] \cap seen[t])
      BY <1>4 DEF Float, ToInput
    <3> QED BY <3>1, <3>2
  <2> QED BY <1>1, <1>4, <2>1, Changed DEF Float
<1> QED BY <1>2, <1>3, <1>4 DEF SetIn, Request

LEMMA SetOutRight ==
  ASSUME TypeOK, NEW t \in Threads, OnTrack(t), AloneRight(t), SetOut(t)
  PROVE  OnTrack(t)' /\ AloneRight(t)'
<1>1. /\ pc[t] = "setOut" /\ op[t] = "setDirections"
      /\ UNCHANGED <<op, request, word, i, seen>>
  BY DEF SetOut, OnTrack, Stay, loop
<1>2. ASSUME alone[t]
      PROVE  /\ seen[t] = outs0[t] /\ outs = outs0[t] \ word[t] /\ high = high0[t] \cap outs
             /\ high0[t] \subseteq outs0[t] /\ outs0[t] \subseteq Lines
  BY <1>1, <1>2 DEF AloneRight, WordRight, SeenRight, PortRight
<1>3. ToOutput(t) = (Lines \ word[t]) \ seen[t]
  BY DEF ToOutput
<1>4. CASE /\ ToOutput(t) = {} /\ ret' = [ret EXCEPT ![t] = "success"] /\ GoTo(t, "closeLine")
           /\ UNCHANGED <<port, files, lfd, before>>
  <2>1. alone[t] => outs' = Lines \ word[t] /\ high' = high0[t] \cap outs'
    BY <1>2, <1>3, <1>4 DEF port
  <2> QED BY <1>1, <1>4, <2>1, Changed
<1>5. CASE Fails(t, "closeLine") /\ UNCHANGED <<port, before>>
  <2>1. alone[t] => outs' = outs0[t] \ word[t] /\ high' = high0[t] \cap outs'
    BY <1>2, <1>5 DEF port
  <2> QED BY <1>1, <1>5, <2>1, Changed DEF Fails
<1>6. CASE /\ Drive(t, ToOutput(t), {}) /\ ret' = [ret EXCEPT ![t] = "success"]
           /\ GoTo(t, "closeLine")
  <2>1. outs' = outs \cup ToOutput(t) /\ high' = high \ ToOutput(t)
    BY <1>6 DEF Drive
  <2>2. alone[t] => outs' = Lines \ word[t] /\ high' = high0[t] \cap outs'
    BY <1>2, <1>3, <2>1
  <2> QED BY <1>1, <1>6, <2>2, Changed DEF Drive
<1> QED BY <1>4, <1>5, <1>6 DEF SetOut, Request

LEMMA SetLevelsRight ==
  ASSUME TypeOK, NEW t \in Threads, OnTrack(t), AloneRight(t), SetLevels(t)
  PROVE  OnTrack(t)' /\ AloneRight(t)'
<1>1. /\ pc[t] = "drive" /\ op[t] = "setLevels"
      /\ UNCHANGED <<op, request, word, i, seen>>
  BY DEF SetLevels, OnTrack, Stay, loop
<1>2. CASE Fails(t, "closeLine") /\ UNCHANGED <<port, before>>
  BY <1>1, <1>2, AnswerRight DEF Fails, GoTo
<1>3. CASE /\ Drive(t, seen[t], word[t]) /\ ret' = [ret EXCEPT ![t] = "success"]
           /\ GoTo(t, "closeLine")
  <2>1. ASSUME alone[t]
        PROVE  outs' = outs0[t] /\ high' = word[t] \cap outs0[t]
    <3>1. /\ seen[t] = outs0[t] /\ outs = outs0[t] /\ high = high0[t]
          /\ high0[t] \subseteq outs0[t]
      BY <1>1, <2>1 DEF AloneRight, WordRight, SeenRight, PortRight, Untouched
    <3>2. outs' = outs \cup seen[t] /\ high' = (high \ seen[t]) \cup (word[t] \cap seen[t])
      BY <1>3 DEF Drive
    <3> QED BY <3>1, <3>2
  <2> QED BY <1>1, <1>3, <2>1, Changed DEF Drive
<1> QED BY <1>2, <1>3 DEF SetLevels, Request

LEMMA CloseLineRight ==
  ASSUME TypeOK, NEW t \in Threads, OnTrack(t), AloneRight(t), CloseLine(t)
  PROVE  OnTrack(t)' /\ AloneRight(t)'
<1>1. CASE Forget(t) /\ GoTo(t, "closeChip") BY <1>1, ForgetRight
<1>2. CASE ~(Forget(t) /\ GoTo(t, "closeChip"))
  <2>1. PICK l \in {"info", "setOut", "closeChip"} :
          /\ pc' = [pc EXCEPT ![t] = l]
          /\ \/ pc[t] = "closeProbe" /\ l = "info"
             \/ pc[t] = "closeIn" /\ l = "setOut"
             \/ pc[t] = "closeLine" /\ l = "closeChip" /\ GoesOn(t)
    BY <1>2 DEF CloseLine, LineClosed, GoTo
  <2>2. UNCHANGED <<op, request, word, ret, i, seen, port, before>>
    BY <1>2 DEF CloseLine, LineClosed, Stay, loop
  <2>3. l \in UsesChip BY DEF UsesChip
  <2> QED BY <2>1, <2>2, <2>3, GoesOnRight
<1> QED BY <1>1, <1>2

\* A wrapper's call that has read writes back what it was asked for.
LEMMA WritesBack ==
  ASSUME TypeOK, NEW t \in Threads, OnTrack(t), AloneRight(t), CloseChip(t), GoesOn(t), ~Return(t)
  PROVE  OnTrack(t)' /\ AloneRight(t)'
<1> DEFINE l == IF then[t] = "setDirections" THEN "caps" ELSE "chip"
<1>1. /\ pc[t] = "closeChip" /\ pc'[t] = l /\ op'[t] = then[t] /\ then'[t] = "none"
      /\ word'[t] = SymDiff(word[t] \cap andMask[t], xorMask[t])
      /\ i'[t] = 0 /\ seen'[t] = {} /\ ret'[t] = "none"
      /\ andMask'[t] = andMask[t] /\ xorMask'[t] = xorMask[t] /\ saysFalse'[t] = saysFalse[t]
      /\ alone'[t] = alone[t] /\ outs0'[t] = outs0[t] /\ high0'[t] = high0[t]
      /\ outs' = outs /\ high' = high
  BY DEF CloseChip, TypeOK, GoTo, WrittenBack, before, port
<1>2. /\ then[t] \in {"setDirections", "setLevels"} /\ ret[t] = "success"
      /\ then[t] = "setDirections" => op[t] = "getDirections"
      /\ then[t] = "setLevels" => op[t] = "getLevels"
  BY DEF GoesOn, OnTrack, TypeOK
<1>3. OnTrack(t)' BY <1>1, <1>2 DEF OnTrack
<1>4. ASSUME alone[t] PROVE WordRight(t)' /\ SeenRight(t)' /\ PortRight(t)'
  <2>1. WordRight(t) /\ Untouched(t)
    BY <1>2, <1>4 DEF AloneRight, PortRight
  <2>2. WordRight(t)'
    <3>1. CASE then[t] = "setDirections"
      <4>1. word[t] = Lines \ outs0[t] BY <1>2, <2>1, <3>1 DEF WordRight
      <4> QED BY <1>1, <2>1, <3>1, <4>1 DEF WordRight, Asked
    <3>2. CASE then[t] = "setLevels"
      <4>1. word[t] \cap outs0[t] = high0[t] \cap outs0[t] BY <1>2, <2>1, <3>2 DEF WordRight
      <4>2. SymDiff(word[t] \cap andMask[t], xorMask[t]) \cap outs0[t]
              = SymDiff(high0[t] \cap andMask[t], xorMask[t]) \cap outs0[t]
        BY <4>1 DEF SymDiff
      <4> QED BY <1>1, <2>1, <3>2, <4>2 DEF WordRight, Asked
    <3> QED BY <1>2, <3>1, <3>2
  <2>3. SeenRight(t)' BY <1>1 DEF SeenRight
  <2>4. PortRight(t)' BY <1>1, <2>1 DEF PortRight, Untouched
  <2> QED BY <2>2, <2>3, <2>4
<1> QED BY <1>1, <1>3, <1>4 DEF AloneRight

LEMMA RunRight ==
  ASSUME TypeOK, NEW t \in Threads, OnTrack(t), AloneRight(t), Run(t)
  PROVE  OnTrack(t)' /\ AloneRight(t)'
<1>1. CASE CheckCaps(t)
  <2>1. CASE Return(t) BY <2>1, ForgetRight DEF Return
  <2>2. CASE GoTo(t, "chip") /\ UNCHANGED <<op, request, word, loop, ret, before>>
    BY <1>1, <2>2, GoesOnRight DEF CheckCaps, GoTo, loop
  <2> QED BY <1>1, <2>1, <2>2 DEF CheckCaps
<1>2. CASE CloseChip(t)
  <2>1. CASE Return(t) BY <2>1, ForgetRight DEF Return
  <2> QED BY <1>2, <2>1, WritesBack DEF CloseChip
<1> QED
  BY <1>1, <1>2, GetChipDevRight, GetLinehandleRight, GetValuesRight, GetLineinfoRight,
     SetInRight, SetOutRight, SetLevelsRight, CloseLineRight DEF Run

LEMMA CallsRightStep == TypeOK /\ CallsRight /\ [Next]_vars => CallsRight'
<1> SUFFICES ASSUME TypeOK, CallsRight, [Next]_vars PROVE CallsRight'
  OBVIOUS
<1>1. CASE UNCHANGED vars
  <2>1. \A u \in Threads : Frame(u)' = Frame(u) /\ alone'[u] = alone[u] /\ Witness(u)' = Witness(u)
    BY <1>1 DEF vars, request, loop, before, Frame, Witness
  <2> QED BY <2>1, BystanderRight DEF CallsRight
<1>2. ASSUME NEW t \in Threads, Call(t) \/ Run(t) PROVE CallsRight'
  <2>1. OnTrack(t)' /\ AloneRight(t)' BY <1>2, BeginRight, RunRight DEF CallsRight
  <2>2. \A u \in Threads \ {t} : OnTrack(u)' /\ AloneRight(u)'
    BY <1>2, Bystander, BystanderRight DEF CallsRight
  <2> QED BY <2>1, <2>2 DEF CallsRight
<1> QED BY <1>1, <1>2 DEF Next

\* What a call says of the port is true if no other call has changed a line since
\* it began, with any port and any number of threads (src/gpio_pins.c:249-503,
\* src/PicmgWrapper.c:955-1086, src/JidaWrapper.c:551-611): after a success the
\* lines outside of its mask are as they were and only lines that were outputs are
\* driven; after an error nothing is changed, or some directions; after the FALSE
\* of JidaIOXorAndXor (src/JidaWrapper.c:587) everything or nothing is done.
THEOREM AloneDoesAsAsked == Spec => DoneAsAsked
<1>1. TypeOK /\ CallsRight /\ [Next]_vars =>
        [\A t \in Threads : Ends(t) /\ alone[t] => AsAsked(t, Answer(t))]_vars
  BY EndsAsAsked DEF CallsRight
<1>2. Spec => []CallsRight
  BY CallsRightInit, CallsRightStep, ChipTypeCorrect, PTL DEF Spec
<1> QED BY <1>1, <1>2, ChipTypeCorrect, PTL DEF Spec, DoneAsAsked
=============================================================================
