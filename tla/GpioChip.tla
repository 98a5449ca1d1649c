----------------------------- MODULE GpioChip -----------------------------
(***************************************************************************)
(* A port of GPIO lines behind /dev/gpiochip* (src/gpio_pins.c:245-503, the *)
(* style keapi-full), the calls that read and set its directions and levels *)
(* (gpio_pins.c:826-934) and those of the wrappers that read the whole port,*)
(* change some bits and write it back (PicmgWrapper.c:955-1086,             *)
(* JidaWrapper.c:551-611).  Threads of one process share its descriptors.   *)
(*                                                                          *)
(* A word of bits is the set of lines whose bit is 1: the lines that are    *)
(* inputs in a word of directions, those that are high in one of levels.    *)
(* gpio.conf is loaded (see GpioConfig).                                    *)
(***************************************************************************)
EXTENDS Integers, FiniteSets

CONSTANTS
  Threads,
  NLines,     \* gpioCount of the port
  IntBits,    \* the bits of an int
  Others,     \* chips with another label, found before the one of the port
  MaxFd,      \* the last descriptor the process can have
  Inputs,     \* lines that can be inputs: isIn
  Outputs,    \* and outputs: isOut
  Words,      \* the words callers give
  Masks       \* and their masks

Lines == 0 .. NLines - 1
Fds == 0 .. MaxFd
Stdin == 0
NoFd == -1

ASSUME IntBitsAssumption == IntBits \in Nat
ASSUME NLinesAssumption == NLines \in 1 .. IntBits
ASSUME OthersAssumption == Others \in Nat
ASSUME MaxFdAssumption == MaxFd \in Nat
ASSUME CapsAssumption == Inputs \subseteq Lines /\ Outputs \subseteq Lines
ASSUME MasksAssumption == Words \cup Masks \subseteq SUBSET Lines

VARIABLES
  outs,       \* the lines that are outputs
  high,       \* the outputs that are driven high
  fds,        \* the open descriptors of the process
  held,       \* the lines each descriptor holds
  pc,
  op,         \* what the call does now
  then,       \* and what it writes back once it has read
  andMask,    \* the bits it keeps of what it has read
  xorMask,    \* and those it changes
  saysFalse,  \* the wrapper says FALSE, whatever comes of the call
  word,       \* directions or levels: what was read, or is to be set
  k,          \* the chip it looks at
  i,          \* the line
  seen,       \* the lines it has seen to be outputs
  chip,       \* its descriptor of the chip
  lfd,        \* lfd or ghr.fd
  ret,
  outs0,      \* history: the outputs when the call began
  high0,      \*   and the high ones
  alone,      \*   no other call has changed a line since
  leaked,     \*   descriptors of chips with another label
  spoiled     \*   a call has closed a descriptor that was not its own

port == <<outs, high>>
files == <<fds, held, leaked, spoiled>>
request == <<then, andMask, xorMask, saysFalse>>
loop == <<k, i, seen>>
before == <<outs0, high0, alone>>
vars == <<port, files, pc, op, request, word, loop, chip, lfd, ret, before>>

Ops == {"getDirections", "setDirections", "getLevels", "setLevels"}
UsesLine == {"values", "closeProbe", "closeIn", "closeLine"}
UsesChip == UsesLine \cup {"probe", "info", "setIn", "setOut", "drive", "closeChip"}

TypeOK ==
  /\ outs \subseteq Lines /\ high \subseteq outs
  /\ fds \subseteq Fds /\ leaked \subseteq Fds /\ spoiled \in BOOLEAN
  /\ held \in [Fds -> SUBSET Lines]
  /\ pc \in [Threads -> {"idle", "caps", "chip"} \cup UsesChip]
  /\ op \in [Threads -> Ops]
  /\ then \in [Threads -> {"none", "setDirections", "setLevels"}]
  /\ andMask \in [Threads -> SUBSET Lines] /\ xorMask \in [Threads -> SUBSET Lines]
  /\ saysFalse \in [Threads -> BOOLEAN]
  /\ word \in [Threads -> SUBSET Lines]
  /\ k \in [Threads -> 0 .. Others] /\ i \in [Threads -> 0 .. NLines]
  /\ seen \in [Threads -> SUBSET Lines]
  /\ chip \in [Threads -> Fds \cup {NoFd}] /\ lfd \in [Threads -> Fds \cup {NoFd}]
  /\ ret \in [Threads -> {"none", "success", "error"}]
  /\ outs0 \in [Threads -> SUBSET Lines] /\ high0 \in [Threads -> SUBSET Lines]
  /\ alone \in [Threads -> BOOLEAN]

Init ==
  /\ outs \in SUBSET Lines /\ high \in SUBSET outs
  /\ fds = {Stdin} /\ held = [d \in Fds |-> {}] /\ leaked = {} /\ spoiled = FALSE
  /\ pc = [t \in Threads |-> "idle"]
  /\ op = [t \in Threads |-> "getLevels"]
  /\ then = [t \in Threads |-> "none"]
  /\ andMask = [t \in Threads |-> {}] /\ xorMask = [t \in Threads |-> {}]
  /\ saysFalse = [t \in Threads |-> FALSE]
  /\ word = [t \in Threads |-> {}]
  /\ k = [t \in Threads |-> 0] /\ i = [t \in Threads |-> 0]
  /\ seen = [t \in Threads |-> {}]
  /\ chip = [t \in Threads |-> NoFd] /\ lfd = [t \in Threads |-> NoFd]
  /\ ret = [t \in Threads |-> "none"]
  /\ outs0 = [t \in Threads |-> {}] /\ high0 = [t \in Threads |-> {}]
  /\ alone = [t \in Threads |-> FALSE]
-----------------------------------------------------------------------------
GoTo(t, l) == pc' = [pc EXCEPT ![t] = l]

\* The frame of the call goes, but for its chip.
Forget(t) ==
  /\ ret' = [ret EXCEPT ![t] = "none"]
  /\ op' = [op EXCEPT ![t] = "getLevels"]
  /\ then' = [then EXCEPT ![t] = "none"]
  /\ andMask' = [andMask EXCEPT ![t] = {}] /\ xorMask' = [xorMask EXCEPT ![t] = {}]
  /\ saysFalse' = [saysFalse EXCEPT ![t] = FALSE]
  /\ word' = [word EXCEPT ![t] = {}]
  /\ k' = [k EXCEPT ![t] = 0] /\ i' = [i EXCEPT ![t] = 0]
  /\ seen' = [seen EXCEPT ![t] = {}]
  /\ lfd' = [lfd EXCEPT ![t] = NoFd]
  /\ outs0' = [outs0 EXCEPT ![t] = {}] /\ high0' = [high0 EXCEPT ![t] = {}]
  /\ alone' = [alone EXCEPT ![t] = FALSE]

\* The call ends.
Return(t) == GoTo(t, "idle") /\ Forget(t) /\ chip' = [chip EXCEPT ![t] = NoFd]

Begin(t, l, o, nx, a, x, f) ==
  /\ pc[t] = "idle"
  /\ GoTo(t, l)
  /\ op' = [op EXCEPT ![t] = o]
  /\ then' = [then EXCEPT ![t] = nx]
  /\ andMask' = [andMask EXCEPT ![t] = a] /\ xorMask' = [xorMask EXCEPT ![t] = x]
  /\ saysFalse' = [saysFalse EXCEPT ![t] = f]
  /\ word' = [word EXCEPT ![t] = IF nx = "none" THEN x ELSE {}]
  /\ outs0' = [outs0 EXCEPT ![t] = outs] /\ high0' = [high0 EXCEPT ![t] = high]
  /\ alone' = [alone EXCEPT ![t] = TRUE]
  /\ UNCHANGED <<port, files, loop, chip, lfd, ret>>

GetGpioPortDirections(t) == Begin(t, "chip", "getDirections", "none", {}, {}, FALSE)
GetGpioPortLevels(t) == Begin(t, "chip", "getLevels", "none", {}, {}, FALSE)
SetGpioPortDirections(t, w) == Begin(t, "caps", "setDirections", "none", {}, w, FALSE)
SetGpioPortLevels(t, w) == Begin(t, "chip", "setLevels", "none", {}, w, FALSE)

\* The bits of the mask are replaced; a single line is a mask of one bit.
EApiGPIOSetDirection(t, mask, w) ==
  Begin(t, "chip", "getDirections", "setDirections", Lines \ mask, w \cap mask, FALSE)
EApiGPIOSetLevel(t, mask, w) ==
  Begin(t, "chip", "getLevels", "setLevels", Lines \ mask, w \cap mask, FALSE)

SymDiff(a, b) == (a \ b) \cup (b \ a)

\* ((levels ^ x1) & a) ^ x2.  It says FALSE at its end too.
JidaIOXorAndXor(t, x1, a, x2) ==
  Begin(t, "chip", "getLevels", "setLevels", a, SymDiff(x1 \cap a, x2), TRUE)

\* What (1 << gpioCount) - 1 is: the lines of the port; if they fill an int the
\* shift is undefined, and they may be none.
PortMask == {Lines} \cup (IF NLines = IntBits THEN {{}} ELSE {})

\* The sanity check: each line of the mask can be what it is to be.
CheckCaps(t) ==
  /\ pc[t] = "caps"
  /\ \E mask \in PortMask :
       IF word[t] \subseteq Inputs /\ mask \ word[t] \subseteq Outputs
       THEN GoTo(t, "chip") /\ UNCHANGED <<op, request, word, loop, chip, lfd, ret, before>>
       ELSE Return(t)
  /\ UNCHANGED <<port, files>>
-----------------------------------------------------------------------------
(* The kernel *)

\* The lowest number that is free.
Allots(d) == d \in Fds \ fds /\ \A e \in Fds \ fds : d <= e

\* No descriptor holds one of the lines: the kernel refuses two requests, and
\* a request of no lines.
Requestable(ls) == ls # {} /\ \A d \in Fds : held[d] \cap ls = {}

\* Lines are requested with descriptor d.
Hold(t, d, ls) ==
  /\ Requestable(ls)
  /\ Allots(d)
  /\ fds' = fds \cup {d}
  /\ held' = [held EXCEPT ![d] = ls]
  /\ lfd' = [lfd EXCEPT ![t] = d]
  /\ UNCHANGED <<leaked, spoiled>>

\* The lines are released as they are.
CloseFile(d) ==
  /\ fds' = fds \ {d}
  /\ held' = [e \in Fds |-> IF e = d THEN {} ELSE held[e]]

\* The calls of the other threads are no longer alone with the port.
Disturbs(t) ==
  /\ alone' = [u \in Threads |-> u = t /\ alone[u]]
  /\ outs0' = [u \in Threads |-> IF u = t THEN outs0[u] ELSE {}]
  /\ high0' = [u \in Threads |-> IF u = t THEN high0[u] ELSE {}]

\* The lines become outputs, and those of w high, or inputs.
Drive(t, ls, w) ==
  /\ outs' = outs \cup ls
  /\ high' = (high \ ls) \cup (w \cap ls)
  /\ Disturbs(t)

Float(t, ls) ==
  /\ outs' = outs \ ls
  /\ high' = high \ ls
  /\ Disturbs(t)
-----------------------------------------------------------------------------
(* The steps of a call *)

\* The frame of a step that ends nothing.
Stay(t) == UNCHANGED <<op, request>>

\* An error is found: what is left is to close.
Fails(t, l) ==
  /\ ret' = [ret EXCEPT ![t] = "error"]
  /\ GoTo(t, l)

\* gpio_set_levels has ghr.fd = 0 from its memset on, and looks at the lines
\* without requesting them first.
ChipFound(t, d) ==
  /\ fds' = fds \cup {d}
  /\ chip' = [chip EXCEPT ![t] = d]
  /\ lfd' = [lfd EXCEPT ![t] = IF op[t] = "setLevels" THEN Stdin ELSE NoFd]
  /\ GoTo(t, IF op[t] = "setLevels" THEN "info" ELSE "probe")
  /\ k' = [k EXCEPT ![t] = 0]
  /\ UNCHANGED <<leaked, ret>>

\* A chip with another label stays open.
OtherChip(t, d) ==
  /\ fds' = fds \cup {d}
  /\ leaked' = leaked \cup {d}
  /\ k' = [k EXCEPT ![t] = @ + 1]
  /\ UNCHANGED <<pc, chip, lfd, ret>>

\* gpio_get_chip_dev: a chip may be absent or refused; open may fail.
GetChipDev(t) ==
  /\ pc[t] = "chip"
  /\ \/ Return(t) /\ UNCHANGED files
     \/ /\ k[t] < Others
        /\ k' = [k EXCEPT ![t] = @ + 1]
        /\ UNCHANGED <<pc, files, i, seen, word, chip, lfd, ret, before>> /\ Stay(t)
     \/ \E d \in Fds :
          /\ Allots(d)
          /\ IF k[t] = Others THEN ChipFound(t, d) ELSE OtherChip(t, d)
          /\ UNCHANGED <<held, spoiled, i, seen, word, before>> /\ Stay(t)
  /\ UNCHANGED port

\* gpio_get_linehandle.  Its error is positive and its callers look for a
\* negative one: they go on with an lfd that nobody has set, and close whatever
\* descriptor it is.
GetLinehandle(t) ==
  /\ pc[t] = "probe"
  /\ GoTo(t, IF op[t] = "getLevels" THEN "values" ELSE "closeProbe")
  /\ \/ \E d \in Fds : Hold(t, d, Lines)
     \/ spoiled' = TRUE /\ UNCHANGED <<fds, held, leaked, lfd>>
  /\ UNCHANGED <<port, word, loop, chip, ret, before>> /\ Stay(t)

\* The level of an input is what is outside.
GetValues(t) ==
  /\ pc[t] = "values"
  /\ \/ /\ \E w \in SUBSET (Lines \ outs) : word' = [word EXCEPT ![t] = high \cup w]
        /\ ret' = [ret EXCEPT ![t] = "success"]
        /\ GoTo(t, "closeLine")
     \/ Fails(t, "closeLine") /\ UNCHANGED word
  /\ UNCHANGED <<port, files, loop, chip, lfd, before>> /\ Stay(t)

\* The lines are looked at one after the other.
GetLineinfo(t) ==
  /\ pc[t] = "info"
  /\ \/ /\ i[t] < NLines
        /\ i' = [i EXCEPT ![t] = @ + 1]
        /\ seen' = [seen EXCEPT ![t] = @ \cup ({i[t]} \cap outs)]
        /\ UNCHANGED <<pc, word, ret>>
     \/ /\ i[t] < NLines
        /\ Fails(t, "closeLine")
        /\ UNCHANGED <<i, seen, word>>
     \/ /\ i[t] = NLines
        /\ \/ /\ op[t] = "getDirections"
              /\ word' = [word EXCEPT ![t] = Lines \ seen[t]]
              /\ ret' = [ret EXCEPT ![t] = "success"]
              /\ GoTo(t, "closeLine")
           \/ op[t] = "setDirections" /\ GoTo(t, "setIn") /\ UNCHANGED <<word, ret>>
           \/ op[t] = "setLevels" /\ GoTo(t, "drive") /\ UNCHANGED <<word, ret>>
        /\ UNCHANGED <<i, seen>>
  /\ UNCHANGED <<port, files, k, chip, lfd, before>> /\ Stay(t)

\* A request of lines that changes them, by the action change; it may fail.
Request(t, ls, l, change) ==
  \/ /\ \E d \in Fds : Hold(t, d, ls)
     /\ change
     /\ ret' = [ret EXCEPT ![t] = "success"]
     /\ GoTo(t, l)
  \/ Fails(t, "closeLine") /\ UNCHANGED <<port, files, lfd, before>>

ToInput(t) == word[t] \cap seen[t]
ToOutput(t) == (Lines \ word[t]) \ seen[t]

SetIn(t) ==
  /\ pc[t] = "setIn"
  /\ \/ ToInput(t) = {} /\ GoTo(t, "setOut") /\ UNCHANGED <<port, files, lfd, ret, before>>
     \/ ToInput(t) # {} /\ Request(t, ToInput(t), "closeIn", Float(t, ToInput(t)))
  /\ UNCHANGED <<word, loop, chip>> /\ Stay(t)

\* The new outputs are low.
SetOut(t) ==
  /\ pc[t] = "setOut"
  /\ \/ /\ ToOutput(t) = {}
        /\ ret' = [ret EXCEPT ![t] = "success"]
        /\ GoTo(t, "closeLine")
        /\ UNCHANGED <<port, files, lfd, before>>
     \/ /\ ToOutput(t) # {}
        /\ Request(t, ToOutput(t), "closeLine", Drive(t, ToOutput(t), {}))
  /\ UNCHANGED <<word, loop, chip>> /\ Stay(t)

\* Only what was an output is driven; without one there is nothing to request,
\* which is an error.
SetLevels(t) ==
  /\ pc[t] = "drive"
  /\ Request(t, seen[t], "closeLine", Drive(t, seen[t], word[t]))
  /\ UNCHANGED <<word, loop, chip>> /\ Stay(t)

\* A call of a wrapper that has read goes on to write.
GoesOn(t) == ret[t] = "success" /\ then[t] # "none"

\* The lines have served.
LineClosed(t) ==
  /\ pc[t] \in {"closeProbe", "closeIn", "closeLine"}
  /\ IF pc[t] = "closeLine" /\ ~GoesOn(t)
     THEN GoTo(t, "closeChip") /\ Forget(t)
     ELSE /\ GoTo(t, CASE pc[t] = "closeProbe" -> "info"
                       [] pc[t] = "closeIn" -> "setOut"
                       [] pc[t] = "closeLine" -> "closeChip")
          /\ lfd' = [lfd EXCEPT ![t] = NoFd]
          /\ UNCHANGED <<word, loop, ret, before>> /\ Stay(t)
  /\ UNCHANGED <<port, chip>>

\* Broken: the descriptor of the lines is not closed.
LeaveLine(t) == LineClosed(t) /\ UNCHANGED files

\* The lines are released; a gpio_set_levels that has got none closes its 0,
\* which is somebody else's.
CloseLine(t) ==
  /\ LineClosed(t)
  /\ IF lfd[t] = NoFd THEN UNCHANGED files
     ELSE CloseFile(lfd[t]) /\ spoiled' = (spoiled \/ lfd[t] = Stdin) /\ UNCHANGED leaked

\* Broken: the bits outside of the mask are not kept.
WrittenBackLost(t) == xorMask[t]

\* What is written back of what was read.
WrittenBack(t) == SymDiff(word[t] \cap andMask[t], xorMask[t])

CloseChip(t) ==
  /\ pc[t] = "closeChip"
  /\ CloseFile(chip[t])
  /\ \/ ~GoesOn(t) /\ Return(t)
     \/ /\ GoesOn(t)
        /\ op' = [op EXCEPT ![t] = then[t]]
        /\ then' = [then EXCEPT ![t] = "none"]
        /\ word' = [word EXCEPT ![t] = WrittenBack(t)]
        /\ i' = [i EXCEPT ![t] = 0] /\ seen' = [seen EXCEPT ![t] = {}]
        /\ GoTo(t, IF then[t] = "setDirections" THEN "caps" ELSE "chip")
        /\ chip' = [chip EXCEPT ![t] = NoFd]
        /\ ret' = [ret EXCEPT ![t] = "none"]
        /\ UNCHANGED <<andMask, xorMask, saysFalse, k, lfd, before>>
  /\ UNCHANGED <<port, leaked, spoiled>>

Call(t) ==
  \/ GetGpioPortDirections(t) \/ GetGpioPortLevels(t)
  \/ \E w \in Words : SetGpioPortDirections(t, w) \/ SetGpioPortLevels(t, w)
  \/ \E mask \in Masks, w \in Words :
       EApiGPIOSetDirection(t, mask, w) \/ EApiGPIOSetLevel(t, mask, w)
  \/ \E x1, x2 \in Words, a \in Masks : JidaIOXorAndXor(t, x1, a, x2)

Run(t) ==
  \/ CheckCaps(t) \/ GetChipDev(t) \/ GetLinehandle(t) \/ GetValues(t) \/ GetLineinfo(t)
  \/ SetIn(t) \/ SetOut(t) \/ SetLevels(t) \/ CloseLine(t) \/ CloseChip(t)

\* A process whose descriptors are spoiled is followed no further: the chip and
\* the lines of its calls may be any file, or none.
Next == ~spoiled /\ \E t \in Threads : Call(t) \/ Run(t)

Spec == Init /\ [][Next]_vars
-----------------------------------------------------------------------------
(* Properties *)

\* What a call is to make of the bits it finds.
Asked(t, bits) == SymDiff(bits \cap andMask[t], xorMask[t])

\* What the caller is told: success, or an error.
Answer(t) == IF ret[t] = "success" /\ ~saysFalse[t] THEN "success" ELSE "error"

Ends(t) ==
  \/ pc[t] = "closeLine" /\ ~GoesOn(t) /\ pc'[t] = "closeChip"
  \/ pc[t] \in {"caps", "chip"} /\ pc'[t] = "idle"

\* The port is as the call found it,
Untouched(t) == outs = outs0[t] /\ high = high0[t]

\* as it was asked to leave it,
Done(t) ==
  CASE op[t] = "setLevels" -> outs = outs0[t] /\ high = Asked(t, high0[t]) \cap outs
    [] op[t] = "setDirections" ->
         Lines \ outs = Asked(t, Lines \ outs0[t]) /\ high = high0[t] \cap outs
    [] op[t] = "getLevels" -> Untouched(t) /\ word[t] \cap outs = high
    [] op[t] = "getDirections" -> Untouched(t) /\ word[t] = Lines \ outs

\* or some of the lines have the directions asked for, and no line another one.
PartlyDirected(t) ==
  /\ \A l \in Lines : l \in outs => l \in outs0[t] \/ l \notin Asked(t, Lines \ outs0[t])
  /\ \A l \in outs0[t] \ outs : l \in Asked(t, Lines \ outs0[t])
  /\ high = high0[t] \cap outs

\* What the answer r of the call t says of the port.
AsAsked(t, r) ==
  CASE r = "success" -> Done(t)
    [] r = "error" /\ saysFalse[t] -> Done(t) \/ Untouched(t)
    [] r = "error" /\ ~saysFalse[t] /\ op[t] = "setDirections" -> PartlyDirected(t)
    [] OTHER -> Untouched(t)

\* A call during which no other one changes a line and that ends with success has
\* done what it was asked: it has read what there is, it drives the outputs and
\* them alone, it keeps the levels when it changes directions, and the bits
\* outside of its mask.  One that ends with an error has changed nothing, or some of the directions - but for
\* JidaIOXorAndXor, which answers FALSE at its end too (src/JidaWrapper.c:587):
\* it has then done nothing, or all it was asked, and its caller cannot tell.
DoneAsAsked ==
  [][\A t \in Threads : Ends(t) /\ alone[t] => AsAsked(t, Answer(t))]_vars

\* Every descriptor is the process's input, a call's chip or lines, or a chip
\* with another label, until a call closes one that was not its own: lfd when
\* the lines could not be requested, or 0 when the levels could not be set.
DescriptorsAccounted ==
  ~spoiled =>
    /\ fds = {Stdin} \cup leaked \cup {chip[t] : t \in {u \in Threads : pc[u] \in UsesChip}}
               \cup {d \in Fds : held[d] # {}}
    /\ \A t \in Threads : pc[t] \in UsesChip => chip[t] \notin {Stdin} \cup leaked /\ held[chip[t]] = {}
    /\ \A t, u \in Threads : pc[t] \in UsesChip /\ pc[u] \in UsesChip /\ chip[t] = chip[u] => t = u
    /\ \A d \in Fds : held[d] # {} =>
         d # Stdin /\ d \notin leaked /\ \E t \in Threads : pc[t] \in UsesLine /\ lfd[t] = d
=============================================================================
