----------------------------- MODULE GpioSysfs -----------------------------
(***************************************************************************)
(* Directions and levels of a port through /sys/class/gpio                  *)
(* (src/gpio_pins.c:537-824).  A call goes through the pins of the port one *)
(* after the other: it exports a pin that is not, uses it, and unexports it *)
(* when the configuration says so or when it has exported a pin itself.     *)
(* The kernel's files are shared by the threads of all processes, and no    *)
(* lock is held, so a pin comes and goes under a call that uses it.         *)
(***************************************************************************)
EXTENDS Integers

CONSTANTS
  Callers,   \* threads, of whatever processes
  NPins,     \* gpioCount, the pins of the port
  IoMayFail  \* access to a file, or reading or writing it, may fail

ASSUME NPinsAssumption == NPins \in Nat \ {0}
ASSUME IoMayFailAssumption == IoMayFail \in BOOLEAN

VARIABLES
  unexportTrig, \* UNEXPORT of gpio.conf
  exported,     \* the kernel: pins that have files
  inputs,       \* the kernel: pins whose direction is in
  pc, op, arg,  \* where a thread is, in which call, with which bits
  i,            \* i[t]: the pin at hand
  unexport,
  ret,
  done,         \* history: done[t], the pins t's call has used
  before,       \* history: the pins exported at the start
  kept          \* history: the pins nobody has to unexport: exported by others,
                \* or their unexport was refused

kernel == <<unexportTrig, exported, inputs, before, kept>>
call == <<op, arg>>
local == <<pc, i, unexport, ret, done>>
vars == <<kernel, call, local>>

Pins == 1 .. NPins
Ops == {"getDirections", "setDirections", "getLevels", "setLevels"}
Places == {"idle", "check", "export", "recheck", "use", "value", "after"}

TypeOK ==
  /\ unexportTrig \in BOOLEAN
  /\ exported \subseteq Pins /\ inputs \subseteq Pins
  /\ before \subseteq Pins /\ kept \subseteq exported
  /\ pc \in [Callers -> Places]
  /\ op \in [Callers -> Ops]
  /\ arg \in [Callers -> SUBSET Pins]
  /\ i \in [Callers -> Pins]
  /\ unexport \in [Callers -> BOOLEAN]
  /\ ret \in [Callers -> {"none", "success", "error"}]
  /\ done \in [Callers -> SUBSET Pins]

Init ==
  /\ unexportTrig \in BOOLEAN
  /\ exported \in SUBSET Pins /\ before = exported /\ kept = exported
  /\ inputs \in SUBSET Pins
  /\ pc = [t \in Callers |-> "idle"]
  /\ op = [t \in Callers |-> "getLevels"] /\ arg = [t \in Callers |-> {}]
  /\ i = [t \in Callers |-> 1]
  /\ unexport = [t \in Callers |-> FALSE]
  /\ ret = [t \in Callers |-> "none"]
  /\ done = [t \in Callers |-> {}]

-----------------------------------------------------------------------------
GoTo(t, l) == pc' = [pc EXCEPT ![t] = l]
Result(t, r) == ret' = [ret EXCEPT ![t] = r]

\* Broken: whatever the configuration says, pins are unexported.
BeginUnexporting(t, o, bits) ==
  /\ pc[t] = "idle"
  /\ op' = [op EXCEPT ![t] = o] /\ arg' = [arg EXCEPT ![t] = bits]
  /\ i' = [i EXCEPT ![t] = 1] /\ done' = [done EXCEPT ![t] = {}]
  /\ unexport' = [unexport EXCEPT ![t] = TRUE]
  /\ Result(t, "none") /\ GoTo(t, "check")
  /\ UNCHANGED kernel

\* The call starts; /sys/class/gpio may be out of reach.
Begin(t, o, bits) ==
  /\ pc[t] = "idle"
  /\ op' = [op EXCEPT ![t] = o] /\ arg' = [arg EXCEPT ![t] = bits]
  /\ i' = [i EXCEPT ![t] = 1] /\ done' = [done EXCEPT ![t] = {}]
  /\ unexport' = [unexport EXCEPT ![t] = unexportTrig]
  /\ \/ Result(t, "none") /\ GoTo(t, "check")
     \/ IoMayFail /\ Result(t, "error") /\ UNCHANGED pc
  /\ UNCHANGED kernel

\* checkRAccess, checkRWAccess of the pin's file.
Check(t) ==
  /\ pc[t] = "check"
  /\ \/ /\ GoTo(t, IF i[t] \in exported THEN "use" ELSE "export")
        /\ UNCHANGED ret
     \/ /\ IoMayFail /\ i[t] \in exported
        /\ Result(t, "error") /\ GoTo(t, "after")
  /\ UNCHANGED <<kernel, call, i, unexport, done>>

\* Broken: who exports a pin does not remember it.
ExportForgotten(t) ==
  /\ pc[t] = "export"
  /\ exported' = exported \cup {i[t]} /\ GoTo(t, "recheck")
  /\ UNCHANGED <<unexportTrig, inputs, before, kept, call, i, unexport, ret, done>>

\* linux_gpio_export.  The kernel refuses when another driver has the pin, and
\* nobody notices because fclose writes; without access the call ends.
Export(t) ==
  /\ pc[t] = "export"
  /\ \/ /\ exported' = exported \cup {i[t]} \/ (IoMayFail /\ UNCHANGED exported)
        /\ unexport' = [unexport EXCEPT ![t] = TRUE]
        /\ GoTo(t, "recheck")
        /\ UNCHANGED ret
     \/ /\ IoMayFail
        /\ Result(t, "error") /\ GoTo(t, "idle")
        /\ UNCHANGED <<exported, unexport>>
  /\ UNCHANGED <<unexportTrig, inputs, before, kept, call, i, done>>

Recheck(t) ==
  /\ pc[t] = "recheck"
  /\ \/ i[t] \in exported /\ GoTo(t, "use") /\ UNCHANGED ret
     \/ /\ i[t] \notin exported \/ IoMayFail
        /\ Result(t, "error") /\ GoTo(t, "after")
  /\ UNCHANGED <<kernel, call, i, unexport, done>>

Used(t) ==
  /\ done' = [done EXCEPT ![t] = @ \cup {i[t]}]
  /\ Result(t, "success") /\ GoTo(t, "after")

\* The pin's file is read or written, when another call has not unexported the
\* pin since; setLevels reads the direction and leaves an input alone.
Use(t) ==
  /\ pc[t] = "use"
  /\ \/ /\ i[t] \in exported
        /\ op[t] = "setLevels" => i[t] \in inputs
        /\ inputs' = IF op[t] # "setDirections" THEN inputs
                     ELSE IF i[t] \in arg[t] THEN inputs \cup {i[t]} ELSE inputs \ {i[t]}
        /\ Used(t)
     \/ /\ i[t] \in exported /\ op[t] = "setLevels" /\ i[t] \notin inputs
        /\ GoTo(t, "value")
        /\ UNCHANGED <<inputs, ret, done>>
     \/ /\ i[t] \notin exported \/ IoMayFail
        /\ Result(t, "error") /\ GoTo(t, "after")
        /\ UNCHANGED <<inputs, done>>
  /\ UNCHANGED <<unexportTrig, exported, before, kept, call, i, unexport>>

\* The level is written; the kernel refuses to when the pin has become an input.
Value(t) ==
  /\ pc[t] = "value"
  /\ \/ i[t] \in exported \ inputs /\ Used(t)
     \/ /\ i[t] \notin exported \/ i[t] \in inputs \/ IoMayFail
        /\ Result(t, "error") /\ GoTo(t, "after")
        /\ UNCHANGED done
  /\ UNCHANGED <<kernel, call, i, unexport>>

NextPin(t) ==
  /\ UNCHANGED ret
  /\ IF i[t] = NPins THEN GoTo(t, "idle") /\ UNCHANGED i
     ELSE GoTo(t, "check") /\ i' = [i EXCEPT ![t] = @ + 1]

\* linux_gpio_unexport after use; the kernel forgets the pin whoever uses it.
Unexported(t) == exported' = exported \ {i[t]} /\ kept' = kept \ {i[t]}

\* Broken: the result of the unexport replaces an error.
AfterOverwriting(t) ==
  /\ pc[t] = "after"
  /\ \/ ~unexport[t] /\ NextPin(t) /\ UNCHANGED <<exported, kept>>
     \/ /\ unexport[t] /\ Unexported(t) /\ Result(t, "success")
        /\ IF i[t] = NPins THEN GoTo(t, "idle") /\ UNCHANGED i
           ELSE GoTo(t, "check") /\ i' = [i EXCEPT ![t] = @ + 1]
  /\ UNCHANGED <<unexportTrig, inputs, before, call, unexport, done>>

\* ret_unexport.  An error ends the loop only when the pin is unexported;
\* otherwise the next pin's result replaces it.
After(t) ==
  /\ pc[t] = "after"
  /\ \/ ~unexport[t] /\ NextPin(t) /\ UNCHANGED <<exported, kept>>
     \/ unexport[t] /\ ret[t] = "success" /\ Unexported(t) /\ NextPin(t)
     \/ /\ unexport[t] /\ ret[t] = "error" /\ Unexported(t)
        /\ GoTo(t, "idle")
        /\ UNCHANGED <<i, ret>>
     \/ /\ unexport[t] /\ IoMayFail
        /\ kept' = kept \cup ({i[t]} \cap exported)
        /\ Result(t, "error") /\ GoTo(t, "idle")
        /\ UNCHANGED <<exported, i>>
  /\ UNCHANGED <<unexportTrig, inputs, before, call, unexport, done>>

Run(t) == Check(t) \/ Export(t) \/ Recheck(t) \/ Use(t) \/ Value(t) \/ After(t)

\* Only setDirections looks at the bits here; a level is a payload.
Next ==
  \E t \in Callers :
    \/ Run(t)
    \/ \E o \in Ops, bits \in SUBSET Pins :
         (o # "setDirections" => bits = {}) /\ Begin(t, o, bits)

Spec == Init /\ [][Next]_vars

-----------------------------------------------------------------------------
(* Properties *)

\* A pin that a call has exported is unexported by that call or by another one,
\* on every path through the four functions and in every interleaving of them:
\* who has to do it still can.
Owes(t, p) == pc[t] \in {"recheck", "use", "value", "after"} /\ unexport[t] /\ i[t] = p
NoneLeftExported == \A p \in exported \ kept : \E t \in Callers : Owes(t, p)

\* When pins are unexported, a call that ends with success has used every pin
\* of the port: no error of one pin is lost for the success of the next.
SuccessMeansDone ==
  \A t \in Callers : unexportTrig /\ pc[t] = "idle" /\ ret[t] = "success" => done[t] = Pins

\* A port that the system has exported as a whole stays so, when gpio.conf says
\* not to unexport, whatever errors the calls meet.
WholePortKept == ~unexportTrig /\ before = Pins => exported = Pins
=============================================================================
