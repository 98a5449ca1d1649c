--------------------------- MODULE SetupRegister ---------------------------
(***************************************************************************)
(* What Setup, Enable and Disable of a linux-like watchdog promise programs *)
(* that share it (src/wd.c:185-435): there is one setup, whichever process  *)
(* made it, in place as a whole or not at all, and the card is armed from    *)
(* the one in place and in no other way.  Files, holes, locks and the steps  *)
(* of writing are not part of the promise.                                  *)
(***************************************************************************)
EXTENDS Sequences, Integers

CONSTANTS
  Setups,   \* what Setup accepts
  Seconds   \* the seconds a card is armed with under each

VARIABLES
  stored,   \* the setup in place, if any
  armed     \* the seconds the card is armed with, or Off

Off == -1

Init == stored = <<>> /\ armed = Off

\* A setup comes into an empty place: what was there has been cleared.
Store == stored = <<>> /\ \E s \in Setups : stored' = <<s>> /\ UNCHANGED armed

Clear == stored' = <<>> /\ UNCHANGED armed

\* Only a setup in mode RESET arms a linux-like card.
Arm ==
  /\ \E s \in Setups : stored = <<s>> /\ s.mode = "reset" /\ armed' = Seconds[s]
  /\ UNCHANGED stored

Disarm == armed' = Off /\ UNCHANGED stored

Next == Store \/ Clear \/ Arm \/ Disarm

Spec == Init /\ [][Next]_<<stored, armed>>
=============================================================================
