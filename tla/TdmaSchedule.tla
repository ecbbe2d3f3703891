---------------------------- MODULE TdmaSchedule ----------------------------
(***************************************************************************)
(* What the anchor network promises: a superframe of 2N slots that belong  *)
(* to the anchors in turn, two each, and in every slot at most one frame,  *)
(* its owner's, that starts with the slot and is over before it.           *)
(***************************************************************************)
EXTENDS Integers

CONSTANTS N, SLOT

Slots == 0 .. 2 * N - 1

VARIABLES
    phase,      \* ticks since the superframe began
    onAir       \* the slots whose message is on the air

vars == <<phase, onAir>>

Init == phase = 0 /\ onAir = {}

Slot == phase \div SLOT

\* The owner of the slot sends at its very beginning and for at least a tick:
\* slot 2n+p carries the message of parity p of anchor n.
Begin ==
    /\ phase % SLOT = 0 /\ onAir = {}
    /\ onAir' = {Slot}
    /\ UNCHANGED phase

End == phase % SLOT # 0 /\ onAir # {} /\ onAir' = {} /\ UNCHANGED phase

Tick ==
    /\ phase' = (phase + 1) % (2 * N * SLOT)
    /\ phase' % SLOT = 0 => onAir = {}
    /\ UNCHANGED onAir

Next == Begin \/ End \/ Tick

Spec == Init /\ [][Next]_vars
=============================================================================
