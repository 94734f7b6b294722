--------------------------- MODULE PolicyRegister ---------------------------
(* What saving a private policy promises: each kind of policy is a register   *)
(* that a save sets at once, or leaves alone.                                 *)
CONSTANTS Kinds, Values, None

VARIABLES
    effective,  \* the policy of each kind in effect, or None
    asked,      \* the save under way, or None
    told        \* how the last save ended: "saved", "failed" or None

vars == <<effective, asked, told>>

Init == effective = [k \in Kinds |-> None] /\ asked = None /\ told = None

Ask(k, v) ==
    /\ asked = None
    /\ asked' = <<k, v>> /\ told' = None
    /\ UNCHANGED effective

Succeed ==
    /\ asked # None
    /\ effective' = [effective EXCEPT ![asked[1]] = asked[2]]
    /\ asked' = None /\ told' = "saved"

Fail ==
    /\ asked # None
    /\ asked' = None /\ told' = "failed"
    /\ UNCHANGED effective

\* The operator's process ends, without a word.
Crash == asked' = None /\ told' = None /\ UNCHANGED effective

\* The project is initialised over again.
Reset ==
    /\ asked = None
    /\ effective' = [k \in Kinds |-> None] /\ told' = None
    /\ UNCHANGED asked

Next ==
    \/ \E k \in Kinds, v \in Values : Ask(k, v)
    \/ Succeed \/ Fail \/ Crash \/ Reset

Spec == Init /\ [][Next]_vars
=============================================================================
