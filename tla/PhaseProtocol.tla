---------------------------- MODULE PhaseProtocol ----------------------------
(***************************************************************************)
(* What the two halves of a completion promise together: a phase is        *)
(* recorded by the runtime once, and only a recorded phase is closed out   *)
(* in the files of the people.  Neither is ever taken back.                *)
(***************************************************************************)
CONSTANT Phases

VARIABLE phase

Init == phase = [p \in Phases |-> "open"]

Record(p) == phase[p] = "open" /\ phase' = [phase EXCEPT ![p] = "done"]

CloseOut(p) == phase[p] = "done" /\ phase' = [phase EXCEPT ![p] = "closed"]

Next == \E p \in Phases : Record(p) \/ CloseOut(p)

Spec == Init /\ [][Next]_phase

=============================================================================
