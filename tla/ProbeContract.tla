----------------------------- MODULE ProbeContract -----------------------------
(***************************************************************************)
(* What a synthetic probe run promises whoever reads its verdict           *)
(* (docs/specs/e2e-probe.md, S3, S4 and V6): it decides once; after that   *)
(* it only undoes what it did; and it is over when a verdict stands and    *)
(* nothing is left to undo.                                                *)
(***************************************************************************)
CONSTANT Undecided
VARIABLES verdict, owed, over

vars == <<verdict, owed, over>>

Init == verdict = Undecided /\ owed = {} /\ over = FALSE

\* Still finding out: obligations come, and perhaps the verdict.
Conduct ==
    /\ verdict = Undecided /\ ~over
    /\ over' => verdict' # Undecided /\ owed' = {}

\* The verdict stands; obligations only go.
CleanUp ==
    /\ verdict # Undecided /\ ~over
    /\ verdict' = verdict
    /\ owed' \subseteq owed
    /\ over' => owed' = {}

Next == Conduct \/ CleanUp

Spec == Init /\ [][Next]_vars
================================================================================
