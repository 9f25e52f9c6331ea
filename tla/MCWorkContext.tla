----------------------------- MODULE MCWorkContext -----------------------------
(* Model checking of WorkContext.                                             *)
EXTENDS WorkContext, TLC

Symmetry == Permutations(Proc) \cup Permutations(Inode)

\* For the runs whose properties say nothing of the history variable hurt, on
\* which no action depends.
WithoutHistory == <<procVars, dirVars, holder>>

================================================================================
