------------------------------- MODULE LayerStack -------------------------------
(*****************************************************************************)
(* What acbuild promises of the layers of an OCI image: a command replaces   *)
(* the top layer or puts one on top, and never touches a layer below.        *)
(*****************************************************************************)
EXTENDS Naturals, Sequences

CONSTANTS Layer,     \* the layers there are
          Lost,      \* no image
          MayLose    \* TRUE: a command may be interrupted while it saves

VARIABLE stack

Init == stack \in Seq(Layer)

Push(l) == stack # Lost /\ stack' = Append(stack, l)

Replace(l) ==
    /\ stack # Lost
    /\ stack # <<>>
    /\ stack' = [stack EXCEPT ![Len(stack)] = l]

Lose == MayLose /\ stack' = Lost

Next == (\E l \in Layer : Push(l) \/ Replace(l)) \/ Lose

Spec == Init /\ [][Next]_stack
================================================================================
