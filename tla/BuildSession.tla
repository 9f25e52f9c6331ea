------------------------------ MODULE BuildSession ------------------------------
(*****************************************************************************)
(* What acbuild promises of a build in one working directory, to a user who  *)
(* runs one command after the other: there is no build, or there is an open  *)
(* one that has exactly the edits made since it was begun.  A command that   *)
(* is killed, or that the disk stops half-way, may leave its effect, nothing *)
(* or a broken build, at the moment it stops and only then.                  *)
(*****************************************************************************)
CONSTANT Cmd   \* the commands; those that edit are known by what they add

VARIABLES build, applied,
          hurt   \* the commands that have stopped half-way in this build

session == <<build, applied>>

Init == build \in {"none", "open"} /\ applied = {} /\ hurt = {}

Begin == build = "none" /\ build' = "open" /\ applied' = {}

Apply(c) == build = "open" /\ applied' = applied \cup {c} /\ UNCHANGED build

End == build' = "none" /\ applied' = {}

Break == build' = "broken" /\ applied' = {}

Command == Begin \/ (\E c \in Cmd : Apply(c)) \/ End

\* Each command is stopped once.
Stop(c) == /\ c \notin hurt /\ hurt' = hurt \cup {c}
           /\ Command \/ Break \/ UNCHANGED session

\* The harm goes with the build.
Forget == build = "none" /\ hurt' = {} /\ UNCHANGED session

Next == \/ Command /\ UNCHANGED hurt
        \/ \E c \in Cmd : Stop(c)
        \/ Forget

Spec == Init /\ [][Next]_<<session, hurt>>
================================================================================
