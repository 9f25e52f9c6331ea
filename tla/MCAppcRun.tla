------------------------------- MODULE MCAppcRun -------------------------------
(*****************************************************************************)
(* Images for AppcRun: two depend on a third, in different versions, and     *)
(* share files with it and with each other.                                  *)
(*****************************************************************************)
EXTENDS AppcRun

DepOn(n, v) == [name |-> n, version |-> v, id |-> None]
Image(n, v, deps, files) == [name |-> n, version |-> v, deps |-> deps, files |-> files]

MCId == 1..5
MCMan == <<
    Image("base", "1", <<>>, {"sh", "conf"}),
    Image("base", "2", <<>>, {"sh"}),
    Image("lib", "1", <<DepOn("base", "1")>>, {"conf"}),
    Image("app", "1", <<DepOn("lib", None), DepOn("base", "2")>>, {"bin"}),
    Image("pins", "1", <<[DepOn("base", "1") EXCEPT !.id = 1]>>, {"bin"}) >>

\* One dependency, with a tree below it, or none.
OneDependency == {<<DepOn("app", "1")>>, <<>>}
\* Two dependencies that have a file in common.
TwoDependencies == {<<DepOn("base", "1"), DepOn("base", "2")>>}
\* A dependency whose own dependency has an image ID.
PinnedDependency == {<<DepOn("pins", None)>>}

\* The images and lists are what the theorems of AppcRun are about.
ASSUME ImagesAssumption == Resolvable /\ Acyclic
ASSUME ListsAssumption == Lists = OneDependency => Single /\ Unpinned

MCWrites == {{}, {"conf", "new"}, {Resolv}}
NothingYet == {{}, {"conf"}}
\* Without those that break what a run promises to leave (see the README).
MostFaults == AllFaults \ {"daemon", "hidden", "leave"}
================================================================================
