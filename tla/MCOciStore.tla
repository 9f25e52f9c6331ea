------------------------------ MODULE MCOciStore ------------------------------
(* Model checking of OciStore: the images a build may begin with.             *)
EXTENDS OciStore, TLC

CONSTANTS f1, f2, f3

Empty == [layers |-> <<>>, tar |-> FALSE]
FromTar(f) == [layers |-> <<{f}>>, tar |-> TRUE]
FromImage(f, g) == [layers |-> <<{f}, {g}>>, tar |-> FALSE]

StartEmpty == {Empty}
StartAny == {Empty, FromTar(f1), FromImage(f1, f2)}

\* The same for every choice of files, so that no file is special.
StartEvery == {Empty} \cup {FromTar(f) : f \in File}
              \cup {FromImage(f, g) : <<f, g>> \in {p \in File \X File : p[1] # p[2]}}
FileSymmetry == Permutations(File)
================================================================================
