-------------------------- MODULE WorkContext_proofs --------------------------
(*****************************************************************************)
(* Proofs about WorkContext, for any set of invocations: first of commands   *)
(* that overlap, then of commands that a user runs one after the other.      *)
(*****************************************************************************)
EXTENDS WorkContext, FiniteSetTheorems, TLAPS

\* Every step keeps every variable in its type.
LEMMA TypeStep == TypeOK /\ [Next]_vars => TypeOK'
<1> USE NoneAssumption, KindsAssumption
<1> SUFFICES ASSUME TypeOK, [Next]_vars PROVE TypeOK'
  OBVIOUS
<1>1. CASE UNCHANGED vars
  BY <1>1 DEF TypeOK, vars, procVars, dirVars
<1>2. ASSUME NEW p \in Proc, Step(p), Record(p) PROVE TypeOK'
  <2>0. hurt' \subseteq Proc
    BY <1>2 DEF Record, TypeOK
  <2> USE <2>0 DEF TypeOK, InCommand, Resting, Locked, dirVars, Goto, Fail
  <2>1. CASE Start(p)
    <3>1. Absent \in Image
      BY DEF Absent, Image, ImageState
    <3>2. man' \in [Proc -> Image]
      BY <2>1, <3>1 DEF Start
    <3> QED  BY <2>1, <3>2 DEF Start
  <2>2. CASE CheckContext(p)  BY <2>2 DEF CheckContext
  <2>3. CASE LockStat(p)      BY <2>3 DEF LockStat
  <2>4. CASE OpenLock(p)      BY <2>4 DEF OpenLock
  <2>5. CASE OpenFails(p)     BY <2>5 DEF OpenFails
  <2>6. CASE Flock(p)
    <3>1. Body(kind[p]) \in {"mode", "umount", "edit"}
      BY DEF Body, AllKinds
    <3>2. holder' \in [Inode -> Proc \cup {None}]
      BY <2>6 DEF Flock
    <3>3. pc' \in [Proc -> InCommand \cup Resting]
      <4>1. PICK l \in {"mode", "umount", "edit", "exit"} : pc' = [pc EXCEPT ![p] = l]
        BY <2>6, <3>1, Zenon DEF Flock, Goto, Fail
      <4> QED  BY <4>1
    <3>4. failed' \in [Proc -> BOOLEAN]
      BY <2>6 DEF Flock
    <3> QED  BY <2>6, <3>2, <3>3, <3>4, Zenon DEF Flock
  <2>7. CASE Unlock(p)        BY <2>7 DEF Unlock, Release
  <2>8. CASE RemoveLock(p)    BY <2>8 DEF RemoveLock
  <2>9. CASE Exit(p)          BY <2>9 DEF Exit, Release
  <2>10. CASE Crash(p)        BY <2>10 DEF Crash, Release
  <2>11. CASE MakeContext(p)  BY <2>11 DEF MakeContext
  <2>12. Entries \subseteq {"lock", "mode", "image"}
    BY DEF Entries
  <2>13. CASE BeginMode(p)
    <3>1. mode' \in BOOLEAN
      BY <2>13, Zenon DEF BeginMode
    <3>2. todo' \in [Proc -> SUBSET {"lock", "mode", "image"}]
      <4>1. \/ todo' = todo
            \/ todo' = [todo EXCEPT ![p] = Entries]
            \/ todo' = [todo EXCEPT ![p] = Entries \cup {"mode"}]
        BY <2>13 DEF BeginMode, BeginFailsTo
      <4>2. todo \in [Proc -> SUBSET {"lock", "mode", "image"}]
        OBVIOUS
      <4> HIDE DEF TypeOK
      <4> QED  BY <2>12, <4>1, <4>2
    <3>3. failed' \in [Proc -> BOOLEAN] /\ pc' \in [Proc -> InCommand \cup Resting]
      BY <2>13 DEF BeginMode, BeginFailsTo
    <3> QED  BY <2>13, <3>1, <3>2, <3>3, Zenon DEF BeginMode
  <2>14. CASE BeginDir(p)
    <3>1. image' \in Image
      BY <2>14 DEF BeginDir, Absent, Image, ImageState
    <3> QED  BY <2>12, <2>14, <3>1 DEF BeginDir, BeginFailsTo
  <2>15. CASE BeginFill(p)
    <3>1. image' \in Image
      BY <2>15 DEF BeginFill, Whole, Image, ImageState
    <3> QED  BY <2>15, <3>1 DEF BeginFill
  <2>16. CASE BeginFillBad(p)
    <3>1. image' \in Image
      BY <2>16 DEF BeginFillBad, Image, ImageState
    <3> QED  BY <2>16, <3>1 DEF BeginFillBad
  <2>17. CASE BeginFillFails(p)
    <3>1. image' \in Image
      BY <2>17 DEF BeginFillFails, Image, ImageState
    <3> QED  BY <2>12, <2>17, <3>1 DEF BeginFillFails, BeginFailsTo
  <2>18. CASE BeginLoad(p)
    <3>1. todo' \in [Proc -> SUBSET {"lock", "mode", "image"}]
      <4>1. todo' = todo \/ todo' = [todo EXCEPT ![p] = Entries]
        BY <2>18 DEF BeginLoad, BeginFailsTo
      <4>2. todo \in [Proc -> SUBSET {"lock", "mode", "image"}]
        OBVIOUS
      <4> HIDE DEF TypeOK
      <4> QED  BY <2>12, <4>1, <4>2
    <3>2. failed' \in [Proc -> BOOLEAN] /\ pc' \in [Proc -> InCommand \cup Resting]
      BY <2>18 DEF BeginLoad, BeginFailsTo
    <3> QED  BY <2>18, <3>1, <3>2 DEF BeginLoad
  <2>19. CASE EndUnmount(p)   BY <2>12, <2>19 DEF EndUnmount
  <2>20. CASE RemoveEntry(p)
    <3>1. image' \in Image
      BY <2>20 DEF RemoveEntry, Absent, Image, ImageState
    <3>2. mode' \in BOOLEAN
      BY <2>20, Zenon DEF RemoveEntry
    <3>3. todo' \in [Proc -> SUBSET {"lock", "mode", "image"}] /\ lockPath' \in Inode \cup {None}
      BY <2>20 DEF RemoveEntry
    <3>4. UNCHANGED <<kind, pc, failed, man, out, fd, ctx, holder>>
      BY <2>20 DEF RemoveEntry
    <3> QED  BY <3>1, <3>2, <3>3, <3>4
  <2>25. CASE RemoveEntryFails(p)
    <3>1. image' \in Image
      BY <2>25 DEF RemoveEntryFails, Absent, Image, ImageState
    <3>2. todo' \in [Proc -> SUBSET {"lock", "mode", "image"}]
      BY <2>25 DEF RemoveEntryFails
    <3>3. UNCHANGED <<kind, pc, failed, man, out, fd, ctx, mode, lockPath, holder>>
      BY <2>25 DEF RemoveEntryFails
    <3> QED  BY <3>1, <3>2, <3>3
  <2>21. CASE RemoveContext(p)
    <3>1. ctx' \in BOOLEAN
      BY <2>21, Zenon DEF RemoveContext
    <3>2. failed' \in [Proc -> BOOLEAN] /\ pc' \in [Proc -> InCommand \cup Resting]
      BY <2>21 DEF RemoveContext
    <3> QED  BY <2>21, <3>1, <3>2, Zenon DEF RemoveContext
  <2>22. CASE EditFails(p)   BY <2>22 DEF EditFails
  <2>23. CASE EditTruncate(p)
    <3>1. image' \in Image
      BY <2>23 DEF EditTruncate, Image, ImageState
    <3>2. out' \in [Proc -> Proc \cup {None}]
      BY <2>23 DEF EditTruncate, Image
    <3> QED  BY <2>23, <3>1, <3>2 DEF EditTruncate
  <2>24. CASE EditWrite(p)
    <3>1. image' \in Image
      BY <2>24 DEF EditWrite, Whole, Image, ImageState
    <3> QED  BY <2>24, <3>1 DEF EditWrite
  <2>26. CASE EditWriteFails(p)
    <3>1. image' \in Image
      BY <2>26 DEF EditWriteFails, Image, ImageState
    <3> QED  BY <2>26, <3>1 DEF EditWriteFails
  <2> QED
    BY <1>2, <2>1, <2>2, <2>3, <2>4, <2>5, <2>6, <2>7, <2>8, <2>9, <2>10, <2>11,
       <2>13, <2>14, <2>15, <2>16, <2>17, <2>18, <2>19, <2>20, <2>21, <2>22,
       <2>23, <2>24, <2>25, <2>26
       DEF Step, LockStep, BeginStep, EndStep, EditStep
<1> QED  BY <1>1, <1>2 DEF Next

\* Every reachable state of any number of overlapping commands is well typed.
THEOREM TypeCorrect == Spec => []TypeOK
<1>1. Init => TypeOK
  BY NoneAssumption, FlagsAssumption
     DEF Init, TypeOK, Resting, InCommand, Absent, Whole, Image, ImageState
<1> QED  BY <1>1, TypeStep, PTL DEF Spec

-----------------------------------------------------------------------------
(* The flock discipline.  LockInv is the inductive strengthening: the kernel's *)
(* table points back to a descriptor, everybody between lock() and LOCK_UN is  *)
(* in the table, and a process about to call flock is not.                     *)

NoDescriptor == {"start", "stat", "mkdir", "lockstat", "open", "rmlock", "done", "dead"}

HoldersRun ==
    \A i \in Inode : \A p \in Proc :
       holder[i] = p => fd[p] = i /\ pc[p] \in Locked \cup {"exit"}

CritHolds == \A p \in Proc : InCrit(p) => fd[p] \in Inode /\ holder[fd[p]] = p

FlockOpen == \A p \in Proc : pc[p] = "flock" => fd[p] \in Inode

NoneOpen == \A p \in Proc : pc[p] \in NoDescriptor => fd[p] = None

LockInv == HoldersRun /\ CritHolds /\ FlockOpen /\ NoneOpen

\* A step that leaves descriptors and the kernel's table alone, and keeps the
\* process on the same side of every boundary, cannot disturb LockInv.
LEMMA QuietStep ==
    ASSUME TypeOK, LockInv, NEW p \in Proc, NEW l, fd' = fd, holder' = holder,
           pc' = [pc EXCEPT ![p] = l],
           \/ pc[p] \in NoDescriptor /\ l \in NoDescriptor \cup {"exit"}
           \/ pc[p] \in Locked /\ l \in Locked \cup {"exit"}
           \/ pc[p] = "flock" /\ l = "exit"
    PROVE  LockInv'
<1> USE NoneAssumption DEF Locked, NoDescriptor
<1>1. \A q \in Proc : pc'[q] = IF q = p THEN l ELSE pc[q]
  BY DEF TypeOK
<1>2. HoldersRun'
  BY <1>1 DEF LockInv, HoldersRun, NoneOpen
<1>3. CritHolds'
  BY <1>1 DEF LockInv, CritHolds, InCrit
<1>4. FlockOpen' /\ NoneOpen'
  BY <1>1 DEF LockInv, FlockOpen, NoneOpen
<1> QED  BY <1>2, <1>3, <1>4 DEF LockInv

\* Dropping a process's descriptor and lock together is always safe.
LEMMA ReleaseStep ==
    ASSUME TypeOK, LockInv, NEW p \in Proc, Release(p),
           NEW l \in NoDescriptor, pc' = [pc EXCEPT ![p] = l]
    PROVE  LockInv'
<1> USE NoneAssumption DEF Locked, NoDescriptor, Release
<1>1. /\ \A q \in Proc : pc'[q] = IF q = p THEN l ELSE pc[q]
      /\ \A q \in Proc : fd'[q] = IF q = p THEN None ELSE fd[q]
      /\ \A i \in Inode : holder'[i] = IF holder[i] = p THEN None ELSE holder[i]
  BY DEF TypeOK
<1>2. HoldersRun'
  BY <1>1 DEF LockInv, HoldersRun
<1>3. CritHolds'
  BY <1>1 DEF LockInv, CritHolds, InCrit
<1>4. FlockOpen' /\ NoneOpen'
  BY <1>1 DEF LockInv, FlockOpen, NoneOpen
<1> QED  BY <1>2, <1>3, <1>4 DEF LockInv

LEMMA LockStepInv == TypeOK /\ LockInv /\ [Next]_vars => LockInv'
<1> SUFFICES ASSUME TypeOK, LockInv, [Next]_vars PROVE LockInv'
  OBVIOUS
<1>1. CASE UNCHANGED vars
  BY <1>1 DEF LockInv, HoldersRun, CritHolds, FlockOpen, NoneOpen, InCrit,
              vars, procVars, dirVars
<1>2. ASSUME NEW p \in Proc, Step(p) PROVE LockInv'
  <2>1. CASE Start(p)
    <3>1. PICK l : Goto(p, l) /\ l \in {"stat", "lockstat", "exit"}
      BY <2>1 DEF Start, Fail
    <3> QED  BY <2>1, <3>1, QuietStep DEF Start, Goto, NoDescriptor
  <2>2. CASE CheckContext(p)
    <3>1. PICK l : Goto(p, l) /\ l \in {"mkdir", "lockstat", "exit"}
      BY <2>2 DEF CheckContext, Fail
    <3> QED  BY <2>2, <3>1, QuietStep DEF CheckContext, Goto, NoDescriptor
  <2>3. CASE LockStat(p)
    <3>1. PICK l : Goto(p, l) /\ l \in {"open", "exit"}
      BY <2>3 DEF LockStat, Fail
    <3> QED  BY <2>3, <3>1, QuietStep DEF LockStat, Goto, NoDescriptor
  <2>4. CASE OpenLock(p)
    <3> USE NoneAssumption DEF Locked, NoDescriptor
    <3>1. PICK i \in Inode : fd' = [fd EXCEPT ![p] = i]
      BY <2>4 DEF OpenLock
    <3>2. /\ \A q \in Proc : pc'[q] = IF q = p THEN "flock" ELSE pc[q]
          /\ \A q \in Proc : fd'[q] = IF q = p THEN i ELSE fd[q]
          /\ holder' = holder
          /\ pc[p] = "open"
      BY <2>4, <3>1 DEF OpenLock, Goto, TypeOK
    <3>3. HoldersRun'
      BY <3>2 DEF LockInv, HoldersRun
    <3>4. CritHolds'
      BY <3>2 DEF LockInv, CritHolds, InCrit
    <3>5. FlockOpen' /\ NoneOpen'
      BY <3>2 DEF LockInv, FlockOpen, NoneOpen
    <3> QED  BY <3>3, <3>4, <3>5 DEF LockInv
  <2>5. CASE OpenFails(p)
    BY <2>5, QuietStep DEF OpenFails, Fail, Goto, NoDescriptor
  <2>6. CASE Flock(p)
    <3>1. CASE holder[fd[p]] = None
      <4> USE NoneAssumption DEF Locked, NoDescriptor
      <4>1. fd[p] \in Inode
        BY <2>6 DEF Flock, LockInv, FlockOpen
      <4>2. /\ \A q \in Proc : pc'[q] = IF q = p THEN Body(kind[p]) ELSE pc[q]
            /\ \A i \in Inode : holder'[i] = IF i = fd[p] THEN p ELSE holder[i]
            /\ fd' = fd
        BY <2>6, <3>1, <4>1 DEF Flock, Goto, TypeOK
      <4>3. Body(kind[p]) \in {"mode", "umount", "edit"}
        BY KindsAssumption DEF Body, TypeOK, AllKinds
      <4>4. HoldersRun'
        BY <4>2, <4>3 DEF LockInv, HoldersRun
      <4>5. CritHolds'
        BY <3>1, <4>1, <4>2, <4>3 DEF LockInv, CritHolds, InCrit
      <4>6. FlockOpen' /\ NoneOpen'
        BY <4>2, <4>3 DEF LockInv, FlockOpen, NoneOpen
      <4> QED  BY <4>4, <4>5, <4>6 DEF LockInv
    <3>2. CASE holder[fd[p]] # None
      BY <2>6, <3>2, QuietStep DEF Flock, Fail, Goto
    <3> QED  BY <3>1, <3>2
  <2>7. CASE Unlock(p)
    BY <2>7, ReleaseStep DEF Unlock, Goto, NoDescriptor
  <2>8. CASE RemoveLock(p)
    <3>1. Goto(p, "exit")
      BY <2>8 DEF RemoveLock, Fail
    <3> QED  BY <2>8, <3>1, QuietStep DEF RemoveLock, Goto, NoDescriptor
  <2>9. CASE Exit(p)
    BY <2>9, ReleaseStep DEF Exit, Goto, NoDescriptor
  <2>10. CASE Crash(p)
    BY <2>10, ReleaseStep DEF Crash, Fail, Goto, NoDescriptor
  <2>11. CASE MakeContext(p)
    <3>1. PICK l : Goto(p, l) /\ l \in {"lockstat", "exit"}
      BY <2>11 DEF MakeContext, Fail
    <3> QED  BY <2>11, <3>1, QuietStep DEF MakeContext, Goto, NoDescriptor
  <2>12. ASSUME \/ BeginMode(p) \/ BeginDir(p) \/ BeginFill(p) \/ BeginFillBad(p)
                \/ BeginFillFails(p) \/ BeginLoad(p)
         PROVE  LockInv'
    <3>1. PICK l : Goto(p, l) /\ l \in {"dir", "fill", "load", "rm", "unlock"}
      BY <2>12 DEF BeginMode, BeginDir, BeginFill, BeginFillBad, BeginFillFails,
                   BeginLoad, BeginFailsTo, Fail
    <3>2. pc[p] \in {"mode", "dir", "fill", "load"} /\ UNCHANGED <<fd, holder>>
      BY <2>12 DEF BeginMode, BeginDir, BeginFill, BeginFillBad, BeginFillFails,
                   BeginLoad, dirVars
    <3> QED  BY <3>1, <3>2, QuietStep DEF Goto, Locked
  <2>13. CASE EndUnmount(p)
    <3>1. PICK l : Goto(p, l) /\ l \in {"rm", "exit"}
      BY <2>13 DEF EndUnmount, Fail
    <3> QED  BY <2>13, <3>1, QuietStep DEF EndUnmount, Goto, Locked
  <2>14. CASE RemoveEntry(p) \/ RemoveEntryFails(p)
    BY <2>14 DEF RemoveEntry, RemoveEntryFails, LockInv, HoldersRun, CritHolds, FlockOpen, NoneOpen, InCrit
  <2>15. CASE RemoveContext(p)
    <3>1. PICK l : Goto(p, l) /\ l \in {"unlock", "exit"}
      BY <2>15 DEF RemoveContext, Fail
    <3> QED  BY <2>15, <3>1, QuietStep DEF RemoveContext, Goto, Locked
  <2>16. ASSUME EditFails(p) \/ EditTruncate(p) \/ EditWrite(p) \/ EditWriteFails(p)
         PROVE  LockInv'
    <3>1. PICK l : Goto(p, l) /\ l \in {"write", "unlock"}
      BY <2>16 DEF EditFails, EditTruncate, EditWrite, EditWriteFails, Fail
    <3>2. pc[p] \in {"edit", "write"} /\ UNCHANGED <<fd, holder>>
      BY <2>16 DEF EditFails, EditTruncate, EditWrite, EditWriteFails, dirVars
    <3> QED  BY <3>1, <3>2, QuietStep DEF Goto, Locked
  <2> QED
    BY <1>2, <2>1, <2>2, <2>3, <2>4, <2>5, <2>6, <2>7, <2>8, <2>9, <2>10, <2>11,
       <2>12, <2>13, <2>14, <2>15, <2>16
       DEF Step, LockStep, BeginStep, EndStep, EditStep
<1> QED  BY <1>1, <1>2 DEF Next

LEMMA LockInvariant == Spec => [](TypeOK /\ LockInv)
<1>1. Init => LockInv
  BY NoneAssumption DEF Init, LockInv, HoldersRun, CritHolds, FlockOpen, NoneOpen, InCrit,
                        Locked, NoDescriptor
<1> QED  BY <1>1, LockStepInv, TypeCorrect, PTL DEF Spec

\* However many commands overlap, fail or are killed, and whatever unlock() and
\* RemoveAll do to the name of the lock file, no two commands past lock() hold
\* the lock of the same file.
THEOREM LockFileExclusive == Spec => []OneOwnerPerLockFile
<1>1. TypeOK /\ LockInv => OneOwnerPerLockFile
  BY DEF OneOwnerPerLockFile, LockInv, CritHolds
<1> QED  BY <1>1, LockInvariant, PTL

\* lock() is refused only while another command that has not exited holds the
\* same file, so a lock file that a killed command left behind blocks nobody.
THEOREM StaleLockHarmless == Spec => StaleLockNeverBlocks
<1> DEFINE A == \A p \in Proc : pc[p] = "flock" /\ pc'[p] = "exit" =>
                  \E q \in Proc \ {p} : /\ pc[q] \in Locked \cup {"exit"}
                                          /\ fd[q] = fd[p]
<1>1. ASSUME TypeOK, LockInv, Next PROVE A
  <2> SUFFICES ASSUME NEW p \in Proc, pc[p] = "flock", pc'[p] = "exit"
               PROVE  \E q \in Proc \ {p} : /\ pc[q] \in Locked \cup {"exit"}
                                              /\ fd[q] = fd[p]
    OBVIOUS
  <2>1. PICK r \in Proc : Step(r)
    BY <1>1 DEF Next
  <2>2. r = p
    BY <1>1, <2>1
       DEF TypeOK, Step, LockStep, BeginStep, EndStep, EditStep, Start, CheckContext,
           LockStat, OpenLock, OpenFails, Flock, Unlock, RemoveLock, Exit, Crash,
           MakeContext, BeginMode, BeginDir, BeginFill, BeginFillBad, BeginFillFails,
           BeginLoad, BeginFailsTo, EndUnmount, RemoveEntry, RemoveEntryFails, RemoveContext, EditFails,
           EditTruncate, EditWrite, EditWriteFails, Goto, Fail
  <2>3. Flock(p)
    BY <1>1, <2>1, <2>2
       DEF TypeOK, Step, LockStep, BeginStep, EndStep, EditStep, Start, CheckContext,
           LockStat, OpenLock, OpenFails, Flock, Unlock, RemoveLock, Exit, Crash,
           MakeContext, BeginMode, BeginDir, BeginFill, BeginFillBad, BeginFillFails,
           BeginLoad, EndUnmount, RemoveEntry, RemoveEntryFails, RemoveContext, EditFails,
           EditTruncate, EditWrite, EditWriteFails, Goto, Fail
  <2>4. fd[p] \in Inode
    BY <1>1 DEF LockInv, FlockOpen
  <2>5. holder[fd[p]] # None
    BY <1>1, <2>3, KindsAssumption DEF Flock, Goto, Body, TypeOK, AllKinds
  <2>6. holder[fd[p]] \in Proc
    BY <1>1, <2>4, <2>5 DEF TypeOK
  <2>7. fd[holder[fd[p]]] = fd[p] /\ pc[holder[fd[p]]] \in Locked \cup {"exit"}
    BY <1>1, <2>4, <2>6 DEF LockInv, HoldersRun
  <2>8. holder[fd[p]] # p
    BY <2>7 DEF Locked
  <2> QED  BY <2>6, <2>7, <2>8
<1>2. TypeOK /\ LockInv /\ [Next]_vars => [A]_vars
  BY <1>1
<1> QED  BY <1>2, LockInvariant, PTL DEF Spec, StaleLockNeverBlocks

-----------------------------------------------------------------------------
(* Two edits.  unlock() removes the name of the lock file after it has given   *)
(* the lock up, so a third command can lock a new file while a second one      *)
(* holds the old one.  With two edits there is no third: PairInv says that     *)
(* when a process has a file that has lost its name, another one has removed   *)
(* it and is over, and nobody else is running.                                 *)

Started == {p \in Proc : pc[p] # "start"}
Few == kind \in [Proc -> {"edit"}] /\ Cardinality(Started) <= 2

Over == {"exit", "done", "dead"}

EditPcs ==
    \A p \in Proc : pc[p] \in {"start", "lockstat", "open", "flock", "edit", "write",
                              "unlock", "rmlock"} \cup Over

Unnamed ==
    \A p \in Proc : fd[p] # None /\ fd[p] # lockPath =>
       /\ \E r \in Proc \ {p} : pc[r] \in Over
       /\ \A q \in Proc \ {p} : pc[q] \in Over \cup {"start"}

PairInv == Few => EditPcs /\ Unnamed

\* A set of at most two has no third element.
LEMMA NoThird ==
    ASSUME NEW S, IsFiniteSet(S), Cardinality(S) <= 2,
           NEW p \in S, NEW q \in S, NEW r \in S
    PROVE  p = q \/ q = r \/ p = r
<1> SUFFICES ASSUME p # q, q # r, p # r PROVE FALSE
  OBVIOUS
<1>1. IsFiniteSet({p}) /\ Cardinality({p}) = 1
  BY FS_Singleton
<1>2. IsFiniteSet({p} \cup {q}) /\ Cardinality({p} \cup {q}) = 2
  <2>1. q \notin {p}
    OBVIOUS
  <2>2. Cardinality({p} \cup {q}) = Cardinality({p}) + 1
    BY <1>1, <2>1, FS_AddElement
  <2> QED  BY <1>1, <2>1, <2>2, FS_AddElement
<1>3. Cardinality(({p} \cup {q}) \cup {r}) = 3
  <2> DEFINE P == {p} \cup {q}
  <2>1. r \notin P /\ IsFiniteSet(P) /\ Cardinality(P) = 2
    BY <1>2
  <2> HIDE DEF P
  <2>2. Cardinality(P \cup {r}) = Cardinality(P) + 1
    BY <2>1, FS_AddElement, Zenon
  <2>3. Cardinality(P \cup {r}) = 3
    BY <2>1, <2>2
  <2> QED  BY <2>3 DEF P
<1>4. ({p} \cup {q}) \cup {r} \in SUBSET S
  OBVIOUS
<1>5. 3 <= Cardinality(S)
  BY <1>3, <1>4, FS_Subset
<1>6. Cardinality(S) \in Nat
  BY FS_CardinalityType
<1> QED  BY <1>5, <1>6

\* A step moves one command, and never back to its start.
LEMMA StepStarts ==
    ASSUME TypeOK, NEW p \in Proc, Step(p)
    PROVE  /\ kind' = kind
           /\ \A q \in Proc \ {p} : pc'[q] = pc[q]
           /\ pc'[p] # "start"
<1> USE DEF Goto, Fail
<1>1. Body(kind[p]) # "start"
  BY KindsAssumption DEF Body, TypeOK, AllKinds
<1>2. \A l : pc' = [pc EXCEPT ![p] = l] =>
                pc'[p] = l /\ \A q \in Proc \ {p} : pc'[q] = pc[q]
  BY DEF TypeOK
<1>3. CASE Start(p) \/ CheckContext(p) \/ LockStep(p) \/ EditStep(p) \/ Exit(p) \/ Crash(p)
  BY <1>1, <1>2, <1>3
     DEF Start, CheckContext, LockStep, LockStat, OpenLock, OpenFails, Flock, Unlock,
         RemoveLock, EditStep, EditFails, EditTruncate, EditWrite, EditWriteFails, Exit, Crash
<1>4. CASE BeginStep(p) \/ EndStep(p)
  BY <1>2, <1>4
     DEF BeginStep, MakeContext, BeginMode, BeginDir, BeginFill, BeginFillBad,
         BeginFillFails, BeginFailsTo, BeginLoad, EndStep, EndUnmount, RemoveEntry, RemoveEntryFails,
         RemoveContext
<1> QED  BY <1>3, <1>4 DEF Step

LEMMA PairStep ==
    ASSUME IsFiniteSet(Proc)
    PROVE  TypeOK /\ LockInv /\ PairInv /\ [Next]_vars => PairInv'
<1> SUFFICES ASSUME TypeOK, LockInv, PairInv, [Next]_vars PROVE PairInv'
  OBVIOUS
<1>1. CASE UNCHANGED vars
  BY <1>1 DEF PairInv, Few, Started, EditPcs, Unnamed, vars, procVars, dirVars
<1>2. ASSUME NEW p \in Proc, Step(p), Few' PROVE EditPcs' /\ Unnamed'
  <2> USE NoneAssumption DEF Over
  <2>a. /\ kind' = kind
        /\ \A q \in Proc \ {p} : pc'[q] = pc[q]
        /\ pc'[p] # "start"
    BY <1>2, StepStarts
  <2>b. Started \in SUBSET Started' /\ p \in Started'
    BY <2>a DEF Started
  <2>c. IsFiniteSet(Started') /\ Cardinality(Started') <= 2
    BY <1>2, FS_Subset DEF Started, Few
  <2>d. IsFiniteSet(Started) /\ Cardinality(Started) <= 2
    <3>1. IsFiniteSet(Started) /\ Cardinality(Started) <= Cardinality(Started')
      BY <2>b, <2>c, FS_Subset
    <3> QED  BY <2>c, <3>1, FS_CardinalityType
  <2>e. EditPcs /\ Unnamed
    BY <1>2, <2>a, <2>d DEF PairInv, Few
  <2>f. \A q, r \in Started' : p = q \/ q = r \/ p = r
    BY <2>b, <2>c, NoThird
  <2>1. kind[p] = "edit"
    BY <1>2, <2>a DEF Few
  <2>2. pc[p] \in {"start", "lockstat", "open", "flock", "edit", "write",
                   "unlock", "rmlock", "exit", "done", "dead"}
    BY <2>e DEF EditPcs
  \* A process with a descriptor has started.
  <2>g. \A q \in Proc : fd[q] # None => q \in Started'
    BY <2>b DEF LockInv, NoneOpen, NoDescriptor, Started
  \* Before the step p is not yet over, or has not started: nobody's file has lost
  \* its name, unless it is p's own.
  <2>h. ASSUME pc[p] \notin Over
        PROVE  \A q \in Proc \ {p} : fd[q] = None \/ fd[q] = lockPath
    <3> SUFFICES ASSUME NEW q \in Proc \ {p}, fd[q] # None, fd[q] # lockPath PROVE FALSE
      OBVIOUS
    <3>1. PICK r \in Proc \ {q} : pc[r] \in Over
      BY <2>e DEF Unnamed
    <3>2. r \in Started' /\ r # p
      BY <2>b, <2>h, <3>1 DEF Started
    <3> QED  BY <2>f, <2>g, <3>2
  \* Steps that change neither a descriptor nor the name, of a process that is not over.
  <2>3. ASSUME NEW l, pc' = [pc EXCEPT ![p] = l], fd' = fd, lockPath' = lockPath,
               pc[p] \notin Over,
               l \in {"lockstat", "open", "flock", "edit", "write", "unlock", "exit"}
        PROVE  EditPcs' /\ Unnamed'
    <3>1. \A q \in Proc : pc'[q] = IF q = p THEN l ELSE pc[q]
      BY <2>3 DEF TypeOK
    <3>2. EditPcs'
      BY <2>3, <2>e, <3>1 DEF EditPcs
    <3>3. Unnamed'
      BY <2>3, <2>e, <2>h, <3>1 DEF Unnamed
    <3> QED  BY <3>2, <3>3
  \* Steps that drop the descriptor.
  <2>4. ASSUME NEW l \in {"rmlock", "done", "dead"}, pc' = [pc EXCEPT ![p] = l],
               fd' = [fd EXCEPT ![p] = None], lockPath' = lockPath,
               pc[p] \in Over => l \in Over
        PROVE  EditPcs' /\ Unnamed'
    <3>1. /\ \A q \in Proc : pc'[q] = IF q = p THEN l ELSE pc[q]
          /\ \A q \in Proc : fd'[q] = IF q = p THEN None ELSE fd[q]
      BY <2>4 DEF TypeOK
    <3>2. EditPcs'
      BY <2>4, <2>e, <3>1 DEF EditPcs
    <3>3. Unnamed'
      <4>1. CASE pc[p] \in Over
        BY <2>4, <2>e, <3>1, <4>1 DEF Unnamed
      <4>2. CASE pc[p] \notin Over
        BY <2>4, <2>h, <3>1, <4>2 DEF Unnamed
      <4> QED  BY <4>1, <4>2
    <3> QED  BY <3>2, <3>3
  <2>5. CASE Start(p)
    <3>1. PICK l : Goto(p, l) /\ l \in {"lockstat", "exit"}
      BY <2>1, <2>5 DEF Start, Fail
    <3> QED  BY <2>3, <2>5, <3>1 DEF Start, Goto, dirVars
  <2>6. CASE LockStat(p)
    <3>1. PICK l : Goto(p, l) /\ l \in {"open", "exit"}
      BY <2>6 DEF LockStat, Fail
    <3> QED  BY <2>3, <2>6, <3>1 DEF LockStat, Goto, dirVars
  <2>7. CASE OpenLock(p)
    <3>1. PICK i \in Inode : /\ fd' = [fd EXCEPT ![p] = i] /\ lockPath' = i
                             /\ i = lockPath \/ lockPath = None
      BY <2>7 DEF OpenLock
    <3>2. /\ \A q \in Proc : pc'[q] = IF q = p THEN "flock" ELSE pc[q]
          /\ \A q \in Proc : fd'[q] = IF q = p THEN i ELSE fd[q]
          /\ pc[p] = "open"
      BY <2>7, <3>1 DEF OpenLock, Goto, TypeOK
    <3>3. EditPcs'
      BY <2>e, <3>2 DEF EditPcs
    \* p has not finished, so everybody else's file still has its name.
    <3>4. \A q \in Proc \ {p} : fd[q] = None \/ (fd[q] = lockPath /\ lockPath = i)
      BY <2>e, <2>h, <3>1, <3>2
    <3>5. Unnamed'
      BY <3>1, <3>2, <3>4 DEF Unnamed
    <3> QED  BY <3>3, <3>5
  <2>8. CASE OpenFails(p)
    BY <2>3, <2>8 DEF OpenFails, Fail, Goto, dirVars
  <2>9. CASE Flock(p)
    <3>1. PICK l : Goto(p, l) /\ l \in {"edit", "exit"}
      BY <2>1, <2>9 DEF Flock, Fail, Body
    <3> QED  BY <2>3, <2>9, <3>1 DEF Flock, Goto, dirVars
  <2>10. CASE Unlock(p)
    BY <2>4, <2>10 DEF Unlock, Release, Goto, dirVars
  <2>11. CASE RemoveLock(p) /\ lockPath' # None
    BY <2>3, <2>11 DEF RemoveLock, Fail, Goto
  <2>18. CASE RemoveLock(p) /\ lockPath' = None
    <3>1. /\ \A q \in Proc : pc'[q] = IF q = p THEN "exit" ELSE pc[q]
          /\ fd' = fd /\ lockPath' = None /\ pc[p] = "rmlock"
      BY <2>18 DEF RemoveLock, Goto, Fail, TypeOK
    <3>2. EditPcs'
      BY <2>e, <3>1 DEF EditPcs
    <3>3. fd[p] = None
      BY <3>1 DEF LockInv, NoneOpen, NoDescriptor
    \* Whoever still has a file is the only other command that has started.
    <3>4. Unnamed'
      <4> SUFFICES ASSUME NEW q \in Proc, fd'[q] # None
                   PROVE  /\ \E r \in Proc \ {q} : pc'[r] \in Over
                          /\ \A r \in Proc \ {q} : pc'[r] \in Over \cup {"start"}
        BY DEF Unnamed
      <4>1. q # p /\ q \in Started'
        BY <2>g, <3>1, <3>3
      <4>2. \A r \in Proc \ {q} : r # p => pc'[r] = "start"
        BY <2>f, <4>1 DEF Started
      <4> QED  BY <3>1, <4>1, <4>2
    <3> QED  BY <3>2, <3>4
  <2>12. CASE Exit(p)
    BY <2>4, <2>12 DEF Exit, Release, Goto, dirVars
  <2>13. CASE Crash(p)
    BY <2>4, <2>13 DEF Crash, Release, Fail, Goto, dirVars
  <2>14. CASE EditFails(p)
    BY <2>3, <2>14 DEF EditFails, Fail, Goto, dirVars
  <2>15. CASE EditTruncate(p)
    <3>1. PICK l : Goto(p, l) /\ l \in {"write", "unlock"}
      BY <2>15 DEF EditTruncate, Fail
    <3> QED  BY <2>3, <2>15, <3>1 DEF EditTruncate, Goto
  <2>16. CASE EditWrite(p) \/ EditWriteFails(p)
    BY <2>3, <2>16 DEF EditWrite, EditWriteFails, Fail, Goto
  <2>17. ~(CheckContext(p) \/ BeginStep(p) \/ EndStep(p))
    BY <2>2 DEF CheckContext, BeginStep, EndStep, MakeContext, BeginMode, BeginDir,
                BeginFill, BeginFillBad, BeginFillFails, BeginLoad, EndUnmount,
                RemoveEntry, RemoveEntryFails, RemoveContext
  <2> QED
    BY <1>2, <2>5, <2>6, <2>7, <2>8, <2>9, <2>10, <2>11, <2>12, <2>13, <2>14, <2>15,
       <2>16, <2>17, <2>18 DEF Step, LockStep, EditStep
<1>3. CASE Next
  BY <1>2, <1>3 DEF Next, PairInv
<1> QED  BY <1>1, <1>3

\* In a run of edits, as long as no more than two have started, they are never both
\* past lock(), even if one is killed.  The run WorkContext_ThreeEdits shows that the
\* bound is sharp.
THEOREM TwoEditsExclude ==
    ASSUME IsFiniteSet(Proc)
    PROVE  Spec => []PairsExclude
<1>1. Init => PairInv
  BY NoneAssumption DEF Init, PairInv, EditPcs, Unnamed
<1>2. TypeOK /\ LockInv /\ PairInv => PairsExclude
  <2> SUFFICES ASSUME TypeOK, LockInv, PairInv, Few,
                      NEW p \in Proc, NEW q \in Proc, InCrit(p), InCrit(q), p # q
               PROVE  FALSE
    BY DEF PairsExclude, MutualExclusion, Few, Started
  <2>1. /\ fd[p] \in Inode /\ holder[fd[p]] = p
        /\ fd[q] \in Inode /\ holder[fd[q]] = q
    BY DEF LockInv, CritHolds
  <2>2. fd[p] # lockPath \/ fd[q] # lockPath
    BY <2>1
  <2>3. pc[p] \in Over \cup {"start"} \/ pc[q] \in Over \cup {"start"}
    BY <2>1, <2>2, NoneAssumption DEF PairInv, Unnamed
  <2> QED  BY <2>3 DEF InCrit, Locked, Over
<1>3. TypeOK /\ LockInv /\ PairInv /\ [Next]_vars => PairInv'
  BY PairStep
<1> QED  BY <1>1, <1>2, <1>3, LockInvariant, PTL DEF Spec

-----------------------------------------------------------------------------
(* One command after the other.                                               *)

\* What the user sees to: no command starts while another one runs.  The number of
\* commands, where they fail, what the disk does to them and whether they are killed
\* are left open.
OneAtATime == ~Overlap

Active(p) == pc[p] \notin Resting

\* Nobody but p is running.
Only(p) == \A q \in Proc \ {p} : pc[q] \in Resting

-----------------------------------------------------------------------------
(* The inductive invariant.  Placed: nothing is in a directory that does not  *)
(* exist.  At(p): what the directory looks like at each system call of a      *)
(* command, to a command that is not disturbed.  Settled: what a command      *)
(* finds and what it leaves, up to the harm of commands stopped half-way.     *)
(* HurtLast: a command is hurt once, and nothing but its way out is left.     *)

Alone == \A p, q \in Proc : Active(p) /\ Active(q) => p = q

Placed == ~ctx => ~mode /\ lockPath = None /\ image.st = "absent"

Fresh == ctx /\ ~mode /\ image.st = "absent"
Opened == ctx /\ mode /\ image.st = "whole"

BeginAt(p) ==
    /\ pc[p] = "mkdir" => ~ctx
    /\ pc[p] \in {"lockstat", "open", "flock", "mode"} => Fresh
    /\ pc[p] = "dir"  => ctx /\ mode /\ image.st = "absent"
    /\ pc[p] = "fill" => ctx /\ mode /\ image.st = "dir"
    /\ pc[p] = "load" => ctx /\ mode /\ image.st \in {"torn", "whole"} /\ image.edits = {}
    /\ pc[p] = "rm"   => image.st # "whole"

EditAt(p) ==
    /\ pc[p] \in {"lockstat", "open", "flock", "edit"} => mode /\ man[p] = image
    /\ pc[p] = "write" => /\ mode
                          /\ man[p].st = "whole"
                          /\ image.st = "torn"
                          /\ image.file = out[p]

At(p) ==
    /\ pc[p] \in {"mkdir", "mode", "dir", "fill", "load"} => kind[p] = "begin"
    /\ pc[p] \in {"edit", "write"} => kind[p] = "edit"
    /\ pc[p] \in {"stat", "rm"} => kind[p] \in {"begin", "end"}
    /\ pc[p] = "umount" => kind[p] = "end"
    /\ kind[p] = "begin" => BeginAt(p)
    /\ kind[p] = "edit" => EditAt(p)

\* In the middle of building, removing or saving the image.
CreatingBy(p) ==
    kind[p] = "begin" /\ pc[p] \in
        {"lockstat", "open", "flock", "mode", "dir", "fill", "load", "rm"}
Amid(p) == CreatingBy(p) \/ pc[p] \in {"rm", "write"}

\* Between the creation of the lock file and its removal.
Unlocking(p) == pc[p] \in {"flock", "rmlock"} \cup Locked

Spoilt == \E p \in hurt : kind[p] # "edit"
Good == ctx => (mode \/ Spoilt) /\ (image.st = "whole" \/ hurt # {})
Held == lockPath # None => hurt # {} \/ \E p \in Proc : kind[p] = "end" /\ failed[p]

Settled ==
    /\ (\A p \in Proc : ~Amid(p)) => Good
    /\ (\A p \in Proc : ~Unlocking(p)) => Held

Ending == {"unlock", "rmlock", "exit", "done", "dead"}
HurtLast == (~ctx => hurt = {}) /\ \A p \in hurt : pc[p] \in Ending

SessionInv ==
    /\ Alone
    /\ Placed
    /\ \A p \in Proc : At(p)
    /\ Settled
    /\ HurtLast

-----------------------------------------------------------------------------
(* One step of one command.                                                   *)

\* The record a step makes of the manifest has the fields it was given.
LEMMA ImageFields ==
    /\ Absent.st = "absent"
    /\ \A f, es : /\ Whole(f, es).st = "whole"
                  /\ Whole(f, es).file = f
                  /\ Whole(f, es).edits = es
BY DEF Absent, Whole

\* A step moves one command, and no other command runs.
LEMMA OneMoves ==
    ASSUME TypeOK, OneAtATime, Alone, NEW p \in Proc, Step(p)
    PROVE  /\ Only(p)
           /\ pc[p] \notin {"done", "dead"}
           /\ kind' = kind
           /\ pc' = [pc EXCEPT ![p] = pc'[p]]
           /\ failed' = [failed EXCEPT ![p] = failed'[p]]
           /\ failed[p] => failed'[p]
<1> USE DEF Goto, Fail, TypeOK
<1>1. CASE Start(p)
  BY <1>1 DEF Start, OneAtATime, Only, Resting
<1>2. ASSUME ~Start(p)
      PROVE  pc[p] \in InCommand
  BY <1>2 DEF Step, LockStep, BeginStep, EndStep, EditStep, CheckContext,
         LockStat, OpenLock, OpenFails, Flock, Unlock, RemoveLock, Exit, Crash,
         MakeContext, BeginMode, BeginDir, BeginFill, BeginFillBad, BeginFillFails,
         BeginLoad, EndUnmount, RemoveEntry, RemoveEntryFails, RemoveContext, EditFails,
         EditTruncate, EditWrite, EditWriteFails, InCommand, Locked
<1>3. ASSUME ~Start(p)
      PROVE  Only(p) /\ pc[p] \notin {"done", "dead"}
  BY <1>2, <1>3 DEF Alone, Active, Only, InCommand, Locked, Resting
<1>4. ASSUME \/ CheckContext(p) \/ LockStep(p) \/ EditStep(p) \/ Exit(p) \/ Crash(p)
      PROVE  /\ kind' = kind
             /\ pc' = [pc EXCEPT ![p] = pc'[p]]
             /\ failed' = [failed EXCEPT ![p] = failed'[p]]
             /\ failed[p] => failed'[p]
  BY <1>4 DEF LockStep, EditStep, CheckContext, LockStat, OpenLock, OpenFails, Flock,
         Unlock, RemoveLock, Exit, Crash, EditFails, EditTruncate, EditWrite, EditWriteFails
<1>5. ASSUME BeginStep(p) \/ EndStep(p)
      PROVE  /\ kind' = kind
             /\ pc' = [pc EXCEPT ![p] = pc'[p]]
             /\ failed' = [failed EXCEPT ![p] = failed'[p]]
             /\ failed[p] => failed'[p]
  BY <1>5 DEF BeginStep, EndStep, MakeContext, BeginMode, BeginDir, BeginFill,
         BeginFillBad, BeginFillFails, BeginFailsTo, BeginLoad, EndUnmount, RemoveEntry, RemoveEntryFails,
         RemoveContext
<1>6. /\ kind' = kind
      /\ pc' = [pc EXCEPT ![p] = pc'[p]]
      /\ failed' = [failed EXCEPT ![p] = failed'[p]]
      /\ failed[p] => failed'[p]
  BY <1>1, <1>4, <1>5 DEF Step, Start
<1> QED  BY <1>1, <1>3, <1>6 DEF Start
\* The lock is never refused: whoever holds it would be running, and only p is.
LEMMA LockIsFree ==
    ASSUME TypeOK, LockInv, NEW p \in Proc, Only(p), pc[p] = "flock"
    PROVE  holder[fd[p]] = None
<1>1. fd[p] \in Inode
  BY DEF LockInv, FlockOpen
<1>2. holder[fd[p]] # p
  BY <1>1 DEF LockInv, HoldersRun, Locked
<1>3. \A q \in Proc \ {p} : holder[fd[p]] # q
  BY <1>1 DEF LockInv, HoldersRun, Only, Locked, Resting
<1> QED  BY <1>1, <1>2, <1>3 DEF TypeOK

\* What the stepping command finds at its next system call.
LEMMA AtStep ==
    ASSUME TypeOK, LockInv, OneAtATime, SessionInv, NEW p \in Proc, Step(p)
    PROVE  At(p)' /\ Placed'
<1> USE NoneAssumption DEF Goto, Fail
<1>1. TypeOK /\ Only(p) /\ At(p) /\ Placed
  BY OneMoves DEF SessionInv
<1>2. kind[p] \in AllKinds /\ kind' = kind
  BY OneMoves, KindsAssumption DEF TypeOK, SessionInv
<1>3. \A l : pc' = [pc EXCEPT ![p] = l] => pc'[p] = l
  BY DEF TypeOK
<1> HIDE DEF TypeOK
<1>4. CASE Start(p)
  <2>1. man'[p] = IF kind[p] = "edit" THEN image ELSE Absent
    BY <1>4 DEF Start, TypeOK
  <2>2. Placed' /\ pc'[p] \in {"lockstat", "stat", "exit"}
    BY <1>1, <1>3, <1>4 DEF Start, dirVars, Placed
  <2>3. /\ pc'[p] = "stat" => kind[p] \in {"begin", "end"}
        /\ pc'[p] = "lockstat" => kind[p] = "edit" /\ mode
    BY <1>2, <1>3, <1>4 DEF Start, Admitted, AllKinds
  <2> QED  BY <1>2, <1>4, <2>1, <2>2, <2>3 DEF Start, dirVars, At, BeginAt, EditAt
<1>5. CASE CheckContext(p)
  BY <1>1, <1>2, <1>3, <1>5
     DEF CheckContext, dirVars, Placed, At, BeginAt, EditAt
<1>6. CASE MakeContext(p)
  <2>1. pc[p] = "mkdir" /\ ((pc'[p] = "lockstat" /\ ctx') \/ (pc'[p] = "exit" /\ ctx' = ctx))
    BY <1>3, <1>6 DEF MakeContext
  <2> QED
    BY <1>1, <1>2, <1>6, <2>1 DEF MakeContext, Placed, At, BeginAt, EditAt, Fresh
<1>7. CASE LockStat(p)
  BY <1>1, <1>2, <1>3, <1>7
     DEF LockStat, dirVars, Placed, At, BeginAt, EditAt, Fresh
<1>8. CASE OpenLock(p)
  BY <1>1, <1>2, <1>3, <1>8
     DEF OpenLock, Placed, At, BeginAt, EditAt, Fresh
<1>9. CASE OpenFails(p)
  BY <1>1, <1>2, <1>3, <1>9
     DEF OpenFails, dirVars, Placed, At, BeginAt, EditAt, Fresh
<1>10. CASE Flock(p)
  <2>1. pc'[p] = Body(kind[p]) \/ pc'[p] = "exit"
    BY <1>3, <1>10 DEF Flock
  <2>2. /\ kind[p] = "begin" => Body(kind[p]) = "mode"
        /\ kind[p] = "end" => Body(kind[p]) = "umount"
        /\ kind[p] = "edit" => Body(kind[p]) = "edit"
    BY DEF Body
  <2> QED
    BY <1>1, <1>2, <1>10, <2>1, <2>2
       DEF Flock, dirVars, Placed, At, BeginAt, EditAt, Fresh, AllKinds
<1>11. CASE Unlock(p) \/ RemoveLock(p) \/ Exit(p) \/ Crash(p)
  <2>1. pc'[p] \in {"rmlock", "exit", "done", "dead"}
    BY <1>3, <1>11 DEF Unlock, RemoveLock, Exit, Crash
  <2>2. Placed'
    BY <1>1, <1>11 DEF Unlock, RemoveLock, Exit, Crash, dirVars, Placed
  <2> QED  BY <2>1, <2>2 DEF At, BeginAt, EditAt
<1>12. CASE BeginMode(p)
  <2>1. kind[p] = "begin" /\ Fresh
    BY <1>1, <1>12 DEF BeginMode, At, BeginAt
  <2>2. \/ mode' = TRUE /\ pc'[p] = "dir"
        \/ pc'[p] = "rm"
    BY <1>3, <1>12 DEF BeginMode, BeginFailsTo
  <2> QED
    BY <1>1, <1>2, <1>12, <2>1, <2>2
       DEF BeginMode, Placed, At, BeginAt, EditAt, Fresh
<1>13. CASE BeginDir(p)
  <2>1. kind[p] = "begin" /\ ctx /\ mode /\ image.st = "absent"
    BY <1>1, <1>13 DEF BeginDir, At, BeginAt
  <2>2. \/ image'.st = "dir" /\ ctx' /\ pc'[p] = "fill"
        \/ UNCHANGED <<ctx, image>> /\ pc'[p] = "rm"
    BY <1>3, <1>13, <2>1 DEF BeginDir, BeginFailsTo, Absent
  <2> QED
    BY <1>1, <1>2, <1>13, <2>1, <2>2
       DEF BeginDir, Placed, At, BeginAt, EditAt
<1>14. CASE BeginFill(p) \/ BeginFillBad(p)
  <2>1. kind[p] = "begin" /\ ctx /\ mode /\ pc'[p] = "load"
    BY <1>1, <1>3, <1>14 DEF BeginFill, BeginFillBad, At, BeginAt
  <2>2. image'.st \in {"torn", "whole"} /\ image'.edits = {}
    BY <1>14, ImageFields DEF BeginFill, BeginFillBad
  <2> QED
    BY <1>1, <1>2, <1>14, <2>1, <2>2
       DEF BeginFill, BeginFillBad, Placed, At, BeginAt, EditAt
<1>15. CASE BeginFillFails(p)
  <2>1. kind[p] = "begin" /\ ctx /\ mode /\ image.st = "dir" /\ pc'[p] = "rm"
    BY <1>1, <1>3, <1>15 DEF BeginFillFails, BeginFailsTo, At, BeginAt
  <2>2. image'.st \in {"torn", "dir"}
    BY <1>15, <2>1 DEF BeginFillFails
  <2> QED
    BY <1>1, <1>2, <1>15, <2>1, <2>2
       DEF BeginFillFails, Placed, At, BeginAt, EditAt
<1>16. CASE BeginLoad(p)
  <2>1. kind[p] = "begin"
    BY <1>1, <1>16 DEF BeginLoad, At
  <2>3. CASE image.st = "whole"
    BY <1>1, <1>2, <1>3, <1>16, <2>1, <2>3
       DEF BeginLoad, dirVars, Placed, At, BeginAt, EditAt
  <2>4. CASE image.st # "whole"
    <3>1. pc'[p] = "rm"
      BY <1>3, <1>16, <2>4 DEF BeginLoad, BeginFailsTo
    <3> QED
      BY <1>1, <1>2, <1>16, <2>1, <2>4, <3>1
         DEF BeginLoad, dirVars, Placed, At, BeginAt, EditAt
  <2> QED  BY <2>3, <2>4
<1>17. CASE EndUnmount(p)
  <2>1. kind[p] = "end"
    BY <1>1, <1>17 DEF EndUnmount, At
  <2>3. pc'[p] \in {"rm", "exit"}
    BY <1>3, <1>17 DEF EndUnmount
  <2> QED
    BY <1>1, <1>2, <1>17, <2>1, <2>3
       DEF EndUnmount, dirVars, Placed, At, BeginAt, EditAt
<1>18. CASE RemoveEntry(p)
  <2>1. pc[p] = "rm" /\ pc' = pc /\ ctx' = ctx
    BY <1>18 DEF RemoveEntry
  <2>2. PICK e \in todo[p] \cup Entries :
          /\ todo' = [todo EXCEPT ![p] = @ \ {e}]
          /\ lockPath' = IF e = "lock" THEN None ELSE lockPath
          /\ mode' = (mode /\ e # "mode")
          /\ image' = IF e = "image" THEN Absent ELSE image
    BY <1>18 DEF RemoveEntry
  <2>3. image'.st = IF e = "image" THEN "absent" ELSE image.st
    BY <2>2, ImageFields
  <2> QED
    BY <1>1, <1>2, <2>1, <2>2, <2>3
       DEF Placed, At, BeginAt, EditAt
<1>23. CASE RemoveEntryFails(p)
  <2>1. pc[p] = "rm" /\ pc' = pc /\ UNCHANGED <<ctx, mode, lockPath>>
    BY <1>23 DEF RemoveEntryFails
  <2>2. image' = image \/ (image'.st = "dir" /\ "image" \in Entries)
    BY <1>23 DEF RemoveEntryFails, Absent
  <2>3. "image" \in Entries => image.st # "absent"
    BY DEF Entries
  <2> QED
    BY <1>1, <1>2, <2>1, <2>2, <2>3 DEF Placed, At, BeginAt, EditAt
<1>19. CASE RemoveContext(p)
  <2>3. ~ctx' => ~ctx \/ Entries = {}
    BY <1>19, Zenon DEF RemoveContext
  <2>1. ~ctx' => ~mode /\ lockPath = None /\ image.st = "absent"
    BY <1>1, <2>3 DEF Entries, Placed
  <2>2. pc[p] = "rm" /\ pc'[p] \in {"unlock", "exit"}
    BY <1>3, <1>19 DEF RemoveContext
  <2> QED
    BY <1>1, <1>2, <1>19, <2>1, <2>2
       DEF RemoveContext, Placed, At, BeginAt, EditAt
<1>20. CASE EditFails(p)
  BY <1>1, <1>2, <1>3, <1>20 DEF EditFails, dirVars, Placed, At, BeginAt, EditAt
<1>21. CASE EditTruncate(p)
  <2>1. kind[p] = "edit" /\ mode /\ man[p] = image /\ image.st = "whole"
    BY <1>1, <1>21 DEF EditTruncate, At, EditAt
  <2>2. /\ image' = [image EXCEPT !.st = "torn"] /\ out'[p] = image.file
        /\ man' = man /\ pc'[p] = "write" /\ UNCHANGED <<ctx, mode, lockPath>>
    BY <1>3, <1>21, <2>1 DEF EditTruncate, TypeOK
  <2>3. image'.st = "torn" /\ image'.file = image.file
    BY <2>2 DEF TypeOK, Image
  <2> QED
    BY <1>1, <1>2, <2>1, <2>2, <2>3 DEF Placed, At, BeginAt, EditAt
<1>22. CASE EditWrite(p) \/ EditWriteFails(p)
  <2>1. /\ kind[p] = "edit" /\ mode /\ ctx /\ pc'[p] = "unlock"
        /\ UNCHANGED <<ctx, mode, lockPath>>
    BY <1>1, <1>3, <1>22 DEF EditWrite, EditWriteFails, At, EditAt, Placed
  <2> QED
    BY <1>1, <1>2, <2>1 DEF Placed, At, BeginAt, EditAt
<1> QED
  BY <1>4, <1>5, <1>6, <1>7, <1>8, <1>9, <1>10, <1>11, <1>12, <1>13, <1>14, <1>15,
     <1>16, <1>17, <1>18, <1>19, <1>20, <1>21, <1>22, <1>23
     DEF Step, LockStep, BeginStep, EndStep, EditStep

\* A command that is on its way out stays there, and one that is hurt goes there.
LEMMA EndingStep ==
    ASSUME TypeOK, NEW p \in Proc, Step(p)
    PROVE  /\ pc[p] \in Ending => pc'[p] \in Ending
           /\ Hurts(p) => pc'[p] \in Ending
           /\ Crash(p) => Hurts(p)
<1> USE DEF Goto, Fail, Ending
<1>1. \A l : pc' = [pc EXCEPT ![p] = l] => pc'[p] = l
  BY DEF TypeOK
<1>2. CASE Unlock(p) \/ RemoveLock(p) \/ Exit(p) \/ Crash(p)
  BY <1>1, <1>2 DEF Unlock, RemoveLock, Exit, Crash, Hurts, InCommand, Locked
<1>3. CASE \/ Start(p) \/ CheckContext(p) \/ LockStat(p) \/ OpenLock(p) \/ OpenFails(p)
           \/ Flock(p)
  <2>1. Body(kind[p]) # "dead"
    BY KindsAssumption DEF Body, TypeOK, AllKinds
  <2> QED
    BY <1>1, <1>3, <2>1
       DEF Start, CheckContext, LockStat, OpenLock, OpenFails, Flock, Hurts, Crash
<1>4. CASE BeginStep(p)
  BY <1>1, <1>4
     DEF BeginStep, MakeContext, BeginMode, BeginDir, BeginFill, BeginFillBad,
         BeginFillFails, BeginFailsTo, BeginLoad, Hurts, Crash
<1>5. CASE EndStep(p)
  BY <1>1, <1>5
     DEF EndStep, EndUnmount, RemoveEntry, RemoveEntryFails, RemoveContext, Hurts, Crash
<1>6. CASE EditStep(p)
  BY <1>1, <1>6
     DEF EditStep, EditFails, EditTruncate, EditWrite, EditWriteFails, Hurts, Crash
<1> QED  BY <1>2, <1>3, <1>4, <1>5, <1>6 DEF Step, LockStep

\* The history of harm: it grows by the command that steps, or goes with the context.
LEMMA HurtStep ==
    ASSUME TypeOK, OneAtATime, SessionInv, NEW p \in Proc, Step(p), Record(p)
    PROVE  /\ HurtLast'
           /\ ctx' => hurt \subseteq hurt'
           /\ ctx' /\ Hurts(p) => p \in hurt'
<1>1. /\ pc' = [pc EXCEPT ![p] = pc'[p]] /\ HurtLast
      /\ pc[p] \in Ending => pc'[p] \in Ending
      /\ Hurts(p) => pc'[p] \in Ending
  BY OneMoves, EndingStep DEF SessionInv
<1>2. \A q \in Proc \ {p} : pc'[q] = pc[q]
  BY <1>1 DEF TypeOK
<1>3. hurt' = IF ~ctx' THEN {} ELSE IF Hurts(p) THEN hurt \cup {p} ELSE hurt
  BY DEF Record
<1>4. hurt \subseteq Proc
  BY DEF TypeOK
<1>5. ASSUME NEW q \in hurt' PROVE pc'[q] \in Ending
  BY <1>1, <1>2, <1>3, <1>4 DEF HurtLast
<1> QED  BY <1>3, <1>5 DEF HurtLast

\* What the directory looks like when the stepping command is outside its own
\* critical parts.
LEMMA SettledStep ==
    ASSUME TypeOK, LockInv, OneAtATime, SessionInv, NEW p \in Proc, Step(p), Record(p)
    PROVE  Settled'
<1> USE NoneAssumption DEF Goto, Fail
<1>1. TypeOK /\ Only(p) /\ At(p) /\ Placed
  BY OneMoves DEF SessionInv
<1>2. /\ \A q \in Proc : pc'[q] = IF q = p THEN pc'[p] ELSE pc[q]
      /\ \A q \in Proc : failed'[q] = IF q = p THEN failed'[p] ELSE failed[q]
      /\ kind' = kind /\ kind[p] \in AllKinds
  BY OneMoves, KindsAssumption DEF SessionInv, TypeOK
<1>3. \A q \in Proc \ {p} : /\ ~Amid(q) /\ ~Amid(q)'
                            /\ ~Unlocking(q) /\ ~Unlocking(q)'
  BY <1>1, <1>2 DEF Only, Amid, CreatingBy, Unlocking, Locked, Resting
<1>4. Settled
  BY DEF SessionInv
<1>5. /\ ~Amid(p) => Good
      /\ ~Unlocking(p) => Held
  BY <1>3, <1>4 DEF Settled
<1>6. failed[p] => failed'[p]
  BY OneMoves DEF SessionInv
<1>a. CASE ~ctx'
  <2>1. Placed'
    BY AtStep
  <2> QED  BY <1>a, <2>1 DEF Settled, Good, Held, Placed
<1>b. SUFFICES ASSUME ctx' PROVE Settled'
  BY <1>a
<1>c. hurt \subseteq hurt' /\ (Hurts(p) => p \in hurt')
  BY <1>b, HurtStep
<1>d. Spoilt => Spoilt'
  BY <1>2, <1>c DEF Spoilt
<1>e. Hurts(p) => hurt' # {} /\ (kind[p] # "edit" => Spoilt')
  BY <1>2, <1>c DEF Spoilt
<1>f. Good /\ UNCHANGED <<ctx, mode, image>> => Good'
  BY <1>c, <1>d DEF Good
<1>g. ctx' /\ mode' /\ image'.st = "whole" => Good'
  BY DEF Good
<1>7. Held /\ lockPath' \in {lockPath, None} => Held'
  BY <1>2, <1>6, <1>c DEF Held
<1>h. Hurts(p) => Held'
  BY <1>e DEF Held
<1>8. \A l : pc' = [pc EXCEPT ![p] = l] => pc'[p] = l
  BY DEF TypeOK
<1> HIDE DEF TypeOK
<1>9. SUFFICES /\ ~Amid(p)' => Good'
               /\ ~Unlocking(p)' => Held'
  BY <1>3 DEF Settled
<1>10. CASE Start(p) \/ CheckContext(p) \/ Exit(p)
  <2>1. ~Amid(p) /\ ~Unlocking(p) /\ UNCHANGED <<ctx, mode, lockPath, image>>
    BY <1>10 DEF Start, CheckContext, Exit, dirVars, Amid, CreatingBy, Unlocking, Locked
  <2> QED  BY <1>5, <1>7, <1>f, <2>1
<1>11. CASE MakeContext(p)
  <2>1. kind[p] = "begin" /\ ~ctx
    BY <1>1, <1>11 DEF MakeContext, At, BeginAt
  <2>2. pc'[p] = "lockstat"
    BY <1>8, <1>11, <1>b, <2>1 DEF MakeContext
  <2>3. Amid(p)'
    BY <1>2, <2>1, <2>2 DEF Amid, CreatingBy
  <2>4. Held /\ lockPath' = lockPath
    BY <1>5, <1>11 DEF MakeContext, Unlocking, Locked
  <2> QED  BY <1>7, <2>3, <2>4
<1>12. CASE LockStat(p) \/ OpenFails(p)
  <2>1. ~Unlocking(p) /\ UNCHANGED <<ctx, mode, lockPath, image>>
    BY <1>12 DEF LockStat, OpenFails, dirVars, Unlocking, Locked
  <2>2. CASE kind[p] = "begin"
    <3>1. pc'[p] = "open" \/ (pc[p] = "open" /\ pc'[p] = "exit")
      BY <1>8, <1>12, <1>b, <2>1 DEF LockStat, OpenFails
    <3>2. CASE pc'[p] = "open"
      <4>1. Amid(p)'
        BY <1>2, <2>2, <3>2 DEF Amid, CreatingBy
      <4> QED  BY <1>5, <1>7, <2>1, <4>1
    <3>3. CASE pc[p] = "open" /\ pc'[p] = "exit"
      <4>1. Hurts(p) /\ kind[p] # "edit"
        BY <2>2, <3>3 DEF Hurts
      <4> QED  BY <1>e, <1>h, <4>1 DEF Good
    <3> QED  BY <3>1, <3>2, <3>3
  <2>3. CASE kind[p] # "begin"
    <3>1. ~Amid(p)
      BY <1>12, <2>3 DEF LockStat, OpenFails, Amid, CreatingBy
    <3> QED  BY <1>5, <1>7, <1>f, <2>1, <3>1
  <2> QED  BY <2>2, <2>3
<1>13. CASE OpenLock(p)
  <2>1. pc[p] = "open" /\ pc'[p] = "flock" /\ UNCHANGED <<ctx, mode, image>>
    BY <1>8, <1>13 DEF OpenLock
  <2>2. Unlocking(p)'
    BY <2>1 DEF Unlocking
  <2>3. CASE kind[p] = "begin"
    BY <1>2, <2>1, <2>2, <2>3 DEF Amid, CreatingBy
  <2>4. CASE kind[p] # "begin"
    BY <1>5, <1>f, <2>1, <2>2, <2>4 DEF Amid, CreatingBy
  <2> QED  BY <2>3, <2>4
<1>14. CASE Flock(p)
  <2>4. holder[fd[p]] = None
    BY <1>1, <1>14, LockIsFree DEF Flock
  <2>5. pc'[p] = Body(kind[p]) /\ pc[p] = "flock" /\ UNCHANGED <<ctx, mode, image>>
    BY <1>8, <1>14, <2>4 DEF Flock, dirVars
  <2>6. /\ kind[p] = "begin" => Body(kind[p]) = "mode"
        /\ kind[p] = "end" => Body(kind[p]) = "umount"
        /\ kind[p] = "edit" => Body(kind[p]) = "edit"
    BY DEF Body
  <2>7. Unlocking(p)'
    BY <1>2, <2>5, <2>6 DEF Unlocking, Locked, AllKinds
  <2>8. CASE kind[p] = "begin"
    BY <1>2, <2>5, <2>6, <2>7, <2>8 DEF Amid, CreatingBy
  <2>9. CASE kind[p] # "begin"
    BY <1>5, <1>f, <2>5, <2>7, <2>9 DEF Amid, CreatingBy
  <2> QED  BY <2>8, <2>9
<1>15. CASE Unlock(p) \/ RemoveLock(p)
  <2>1. ~Amid(p) /\ UNCHANGED <<ctx, mode, image>>
    BY <1>15 DEF Unlock, RemoveLock, dirVars, Amid, CreatingBy
  <2>2. Unlocking(p)' \/ lockPath' = None \/ Hurts(p)
    BY <1>8, <1>15 DEF Unlock, RemoveLock, Unlocking, Hurts
  <2>3. lockPath' = None => Held'
    BY DEF Held
  <2> QED  BY <1>5, <1>f, <1>h, <2>1, <2>2, <2>3
<1>16. CASE Crash(p)
  <2>1. Hurts(p) /\ UNCHANGED <<ctx, mode, image>>
    BY <1>16, EndingStep DEF Crash, dirVars
  <2>2. CASE kind[p] # "edit"
    BY <1>e, <1>h, <2>1, <2>2 DEF Good
  <2>3. CASE kind[p] = "edit"
    <3>1. Amid(p) => pc[p] = "write"
      BY <1>1, <2>3 DEF Amid, CreatingBy, At
    <3>2. Amid(p) => mode
      BY <1>1, <2>3, <3>1 DEF At, EditAt
    <3> QED  BY <1>5, <1>e, <1>f, <1>h, <2>1, <3>2 DEF Good
  <2> QED  BY <2>2, <2>3
<1>17. CASE \/ BeginMode(p) \/ BeginDir(p) \/ BeginFill(p) \/ BeginFillBad(p)
            \/ BeginFillFails(p)
  <2>1. kind[p] = "begin"
    BY <1>1, <1>17 DEF BeginMode, BeginDir, BeginFill, BeginFillBad, BeginFillFails, At
  <2>2. pc'[p] \in {"dir", "fill", "load", "rm"}
    BY <1>8, <1>17
       DEF BeginMode, BeginDir, BeginFill, BeginFillBad, BeginFillFails, BeginFailsTo
  <2> QED  BY <1>2, <2>1, <2>2 DEF Amid, CreatingBy, Unlocking, Locked
<1>18. CASE BeginLoad(p)
  <2>1. ctx /\ mode /\ kind[p] = "begin" /\ UNCHANGED <<ctx, mode, image>>
    BY <1>1, <1>18 DEF BeginLoad, At, BeginAt, dirVars
  <2>2. \/ pc'[p] = "unlock" /\ image.st = "whole"
        \/ pc'[p] = "rm"
    BY <1>8, <1>18 DEF BeginLoad, BeginFailsTo
  <2> QED  BY <1>g, <2>1, <2>2 DEF Amid, Unlocking, Locked
<1>19. CASE EndUnmount(p)
  <2>1. kind[p] = "end" /\ ~Amid(p) /\ UNCHANGED <<ctx, mode, image>>
    BY <1>1, <1>19 DEF EndUnmount, At, Amid, CreatingBy, dirVars
  <2>2. \/ pc'[p] = "rm"
        \/ pc'[p] = "exit" /\ failed'[p]
    BY <1>8, <1>19 DEF EndUnmount, TypeOK
  <2> QED  BY <1>2, <1>5, <1>f, <2>1, <2>2 DEF Held, Amid, Unlocking, Locked
<1>20. CASE RemoveEntry(p) \/ RemoveEntryFails(p)
  BY <1>20 DEF RemoveEntry, RemoveEntryFails, Amid, Unlocking, Locked
<1>21. CASE RemoveContext(p)
  <2>1. pc[p] = "rm" /\ pc'[p] # "rm" /\ kind[p] # "edit"
    BY <1>1, <1>8, <1>21 DEF RemoveContext, At
  <2>2. Hurts(p)
    BY <1>b, <2>1 DEF Hurts
  <2> QED  BY <1>e, <1>h, <2>1, <2>2 DEF Good
<1>22. CASE EditFails(p) \/ EditTruncate(p)
  <2>1. ~Amid(p) /\ UNCHANGED <<ctx, mode>> /\ pc'[p] \in {"unlock", "write"}
    BY <1>8, <1>22 DEF EditFails, EditTruncate, dirVars, Amid, CreatingBy
  <2>2. pc'[p] = "unlock" => image' = image
    BY <1>8, <1>22 DEF EditFails, EditTruncate, dirVars
  <2> QED  BY <1>5, <1>f, <2>1, <2>2 DEF Amid, Unlocking, Locked
<1>24. CASE EditWriteFails(p)
  <2>1. kind[p] = "edit" /\ mode' /\ pc[p] = "write" /\ failed'[p] /\ pc'[p] = "unlock"
    BY <1>1, <1>8, <1>24 DEF EditWriteFails, At, EditAt, TypeOK
  <2>2. Hurts(p)
    BY <2>1 DEF Hurts
  <2> QED  BY <1>e, <1>h, <2>1, <2>2 DEF Good
<1>23. CASE EditWrite(p)
  <2>1. /\ kind[p] = "edit" /\ mode /\ pc'[p] = "unlock" /\ mode' = mode
        /\ image.st = "torn" /\ image.file = out[p]
    BY <1>1, <1>8, <1>23 DEF EditWrite, At, EditAt
  <2>2. image'.st = "whole"
    BY <1>23, <2>1, ImageFields DEF EditWrite
  <2> QED  BY <1>b, <1>g, <2>1, <2>2 DEF Unlocking, Locked
<1> QED
  BY <1>10, <1>11, <1>12, <1>13, <1>14, <1>15, <1>16, <1>17, <1>18, <1>19, <1>20, <1>21,
     <1>22, <1>23, <1>24
     DEF Step, LockStep, BeginStep, EndStep, EditStep

LEMMA SessionStep ==
    ASSUME OneAtATime
    PROVE  TypeOK /\ LockInv /\ SessionInv /\ [Next]_vars => SessionInv'
<1> SUFFICES ASSUME TypeOK, LockInv, SessionInv, [Next]_vars PROVE SessionInv'
  OBVIOUS
<1>1. CASE UNCHANGED vars
  BY <1>1 DEF SessionInv, Alone, Active, Placed, At, BeginAt, EditAt, Fresh, HurtLast,
              Spoilt, Settled, Good, Held, Amid, CreatingBy, Unlocking,
              vars, procVars, dirVars
<1>2. ASSUME NEW p \in Proc, Step(p), Record(p) PROVE SessionInv'
  <2>1. /\ Only(p)
        /\ \A q \in Proc \ {p} : pc'[q] = pc[q] /\ pc'[q] \in Resting
    BY <1>2, OneMoves DEF SessionInv, TypeOK, Only
  <2>2. Alone'
    BY <2>1 DEF Alone, Active
  <2>3. At(p)' /\ Placed'
    BY <1>2, AtStep
  <2>4. \A q \in Proc \ {p} : At(q)'
    BY <2>1 DEF At, BeginAt, EditAt, Resting
  <2>5. Settled' /\ HurtLast'
    BY <1>2, SettledStep, HurtStep
  <2> QED  BY <2>2, <2>3, <2>4, <2>5 DEF SessionInv
<1> QED  BY <1>1, <1>2 DEF Next

LEMMA SessionInvariant ==
    ASSUME OneAtATime
    PROVE  Spec => [](TypeOK /\ LockInv /\ SessionInv)
<1>1. Init => SessionInv
  <2> SUFFICES ASSUME Init PROVE SessionInv
    OBVIOUS
  <2>1. \A p \in Proc : pc[p] = "start"
    BY DEF Init
  <2>2. Alone /\ \A p \in Proc : At(p)
    BY <2>1 DEF Alone, Active, Resting, At, BeginAt, EditAt
  <2>3. Placed /\ Good /\ Held /\ HurtLast
    BY ImageFields, NoneAssumption DEF Init, Placed, Good, Held, HurtLast
  <2> QED  BY <2>2, <2>3 DEF SessionInv, Settled
<1> QED  BY <1>1, SessionStep, LockInvariant, PTL DEF Spec

\* Whatever commands come one after the other, in any number, with any that are
\* refused, fail or are killed: each leaves either no context or a complete one with
\* a manifest that loads, unless one was stopped half-way since the context was made.
THEOREM SettledBetweenCommands ==
    ASSUME OneAtATime
    PROVE  Spec => []CleanBetweenCommands
<1>1. TypeOK /\ SessionInv => CleanBetweenCommands
  <2> SUFFICES ASSUME TypeOK, SessionInv, Quiet
               PROVE  Good /\ Held /\ (~ctx => Entries = {})
    BY DEF CleanBetweenCommands, Good, Held, Spoilt
  <2>1. \A p \in Proc : ~Amid(p) /\ ~Unlocking(p)
    BY DEF Quiet, Resting, Amid, CreatingBy, Unlocking, Locked
  <2>2. Good /\ Held
    BY <2>1 DEF SessionInv, Settled
  <2>3. ~ctx => Entries = {}
    BY DEF SessionInv, Placed, Entries
  <2> QED  BY <2>2, <2>3
<1> QED  BY <1>1, SessionInvariant, PTL

-----------------------------------------------------------------------------
(* The work context implements BuildSession.  With one command running, Build  *)
(* and Applied speak of that command alone.                                    *)

NoBuildBy(p) ==
    \/ ~ctx
    \/ kind[p] = "end" /\ pc[p] = "rm" /\ (~mode \/ image.st # "whole")
    \/ CreatingBy(p)
OpenBy(p) == mode /\ (image.st = "whole" \/ Saving(p))
BuildBy(p) == IF NoBuildBy(p) THEN "none" ELSE IF OpenBy(p) THEN "open" ELSE "broken"
AppliedBy(p) == IF BuildBy(p) # "open" THEN {}
                ELSE IF image.st = "whole" THEN image.edits ELSE man[p].edits

SeenByOne == \A p \in Proc : Only(p) => Build = BuildBy(p) /\ Applied = AppliedBy(p)

LEMMA BuildIs == SeenByOne
<1> SUFFICES ASSUME NEW p \in Proc, Only(p)
             PROVE  Build = BuildBy(p) /\ Applied = AppliedBy(p)
  BY DEF SeenByOne
<1>1. \A q \in Proc \ {p} : ~Saving(q) /\ ~CreatingBy(q) /\ pc[q] # "rm"
  BY DEF Only, Resting, Saving, CreatingBy
<1>2. Deleting <=> kind[p] = "end" /\ pc[p] = "rm" /\ (~mode \/ image.st # "whole")
  BY <1>1 DEF Deleting
<1>3. Creating <=> CreatingBy(p)
  BY <1>1 DEF Creating, CreatingBy
<1>4. (\E q \in Proc : Saving(q)) <=> Saving(p)
  BY <1>1
<1>5. Build = BuildBy(p)
  BY <1>2, <1>3, <1>4 DEF Build, BuildBy, NoBuildBy, OpenBy, Loads
<1>6. ASSUME Saving(p)
      PROVE  UNION {man[q].edits : q \in {r \in Proc : Saving(r)}} = man[p].edits
  <2>1. {r \in Proc : Saving(r)} = {p}
    BY <1>1, <1>6
  <2> QED  BY <2>1
<1>7. BuildBy(p) = "open" /\ image.st # "whole" => Saving(p)
  BY DEF BuildBy, OpenBy
<1> QED  BY <1>5, <1>6, <1>7 DEF Applied, AppliedBy

\* The ways a step can move the build that p's command sees.
Same(p) == BuildBy(p)' = BuildBy(p) /\ AppliedBy(p)' = AppliedBy(p)
Begins(p) == BuildBy(p) = "none" /\ BuildBy(p)' = "open" /\ AppliedBy(p)' = {}
Applies(p) == /\ BuildBy(p) = "open" /\ BuildBy(p)' = "open"
              /\ AppliedBy(p)' = AppliedBy(p) \cup {p}
Ends(p) == BuildBy(p)' = "none"
Breaks(p) == BuildBy(p)' = "broken"

\* A step that is not a kill takes effect as a whole or not at all, unless the disk
\* stops the command half-way.
LEMMA BuildStep ==
    ASSUME TypeOK, LockInv, OneAtATime, SessionInv, NEW p \in Proc, Step(p), ~Crash(p)
    PROVE  Same(p) \/ Begins(p) \/ Applies(p) \/ Ends(p) \/ (Hurts(p) /\ Breaks(p))
<1> USE DEF Goto, Fail
<1>1. TypeOK /\ Only(p) /\ At(p)
  BY OneMoves DEF SessionInv
<1>2. kind[p] \in AllKinds /\ kind' = kind
  BY OneMoves, KindsAssumption DEF TypeOK, SessionInv
<1>3. \A l : pc' = [pc EXCEPT ![p] = l] => pc'[p] = l
  BY DEF TypeOK
<1> HIDE DEF TypeOK
\* Steps outside the critical parts.
<1>4. ASSUME UNCHANGED <<ctx, mode, image>>, ~Amid(p), ~Amid(p)'
      PROVE  Same(p)
  BY <1>2, <1>4
     DEF Same, BuildBy, AppliedBy, NoBuildBy, OpenBy, Amid, CreatingBy, Saving
\* Steps of a begin that is under way.
<1>5. ASSUME NoBuildBy(p), NoBuildBy(p)'
      PROVE  Same(p)
  BY <1>5 DEF Same, BuildBy, AppliedBy
<1>6. CASE \/ Start(p) \/ CheckContext(p) \/ Unlock(p) \/ RemoveLock(p) \/ Exit(p)
           \/ EditFails(p)
  <2>1. ~Amid(p) /\ UNCHANGED <<ctx, mode, image>>
    BY <1>6 DEF Start, CheckContext, Unlock, RemoveLock, Exit, EditFails, dirVars, Amid,
                CreatingBy
  <2>2. \/ pc'[p] \in {"stat", "mkdir", "exit", "rmlock", "done", "unlock"}
        \/ pc'[p] = "lockstat" /\ kind[p] # "begin"
    BY <1>3, <1>6 DEF Start, CheckContext, Unlock, RemoveLock, Exit, EditFails
  <2> QED  BY <1>2, <1>4, <2>1, <2>2 DEF Amid, CreatingBy
<1>7. CASE MakeContext(p)
  <2>1. kind[p] = "begin" /\ ~ctx
    BY <1>1, <1>7 DEF MakeContext, At, BeginAt
  <2>2. pc'[p] = "lockstat" \/ ~ctx'
    BY <1>3, <1>7, <2>1 DEF MakeContext
  <2> QED  BY <1>2, <1>5, <2>1, <2>2 DEF NoBuildBy, CreatingBy
<1>8. CASE LockStat(p) \/ OpenLock(p) \/ OpenFails(p) \/ Flock(p)
  <2>1. UNCHANGED <<ctx, mode, image>> /\ pc[p] \in {"lockstat", "open", "flock"}
    BY <1>8 DEF LockStat, OpenLock, OpenFails, Flock, dirVars
  <2>2. Flock(p) => pc'[p] = Body(kind[p])
    BY <1>1, <1>3, LockIsFree DEF Flock
  <2>3. CASE kind[p] = "begin"
    <3>1. Fresh
      BY <1>1, <2>1, <2>3 DEF At, BeginAt
    <3>2. \/ pc'[p] \in {"open", "flock", "mode"}
          \/ pc[p] = "open" /\ pc'[p] = "exit"
      BY <1>3, <1>8, <2>2, <2>3, <3>1 DEF LockStat, OpenLock, OpenFails, Fresh, Body
    <3>3. CASE pc'[p] \in {"open", "flock", "mode"}
      BY <1>2, <1>5, <2>1, <2>3, <3>3 DEF NoBuildBy, CreatingBy
    <3>4. CASE pc[p] = "open" /\ pc'[p] = "exit"
      BY <1>2, <2>1, <2>3, <3>1, <3>4
         DEF Hurts, Breaks, Fresh, BuildBy, NoBuildBy, OpenBy, CreatingBy, Saving
    <3> QED  BY <3>2, <3>3, <3>4
  <2>4. CASE kind[p] # "begin"
    <3>1. Body(kind[p]) \in {"umount", "edit"}
      BY <1>2, <2>4 DEF Body, AllKinds
    <3>2. pc'[p] \in {"open", "flock", "umount", "edit", "exit"}
      BY <1>3, <1>8, <2>2, <3>1 DEF LockStat, OpenLock, OpenFails
    <3> QED  BY <1>2, <1>4, <2>1, <2>4, <3>2 DEF Amid, CreatingBy
  <2> QED  BY <2>3, <2>4
<1>9. CASE \/ BeginMode(p) \/ BeginDir(p) \/ BeginFill(p) \/ BeginFillBad(p)
           \/ BeginFillFails(p)
  <2>1. kind[p] = "begin" /\ pc[p] \in {"mode", "dir", "fill"}
    BY <1>1, <1>9 DEF BeginMode, BeginDir, BeginFill, BeginFillBad, BeginFillFails, At
  <2>2. pc'[p] \in {"dir", "fill", "load", "rm"}
    BY <1>3, <1>9
       DEF BeginMode, BeginDir, BeginFill, BeginFillBad, BeginFillFails, BeginFailsTo
  <2> QED  BY <1>2, <1>5, <2>1, <2>2 DEF NoBuildBy, CreatingBy
<1>10. CASE BeginLoad(p)
  <2>1. /\ ctx /\ mode /\ kind[p] = "begin" /\ image.edits = {}
        /\ UNCHANGED <<ctx, mode, image>> /\ pc[p] = "load"
    BY <1>1, <1>10 DEF BeginLoad, At, BeginAt, dirVars
  <2>2. \/ pc'[p] = "unlock" /\ image.st = "whole"
        \/ pc'[p] = "rm"
    BY <1>3, <1>10 DEF BeginLoad, BeginFailsTo
  <2>3. CASE pc'[p] = "rm"
    BY <1>2, <1>5, <2>1, <2>3 DEF NoBuildBy, CreatingBy
  <2>4. CASE pc'[p] = "unlock" /\ image.st = "whole"
    BY <1>2, <2>1, <2>4 DEF Begins, BuildBy, AppliedBy, NoBuildBy, OpenBy, CreatingBy
  <2> QED  BY <2>2, <2>3, <2>4
<1>11. CASE EndUnmount(p)
  <2>1. /\ kind[p] = "end" /\ pc[p] = "umount" /\ UNCHANGED <<ctx, mode, image>>
        /\ pc'[p] \in {"rm", "exit"}
    BY <1>1, <1>3, <1>11 DEF EndUnmount, At, dirVars
  <2> QED
    BY <1>2, <2>1
       DEF Same, Ends, BuildBy, AppliedBy, NoBuildBy, OpenBy, CreatingBy, Saving
<1>12. CASE RemoveEntry(p) \/ RemoveEntryFails(p)
  <2>1. pc[p] = "rm" /\ pc' = pc /\ ctx' = ctx /\ kind[p] \in {"begin", "end"}
    BY <1>1, <1>12 DEF RemoveEntry, RemoveEntryFails, At
  <2>5. [Absent EXCEPT !.st = "dir"].st = "dir"
    BY DEF Absent
  <2>6. mode' => mode
    BY <1>12, Zenon DEF RemoveEntry, RemoveEntryFails
  <2>7. image' = image \/ image' = Absent \/ image' = [Absent EXCEPT !.st = "dir"]
    BY <1>12 DEF RemoveEntry, RemoveEntryFails
  <2>2. /\ mode' => mode
        /\ image'.st = "whole" => image' = image
    BY <2>5, <2>6, <2>7, ImageFields
  <2>3. CASE kind[p] = "begin"
    BY <1>2, <1>5, <2>1, <2>3 DEF NoBuildBy, CreatingBy
  <2>4. CASE kind[p] = "end"
    BY <1>2, <2>1, <2>2, <2>4
       DEF Same, Ends, BuildBy, AppliedBy, NoBuildBy, OpenBy, CreatingBy, Saving
  <2> QED  BY <2>1, <2>3, <2>4
<1>13. CASE RemoveContext(p)
  <2>6. ctx' => ctx
    BY <1>13, Zenon DEF RemoveContext
  <2>1. /\ pc[p] = "rm" /\ pc'[p] \in {"unlock", "exit"} /\ kind[p] \in {"begin", "end"}
        /\ UNCHANGED <<mode, image>> /\ (ctx' => ctx)
    BY <1>1, <1>3, <1>13, <2>6 DEF RemoveContext, At
  <2>2. kind[p] = "begin" => image.st # "whole"
    BY <1>1, <2>1 DEF At, BeginAt
  <2>3. CASE ~ctx'
    BY <2>3 DEF Ends, BuildBy, NoBuildBy
  <2>4. CASE ctx' /\ mode /\ image.st = "whole"
    BY <1>2, <2>1, <2>2, <2>4
       DEF Same, BuildBy, AppliedBy, NoBuildBy, OpenBy, CreatingBy
  <2>5. CASE ctx' /\ ~(mode /\ image.st = "whole")
    BY <1>2, <2>1, <2>5 DEF Hurts, Breaks, BuildBy, NoBuildBy, OpenBy, CreatingBy, Saving
  <2> QED  BY <2>3, <2>4, <2>5
<1>14. CASE EditTruncate(p)
  <2>1. /\ kind[p] = "edit" /\ mode /\ man[p] = image /\ image.st = "whole"
        /\ pc[p] = "edit"
    BY <1>1, <1>14 DEF EditTruncate, At, EditAt
  <2>2. /\ image' = [image EXCEPT !.st = "torn"] /\ man' = man /\ pc'[p] = "write"
        /\ UNCHANGED <<ctx, mode>>
    BY <1>3, <1>14, <2>1 DEF EditTruncate
  <2>3. image'.st = "torn"
    BY <2>2 DEF TypeOK, Image
  <2> QED
    BY <1>2, <2>1, <2>2, <2>3
       DEF Same, BuildBy, AppliedBy, NoBuildBy, OpenBy, CreatingBy, Saving
<1>16. CASE EditWriteFails(p)
  <2>1. /\ kind[p] = "edit" /\ mode /\ pc[p] = "write" /\ image.st = "torn"
    BY <1>1, <1>16 DEF EditWriteFails, At, EditAt
  <2>2. ctx
    BY <2>1 DEF SessionInv, Placed
  <2>3. UNCHANGED <<ctx, mode, image>> /\ pc'[p] = "unlock" /\ failed'[p]
    BY <1>3, <1>16, <2>1 DEF EditWriteFails, TypeOK
  <2> QED
    BY <1>2, <2>1, <2>2, <2>3
       DEF Hurts, Breaks, BuildBy, NoBuildBy, OpenBy, CreatingBy, Saving
<1>15. CASE EditWrite(p)
  <2>1. /\ kind[p] = "edit" /\ mode /\ pc[p] = "write"
        /\ image.st = "torn" /\ image.file = out[p]
    BY <1>1, <1>15 DEF EditWrite, At, EditAt
  <2>2. ctx
    BY <2>1 DEF SessionInv, Placed
  <2>3. image' = Whole(out[p], man[p].edits \cup {p})
    BY <1>15, <2>1 DEF EditWrite
  <2>4. image'.st = "whole" /\ image'.edits = man[p].edits \cup {p}
    BY <2>3, ImageFields
  <2>5. UNCHANGED <<ctx, mode>> /\ pc'[p] = "unlock"
    BY <1>3, <1>15 DEF EditWrite
  <2>6. BuildBy(p) = "open" /\ AppliedBy(p) = man[p].edits
    BY <2>1, <2>2 DEF BuildBy, AppliedBy, NoBuildBy, OpenBy, CreatingBy, Saving
  <2>7. BuildBy(p)' = "open" /\ AppliedBy(p)' = man[p].edits \cup {p}
    BY <1>2, <2>1, <2>2, <2>4, <2>5
       DEF BuildBy, AppliedBy, NoBuildBy, OpenBy, CreatingBy, Saving
  <2> QED  BY <2>6, <2>7 DEF Applies
<1> QED
  BY <1>6, <1>7, <1>8, <1>9, <1>10, <1>11, <1>12, <1>13, <1>14, <1>15, <1>16
     DEF Step, LockStep, BeginStep, EndStep, EditStep

\* What a command does on its way out, the user does not see in the build.
LEMMA EndingSame ==
    ASSUME TypeOK, OneAtATime, SessionInv, NEW p \in Proc, Step(p), pc[p] \in Ending
    PROVE  Same(p)
<1> USE DEF Goto, Fail, Ending
<1>1. kind' = kind /\ pc'[p] \in Ending
  BY OneMoves, EndingStep DEF SessionInv
<1>2. Unlock(p) \/ RemoveLock(p) \/ Exit(p) \/ Crash(p)
  BY DEF Step, LockStep, BeginStep, EndStep, EditStep, Start, CheckContext, LockStat,
         OpenLock, OpenFails, Flock, MakeContext, BeginMode, BeginDir, BeginFill,
         BeginFillBad, BeginFillFails, BeginLoad, EndUnmount, RemoveEntry,
         RemoveEntryFails, RemoveContext, EditFails, EditTruncate, EditWrite,
         EditWriteFails
<1>3. UNCHANGED <<ctx, mode, image>>
  BY <1>2 DEF Unlock, RemoveLock, Exit, Crash, dirVars
<1> QED
  BY <1>1, <1>3 DEF Same, BuildBy, AppliedBy, NoBuildBy, OpenBy, CreatingBy, Saving

\* The directory goes when the build has gone before it.
LEMMA RemovalSame ==
    ASSUME TypeOK, SessionInv, NEW p \in Proc, Step(p), ctx, ~ctx'
    PROVE  Same(p) /\ BuildBy(p) = "none"
<1>1. RemoveContext(p)
  BY DEF Step, LockStep, BeginStep, EndStep, EditStep, Start, CheckContext, LockStat,
         OpenLock, OpenFails, Flock, Unlock, RemoveLock, Exit, Crash, MakeContext,
         BeginMode, BeginDir, BeginFill, BeginFillBad, BeginFillFails, BeginLoad,
         EndUnmount, RemoveEntry, RemoveEntryFails, EditFails, EditTruncate, EditWrite,
         EditWriteFails, dirVars
<1>2. kind[p] \in {"begin", "end"} /\ pc[p] = "rm" /\ ~mode
  BY <1>1 DEF SessionInv, At, RemoveContext, Entries
<1>3. NoBuildBy(p)
  BY <1>2 DEF NoBuildBy, CreatingBy
<1>4. NoBuildBy(p)'
  BY DEF NoBuildBy
<1> QED  BY <1>3, <1>4 DEF Same, BuildBy, AppliedBy

\* A kill finishes a begin that was waiting to check its image, breaks a build, or
\* changes nothing.
LEMMA KillStep ==
    ASSUME TypeOK, SessionInv, NEW p \in Proc, Crash(p)
    PROVE  Same(p) \/ Begins(p) \/ Breaks(p)
<1>1. At(p) /\ UNCHANGED <<ctx, mode, image, kind>> /\ pc'[p] = "dead"
  BY DEF Crash, Fail, Goto, TypeOK, SessionInv, dirVars
<1>2. /\ NoBuildBy(p)' <=> ~ctx
      /\ OpenBy(p)' <=> mode /\ image.st = "whole"
  BY <1>1 DEF NoBuildBy, OpenBy, CreatingBy, Saving
<1>3. CASE ~ctx
  BY <1>2, <1>3 DEF Same, BuildBy, AppliedBy, NoBuildBy
<1>4. CASE Opened /\ CreatingBy(p)
  <2>1. pc[p] = "load" /\ image.edits = {}
    BY <1>1, <1>4 DEF At, BeginAt, Fresh, Opened, CreatingBy
  <2> QED  BY <1>1, <1>2, <1>4, <2>1 DEF Begins, BuildBy, AppliedBy, NoBuildBy, Opened
<1>5. CASE Opened /\ ~CreatingBy(p)
  BY <1>1, <1>2, <1>5 DEF Same, BuildBy, AppliedBy, NoBuildBy, OpenBy, Opened
<1>6. CASE ctx /\ ~Opened
  BY <1>2, <1>6 DEF Breaks, BuildBy, Opened
<1> QED  BY <1>3, <1>4, <1>5, <1>6

LEMMA SessionInit == Init => Session!Init
<1> SUFFICES ASSUME Init PROVE Session!Init
  OBVIOUS
<1>1. \A p \in Proc : pc[p] = "start"
  BY DEF Init
<1>2. ~Deleting /\ ~Creating /\ \A p \in Proc : ~Saving(p)
  BY <1>1 DEF Deleting, Creating, Saving
<1>3. IF ctx THEN mode /\ image.st = "whole" /\ image.edits = {} ELSE image.st = "absent"
  BY ImageFields DEF Init
<1>4. Build = IF ctx THEN "open" ELSE "none"
  BY <1>2, <1>3 DEF Build, Loads
<1>5. Applied = {} /\ hurt = {}
  BY <1>3, <1>4 DEF Applied, Init
<1> QED  BY <1>1, <1>4, <1>5 DEF Session!Init

\* Every step of a command is a step of the build the user sees, or none.
LEMMA SessionNext ==
    ASSUME OneAtATime
    PROVE  TypeOK /\ LockInv /\ SessionInv /\ [Next]_vars
               => [Session!Next]_<<Session!session, hurt>>
<1> SUFFICES ASSUME TypeOK, LockInv, SessionInv, [Next]_vars
             PROVE  [Session!Next]_<<Session!session, hurt>>
  OBVIOUS
<1>1. CASE UNCHANGED vars
  BY <1>1 DEF Session!session, Build, Applied, Deleting, Creating, Saving, Loads,
              vars, procVars, dirVars
<1>2. ASSUME NEW p \in Proc, Step(p), Record(p)
      PROVE  [Session!Next]_<<Session!session, hurt>>
  <2>1. Only(p) /\ \A q \in Proc \ {p} : pc'[q] = pc[q]
    BY <1>2, OneMoves DEF SessionInv, TypeOK
  <2>2. Only(p)'
    BY <2>1 DEF Only
  <2>3. Build = BuildBy(p) /\ Applied = AppliedBy(p)
    BY <2>1, BuildIs DEF SeenByOne
  <2>4. SeenByOne'
    BY BuildIs, PTL
  <2>5. Build' = BuildBy(p)' /\ Applied' = AppliedBy(p)'
    BY <2>2, <2>4 DEF SeenByOne
  <2>6. BuildBy(p)' # "open" => AppliedBy(p)' = {}
    BY DEF AppliedBy
  <2>7. /\ Same(p) => UNCHANGED Session!session
        /\ Begins(p) => Session!Begin
        /\ Applies(p) => Session!Apply(p)
        /\ Ends(p) => Session!End
        /\ Breaks(p) => Session!Break
    BY <2>3, <2>5, <2>6
       DEF Same, Begins, Applies, Ends, Breaks, Session!session, Session!Begin,
           Session!Apply, Session!End, Session!Break
  <2>8. Same(p) \/ Begins(p) \/ Applies(p) \/ Ends(p) \/ (Hurts(p) /\ Breaks(p))
    BY <1>2, BuildStep, KillStep, EndingStep
  <2>9. hurt' = IF ~ctx' THEN {} ELSE IF Hurts(p) THEN hurt \cup {p} ELSE hurt
    BY <1>2 DEF Record
  <2>10. CASE ctx' /\ Hurts(p) /\ p \notin hurt
    <3>1. Session!Stop(p)
      BY <2>7, <2>8, <2>9, <2>10 DEF Session!Stop, Session!Command
    <3> QED  BY <3>1 DEF Session!Next
  <2>11. CASE ctx' /\ Hurts(p) /\ p \in hurt
    <3>1. Same(p)
      BY <1>2, <2>11, EndingSame DEF SessionInv, HurtLast
    <3> QED  BY <2>7, <2>9, <2>11, <3>1
  <2>12. CASE ctx' /\ ~Hurts(p)
    BY <2>7, <2>8, <2>9, <2>12 DEF Session!Next, Session!Command
  <2>13. CASE ~ctx' /\ ctx
    <3>1. Same(p) /\ BuildBy(p) = "none"
      BY <1>2, <2>13, RemovalSame
    <3>2. Session!Forget
      BY <2>3, <2>7, <2>9, <2>13, <3>1 DEF Session!Forget
    <3> QED  BY <3>2 DEF Session!Next
  <2>14. CASE ~ctx' /\ ~ctx
    <3>1. hurt' = hurt
      BY <2>9, <2>14 DEF SessionInv, HurtLast
    <3>2. Same(p)
      BY <2>14 DEF Same, BuildBy, AppliedBy, NoBuildBy
    <3> QED  BY <2>7, <3>1, <3>2
  <2> QED  BY <2>10, <2>11, <2>12, <2>13, <2>14
<1> QED  BY <1>1, <1>2 DEF Next

\* One command at a time, the work context is the build that BuildSession promises:
\* each begin, edit and end takes effect once or not at all, no edit is lost, and a
\* build is broken only in the very step that kills a command, or in which the disk
\* stops it half-way.
THEOREM ImplementsBuildSession ==
    ASSUME OneAtATime
    PROVE  Spec => ImplementsSession
  BY SessionInit, SessionNext, SessionInvariant, PTL
     DEF Spec, ImplementsSession, Session!Spec

==============================================================================
