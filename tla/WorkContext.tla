------------------------------ MODULE WorkContext ------------------------------
(*****************************************************************************)
(* The work context of acbuild (the directory .acbuild), and the acbuild     *)
(* processes that create, edit and delete it.                                *)
(*                                                                           *)
(* Each element of Proc is one acbuild invocation: a process that executes a *)
(* single command and exits.  The commands are                               *)
(*                                                                           *)
(*   "begin"  lib/begin.go  creates the context and fills it with an image   *)
(*   "end"    lib/end.go    deletes the context                              *)
(*   "edit"   any manifest command of lib/manifest.go in an AppC build       *)
(*            (lock, change the copy of the manifest in memory, save it)     *)
(*                                                                           *)
(* They meet only in the file system: the directory, the lock file in it and *)
(* the kernel's flock on the inode behind that file.  One action is one      *)
(* system call, or a group of them that no other process can tell apart.     *)
(*****************************************************************************)
EXTENDS Naturals, FiniteSets

CONSTANTS
    Proc,      \* the acbuild invocations
    Inode,     \* names for the inodes that are ever behind the lock file
    None,      \* no inode, no process
    Kinds,     \* the commands the invocations may be, a subset of AllKinds
    Begun,     \* TRUE: the run starts inside a build, FALSE: in an empty directory
    Overlap,   \* FALSE: nobody starts a command while another one is running
    Faults     \* what may go wrong, a subset of AllFaults

AllKinds == {"begin", "end", "edit"}

\* "crash"  the process is killed between two steps
\* "open"   creating the lock file fails (no space, no permission)
\* "write"  the disk takes a part of what is written, or nothing (it is full)
\* "remove" a file or a directory cannot be removed
\* "fill"   begin cannot produce the image (no such start image, bad archive)
\* "umount" MaybeUnmount fails in end
AllFaults == {"crash", "open", "write", "remove", "fill", "umount"}

ASSUME NoneAssumption == None \notin Proc /\ None \notin Inode
ASSUME KindsAssumption == Kinds \subseteq AllKinds
ASSUME FlagsAssumption == Begun \in BOOLEAN /\ Overlap \in BOOLEAN
ASSUME FaultsAssumption == Faults \subseteq AllFaults

VARIABLES
    kind,      \* the command each invocation executes
    pc,        \* the system call it is about to make
    failed,    \* err # nil so far
    man,       \* a.man: the manifest as NewACBuild read it
    out,       \* the manifest file an edit has opened for writing
    fd,        \* a.lockFile: the inode the process has open
    todo,      \* directory entries RemoveAll has read and not yet removed
    ctx,       \* the directory .acbuild exists
    mode,      \* .acbuild/buildMode exists
    lockPath,  \* the inode .acbuild/lock is linked to
    image,     \* the manifest of .acbuild/currentaci
    holder,    \* the kernel's flock table: who holds the lock on an inode
    hurt       \* history: the commands that stopped half-way in this context

procVars == <<kind, pc, failed, man, out, fd, todo>>
dirVars  == <<ctx, mode, lockPath, image>>
vars     == <<procVars, dirVars, holder, hurt>>

-----------------------------------------------------------------------------
(* The manifest file.  "dir": currentaci is there without a manifest; "torn": *)
(* the manifest cannot be parsed.  file tells two manifest files apart (by    *)
(* the begin that created it), edits is the set of commands it records.       *)
ImageState == {"absent", "dir", "torn", "whole"}
Image == [st : ImageState, file : Proc \cup {None}, edits : SUBSET Proc]
Absent == [st |-> "absent", file |-> None, edits |-> {}]
Whole(f, es) == [st |-> "whole", file |-> f, edits |-> es]

\* What RemoveAll finds in the directory.
Entries == {e \in {"lock", "mode", "image"} :
               \/ e = "lock"  /\ lockPath # None
               \/ e = "mode"  /\ mode
               \/ e = "image" /\ image.st # "absent"}

\* Between a successful lock() and the LOCK_UN of unlock().
Locked == {"mode", "dir", "fill", "load", "rm", "edit", "write", "umount", "unlock"}
InCommand == {"stat", "mkdir", "lockstat", "open", "flock", "rmlock", "exit"} \cup Locked
Resting == {"start", "done", "dead"}

InCrit(p) == pc[p] \in Locked
Quiet == \A p \in Proc : pc[p] \in Resting

-----------------------------------------------------------------------------
Init ==
    /\ kind \in [Proc -> Kinds]
    /\ pc = [p \in Proc |-> "start"]
    /\ failed = [p \in Proc |-> FALSE]
    /\ man = [p \in Proc |-> Absent]
    /\ out = [p \in Proc |-> None]
    /\ fd = [p \in Proc |-> None]
    /\ todo = [p \in Proc |-> {}]
    /\ ctx = Begun
    /\ mode = Begun
    /\ lockPath = None
    /\ image = IF Begun THEN Whole(None, {}) ELSE Absent
    /\ holder = [i \in Inode |-> None]
    /\ hurt = {}

Goto(p, l) == pc' = [pc EXCEPT ![p] = l]
Fail(p, l) == Goto(p, l) /\ failed' = [failed EXCEPT ![p] = TRUE]

\* The kernel drops a process's lock with its last descriptor of the file.
Release(p) ==
    /\ fd' = [fd EXCEPT ![p] = None]
    /\ holder' = [i \in Inode |-> IF holder[i] = p THEN None ELSE holder[i]]

-----------------------------------------------------------------------------
(* Before the lock: the command line wrapper and NewACBuild.                  *)

Admitted(p) == kind[p] = "begin" \/ mode

\* newACBuild reads buildMode and gives up without it; NewACBuild then loads
\* the manifest, without the lock, and ignores a failure to.  begin does not
\* need buildMode, and neither begin nor end uses the manifest it loads.
Start(p) ==
    /\ pc[p] = "start"
    /\ Overlap \/ \A q \in Proc : pc[q] \in Resting
    /\ IF Admitted(p)
       THEN /\ Goto(p, IF kind[p] = "edit" THEN "lockstat" ELSE "stat")
            /\ UNCHANGED failed
       ELSE Fail(p, "exit")
    /\ man' = [man EXCEPT ![p] = IF kind[p] = "edit" THEN image ELSE Absent]
    /\ UNCHANGED <<kind, out, fd, todo, dirVars, holder>>

\* The first os.Stat of Begin and of End: one wants no context, the other one.
CheckContext(p) ==
    /\ pc[p] = "stat"
    /\ \/ kind[p] = "begin" /\ ~ctx /\ Goto(p, "mkdir")    /\ UNCHANGED failed
       \/ kind[p] = "end"   /\  ctx /\ Goto(p, "lockstat") /\ UNCHANGED failed
       \/ ctx = (kind[p] = "begin") /\ Fail(p, "exit")
    /\ UNCHANGED <<kind, man, out, fd, todo, dirVars, holder>>

\* os.MkdirAll(a.ContextPath): no error if the directory is already there.
MakeContext(p) ==
    /\ pc[p] = "mkdir"
    /\ \/ ctx' = TRUE /\ Goto(p, "lockstat") /\ UNCHANGED failed
       \/ "write" \in Faults /\ Fail(p, "exit") /\ UNCHANGED ctx
    /\ UNCHANGED <<kind, man, out, fd, todo, mode, lockPath, image, holder>>

-----------------------------------------------------------------------------
(* lock() and unlock().                                                       *)

LockStat(p) ==
    /\ pc[p] = "lockstat"
    /\ IF ctx THEN Goto(p, "open") /\ UNCHANGED failed ELSE Fail(p, "exit")
    /\ UNCHANGED <<kind, man, out, fd, todo, dirVars, holder>>

\* OpenFile(O_CREATE|O_RDWR): the linked inode if there is one, else a new one.
OpenLock(p) ==
    /\ pc[p] = "open"
    /\ ctx
    /\ \E i \in Inode :
          /\ \/ i = lockPath
             \/ lockPath = None /\ \A q \in Proc : fd[q] # i
          /\ lockPath' = i
          /\ fd' = [fd EXCEPT ![p] = i]
    /\ Goto(p, "flock")
    /\ UNCHANGED <<kind, failed, man, out, todo, ctx, mode, image, holder>>

OpenFails(p) ==
    /\ pc[p] = "open"
    /\ ~ctx \/ "open" \in Faults
    /\ Fail(p, "exit")
    /\ UNCHANGED <<kind, man, out, fd, todo, dirVars, holder>>

\* A variant with a bug: the step is named after the command.
BugBody(k) == k

\* The first step of each command once it holds the lock.
Body(k) == CASE k = "begin" -> "mode" [] k = "end" -> "umount" [] k = "edit" -> "edit"

\* A variant with a bug: EWOULDBLOCK is not looked at.
BugFlock(p) ==
    /\ pc[p] = "flock"
    /\ holder' = [holder EXCEPT ![fd[p]] = p]
    /\ Goto(p, Body(kind[p]))
    /\ UNCHANGED <<kind, failed, man, out, fd, todo, dirVars>>

\* flock(LOCK_EX|LOCK_NB): never waits.
Flock(p) ==
    /\ pc[p] = "flock"
    /\ IF holder[fd[p]] = None
       THEN /\ holder' = [holder EXCEPT ![fd[p]] = p]
            /\ Goto(p, Body(kind[p]))
            /\ UNCHANGED failed
       ELSE Fail(p, "exit") /\ UNCHANGED holder
    /\ UNCHANGED <<kind, man, out, fd, todo, dirVars>>

\* LOCK_UN and Close.
Unlock(p) ==
    /\ pc[p] = "unlock"
    /\ Release(p)
    /\ Goto(p, "rmlock")
    /\ UNCHANGED <<kind, failed, man, out, todo, dirVars>>

\* os.Remove(a.LockPath): whatever file has that name by now.
RemoveLock(p) ==
    /\ pc[p] = "rmlock"
    /\ \/ lockPath # None /\ lockPath' = None /\ Goto(p, "exit") /\ UNCHANGED failed
       \/ (lockPath = None \/ "remove" \in Faults) /\ Fail(p, "exit") /\ UNCHANGED lockPath
    /\ UNCHANGED <<kind, man, out, fd, todo, ctx, mode, image, holder>>

\* The process is gone, and its descriptors with it.
Exit(p) ==
    /\ pc[p] = "exit"
    /\ Release(p)
    /\ Goto(p, "done")
    /\ UNCHANGED <<kind, failed, man, out, todo, dirVars>>

\* A variant with a bug: the lock is a mark in the file, that outlives a kill.
BugCrash(p) ==
    /\ "crash" \in Faults
    /\ pc[p] \in InCommand
    /\ fd' = [fd EXCEPT ![p] = None]
    /\ Fail(p, "dead")
    /\ UNCHANGED <<kind, man, out, todo, dirVars, holder>>

Crash(p) ==
    /\ "crash" \in Faults
    /\ pc[p] \in InCommand
    /\ Release(p)
    /\ Fail(p, "dead")
    /\ UNCHANGED <<kind, man, out, todo, dirVars>>

-----------------------------------------------------------------------------
(* Begin, once it holds the lock.                                             *)

\* A variant with a bug: a begin that fails leaves the context as it is.
BugBeginFailsTo(p, found) == Fail(p, "unlock") /\ UNCHANGED todo

\* The deferred RemoveAll of a begin that fails.
BeginFailsTo(p, found) == Fail(p, "rm") /\ todo' = [todo EXCEPT ![p] = found]

\* WriteFile(a.BuildModePath).
BeginMode(p) ==
    /\ pc[p] = "mode"
    /\ \/ ctx /\ mode' = TRUE /\ Goto(p, "dir") /\ UNCHANGED <<failed, todo>>
       \/ ~ctx /\ BeginFailsTo(p, Entries) /\ UNCHANGED mode
       \/ /\ ctx /\ "write" \in Faults
          /\ mode' \in {mode, TRUE}
          /\ BeginFailsTo(p, Entries \cup {"mode"})
    /\ UNCHANGED <<kind, man, out, fd, ctx, lockPath, image, holder>>

\* MkdirAll(a.CurrentImagePath) makes the context again if it is gone.
BeginDir(p) ==
    /\ pc[p] = "dir"
    /\ \/ /\ ctx' = TRUE
          /\ image' = IF image.st = "absent" THEN [Absent EXCEPT !.st = "dir"] ELSE image
          /\ Goto(p, "fill")
          /\ UNCHANGED <<failed, todo>>
       \/ "write" \in Faults /\ BeginFailsTo(p, Entries) /\ UNCHANGED <<ctx, image>>
    /\ UNCHANGED <<kind, man, out, fd, mode, lockPath, holder>>

\* The image of the new build: extracted from the start image (a new file) or
\* written by writeEmptyManifest (in place, if there is a manifest already).
BeginFill(p) ==
    /\ pc[p] = "fill"
    /\ image.st # "absent"
    /\ \E f \in {p, image.file} :
          (image.st = "dir" => f = p) /\ image' = Whole(f, {})
    /\ Goto(p, "load")
    /\ UNCHANGED <<kind, failed, man, out, fd, todo, ctx, mode, lockPath, holder>>

\* Files that are no loadable image, and no error: the deferred load finds out.
BeginFillBad(p) ==
    /\ pc[p] = "fill"
    /\ "fill" \in Faults
    /\ image.st # "absent"
    /\ image' = [st |-> "torn", file |-> p, edits |-> {}]
    /\ Goto(p, "load")
    /\ UNCHANGED <<kind, failed, man, out, fd, todo, ctx, mode, lockPath, holder>>

BeginFillFails(p) ==
    /\ pc[p] = "fill"
    /\ image.st = "absent" \/ "fill" \in Faults
    /\ \/ UNCHANGED image
       \/ image.st # "absent" /\ image' = [st |-> "torn", file |-> p, edits |-> {}]
    /\ BeginFailsTo(p, Entries)
    /\ UNCHANGED <<kind, man, out, fd, ctx, mode, lockPath, holder>>

\* The deferred LoadManifest: its error makes the whole begin fail.
BeginLoad(p) ==
    /\ pc[p] = "load"
    /\ IF image.st = "whole"
       THEN Goto(p, "unlock") /\ UNCHANGED <<failed, todo>>
       ELSE BeginFailsTo(p, Entries)
    /\ UNCHANGED <<kind, man, out, fd, dirVars, holder>>

-----------------------------------------------------------------------------
(* End, and the RemoveAll it shares with a failing begin.                     *)

EndUnmount(p) ==
    /\ pc[p] = "umount"
    /\ \/ Goto(p, "rm") /\ todo' = [todo EXCEPT ![p] = Entries] /\ UNCHANGED failed
       \/ "umount" \in Faults /\ Fail(p, "exit") /\ UNCHANGED todo
    /\ UNCHANGED <<kind, man, out, fd, dirVars, holder>>

\* RemoveAll unlinks the entries in the order the directory lists them, and
\* may or may not meet one that appears while it is reading.
RemoveEntry(p) ==
    /\ pc[p] = "rm"
    /\ \E e \in todo[p] \cup Entries :
          /\ todo' = [todo EXCEPT ![p] = @ \ {e}]
          /\ lockPath' = IF e = "lock" THEN None ELSE lockPath
          /\ mode' = (mode /\ e # "mode")
          /\ image' = IF e = "image" THEN Absent ELSE image
    /\ UNCHANGED <<kind, pc, failed, man, out, fd, ctx, holder>>

\* An entry it cannot remove does not stop it.  currentaci is a directory itself,
\* of which the manifest may go and something else stay.
RemoveEntryFails(p) ==
    /\ pc[p] = "rm"
    /\ "remove" \in Faults
    /\ \E e \in todo[p] \cap Entries :
          /\ todo' = [todo EXCEPT ![p] = @ \ {e}]
          /\ \/ UNCHANGED image
             \/ e = "image" /\ image' = [Absent EXCEPT !.st = "dir"]
    /\ UNCHANGED <<kind, pc, failed, man, out, fd, ctx, mode, lockPath, holder>>

\* The final rmdir: an error if something is in the directory, because it could
\* not be removed or has been put there since.  Begin goes on to its deferred
\* unlock, End returns and never unlocks.
RemoveContext(p) ==
    /\ pc[p] = "rm"
    /\ todo[p] = {}
    /\ \/ ctx' = (ctx /\ Entries # {})
       \/ "remove" \in Faults /\ ctx' = ctx
    /\ LET next == IF kind[p] = "begin" THEN "unlock" ELSE "exit"
       IN  IF ctx' THEN Fail(p, next) ELSE Goto(p, next) /\ UNCHANGED failed
    /\ UNCHANGED <<kind, man, out, fd, todo, mode, lockPath, image, holder>>

-----------------------------------------------------------------------------
(* An edit: a.man.Op(...) and its save().                                     *)

\* The operation refuses its arguments; or the manifest could not be loaded, is a
\* nil pointer, and the panic runs the deferred unlock.  A command that only reads
\* the manifest goes the same way.
EditFails(p) ==
    /\ pc[p] = "edit"
    /\ Fail(p, "unlock")
    /\ UNCHANGED <<kind, man, out, fd, todo, dirVars, holder>>

\* save() opens the manifest (never creating it) and truncates it ...
EditTruncate(p) ==
    /\ pc[p] = "edit"
    /\ man[p].st = "whole"
    /\ IF image.st \in {"torn", "whole"}
       THEN /\ image' = [image EXCEPT !.st = "torn"]
            /\ out' = [out EXCEPT ![p] = image.file]
            /\ Goto(p, "write")
            /\ UNCHANGED failed
       ELSE Fail(p, "unlock") /\ UNCHANGED <<image, out>>
    /\ UNCHANGED <<kind, man, fd, todo, ctx, mode, lockPath, holder>>

\* A variant with a bug: the edit starts from an empty manifest.
BugEditWrite(p) ==
    /\ pc[p] = "write"
    /\ image' = IF image.file = out[p] THEN Whole(out[p], {p}) ELSE image
    /\ Goto(p, "unlock")
    /\ UNCHANGED <<kind, failed, man, out, fd, todo, ctx, mode, lockPath, holder>>

\* ... and writes the copy in memory, which now has the edit, at offset 0.  If
\* somebody else has written the same file since, the two texts are mixed.  If
\* the file is no longer the manifest, the text goes nowhere.
EditWrite(p) ==
    /\ pc[p] = "write"
    /\ LET text == Whole(out[p], man[p].edits \cup {p})
       IN  IF image.st \in {"torn", "whole"} /\ image.file = out[p]
           THEN \/ image' = text
                \/ image.st = "whole" /\ image' = [text EXCEPT !.st = "torn"]
           ELSE UNCHANGED image
    /\ Goto(p, "unlock")
    /\ UNCHANGED <<kind, failed, man, out, fd, todo, ctx, mode, lockPath, holder>>

\* The disk takes a part of the text, or nothing: the manifest stays as it was
\* truncated, and save() returns the error.
EditWriteFails(p) ==
    /\ pc[p] = "write"
    /\ "write" \in Faults
    /\ \/ UNCHANGED image
       \/ /\ image.st = "whole" /\ image.file = out[p]
          /\ image' = [image EXCEPT !.st = "torn"]
    /\ Fail(p, "unlock")
    /\ UNCHANGED <<kind, man, out, fd, todo, ctx, mode, lockPath, holder>>

-----------------------------------------------------------------------------
LockStep(p) == LockStat(p) \/ OpenLock(p) \/ OpenFails(p) \/ Flock(p)
               \/ Unlock(p) \/ RemoveLock(p)
BeginStep(p) == MakeContext(p) \/ BeginMode(p) \/ BeginDir(p) \/ BeginFill(p)
                \/ BeginFillBad(p) \/ BeginFillFails(p) \/ BeginLoad(p)
EndStep(p) == EndUnmount(p) \/ RemoveEntry(p) \/ RemoveEntryFails(p) \/ RemoveContext(p)
EditStep(p) == EditFails(p) \/ EditTruncate(p) \/ EditWrite(p) \/ EditWriteFails(p)

Step(p) == \/ Start(p) \/ CheckContext(p) \/ LockStep(p) \/ BeginStep(p)
           \/ EndStep(p) \/ EditStep(p) \/ Exit(p) \/ Crash(p)

\* The steps at which a command stops with its work half done: a kill, a write or a
\* removal that fails, and a begin that cannot make the lock file in the directory
\* it has just created.
Hurts(p) ==
    \/ pc'[p] = "dead"
    \/ pc[p] = "write" /\ failed'[p]
    \/ pc[p] = "rm" /\ pc'[p] # "rm" /\ ctx'
    \/ pc[p] = "rmlock" /\ lockPath' # None
    \/ pc[p] = "open" /\ pc'[p] = "exit" /\ kind[p] = "begin"

\* What a command has left half done is gone with the directory.
Record(p) == hurt' = IF ~ctx' THEN {} ELSE IF Hurts(p) THEN hurt \cup {p} ELSE hurt

Next == \E p \in Proc : Step(p) /\ Record(p)

Spec == Init /\ [][Next]_vars

-----------------------------------------------------------------------------
(* Properties.                                                                *)

\* Type correctness of every variable.
TypeOK ==
    /\ kind \in [Proc -> Kinds]
    /\ pc \in [Proc -> InCommand \cup Resting]
    /\ failed \in [Proc -> BOOLEAN]
    /\ man \in [Proc -> Image]
    /\ out \in [Proc -> Proc \cup {None}]
    /\ fd \in [Proc -> Inode \cup {None}]
    /\ todo \in [Proc -> SUBSET {"lock", "mode", "image"}]
    /\ ctx \in BOOLEAN
    /\ mode \in BOOLEAN
    /\ lockPath \in Inode \cup {None}
    /\ image \in Image
    /\ holder \in [Inode -> Proc \cup {None}]
    /\ hurt \subseteq Proc

\* Two commands that are both past lock() never hold the lock of the same
\* file, and each holds the kernel's lock of the file it has open: whatever
\* unlock() does to the name .acbuild/lock, one inode has one owner.
OneOwnerPerLockFile ==
    \A p, q \in Proc : InCrit(p) /\ InCrit(q) /\ p # q => fd[p] # fd[q]

\* A lock is refused only while some other command that still runs has it: a
\* lock file left behind by a killed process never keeps anybody out.
StaleLockNeverBlocks ==
    [][\A p \in Proc : pc[p] = "flock" /\ pc'[p] = "exit" =>
          \E q \in Proc \ {p} : /\ pc[q] \in Locked \cup {"exit"}
                                  /\ fd[q] = fd[p]]_vars

\* What the message "lock already held - is another acbuild running in this
\* working dir?" says: one command at a time is past lock().
MutualExclusion == \A p, q \in Proc : InCrit(p) /\ InCrit(q) => p = q

\* The message is right as long as no third command comes: two edits that overlap
\* exclude each other, whatever is killed and in whatever order they unlock.
PairsExclude ==
    (kind \in [Proc -> {"edit"}] /\ Cardinality({p \in Proc : pc[p] # "start"}) <= 2)
        => MutualExclusion

\* What the message "build already in progress in this working dir" says: a
\* begin never changes a manifest that another command has put in place.
BeginNeverOverwrites ==
    [][\A p \in Proc : /\ kind[p] = "begin"
                        /\ <<pc[p], todo[p]>> # <<pc'[p], todo'[p]>>
                        /\ image.st = "whole"
                        /\ image.file # p
                        => image' = image]_vars

\* A context that no command is working in has its buildMode: without the file
\* newACBuild refuses every command, and end with them.
EndableContext == Quiet /\ ctx => mode

\* An edit that exited with success is recorded in the manifest it edited.
TrackedCommandsKept ==
    (Quiet /\ image.st = "whole") =>
       \A p \in Proc :
          (kind[p] = "edit" /\ pc[p] = "done" /\ ~failed[p] /\ man[p].file = image.file)
             => p \in image.edits

\* The directory between commands: no lock file, and either no context at all or
\* a complete one with a manifest that loads - whatever was refused or has failed
\* before, unless a command was stopped half-way in this very context.  An edit that
\* was can tear the manifest but not take buildMode away, so that end still works.
\* (An end that could not unmount leaves its own lock file.)
CleanBetweenCommands ==
    Quiet =>
       /\ lockPath # None => hurt # {} \/ \E p \in Proc : kind[p] = "end" /\ failed[p]
       /\ ctx => /\ mode \/ \E p \in hurt : kind[p] # "edit"
                 /\ image.st = "whole" \/ hurt # {}
       /\ ~ctx => Entries = {}

-----------------------------------------------------------------------------
(* The build a sequential user sees.  A begin counts from the moment its image *)
(* is in place and loads, an end from the moment buildMode or the image goes.  *)
Deleting == /\ \E p \in Proc : kind[p] = "end" /\ pc[p] = "rm"
            /\ ~mode \/ image.st # "whole"
Creating == \E p \in Proc : kind[p] = "begin" /\ pc[p] \in
                {"lockstat", "open", "flock", "mode", "dir", "fill", "load", "rm"}
Saving(p) == kind[p] = "edit" /\ pc[p] = "write"
Loads == mode /\ (image.st = "whole" \/ \E p \in Proc : Saving(p))

Build == IF ~ctx \/ Deleting \/ Creating THEN "none"
         ELSE IF Loads THEN "open" ELSE "broken"
Applied == IF Build # "open" THEN {}
           ELSE IF image.st = "whole" THEN image.edits
           ELSE UNION {man[p].edits : p \in {q \in Proc : Saving(q)}}

Session == INSTANCE BuildSession WITH
              Cmd <- Proc, build <- Build, applied <- Applied

\* One command at a time, the work context is the build of BuildSession: each
\* begin, edit and end takes effect once or not at all, and nothing is lost.
ImplementsSession == Session!Spec
================================================================================
