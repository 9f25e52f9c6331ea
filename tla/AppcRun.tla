-------------------------------- MODULE AppcRun --------------------------------
(*****************************************************************************)
(* The run command of an AppC build (lib.Run): the dependencies of the image *)
(* are rendered by the registry and mounted below the image's own rootfs     *)
(* with overlayfs, the command runs in that container, and the mount and its *)
(* directories are taken away again.  The lock keeps every other command     *)
(* away, so this process is alone; it may be killed at any step.             *)
(*****************************************************************************)
EXTENDS Registry

CONSTANTS
    Lists,     \* the lists of dependencies that the image may have
    Start,     \* the files that the image may have of its own
    Writes,    \* the sets of files that a command may write
    Zone,      \* the file /etc/localtime leads to
    Resolv,    \* /etc/resolv.conf
    MachineId, \* /etc/machine-id
    MaxRuns    \* bound on the run commands of a behaviour

VARIABLES
    list,      \* the dependencies in the manifest of the image
    own,       \* the files in currentaci/rootfs
    next,      \* the dependency that is being rendered
    lowers,    \* depPaths without its last element, the image's own rootfs
    mounted,   \* the lower directories mounted on the overlay target, or NoMount
    scratch,   \* those of the two overlay directories that are there
    guest,     \* the chroot engine has put Resolv there and will remove it
    mine,      \* what the user has put into the image, with commands or before
    killed,    \* a run was killed and none has got through its preparation since
    runs       \* run commands so far

runVars == <<list, own, next, lowers, mounted, scratch, guest, mine, killed, runs>>
vars == <<regVars, runVars>>

NoMount == <<None>>
File == (UNION {Man[k].files : k \in Id}) \cup (UNION Writes) \cup {Zone, Resolv, MachineId}
engineVars == <<guest, mine>>

ASSUME BuildAssumption == Start \subseteq SUBSET File /\ MaxRuns \in Nat

\* overlayfs: the upper directory, then the lower ones, the first of the option on
\* top.  The value is the image whose copy of f a process sees, 0 its own.
Holding(l, f) == {i \in DOMAIN l : f \in tree[l[i]]}
View(l, f) == IF f \in own THEN 0
              ELSE IF Holding(l, f) = {} THEN None
              ELSE l[CHOOSE i \in Holding(l, f) : \A j \in Holding(l, f) : i <= j]

-----------------------------------------------------------------------------
Idle == pc = "idle"

\* The lock is taken; every other variable is as the last run left it.
StartRun ==
    /\ Idle /\ runs < MaxRuns
    /\ runs' = runs + 1
    /\ lowers' = <<>> /\ next' = 1
    /\ pc' = "unmount" /\ failed' = FALSE
    /\ guest' = FALSE
    /\ UNCHANGED <<hurt, store, want, stack, queue, list, own, mounted, scratch, mine, killed>>

\* RemoveAll of the overlay target goes through a mount: what it deletes it
\* deletes in the upper directory.
RemoveTarget == /\ own' = IF mounted = NoMount THEN own ELSE {}
                /\ scratch' = IF mounted = NoMount THEN scratch \ {"target"} ELSE scratch

\* Run returns before anything is deferred.
GiveUp(fault) ==
    /\ fault \in Faults /\ hurt' = TRUE
    /\ pc' = "idle" /\ failed' = TRUE

\* MaybeUnmount and RmAndMkdir of the target.
Clear ==
    /\ pc = "unmount"
    /\ mounted' = NoMount
    /\ scratch' = scratch \cup {"target"}
    /\ Goto("work")
    /\ UNCHANGED <<store, want, stack, queue, list, own, next, lowers, engineVars, killed, runs>>

\* A variant with a bug: an unmount that fails is not noticed.
BugClearFails ==
    /\ pc = "unmount" /\ mounted # NoMount /\ "busy" \in Faults
    /\ hurt' = TRUE /\ pc' = "work" /\ failed' = FALSE
    /\ RemoveTarget
    /\ UNCHANGED <<store, want, stack, queue, list, next, lowers, mounted, engineVars, killed, runs>>

\* RmAndMkdir may fail with the directory gone.  A mount that IsMounted does not see
\* is not taken away: RmAndMkdir deletes what is below it and fails on the directory.
ClearFails ==
    /\ pc = "unmount"
    /\ \E fault \in {"busy", "hidden", "io"} :
          /\ GiveUp(fault)
          /\ fault # "io" => mounted # NoMount
          /\ own' = IF fault = "hidden" THEN {} ELSE own
          /\ \/ UNCHANGED <<mounted, scratch>>
             \/ fault = "io" /\ mounted' = NoMount /\ scratch' \in {scratch, scratch \ {"target"}}
    /\ UNCHANGED <<store, want, stack, queue, list, next, lowers, engineVars, killed, runs>>

\* From here an error leads through the deferred calls.
FailTo(fault, l) == fault \in Faults /\ hurt' = TRUE /\ failed' = TRUE /\ pc' = l

\* RmAndMkdir of the work directory, and the directories of the store.
MakeWork ==
    /\ pc = "work"
    /\ scratch' = scratch \cup {"work"} /\ killed' = FALSE
    /\ Goto("dependency") \/ FailTo("io", "remove work")
    /\ UNCHANGED <<store, want, stack, queue, list, own, next, lowers, mounted, engineVars, runs>>

MakeWorkFails ==
    /\ pc = "work"
    /\ scratch' \in {scratch, scratch \ {"work"}}
    /\ FailTo("io", "remove target")
    /\ UNCHANGED <<store, want, stack, queue, list, own, next, lowers, mounted, engineVars, killed, runs>>

\* renderACI: the next dependency is fetched and rendered; the image ID in the
\* manifest is not passed on.
FetchNext ==
    /\ pc = "dependency" /\ next <= Len(list)
    /\ want' = [list[next] EXCEPT !.id = None]
    /\ Goto("fetch")
    /\ UNCHANGED <<store, stack, queue, runVars>>

\* A variant with a bug: an error of GetACI or genDeplist is not looked at.
BugRenderedNext ==
    /\ pc = "returned"
    /\ lowers' = lowers \o GenDeplist[GetACI(want)]
    /\ pc' = "dependency" /\ next' = next + 1
    /\ failed' = FALSE /\ stack' = <<>> /\ queue' = <<>>
    /\ UNCHANGED <<hurt, store, want, list, own, mounted, scratch, engineVars, killed, runs>>

\* ... and its own dependencies and itself are added to the lower directories.
RenderedNext ==
    /\ pc = "returned"
    /\ \E below \in {GenDeplist[GetACI(want)]} :
          IF failed \/ ~IsWhole(below)
          THEN pc' = "remove work" /\ failed' = TRUE /\ UNCHANGED <<lowers, next>>
          ELSE /\ lowers' = lowers \o below
               /\ next' = next + 1
               /\ pc' = "dependency" /\ failed' = FALSE
    /\ stack' = <<>> /\ queue' = <<>>
    /\ UNCHANGED <<hurt, store, want, list, own, mounted, scratch, engineVars, killed, runs>>

\* Without dependencies the container is the image's own rootfs.
NoOverlay ==
    /\ pc = "dependency" /\ next > Len(list)
    /\ lowers = <<>>
    /\ Goto("zoneinfo")
    /\ UNCHANGED <<store, want, stack, queue, runVars>>

Mount ==
    /\ pc = "dependency" /\ next > Len(list)
    /\ lowers # <<>>
    /\ mounted' = lowers
    /\ Goto("zoneinfo")
    /\ UNCHANGED <<store, want, stack, queue, list, own, next, lowers, scratch, engineVars, killed, runs>>

MountFails ==
    /\ pc = "dependency" /\ next > Len(list)
    /\ lowers # <<>>
    /\ FailTo("overlay", "remove work")
    /\ UNCHANGED <<store, want, stack, queue, runVars>>

AfterRun == IF lowers = <<>> THEN "remove work" ELSE "umount"

\* mirrorLocalZoneInfo writes into the image's own rootfs, below the mount, and may
\* fail with the file made; getEnvVarsAppC before it reads the manifest.
CopyZoneInfo ==
    /\ pc = "zoneinfo"
    /\ \/ own' = own \cup {Zone} /\ Goto("engine")
       \/ FailTo("io", AfterRun) /\ own' \in {own, own \cup {Zone}}
    /\ UNCHANGED <<store, want, stack, queue, list, next, lowers, mounted, scratch, engineVars, killed, runs>>

\* Engine.Run: a file the container lacks is put there for the command, by
\* systemd-nspawn only since version 230.
Lacks(f) == View(lowers, f) = None
With(f) == IF Lacks(f) THEN own \cup {f} ELSE own
StartEngine ==
    /\ pc = "engine"
    /\ \/ (* chroot *)
          guest' = Lacks(Resolv) /\ own' = With(Resolv)
       \/ (* systemd-nspawn *)
          guest' = FALSE /\ own' \in {own, With(MachineId)}
    /\ Goto("execute")
    /\ UNCHANGED <<store, want, stack, queue, list, next, lowers, mounted, scratch, mine, killed, runs>>

\* There may be no command to start, and the copy of resolv.conf returns its error
\* before its removal is deferred.
EngineFails ==
    /\ pc = "engine"
    /\ \E fault \in {"cmd", "leave"} :
          /\ FailTo(fault, AfterRun)
          /\ fault = "leave" => Lacks(Resolv)
          /\ own' \in IF fault = "leave" THEN {With(Resolv)} ELSE {own, With(MachineId)}
    /\ UNCHANGED <<store, want, stack, queue, list, next, lowers, mounted, scratch, engineVars, killed, runs>>

\* The command: it may write any files, and fail after it has.
Execute ==
    /\ pc = "execute"
    /\ \E written \in Writes : own' = own \cup written /\ mine' = mine \cup written
    /\ \/ Goto("stop engine")
       \/ FailTo("cmd", "stop engine")
    /\ UNCHANGED <<store, want, stack, queue, list, next, lowers, mounted, scratch, guest, killed, runs>>

\* The errors of deferred removals are dropped.
Deferred(left, l) ==
    /\ left => "leave" \in Faults
    /\ hurt' = (hurt \/ left)
    /\ pc' = l /\ UNCHANGED failed

\* A variant with a bug: an engine whose command fails returns at once.
BugStopEngine ==
    /\ pc = "stop engine"
    /\ own' = IF guest /\ ~failed THEN own \ {Resolv} ELSE own
    /\ guest' = FALSE
    /\ Goto(AfterRun)
    /\ UNCHANGED <<store, want, stack, queue, list, next, lowers, mounted, scratch, mine, killed, runs>>

\* The deferred call of the chroot engine.  That of systemd-nspawn joins the root
\* directory to a path that has it already, and removes nothing.
StopEngine ==
    /\ pc = "stop engine"
    /\ \E left \in BOOLEAN :
          /\ Deferred(left, AfterRun)
          /\ own' = IF guest /\ ~left THEN own \ {Resolv} ELSE own
    /\ guest' = FALSE
    /\ UNCHANGED <<store, want, stack, queue, list, next, lowers, mounted, scratch, mine, killed, runs>>

\* The deferred calls, the last one first.  The error of an unmount is put into the
\* err that hides the result of Run at the mount, and so is lost too.
Unmount ==
    /\ pc = "umount"
    /\ \E busy \in BOOLEAN :
          /\ busy => "daemon" \in Faults
          /\ mounted' = IF busy THEN mounted ELSE NoMount
          /\ hurt' = (hurt \/ busy)
    /\ pc' = "remove work" /\ UNCHANGED failed
    /\ UNCHANGED <<store, want, stack, queue, list, own, next, lowers, scratch, engineVars, killed, runs>>

\* A variant with a bug: an error returns without the deferred calls.
BugRemoveWork ==
    /\ pc = "remove work"
    /\ scratch' = IF failed THEN scratch ELSE scratch \ {"work"}
    /\ Goto("remove target")
    /\ UNCHANGED <<store, want, stack, queue, list, own, next, lowers, mounted, engineVars, killed, runs>>

RemoveWork ==
    /\ pc = "remove work"
    /\ \E left \in BOOLEAN :
          /\ Deferred(left, "remove target")
          /\ scratch' = IF left THEN scratch ELSE scratch \ {"work"}
    /\ UNCHANGED <<store, want, stack, queue, list, own, next, lowers, mounted, engineVars, killed, runs>>

Finish ==
    /\ pc = "remove target"
    /\ \E left \in BOOLEAN :
          /\ Deferred(left, "idle")
          /\ IF left THEN UNCHANGED <<own, scratch>> ELSE RemoveTarget
    /\ UNCHANGED <<store, want, stack, queue, list, next, lowers, mounted, engineVars, killed, runs>>

\* The process is killed: what is on the disk and what is mounted stays, and is
\* from then on the user's to find.
Kill ==
    /\ ~Idle /\ "kill" \in Faults
    /\ pc' = "idle" /\ failed' = FALSE /\ hurt' = TRUE /\ killed' = TRUE
    /\ stack' = <<>> /\ queue' = <<>>
    /\ mine' = mine \cup own
    /\ UNCHANGED <<store, want, list, own, next, lowers, mounted, scratch, guest, runs>>

RunStep ==
    \/ Clear \/ ClearFails \/ MakeWork \/ MakeWorkFails
    \/ FetchNext \/ RenderedNext
    \/ NoOverlay \/ Mount \/ MountFails
    \/ CopyZoneInfo \/ StartEngine \/ EngineFails \/ Execute \/ StopEngine
    \/ Unmount \/ RemoveWork \/ Finish
    \/ RegistryStep /\ UNCHANGED runVars

Init ==
    /\ RegistryInit
    /\ list \in Lists /\ own \in Start
    /\ next = 1 /\ lowers = <<>> /\ mounted = NoMount /\ scratch = {}
    /\ guest = FALSE /\ mine = own
    /\ killed = FALSE /\ runs = 0

Next == StartRun \/ RunStep \/ Kill

\* A process that is not killed goes on.
Spec == Init /\ [][Next]_vars /\ WF_vars(RunStep)

-----------------------------------------------------------------------------
(* Properties.                                                                *)

\* Type correctness, with what the places in the program say of each other: the
\* calls of fetchACIWithSize are there only while images are fetched.
TypeOK ==
    /\ failed \in BOOLEAN /\ hurt \in BOOLEAN /\ killed \in BOOLEAN
    /\ tar \subseteq Id /\ rendered \subseteq Id
    /\ dir \in [Id -> {"none", "made", "whole"}]
    /\ \A k \in Id : tree[k] \subseteq Man[k].files
    /\ pc \in {"download", "uncompress", "mkdir", "manifest", "deps"} => stack # <<>>
    /\ pc \in {"uncompress", "mkdir", "manifest", "deps"} => Top.id \in Id
    /\ own \subseteq File /\ mine \subseteq File /\ list \in Lists
    /\ IsWhole(lowers) /\ (mounted = NoMount \/ IsWhole(mounted))
    /\ scratch \subseteq {"target", "work"} /\ runs \in 0..MaxRuns

\* What the documentation of dependencies promises, from the manifests alone: the
\* dependencies of an image below it, a later one over an earlier one, and all
\* files of each of them.
The(d) == CHOOSE k \in Id : Matches(k, d)
Above[k \in Id] ==
    LET deps == Reverse(Man[k].deps)
    IN  <<k>> \o FlattenSeq([i \in DOMAIN deps |-> Above[The(deps[i])]])
Stacked == FlattenSeq([i \in DOMAIN list |-> Above[The(Reverse(list)[i])]])

Promised(f) ==
    LET stacked == Stacked
        having == {i \in DOMAIN stacked : f \in Man[stacked[i]].files}
    IN  IF f \in own THEN 0
        ELSE IF having = {} THEN None
        ELSE stacked[CHOOSE i \in having : \A j \in having : i <= j]

\* When that means anything: a dependency is one, and each that is looked up, and
\* each image under its own name and version, has exactly one image.
Dependency == [name : {Man[k].name : k \in Id}, id : Id \cup {None},
               version : {Man[k].version : k \in Id} \cup {None}]
LookedUp ==
    (UNION {ToSet(Man[k].deps) : k \in Id}) \cup (UNION {ToSet(l) : l \in Lists})
        \cup {[name |-> Man[k].name, version |-> Man[k].version] : k \in Id}
Resolvable ==
    /\ \A k \in Id : Man[k].deps \in Seq(Dependency) /\ "manifest" \notin Man[k].files
    /\ \A l \in Lists : l \in Seq(Dependency)
    /\ \A d \in LookedUp : \E k \in Id : \A j \in Id : Matches(j, d) <=> j = k

\* No image depends on itself: any images have one that depends on none of them.
Acyclic ==
    \A some \in SUBSET Id : some # {} =>
        \E k \in some : \A i \in DOMAIN Man[k].deps : The(Man[k].deps[i]) \notin some

\* The image has at most one dependency; what it has further down is not limited.
Single == \A l \in Lists : Len(l) <= 1

\* No dependency below the image has an image ID.
Unpinned ==
    \E below \in SUBSET Id :
        /\ \A l \in Lists : \A i \in DOMAIN l : The(l[i]) \in below
        /\ \A k \in below : \A i \in DOMAIN Man[k].deps :
              Man[k].deps[i].id = None /\ The(Man[k].deps[i]) \in below

\* When the command starts, every file of the container is the copy that the
\* order of the dependencies asks for, whatever runs were killed or failed while
\* they fetched and rendered them (Run, genDeplist, FetchAndRender).
ContainerSeesDependencies ==
    pc = "execute" => \A f \in File : View(lowers, f) = Promised(f)

\* No step takes files from the image, but for the resolv.conf that the engine has
\* put there: not the preparation of a run that finds the mount of a killed one, if
\* it sees it, nor what is removed at the end, if nothing keeps the mount busy (Run,
\* MaybeUnmount, Engine.Run).
OwnFilesKept == [][own \subseteq own' \/ (guest /\ own \ {Resolv} \subseteq own')]_vars

\* Between runs the image has what the user put there, or a run that was killed
\* left, and the two files that acbuild is known to add: the time zone and the
\* machine-id.  A resolv.conf that could be neither copied nor removed is another one
\* (Engine.Run, mirrorLocalZoneInfo).
NothingElseInImage == Idle => own \subseteq mine \cup {Zone, MachineId}

\* A run that has returned, with or without an error, has left neither a mount nor
\* a directory, unless the leftovers of a killed run kept it from starting, as long
\* as the deferred calls themselves do not fail (Run).
CleanAfterRun == Idle /\ ~killed => mounted = NoMount /\ scratch = {}

\* A run fails only if something outside the program has failed in this build: the
\* network, the disk, the command, or a kill (FetchAndRender, renderACI).
FailsOnlyOnFault == failed => hurt

\* Every run ends, however deep its dependencies are (fetchACIWithSize, Run).
RunEnds == ~Idle ~> Idle
================================================================================
