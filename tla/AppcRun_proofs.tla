------------------------------ MODULE AppcRun_proofs ----------------------------
(*****************************************************************************)
(* Proofs about AppcRun, for any images, lists of dependencies, commands and *)
(* faults.  What the recursive functions of Registry compute is left open    *)
(* here: GenDeplist and DepList may return anything, as IsWhole, which the   *)
(* code asks as well, tells whether it is a list of images.                  *)
(*****************************************************************************)
EXTENDS AppcRun, SequenceTheorems, TLAPS

-----------------------------------------------------------------------------
(* Where the process is.                                                      *)

\* In the registry, called by renderACI.
Fetching == {"fetch", "download", "uncompress", "mkdir", "manifest", "deps",
             "list", "render", "remanifest"}
\* With the overlay mounted, if there is one.
InContainer == {"zoneinfo", "engine", "execute", "stop engine"}

LEMMA RegistryPlaces == RegistryStep => pc \in Fetching /\ pc' \in Fetching \cup {"returned"}
<1> USE DEF Fetching, Goto, Return, FailFor
<1>1. Fetch \/ Download \/ DownloadFails \/ Uncompress \/ MakeDir \/ WriteManifest \/ FetchDep
        => pc \in Fetching /\ pc' \in Fetching \cup {"returned"}
  BY DEF Fetch, Download, DownloadFails, Uncompress, MakeDir, WriteManifest, FetchDep
<1>2. Fetched => pc \in Fetching /\ pc' \in Fetching \cup {"returned"}
  BY DEF Fetched
<1>3. List \/ Skip \/ ExtractFile \/ RemoveManifest \/ ExtractManifest \/ Mark \/ Rendered \/ WriteFails
        => pc \in Fetching /\ pc' \in Fetching \cup {"returned"}
  BY DEF List, Skip, ExtractFile, RemoveManifest, ExtractManifest, Mark, Rendered, WriteFails
<1> QED  BY <1>1, <1>2, <1>3 DEF RegistryStep, FetchStep, RenderStep

-----------------------------------------------------------------------------
(* What the engine has put into the image.                                    *)

\* While the command runs the image may have the engine's resolv.conf; in a killed
\* run that one has become the user's.
GuestInv ==
    /\ own \subseteq mine \cup {Zone, MachineId} \cup (IF guest /\ ~Idle THEN {Resolv} ELSE {})
    /\ guest => pc \in {"idle", "execute", "stop engine"}

LEMMA GuestStep == "leave" \notin Faults /\ GuestInv /\ [Next]_vars => GuestInv'
<1> SUFFICES ASSUME "leave" \notin Faults, GuestInv, [Next]_vars PROVE GuestInv'
  OBVIOUS
<1> USE DEF GuestInv, Idle, Goto, FailTo
<1>0. ASSUME own' \subseteq own \cup {Zone, MachineId}, UNCHANGED <<mine, guest>>,
             pc \notin {"idle", "execute", "stop engine"}
      PROVE  GuestInv'
  BY <1>0
<1>1. CASE StartRun
  BY <1>1 DEF StartRun
<1>2. CASE Clear \/ ClearFails \/ MakeWork \/ MakeWorkFails \/ FetchNext
  <2>1. own' \subseteq own /\ UNCHANGED <<mine, guest>> /\ pc \in {"unmount", "work", "dependency"}
    BY <1>2 DEF Clear, ClearFails, MakeWork, MakeWorkFails, FetchNext, runVars, engineVars
  <2> QED  BY <1>0, <2>1
<1>3. CASE RenderedNext
  BY <1>0, <1>3 DEF RenderedNext, engineVars
<1>4. CASE NoOverlay \/ Mount \/ MountFails \/ Unmount \/ RemoveWork
  <2>1. UNCHANGED <<own, mine, guest>> /\ pc \notin {"idle", "execute", "stop engine"}
    BY <1>4 DEF NoOverlay, Mount, MountFails, Unmount, RemoveWork, runVars, engineVars
  <2> QED  BY <1>0, <2>1
<1>5. CASE CopyZoneInfo \/ EngineFails
  <2>1. /\ own' \subseteq own \cup {Zone, MachineId} /\ UNCHANGED <<mine, guest>>
        /\ pc \in {"zoneinfo", "engine"}
    BY <1>5 DEF CopyZoneInfo, EngineFails, With, engineVars
  <2> QED  BY <1>0, <2>1
<1>6. CASE StartEngine
  <2>1. /\ pc = "engine" /\ pc' = "execute" /\ mine' = mine
        /\ own' \subseteq own \cup {MachineId} \cup (IF guest' THEN {Resolv} ELSE {})
    BY <1>6 DEF StartEngine, With
  <2> QED  BY <2>1
<1>7. CASE Execute
  <2>1. PICK written : own' = own \cup written /\ mine' = mine \cup written
    BY <1>7 DEF Execute
  <2>2. pc = "execute" /\ pc' = "stop engine" /\ guest' = guest
    BY <1>7 DEF Execute
  <2> QED  BY <2>1, <2>2
<1>8. CASE StopEngine
  <2>1. /\ pc = "stop engine" /\ mine' = mine /\ guest' = FALSE
        /\ own' = IF guest THEN own \ {Resolv} ELSE own
    BY <1>8 DEF StopEngine, Deferred
  <2> QED  BY <2>1
<1>9. CASE Finish
  <2>1. pc = "remove target" /\ own' \subseteq own /\ UNCHANGED <<mine, guest>>
    BY <1>9 DEF Finish, RemoveTarget, engineVars
  <2> QED  BY <1>0, <2>1
<1>10. CASE RegistryStep /\ UNCHANGED runVars
  BY <1>0, <1>10, RegistryPlaces DEF runVars, Fetching
<1>11. CASE Kill
  BY <1>11 DEF Kill
<1>12. CASE UNCHANGED vars
  BY <1>12 DEF vars, runVars, regVars
<1> QED
  BY <1>1, <1>2, <1>3, <1>4, <1>5, <1>6, <1>7, <1>8, <1>9, <1>10, <1>11, <1>12 DEF Next, RunStep

\* NothingElseInImage of the run: wherever runs are killed, and whatever fails but the
\* copy of resolv.conf and its removal, the image has between runs what the user put
\* there, the time zone and the machine-id.
THEOREM RunAddsNothing == "leave" \notin Faults => (Spec => []NothingElseInImage)
<1> SUFFICES ASSUME "leave" \notin Faults PROVE Spec => []NothingElseInImage
  OBVIOUS
<1>1. Init => GuestInv
  BY DEF Init, RegistryInit, GuestInv, Idle
<1>2. GuestInv => NothingElseInImage
  BY DEF GuestInv, NothingElseInImage
<1> QED  BY <1>1, <1>2, GuestStep, PTL DEF Spec

-----------------------------------------------------------------------------
(* The mount and its directories.                                             *)

\* As long as no command leaves a process in the container, nothing is mounted but
\* from the mount to the deferred unmount, or after a kill until a later run has
\* got past its preparation.
MountInv ==
    /\ pc \notin {"idle", "unmount", "umount"} \cup InContainer => mounted = NoMount
    /\ pc \in InContainer /\ lowers = <<>> => mounted = NoMount
    /\ pc \in {"idle", "unmount"} /\ ~killed => mounted = NoMount
    /\ pc \notin {"idle", "unmount", "work", "remove work", "remove target"} => ~killed

LEMMA MountStep == "daemon" \notin Faults /\ MountInv /\ [Next]_vars => MountInv'
<1> SUFFICES ASSUME "daemon" \notin Faults, MountInv, [Next]_vars PROVE MountInv'
  OBVIOUS
<1> USE DEF MountInv, InContainer, Idle, Goto, FailTo
<1>1. CASE StartRun
  BY <1>1 DEF StartRun
<1>2. CASE Clear \/ ClearFails
  <2>1. CASE Clear
    BY <2>1 DEF Clear
  <2>2. CASE ClearFails
    <3>1. pc = "unmount" /\ pc' = "idle" /\ mounted' \in {mounted, NoMount} /\ killed' = killed
      BY <2>2 DEF ClearFails, GiveUp
    <3> QED  BY <3>1
  <2> QED  BY <1>2, <2>1, <2>2
<1>3. CASE MakeWork \/ MakeWorkFails \/ FetchNext
  <2>1. CASE MakeWork
    <3>1. pc = "work" /\ pc' \in {"dependency", "remove work"} /\ mounted' = mounted /\ killed' = FALSE
      BY <2>1 DEF MakeWork
    <3> QED  BY <3>1
  <2>2. CASE MakeWorkFails
    <3>1. pc = "work" /\ pc' = "remove target" /\ UNCHANGED <<mounted, killed>>
      BY <2>2 DEF MakeWorkFails
    <3> QED  BY <3>1
  <2>3. CASE FetchNext
    BY <2>3 DEF FetchNext, runVars
  <2> QED  BY <1>3, <2>1, <2>2, <2>3
<1>4. CASE RenderedNext
  <2>1. pc = "returned" /\ pc' \in {"remove work", "dependency"} /\ UNCHANGED <<mounted, killed>>
    BY <1>4 DEF RenderedNext
  <2> QED  BY <2>1
<1>5. CASE NoOverlay \/ Mount \/ MountFails
  <2>1. CASE NoOverlay
    BY <2>1 DEF NoOverlay, runVars
  <2>2. CASE Mount
    BY <2>2 DEF Mount
  <2>3. CASE MountFails
    BY <2>3 DEF MountFails, runVars
  <2> QED  BY <1>5, <2>1, <2>2, <2>3
<1>6. CASE CopyZoneInfo \/ StartEngine \/ EngineFails \/ Execute \/ StopEngine
  <2>1. /\ pc \in InContainer /\ UNCHANGED <<mounted, killed, lowers>>
        /\ pc' \in InContainer \cup {AfterRun}
    <3>1. CopyZoneInfo \/ StartEngine \/ EngineFails => UNCHANGED <<mounted, killed, lowers>>
      BY DEF CopyZoneInfo, StartEngine, EngineFails
    <3>2. Execute \/ StopEngine => UNCHANGED <<mounted, killed, lowers>>
      BY DEF Execute, StopEngine
    <3>3. CopyZoneInfo \/ StartEngine \/ EngineFails => pc \in InContainer /\ pc' \in InContainer \cup {AfterRun}
      BY DEF CopyZoneInfo, StartEngine, EngineFails
    <3>4. Execute \/ StopEngine => pc \in InContainer /\ pc' \in InContainer \cup {AfterRun}
      BY DEF Execute, StopEngine, Deferred
    <3> QED  BY <1>6, <3>1, <3>2, <3>3, <3>4
  <2> QED  BY <2>1 DEF AfterRun
<1>7. CASE Unmount \/ RemoveWork
  <2>1. CASE Unmount
    <3>1. /\ pc = "umount" /\ pc' = "remove work" /\ mounted' = NoMount
          /\ UNCHANGED killed
      BY <2>1 DEF Unmount
    <3> QED  BY <3>1
  <2>2. CASE RemoveWork
    <3>1. /\ pc = "remove work" /\ pc' = "remove target"
          /\ UNCHANGED <<mounted, killed>>
      BY <2>2 DEF RemoveWork, Deferred
    <3> QED  BY <3>1
  <2> QED  BY <1>7, <2>1, <2>2
<1>8. CASE Finish
  BY <1>8 DEF Finish, Deferred
<1>9. CASE RegistryStep /\ UNCHANGED runVars
  BY <1>9, RegistryPlaces DEF runVars, Fetching
<1>10. CASE Kill
  BY <1>10 DEF Kill
<1>11. CASE UNCHANGED vars
  BY <1>11 DEF vars, runVars, regVars
<1> QED
  BY <1>1, <1>2, <1>3, <1>4, <1>5, <1>6, <1>7, <1>8, <1>9, <1>10, <1>11 DEF Next, RunStep

LEMMA MountInvariant == "daemon" \notin Faults => (Spec => []MountInv)
<1> SUFFICES ASSUME "daemon" \notin Faults PROVE Spec => []MountInv
  OBVIOUS
<1>1. Init => MountInv
  BY DEF Init, RegistryInit, MountInv, InContainer
<1> QED  BY <1>1, MountStep, PTL DEF Spec

\* The directories are there from the preparation on, and go one after the other.
ScratchInv ==
    /\ pc \in {"idle", "unmount"} /\ ~killed => scratch = {}
    /\ pc = "work" /\ ~killed => scratch \subseteq {"target"}
    /\ pc = "remove target" /\ ~killed => scratch \subseteq {"target"}
    /\ scratch \subseteq {"target", "work"}

LEMMA ScratchStep ==
    {"daemon", "leave"} \cap Faults = {} /\ MountInv /\ ScratchInv /\ [Next]_vars => ScratchInv'
<1> SUFFICES ASSUME "daemon" \notin Faults, "leave" \notin Faults, MountInv, ScratchInv, [Next]_vars
             PROVE  ScratchInv'
  BY Zenon
<1> USE DEF ScratchInv, Idle, Goto, FailTo
<1>0. ASSUME UNCHANGED <<scratch, killed>>, pc' \notin {"idle", "unmount", "work", "remove target"}
      PROVE  ScratchInv'
  BY <1>0
<1>1. CASE StartRun
  BY <1>1 DEF StartRun
<1>2. CASE Clear \/ ClearFails
  <2>1. CASE Clear
    BY <2>1 DEF Clear
  <2>2. CASE ClearFails
    <3>1. pc = "unmount" /\ pc' = "idle" /\ scratch' \subseteq scratch /\ killed' = killed
      BY <2>2 DEF ClearFails, GiveUp
    <3> QED  BY <3>1
  <2> QED  BY <1>2, <2>1, <2>2
<1>3. CASE MakeWork \/ MakeWorkFails
  <2>1. CASE MakeWork
    BY <2>1 DEF MakeWork
  <2>2. CASE MakeWorkFails
    <3>1. pc = "work" /\ pc' = "remove target" /\ scratch' \subseteq scratch /\ killed' = killed
      BY <2>2 DEF MakeWorkFails
    <3> QED  BY <3>1
  <2> QED  BY <1>3, <2>1, <2>2
<1>4. CASE FetchNext \/ NoOverlay \/ MountFails \/ Mount \/ RenderedNext
  <2>1. UNCHANGED <<scratch, killed>>
    BY <1>4 DEF FetchNext, NoOverlay, MountFails, Mount, RenderedNext, runVars
  <2>2. pc' \in {"fetch", "zoneinfo", "remove work", "dependency"}
    BY <1>4 DEF FetchNext, NoOverlay, MountFails, Mount, RenderedNext
  <2> QED  BY <1>0, <2>1, <2>2
<1>5. CASE CopyZoneInfo \/ StartEngine \/ EngineFails \/ Execute \/ StopEngine \/ Unmount
  <2>1. UNCHANGED <<scratch, killed>>
    BY <1>5 DEF CopyZoneInfo, StartEngine, EngineFails, Execute, StopEngine, Unmount
  <2>2. pc' \in {"engine", "execute", "stop engine", "umount", "remove work"}
    BY <1>5 DEF CopyZoneInfo, StartEngine, EngineFails, Execute, StopEngine, Unmount, AfterRun, Deferred
  <2> QED  BY <1>0, <2>1, <2>2
<1>6. CASE RemoveWork
  <2>1. /\ pc' = "remove target" /\ scratch' = scratch \ {"work"} /\ killed' = killed
    BY <1>6 DEF RemoveWork, Deferred
  <2> QED  BY <2>1
<1>7. CASE Finish
  <2>1. mounted = NoMount /\ pc = "remove target"
    BY <1>7 DEF Finish, MountInv, InContainer
  <2>2. pc' = "idle" /\ scratch' = scratch \ {"target"} /\ killed' = killed
    BY <1>7, <2>1 DEF Finish, RemoveTarget, Deferred
  <2> QED  BY <2>1, <2>2
<1>8. CASE RegistryStep /\ UNCHANGED runVars
  BY <1>0, <1>8, RegistryPlaces DEF runVars, Fetching
<1>9. CASE Kill
  BY <1>9 DEF Kill
<1>10. CASE UNCHANGED vars
  BY <1>10 DEF vars, runVars, regVars
<1> QED
  BY <1>1, <1>2, <1>3, <1>4, <1>5, <1>6, <1>7, <1>8, <1>9, <1>10 DEF Next, RunStep

\* CleanAfterRun of the run: if no command leaves a process in its container and the
\* deferred removals do not fail, a run that returns has left neither mount nor
\* directory, whatever else fails, unless it is a killed run's leftovers that kept
\* it from starting.
THEOREM RunCleansUp == {"daemon", "leave"} \cap Faults = {} => (Spec => []CleanAfterRun)
<1> SUFFICES ASSUME {"daemon", "leave"} \cap Faults = {} PROVE Spec => []CleanAfterRun
  OBVIOUS
<1>1. MountInv /\ ScratchInv => CleanAfterRun
  BY DEF MountInv, ScratchInv, CleanAfterRun, Idle
<1>2. Init => ScratchInv
  BY DEF Init, RegistryInit, ScratchInv
<1>3. Spec => []MountInv
  BY MountInvariant
<1> QED  BY <1>1, <1>2, <1>3, ScratchStep, PTL DEF Spec

\* OwnFilesKept of the run: if no command leaves a process in its container, and a
\* mount left behind is found in /proc/mounts, no step of a run, and none of the run
\* after one that was killed, takes a file from the image but the engine's own
\* resolv.conf.  It is the order of the deferred calls that does it: the directory
\* of the overlay is removed when nothing is mounted there.
THEOREM RunKeepsOwnFiles == {"daemon", "hidden"} \cap Faults = {} => (Spec => OwnFilesKept)
<1> SUFFICES ASSUME "daemon" \notin Faults, "hidden" \notin Faults PROVE Spec => OwnFilesKept
  BY Zenon
<1> DEFINE Kept == own \subseteq own' \/ (guest /\ own \ {Resolv} \subseteq own')
<1>1. MountInv /\ [Next]_vars => [Kept]_vars
  <2> SUFFICES ASSUME MountInv, Next PROVE Kept
    OBVIOUS
  <2>1. CASE UNCHANGED own
    BY <2>1
  <2>2. CASE StartRun \/ Clear \/ ClearFails \/ MakeWork \/ MakeWorkFails \/ FetchNext \/ RenderedNext
    <3>1. ClearFails => UNCHANGED own
      BY DEF ClearFails, GiveUp
    <3>2. StartRun \/ Clear \/ MakeWork \/ MakeWorkFails \/ FetchNext \/ RenderedNext => UNCHANGED own
      BY DEF StartRun, Clear, MakeWork, MakeWorkFails, FetchNext, RenderedNext, runVars
    <3> QED  BY <2>1, <2>2, <3>1, <3>2
  <2>3. CASE NoOverlay \/ Mount \/ MountFails \/ Unmount \/ RemoveWork
    BY <2>1, <2>3 DEF NoOverlay, Mount, MountFails, Unmount, RemoveWork, runVars
  <2>4. CASE CopyZoneInfo \/ StartEngine \/ EngineFails \/ Execute
    BY <2>4 DEF CopyZoneInfo, StartEngine, EngineFails, Execute, With
  <2>5. CASE StopEngine
    BY <2>5 DEF StopEngine
  <2>6. CASE Finish
    BY <2>1, <2>6 DEF Finish, RemoveTarget, MountInv, InContainer
  <2>7. CASE Kill \/ (RegistryStep /\ UNCHANGED runVars)
    BY <2>1, <2>7 DEF Kill, runVars
  <2> QED  BY <2>2, <2>3, <2>4, <2>5, <2>6, <2>7 DEF Next, RunStep
<1> QED  BY <1>1, MountInvariant, PTL DEF Spec, OwnFilesKept

-----------------------------------------------------------------------------
(* Types.  The calls of fetchACIWithSize are a stack: only the one on top may  *)
(* not know its image yet.                                                     *)

\* The dependencies anything is called with.
Wishes == {Man[k].deps[i] : k \in Id, i \in Nat}
             \cup {[l[i] EXCEPT !.id = None] : l \in Lists, i \in Nat} \cup {None}
Frames == [dep : Wishes, id : Id \cup {None}, next : Nat]
AnyFile == (UNION {Man[k].files : k \in Id}) \cup {"manifest"}
Parts == {e \in [key : Id, left : SUBSET AnyFile] : e.left \subseteq Man[e.key].files \cup {"manifest"}}

Calls(s) == s \in Seq(Frames) /\ \A i \in 2..Len(s) : s[i].id \in Id
Current(s) == s # <<>> /\ Head(s).id \in Id

CallInv ==
    /\ failed \in BOOLEAN /\ hurt \in BOOLEAN
    /\ want \in Wishes
    /\ Calls(stack)
    /\ pc = "download" => stack # <<>>
    /\ pc \in {"uncompress", "mkdir", "manifest", "deps"} => Current(stack)

StoreInv ==
    /\ tar \subseteq Id /\ rendered \subseteq Id
    /\ dir \in [Id -> {"none", "made", "whole"}]
    /\ DOMAIN tree = Id /\ \A k \in Id : tree[k] \subseteq Man[k].files
    /\ queue \in Seq(Parts)
    /\ pc = "remanifest" => queue # <<>>

BuildInv ==
    /\ killed \in BOOLEAN
    /\ own \subseteq File /\ mine \subseteq File /\ list \in Lists /\ next \in Nat
    /\ IsWhole(lowers) /\ (mounted = NoMount \/ IsWhole(mounted))
    /\ scratch \subseteq {"target", "work"} /\ runs \in 0..MaxRuns

TypeInv == CallInv /\ StoreInv /\ BuildInv

LEMMA TypeInvImpliesTypeOK == TypeInv => TypeOK
BY DEF TypeInv, CallInv, StoreInv, BuildInv, TypeOK, Current, Top

-----------------------------------------------------------------------------
(* Stacks.                                                                     *)

LEMMA PushFacts ==
    ASSUME NEW S, NEW s \in Seq(S), NEW x \in S
    PROVE  /\ <<x>> \o s \in Seq(S) /\ Len(<<x>> \o s) = Len(s) + 1 /\ <<x>> \o s # <<>>
           /\ Head(<<x>> \o s) = x
           /\ \A i \in 2..(Len(s) + 1) : (<<x>> \o s)[i] = s[i - 1]
<1> DEFINE c == <<x>> \o s
<1>1. <<x>> \in Seq(S) /\ Len(<<x>>) = 1 /\ <<x>>[1] = x
  OBVIOUS
<1>2. /\ c \in Seq(S) /\ Len(c) = 1 + Len(s)
      /\ \A i \in 1..(1 + Len(s)) : c[i] = IF i <= 1 THEN x ELSE s[i - 1]
  BY <1>1, ConcatProperties
<1>3. Len(s) \in Nat
  OBVIOUS
<1> HIDE DEF c
<1>4. c # <<>> /\ Head(c) = c[1] /\ c[1] = x
  BY <1>2, <1>3
<1>5. \A i \in 2..(Len(s) + 1) : c[i] = s[i - 1]
  BY <1>2, <1>3
<1> QED  BY <1>2, <1>3, <1>4, <1>5 DEF c

LEMMA CallOne == ASSUME NEW x \in Frames PROVE Calls(<<x>>) /\ <<x>> # <<>>
<1>1. <<x>> \in Seq(Frames) /\ Len(<<x>>) = 1 /\ <<x>> # <<>>
  OBVIOUS
<1> QED  BY <1>1 DEF Calls

LEMMA CallPush ==
    ASSUME NEW s, Calls(s), Current(s), NEW x \in Frames
    PROVE  Calls(<<x>> \o s) /\ <<x>> \o s # <<>>
<1> DEFINE c == <<x>> \o s
<1>1. /\ c \in Seq(Frames) /\ Len(c) = Len(s) + 1 /\ c # <<>>
      /\ \A i \in 2..(Len(s) + 1) : c[i] = s[i - 1]
  BY PushFacts DEF Calls
<1> HIDE DEF c
<1>2. \A j \in 1..Len(s) : s[j].id \in Id
  BY DEF Calls, Current
<1>3. Len(s) \in Nat
  BY DEF Calls
<1>4. \A i \in 2..Len(c) : i - 1 \in 1..Len(s) /\ c[i] = s[i - 1]
  BY <1>1, <1>3
<1>5. Calls(c) /\ c # <<>>
  BY <1>1, <1>2, <1>4 DEF Calls
<1> QED  BY <1>5 DEF c

LEMMA CallReturn ==
    ASSUME NEW s, Calls(s), s # <<>>
    PROVE  /\ Calls(Tail(s))
           /\ Head(s) \in Frames
           /\ Tail(s) # <<>> => Current(Tail(s)) /\ Head(Tail(s)) \in Frames
<1> DEFINE t == Tail(s)
<1>1. /\ s \in Seq(Frames) /\ Len(s) \in Nat \ {0}
      /\ \A i \in 2..Len(s) : s[i].id \in Id
  BY DEF Calls
<1>2. /\ t \in Seq(Frames) /\ Len(t) = Len(s) - 1
      /\ \A i \in 1..Len(t) : t[i] = s[i + 1]
      /\ Head(s) \in Frames
  BY <1>1
<1> HIDE DEF t
<1>3. \A i \in 1..Len(t) : t[i].id \in Id
  <2> SUFFICES ASSUME NEW i \in 1..Len(t) PROVE t[i].id \in Id
    OBVIOUS
  <2>1. i + 1 \in 2..Len(s)
    BY <1>1, <1>2
  <2> QED  BY <1>1, <1>2, <2>1
<1>4. Calls(t)
  BY <1>1, <1>2, <1>3 DEF Calls
<1>5. t # <<>> => Head(t) = t[1] /\ 1 \in 1..Len(t)
  BY <1>1, <1>2
<1>6. t # <<>> => Current(t) /\ Head(t) \in Frames
  BY <1>2, <1>3, <1>5 DEF Current
<1> QED  BY <1>2, <1>4, <1>6 DEF t

LEMMA CallReplace ==
    ASSUME NEW s, Calls(s), s # <<>>, NEW x \in Frames
    PROVE  /\ Calls(<<x>> \o Tail(s)) /\ <<x>> \o Tail(s) # <<>>
           /\ x.id \in Id => Current(<<x>> \o Tail(s))
<1>1. Calls(Tail(s)) /\ (Tail(s) # <<>> => Current(Tail(s)))
  BY CallReturn
<1>2. /\ <<x>> \o Tail(s) # <<>> /\ Head(<<x>> \o Tail(s)) = x
  BY <1>1, PushFacts DEF Calls
<1>3. CASE Tail(s) # <<>>
  BY <1>1, <1>2, <1>3, CallPush DEF Current
<1>4. CASE Tail(s) = <<>>
  <2>1. <<x>> \o <<>> = <<x>>
    <3>1. <<x>> \in Seq(Frames)
      OBVIOUS
    <3> QED  BY <3>1, ConcatEmptySeq
  <2>2. <<x>> \o Tail(s) = <<x>>
    BY <1>4, <2>1, Zenon
  <2>3. Calls(<<x>>)
    BY CallOne
  <2> QED  BY <1>2, <2>2, <2>3, Zenon DEF Current
<1> QED  BY <1>3, <1>4

-----------------------------------------------------------------------------
(* The registry keeps the types.                                              *)

LEMMA WishesHave ==
    /\ \A k \in Id, i \in Nat : Man[k].deps[i] \in Wishes
    /\ \A l \in Lists, i \in Nat : [l[i] EXCEPT !.id = None] \in Wishes
    /\ \A d \in Wishes : Frame(d) \in Frames
BY DEF Wishes, Frame, Frames

LEMMA RegistryCalls == CallInv /\ RegistryStep => CallInv'
<1> SUFFICES ASSUME CallInv, RegistryStep PROVE CallInv'
  OBVIOUS
<1> USE DEF CallInv, Goto
<1>1. CASE Fetch
  <2>1. Calls(<<Frame(want)>>) /\ <<Frame(want)>> # <<>>
    BY WishesHave, CallOne
  <2> HIDE DEF CallInv
  <2>2. /\ want' = want /\ failed' \in BOOLEAN /\ hurt' = hurt
        /\ \/ pc' \in {"returned", "list"} /\ stack' = stack
           \/ pc' = "download" /\ stack' = <<Frame(want)>>
    BY <1>1 DEF Fetch, Return, CallInv
  <2> QED  BY <2>1, <2>2 DEF CallInv
<1>2. CASE Download
  <2>1. PICK k \in Id : stack' = <<[Top EXCEPT !.id = k]>> \o Tail(stack)
    BY <1>2 DEF Download
  <2>2. pc = "download" /\ pc' = "uncompress" /\ UNCHANGED <<failed, want>> /\ hurt' \in BOOLEAN
    BY <1>2 DEF Download
  <2>3. Top \in Frames
    BY <2>2, CallReturn DEF Top
  <2>4. [Top EXCEPT !.id = k] \in Frames /\ [Top EXCEPT !.id = k].id = k
    BY <2>3 DEF Frames
  <2>5. Calls(stack') /\ Current(stack')
    BY <2>1, <2>2, <2>4, CallReplace
  <2> QED  BY <2>2, <2>5
<1>3. CASE DownloadFails \/ WriteFails
  BY <1>3 DEF DownloadFails, WriteFails, FailFor, Return
<1>4. CASE Uncompress
  BY <1>4 DEF Uncompress, FailFor, Return
<1>5. CASE MakeDir \/ WriteManifest
  BY <1>5 DEF MakeDir, WriteManifest, Return
<1>6. CASE FetchDep
  <2>1. Top \in Frames /\ Top.id \in Id
    BY <1>6, CallReturn DEF FetchDep, Current, Top
  <2>2. Frame(Man[Top.id].deps[Top.next]) \in Frames
    BY <2>1, WishesHave DEF Frames
  <2>3. Calls(stack') /\ stack' # <<>>
    BY <1>6, <2>2, CallPush DEF FetchDep
  <2> QED  BY <1>6, <2>3 DEF FetchDep
<1>7. CASE Fetched
  <2> DEFINE rest == Tail(stack)
             top == [Head(rest) EXCEPT !.next = @ + 1]
  <2>1. pc = "deps" /\ want' = want /\ stack # <<>>
    BY <1>7 DEF Fetched, Current
  <2>2. Calls(rest) /\ (rest # <<>> => Current(rest) /\ Head(rest) \in Frames)
    BY <2>1, CallReturn
  <2>3. CASE rest = <<>>
    <3>1. stack' = <<>> /\ pc' = "list" /\ UNCHANGED <<failed, hurt>>
      BY <1>7, <2>3 DEF Fetched
    <3>2. Calls(<<>>)
      BY <2>2, <2>3
    <3> QED  BY <2>1, <3>1, <3>2
  <2>4. CASE rest # <<>>
    <3>1. /\ stack' = <<top>> \o Tail(rest)
          /\ pc' \in {"deps", "returned"} /\ failed' \in BOOLEAN /\ hurt' \in BOOLEAN
      BY <1>7, <2>1, <2>4 DEF Fetched, Return
    <3>2. top \in Frames /\ top.id \in Id
      BY <2>2, <2>4 DEF Current, Frames
    <3> HIDE DEF rest, top
    <3>3. Calls(stack') /\ Current(stack')
      BY <2>2, <2>4, <3>1, <3>2, CallReplace
    <3> QED  BY <2>1, <3>1, <3>3
  <2> QED  BY <2>3, <2>4
<1>8. CASE RenderStep
  <2>1. stack' = stack /\ want' = want /\ failed' \in BOOLEAN /\ hurt' \in BOOLEAN
    BY <1>8 DEF RenderStep, List, Skip, ExtractFile, RemoveManifest, ExtractManifest, Mark, Rendered, Return
  <2>2. pc' \notin {"download", "uncompress", "mkdir", "manifest", "deps"}
    BY <1>8 DEF RenderStep, List, Skip, ExtractFile, RemoveManifest, ExtractManifest, Mark, Rendered, Return
  <2> QED  BY <2>1, <2>2
<1> QED
  BY <1>1, <1>2, <1>3, <1>4, <1>5, <1>6, <1>7, <1>8 DEF RegistryStep, FetchStep

\* What is left of the list after a step of the rendering.
LEMMA QueueTop ==
    ASSUME StoreInv, queue # <<>>
    PROVE  /\ Next1 \in Parts /\ Tail(queue) \in Seq(Parts)
           /\ \A f : /\ <<[Next1 EXCEPT !.left = @ \ {f}]>> \o Tail(queue) \in Seq(Parts)
                     /\ <<[Next1 EXCEPT !.left = @ \ {f}]>> \o Tail(queue) # <<>>
<1>1. Next1 \in Parts /\ Tail(queue) \in Seq(Parts)
  BY DEF StoreInv, Next1
<1>2. ASSUME NEW f PROVE [Next1 EXCEPT !.left = @ \ {f}] \in Parts
  BY <1>1 DEF Parts
<1> QED  BY <1>1, <1>2, PushFacts

LEMMA RegistryStore == CallInv /\ StoreInv /\ RegistryStep => StoreInv'
<1> SUFFICES ASSUME CallInv, StoreInv, RegistryStep PROVE StoreInv'
  OBVIOUS
<1> USE DEF StoreInv, Goto, store
<1>0. pc \in {"uncompress", "mkdir", "manifest", "deps"} => Top.id \in Id
  BY DEF CallInv, Current, Top
<1>1. CASE Fetch \/ Download \/ DownloadFails \/ FetchDep
  BY <1>1 DEF Fetch, Download, DownloadFails, FetchDep, Return, FailFor
<1>2. CASE Fetched \/ Rendered
  BY <1>2 DEF Fetched, Rendered, Return
<1>3. CASE WriteFails
  BY <1>3 DEF WriteFails, FailFor, Return
<1>4. CASE Uncompress
  BY <1>0, <1>4 DEF Uncompress, FailFor, Return
<1>5. CASE MakeDir \/ WriteManifest
  BY <1>0, <1>5 DEF MakeDir, WriteManifest, Return
<1>6. CASE List
  <2>1. CASE IsWhole(DepList[GetACI(want)])
    <3> DEFINE images == DepList[GetACI(want)]
               q == [i \in DOMAIN images |-> [key |-> images[i], left |-> Wanted(images, i)]]
    <3>1. UNCHANGED <<tar, dir, tree, rendered>> /\ queue' = q /\ pc' = "render"
      BY <1>6, <2>1 DEF List
    <3>2. images \in Seq(Id)
      BY <2>1 DEF IsWhole
    <3> HIDE DEF images
    <3>3. ASSUME NEW i \in DOMAIN images
          PROVE  [key |-> images[i], left |-> Wanted(images, i)] \in Parts
      <4>1. images[i] \in Id
        BY <3>2
      <4>2. Wanted(images, i) \subseteq Man[images[i]].files \cup {"manifest"}
        BY DEF Wanted
      <4>3. Man[images[i]].files \cup {"manifest"} \subseteq AnyFile
        BY <4>1 DEF AnyFile
      <4> HIDE DEF images
      <4> QED  BY <4>1, <4>2, <4>3 DEF Parts
    <3>4. DOMAIN images = 1..Len(images) /\ Len(images) \in Nat
      BY <3>2
    <3>5. q \in [1..Len(images) -> Parts]
      BY <3>3, <3>4
    <3>6. q \in Seq(Parts)
      BY <3>4, <3>5, SeqDef
    <3> QED  BY <3>1, <3>6
  <2>2. CASE ~IsWhole(DepList[GetACI(want)])
    BY <1>6, <2>2 DEF List, Return
  <2> QED  BY <2>1, <2>2
<1>7. CASE Skip
  BY <1>7, QueueTop DEF Skip
<1>8. CASE ExtractFile
  <2>1. PICK f \in Next1.left \ {"manifest"} :
           /\ tree' = [tree EXCEPT ![Next1.key] = @ \cup {f}]
           /\ queue' = <<[Next1 EXCEPT !.left = @ \ {f}]>> \o Tail(queue)
    BY <1>8 DEF ExtractFile
  <2>2. pc' = pc /\ pc = "render" /\ queue # <<>> /\ UNCHANGED <<tar, dir, rendered>>
    BY <1>8 DEF ExtractFile
  <2>3. Next1.key \in Id /\ f \in Man[Next1.key].files
    BY <2>2, QueueTop DEF Parts
  <2>4. queue' \in Seq(Parts)
    BY <2>1, <2>2, QueueTop
  <2> QED  BY <2>1, <2>2, <2>3, <2>4
<1>9. CASE RemoveManifest
  BY <1>9, QueueTop DEF RemoveManifest, Parts
<1>10. CASE ExtractManifest
  <2>1. queue' \in Seq(Parts) /\ Next1.key \in Id
    BY <1>10, QueueTop DEF ExtractManifest, Parts
  <2> QED  BY <1>10, <2>1 DEF ExtractManifest
<1>11. CASE Mark
  BY <1>11, QueueTop DEF Mark, Parts
<1> QED
  BY <1>1, <1>2, <1>3, <1>4, <1>5, <1>6, <1>7, <1>8, <1>9, <1>10, <1>11
  DEF RegistryStep, FetchStep, RenderStep

-----------------------------------------------------------------------------
(* So does the run.                                                           *)

LEMMA RunCalls == TypeInv /\ ~RegistryStep /\ Next => CallInv' /\ StoreInv'
<1> SUFFICES ASSUME TypeInv, ~RegistryStep, Next PROVE CallInv' /\ StoreInv'
  OBVIOUS
<1> DEFINE Inner == {"download", "uncompress", "mkdir", "manifest", "deps", "remanifest"}
<1>0. ASSUME UNCHANGED <<store, stack, queue, want>>, pc' \notin Inner,
             failed' \in BOOLEAN, hurt' \in BOOLEAN
      PROVE  CallInv' /\ StoreInv'
  BY <1>0 DEF TypeInv, CallInv, StoreInv, store
<1>1. failed \in BOOLEAN /\ hurt \in BOOLEAN
  BY DEF TypeInv, CallInv
<1> USE DEF Goto, FailTo, GiveUp, Idle, AfterRun
<1>2. CASE StartRun \/ Clear \/ ClearFails \/ MakeWork \/ MakeWorkFails
  <2>1. UNCHANGED <<store, stack, queue, want>> /\ pc' \notin Inner
    BY <1>2 DEF StartRun, Clear, ClearFails, MakeWork, MakeWorkFails
  <2>2. failed' \in BOOLEAN /\ hurt' \in BOOLEAN
    BY <1>1, <1>2 DEF StartRun, Clear, ClearFails, MakeWork, MakeWorkFails
  <2> QED  BY <1>0, <2>1, <2>2
<1>3. CASE FetchNext
  <2>1. want' \in Wishes
    <3>1. list \in Lists /\ next \in Nat
      BY DEF TypeInv, BuildInv
    <3> QED  BY <1>3, <3>1, WishesHave DEF FetchNext
  <2>2. UNCHANGED <<store, stack, queue, failed, hurt>> /\ pc' = "fetch"
    BY <1>3 DEF FetchNext
  <2> QED  BY <2>1, <2>2 DEF TypeInv, CallInv, StoreInv, store
<1>4. CASE RenderedNext \/ Kill
  <2>1. /\ stack' = <<>> /\ queue' = <<>> /\ UNCHANGED <<store, want>>
        /\ failed' \in BOOLEAN /\ hurt' \in BOOLEAN /\ pc' \notin Inner
    BY <1>1, <1>4 DEF RenderedNext, Kill
  <2>2. Calls(<<>>) /\ <<>> \in Seq(Parts)
    <3>1. <<>> \in Seq(Frames) /\ Len(<<>>) = 0 /\ <<>> \in Seq(Parts)
      OBVIOUS
    <3> QED  BY <3>1 DEF Calls
  <2> QED  BY <2>1, <2>2 DEF TypeInv, CallInv, StoreInv, store
<1>5. CASE NoOverlay \/ Mount \/ MountFails \/ CopyZoneInfo
  <2>1. UNCHANGED <<store, stack, queue, want>> /\ pc' \notin Inner
    BY <1>5 DEF NoOverlay, Mount, MountFails, CopyZoneInfo
  <2>2. failed' \in BOOLEAN /\ hurt' \in BOOLEAN
    BY <1>1, <1>5 DEF NoOverlay, Mount, MountFails, CopyZoneInfo
  <2> QED  BY <1>0, <2>1, <2>2
<1>6. CASE StartEngine \/ EngineFails \/ Execute \/ StopEngine
  <2>1. UNCHANGED <<store, stack, queue, want>> /\ pc' \notin Inner
    BY <1>6 DEF StartEngine, EngineFails, Execute, StopEngine, Deferred
  <2>2. failed' \in BOOLEAN /\ hurt' \in BOOLEAN
    BY <1>1, <1>6 DEF StartEngine, EngineFails, Execute, StopEngine, Deferred
  <2> QED  BY <1>0, <2>1, <2>2
<1>7. CASE Unmount \/ RemoveWork \/ Finish
  <2>1. UNCHANGED <<store, stack, queue, want>> /\ pc' \notin Inner
    BY <1>7 DEF Unmount, RemoveWork, Finish, Deferred
  <2>2. failed' \in BOOLEAN /\ hurt' \in BOOLEAN
    BY <1>1, <1>7 DEF Unmount, RemoveWork, Finish, Deferred
  <2> QED  BY <1>0, <2>1, <2>2
<1> QED
  BY <1>2, <1>3, <1>4, <1>5, <1>6, <1>7 DEF Next, RunStep

LEMMA FileHas == /\ Zone \in File /\ Resolv \in File /\ MachineId \in File
                 /\ \A written \in Writes : written \subseteq File
BY DEF File

LEMMA RunBuild == BuildInv /\ Next => BuildInv'
<1> SUFFICES ASSUME BuildInv, Next PROVE BuildInv'
  OBVIOUS
<1> USE DEF BuildInv
<1>0. ASSUME UNCHANGED runVars PROVE BuildInv'
  BY <1>0 DEF runVars, IsWhole
<1>1. CASE StartRun
  <2>1. runs + 1 \in 0..MaxRuns
    BY <1>1, BuildAssumption DEF StartRun
  <2>2. IsWhole(<<>>)
    BY DEF IsWhole
  <2> QED  BY <1>1, <2>1, <2>2 DEF StartRun
<1>2. CASE Clear \/ ClearFails \/ MakeWork \/ MakeWorkFails
  <2>1. own' \subseteq own /\ UNCHANGED <<mine, list, next, lowers, runs>>
    BY <1>2 DEF Clear, ClearFails, MakeWork, MakeWorkFails, engineVars
  <2>2. killed' \in {killed, FALSE}
    BY <1>2 DEF Clear, ClearFails, MakeWork, MakeWorkFails
  <2>3. mounted' \in {NoMount, mounted} /\ scratch' \subseteq {"target", "work"}
    BY <1>2 DEF Clear, ClearFails, MakeWork, MakeWorkFails
  <2> QED  BY <2>1, <2>2, <2>3
<1>3. CASE FetchNext \/ NoOverlay \/ MountFails
  BY <1>0, <1>3 DEF FetchNext, NoOverlay, MountFails
<1>4. CASE RenderedNext
  <2> DEFINE below == GenDeplist[GetACI(want)]
  <2>1. /\ UNCHANGED <<own, mine, list, mounted, scratch, killed, runs>>
        /\ \/ UNCHANGED <<lowers, next>>
           \/ IsWhole(below) /\ lowers' = lowers \o below /\ next' = next + 1
    BY <1>4 DEF RenderedNext, engineVars
  <2> HIDE DEF below
  <2>2. IsWhole(below) => IsWhole(lowers \o below)
    BY ConcatProperties DEF IsWhole
  <2>3. next + 1 \in Nat
    OBVIOUS
  <2> QED  BY <2>1, <2>2, <2>3 DEF IsWhole
<1>5. CASE Mount
  BY <1>5 DEF Mount, engineVars
<1>6. CASE CopyZoneInfo \/ StartEngine \/ EngineFails \/ StopEngine \/ Finish
  <2>1. Zone \in File /\ Resolv \in File /\ MachineId \in File
    BY FileHas
  <2>2. own' \subseteq own \cup {Zone, Resolv, MachineId}
    <3>1. CopyZoneInfo \/ StartEngine \/ EngineFails => own' \subseteq own \cup {Zone, Resolv, MachineId}
      BY DEF CopyZoneInfo, StartEngine, EngineFails, With
    <3>2. StopEngine \/ Finish => own' \subseteq own
      BY DEF StopEngine, Finish, RemoveTarget
    <3> QED  BY <1>6, <3>1, <3>2
  <2>3. /\ UNCHANGED <<mine, list, next, lowers, mounted, killed, runs>>
        /\ scratch' \subseteq scratch
    BY <1>6 DEF CopyZoneInfo, StartEngine, EngineFails, StopEngine, Finish, RemoveTarget, engineVars
  <2> QED  BY <2>1, <2>2, <2>3
<1>7. CASE Execute
  <2>1. PICK written \in Writes : own' = own \cup written /\ mine' = mine \cup written
    BY <1>7 DEF Execute
  <2>2. written \subseteq File
    BY FileHas
  <2>3. UNCHANGED <<list, next, lowers, mounted, scratch, killed, runs>>
    BY <1>7 DEF Execute
  <2> QED  BY <2>1, <2>2, <2>3
<1>8. CASE Unmount \/ RemoveWork
  <2>1. /\ UNCHANGED <<own, mine, list, next, lowers, killed, runs>>
        /\ mounted' \in {NoMount, mounted} /\ scratch' \subseteq scratch
    BY <1>8 DEF Unmount, RemoveWork, engineVars
  <2> QED  BY <2>1
<1>9. CASE Kill
  BY <1>9 DEF Kill
<1> QED
  BY <1>0, <1>1, <1>2, <1>3, <1>4, <1>5, <1>6, <1>7, <1>8, <1>9 DEF Next, RunStep

LEMMA TypeInvariant == Spec => []TypeInv
<1>1. Init => TypeInv
  <2> SUFFICES ASSUME Init PROVE TypeInv
    OBVIOUS
  <2>1. <<>> \in Seq(Frames) /\ Len(<<>>) = 0 /\ <<>> \in Seq(Parts) /\ <<>> \in Seq(Id)
    OBVIOUS
  <2>2. CallInv
    <3>1. None \in Wishes
      BY DEF Wishes
    <3>2. Calls(<<>>)
      BY <2>1 DEF Calls
    <3> QED  BY <3>1, <3>2 DEF Init, RegistryInit, CallInv
  <2>3. StoreInv
    <3>1. /\ tar = {} /\ rendered = {} /\ pc = "idle" /\ queue = <<>>
          /\ dir = [k \in Id |-> "none"] /\ tree = [k \in Id |-> {}]
      BY DEF Init, RegistryInit
    <3>2. dir \in [Id -> {"none", "made", "whole"}]
      BY <3>1
    <3>3. DOMAIN tree = Id /\ \A k \in Id : tree[k] \subseteq Man[k].files
      BY <3>1
    <3> QED  BY <2>1, <3>1, <3>2, <3>3 DEF StoreInv
  <2>4. BuildInv
    <3>1. own \in Start /\ own \subseteq File /\ 0 \in 0..MaxRuns
      BY BuildAssumption DEF Init
    <3>2. IsWhole(<<>>)
      BY <2>1 DEF IsWhole
    <3> QED  BY <3>1, <3>2 DEF Init, BuildInv
  <2> QED  BY <2>2, <2>3, <2>4 DEF TypeInv
<1>2. TypeInv /\ [Next]_vars => TypeInv'
  <2>1. CASE UNCHANGED vars
    BY <2>1 DEF vars, regVars, runVars, store, TypeInv, CallInv, StoreInv, BuildInv, IsWhole
  <2>2. CASE Next
    BY <2>2, RegistryCalls, RegistryStore, RunCalls, RunBuild DEF TypeInv
  <2> QED  BY <2>1, <2>2
<1> QED  BY <1>1, <1>2, PTL DEF Spec

\* TypeOK of the run, for any images and faults: the store holds images under their
\* digests with no file that is not theirs, a call of fetchACIWithSize that needs
\* its image has one, and what is mounted are images.
THEOREM TypeCorrect == Spec => []TypeOK
BY TypeInvariant, TypeInvImpliesTypeOK, PTL

================================================================================
