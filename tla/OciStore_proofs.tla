---------------------------- MODULE OciStore_proofs ----------------------------
(*****************************************************************************)
(* Proofs about OciStore, for any set of files, any starting image, and any  *)
(* combination of failures: what always holds, then what holds without       *)
(* failures.                                                                 *)
(*****************************************************************************)
EXTENDS OciStore, TLAPS

-----------------------------------------------------------------------------
(* Typing.  TypeOK alone is not inductive: a step reads the directory, the    *)
(* digest or the image that an earlier step of the same command has set.      *)

Rehashing == {"store", "move"}
SavingSteps == {"rmcfg", "wrcfg", "rmman", "wrman", "rmrefs", "wrref"}

Progress ==
    /\ pc # "idle" => cmd \in AnyCommand
    /\ pc \in {"mutate"} \cup Rehashing => target \in Name
    /\ pc \in Rehashing => expanded[target] # None
    /\ pc \in {"move", "retop"} => digest \in Tree
    /\ pc \in SavingSteps => img \in Image

LEMMA LoadedType == TypeOK => Loaded = None \/ Loaded \in Image
BY DEF TypeOK, Loaded, Loadable, Image, Manifest

\* The whole of the memory of a command that ends is gone, so only the disk can
\* still be wrong.
DiskOK ==
    /\ blobs \subseteq Tree
    /\ cut \subseteq IF "flush" \in Faults THEN blobs ELSE {}
    /\ \A c \in configs : c \in Config
    /\ \A m \in manifests : m \in Manifest
    /\ ref # None => ref \in Manifest
    /\ expanded \in [Name -> {None} \cup Tree]

LEMMA StopStep ==
    ASSUME DiskOK', NEW w, Stop(w),
           w \in {"ok", "panic", "missing", "chroot", "mount", "notempty",
                 "refused", "damaged"} \cup AllFaults
    PROVE  TypeOK' /\ Progress'
<1>1. wanted' \in Seq(Tree)
  BY DEF Stop
<1>2. TypeOK'
  BY <1>1 DEF TypeOK, DiskOK, Stop
<1> QED  BY <1>2 DEF Progress, Rehashing, SavingSteps, Stop

LEMMA LastType == ASSUME NEW S, NEW s \in Seq(S), s # <<>> PROVE Last(s) \in S
BY DEF Last

LEMMA TypeStep == TypeOK /\ Progress /\ [Next]_vars => TypeOK' /\ Progress'
<1> USE NamesAssumption, FaultsAssumption DEF Rehashing, SavingSteps
<1> SUFFICES ASSUME TypeOK, Progress, [Next]_vars PROVE TypeOK' /\ Progress'
  OBVIOUS
<1>0. DiskOK
  BY DEF TypeOK, DiskOK
<1>1. CASE UNCHANGED vars
  BY <1>1 DEF TypeOK, Progress, vars, disk
<1>2. ASSUME NEW c \in Issued, Start(c) PROVE TypeOK' /\ Progress'
  <2>1. c \in AnyCommand
    BY DEF Issued
  <2>2. FirstStep(c.op) \in {"expand", "newdir", "edit"}
    BY <2>1 DEF FirstStep, AnyCommand, AllCommands
  <2>3. wanted' \in Seq(Tree)
    <3>1. CASE Loaded = None
      BY <1>2, <3>1 DEF Start
    <3>2. CASE Loaded # None
      <4>1. Loaded.manifest.layers \in Seq(Tree)
        BY <3>2, LoadedType DEF Image, Manifest
      <4>2. TopOf(Loaded.manifest.layers) \in Seq(Tree)
        <5>1. CASE Loaded.manifest.layers = <<>>
          BY <5>1 DEF TopOf
        <5>2. CASE Loaded.manifest.layers # <<>>
          <6>1. Last(Loaded.manifest.layers) \in Tree
            BY <4>1, <5>2, LastType
          <6> QED  BY <5>2, <6>1 DEF TopOf
        <5> QED  BY <5>1, <5>2
      <4> QED  BY <1>2, <4>1, <4>2, <3>2 DEF Start
    <3> QED  BY <3>1, <3>2
  <2>4. img' # None => img' \in Image
    BY <1>2, LoadedType DEF Start
  <2>5. TypeOK'
    BY <1>2, <2>1, <2>2, <2>3, <2>4 DEF Start, TypeOK, disk
  <2> QED  BY <1>2, <2>1, <2>2, <2>5 DEF Start, Progress
<1>3. CASE Panics
  BY <1>0, <1>3, StopStep DEF Panics, disk, DiskOK
<1>4. ASSUME NEW next \in {"mutate", "store"}, pc # "idle", UseNewLayer(next)
      PROVE  TypeOK' /\ Progress'
  <2>1. Content(NewLayer) \in Tree
    BY DEF Content, Present, TypeOK, Name, Tree
  <2>2. expanded' \in [Name -> {None} \cup Tree] /\ expanded'[NewLayer] \in Tree
    BY <1>4, <2>1 DEF UseNewLayer, TypeOK, Name
  <2>3. target' = NewLayer /\ NewLayer \in Name
    BY <1>4 DEF UseNewLayer, Name
  <2>4. expanded'[NewLayer] # None
    BY <2>2
  <2>5. TypeOK'
    BY <1>4, <2>2, <2>3 DEF TypeOK, UseNewLayer
  <2> QED  BY <1>4, <2>3, <2>4, <2>5 DEF Progress, UseNewLayer
<1>5. CASE ExpandNothing
  BY <1>5, <1>4 DEF ExpandNothing
<1>6. CASE NewDirectory
  BY <1>6, <1>4 DEF NewDirectory
<1>7. CASE Extract
  <2>1. Head(wanted) \in Tree /\ Tail(wanted) \in Seq(Tree)
    BY <1>7 DEF Extract, TypeOK
  <2>2. CASE Head(wanted) \in blobs /\ ~cmd.root
    <3>1. expanded' \in [Name -> {None} \cup Tree]
      BY <1>7, <2>1, <2>2 DEF Extract, TypeOK, Name
    <3>2. TypeOK'
      BY <1>7, <2>1, <2>2, <3>1 DEF Extract, TypeOK
    <3> QED  BY <1>7, <2>2, <3>2 DEF Extract, Progress
  <2>3. CASE ~(Head(wanted) \in blobs /\ ~cmd.root)
    BY <1>0, <1>7, <2>3, StopStep DEF Extract, DiskOK
  <2> QED  BY <2>2, <2>3
<1>8. CASE AlreadyExtracted
  <2>1. TypeOK'
    BY <1>8 DEF AlreadyExtracted, TypeOK, disk
  <2> QED  BY <1>8, <2>1 DEF AlreadyExtracted, Progress, disk
<1>9. CASE Expanded
  <2>1. CASE pc' = "idle"
    BY <1>0, <1>9, <2>1, StopStep DEF Expanded, DiskOK, disk
  <2>2. CASE pc' # "idle"
    <3>1. Last(Layers) \in Tree
      BY <1>9, LastType DEF Expanded, Layers, TypeOK, Image, Manifest
    <3>2. pc' = "mutate" /\ target' = Last(Layers) /\ UNCHANGED <<cmd, img, wanted, digest, old, why, disk>>
      BY <1>9, <2>2 DEF Expanded, Stop
    <3>3. target' \in Name
      BY <3>1, <3>2 DEF Name
    <3>4. TypeOK'
      BY <3>2, <3>3 DEF TypeOK, disk
    <3> QED  BY <1>9, <3>2, <3>3, <3>4 DEF Expanded, Progress
  <2> QED  BY <2>1, <2>2
<1>10. CASE Mutate
  <2>1. PICK t \in Tree : expanded' = [expanded EXCEPT ![target] = t]
    BY <1>10 DEF Mutate
  <2>2. target \in Name
    BY <1>10 DEF Mutate, Progress
  <2>3. expanded' \in [Name -> {None} \cup Tree] /\ expanded'[target] \in Tree
    BY <2>1, <2>2 DEF TypeOK
  <2>4. TypeOK'
    BY <1>10, <2>3 DEF Mutate, TypeOK, Step, memory
  <2> QED  BY <1>10, <2>2, <2>3, <2>4 DEF Mutate, Progress, Step, memory
<1>11. CASE MutateFails
  <2>1. PICK t \in Tree : expanded' = [expanded EXCEPT ![target] = t]
    BY <1>11 DEF MutateFails
  <2>2. DiskOK'
    BY <1>0, <1>11, <2>1 DEF MutateFails, DiskOK
  <2> QED  BY <1>11, <2>2, StopStep DEF MutateFails, AllFaults
<1>12. CASE StoreBlob
  <2>1. expanded[target] \in Tree
    BY <1>12 DEF StoreBlob, Progress, TypeOK
  <2>2. TypeOK'
    BY <1>12, <2>1 DEF StoreBlob, TypeOK
  <2> QED  BY <1>12, <2>1, <2>2 DEF StoreBlob, Progress
<1>13. CASE MoveDirectory
  <2>1. digest \in Tree /\ target \in Name /\ expanded[target] \in Tree
    BY <1>13 DEF MoveDirectory, Progress, TypeOK
  <2>2. CASE digest = target \/ Content(digest) = {}
    <3>1. expanded' \in [Name -> {None} \cup Tree]
      BY <1>13, <2>1, <2>2 DEF MoveDirectory, Renamed, TypeOK
    <3>2. TypeOK'
      BY <1>13, <2>2, <3>1 DEF MoveDirectory, Renamed, TypeOK, Step, memory
    <3> QED  BY <1>13, <2>1, <2>2, <3>2 DEF MoveDirectory, Progress, Step, memory
  <2>3. CASE ~(digest = target \/ Content(digest) = {})
    BY <1>0, <1>13, <2>3, StopStep DEF MoveDirectory, DiskOK
  <2> QED  BY <2>2, <2>3
<1>14. CASE UpdateTopLayer
  <2>1. digest \in Tree /\ img \in Image
    BY <1>14 DEF UpdateTopLayer, Progress, TypeOK
  <2>2. \A s \in Seq(Tree) : PutTop(s) \in Seq(Tree)
    BY <2>1 DEF PutTop
  <2>3. /\ img.config.diffs \in Seq(Tree) /\ img.manifest.layers \in Seq(Tree)
        /\ img.config \in Config /\ img.manifest \in Manifest
    BY <2>1 DEF Image, Config, Manifest
  <2>4. img' = [img EXCEPT !.config.diffs = PutTop(@), !.manifest.layers = PutTop(@)]
    BY <1>14 DEF UpdateTopLayer
  <2>5. img' \in Image
    <3>1. [img.config EXCEPT !.diffs = PutTop(img.config.diffs)] \in Config
      BY <2>2, <2>3 DEF Config
    <3>2. [img.manifest EXCEPT !.layers = PutTop(img.manifest.layers)] \in Manifest
      BY <2>2, <2>3 DEF Manifest
    <3>3. img' = [img EXCEPT !.config = [img.config EXCEPT !.diffs = PutTop(img.config.diffs)],
                             !.manifest = [img.manifest EXCEPT !.layers = PutTop(img.manifest.layers)]]
      BY <2>4
    <3> QED  BY <2>1, <3>1, <3>2, <3>3 DEF Image
  <2>6. old' \in {None} \cup Tree
    BY <1>14, <2>3, LastType DEF UpdateTopLayer, Layers
  <2>7. TypeOK'
    BY <1>14, <2>5, <2>6 DEF UpdateTopLayer, TypeOK, disk
  <2> QED  BY <1>14, <2>5, <2>7 DEF UpdateTopLayer, Progress
<1>15. CASE NewTopLayer
  <2>1. digest \in Tree /\ img \in Image
    BY <1>15 DEF NewTopLayer, Progress, TypeOK
  <2>2. img' \in Image
    <3>1. /\ img.config.diffs \in Seq(Tree) /\ img.manifest.layers \in Seq(Tree)
          /\ img.config \in Config /\ img.manifest \in Manifest
      BY <2>1 DEF Image, Config, Manifest
    <3>5. /\ Append(img.config.diffs, digest) \in Seq(Tree)
          /\ Append(img.manifest.layers, digest) \in Seq(Tree)
      BY <2>1, <3>1
    <3>2. [img.config EXCEPT !.diffs = Append(img.config.diffs, digest)] \in Config
      BY <3>1, <3>5 DEF Config
    <3>3. [img.manifest EXCEPT !.layers = Append(img.manifest.layers, digest)] \in Manifest
      BY <3>1, <3>5 DEF Manifest
    <3>4. img' = [img EXCEPT !.config = [img.config EXCEPT !.diffs = Append(img.config.diffs, digest)],
                             !.manifest = [img.manifest EXCEPT !.layers = Append(img.manifest.layers, digest)]]
      BY <1>15 DEF NewTopLayer
    <3> QED  BY <2>1, <3>2, <3>3, <3>4 DEF Image
  <2>3. TypeOK'
    BY <1>15, <2>2 DEF NewTopLayer, TypeOK, disk
  <2> QED  BY <1>15, <2>2, <2>3 DEF NewTopLayer, Progress
<1>16. CASE Prune
  BY <1>0, <1>16, StopStep DEF Prune, Pruned, DiskOK
<1>17. CASE Edit
  <2>0. img \in Image
    BY <1>17 DEF Edit, TypeOK
  <2>1. img' \in Image
    <3>1. CASE cmd.op = "config"
      <4>1. cmd.setting \in Setting
        BY <1>17, <3>1 DEF Edit, TypeOK, AnyCommand, Progress
      <4>2. [img.config EXCEPT !.setting = cmd.setting] \in Config
        BY <2>0, <4>1 DEF Image, Config
      <4>3. img' = [img EXCEPT !.config = [@ EXCEPT !.setting = cmd.setting]]
        BY <1>17, <3>1 DEF Edit
      <4> QED  BY <2>0, <4>2, <4>3 DEF Image
    <3>2. CASE cmd.op # "config"
      BY <1>17, <2>0, <3>2 DEF Edit
    <3> QED  BY <3>1, <3>2
  <2>2. TypeOK'
    BY <1>17, <2>1 DEF Edit, TypeOK, disk
  <2> QED  BY <1>17, <2>1, <2>2 DEF Edit, Progress
<1>18. CASE RemoveConfig
  <2>1. CASE img.manifest.config \in configs
    <3>1. TypeOK'
      BY <1>18, <2>1 DEF RemoveConfig, TypeOK, Step, memory
    <3> QED  BY <1>18, <2>1, <3>1 DEF RemoveConfig, Progress, Step, memory
  <2>2. CASE img.manifest.config \notin configs
    BY <1>0, <1>18, <2>2, StopStep DEF RemoveConfig, DiskOK
  <2> QED  BY <2>1, <2>2
<1>19. CASE WriteConfig
  <2>1. img \in Image /\ img.config \in Config /\ img.manifest \in Manifest
    BY <1>19 DEF WriteConfig, Progress, Image
  <2>2. [img.manifest EXCEPT !.config = img.config] \in Manifest
    BY <2>1 DEF Manifest
  <2>3. img' = [img EXCEPT !.manifest = [@ EXCEPT !.config = img.config]]
    BY <1>19 DEF WriteConfig
  <2>4. img' \in Image
    BY <2>1, <2>2, <2>3 DEF Image
  <2>5. TypeOK'
    BY <1>19, <2>1, <2>4 DEF WriteConfig, TypeOK
  <2> QED  BY <1>19, <2>4, <2>5 DEF WriteConfig, Progress
<1>20. CASE RemoveManifest
  <2>1. CASE img.ref \in manifests
    <3>1. TypeOK'
      BY <1>20, <2>1 DEF RemoveManifest, TypeOK, Step, memory
    <3> QED  BY <1>20, <2>1, <3>1 DEF RemoveManifest, Progress, Step, memory
  <2>2. CASE img.ref \notin manifests
    BY <1>0, <1>20, <2>2, StopStep DEF RemoveManifest, DiskOK
  <2> QED  BY <2>1, <2>2
<1>21. CASE WriteManifest
  <2>1. img \in Image /\ img.manifest \in Manifest
    BY <1>21 DEF WriteManifest, Progress, Image
  <2>2. img' \in Image
    BY <1>21, <2>1 DEF WriteManifest, Image
  <2>3. TypeOK'
    BY <1>21, <2>1, <2>2 DEF WriteManifest, TypeOK
  <2> QED  BY <1>21, <2>2, <2>3 DEF WriteManifest, Progress
<1>22. CASE RemoveRefs
  <2>1. TypeOK'
    BY <1>22 DEF RemoveRefs, TypeOK, Step, memory
  <2> QED  BY <1>22, <2>1 DEF RemoveRefs, Progress, Step, memory
<1>23. CASE WriteRef
  <2>1. img.ref \in Manifest
    BY <1>23 DEF WriteRef, Progress, Image
  <2>2. DiskOK'
    BY <1>0, <1>23, <2>1 DEF WriteRef, DiskOK
  <2>3. CASE cmd.bad \/ old = None
    BY <1>23, <2>2, <2>3, StopStep DEF WriteRef, AllFaults
  <2>4. CASE ~cmd.bad /\ old # None
    <3>1. TypeOK'
      BY <1>23, <2>1, <2>2, <2>4 DEF WriteRef, TypeOK, DiskOK, Step, memory
    <3> QED  BY <1>23, <2>4, <3>1 DEF WriteRef, Progress, Step, memory
  <2> QED  BY <2>3, <2>4
<1>24. CASE IOFails
  BY <1>0, <1>24, StopStep DEF IOFails, disk, DiskOK, AllFaults
<1>25. CASE ExtractFails
  <2>1. Head(wanted) \in Tree
    BY <1>25 DEF ExtractFails, TypeOK
  <2>2. PICK t \in SUBSET Head(wanted) : expanded' = [expanded EXCEPT ![Head(wanted)] = t]
    BY <1>25 DEF ExtractFails
  <2>3. t \in Tree
    BY <2>1, <2>2 DEF Tree
  <2>4. DiskOK'
    BY <1>0, <1>25, <2>2, <2>3 DEF ExtractFails, DiskOK
  <2> QED  BY <1>25, <2>4, StopStep DEF ExtractFails
<1>26. CASE Crash
  BY <1>0, <1>26, StopStep DEF Crash, disk, DiskOK, AllFaults
<1>27. CASE Refused
  BY <1>0, <1>27, StopStep DEF Refused, disk, DiskOK
<1> QED
  BY <1>1, <1>2, <1>3, <1>5, <1>6, <1>7, <1>8, <1>9, <1>10, <1>11, <1>12, <1>13, <1>14,
     <1>15, <1>16, <1>17, <1>18, <1>19, <1>20, <1>21, <1>22, <1>23, <1>24, <1>25, <1>26, <1>27
     DEF Next, Work, ExpandStep, ChangeStep, RehashStep, SaveStep, Failure

LEMMA TypeInit == Init => TypeOK /\ Progress
<1> SUFFICES ASSUME Init PROVE TypeOK /\ Progress
  OBVIOUS
<1>1. PICK s \in Starts, v \in Setting :
        LET c == [diffs |-> s.layers, setting |-> v]
            m == [config |-> c, layers |-> s.layers]
        IN  /\ blobs = ToSet(s.layers)
            /\ cut = {}
            /\ configs = {c}
            /\ manifests = {m}
            /\ ref = m
            /\ expanded = [n \in Name |->
                             IF s.tar /\ n \in ToSet(s.layers) THEN n ELSE None]
  BY DEF Init
<1>2. s.layers \in Seq(Tree)
  BY StartsAssumption
<1>3. ToSet(s.layers) \subseteq Tree
  BY <1>2 DEF ToSet
<1>4. expanded \in [Name -> {None} \cup Tree]
  BY <1>1, <1>3
<1>5. /\ blobs \subseteq Tree
      /\ cut \subseteq IF "flush" \in Faults THEN blobs ELSE {}
      /\ \A c \in configs : c \in Config
      /\ \A m \in manifests : m \in Manifest
      /\ ref \in Manifest
  BY <1>1, <1>2, <1>3 DEF Config, Manifest
<1>6. /\ cmd = None /\ pc = "idle" /\ img = None /\ wanted = <<>> /\ target = None
      /\ digest = None /\ old = None /\ why = "ok"
  BY DEF Init
<1>7. wanted \in Seq(Tree)
  BY <1>6
<1> QED  BY <1>4, <1>5, <1>6, <1>7 DEF TypeOK, Progress, Rehashing, SavingSteps

\* Every variable keeps its type, in all builds: any set of files, any starting
\* image, as root or not, with any combination of failures.
THEOREM TypeCorrect == Spec => []TypeOK
<1>1. Spec => [](TypeOK /\ Progress)
  BY TypeInit, TypeStep, PTL DEF Spec
<1> QED  BY <1>1, PTL

-----------------------------------------------------------------------------
(* Layers and diff ids.  The two lists live in two blobs that save() writes    *)
(* one after the other, and a manifest is in order only if its config is the   *)
(* one that was changed together with it: the image in memory always has equal *)
(* lists, and between WriteConfig and WriteManifest its manifest names its     *)
(* own config.                                                                 *)

Matches(m) == m.config.diffs = m.layers

DiffInv ==
    /\ DiffIDsMatch
    /\ img # None => img.config.diffs = img.manifest.layers
    /\ pc \in SavingSteps => img.config.diffs = img.manifest.layers
    /\ pc \in {"rmman", "wrman"} => img.manifest.config = img.config

LEMMA StopKeepsDiffs ==
    ASSUME DiffInv, NEW w, Stop(w), manifests' \subseteq manifests PROVE DiffInv'
BY DEF DiffInv, DiffIDsMatch, Stop, SavingSteps

\* The steps before the image in memory changes.
LEMMA EarlyKeepsDiffs ==
    ASSUME DiffInv, pc' \notin SavingSteps, img' = img, manifests' = manifests PROVE DiffInv'
BY DEF DiffInv, DiffIDsMatch, SavingSteps

LEMMA DiffInit == Init => DiffInv
BY DEF Init, DiffInv, DiffIDsMatch, SavingSteps

LEMMA DiffStep == TypeOK /\ Progress /\ DiffInv /\ [Next]_vars => DiffInv'
<1> SUFFICES ASSUME TypeOK, Progress, DiffInv, [Next]_vars PROVE DiffInv'
  OBVIOUS
<1> USE DEF SavingSteps
<1>1. CASE UNCHANGED vars
  BY <1>1 DEF DiffInv, DiffIDsMatch, vars, disk
<1>2. ASSUME NEW c \in Issued, Start(c) PROVE DiffInv'
  <2>1. c.op \in AllCommands
    BY DEF Issued, AnyCommand
  <2>2. pc' \in {"expand", "newdir", "edit"}
    BY <1>2, <2>1 DEF Start, FirstStep, AllCommands
  <2>3. img' # None => img'.config.diffs = img'.manifest.layers
    BY <1>2 DEF Start, Loaded, Loadable, DiffInv, DiffIDsMatch
  <2> QED  BY <1>2, <2>2, <2>3 DEF Start, disk, DiffInv, DiffIDsMatch
<1>3. CASE Panics
  BY <1>3, StopKeepsDiffs DEF Panics, disk
<1>4. CASE ExpandNothing \/ NewDirectory
  BY <1>4, EarlyKeepsDiffs DEF ExpandNothing, NewDirectory, UseNewLayer
<1>5. CASE Extract
  <2>1. CASE Head(wanted) \in blobs /\ ~cmd.root
    BY <1>5, <2>1, EarlyKeepsDiffs DEF Extract
  <2>2. CASE ~(Head(wanted) \in blobs /\ ~cmd.root)
    BY <1>5, <2>2, StopKeepsDiffs DEF Extract
  <2> QED  BY <2>1, <2>2
<1>6. CASE AlreadyExtracted
  BY <1>6, EarlyKeepsDiffs DEF AlreadyExtracted, disk
<1>7. CASE Expanded
  <2>1. CASE Stop("mount")
    BY <1>7, <2>1, StopKeepsDiffs DEF Expanded, disk
  <2>2. CASE ~Stop("mount")
    BY <1>7, <2>2, EarlyKeepsDiffs DEF Expanded, disk
  <2> QED  BY <2>1, <2>2
<1>8. CASE Mutate
  BY <1>8, EarlyKeepsDiffs DEF Mutate, Step, memory
<1>9. CASE MutateFails
  BY <1>9, StopKeepsDiffs DEF MutateFails
<1>10. CASE StoreBlob
  BY <1>10, EarlyKeepsDiffs DEF StoreBlob
<1>11. CASE MoveDirectory
  <2>1. CASE digest = target \/ Content(digest) = {}
    BY <1>11, <2>1, EarlyKeepsDiffs DEF MoveDirectory, Step, memory
  <2>2. CASE ~(digest = target \/ Content(digest) = {})
    BY <1>11, <2>2, StopKeepsDiffs DEF MoveDirectory
  <2> QED  BY <2>1, <2>2
<1>12. CASE UpdateTopLayer \/ NewTopLayer
  <2>1. img # None /\ img \in Image /\ img.config.diffs = img.manifest.layers
    BY <1>12 DEF UpdateTopLayer, NewTopLayer, TypeOK, DiffInv
  <2>2. PICK s : img' = [img EXCEPT !.config.diffs = s, !.manifest.layers = s]
    BY <1>12, <2>1 DEF UpdateTopLayer, NewTopLayer
  <2>3. img'.config.diffs = img'.manifest.layers
    BY <2>1, <2>2 DEF Image, Config, Manifest
  <2> QED  BY <1>12, <2>3 DEF UpdateTopLayer, NewTopLayer, disk, DiffInv, DiffIDsMatch
<1>13. CASE Prune
  BY <1>13, StopKeepsDiffs DEF Prune
<1>14. CASE Edit
  BY <1>14 DEF Edit, DiffInv, DiffIDsMatch, disk, TypeOK, Image, Config
<1>15. CASE RemoveConfig
  BY <1>15, StopKeepsDiffs DEF RemoveConfig, Step, memory, DiffInv, DiffIDsMatch
<1>16. CASE WriteConfig
  <2>1. img \in Image /\ img.config.diffs = img.manifest.layers
    BY <1>16 DEF WriteConfig, Progress, DiffInv
  <2>2. /\ img'.config = img.config
        /\ img'.manifest.layers = img.manifest.layers
        /\ img'.manifest.config = img.config
    BY <1>16, <2>1 DEF WriteConfig, Image, Manifest
  <2> QED  BY <1>16, <2>1, <2>2 DEF WriteConfig, DiffInv, DiffIDsMatch
<1>17. CASE RemoveManifest
  BY <1>17, StopKeepsDiffs DEF RemoveManifest, Step, memory, DiffInv, DiffIDsMatch
<1>18. CASE WriteManifest
  BY <1>18 DEF WriteManifest, DiffInv, DiffIDsMatch, TypeOK, Image, Manifest
<1>19. CASE RemoveRefs \/ WriteRef
  BY <1>19, StopKeepsDiffs DEF RemoveRefs, WriteRef, Step, memory, DiffInv, DiffIDsMatch
<1>20. CASE Refused \/ IOFails \/ ExtractFails \/ Crash
  BY <1>20, StopKeepsDiffs DEF Refused, IOFails, ExtractFails, Crash, disk
<1> QED
  BY <1>1, <1>2, <1>3, <1>4, <1>5, <1>6, <1>7, <1>8, <1>9, <1>10, <1>11, <1>12, <1>13, <1>14,
     <1>15, <1>16, <1>17, <1>18, <1>19, <1>20
     DEF Next, Work, ExpandStep, ChangeStep, RehashStep, SaveStep, Failure

\* However a build is interrupted, a manifest blob never pairs a layer with the
\* diff id of another one.
THEOREM DiffIDsAlwaysMatch == Spec => []DiffIDsMatch
<1>1. Init => TypeOK /\ Progress /\ DiffInv
  BY TypeInit, DiffInit
<1>2. TypeOK /\ Progress /\ DiffInv /\ [Next]_vars => (TypeOK /\ Progress /\ DiffInv)'
  BY TypeStep, DiffStep
<1>3. DiffInv => DiffIDsMatch
  BY DEF DiffInv
<1> QED  BY <1>1, <1>2, <1>3, PTL DEF Spec

-----------------------------------------------------------------------------
(* How a step changes the image, for the two invariants below: it is one of    *)
(* the few that do, or it works on expanded layers only, or the command ends.  *)

Early == {"expand", "mutate", "newdir", "store", "move", "retop", "edit"}

Quiet == /\ pc \in Early /\ pc' \in Early
         /\ UNCHANGED <<configs, manifests, ref, cmd, img, old>>
         /\ blobs \subseteq blobs'

Ends == /\ \E w : Stop(w)
        /\ UNCHANGED <<blobs, configs, manifests, ref>>
        /\ pc = "wrref" => Faults # {}

LEMMA ExpandShape == ExpandStep => Quiet \/ Ends
<1> SUFFICES ASSUME ExpandStep PROVE Quiet \/ Ends
  OBVIOUS
<1> USE DEF Quiet, Ends, Early
<1>1. CASE ExpandNothing
  BY <1>1 DEF ExpandNothing, UseNewLayer
<1>2. CASE Extract
  BY <1>2 DEF Extract
<1>3. CASE AlreadyExtracted
  BY <1>3 DEF AlreadyExtracted, disk
<1>4. CASE Expanded
  BY <1>4 DEF Expanded, disk
<1> QED  BY <1>1, <1>2, <1>3, <1>4 DEF ExpandStep

LEMMA FailureShape == Failure \/ MutateFails => Ends
<1> SUFFICES ASSUME Failure \/ MutateFails PROVE Ends
  OBVIOUS
<1>1. CASE Panics \/ Refused
  BY <1>1 DEF Panics, Refused, Ends, disk
<1>2. CASE IOFails \/ Crash
  BY <1>2 DEF IOFails, Crash, Ends, disk
<1>3. CASE ExtractFails \/ MutateFails
  BY <1>3 DEF ExtractFails, MutateFails, Ends
<1> QED  BY <1>1, <1>2, <1>3 DEF Failure

LEMMA StepShape ==
    ASSUME Next
    PROVE  \/ \E c \in Issued : Start(c)
           \/ Quiet \/ Ends
           \/ UpdateTopLayer \/ NewTopLayer \/ Edit \/ Prune
           \/ SaveStep
<1>1. Mutate \/ NewDirectory \/ StoreBlob => Quiet
  BY DEF Mutate, NewDirectory, UseNewLayer, StoreBlob, Step, memory, Quiet, Early
<1>2. MoveDirectory => Quiet \/ Ends
  BY DEF MoveDirectory, Step, memory, Quiet, Ends, Early
<1> QED  BY <1>1, <1>2, ExpandShape, FailureShape DEF Next, Work, ChangeStep, RehashStep

-----------------------------------------------------------------------------
(* The layers below the top.  From its start to the last step before the refs  *)
(* go, a command that has an image works for a ref that still names the layers *)
(* it started from, and what it has in memory is at most one layer away.       *)

BeforeRefs == {"rmcfg", "wrcfg", "rmman", "wrman", "rmrefs"}

\* t is s, or s with a layer on top, or with another one at the top.
OneStep(s, t) ==
    \/ t = s
    \/ \E l \in Tree : t = Append(s, l) \/ (s # <<>> /\ t = [s EXCEPT ![Len(s)] = l])

StackInv ==
    /\ img # None /\ pc \in Early => ref # None /\ img.manifest.layers = ref.layers
    /\ pc \in BeforeRefs => ref # None /\ OneStep(ref.layers, img.manifest.layers)
    /\ pc \in {"rmrefs", "wrref"} => img.ref = img.manifest
    /\ pc = "wrref" => ref = None
    /\ pc # "idle" /\ cmd.bad => Faults # {}

LEMMA StackInvInit == Init => StackInv
BY DEF Init, StackInv, Early, BeforeRefs

LEMMA StackInvStep == TypeOK /\ Progress /\ StackInv /\ [Next]_vars => StackInv'
<1> SUFFICES ASSUME TypeOK, Progress, StackInv, [Next]_vars PROVE StackInv'
  OBVIOUS
<1> USE DEF Early, BeforeRefs
<1>1. CASE UNCHANGED vars
  BY <1>1 DEF StackInv, vars, disk
<1>2. ASSUME NEW c \in Issued, Start(c) PROVE StackInv'
  <2>1. c.op \in AllCommands /\ (c.bad => Faults # {})
    BY DEF Issued, AnyCommand
  <2>2. pc' \in {"expand", "newdir", "edit"}
    BY <1>2, <2>1 DEF Start, FirstStep, AllCommands
  <2>3. img' # None => ref # None /\ img'.manifest.layers = ref.layers
    BY <1>2 DEF Start, Loaded, Loadable
  <2> QED  BY <1>2, <2>1, <2>2, <2>3 DEF Start, disk, StackInv
<1>3. CASE Quiet
  BY <1>3 DEF Quiet, StackInv
<1>4. CASE Ends
  BY <1>4 DEF Ends, Stop, StackInv
<1>5. CASE UpdateTopLayer \/ NewTopLayer
  <2>1. /\ img # None /\ img \in Image /\ digest \in Tree
        /\ ref # None /\ img.manifest.layers = ref.layers
    BY <1>5 DEF UpdateTopLayer, NewTopLayer, TypeOK, Progress, StackInv
  <2>2. img.manifest \in Manifest /\ img.manifest.layers \in Seq(Tree)
    BY <2>1 DEF Image, Manifest
  <2>3. OneStep(ref.layers, img'.manifest.layers)
    <3>1. CASE UpdateTopLayer
      <4>1. img'.manifest.layers = PutTop(img.manifest.layers)
        BY <2>1, <2>2, <3>1 DEF UpdateTopLayer, Image, Manifest
      <4>2. CASE ref.layers = <<>>
        <5>1. img'.manifest.layers = Append(ref.layers, digest)
          BY <2>1, <4>1, <4>2 DEF PutTop
        <5> QED  BY <2>1, <5>1 DEF OneStep
      <4>3. CASE ref.layers # <<>>
        BY <2>1, <4>1, <4>3 DEF PutTop, OneStep
      <4> QED  BY <4>2, <4>3
    <3>2. CASE NewTopLayer
      <4>1. img'.manifest.layers = Append(img.manifest.layers, digest)
        BY <2>1, <2>2, <3>2 DEF NewTopLayer, Image, Manifest
      <4> QED  BY <2>1, <4>1 DEF OneStep
    <3> QED  BY <1>5, <3>1, <3>2
  <2>4. UNCHANGED <<ref, cmd>> /\ pc = "retop" /\ pc' = "rmcfg"
    BY <1>5 DEF UpdateTopLayer, NewTopLayer, disk
  <2> QED  BY <2>1, <2>3, <2>4 DEF StackInv
<1>6. CASE Edit
  <2>1. img # None /\ img \in Image
    BY <1>6 DEF Edit, TypeOK
  <2>2. img'.manifest = img.manifest
    BY <1>6, <2>1 DEF Edit, Image
  <2> QED  BY <1>6, <2>1, <2>2 DEF Edit, disk, StackInv, OneStep
<1>7. CASE Prune
  BY <1>7 DEF Prune, Stop, StackInv
<1>8. CASE RemoveConfig \/ RemoveManifest
  BY <1>8 DEF RemoveConfig, RemoveManifest, Stop, Step, memory, StackInv
<1>9. CASE WriteConfig
  <2>1. img'.manifest.layers = img.manifest.layers
    BY <1>9 DEF WriteConfig, Progress, SavingSteps, Image, Manifest
  <2> QED  BY <1>9, <2>1 DEF WriteConfig, StackInv
<1>10. CASE WriteManifest
  <2>1. img'.manifest = img.manifest /\ img'.ref = img.manifest
    BY <1>10 DEF WriteManifest, Progress, SavingSteps, Image
  <2> QED  BY <1>10, <2>1 DEF WriteManifest, StackInv
<1>11. CASE RemoveRefs \/ WriteRef
  BY <1>11 DEF RemoveRefs, WriteRef, Stop, Step, memory, StackInv
<1> QED
  BY <1>1, <1>2, <1>3, <1>4, <1>5, <1>6, <1>7, <1>8, <1>9, <1>10, <1>11, StepShape DEF SaveStep

\* The steps that leave alone what the image of LayerStack is made of.
LEMMA Stutters ==
    ASSUME ref' = ref, pc # "wrref", pc' # "wrref" PROVE Committed' = Committed
BY DEF Committed, Saving

LEMMA StackInit == Init => Stack!Init
<1> SUFFICES ASSUME Init PROVE Stack!Init
  OBVIOUS
<1>1. PICK s \in Starts, v \in Setting :
         ref = [config |-> [diffs |-> s.layers, setting |-> v], layers |-> s.layers]
  BY DEF Init
<1>2. pc = "idle" /\ ref.layers \in Seq(Tree) /\ ref # None
  <2>1. pc = "idle" /\ TypeOK
    BY TypeInit DEF Init
  <2>2. s.layers \in Seq(Tree) /\ ref \in Manifest
    BY <1>1, StartsAssumption DEF Manifest, Config
  <2> QED  BY <1>1, <2>1, <2>2, NoneAssumption
<1> QED  BY <1>2 DEF Stack!Init, Committed, Saving

LEMMA StackStep ==
    TypeOK /\ Progress /\ StackInv /\ [Next]_vars => [Stack!Next]_Committed
<1> SUFFICES ASSUME TypeOK, Progress, StackInv, [Next]_vars,
                    Committed' # Committed
             PROVE  Stack!Next
  OBVIOUS
<1>1. CASE UNCHANGED vars
  BY <1>1 DEF Committed, Saving, vars, disk
<1>2. ASSUME NEW c \in Issued, Start(c) PROVE FALSE
  <2>1. pc' \in {"expand", "newdir", "edit"}
    BY <1>2 DEF Issued, AnyCommand, Start, FirstStep, AllCommands
  <2> QED  BY <1>2, <2>1, Stutters DEF Start, disk
<1>3. CASE Quiet
  BY <1>3, Stutters DEF Quiet, Early
<1>4. CASE Ends
  <2>1. pc = "wrref"
    BY <1>4, Stutters DEF Ends, Stop
  <2>2. Committed' = None /\ Faults # {}
    BY <1>4, <2>1 DEF Ends, Stop, StackInv, Committed, Saving
  <2> QED  BY <2>2 DEF Stack!Next, Stack!Lose
<1>5. CASE UpdateTopLayer \/ NewTopLayer \/ Edit \/ Prune
  BY <1>5, Stutters DEF UpdateTopLayer, NewTopLayer, Edit, Prune, Stop, disk
<1>6. CASE RemoveConfig \/ WriteConfig \/ RemoveManifest \/ WriteManifest
  BY <1>6, Stutters DEF RemoveConfig, WriteConfig, RemoveManifest, WriteManifest, Stop, Step
<1>7. CASE RemoveRefs
  <2>1. /\ ref # None /\ ref \in Manifest /\ OneStep(ref.layers, img.manifest.layers)
        /\ Committed = ref.layers /\ Committed' = img.manifest.layers
    BY <1>7 DEF RemoveRefs, Step, memory, StackInv, BeforeRefs, TypeOK, Committed, Saving
  <2>2. Committed # None
    BY <2>1, NoneAssumption DEF Manifest
  <2>3. PICK l \in Tree :
           \/ Committed' = Append(Committed, l)
           \/ Committed # <<>> /\ Committed' = [Committed EXCEPT ![Len(Committed)] = l]
    BY <2>1 DEF OneStep
  <2> QED  BY <2>2, <2>3 DEF Stack!Next, Stack!Push, Stack!Replace
<1>8. CASE WriteRef
  <2>1. CASE cmd.bad
    <3>1. Faults # {} /\ Committed' = None
      BY <1>8, <2>1 DEF WriteRef, Stop, StackInv, Committed, Saving
    <3> QED  BY <3>1 DEF Stack!Next, Stack!Lose
  <2>2. CASE ~cmd.bad
    <3>1. ref' = img.manifest /\ ref' # None
      <4>1. ref' = img.manifest /\ img \in Image
        BY <1>8, <2>2 DEF WriteRef, StackInv, Progress, SavingSteps
      <4> QED  BY <4>1, NoneAssumption DEF Image
    <3>2. Committed' = Committed
      BY <1>8, <2>2, <3>1 DEF WriteRef, Stop, Step, Committed, Saving
    <3> QED  BY <3>2
  <2> QED  BY <2>1, <2>2
<1> QED
  BY <1>1, <1>2, <1>3, <1>4, <1>5, <1>6, <1>7, <1>8, StepShape DEF SaveStep

\* The store implements the stack of layers: whatever fails or is killed, and
\* whatever the expanded layers contain, a command changes the top layer, adds
\* one, or the image is lost as a whole (UpdateTopLayer, NewTopLayer, save).
THEOREM ImplementsLayerStack == Spec => ImplementsStack
<1>1. Init => TypeOK /\ Progress /\ StackInv
  BY TypeInit, StackInvInit
<1>2. TypeOK /\ Progress /\ StackInv /\ [Next]_vars => (TypeOK /\ Progress /\ StackInv)'
  BY TypeStep, StackInvStep
<1> QED  BY <1>1, <1>2, StackInit, StackStep, PTL DEF Spec, ImplementsStack, Stack!Spec

-----------------------------------------------------------------------------
(* No blob of a layer is missing.  Prune is the only step that takes a blob    *)
(* away, that of the old top layer, so the old top must not be in the new      *)
(* list: neither as the new top, nor further down.  Hence what a command makes *)
(* has to be new (Distinct), and no layer may be in the start image twice.     *)

StartsDistinct == \A s \in Starts : IsInjective(s.layers)

\* What UpdateTopLayer does to the list of layers.
LEMMA PutTopFacts ==
    ASSUME NEW s \in Seq(Tree), IsInjective(s), digest \in Tree, digest \notin ToSet(s)
    PROVE  /\ PutTop(s) \in Seq(Tree) /\ PutTop(s) # <<>> /\ Last(PutTop(s)) = digest
           /\ IsInjective(PutTop(s))
           /\ ToSet(PutTop(s)) = (IF s = <<>> THEN {} ELSE ToSet(s) \ {Last(s)}) \cup {digest}
<1>1. CASE s = <<>>
  <2>1. PutTop(s) = <<digest>>
    BY <1>1 DEF PutTop
  <2> QED  BY <1>1, <2>1 DEF IsInjective, ToSet, Last
<1>2. CASE s # <<>>
  <2> DEFINE t == PutTop(s)
  <2>1. /\ t \in Seq(Tree) /\ DOMAIN t = DOMAIN s /\ Len(t) = Len(s) /\ Len(s) \in DOMAIN s
        /\ DOMAIN s = 1..Len(s)
        /\ \A i \in DOMAIN s : t[i] = IF i = Len(s) THEN digest ELSE s[i]
    BY <1>2 DEF PutTop
  <2>2. IsInjective(t)
    BY <2>1 DEF IsInjective, ToSet
  <2>3. ToSet(t) = (ToSet(s) \ {Last(s)}) \cup {digest}
    <3>1. Last(s) = s[Len(s)] /\ \A i \in DOMAIN s : s[i] = Last(s) <=> i = Len(s)
      BY <2>1 DEF IsInjective, Last
    <3>2. \A x \in ToSet(t) : x \in (ToSet(s) \ {Last(s)}) \cup {digest}
      BY <2>1, <3>1 DEF ToSet
    <3>3. \A x \in ToSet(s) : x # Last(s) => x \in ToSet(t)
      BY <2>1, <3>1 DEF ToSet
    <3>4. digest \in ToSet(t)
      BY <2>1 DEF ToSet
    <3> QED  BY <3>2, <3>3, <3>4
  <2>4. t # <<>> /\ Last(t) = digest
    BY <1>2, <2>1 DEF Last
  <2> QED  BY <1>2, <2>1, <2>2, <2>3, <2>4
<1> QED  BY <1>1, <1>2

\* What NewTopLayer does to it.
LEMMA PutOnTopFacts ==
    ASSUME NEW s \in Seq(Tree), IsInjective(s), NEW d \in Tree, d \notin ToSet(s)
    PROVE  /\ Append(s, d) \in Seq(Tree) /\ Append(s, d) # <<>> /\ Last(Append(s, d)) = d
           /\ IsInjective(Append(s, d)) /\ ToSet(Append(s, d)) = ToSet(s) \cup {d}
<1> DEFINE t == Append(s, d)
<1>1. /\ t \in Seq(Tree) /\ DOMAIN t = 1..Len(s) + 1 /\ Len(t) = Len(s) + 1 /\ DOMAIN s = 1..Len(s)
      /\ Len(s) \in Nat /\ t[Len(s) + 1] = d /\ \A i \in DOMAIN s : t[i] = s[i]
  OBVIOUS
<1>2. IsInjective(t)
  BY <1>1 DEF IsInjective, ToSet
<1>3. ToSet(t) = ToSet(s) \cup {d}
  <2>1. ToSet(t) \subseteq ToSet(s) \cup {d}
    BY <1>1 DEF ToSet
  <2>2. ToSet(s) \subseteq ToSet(t)
    BY <1>1 DEF ToSet
  <2>3. d \in ToSet(t)
    BY <1>1 DEF ToSet
  <2> QED  BY <2>1, <2>2, <2>3
<1> QED  BY <1>1, <1>2, <1>3 DEF Last

Whole(layers) == IsInjective(layers) /\ ToSet(layers) \subseteq blobs

WholeInv ==
    /\ Loadable => Whole(ref.layers)
    /\ img # None => Whole(Layers)
    /\ pc \in Early \cup {"idle"} => old = None
    /\ pc \in SavingSteps \cup {"prune"} =>
          /\ img # None
          /\ ref # None => Whole(ref.layers)
          /\ old \notin ToSet(Layers)
    /\ pc = "prune" => ref = img.manifest

\* What the command is making of the top layer is no layer of the image, from the
\* comparison at its start to the moment it is in the list.
FreshInv ==
    /\ pc \in {"expand", "mutate"} => cmd.op \in {"copy", "run"}
    /\ img # None =>
          /\ pc = "expand" /\ cmd.op = "copy" =>
                /\ CopyOf(cmd.files, Layers) \notin ToSet(Layers)
                /\ wanted \in {<<>>, TopOf(Layers)}
                /\ Layers # <<>> /\ wanted = <<>> /\ ~Present(Last(Layers)) => Last(Layers) = {}
          /\ pc = "mutate" /\ cmd.op = "copy" => Content(target) \cup cmd.files \notin ToSet(Layers)
          /\ pc = "newdir" => Content(NewLayer) \notin ToSet(Layers)
          /\ pc = "store" => expanded[target] \notin ToSet(Layers)
          /\ pc \in {"move", "retop"} => digest \in blobs \ ToSet(Layers)

LEMMA WholeInit == StartsDistinct /\ Init => WholeInv /\ FreshInv
<1> SUFFICES ASSUME StartsDistinct, Init PROVE WholeInv /\ FreshInv
  OBVIOUS
<1>1. PICK s \in Starts, v \in Setting :
         /\ ref = [config |-> [diffs |-> s.layers, setting |-> v], layers |-> s.layers]
         /\ blobs = ToSet(s.layers)
  BY DEF Init
<1>2. Whole(ref.layers)
  BY <1>1 DEF StartsDistinct, Whole
<1>3. pc = "idle" /\ img = None /\ old = None
  BY DEF Init
<1> QED  BY <1>2, <1>3 DEF WholeInv, FreshInv, Early, SavingSteps

LEMMA FreshStep ==
    Distinct /\ TypeOK /\ Progress /\ StackInv /\ FreshInv /\ [Next]_vars => FreshInv'
<1> SUFFICES ASSUME Distinct, TypeOK, Progress, StackInv, FreshInv, [Next]_vars
             PROVE  FreshInv'
  OBVIOUS
<1>1. CASE UNCHANGED vars
  BY <1>1 DEF vars, disk, FreshInv, Layers, CopyOf, Content, Present
<1>2. ASSUME NEW c \in Issued, Start(c) PROVE FreshInv'
  <2>1. /\ pc' = FirstStep(c.op) /\ cmd' = c /\ c.op \in AllCommands
        /\ img' = Loaded /\ UNCHANGED <<expanded, ref>>
    BY <1>2 DEF Start, disk, Issued, AnyCommand
  <2>2. /\ pc' \in {"expand", "newdir", "edit"}
        /\ pc' = "expand" => c.op \in {"copy", "run"}
        /\ pc' = "newdir" => c.op = "layer"
    BY <2>1 DEF FirstStep, AllCommands
  <2>3. ASSUME img' # None
        PROVE  Loadable /\ Layers' = ref.layers /\ Loaded # None /\ Loaded.manifest = ref
    BY <2>1, <2>3 DEF Loaded, Layers
  <2>4. ASSUME img' # None, c.op = "copy"
        PROVE  /\ (CopyOf(cmd.files, Layers) \notin ToSet(Layers))'
               /\ (wanted \in {<<>>, TopOf(Layers)})'
               /\ (Layers # <<>> /\ wanted = <<>> => FALSE)'
    <3>1. IsNew(CopyOf(c.files, ref.layers), ref.layers)
      BY <1>2, <2>3, <2>4 DEF Start
    <3>2. CopyOf(c.files, ref.layers)' = CopyOf(c.files, ref.layers)
      BY <2>1 DEF CopyOf, Content, Present
    <3>3. wanted' = TopOf(ref.layers)
      BY <1>2, <2>3, <2>4 DEF Start
    <3> QED  BY <2>1, <2>3, <2>4, <3>1, <3>2, <3>3 DEF IsNew, TopOf
  <2>5. ASSUME img' # None, c.op = "layer" PROVE (Content(NewLayer) \notin ToSet(Layers))'
    BY <1>2, <2>1, <2>3, <2>5 DEF Start, IsNew, Content, Present
  <2> QED  BY <2>1, <2>2, <2>4, <2>5 DEF FreshInv
<1>3. CASE ExpandNothing
  <2>1. /\ Content(NewLayer) \cup cmd.files = CopyOf(cmd.files, Layers)
    BY <1>3 DEF ExpandNothing, CopyOf
  <2>2. /\ Layers' = Layers /\ pc' = "mutate" /\ target' = NewLayer
        /\ UNCHANGED <<cmd, img>> /\ pc = "expand"
    BY <1>3 DEF ExpandNothing, UseNewLayer, Layers
  <2>3. Content(NewLayer)' = Content(NewLayer)
    BY <1>3 DEF ExpandNothing, UseNewLayer, TypeOK, Content, Present, Name
  <2> QED  BY <2>1, <2>2, <2>3 DEF FreshInv, Content, Present
<1>4. CASE NewDirectory
  <2>1. /\ Layers' = Layers /\ pc' = "store" /\ pc = "newdir" /\ target' = NewLayer
        /\ expanded'[NewLayer] = Content(NewLayer) /\ img' = img
    BY <1>4 DEF NewDirectory, UseNewLayer, Layers, TypeOK, Name
  <2> QED  BY <2>1 DEF FreshInv
<1>5. CASE Extract
  <2>1. CASE pc' = "idle"
    BY <1>5, <2>1 DEF Extract, Stop, FreshInv
  <2>2. CASE pc' # "idle"
    <3>1. /\ expanded' = [expanded EXCEPT ![Head(wanted)] = IF Head(wanted) = {} THEN None ELSE Head(wanted)]
          /\ wanted' = Tail(wanted) /\ wanted # <<>> /\ ~Present(Head(wanted))
          /\ UNCHANGED <<cmd, pc, img>> /\ pc = "expand" /\ Layers' = Layers
          /\ Head(wanted) \in Tree
      BY <1>5, <2>2 DEF Extract, Stop, Layers, TypeOK
    <3>2. ASSUME img # None, cmd.op = "copy"
          PROVE  /\ wanted' = <<>>
                 /\ Layers # <<>> /\ ~Present(Last(Layers))' => Last(Layers) = {}
                 /\ (CopyOf(cmd.files, Layers))' = CopyOf(cmd.files, Layers)
      <4>1. Layers # <<>> /\ wanted = <<Last(Layers)>>
        BY <3>1, <3>2 DEF FreshInv, TopOf
      <4>2. Last(Layers) \in Name
        BY <3>1, <4>1 DEF Name
      <4>3. expanded'[Last(Layers)] = IF Last(Layers) = {} THEN None ELSE Last(Layers)
        BY <3>1, <4>1, <4>2 DEF TypeOK
      <4>4. Head(wanted) = Last(Layers) /\ wanted' = <<>>
        BY <3>1, <4>1
      <4>5. ~Present(Last(Layers)) /\ (Present(Last(Layers))' => expanded'[Last(Layers)] = Last(Layers))
        BY <3>1, <4>3, <4>4 DEF Present
      <4>6. CopyOf(cmd.files, Layers) = cmd.files \cup Last(Layers)
        BY <4>1, <4>5 DEF CopyOf
      <4>7. (CopyOf(cmd.files, Layers))' = cmd.files \cup Last(Layers)
        BY <3>1, <4>1, <4>5 DEF CopyOf, Present
      <4>8. Present(Last(Layers))' \/ Last(Layers) = {}
        BY <3>1, <4>3, <4>4, NamesAssumption DEF Present
      <4> QED  BY <3>1, <4>4, <4>6, <4>7, <4>8
    <3> QED  BY <3>1, <3>2 DEF FreshInv
  <2> QED  BY <2>1, <2>2
<1>6. CASE AlreadyExtracted
  <2>1. /\ wanted # <<>> /\ Present(Head(wanted)) /\ wanted' = <<>>
        /\ UNCHANGED <<cmd, pc, img, expanded>> /\ pc = "expand" /\ Layers' = Layers
    BY <1>6 DEF AlreadyExtracted, Layers, disk
  <2>2. ASSUME img # None, cmd.op = "copy", Layers # <<>> PROVE Present(Last(Layers))
    BY <2>1, <2>2 DEF FreshInv, TopOf
  <2> QED  BY <2>1, <2>2 DEF FreshInv, CopyOf, Content, Present
<1>7. CASE Expanded
  <2>1. CASE pc' = "idle"
    BY <1>7, <2>1 DEF Expanded, Stop, FreshInv
  <2>2. CASE pc' # "idle"
    <3>1. /\ pc = "expand" /\ pc' = "mutate" /\ target' = Last(Layers) /\ img # None
          /\ Layers # <<>> /\ wanted = <<>> /\ UNCHANGED <<cmd, img, expanded>> /\ Layers' = Layers
      BY <1>7, <2>2 DEF Expanded, Stop, Layers, disk
    <3>2. ASSUME cmd.op = "copy"
          PROVE  Content(Last(Layers)) \cup cmd.files = CopyOf(cmd.files, Layers)
      BY <3>1, <3>2 DEF FreshInv, CopyOf, Content
    <3> QED  BY <3>1, <3>2 DEF FreshInv, Content, Present
  <2> QED  BY <2>1, <2>2
<1>8. CASE Mutate
  <2>1. PICK t \in Tree :
           /\ cmd.op = "copy" => t = Content(target) \cup cmd.files
           /\ cmd.op = "run" => IsNew(t, Layers)
           /\ expanded' = [expanded EXCEPT ![target] = t]
    BY <1>8 DEF Mutate
  <2>2. /\ pc = "mutate" /\ pc' = "store" /\ UNCHANGED <<cmd, img, target>> /\ Layers' = Layers
        /\ expanded'[target] = t
    BY <1>8, <2>1 DEF Mutate, Step, memory, Layers, Progress, TypeOK
  <2> QED  BY <2>1, <2>2 DEF FreshInv, IsNew
<1>9. CASE StoreBlob
  BY <1>9 DEF StoreBlob, FreshInv, Layers
<1>10. CASE MoveDirectory
  BY <1>10 DEF MoveDirectory, Stop, Step, memory, FreshInv, Layers
<1>11. CASE pc' \notin {"expand", "mutate", "newdir", "store", "move", "retop"}
  BY <1>11 DEF FreshInv
<1>12. UpdateTopLayer \/ NewTopLayer \/ Edit \/ Prune \/ SaveStep \/ Failure \/ MutateFails
          => pc' \notin {"expand", "mutate", "newdir", "store", "move", "retop"}
  BY FailureShape DEF UpdateTopLayer, NewTopLayer, Edit, Prune, SaveStep, RemoveConfig, WriteConfig,
     RemoveManifest, WriteManifest, RemoveRefs, WriteRef, Stop, Step, Ends
<1> QED
  BY <1>1, <1>2, <1>3, <1>4, <1>5, <1>6, <1>7, <1>8, <1>9, <1>10, <1>11, <1>12
     DEF Next, Work, ExpandStep, ChangeStep, RehashStep

LEMMA WholeStep ==
    TypeOK /\ Progress /\ StackInv /\ WholeInv /\ FreshInv /\ [Next]_vars => WholeInv'
<1> SUFFICES ASSUME TypeOK, Progress, StackInv, WholeInv, FreshInv, [Next]_vars
             PROVE  WholeInv'
  OBVIOUS
<1> USE DEF Early, SavingSteps
<1>1. CASE UNCHANGED vars
  BY <1>1 DEF vars, disk, WholeInv, Whole, Loadable, Layers
<1>2. ASSUME NEW c \in Issued, Start(c) PROVE WholeInv'
  <2>1. /\ pc' \in {"expand", "newdir", "edit"} /\ pc = "idle" /\ img' = Loaded
        /\ UNCHANGED <<blobs, configs, manifests, ref, old>>
    BY <1>2 DEF Issued, AnyCommand, Start, FirstStep, AllCommands, disk
  <2>2. img' # None => Loadable /\ Layers' = ref.layers
    BY <2>1 DEF Loaded, Layers
  <2> QED  BY <2>1, <2>2 DEF WholeInv, Whole, Loadable
<1>3. CASE Quiet
  BY <1>3 DEF Quiet, WholeInv, Whole, Loadable, Layers
<1>4. CASE Ends
  BY <1>4 DEF Ends, Stop, WholeInv, Whole, Loadable
<1>5. CASE UpdateTopLayer \/ NewTopLayer
  <2>1. /\ img # None /\ img \in Image /\ digest \in Tree /\ digest \in blobs \ ToSet(Layers)
        /\ ref # None /\ Layers = ref.layers /\ Whole(Layers) /\ Layers \in Seq(Tree) /\ old = None
    <3>1. /\ img # None /\ img \in Image /\ digest \in Tree /\ digest \in blobs \ ToSet(Layers)
          /\ ref # None /\ Layers = ref.layers /\ Whole(Layers) /\ old = None
      BY <1>5 DEF UpdateTopLayer, NewTopLayer, TypeOK, Progress, StackInv, FreshInv, WholeInv, Layers
    <3> QED  BY <3>1 DEF Layers, Image, Manifest
  <2>2. img' # None /\ img' \in Image
    <3>1. pc' = "rmcfg" /\ Progress' /\ TypeOK'
      BY <1>5, TypeStep DEF UpdateTopLayer, NewTopLayer
    <3> QED  BY <3>1, NoneAssumption DEF Progress
  <2>3. IsInjective(Layers') /\ ToSet(Layers') \subseteq blobs /\ old' \notin ToSet(Layers')
    <3>1. CASE UpdateTopLayer
      <4>1. Layers' = PutTop(Layers) /\ old' = IF Layers = <<>> THEN None ELSE Last(Layers)
        BY <2>1, <2>2, <3>1 DEF UpdateTopLayer, Layers, Image, Manifest
      <4>2. None # digest /\ (Layers # <<>> => Last(Layers) \in ToSet(Layers))
        BY <2>1, NamesAssumption DEF Last, ToSet
      <4> QED  BY <2>1, <4>1, <4>2, PutTopFacts DEF Whole
    <3>2. CASE NewTopLayer
      <4>1. Layers' = Append(Layers, digest) /\ old' = None
        BY <2>1, <2>2, <3>2 DEF NewTopLayer, Layers, Image, Manifest
      <4>2. None # digest /\ None \notin ToSet(Layers)
        BY <2>1, NamesAssumption DEF ToSet
      <4> QED  BY <2>1, <4>1, <4>2, PutOnTopFacts DEF Whole
    <3> QED  BY <1>5, <3>1, <3>2
  <2>4. UNCHANGED disk /\ pc' = "rmcfg"
    BY <1>5 DEF UpdateTopLayer, NewTopLayer
  <2> QED  BY <2>1, <2>2, <2>3, <2>4 DEF WholeInv, Whole, Loadable, disk
<1>6. CASE Edit
  <2>1. img # None /\ img \in Image /\ old = None /\ Layers \in Seq(Tree)
    BY <1>6 DEF Edit, TypeOK, WholeInv, Layers, Image, Manifest
  <2>2. img' # None /\ Layers' = Layers
    <3>1. pc' = "rmcfg" /\ Progress'
      BY <1>6, TypeStep DEF Edit
    <3>2. img' # None
      BY <3>1, NoneAssumption DEF Progress
    <3> QED  BY <1>6, <2>1, <3>2 DEF Edit, Layers, Image
  <2>3. None \notin ToSet(Layers)
    BY <2>1, NamesAssumption DEF ToSet
  <2>4. ref # None /\ ref.layers = Layers /\ Whole(Layers)
    BY <1>6, <2>1 DEF Edit, StackInv, WholeInv, Layers
  <2> QED  BY <1>6, <2>1, <2>2, <2>3, <2>4 DEF Edit, disk, WholeInv, Whole, Loadable
<1>7. CASE Prune
  <2>1. Whole(Layers) /\ img # None /\ ref.layers = Layers /\ old \notin ToSet(Layers)
    BY <1>7 DEF Prune, WholeInv, Layers
  <2>2. blobs \ {old} \subseteq blobs' /\ UNCHANGED <<configs, manifests, ref>>
    BY <1>7 DEF Prune, Pruned
  <2> QED  BY <1>7, <2>1, <2>2 DEF Prune, Stop, WholeInv, Whole
<1>8. CASE RemoveConfig \/ RemoveManifest
  BY <1>8 DEF RemoveConfig, RemoveManifest, Stop, Step, memory, WholeInv, Whole, Loadable, Layers
<1>9. CASE WriteConfig \/ WriteManifest
  <2>1. img' # None
    <3>1. pc' \in {"rmman", "rmrefs"} /\ Progress'
      BY <1>9, TypeStep DEF WriteConfig, WriteManifest
    <3> QED  BY <3>1, NoneAssumption DEF Progress
  <2>2. img \in Image /\ img # None
    BY <1>9 DEF WriteConfig, WriteManifest, Progress, WholeInv
  <2>3. Layers' = Layers
    BY <1>9, <2>1, <2>2 DEF WriteConfig, WriteManifest, Layers, Image, Manifest
  <2>4. UNCHANGED <<blobs, ref, old>> /\ pc \in SavingSteps /\ pc' \in {"rmman", "rmrefs"}
    BY <1>9 DEF WriteConfig, WriteManifest
  <2> QED  BY <2>1, <2>2, <2>3, <2>4 DEF WholeInv, Whole, Loadable
<1>10. CASE RemoveRefs
  BY <1>10 DEF RemoveRefs, Step, memory, WholeInv, Whole, Loadable, Layers
<1>11. CASE WriteRef
  <2>1. Whole(Layers) /\ img # None /\ img.ref = img.manifest /\ Layers = img.manifest.layers /\ ref = None
    BY <1>11 DEF WriteRef, WholeInv, StackInv, Layers
  <2> QED  BY <1>11, <2>1 DEF WriteRef, Stop, Step, memory, WholeInv, Whole, Loadable, Layers
<1> QED
  BY <1>1, <1>2, <1>3, <1>4, <1>5, <1>6, <1>7, <1>8, <1>9, <1>10, <1>11, StepShape DEF SaveStep

\* No layer of an image that can be loaded lacks the end of its blob.
NoneCut == Loadable => ToSet(ref.layers) \subseteq blobs \ cut

\* A build that a kill or an error has interrupted anywhere can be loaded only if
\* all its layers have their blobs, provided every command makes a layer the image
\* does not have yet (OciStore_SameContent shows that the proviso is needed), and
\* the blobs are whole if no error of closing one was dropped (CompleteAndValid fails
\* if one was; rehashAndStoreOCIBlob and save).
THEOREM LoadableImagesAreComplete ==
    Distinct /\ StartsDistinct /\ Spec
      => [](/\ LoadableIsComplete
            /\ "flush" \notin Faults => NoneCut)
<1> DEFINE All == TypeOK /\ Progress /\ StackInv /\ WholeInv /\ FreshInv
<1>1. StartsDistinct /\ Init => All
  BY TypeInit, StackInvInit, WholeInit
<1>2. Distinct /\ All /\ [Next]_vars => All'
  BY TypeStep, StackInvStep, WholeStep, FreshStep
<1>3. ASSUME All PROVE LoadableIsComplete /\ ("flush" \notin Faults => NoneCut)
  <2>1. LoadableIsComplete
    BY <1>3 DEF WholeInv, Whole, LoadableIsComplete
  <2>2. ASSUME "flush" \notin Faults PROVE cut = {}
    BY <1>3, <2>2 DEF TypeOK
  <2> QED  BY <2>1, <2>2 DEF LoadableIsComplete, NoneCut
<1>4. CASE Distinct /\ StartsDistinct
  BY <1>1, <1>2, <1>3, <1>4, PTL DEF Spec
<1> QED  BY <1>4

-----------------------------------------------------------------------------
(* Without failures, commands that find what they need and make layers that    *)
(* the image does not have leave a store that is complete and has nothing      *)
(* else, and expanded layers that are what their names say.                    *)
(*                                                                             *)
(* The blobs.  Up to UpdateTopLayer they are those of the image and, once it   *)
(* is stored, the new layer; after it those of the new list and the old top    *)
(* layer.  Each step of save() leaves exactly the config and the manifest that *)
(* the next one expects.                                                       *)

After == SavingSteps \cup {"prune"}

StoredInv ==
    /\ pc \in Early \cup {"idle"} =>
          /\ ref # None /\ configs = {ref.config} /\ manifests = {ref}
          /\ blobs = ToSet(ref.layers) \cup (IF pc \in {"move", "retop"} THEN {digest} ELSE {})
    /\ pc \in Early => img # None /\ img.config = ref.config /\ img.manifest = ref /\ img.ref = ref
    /\ pc \in After => blobs = ToSet(Layers) \cup (IF old = None THEN {} ELSE {old})
    /\ pc \in {"rmcfg", "wrcfg", "rmman"} => manifests = {img.ref}
    /\ pc = "wrman" => manifests = {}
    /\ pc \in {"rmrefs", "wrref", "prune"} => manifests = {img.manifest}
    /\ pc = "rmcfg" => configs = {img.manifest.config}
    /\ pc = "wrcfg" => configs = {}
    /\ pc \in {"rmman", "wrman", "rmrefs", "wrref", "prune"} => configs = {img.manifest.config}
    /\ pc # "idle" => ~cmd.bad

-----------------------------------------------------------------------------
(* The expanded layers.  Faithful and Suffix are what OCIExtractLayers relies  *)
(* on; while a command has its target in hand, that one is left out.           *)

Faithful(layers, but) ==
    \A n \in Name \ {NewLayer, but} : Present(n) => n \in ToSet(layers) /\ expanded[n] = n
Suffix(layers) ==
    \A i, j \in DOMAIN layers : i < j /\ Present(layers[i]) => Present(layers[j])
CacheOK(layers) == Faithful(layers, NewLayer) /\ Suffix(layers) /\ Content(NewLayer) = {}

\* The directory a command changes, and the list of layers it is working for.
Top(layers) == IF layers = <<>> THEN NewLayer ELSE Last(layers)
Target == IF cmd.op = "layer" THEN NewLayer ELSE Top(Layers)
NextLayers == IF cmd.op = "layer" THEN Append(Layers, digest) ELSE PutTop(Layers)

\* What a copy has to make of the top layer t.
Asked(t, tree) == cmd.op = "copy" => tree = t \cup cmd.files
TopTree == IF Layers = <<>> THEN {} ELSE Last(Layers)

CachedInv ==
    /\ pc # "idle" /\ cmd.op = "run" => cmd.root
    /\ pc = "edit" => cmd.op \in {"config", "tag"}
    /\ pc \in {"idle", "expand", "mutate", "newdir", "edit"} => CacheOK(ref.layers)
    /\ pc \in After => CacheOK(Layers)
    /\ pc = "expand" =>
          /\ ToSet(wanted) \subseteq ToSet(Layers)
          /\ cmd.op = "copy" => ~Present(CopyOf(cmd.files, Layers))
    /\ pc = "newdir" => cmd.op = "layer" /\ ~Present(Content(NewLayer))
    /\ pc = "mutate" =>
          /\ target = Top(Layers)
          /\ cmd.op = "copy" => /\ Content(target) = TopTree
                                /\ ~Present(TopTree \cup cmd.files)
    /\ pc \in {"store", "move"} =>
          /\ target = Target
          /\ ~Present(expanded[target]) /\ Asked(TopTree, expanded[target])
          /\ Faithful(Layers, target) /\ Suffix(Layers)
          /\ target # NewLayer => Content(NewLayer) = {}
    /\ pc = "move" => digest = expanded[target]
    /\ pc = "retop" => CacheOK(NextLayers) /\ Asked(TopTree, digest)
    /\ pc \in After /\ cmd.op = "copy" =>
          Layers # <<>> /\ Last(Layers) = (IF old = None THEN {} ELSE old) \cup cmd.files

CleanInv == TypeOK /\ Progress /\ StackInv /\ WholeInv /\ FreshInv /\ StoredInv /\ CachedInv

\* Nothing fails, and no command makes what the image has already.
Clean == Faults = {} /\ Distinct /\ StartsDistinct

-----------------------------------------------------------------------------
(* The steps there are.  A command ends early only where the code means it to: *)
(* with its disk untouched, before it has changed a file of a layer.           *)

EndsEarly ==
    /\ pc \in {"expand", "mutate", "edit"}
    /\ \E w \in {"chroot", "mount", "refused"} : Stop(w)
    /\ UNCHANGED disk

ExtractOne ==
    /\ pc = "expand" /\ wanted # <<>> /\ ~Present(Head(wanted)) /\ ~cmd.root
    /\ expanded' = [expanded EXCEPT ![Head(wanted)] =
                       IF Head(wanted) = {} THEN None ELSE Head(wanted)]
    /\ wanted' = Tail(wanted)
    /\ UNCHANGED <<blobs, configs, manifests, ref, cmd, pc, img, target, digest, old, why>>

GoOn ==
    /\ pc = "expand" /\ Layers # <<>> /\ wanted = <<>> /\ pc' = "mutate"
    /\ target' = Last(Layers)
    /\ UNCHANGED <<disk, cmd, img, wanted, digest, old, why>>

Move ==
    /\ pc = "move" /\ pc' = "retop" /\ expanded' = Renamed
    /\ UNCHANGED <<blobs, configs, manifests, ref, memory, why>>

LEMMA CleanShape ==
    ASSUME Faults = {}, CleanInv, Next
    PROVE  \/ \E c \in Issued : Start(c)
           \/ EndsEarly \/ ExtractOne \/ AlreadyExtracted \/ ExpandNothing \/ GoOn
           \/ Mutate \/ NewDirectory \/ StoreBlob \/ Move
           \/ UpdateTopLayer \/ NewTopLayer \/ Edit \/ SaveStep
           \/ (Prune /\ blobs' = Pruned)
<1>0. /\ img # None /\ pc \in Early => Layers = ref.layers /\ ToSet(Layers) \subseteq blobs
      /\ pc \in Early => img # None
  BY DEF CleanInv, StackInv, WholeInv, Whole, StoredInv, Layers
<1>1. ~IOFails /\ ~ExtractFails /\ ~Crash /\ ~MutateFails /\ ~Panics
  <2>1. ~IOFails /\ ~Crash /\ ~MutateFails
    BY DEF IOFails, Crash, MutateFails
  <2>2. ~Panics
    BY <1>0 DEF Panics, Early
  <2>3. ~ExtractFails
    <3>1. cut = {}
      BY DEF CleanInv, TypeOK
    <3> QED  BY <3>1 DEF ExtractFails
  <2> QED  BY <2>1, <2>2, <2>3
<1>2. Refused => EndsEarly
  BY DEF Refused, EndsEarly
<1>3. Expanded => EndsEarly \/ GoOn
  BY DEF Expanded, EndsEarly, GoOn
<1>4. Extract => EndsEarly \/ ExtractOne
  <2> SUFFICES ASSUME Extract PROVE EndsEarly \/ ExtractOne
    OBVIOUS
  <2>1. Head(wanted) \in blobs
    <3>1. wanted # <<>> /\ pc = "expand" /\ wanted \in Seq(Tree)
      BY DEF Extract, CleanInv, TypeOK
    <3>2. Head(wanted) \in ToSet(wanted)
      BY <3>1 DEF ToSet
    <3> QED  BY <1>0, <3>1, <3>2 DEF CleanInv, CachedInv, Early
  <2>2. CASE cmd.root
    BY <2>1, <2>2 DEF Extract, EndsEarly, disk
  <2>3. CASE ~cmd.root
    BY <2>1, <2>3 DEF Extract, ExtractOne
  <2> QED  BY <2>2, <2>3
<1>5. MoveDirectory => Move
  <2> SUFFICES ASSUME MoveDirectory PROVE Move
    OBVIOUS
  <2>1. Content(digest) = {}
    BY DEF MoveDirectory, CleanInv, CachedInv, Content
  <2> QED  BY <2>1 DEF MoveDirectory, Move, Step
<1>6. Prune => blobs' = Pruned
  BY DEF Prune
<1> QED
  BY <1>1, <1>2, <1>3, <1>4, <1>5, <1>6
     DEF Next, Work, ExpandStep, ChangeStep, RehashStep, Failure

-----------------------------------------------------------------------------
LEMMA CleanInit == Clean /\ Init => CleanInv
<1> SUFFICES ASSUME Clean, Init PROVE CleanInv
  OBVIOUS
<1>1. PICK s \in Starts, v \in Setting :
         LET c == [diffs |-> s.layers, setting |-> v]
             m == [config |-> c, layers |-> s.layers]
         IN  /\ blobs = ToSet(s.layers) /\ configs = {c} /\ manifests = {m} /\ ref = m
             /\ expanded = [n \in Name |-> IF s.tar /\ n \in ToSet(s.layers) THEN n ELSE None]
  BY DEF Init
<1>2. pc = "idle" /\ TypeOK /\ Progress /\ StackInv /\ WholeInv /\ FreshInv
  BY TypeInit, StackInvInit, WholeInit DEF Init, Clean
<1>3. ref # None
  <2>1. ref \in Manifest
    BY <1>1, StartsAssumption DEF Manifest, Config
  <2> QED  BY <2>1, NoneAssumption
<1>4. StoredInv
  BY <1>1, <1>2, <1>3 DEF StoredInv, Early, After, SavingSteps
<1>5. CacheOK(ref.layers)
  <2>1. s.layers \in Seq(Tree) /\ ref.layers = s.layers
    BY <1>1, StartsAssumption
  <2>2. \A n \in Name : Present(n) => n \in ToSet(ref.layers) /\ expanded[n] = n
    BY <1>1, <2>1 DEF Present
  <2>3. \A i \in DOMAIN ref.layers : ref.layers[i] \in ToSet(ref.layers) /\ ref.layers[i] \in Tree
    BY <2>1 DEF ToSet
  <2>4. Suffix(ref.layers)
    BY <1>1, <2>1, <2>3, NamesAssumption DEF Suffix, Present, Name
  <2>5. ~Present(NewLayer)
    BY <2>1, <2>2, NamesAssumption DEF ToSet, Name
  <2> QED  BY <2>2, <2>4, <2>5 DEF CacheOK, Faithful, Content
<1>6. CachedInv
  BY <1>2, <1>5 DEF CachedInv, After, SavingSteps
<1> QED  BY <1>2, <1>4, <1>6 DEF CleanInv

\* The steps that touch neither the blobs nor the image.
LEMMA StoredKept ==
    ASSUME StoredInv, pc \in Early, pc' \in Early, UNCHANGED <<blobs, configs, manifests, ref, cmd, img>>,
           pc \in {"move", "retop"} <=> pc' \in {"move", "retop"},
           digest' = digest \/ pc' \notin {"move", "retop"}
    PROVE  StoredInv'
<1> USE DEF Early, After, SavingSteps
<1>1. (pc \in Early \cup {"idle"} =>
          /\ ref # None /\ configs = {ref.config} /\ manifests = {ref}
          /\ blobs = ToSet(ref.layers) \cup (IF pc \in {"move", "retop"} THEN {digest} ELSE {}))'
  BY DEF StoredInv
<1> QED  BY <1>1 DEF StoredInv

LEMMA StoredStep ==
    Faults = {} /\ CleanInv /\ [Next]_vars => StoredInv'
<1> SUFFICES ASSUME Faults = {}, CleanInv, [Next]_vars PROVE StoredInv'
  OBVIOUS
<1> USE DEF Early, After, SavingSteps
<1>0. TypeOK /\ Progress /\ StackInv /\ WholeInv /\ StoredInv
  BY DEF CleanInv
<1>t. TypeOK' /\ Progress'
  BY <1>0, TypeStep
<1>1. CASE UNCHANGED vars
  BY <1>0, <1>1 DEF vars, disk, StoredInv, Layers
<1>2. ASSUME NEW c \in Issued, Start(c) PROVE StoredInv'
  <2>1. /\ pc' \in {"expand", "newdir", "edit"} /\ pc = "idle" /\ img' = Loaded /\ cmd' = c
        /\ UNCHANGED disk /\ ~c.bad
    BY <1>2 DEF Issued, AnyCommand, Start, FirstStep, AllCommands
  <2>2. Loadable
    BY <1>0, <2>1 DEF StoredInv, Loadable
  <2>3. img' = [config |-> ref.config, manifest |-> ref, ref |-> ref]
    BY <2>1, <2>2 DEF Loaded
  <2>4. img' # None
    <3>1. img' \in Image
      BY <1>0, <2>2, <2>3 DEF TypeOK, Loadable, Image, Manifest
    <3> QED  BY <3>1, NoneAssumption
  <2> QED  BY <1>0, <2>1, <2>3, <2>4 DEF StoredInv, disk
<1>3. CASE EndsEarly
  BY <1>0, <1>3 DEF EndsEarly, Stop, disk, StoredInv
<1>4. CASE ExtractOne \/ AlreadyExtracted \/ ExpandNothing \/ GoOn
  BY <1>0, <1>4, StoredKept DEF ExtractOne, AlreadyExtracted, ExpandNothing, UseNewLayer, GoOn, disk
<1>5. CASE Mutate \/ NewDirectory \/ Move
  BY <1>0, <1>5, StoredKept DEF Mutate, NewDirectory, UseNewLayer, Move, Step, memory
<1>6. CASE StoreBlob
  BY <1>0, <1>6 DEF StoreBlob, StoredInv
<1>7. CASE UpdateTopLayer \/ NewTopLayer
  <2>1. /\ pc = "retop" /\ pc' = "rmcfg" /\ img # None /\ img \in Image /\ digest \in Tree
        /\ img.manifest = ref /\ img.ref = ref /\ img.config = ref.config /\ Layers = ref.layers
        /\ UNCHANGED <<disk, cmd>> /\ Layers \in Seq(Tree) /\ IsInjective(Layers)
        /\ blobs = ToSet(Layers) \cup {digest} /\ digest \notin ToSet(Layers) /\ old = None
        /\ configs = {ref.config} /\ manifests = {ref} /\ ~cmd.bad
    <3>1. /\ pc = "retop" /\ pc' = "rmcfg" /\ img # None /\ img \in Image /\ digest \in Tree
          /\ UNCHANGED <<disk, cmd>>
      BY <1>0, <1>7 DEF UpdateTopLayer, NewTopLayer, TypeOK, Progress
    <3>2. img.manifest = ref /\ img.ref = ref /\ img.config = ref.config /\ Layers = ref.layers
      BY <1>0, <3>1 DEF StoredInv, Layers
    <3>3. Layers \in Seq(Tree) /\ IsInjective(Layers) /\ digest \notin ToSet(Layers)
      BY <3>1 DEF CleanInv, WholeInv, Whole, FreshInv, Layers, Image, Manifest
    <3> QED  BY <1>0, <3>1, <3>2, <3>3 DEF StoredInv, WholeInv
  <2>2. img' # None /\ img' \in Image
    BY <1>t, <2>1, NoneAssumption DEF Progress
  <2>3. img.manifest \in Manifest /\ img.config \in Config
    BY <2>1 DEF Image
  <2>4. img'.ref = img.ref /\ img'.manifest.config = img.manifest.config
    <3>1. PICK d, l : img' = [img EXCEPT !.config.diffs = d, !.manifest.layers = l]
      BY <1>7 DEF UpdateTopLayer, NewTopLayer
    <3> QED  BY <2>1, <2>3, <3>1 DEF Image, Manifest
  <2>5. blobs = ToSet(Layers') \cup (IF old' = None THEN {} ELSE {old'})
    <3>1. CASE UpdateTopLayer
      <4>1. Layers' = PutTop(Layers) /\ old' = IF Layers = <<>> THEN None ELSE Last(Layers)
        BY <2>1, <2>2, <2>3, <3>1 DEF UpdateTopLayer, Layers, Image, Manifest
      <4>2. ToSet(Layers') = (IF Layers = <<>> THEN {} ELSE ToSet(Layers) \ {Last(Layers)}) \cup {digest}
        BY <2>1, <4>1, PutTopFacts
      <4>3. Layers = <<>> => ToSet(Layers) = {}
        BY DEF ToSet
      <4>4. Layers # <<>> => Last(Layers) \in ToSet(Layers) /\ Last(Layers) # None
        BY <2>1, NamesAssumption DEF Last, ToSet
      <4> QED  BY <2>1, <4>1, <4>2, <4>3, <4>4
    <3>2. CASE NewTopLayer
      <4>1. Layers' = Append(Layers, digest) /\ old' = None
        BY <2>1, <2>2, <2>3, <3>2 DEF NewTopLayer, Layers, Image, Manifest
      <4> QED  BY <2>1, <4>1, PutOnTopFacts
    <3> QED  BY <1>7, <3>1, <3>2
  <2> QED  BY <2>1, <2>4, <2>5 DEF StoredInv, disk
<1>8. CASE Edit
  <2>1. /\ pc = "edit" /\ pc' = "rmcfg" /\ img # None /\ img \in Image
        /\ UNCHANGED <<disk, cmd, old>> /\ old = None
    BY <1>0, <1>8 DEF Edit, TypeOK, WholeInv
  <2>2. img' # None
    BY <1>t, <2>1, NoneAssumption DEF Progress
  <2>3. img'.ref = img.ref /\ img'.manifest = img.manifest
    BY <1>8, <2>1 DEF Edit, Image
  <2>4. Layers' = ref.layers
    BY <1>0, <2>1, <2>2, <2>3 DEF StoredInv, Layers
  <2> QED  BY <1>0, <2>1, <2>3, <2>4 DEF StoredInv, disk
<1>9. CASE Prune /\ blobs' = Pruned
  <2>1. /\ pc = "prune" /\ pc' = "idle" /\ UNCHANGED <<configs, manifests, ref>>
        /\ ref = img.manifest /\ img # None /\ Layers = ref.layers /\ old \notin ToSet(Layers)
        /\ blobs = ToSet(Layers) \cup (IF old = None THEN {} ELSE {old})
        /\ manifests = {ref} /\ configs = {ref.config}
    BY <1>0, <1>9 DEF Prune, Stop, WholeInv, StoredInv, Layers
  <2>2. blobs' = ToSet(ref.layers)
    BY <1>9, <2>1 DEF Pruned
  <2>3. ref # None
    BY <1>0, <2>1, NoneAssumption DEF TypeOK, Image
  <2> QED  BY <2>1, <2>2, <2>3 DEF StoredInv
<1>10. CASE RemoveConfig \/ RemoveManifest
  BY <1>0, <1>10 DEF RemoveConfig, RemoveManifest, Step, memory, StoredInv, Layers
<1>11. CASE WriteConfig \/ WriteManifest
  <2>1. /\ img' # None /\ img \in Image /\ img # None
    BY <1>0, <1>t, <1>11, NoneAssumption DEF WriteConfig, WriteManifest, Progress, WholeInv
  <2>2. img.manifest \in Manifest
    BY <2>1 DEF Image
  <2>3. Layers' = Layers
    BY <1>11, <2>1, <2>2 DEF WriteConfig, WriteManifest, Layers, Image, Manifest
  <2>4. CASE WriteConfig
    <3>1. img'.manifest.config = img.config /\ img'.ref = img.ref
      BY <2>1, <2>2, <2>4 DEF WriteConfig, Image, Manifest
    <3> QED  BY <1>0, <2>3, <2>4, <3>1 DEF WriteConfig, StoredInv
  <2>5. CASE WriteManifest
    <3>1. img'.manifest = img.manifest
      BY <2>1, <2>5 DEF WriteManifest, Image
    <3> QED  BY <1>0, <2>3, <2>5, <3>1 DEF WriteManifest, StoredInv
  <2> QED  BY <1>11, <2>4, <2>5
<1>12. CASE RemoveRefs
  BY <1>0, <1>12 DEF RemoveRefs, Step, memory, StoredInv, Layers
<1>13. CASE WriteRef
  <2>1. /\ pc = "wrref" /\ ref' = img.manifest /\ img # None /\ img \in Image /\ ~cmd.bad
        /\ UNCHANGED <<blobs, configs, manifests>>
    BY <1>0, <1>13 DEF WriteRef, StackInv, StoredInv, WholeInv, Progress
  <2>2. ref' # None
    BY <1>0, <2>1, NoneAssumption DEF Image
  <2>3. Layers = img.manifest.layers
    BY <2>1 DEF Layers
  <2>4. CASE old = None
    BY <1>0, <1>13, <2>1, <2>2, <2>3, <2>4 DEF WriteRef, Stop, StoredInv
  <2>5. CASE old # None
    BY <1>0, <1>13, <2>1, <2>5 DEF WriteRef, Step, memory, StoredInv, Layers
  <2> QED  BY <2>4, <2>5
<1> QED
  BY <1>1, <1>2, <1>3, <1>4, <1>5, <1>6, <1>7, <1>8, <1>9, <1>10, <1>11, <1>12, <1>13, CleanShape
     DEF SaveStep

-----------------------------------------------------------------------------
(* What a step does to the expanded layers.                                    *)

\* The layer that a step extracts or changes is the top one, so all the layers
\* above it are expanded.
LEMMA SuffixOfTop ==
    ASSUME NEW s \in Seq(Tree), IsInjective(s), s # <<>>, Suffix(s),
           \A n \in Name \ {Last(s)} : expanded'[n] = expanded[n]
    PROVE  Present(Last(s))' \/ ~Present(Last(s)) => Suffix(s)'
<1>1. /\ DOMAIN s = 1..Len(s) /\ Len(s) \in DOMAIN s /\ Last(s) = s[Len(s)]
      /\ \A i \in DOMAIN s : s[i] \in Name /\ (s[i] = Last(s) <=> i = Len(s))
  <2>1. DOMAIN s = 1..Len(s) /\ Len(s) \in DOMAIN s /\ Last(s) = s[Len(s)]
    BY DEF Last
  <2> QED  BY <2>1 DEF IsInjective, Name
<1>2. \A i \in DOMAIN s : i # Len(s) => expanded'[s[i]] = expanded[s[i]]
  BY <1>1
<1>3. \A i, j \in DOMAIN s : i < j => i # Len(s)
  BY <1>1
<1> QED  BY <1>1, <1>2, <1>3 DEF Suffix, Present

\* A change to new-layer is none to a layer.
LEMMA SuffixOfNew ==
    ASSUME NEW s \in Seq(Tree), Suffix(s), \A n \in Name \ {NewLayer} : expanded'[n] = expanded[n]
    PROVE  Suffix(s)'
<1>1. \A i \in DOMAIN s : expanded'[s[i]] = expanded[s[i]]
  <2>1. \A i \in DOMAIN s : s[i] \in Tree
    OBVIOUS
  <2> QED  BY <2>1, NamesAssumption DEF Name
<1> QED  BY <1>1 DEF Suffix, Present

\* MoveDirectory: the new layer comes in under its digest, the old one goes, and
\* nothing else is touched.
LEMMA MoveCached ==
    ASSUME Progress, TypeOK, Move, Layers \in Seq(Tree), IsInjective(Layers), img # None,
           digest \notin ToSet(Layers), ~Present(digest), digest = expanded[target],
           target = Target, Faithful(Layers, target), Suffix(Layers),
           target # NewLayer => Content(NewLayer) = {}
    PROVE  CacheOK(NextLayers)'
<1>1. /\ digest \in Tree /\ target \in Name /\ digest \in Name /\ digest # NewLayer /\ digest # target
      /\ UNCHANGED <<cmd, img, digest, target>> /\ Layers' = Layers /\ NextLayers' = NextLayers
      /\ \A n \in Name : expanded'[n] = IF n = digest THEN digest
                                       ELSE IF n = target THEN None ELSE expanded[n]
  <2>1. digest \in Tree /\ target \in Name /\ digest \in Name /\ digest # NewLayer
    BY NamesAssumption DEF Progress, Rehashing, Move, Name
  <2>2. UNCHANGED <<cmd, img, digest, target>> /\ expanded' = Renamed
    BY DEF Move, memory
  <2>3. digest # target
    BY <2>1 DEF Progress, Rehashing, Move, Present
  <2> QED  BY <2>1, <2>2, <2>3 DEF Renamed, NextLayers, Layers, PutTop
<1> DEFINE nxt == NextLayers
<1>2. /\ nxt \in Seq(Tree) /\ Len(nxt) \in Nat /\ DOMAIN nxt = 1..Len(nxt)
      /\ nxt[Len(nxt)] = digest /\ IsInjective(nxt)
      /\ ToSet(nxt) = (IF target = NewLayer THEN ToSet(Layers) ELSE ToSet(Layers) \ {target}) \cup {digest}
      /\ \A i \in DOMAIN nxt : i # Len(nxt) => i \in DOMAIN Layers /\ nxt[i] = Layers[i] /\ nxt[i] # target
  <2>0. \A i \in DOMAIN Layers : Layers[i] # NewLayer
    BY NamesAssumption
  <2>1. CASE cmd.op = "layer"
    <3>1. nxt = Append(Layers, digest) /\ target = NewLayer
      BY <2>1 DEF NextLayers, Target
    <3>2. /\ nxt \in Seq(Tree) /\ Last(nxt) = digest /\ nxt # <<>> /\ IsInjective(nxt)
          /\ ToSet(nxt) = ToSet(Layers) \cup {digest}
      BY <1>1, <3>1, PutOnTopFacts
    <3> QED  BY <2>0, <3>1, <3>2 DEF Last
  <2>2. CASE cmd.op # "layer"
    <3>1. nxt = PutTop(Layers) /\ target = Top(Layers)
      BY <2>2 DEF NextLayers, Target
    <3>2. /\ nxt \in Seq(Tree) /\ Last(nxt) = digest /\ nxt # <<>> /\ IsInjective(nxt)
          /\ ToSet(nxt) = (IF Layers = <<>> THEN {} ELSE ToSet(Layers) \ {Last(Layers)}) \cup {digest}
      BY <1>1, <3>1, PutTopFacts
    <3>3. CASE Layers = <<>>
      <4>1. nxt = <<digest>> /\ target = NewLayer /\ ToSet(Layers) = {}
        BY <3>1, <3>3 DEF PutTop, Top, ToSet
      <4> QED  BY <3>2, <3>3, <4>1 DEF Last
    <3>4. CASE Layers # <<>>
      <4>1. nxt = [Layers EXCEPT ![Len(Layers)] = digest] /\ target = Layers[Len(Layers)]
        BY <3>1, <3>4 DEF PutTop, Top, Last
      <4>2. target # NewLayer /\ target = Last(Layers)
        BY <2>0, <3>4, <4>1 DEF Last
      <4>3. \A i \in DOMAIN Layers : i # Len(Layers) => Layers[i] # target
        BY <3>4, <4>1 DEF IsInjective
      <4> QED  BY <3>2, <3>4, <4>1, <4>2, <4>3 DEF Last
    <3> QED  BY <3>3, <3>4
  <2> QED  BY <2>1, <2>2
<1>3. Faithful(nxt, NewLayer)'
  BY <1>1, <1>2 DEF Faithful, Present
<1>4. \A i \in DOMAIN nxt : i # Len(nxt) => expanded'[nxt[i]] = expanded[Layers[i]]
  <2>1. \A i \in DOMAIN nxt : i # Len(nxt) => nxt[i] # digest /\ nxt[i] \in Name
    BY <1>2 DEF IsInjective, Name
  <2> QED  BY <1>1, <1>2, <2>1
<1>5. Suffix(nxt)'
  <2> SUFFICES ASSUME NEW i \in DOMAIN nxt, NEW j \in DOMAIN nxt, i < j, expanded'[nxt[i]] # None
               PROVE  expanded'[nxt[j]] # None
    BY <1>1 DEF Suffix, Present
  <2>1. CASE j = Len(nxt)
    BY <1>1, <1>2, <2>1, NamesAssumption
  <2>2. CASE j # Len(nxt)
    <3>1. i # Len(nxt) /\ i \in DOMAIN Layers /\ j \in DOMAIN Layers
      BY <1>2, <2>2
    <3>2. expanded[Layers[i]] # None => expanded[Layers[j]] # None
      BY <3>1 DEF Suffix, Present
    <3> QED  BY <1>4, <2>2, <3>1, <3>2
  <2> QED  BY <2>1, <2>2
<1>6. Content(NewLayer)' = {}
  <2>1. NewLayer \in Name
    BY DEF Name
  <2> QED  BY <1>1, <2>1 DEF Content, Present
<1> QED  BY <1>1, <1>3, <1>5, <1>6 DEF CacheOK

-----------------------------------------------------------------------------
\* The steps that leave the files of the layers, the image and the top alone.
LEMMA CachedStep ==
    Clean /\ CleanInv /\ [Next]_vars => CachedInv'
<1> SUFFICES ASSUME Clean, CleanInv, [Next]_vars PROVE CachedInv'
  OBVIOUS
<1> USE DEF Early, After, SavingSteps
<1>0. TypeOK /\ Progress /\ StackInv /\ WholeInv /\ FreshInv /\ StoredInv /\ CachedInv
  BY DEF CleanInv
<1>t. TypeOK' /\ Progress' /\ FreshInv' /\ WholeInv'
  BY <1>0, TypeStep, FreshStep, WholeStep DEF Clean
<1>i. ASSUME pc \in Early
      PROVE  /\ img # None /\ img \in Image /\ img.manifest = ref /\ Layers = ref.layers
             /\ Layers \in Seq(Tree) /\ IsInjective(Layers) /\ old = None
  <2>1. img # None /\ img \in Image /\ img.manifest = ref /\ Layers = ref.layers /\ old = None
    BY <1>0, <1>i DEF TypeOK, StoredInv, WholeInv, Layers
  <2> QED  BY <1>0, <2>1 DEF Image, Manifest, WholeInv, Whole
<1>k. ASSUME UNCHANGED <<expanded, ref, img>>, CacheOK(ref.layers) PROVE CacheOK(ref.layers)'
  BY <1>k DEF CacheOK, Faithful, Suffix, Content, Present
<1>l. ASSUME expanded' = expanded, Layers' = Layers, CacheOK(Layers) PROVE CacheOK(Layers)'
  BY <1>l DEF CacheOK, Faithful, Suffix, Content, Present
<1>1. CASE UNCHANGED vars
  <2>1. UNCHANGED <<expanded, ref, cmd, img, pc, target, digest, wanted, old>>
    BY <1>1 DEF vars, disk
  <2>2. UNCHANGED <<Layers, NextLayers, TopTree, Target, CopyOf(cmd.files, Layers), Top(Layers)>>
    BY <2>1 DEF Layers, NextLayers, PutTop, TopTree, Target, Top, CopyOf, Content, Present
  <2>3. \A n : Content(n)' = Content(n) /\ Present(n)' = Present(n)
    BY <2>1 DEF Content, Present
  <2>4. \A s, n : Faithful(s, n)' = Faithful(s, n) /\ Suffix(s)' = Suffix(s)
    BY <2>1, <2>3 DEF Faithful, Suffix
  <2>5. \A s : CacheOK(s)' = CacheOK(s)
    BY <2>3, <2>4 DEF CacheOK
  <2> QED  BY <1>0, <2>1, <2>2, <2>3, <2>4, <2>5 DEF CachedInv, Asked
<1>2. ASSUME NEW c \in Issued, Start(c) PROVE CachedInv'
  <2>1. /\ pc = "idle" /\ pc' = FirstStep(c.op) /\ cmd' = c /\ img' = Loaded /\ UNCHANGED <<expanded, ref>>
        /\ c.op \in AllCommands /\ (c.op = "run" => c.root)
    BY <1>2 DEF Start, Issued, AnyCommand, disk
  <2>2. Loadable /\ Loaded = [config |-> ref.config, manifest |-> ref, ref |-> ref] /\ ref \in Manifest
    BY <1>0, <2>1 DEF StoredInv, Loadable, Loaded, TypeOK
  <2>3. Loaded # None /\ Layers' = ref.layers /\ ref.layers \in Seq(Tree)
    <3>1. Loaded \in Image
      BY <2>2 DEF Image, Manifest
    <3> QED  BY <2>1, <2>2, <3>1, NoneAssumption DEF Layers, Manifest
  <2>4. CacheOK(ref.layers)'
    BY <1>0, <2>1 DEF CachedInv, CacheOK, Faithful, Suffix, Content, Present
  <2>5. CASE c.op = "copy"
    <3>1. IsNew(CopyOf(c.files, ref.layers), ref.layers) /\ pc' = "expand" /\ wanted' = TopOf(ref.layers)
      BY <1>2, <2>1, <2>2, <2>3, <2>5 DEF Start, FirstStep, Clean
    <3>2. ToSet(TopOf(ref.layers)) \subseteq ToSet(ref.layers)
      BY <2>3 DEF TopOf, ToSet, Last
    <3>3. (~Present(CopyOf(cmd.files, Layers)))'
      BY <2>1, <2>3, <3>1 DEF IsNew, CopyOf, Content, Present
    <3> QED  BY <2>1, <2>3, <2>4, <2>5, <3>1, <3>2, <3>3 DEF CachedInv
  <2>6. CASE c.op = "run"
    <3>1. pc' = "expand" /\ wanted' = ref.layers
      BY <1>2, <2>1, <2>2, <2>3, <2>6 DEF Start, FirstStep
    <3> QED  BY <2>1, <2>3, <2>4, <2>6, <3>1 DEF CachedInv
  <2>7. CASE c.op = "layer"
    <3>1. IsNew(Content(NewLayer), ref.layers) /\ pc' = "newdir"
      BY <1>2, <2>1, <2>2, <2>7 DEF Start, FirstStep, Clean
    <3>2. (~Present(Content(NewLayer)))'
      BY <2>1, <3>1 DEF IsNew, Content, Present
    <3> QED  BY <2>1, <2>4, <2>7, <3>1, <3>2 DEF CachedInv
  <2>8. CASE c.op \in {"config", "tag"}
    <3>1. pc' = "edit"
      BY <2>1, <2>8 DEF FirstStep
    <3> QED  BY <2>1, <2>4, <2>8, <3>1 DEF CachedInv
  <2> QED  BY <2>1, <2>5, <2>6, <2>7, <2>8 DEF AllCommands
<1>3. CASE EndsEarly
  <2>1. pc' = "idle" /\ UNCHANGED disk /\ CacheOK(ref.layers)
    BY <1>0, <1>3 DEF EndsEarly, Stop, CachedInv
  <2>2. CacheOK(ref.layers)'
    BY <2>1 DEF disk, CacheOK, Faithful, Suffix, Content, Present
  <2> QED  BY <2>1, <2>2 DEF CachedInv
<1>4. CASE ExtractOne
  <2>1. /\ pc = "expand" /\ pc' = "expand" /\ UNCHANGED <<cmd, img, ref>> /\ Layers' = Layers
        /\ cmd.op = "copy" /\ Layers # <<>> /\ wanted = <<Last(Layers)>> /\ wanted' = <<>>
        /\ ~Present(Last(Layers)) /\ Last(Layers) \in Tree /\ Last(Layers) \in ToSet(Layers)
    <3>1. /\ pc = "expand" /\ pc' = "expand" /\ UNCHANGED <<cmd, img, ref>> /\ Layers' = Layers
          /\ wanted # <<>> /\ ~cmd.root /\ img # None
      BY <1>4, <1>i DEF ExtractOne, Layers
    <3>2. cmd.op = "copy" /\ Layers # <<>> /\ wanted = <<Last(Layers)>>
      BY <1>0, <3>1 DEF CachedInv, FreshInv, TopOf
    <3>3. Last(Layers) \in Tree /\ Last(Layers) \in ToSet(Layers)
      BY <1>i, <3>1, <3>2 DEF Last, ToSet
    <3> QED  BY <1>4, <3>1, <3>2, <3>3 DEF ExtractOne
  <2>2. \A n \in Name : expanded'[n] = IF n # Last(Layers) THEN expanded[n]
                                      ELSE IF n = {} THEN None ELSE n
    BY <1>0, <1>4, <2>1 DEF ExtractOne, TypeOK, Name
  <2>3. CacheOK(Layers) /\ ref.layers = Layers
    BY <1>0, <1>i, <2>1 DEF CachedInv
  <2>4. CacheOK(Layers)'
    <3>1. Faithful(Layers, NewLayer)'
      BY <2>1, <2>2, <2>3 DEF CacheOK, Faithful, Present
    <3>2. Suffix(Layers)'
      <4>1. Suffix(Layers) /\ \A n \in Name \ {Last(Layers)} : expanded'[n] = expanded[n]
        BY <2>2, <2>3 DEF CacheOK
      <4> QED  BY <1>i, <2>1, <4>1, SuffixOfTop DEF Suffix
    <3>3. Content(NewLayer)' = {}
      <4>1. expanded'[NewLayer] = expanded[NewLayer]
        BY <2>1, <2>2, NamesAssumption DEF Name
      <4> QED  BY <2>3, <4>1 DEF CacheOK, Content, Present
    <3> QED  BY <3>1, <3>2, <3>3 DEF CacheOK
  <2>5. (~Present(CopyOf(cmd.files, Layers)))'
    <3>1. ~Present(CopyOf(cmd.files, Layers)) /\ CopyOf(cmd.files, Layers) \notin ToSet(Layers)
      BY <1>0, <1>i, <2>1 DEF CachedInv, FreshInv
    <3>2. CopyOf(cmd.files, Layers) = cmd.files \cup Last(Layers)
      BY <2>1 DEF CopyOf
    <3>3. CopyOf(cmd.files, Layers)' = cmd.files \cup Last(Layers)
      BY <2>1, <2>2 DEF CopyOf, Present, Name
    <3>4. cmd.files \cup Last(Layers) \in Name
      BY <1>0, <2>1 DEF Progress, AnyCommand, Name, Tree
    <3> QED  BY <2>1, <2>2, <3>1, <3>2, <3>3, <3>4 DEF Present
  <2> QED  BY <1>0, <2>1, <2>3, <2>4, <2>5 DEF CachedInv, ToSet
<1>5. CASE AlreadyExtracted
  <2>1. /\ pc = "expand" /\ pc' = "expand" /\ wanted' = <<>> /\ UNCHANGED <<expanded, ref, cmd, img>>
        /\ Layers' = Layers /\ CacheOK(ref.layers)
    BY <1>0, <1>5 DEF AlreadyExtracted, disk, Layers, CachedInv
  <2>2. CacheOK(ref.layers)'
    BY <1>k, <2>1
  <2>3. (cmd.op = "copy" => ~Present(CopyOf(cmd.files, Layers)))'
    BY <1>0, <2>1 DEF CachedInv, CopyOf, Content, Present
  <2> QED  BY <1>0, <2>1, <2>2, <2>3 DEF CachedInv, ToSet
<1>6. CASE ExpandNothing
  <2>1. /\ pc = "expand" /\ pc' = "mutate" /\ target' = NewLayer /\ UNCHANGED <<ref, cmd, img>>
        /\ Layers = <<>> /\ Layers' = <<>> /\ ref.layers = <<>> /\ Content(NewLayer) = {}
        /\ expanded' = [expanded EXCEPT ![NewLayer] = {}] /\ CacheOK(ref.layers)
    <3>1. /\ pc = "expand" /\ pc' = "mutate" /\ target' = NewLayer /\ UNCHANGED <<ref, cmd, img>>
          /\ Layers = <<>> /\ Layers' = <<>>
          /\ expanded' = [expanded EXCEPT ![NewLayer] = Content(NewLayer)]
      BY <1>6 DEF ExpandNothing, UseNewLayer, Layers
    <3> QED  BY <1>0, <1>i, <3>1 DEF CachedInv, CacheOK
  <2>2. /\ \A n \in Name \ {NewLayer} : expanded'[n] = expanded[n]
        /\ expanded'[NewLayer] = {}
    BY <1>0, <2>1 DEF TypeOK, Name
  <2>3. CacheOK(ref.layers)'
    <3>1. Faithful(ref.layers, NewLayer)'
      BY <2>1, <2>2 DEF CacheOK, Faithful, Present
    <3>2. Suffix(ref.layers)'
      BY <2>1 DEF Suffix
    <3>3. Content(NewLayer)' = {}
      BY <2>2 DEF Content, Present
    <3> QED  BY <3>1, <3>2, <3>3 DEF CacheOK
  <2>4. ASSUME cmd.op = "copy" PROVE (~Present(TopTree \cup cmd.files))'
    <3>1. CopyOf(cmd.files, Layers) = cmd.files /\ (TopTree \cup cmd.files)' = cmd.files
      BY <2>1 DEF CopyOf, TopTree
    <3>2. cmd.files \in Name /\ cmd.files # NewLayer
      BY <1>0, <2>1, NamesAssumption DEF Progress, AnyCommand, Name
    <3>3. ~Present(cmd.files)
      BY <1>0, <2>1, <2>4, <3>1 DEF CachedInv
    <3> QED  BY <2>2, <3>1, <3>2, <3>3 DEF Present
  <2>5. (cmd.op = "copy" => Content(target) = TopTree)'
    BY <2>1, <2>2 DEF Content, Present, TopTree
  <2>6. (target = Top(Layers))'
    BY <2>1 DEF Top
  <2> QED  BY <1>0, <2>1, <2>3, <2>4, <2>5, <2>6 DEF CachedInv
<1>7. CASE GoOn
  <2>1. /\ pc = "expand" /\ pc' = "mutate" /\ target' = Last(Layers) /\ UNCHANGED <<expanded, ref, cmd, img>>
        /\ Layers # <<>> /\ Layers' = Layers /\ wanted = <<>> /\ CacheOK(ref.layers) /\ ref.layers = Layers
    BY <1>0, <1>7, <1>i DEF GoOn, disk, Layers, CachedInv
  <2>2. CacheOK(ref.layers)'
    BY <1>k, <2>1
  <2>3. Last(Layers) \in Name \ {NewLayer}
    BY <1>i, <2>1, NamesAssumption DEF Last, Name
  <2>4. ASSUME cmd.op = "copy"
        PROVE  (Content(target) = TopTree /\ ~Present(TopTree \cup cmd.files))'
    <3>1. Content(Last(Layers)) = Last(Layers)
      <4>1. CASE Present(Last(Layers))
        BY <2>1, <2>3, <4>1 DEF CacheOK, Faithful, Content
      <4>2. CASE ~Present(Last(Layers))
        BY <1>0, <1>i, <2>1, <2>4, <4>2 DEF FreshInv, Content
      <4> QED  BY <4>1, <4>2
    <3>2. CopyOf(cmd.files, Layers) = cmd.files \cup Last(Layers)
      BY <2>1, <3>1 DEF CopyOf, Content
    <3>3. ~Present(cmd.files \cup Last(Layers))
      BY <1>0, <2>1, <2>4, <3>2 DEF CachedInv
    <3>4. TopTree' = Last(Layers) /\ Content(target)' = Content(Last(Layers))
      BY <2>1 DEF TopTree, Content, Present
    <3>5. (TopTree \cup cmd.files)' = cmd.files \cup Last(Layers)
      BY <2>1, <3>4
    <3> QED  BY <2>1, <3>1, <3>3, <3>4, <3>5 DEF Present
  <2>5. (target = Top(Layers))'
    BY <2>1 DEF Top
  <2> QED  BY <1>0, <2>1, <2>2, <2>4, <2>5 DEF CachedInv
<1>8. CASE Mutate
  <2>1. PICK t \in Tree :
           /\ cmd.op = "copy" => t = Content(target) \cup cmd.files
           /\ cmd.op = "run" => IsNew(t, Layers)
           /\ expanded' = [expanded EXCEPT ![target] = t]
    BY <1>8 DEF Mutate, Clean
  <2>2. /\ pc = "mutate" /\ pc' = "store" /\ UNCHANGED <<ref, cmd, img, target>> /\ Layers' = Layers
        /\ target \in Name /\ target = Top(Layers) /\ cmd.op \in {"copy", "run"}
        /\ CacheOK(Layers) /\ ref.layers = Layers
    BY <1>0, <1>8, <1>i DEF Mutate, Step, memory, Layers, Progress, CachedInv, FreshInv
  <2>3. \A n \in Name : expanded'[n] = IF n = target THEN t ELSE expanded[n]
    BY <1>0, <2>1 DEF TypeOK
  <2>4. t \notin ToSet(Layers) /\ ~Present(t) /\ (cmd.op = "copy" => t = TopTree \cup cmd.files)
    BY <1>0, <1>i, <2>1, <2>2 DEF IsNew, CachedInv, FreshInv
  <2>5. t # target /\ t \in Name
    <3>1. t # NewLayer /\ t \in Name
      BY NamesAssumption DEF Name
    <3>2. Layers # <<>> => Last(Layers) \in ToSet(Layers)
      BY <1>i, <2>2 DEF Last, ToSet
    <3> QED  BY <2>2, <2>4, <3>1, <3>2 DEF Top
  <2>6. (target = Target)'
    BY <2>2 DEF Target, Top
  <2>7. (~Present(expanded[target]) /\ Asked(TopTree, expanded[target]))'
    <3>1. expanded'[target'] = t /\ expanded'[t] = expanded[t] /\ TopTree' = TopTree
      BY <2>2, <2>3, <2>5 DEF TopTree
    <3> QED  BY <2>2, <2>4, <3>1 DEF Present, Asked
  <2>8. Faithful(Layers, target)'
    BY <2>2, <2>3 DEF CacheOK, Faithful, Present
  <2>9. Suffix(Layers)'
    <3>1. CASE Layers = <<>>
      BY <2>2, <3>1 DEF Suffix
    <3>2. CASE Layers # <<>>
      <4>1. target = Last(Layers) /\ Suffix(Layers)
        BY <2>2, <3>2 DEF Top, CacheOK
      <4>2. expanded'[Last(Layers)] # None /\ \A n \in Name \ {Last(Layers)} : expanded'[n] = expanded[n]
        BY <2>2, <2>3, <4>1, NamesAssumption
      <4>3. Present(Last(Layers))'
        BY <2>2, <4>2 DEF Present
      <4> QED  BY <1>i, <2>2, <3>2, <4>1, <4>2, <4>3, SuffixOfTop DEF Suffix
    <3> QED  BY <3>1, <3>2
  <2>10. (target # NewLayer => Content(NewLayer) = {})'
    <3>1. NewLayer \in Name /\ Content(NewLayer) = {}
      BY <2>2 DEF Name, CacheOK
    <3> QED  BY <2>2, <2>3, <3>1 DEF Content, Present
  <2> QED  BY <1>0, <2>2, <2>6, <2>7, <2>8, <2>9, <2>10 DEF CachedInv
<1>9. CASE NewDirectory
  <2>1. /\ pc = "newdir" /\ pc' = "store" /\ target' = NewLayer /\ UNCHANGED <<ref, cmd, img>>
        /\ Layers' = Layers /\ ref.layers = Layers /\ cmd.op = "layer" /\ CacheOK(Layers)
        /\ Content(NewLayer) = {} /\ ~Present({})
        /\ expanded' = [expanded EXCEPT ![NewLayer] = {}]
    BY <1>0, <1>9, <1>i DEF NewDirectory, UseNewLayer, Layers, CachedInv, CacheOK
  <2>2. \A n \in Name : expanded'[n] = IF n = NewLayer THEN {} ELSE expanded[n]
    BY <1>0, <2>1 DEF TypeOK
  <2>3. (target = Target)'
    BY <2>1 DEF Target
  <2>4. (~Present(expanded[target]) /\ Asked(TopTree, expanded[target]))'
    <3>1. {} \in Tree /\ {} # NewLayer /\ {} \in Name
      BY NamesAssumption DEF Tree, Name
    <3>2. expanded'[target'] = {} /\ expanded'[{}] = expanded[{}]
      BY <2>1, <2>2, <3>1 DEF Name
    <3> QED  BY <2>1, <3>2 DEF Present, Asked
  <2>5. Faithful(Layers, target)' /\ Suffix(Layers)'
    <3>1. \A n \in Name \ {NewLayer} : expanded'[n] = expanded[n]
      BY <2>2
    <3>2. Suffix(Layers)'
      BY <1>i, <2>1, <3>1, SuffixOfNew DEF CacheOK, Suffix
    <3> QED  BY <2>1, <3>1, <3>2 DEF CacheOK, Faithful, Present
  <2> QED  BY <1>0, <2>1, <2>3, <2>4, <2>5 DEF CachedInv
<1>10. CASE StoreBlob
  <2>1. /\ pc = "store" /\ pc' = "move" /\ digest' = expanded[target]
        /\ UNCHANGED <<expanded, ref, cmd, img, target>> /\ Layers' = Layers
    BY <1>10 DEF StoreBlob, Layers
  <2>2. UNCHANGED <<Target, TopTree>>
    BY <2>1 DEF Target, Top, TopTree
  <2> QED  BY <1>0, <2>1, <2>2 DEF CachedInv, Asked, Faithful, Suffix, Content, Present
<1>11. CASE Move
  <2>1. /\ pc = "move" /\ pc' = "retop" /\ UNCHANGED <<ref, cmd, img, digest>> /\ Layers' = Layers
        /\ TopTree' = TopTree /\ img # None
    BY <1>11, <1>i DEF Move, memory, Layers, TopTree
  <2>2. CacheOK(NextLayers)'
    BY <1>0, <1>11, <1>i, <2>1, MoveCached DEF CachedInv, FreshInv
  <2> QED  BY <1>0, <2>1, <2>2 DEF CachedInv, Asked
<1>12. CASE UpdateTopLayer \/ NewTopLayer
  <2>1. /\ pc = "retop" /\ pc' = "rmcfg" /\ UNCHANGED <<expanded, cmd>> /\ img # None /\ img \in Image
        /\ digest \in Tree /\ img.manifest \in Manifest /\ img.config \in Config /\ Layers \in Seq(Tree)
        /\ IsInjective(Layers) /\ digest \notin ToSet(Layers)
    BY <1>0, <1>12, <1>i DEF UpdateTopLayer, NewTopLayer, disk, Progress, FreshInv, Image
  <2>2. img' # None /\ img' \in Image
    BY <1>t, <2>1, NoneAssumption DEF Progress
  <2>3. Layers' = NextLayers
    <3>1. PICK d, l : /\ img' = [img EXCEPT !.config.diffs = d, !.manifest.layers = l]
                      /\ l = NextLayers
      BY <1>12, <2>1 DEF UpdateTopLayer, NewTopLayer, NextLayers, Layers, Image
    <3>2. img'.manifest.layers = l
      BY <2>1, <3>1 DEF Image, Manifest
    <3> QED  BY <2>2, <3>1, <3>2 DEF Layers
  <2>4. CacheOK(Layers)'
    <3>1. CacheOK(NextLayers)
      BY <1>0, <2>1 DEF CachedInv
    <3> QED  BY <2>1, <2>3, <3>1 DEF CacheOK, Faithful, Suffix, Content, Present
  <2>5. ASSUME cmd.op = "copy"
        PROVE  (Layers # <<>> /\ Last(Layers) = (IF old = None THEN {} ELSE old) \cup cmd.files)'
    <3>1. Layers' = PutTop(Layers) /\ old' = IF Layers = <<>> THEN None ELSE Last(Layers)
      BY <1>12, <2>3, <2>5 DEF UpdateTopLayer, NewTopLayer, NextLayers
    <3>2. Layers' # <<>> /\ Last(Layers') = digest /\ digest = TopTree \cup cmd.files
      BY <1>0, <2>1, <2>5, <3>1, PutTopFacts DEF CachedInv, Asked
    <3>3. (IF old' = None THEN {} ELSE old') = TopTree
      BY <2>1, <3>1, NamesAssumption DEF TopTree, Last
    <3> QED  BY <2>1, <3>2, <3>3
  <2> QED  BY <1>0, <2>1, <2>4, <2>5 DEF CachedInv
<1>13. CASE Edit
  <2>1. /\ pc = "edit" /\ pc' = "rmcfg" /\ UNCHANGED <<expanded, cmd>> /\ img # None /\ img \in Image
        /\ cmd.op \in {"config", "tag"} /\ CacheOK(Layers)
    BY <1>0, <1>13, <1>i DEF Edit, disk, CachedInv
  <2>2. img' # None
    BY <1>t, <2>1, NoneAssumption DEF Progress
  <2>3. Layers' = Layers
    BY <1>13, <2>1, <2>2 DEF Edit, Layers, Image
  <2>4. CacheOK(Layers)'
    BY <1>l, <2>1, <2>3
  <2> QED  BY <1>0, <2>1, <2>4 DEF CachedInv
<1>14. CASE Prune
  <2>1. pc = "prune" /\ pc' = "idle" /\ UNCHANGED <<expanded, ref>> /\ CacheOK(Layers) /\ Layers = ref.layers
    BY <1>0, <1>14 DEF Prune, Stop, CachedInv, WholeInv, Layers
  <2>2. CacheOK(ref.layers)'
    BY <2>1 DEF CacheOK, Faithful, Suffix, Content, Present
  <2> QED  BY <2>1, <2>2 DEF CachedInv
<1>15. CASE SaveStep
  <2>1. /\ pc \in SavingSteps /\ expanded' = expanded /\ img # None
        /\ CacheOK(Layers) /\ Layers = img.manifest.layers
        /\ cmd.op = "copy" =>
              Layers # <<>> /\ Last(Layers) = (IF old = None THEN {} ELSE old) \cup cmd.files
    <3>1. pc \in SavingSteps /\ expanded' = expanded
      BY <1>15 DEF SaveStep, RemoveConfig, WriteConfig, RemoveManifest, WriteManifest, RemoveRefs, WriteRef
    <3>2. img # None
      BY <1>0, <3>1 DEF WholeInv
    <3> QED  BY <1>0, <3>1, <3>2 DEF CachedInv, Layers
  <2>2. CASE pc' = "idle"
    <3>1. WriteRef /\ ref' = img.manifest
      <4>1. ~RemoveConfig \/ pc' # "idle"
        BY <1>0 DEF RemoveConfig, StoredInv, Step
      <4>2. ~RemoveManifest \/ pc' # "idle"
        BY <1>0 DEF RemoveManifest, StoredInv, Step
      <4>3. WriteRef
        BY <1>15, <2>2, <4>1, <4>2 DEF SaveStep, WriteConfig, WriteManifest, RemoveRefs, Step
      <4> QED  BY <1>0, <4>3 DEF WriteRef, StackInv, StoredInv
    <3>2. CacheOK(ref.layers)'
      BY <2>1, <3>1 DEF CacheOK, Faithful, Suffix, Content, Present
    <3> QED  BY <2>2, <3>2 DEF CachedInv
  <2>3. CASE pc' # "idle"
    <3>1. pc' \in After /\ UNCHANGED <<cmd, old>> /\ (UNCHANGED img \/ WriteConfig \/ WriteManifest)
      BY <1>15, <2>3 DEF SaveStep, RemoveConfig, WriteConfig, RemoveManifest, WriteManifest,
         RemoveRefs, WriteRef, Step, Stop, memory
    <3>2. Layers' = Layers
      <4>1. CASE UNCHANGED img
        BY <4>1 DEF Layers
      <4>2. CASE WriteConfig \/ WriteManifest
        <5>1. img \in Image /\ img.manifest \in Manifest
          BY <1>0, <2>1 DEF Progress, Image
        <5>2. img' # None /\ pc' \in SavingSteps
          BY <1>t, <4>2, NoneAssumption DEF WriteConfig, WriteManifest, Progress
        <5> QED  BY <2>1, <4>2, <5>1, <5>2 DEF WriteConfig, WriteManifest, Layers, Image, Manifest
      <4> QED  BY <3>1, <4>1, <4>2
    <3>3. CacheOK(Layers)'
      BY <1>l, <2>1, <3>2
    <3>4. (pc \in After)' /\ ~(pc \in Early)'
      BY <3>1
    <3> QED  BY <1>0, <2>1, <2>3, <3>1, <3>2, <3>3, <3>4 DEF CachedInv
  <2> QED  BY <2>2, <2>3
<1> QED
  BY <1>0, <1>1, <1>2, <1>3, <1>4, <1>5, <1>6, <1>7, <1>8, <1>9, <1>10, <1>11, <1>12, <1>13, <1>14,
     <1>15, CleanShape DEF Clean

-----------------------------------------------------------------------------
(* The theorems.  They are about builds in which nothing fails: OciStore_Faults *)
(* shows what an error or a kill does to the same properties.                   *)

LEMMA CleanStep == Clean /\ CleanInv /\ [Next]_vars => CleanInv'
BY TypeStep, StackInvStep, WholeStep, FreshStep, StoredStep, CachedStep DEF CleanInv, Clean

THEOREM CleanInvariant == Clean /\ Spec => []CleanInv
<1>1. CASE Clean
  BY <1>1, CleanInit, CleanStep, PTL DEF Spec
<1> QED  BY <1>1

\* Every command leaves an image that loads and has all its blobs (save, and
\* Prune after it).
THEOREM CommandsLeaveImageComplete == Clean /\ Spec => []ImageComplete
<1>1. CleanInv => ImageComplete
  BY DEF CleanInv, StoredInv, ImageComplete, Loadable
<1> QED  BY <1>1, CleanInvariant, PTL

\* And nothing else: the config and the manifest that save() replaces and the top
\* layer that UpdateTopLayer replaces are gone when the command is.
THEOREM CommandsLeaveNoOrphans == Clean /\ Spec => []NoOrphans
<1>1. CleanInv => NoOrphans
  BY DEF CleanInv, StoredInv, NoOrphans, Loadable, Early
<1> QED  BY <1>1, CleanInvariant, PTL

\* The directories of ociblobs that OCIExtractLayers trusts by their name alone
\* have the content that the name is the digest of.
THEOREM CacheIsFaithful == Clean /\ Spec => []CacheFaithful
<1>1. CleanInv => CacheFaithful
  BY DEF CleanInv, StoredInv, CachedInv, CacheOK, Faithful, CacheFaithful, Loadable
<1> QED  BY <1>1, CleanInvariant, PTL

\* The loop of OCIExtractLayers may stop at the first directory it finds.
THEOREM CacheHasNoGaps == Clean /\ Spec => []CacheIsSuffix
<1>1. CleanInv => CacheIsSuffix
  BY DEF CleanInv, StoredInv, CachedInv, CacheOK, Suffix, CacheIsSuffix, Loadable
<1> QED  BY <1>1, CleanInvariant, PTL

\* No command panics on an image it could not load, misses a blob, or finds another
\* layer's directory where its own has to go.
THEOREM CommandsFindTheirFiles == Clean /\ Spec => []NothingMissing
<1>1. Init => NothingMissing
  BY DEF Init, NothingMissing
<1>2. ASSUME Clean, CleanInv, NothingMissing, [Next]_vars PROVE NothingMissing'
  <2>1. CASE why' = why
    BY <1>2, <2>1 DEF NothingMissing
  <2>2. CASE \E w \in {"running", "chroot", "mount", "refused", "ok", "tag"} : why' = w
    BY <2>2 DEF NothingMissing
  <2>3. SaveStep => why' = why \/ why' \in {"ok", "tag"}
    <3>1. ~(Stop("missing") /\ (RemoveConfig \/ RemoveManifest))
      BY <1>2 DEF CleanInv, StoredInv, RemoveConfig, RemoveManifest, Step, Stop
    <3> QED
      BY <3>1 DEF SaveStep, RemoveConfig, WriteConfig, RemoveManifest, WriteManifest, RemoveRefs,
         WriteRef, Step, Stop
  <2>4. CASE UNCHANGED vars
    BY <2>1, <2>4 DEF vars
  <2>5. CASE \E c \in Issued : Start(c)
    BY <2>2, <2>5 DEF Start
  <2>6. CASE EndsEarly \/ Prune
    BY <2>2, <2>6 DEF EndsEarly, Prune, Stop
  <2>7. CASE ExtractOne \/ AlreadyExtracted \/ ExpandNothing \/ GoOn \/ Mutate \/ NewDirectory
             \/ StoreBlob \/ Move \/ UpdateTopLayer \/ NewTopLayer \/ Edit
    BY <2>1, <2>7 DEF ExtractOne, AlreadyExtracted, ExpandNothing, UseNewLayer, GoOn, Mutate,
       NewDirectory, StoreBlob, Move, UpdateTopLayer, NewTopLayer, Edit, Step
  <2> QED  BY <1>2, <2>1, <2>2, <2>3, <2>4, <2>5, <2>6, <2>7, CleanShape DEF Clean
<1>3. CASE Clean
  BY <1>1, <1>2, <1>3, CleanInvariant, PTL DEF Spec
<1> QED  BY <1>3

\* What a copy commits is the top layer as it was and the files it was asked for
\* (expandTopOCILayer to save).
THEOREM CopiesCommitTheirFiles == Clean /\ Spec => CopyCommitsItsFiles
<1>1. ASSUME Clean, CleanInv, [Next]_vars, pc = "wrref", cmd.op = "copy", ref = None, ref' # None
      PROVE  Last(ref'.layers) = (IF old = None THEN {} ELSE old) \cup cmd.files
  <2>1. SaveStep \/ ref' = ref
    BY <1>1, CleanShape DEF Clean, vars, disk, Start, EndsEarly, ExtractOne, AlreadyExtracted, ExpandNothing,
       UseNewLayer, GoOn, Mutate, NewDirectory, StoreBlob, Move, UpdateTopLayer, NewTopLayer, Edit, Prune
  <2>2. ref' = img.manifest
    BY <1>1, <2>1 DEF SaveStep, RemoveConfig, WriteConfig, RemoveManifest, WriteManifest, RemoveRefs,
       WriteRef, CleanInv, StackInv
  <2>3. Layers = ref'.layers
    BY <1>1, <2>2 DEF Layers, CleanInv, WholeInv, SavingSteps
  <2> QED  BY <1>1, <2>3 DEF CleanInv, CachedInv, After, SavingSteps
<1>2. ASSUME Clean, CleanInv, [Next]_vars
      PROVE  [pc = "wrref" /\ cmd.op = "copy" /\ ref = None /\ ref' # None
              => Last(ref'.layers) = (IF old = None THEN {} ELSE old) \cup cmd.files]_vars
  BY <1>1, <1>2
<1>3. CASE Clean
  BY <1>2, <1>3, CleanInvariant, PTL DEF Spec, CopyCommitsItsFiles
<1> QED  BY <1>3
================================================================================
