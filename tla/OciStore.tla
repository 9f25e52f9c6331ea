------------------------------- MODULE OciStore -------------------------------
(*****************************************************************************)
(* The OCI image of a build (.acbuild/currentaci), the expanded layers beside *)
(* it (.acbuild/ociblobs) and the commands that change them: copy, run,      *)
(* layer, the configuration edits and set-tag.                               *)
(*                                                                           *)
(* A blob is named by the digest of its content, so a blob is its content: a *)
(* layer is the tree of its files, a config holds the list of diff ids, a    *)
(* manifest names a config and the list of layers.  Digest and diff id of a  *)
(* layer are both the tree.  An expanded layer is a directory named by the   *)
(* digest it was extracted from, whose content is whatever has happened to   *)
(* it since.                                                                 *)
(*                                                                           *)
(* The commands of one working directory run one after the other here (the   *)
(* lock is the subject of WorkContext); what interleaves is failure: an I/O  *)
(* error in the middle of a command, a run command that exits non-zero after *)
(* writing files, a kill.                                                    *)
(*****************************************************************************)
EXTENDS Naturals, Sequences, SequencesExt

CONSTANTS
    File,       \* the files a layer may contain
    None,       \* no file, directory, digest or image
    NewLayer,   \* the directory name "new-layer"
    Setting,    \* values of the configuration the layers do not matter to
    Commands,   \* the commands issued, a subset of AllCommands
    Starts,     \* what begin may leave behind: records [layers, tar]
    Roots,      \* whether a command may run as root, as another user, or both
    Faults,     \* what may go wrong, a subset of AllFaults
    Distinct,   \* TRUE: no command produces content that the image has already
    MaxLayers   \* bound on the layers of an image

Tree == SUBSET File
Name == {NewLayer} \cup Tree

AllCommands == {"copy", "run", "layer", "config", "tag"}

\* "io"    a file system call fails, or a copy or an extraction stops half way
\* "flush" the last bytes of a layer blob cannot be written
\* "cmd"   the command of run exits non-zero, having written what it liked
\* "tag"   the tag of set-tag is no file name
\* "crash" the process is killed between two steps
AllFaults == {"io", "flush", "cmd", "tag", "crash"}

ASSUME NamesAssumption == NewLayer # None /\ \A t \in Tree : t # NewLayer /\ t # None
ASSUME CommandsAssumption == Commands \subseteq AllCommands
ASSUME StartsAssumption == \A s \in Starts : s.layers \in Seq(Tree) /\ s.tar \in BOOLEAN
ASSUME RootsAssumption == Roots \subseteq BOOLEAN
ASSUME FaultsAssumption == Faults \subseteq AllFaults
ASSUME BoundAssumption == Distinct \in BOOLEAN /\ MaxLayers \in Nat

VARIABLES
    \* on disk
    blobs,      \* the layer blobs
    cut,        \* those whose file lacks its end
    configs,    \* the config blobs
    manifests,  \* the manifest blobs
    ref,        \* the manifest that refs/<tag> names, or None
    expanded,   \* the directories of ociblobs/sha256
    \* in the running command
    cmd,        \* what it was asked to do
    pc,         \* its next step
    img,        \* the oci.Image it has loaded, or None
    wanted,     \* layers OCIExtractLayers has still to look at
    target,     \* the expanded directory being changed
    digest,     \* the digest that rehashing it gave
    old,        \* oldTopLayerHash
    why         \* how the last command ended, or "running"

disk == <<blobs, cut, configs, manifests, ref, expanded>>
vars == <<disk, cmd, pc, img, wanted, target, digest, old, why>>

-----------------------------------------------------------------------------
Config == [diffs : Seq(Tree), setting : Setting]
Manifest == [config : Config, layers : Seq(Tree)]
\* oci.Image: the structs in memory, where manifest.config is still the digest
\* of the config that was loaded, and ref that of the manifest.
Image == [config : Config, manifest : Manifest, ref : Manifest]

AnyCommand == [op : AllCommands, root : BOOLEAN, files : Tree, setting : Setting, bad : BOOLEAN]

\* The commands that may be issued; the fields a command has no use for are fixed.
Issued == {c \in AnyCommand :
             /\ c.op \in Commands
             /\ c.root \in Roots
             /\ c.op = "run" => c.root
             /\ (c.files # {}) = (c.op = "copy")
             /\ c.op # "config" => c.setting = CHOOSE v \in Setting : TRUE
             /\ c.bad => c.op = "tag" /\ "tag" \in Faults}

Present(n) == expanded[n] # None
Content(n) == IF Present(n) THEN expanded[n] ELSE {}
Layers == IF img = None THEN <<>> ELSE img.manifest.layers

\* LoadImage follows ref, manifest and config, and looks at no layer.
Loadable == ref # None /\ ref \in manifests /\ ref.config \in configs

\* None is none of these either.
ASSUME NoneAssumption == None \notin Seq(Tree) /\ None \notin Manifest /\ None \notin Image

-----------------------------------------------------------------------------
(* Begin.  From nothing and from an image: no layer is expanded.  From a tar  *)
(* of a rootfs: startedFromTar makes it the only layer, already expanded.     *)
Init ==
    \E s \in Starts, v \in Setting :
       LET c == [diffs |-> s.layers, setting |-> v]
           m == [config |-> c, layers |-> s.layers]
       IN  /\ blobs = ToSet(s.layers)
           /\ cut = {}
           /\ configs = {c}
           /\ manifests = {m}
           /\ ref = m
           /\ expanded = [n \in Name |->
                            IF s.tar /\ n \in ToSet(s.layers) THEN n ELSE None]
           /\ cmd = None
           /\ pc = "idle"
           /\ img = None
           /\ wanted = <<>>
           /\ target = None
           /\ digest = None
           /\ old = None
           /\ why = "ok"

memory == <<cmd, img, wanted, target, digest, old>>

\* The command ends, and all it had in memory goes with its process.
Stop(w) ==
    /\ pc' = "idle"
    /\ why' = w
    /\ cmd' = None /\ img' = None /\ wanted' = <<>>
    /\ target' = None /\ digest' = None /\ old' = None

\* It goes on with step l, and has changed nothing in memory.
Step(l) == pc' = l /\ UNCHANGED <<memory, why>>

-----------------------------------------------------------------------------
(* A command starts: NewACBuild loads the image and ignores a failure to.     *)

\* A variant with a bug: the step is named after the command.
BugFirstStep(op) == op

FirstStep(op) == CASE op = "copy"   -> "expand"
                   [] op = "run"    -> "expand"
                   [] op = "layer"  -> "newdir"
                   [] op = "config" -> "edit"
                   [] op = "tag"    -> "edit"

TopOf(s) == IF s = <<>> THEN <<>> ELSE <<Last(s)>>

Loaded == IF Loadable THEN [config |-> ref.config, manifest |-> ref, ref |-> ref] ELSE None

\* Whether a tree differs from all that the image or the expanded layers have.
IsNew(t, layers) == t \notin ToSet(layers) /\ ~Present(t)

\* What a copy of these files would make of the top layer.
CopyOf(files, layers) ==
    files \cup (IF layers = <<>> THEN Content(NewLayer)
               ELSE IF Present(Last(layers)) THEN expanded[Last(layers)]
               ELSE Last(layers))

Start(c) ==
    /\ pc = "idle"
    /\ c.op = "layer" /\ Loadable =>
          /\ Len(ref.layers) < MaxLayers
          /\ Distinct => IsNew(Content(NewLayer), ref.layers)
    /\ c.op = "copy" /\ Loadable /\ Distinct =>
          IsNew(CopyOf(c.files, ref.layers), ref.layers)
    /\ cmd' = c
    /\ img' = Loaded
    /\ pc' = FirstStep(c.op)
    /\ wanted' = IF Loaded = None THEN <<>>
                 ELSE CASE c.op = "copy" -> TopOf(Loaded.manifest.layers)
                        [] c.op = "run"  -> Loaded.manifest.layers
                        [] OTHER         -> <<>>
    /\ why' = "running"
    /\ UNCHANGED <<disk, target, digest, old>>

\* Operations on an image that could not be loaded dereference a nil pointer;
\* layer only gets there after it has moved its directory.
Panics ==
    /\ pc \in {"expand", "edit", "retop"}
    /\ img = None
    /\ Stop("panic")
    /\ UNCHANGED disk

-----------------------------------------------------------------------------
(* expandTopOCILayer, generateOverlayPathsOCI and OCIExtractLayers.           *)

\* An image without layers: work in new-layer, keeping what is in it.
UseNewLayer(next) ==
    /\ expanded' = [expanded EXCEPT ![NewLayer] = Content(NewLayer)]
    /\ target' = NewLayer
    /\ pc' = next
    /\ UNCHANGED <<blobs, cut, configs, manifests, ref, cmd, img, wanted, digest, old, why>>

ExpandNothing ==
    /\ pc = "expand"
    /\ img # None
    /\ Layers = <<>>
    /\ UseNewLayer("mutate")

\* ExtractImage of the next layer.  As root it starts by changing root into a
\* directory nobody has made; otherwise the archive's entries make it, so an
\* empty layer leaves no directory.
Extract ==
    /\ pc = "expand"
    /\ wanted # <<>>
    /\ ~Present(Head(wanted))
    /\ IF Head(wanted) \in blobs /\ ~cmd.root
       THEN /\ expanded' = [expanded EXCEPT ![Head(wanted)] =
                               IF Head(wanted) = {} THEN None ELSE Head(wanted)]
            /\ wanted' = Tail(wanted)
            /\ UNCHANGED <<cmd, pc, img, target, digest, old, why>>
       ELSE /\ Stop(IF cmd.root /\ Head(wanted) \in blobs THEN "chroot" ELSE "missing")
            /\ UNCHANGED expanded
    /\ UNCHANGED <<blobs, cut, configs, manifests, ref>>

\* "This has already been extracted": the loop ends there, for all the rest.
AlreadyExtracted ==
    /\ pc = "expand"
    /\ wanted # <<>>
    /\ Present(Head(wanted))
    /\ wanted' = <<>>
    /\ UNCHANGED <<disk, cmd, pc, img, target, digest, old, why>>

\* All layers are looked at.  run mounts an overlay of several directories,
\* every one of which has to exist.
Expanded ==
    /\ pc = "expand"
    /\ img # None
    /\ Layers # <<>>
    /\ wanted = <<>>
    /\ IF cmd.op = "run" /\ \E i \in DOMAIN Layers : ~Present(Layers[i])
       THEN Stop("mount")
       ELSE /\ target' = Last(Layers)
            /\ pc' = "mutate"
            /\ UNCHANGED <<cmd, img, wanted, digest, old, why>>
    /\ UNCHANGED disk

-----------------------------------------------------------------------------
(* The files change: CopyTree, or the command that run executes.              *)

\* A variant with a bug: the copied files replace the layer's.
BugMutate ==
    /\ pc = "mutate"
    /\ \E t \in Tree :
          /\ cmd.op = "copy" => t = cmd.files
          /\ expanded' = [expanded EXCEPT ![target] = t]
    /\ Step("store")
    /\ UNCHANGED <<blobs, cut, configs, manifests, ref>>

Mutate ==
    /\ pc = "mutate"
    /\ \E t \in Tree :
          /\ cmd.op = "copy" => t = Content(target) \cup cmd.files
          /\ cmd.op = "run" /\ Distinct => IsNew(t, Layers)
          /\ expanded' = [expanded EXCEPT ![target] = t]
    /\ Step("store")
    /\ UNCHANGED <<blobs, cut, configs, manifests, ref>>

\* A copy that stops half way, or a container command that exits non-zero,
\* leaves its changes in the expanded layer.
MutateFails ==
    /\ pc = "mutate"
    /\ \/ "io" \in Faults  /\ cmd.op = "copy" /\ Stop("io")
       \/ "cmd" \in Faults /\ cmd.op = "run"  /\ Stop("cmd")
    /\ \E t \in Tree :
          /\ cmd.op = "copy" => t \in {Content(target) \cup fs : fs \in SUBSET cmd.files}
          /\ expanded' = [expanded EXCEPT ![target] = t]
    /\ UNCHANGED <<blobs, cut, configs, manifests, ref>>

\* OCINewExpandedLayer.  It means to clear the directory, but the test is the
\* wrong way round, and it never does.
NewDirectory ==
    /\ pc = "newdir"
    /\ UseNewLayer("store")

-----------------------------------------------------------------------------
(* rehashAndStoreOCIBlob.                                                     *)

\* The archive is written to a temporary file and renamed to its digest.  The
\* errors of closing the writers are dropped, and the bytes that they could not
\* write have gone through the digest already.
StoreBlob ==
    /\ pc = "store"
    /\ digest' = expanded[target]
    /\ blobs' = blobs \cup {expanded[target]}
    /\ cut' \in {cut \ {expanded[target]}}
               \cup (IF "flush" \in Faults THEN {cut \cup {expanded[target]}} ELSE {})
    /\ pc' = "move"
    /\ UNCHANGED <<configs, manifests, ref, expanded, cmd, img, wanted, target, old, why>>

\* Variants with a bug: the directory is copied, or removed, and not renamed.
BugCopied == [expanded EXCEPT ![digest] = expanded[target]]
BugRemoved == [expanded EXCEPT ![target] = None]

Renamed == [n \in Name |-> IF n = digest THEN expanded[target]
                           ELSE IF n = target THEN None
                           ELSE expanded[n]]

\* rename(2) of a directory onto itself does nothing, and onto another one
\* works only if that is empty.
MoveDirectory ==
    /\ pc = "move"
    /\ IF digest = target \/ Content(digest) = {}
       THEN expanded' = Renamed /\ Step("retop")
       ELSE Stop("notempty") /\ UNCHANGED expanded
    /\ UNCHANGED <<blobs, cut, configs, manifests, ref>>

\* A variant with a bug: the first layer is replaced.
BugPutTop(s) == IF s = <<>> THEN <<digest>> ELSE [s EXCEPT ![1] = digest]

PutTop(s) == IF s = <<>> THEN <<digest>> ELSE [s EXCEPT ![Len(s)] = digest]

\* A variant with a bug: the old blob goes before the image is saved.
BugUpdateTopLayer ==
    /\ pc = "retop"
    /\ img # None
    /\ cmd.op # "layer"
    /\ img' = [img EXCEPT !.config.diffs = PutTop(@), !.manifest.layers = PutTop(@)]
    /\ blobs' = blobs \ (IF Layers = <<>> THEN {} ELSE {Last(Layers)})
    /\ pc' = "rmcfg"
    /\ UNCHANGED <<cut, configs, manifests, ref, expanded, cmd, wanted, target, digest, old, why>>

\* UpdateTopLayer: the new top takes the place of the old one.
UpdateTopLayer ==
    /\ pc = "retop"
    /\ img # None
    /\ cmd.op # "layer"
    /\ img' = [img EXCEPT !.config.diffs = PutTop(@), !.manifest.layers = PutTop(@)]
    /\ old' = IF Layers = <<>> THEN None ELSE Last(Layers)
    /\ pc' = "rmcfg"
    /\ UNCHANGED <<disk, cmd, wanted, target, digest, why>>

\* A variant with a bug: the diff ids are forgotten.
BugNewTopLayer ==
    /\ pc = "retop"
    /\ img # None
    /\ cmd.op = "layer"
    /\ img' = [img EXCEPT !.manifest.layers = Append(@, digest)]
    /\ pc' = "rmcfg"
    /\ UNCHANGED <<disk, cmd, wanted, target, digest, old, why>>

NewTopLayer ==
    /\ pc = "retop"
    /\ img # None
    /\ cmd.op = "layer"
    /\ img' = [img EXCEPT !.config.diffs = Append(@, digest),
                          !.manifest.layers = Append(@, digest)]
    /\ pc' = "rmcfg"
    /\ UNCHANGED <<disk, cmd, wanted, target, digest, old, why>>

\* Variants with a bug: the new blob goes, or none.
BugPruneNew == blobs \ {digest}
BugPruneNothing == blobs

Pruned == blobs \ {old}

\* Once the image is saved, the old top layer's blob goes; an error is a warning.
Prune ==
    /\ pc = "prune"
    /\ \/ blobs' = Pruned /\ cut' = cut \cap Pruned
       \/ "io" \in Faults /\ UNCHANGED <<blobs, cut>>
    /\ Stop("ok")
    /\ UNCHANGED <<configs, manifests, ref, expanded>>

-----------------------------------------------------------------------------
(* The configuration edits, and save().                                       *)

Edit ==
    /\ pc = "edit"
    /\ img # None
    /\ img' = IF cmd.op = "config" THEN [img EXCEPT !.config.setting = cmd.setting] ELSE img
    /\ pc' = "rmcfg"
    /\ UNCHANGED <<disk, cmd, wanted, target, digest, old, why>>

\* Removing first is what lets save() write a blob that did not change.
RemoveConfig ==
    /\ pc = "rmcfg"
    /\ IF img.manifest.config \in configs
       THEN configs' = configs \ {img.manifest.config} /\ Step("wrcfg")
       ELSE Stop("missing") /\ UNCHANGED configs
    /\ UNCHANGED <<blobs, cut, manifests, ref, expanded>>

\* A variant with a bug: the manifest still names the old config.
BugWriteConfig ==
    /\ pc = "wrcfg"
    /\ configs' = configs \cup {img.config}
    /\ Step("rmman")
    /\ UNCHANGED <<blobs, cut, manifests, ref, expanded>>

WriteConfig ==
    /\ pc = "wrcfg"
    /\ configs' = configs \cup {img.config}
    /\ img' = [img EXCEPT !.manifest.config = img.config]
    /\ pc' = "rmman"
    /\ UNCHANGED <<blobs, cut, manifests, ref, expanded, cmd, wanted, target, digest, old, why>>

RemoveManifest ==
    /\ pc = "rmman"
    /\ IF img.ref \in manifests
       THEN manifests' = manifests \ {img.ref} /\ Step("wrman")
       ELSE Stop("missing") /\ UNCHANGED manifests
    /\ UNCHANGED <<blobs, cut, configs, ref, expanded>>

WriteManifest ==
    /\ pc = "wrman"
    /\ manifests' = manifests \cup {img.manifest}
    /\ img' = [img EXCEPT !.ref = img.manifest]
    /\ pc' = "rmrefs"
    /\ UNCHANGED <<blobs, cut, configs, ref, expanded, cmd, wanted, target, digest, old, why>>

\* All refs go, the one of a tag before set-tag as well.
RemoveRefs ==
    /\ pc = "rmrefs"
    /\ ref' = None
    /\ Step("wrref")
    /\ UNCHANGED <<blobs, cut, configs, manifests, expanded>>

WriteRef ==
    /\ pc = "wrref"
    /\ IF cmd.bad
       THEN Stop("tag") /\ UNCHANGED ref
       ELSE /\ ref' = img.ref
            /\ IF old # None THEN Step("prune") ELSE Stop("ok")
    /\ UNCHANGED <<blobs, cut, configs, manifests, expanded>>

-----------------------------------------------------------------------------
(* Failures between two steps.                                                *)

\* The arguments are no good: an element to remove that the config does not have,
\* a target of copy that is no directory.
Refused ==
    /\ img # None
    /\ \/ pc = "edit" /\ cmd.op = "config"
       \/ pc = "mutate" /\ cmd.op = "copy"
    /\ Stop("refused")
    /\ UNCHANGED disk

IOFails ==
    /\ "io" \in Faults
    /\ pc \notin {"idle", "prune"}
    /\ Stop("io")
    /\ UNCHANGED disk

\* An extraction that stops half way leaves a part of the layer.  One of a blob
\* that lacks its end may stop or, if no file was in what is missing, end well.
ExtractFails ==
    /\ pc = "expand"
    /\ wanted # <<>>
    /\ ~Present(Head(wanted))
    /\ Head(wanted) \in blobs
    /\ ~cmd.root
    /\ \E t \in SUBSET Head(wanted) : expanded' = [expanded EXCEPT ![Head(wanted)] = t]
    /\ \E w \in (Faults \cap {"io", "crash"})
             \cup (IF Head(wanted) \in cut THEN {"damaged"} ELSE {}) : Stop(w)
    /\ UNCHANGED <<blobs, cut, configs, manifests, ref>>

Crash ==
    /\ "crash" \in Faults
    /\ pc # "idle"
    /\ Stop("crash")
    /\ UNCHANGED disk

-----------------------------------------------------------------------------
ExpandStep == ExpandNothing \/ Extract \/ AlreadyExtracted \/ Expanded
ChangeStep == Mutate \/ MutateFails \/ NewDirectory \/ Edit
RehashStep == StoreBlob \/ MoveDirectory \/ UpdateTopLayer \/ NewTopLayer \/ Prune
SaveStep == RemoveConfig \/ WriteConfig \/ RemoveManifest \/ WriteManifest
            \/ RemoveRefs \/ WriteRef
Failure == Panics \/ Refused \/ IOFails \/ ExtractFails \/ Crash

Work == ExpandStep \/ ChangeStep \/ RehashStep \/ SaveStep \/ Failure

Next == (\E c \in Issued : Start(c)) \/ Work

Spec == Init /\ [][Next]_vars

-----------------------------------------------------------------------------
(* Properties.                                                                *)

\* Type correctness of every variable.
TypeOK ==
    /\ blobs \subseteq Tree
    /\ cut \subseteq IF "flush" \in Faults THEN blobs ELSE {}
    /\ \A c \in configs : c \in Config
    /\ \A m \in manifests : m \in Manifest
    /\ ref # None => ref \in Manifest
    /\ expanded \in [Name -> {None} \cup Tree]
    /\ cmd # None => cmd \in AnyCommand
    /\ pc \in {"idle", "expand", "mutate", "newdir", "store", "move", "retop", "edit",
                "rmcfg", "wrcfg", "rmman", "wrman", "rmrefs", "wrref", "prune"}
    /\ img # None => img \in Image
    /\ wanted \in Seq(Tree)
    /\ target \in {None} \cup Name
    /\ digest \in {None} \cup Tree
    /\ old \in {None} \cup Tree
    /\ why \in {"ok", "running", "panic", "missing", "chroot", "mount", "notempty",
               "refused", "damaged"}
              \cup AllFaults

\* The image a command leaves can be loaded and has every blob it names.
ImageComplete == pc = "idle" => Loadable /\ ToSet(ref.layers) \subseteq blobs

\* At every moment the image can be loaded at all, after a kill too, its layers have
\* their blobs.
LoadableIsComplete == Loadable => ToSet(ref.layers) \subseteq blobs

\* A command that succeeds leaves "a complete and valid image": one whose blobs are
\* there from the first byte to the last.  Closing the writers may fail unseen.
CompleteAndValid == why = "ok" => Loadable /\ ToSet(ref.layers) \subseteq blobs \ cut

\* A command leaves no blob behind that the image does not name.
NoOrphans ==
    pc = "idle" => /\ Loadable
                   /\ blobs = ToSet(ref.layers)
                   /\ configs = {ref.config}
                   /\ manifests = {ref}

\* Every manifest pairs the i-th layer with the i-th diff id of its config.
DiffIDsMatch == \A m \in manifests : m.config.diffs = m.layers

\* Between commands an expanded layer is a layer of the image and has exactly the
\* content that its digest stands for; new-layer, if a refused copy left it, is empty.
CacheFaithful ==
    pc = "idle" => /\ Loadable
                   /\ \A n \in Name \ {NewLayer} :
                         Present(n) => n \in ToSet(ref.layers) /\ expanded[n] = n
                   /\ Content(NewLayer) = {}

\* OCIExtractLayers stops at the first layer it finds expanded.  That is right
\* only if all the layers above it are expanded as well.
CacheIsSuffix ==
    pc = "idle" => Loadable /\ \A i, j \in DOMAIN ref.layers :
                      i < j /\ Present(ref.layers[i]) => Present(ref.layers[j])

\* What copy commits is the old top layer and the files it was asked to copy.
CopyCommitsItsFiles ==
    [][pc = "wrref" /\ cmd.op = "copy" /\ ref = None /\ ref' # None
         => Last(ref'.layers) = (IF old = None THEN {} ELSE old) \cup cmd.files]_vars

\* No command ever finds the image unreadable, a layer's blob gone, or another
\* layer's directory where its own has to go: the store it works on is the one
\* that the last command meant to leave.
NothingMissing == why \notin {"panic", "missing", "notempty"}

-----------------------------------------------------------------------------
(* The layers of the image.  save() removes the manifest first and the ref     *)
(* later; the new layers count from the moment the old ref is gone.            *)
Saving == pc = "wrref"

Committed == IF Saving THEN img.manifest.layers
             ELSE IF ref = None THEN None
             ELSE ref.layers

Stack == INSTANCE LayerStack WITH
            Layer <- Tree, Lost <- None, MayLose <- Faults # {}, stack <- Committed

\* Whatever fails, every change of the image's layers replaces the top one, adds
\* one, or loses the image: no command rewrites a lower layer.
ImplementsStack == Stack!Spec
================================================================================
