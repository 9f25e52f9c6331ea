# A TLA+ verification of acbuild

acbuild builds container images (AppC and OCI) one command at a time. Every
command is a process of its own: `acbuild begin` creates the work context
`.acbuild`, any number of `copy`, `run`, `layer`, `set-*`, `... add` commands
change the image in it, `acbuild write` packs the image and `acbuild end` deletes
the context. Nothing survives between commands except files, so what has to be
right is what the files look like after every command, after every command that
failed half way or was killed, and when two commands overlap.

## The parts of the system

| Part | State it keeps | Operations | What makes it correct | Modules |
|---|---|---|---|---|
| Work context and lock: `lib/common.go`, `lib/begin.go`, `lib/end.go` | `.acbuild`, `lock`, `buildMode`; flock in the kernel | begin, end, lock, unlock | one command at a time; a stale lock file blocks nobody; a failed begin leaves nothing; end always works | WorkContext, BuildSession |
| Manifest edits: `lib/manifest.go`, `lib/appc`, `lib/oci`, the handlers in `acbuild` | the AppC manifest; the OCI config and manifest annotations | add and remove labels, annotations, variables, mounts, ports, dependencies, isolators; set-*; replace-manifest | an edit changes the setting it names and nothing else, in either mode; names stay unique and in step with what they name; what is removed is what was asked for | ManifestEdits, AppcManifest, OciConfig, ImageSettings |
| OCI image: `lib/oci`, `util/hash.go` | `currentaci/blobs`, `currentaci/refs` | LoadImage, save, UpdateTopLayer, NewTopLayer | the image is complete, has no orphans, layers and diff ids match | OciStore, LayerStack |
| Expanded layers: `util/oci.go`, `lib/copy.go`, `lib/layer.go`, `lib/run.go` | `.acbuild/ociblobs/sha256/*` | extract, copy into, run in, rehash and rename | a directory has the content its name is the digest of | OciStore |
| run: `lib/run.go`, `util/mounts.go`, `engine` | the overlay mount, `target`, `work`, files put into the image for the command | mount, execute, unmount, clean up | the container is what the dependencies say; nothing stays mounted; no file of the image is lost | AppcRun |
| Registry: `registry` | `depstore-tar`, `depstore-expanded` | fetch with dependencies, render | every dependency is there, whole, after any failure; fetching ends | Registry, AppcRun |
| Command wrapper: `acbuild/acbuild.go` | annotations `command-N`, a temporary context | history, `--modify` | the history tells the build; the image to modify is replaced whole or not at all | CommandLine |
| script: `acbuild/script.go` | a temporary context | tokenise, run line by line, end | the arguments are the ones in the script | ScriptLine, CommandLine |
| write: `lib/write.go` | the output file | pack, hash | exit code 0 means the image is in the file; a failed write leaves no partial image | CommandLine |
| File system differ: `util/fsdiffer` | none | compare two trees | | |

The parts meet in the file system. A command (wrapper) reads `buildMode`, loads the
manifest or the OCI image, takes the lock, works, saves, releases the lock; the
wrapper then issues a second command of its own, the history annotation. `copy`,
`run` and `layer` work in an expanded layer, archive it into a blob, rename the
directory to the blob's digest, change manifest and config, save, and remove the
blob that was replaced. `run` of an AppC build calls the registry, mounts what that
has rendered below the image, and hands the mount to an engine. `--modify` and
`script` are begin, a command or several, write and end in one process.

What is hard: two commands between any two system calls of each other; a manifest
read before the lock; `unlock` releasing the inode before it removes the name; `end`
deleting the lock file it holds; a kill or an I/O error between any two of the many
steps of begin, rehash, save, fetch, mount and write, some of whose errors are dropped;
directories whose name says what they contained once; names kept as text among the
user's own annotations; an image in the store before its dependencies; a removal
that goes through a mount; and words that pass through four parsers. `PROJECT.json`
lists each of these at its line, with the property that covers it, or a note.

## The modules

**WorkContext** has one element of `Proc` for each invocation. `pc` is the system call
it makes next; the directory is `ctx` (it exists), `mode` (`buildMode` exists),
`lockPath` (the inode that `.acbuild/lock` names) and `image` (the manifest, with the
file it is in and the edits it records). `holder` is the kernel's flock table. One
action is one system call, or a group of calls that no other process can tell apart:
`LockStat`, `OpenLock`, `Flock` are the three calls of `lock()`, `Unlock` and
`RemoveLock` the two halves of `unlock()`. `RemoveEntry` and `RemoveContext` are
`os.RemoveAll`, which removes what it has listed in any order, may or may not see what
appears meanwhile, and fails if something is left, or cannot be removed
(`RemoveEntryFails`). `EditTruncate` and `EditWrite` are `save()` of an AppC manifest;
with `EditWriteFails` the disk takes a part of the text, or nothing. A process that
exits or is killed loses its descriptors, and with the last descriptor the lock
(`Release`). `hurt` is a history variable: the commands that have stopped with their
work half done in this context, by a kill or because a write or a removal failed; it
is emptied when the directory goes.

**BuildSession** is what a user who runs one command after the other is promised:
there is no build or an open one that has all edits since it was begun; only a command
that is killed, or that the disk stops half-way, may leave a broken one, at the moment
it stops and at no other. WorkContext maps its state onto it
(`ImplementsSession`). A begin counts from the moment its image loads, an end from the moment `buildMode` or
the image goes, an edit from its write.

**OciStore** is the image of an OCI build. A blob is named by the digest of its
content, so a blob *is* its content: a layer is a set of files, a config a list of
diff ids and a setting, a manifest a config and a list of layers. (Digest and diff id
are hashes of the same tree, compressed and not.) `expanded` maps each name in
`ociblobs` to what the directory now contains. Each command is a chain of steps:

    copy, run   expand -> mutate -> store -> move -> retop -> save -> prune
    layer       newdir -> store -> move -> retop -> save
    config, tag edit -> save
    save        rmcfg -> wrcfg -> rmman -> wrman -> rmrefs -> wrref

Between any two steps the command may fail or be killed; a copy or an extraction
may stop half way; a `run` command may exit non-zero after writing what it liked.
`cut` is the set of blobs whose file lacks its end: the errors of closing the writers
are dropped, after the bytes have gone through the digest, so that a full disk
(`"flush"`) leaves such a blob under its digest and the command succeeds.
Commands run one after the other here, WorkContext being about the overlap. The
history annotation of the wrapper is a `config` command.

**LayerStack** is the promise about layers: a command replaces the top one or adds
one, and only a failure may lose the image. OciStore maps its manifest onto it
(`ImplementsStack`).

**ManifestEdits** is every command that edits the manifest, one action per handler,
named after it (`RunAddMount` is `runAddMount`). `mode` is `buildMode`, and each action
calls the edit of its mode: an operator of **AppcManifest** (package `lib/appc`, with
the validation that `save` does) or **OciConfig** (package `lib/oci`). The AppC manifest
is a record of labels, annotations, dependencies and an app or none; the OCI image is
a config (variables, volumes, ports, entry point and arguments, user) and the
annotations, of which some give names to volumes and ports: they are one map, whose
keys and values the user may write as well. `PathIn` and `PortIn` read such a name back
as `Sscanf` does, a path up to its first blank. Commands come one after the other:
their overlap is WorkContext's, the order of blobs OciStore's.

**ImageSettings** is what these commands promise whatever the mode: the one setting
that is named becomes what was asked and the others stay, or the command fails and
nothing changes. The mapping (`Settings`, in ManifestEdits) reads
either manifest as a function from settings to values; that of OCI finds the name of a
volume or port in the annotations.

**Registry** is the store of dependencies. `FetchAndRender` of the code is a chain of
steps, one per file or directory it writes: `stack` is the stack of recursive calls of
`fetchACIWithSize`, `queue` what is left of the list of files to render. **AppcRun**
extends it with `lib.Run`: it clears what an earlier run left, fetches and renders the
dependencies one by one, mounts, lets the engine prepare the root, executes, and
does the deferred calls in their order, whose errors are all lost: those of removals
are dropped, and that of the unmount is put into a variable that hides the result of
`Run` (`lib/run.go:131`). `own` is `currentaci/rootfs`; a removal under
the mount point while the overlay is mounted takes from `own`. Images are records
with a name, a version, dependencies and files; `View` says whose copy of a file a
process in the container sees.

**CommandLine** is `main`: a user runs one process after the other. `runWrapper` is the
chain of actions under `Modify`, `Command`, `Annotation` and `Write`; every early
return of the code is a `...Fails` action that goes where its deferred calls go.
`disk` has the image to modify, the `.tmp` file and the output of `write`; an image is
the sequence of commands that made it and its `command-N` annotations. A user may
remove such an annotation, write one, or replace the manifest of an AppC build and
with it all of them (`Rewrite`). A script that
is nested (ACBUILD_NESTED_SCRIPT) runs each line as a process of its own. **ScriptLine**
has the functions a line goes through (`FirstLine`, `TokenizeLine`, `InsertRunTacks`,
`ChrootArgs`), as folds over its lines and characters, and the texts an author may write
for a command (`Texts`).

A definition whose name begins with `Bug` is a variant of the one
after it with a plausible mistake; each property is shown to notice one of them.

Commands that only read (`cat-manifest`, `write`, counting the history) are in
WorkContext the path of `EditFails`: lock, no change, unlock. `run` as another user
than root is refused before it does anything and is not issued.

Simplifications. One ref per image, as every save leaves it (`LoadImage` takes the
first of several). Files have no content or mode beyond their name. An image that
has the same layer twice has one blob for both. `gzip` and `tar` are one step. A
directory can be renamed onto an empty one (rename(2); the Go versions of `.travis.yml`
call it directly) and not onto one with files.

## The runs

| Run | Question | Answer |
|---|---|---|
| `WorkContext_Overlap` | three commands of any kind overlapping, killed, failing | one lock file has one owner (`OneOwnerPerLockFile`); a lock is refused only for a command that still runs (`StaleLockNeverBlocks`); two edits alone exclude each other (`PairsExclude`) |
| `WorkContext_Session` | four commands in sequence, killed or failing anywhere, on a disk that may be full | the context implements BuildSession (`ImplementsSession`); it is clean between commands, but for what one stopped half-way has left in this very context (`CleanBetweenCommands`) |
| `WorkContext_ThreeEdits` | three edits | **violated**: two of them are past `lock()` |
| `OciStore_Clean` | any commands that produce new content, no failures | complete and minimal image, faithful and contiguous cache, copy commits exactly its files, layers below are never touched |
| `OciStore_Faults` | all failures and kills, a full disk | an image that loads has a blob for each of its layers; diff ids match; lower layers untouched |
| `OciStore_SameContent` | a command that changes nothing | **violated**: the live top blob is pruned |
| `ManifestEdits` | three edits of any kind in either mode, of a new, a full and a foreign image | each does what ImageSettings promises (`ImplementsSettings`); names are unique (`NamesUnique`) and in step with volumes and ports (`NamesInStep`) |
| `AppcRun` | three runs with a tree of dependencies, kills, and every failure but three | the container is what the dependencies say (`ContainerSeesDependencies`); no file of the image is lost (`OwnFilesKept`) or added (`NothingElseInImage`); nothing stays mounted (`CleanAfterRun`); a run fails only when something outside has (`FailsOnlyOnFault`), and ends (`RunEnds`) |
| `AppcRun_LayerOrder` | two dependencies that share a file | **violated**: the earlier one's copy is seen |
| `CommandLine` | three processes, plain, with `--modify` or from a script, failing or killed anywhere, and a user who rewrites the annotations | the history tells the build; exit code 0 means the image is in the file; the file is replaced whole or not at all; the user's own build is left alone; no leftovers; the words of a `run` line arrive as they were meant, through the script and in the chroot |
| `CommandLine_FullDisk` | the last write fails | **violated**: a partial image replaces the user's |
| `CommandLine_Script` | a script like the documentation's, called without `--modify` | **violated**: it fails before its first line |

Each violated property is taken from a sentence of the documentation, a comment or an error
message; `findings` in `PROJECT.json` quotes it and tells the story.

### Bounds

- WorkContext: three overlapping commands are enough for every lock defect seen (a
  remover, a holder, a newcomer), and one inode more than processes lets a name be
  recycled in every way. Four commands in sequence give begin, edit, end and a retry.
- OciStore: three files give eight layers, more than the three an image may have, so
  that all of them can differ; `MaxLayers` bounds `layer`. With failures (two files, two
  layers) the start images are all choices of files, so that no file is special and
  `FileSymmetry` is sound. With `Distinct` a command
  produces no content that the image or an expanded layer already has. That is the
  normal case, and the assumption under which the store is right; `OciStore_SameContent`
  drops it. `NothingMissing` leaves out two outcomes: `"chroot"`, since as root no layer
  of a start image can be expanded at all (the extraction changes root into a directory
  that nobody has made), and `"mount"`, which follows from it in `run`.
- ManifestEdits: three edits add something, clash with it and remove it, from starts
  that already have one of everything; two legal names and an illegal one, two values
  and protocols, three paths, of which one has a blank and the part before it is another,
  a good and an illegal port number and one that is a word, as a foreign config may have
  it. `BadLabels` and `Unfit` are what the validation of labels, annotations and isolators
  refuses. `View` drops which command
  ran last, which no action reads. `Avoid` names usage under which the code does not
  keep the promise (below).
- AppcRun: five images, of which the tree uses a dependency of a dependency and one
  image in two versions, with files in common; three runs let a killed one be found,
  cleaned up and repeated. The acyclic case only. `MostFaults` leaves out `"daemon"`,
  `"hidden"` and `"leave"`, each of which breaks a promise about what a run leaves (below).
  The other properties are proved with them.
- CommandLine: three processes make a build, change it, and change it again with
  what is left; a script's lines count. The user's own annotations have the number 2,
  which is below, between or above those of acbuild. The words have each character that
  one of the parsers treats specially, also first and last; each word is the first
  argument of one command and the last of another. The texts have each way to quote them,
  a line break before each argument, and a line after. `AllButFlush` leaves out
  `"flush"`, the subject of `CommandLine_FullDisk`.

Deadlock is not checked in WorkContext, ManifestEdits, AppcRun and CommandLine: when
every command that the bound allows has run, nothing happens.

### Fairness

One property is about liveness: `RunEnds` (AppcRun), that fetching and rendering a tree
of dependencies comes to an end, under weak fairness of the next step of the running
command. The code justifies it: a command is one thread that waits for nobody (`flock` is
called with `LOCK_NB`), and the command that `run` executes, like every download, is
assumed to end.

## Properties the code does not keep

Beside the violated runs there are these. Each property is stated in its module, and
the second column is the change to a run's constants with which TLC shows the
violation within seconds.

| Property | Where it fails | What happens |
|---|---|---|
| `BeginNeverOverwrites` | WorkContext, two processes, `Kinds = {"begin"}`, `Begun = FALSE`, `Overlap = TRUE` | two begins both find no context; one fills the image over the other's |
| `EndableContext` | the same with `{"begin", "end"}` and the fault `"crash"` | a begin killed before it writes `buildMode` leaves a context that neither begin nor end accepts |
| `CleanBetweenCommands` | `WorkContext_Session`, with `hurt # {}` taken out of it | an edit whose write fails after `save()` has truncated the manifest leaves one that does not load (`lib/appc/manifest.go:78`); a begin that cannot create the lock file leaves the directory it has made, without `buildMode` (`lib/begin.go:74`) |
| `TrackedCommandsKept` | two processes, `Kinds = {"edit"}`, `Begun = TRUE`, `Overlap = TRUE` | an edit writes back the manifest it read before the lock, without the other's edit |
| `CopyCommitsItsFiles` | OciStore with the constants of `OciStore_Faults` | a copy commits what a failed command left in the expanded layer |
| `CompleteAndValid` | OciStore, `Faults = {"flush"}` | the errors of closing the writers of a layer are dropped (`lib/common.go:225-227`): the file that lacks its end gets the digest of the whole layer, and the command succeeds |
| `FailsOnlyOnFault` | AppcRun, `Lists <- PinnedDependency`, `Faults = {}` | `ResolveKey` returns the key cut to half its length, so a dependency of a dependency that has an image ID can never be rendered |
| `OwnFilesKept`, `CleanAfterRun` | AppcRun, `Faults = {"daemon"}` | the unmount fails because the container still has a process; the deferred `RemoveAll` of the mount point then empties the image through it, and `run` exits with 0 (`lib/run.go:131` declares the `err` that the deferred call sets a second time) |
| `OwnFilesKept` | AppcRun, `Faults = {"kill", "hidden"}` | the mount that a killed run has left is looked for as text in `/proc/mounts` (`util/mounts.go:40`): behind a symbolic link, or with a blank in the path, which is `\040` there, it is not found, and the next run's `RmAndMkdir` deletes the image's files through it |
| `NothingElseInImage`, `CleanAfterRun` | AppcRun, `Faults = {"leave"}` | the copy of `resolv.conf` stops half-way and `Engine.Run` returns before its removal is deferred (`engine/chroot/chroot.go:42-46`); or a deferred removal fails, and its error is dropped |
| `NamesInStep`, `ImplementsSettings` | ManifestEdits, `Avoid` without any one of its six | two names for one OCI volume or port: the first removal takes the volume from the other; set-exec with one word keeps the old arguments; a variable without `=` makes the edits of variables fail (these two only `ImplementsSettings`); a path with a blank is read back from its name up to the blank (`lib/oci/mount.go:66`), so that removal by name fails or takes another volume; an annotation of the user's with the key or the value of a name gives a name to what is not there, or takes it away (`lib/oci/annotation.go:30`, 65) |
| `ScriptArgsArrive` | CommandLine, with the empty word in `Words`, or `--flag value` in `MCFlagWords` | an empty argument is dropped; `--` is inserted before the flag's value |
| `ScriptArgsArrive` | CommandLine, with `Styles(call)` always all three | a last word that ends in a backslash, written `\\`: the line is joined with the next one although the backslash is escaped (`acbuild/script.go:163`); one that ends in an escaped blank loses it, since lines are trimmed first (75) |
| `ChrootArgsArrive` | CommandLine, without `Harmless` | an argument with a comma becomes two |

Met while modelling, and visible in the models as they are written:

- A port without a protocol makes OCI's `RemovePort` panic (`lib/oci/port.go:57`); the
  edit ends with exit code 2 in `OciConfig`.
- The marker `rendered` is one per image, but which files of it are extracted depends
  on the tree it was rendered in (`registry/fetch.go:80`).
- Two images that depend on each other are fetched for ever (`registry/fetch.go:179`).
- An image whose dependencies could not be fetched stays in the store, and every later
  run fails when it looks for them (`registry/fetch.go:147`).
- `/etc/machine-id` is made for systemd-nspawn and removed under a wrong path
  (`engine/systemdnspawn/systemdnspawn.go:61`); the zone file stays in the image as
  well (`lib/run.go:368`).
- The temporary context of `--modify` is a new local variable
  (`acbuild/acbuild.go:205`): the build is made in the working directory, and refused
  if the user has one there. Its temporary file is named after `aciToModify`, which is
  another variable than the one with the path (259).

## The proofs

TLAPS checks these for every value of the constants. A module `X_proofs` is about
module `X`; `AppcTree_proofs` continues the one about AppcRun, and `Lists_proofs` has what
is used of natural numbers, lists and folds. The theorems carry the names that
`PROJECT.json` lists; what follows is the argument of each.

### WorkContext

`WorkContext_proofs` has any number of overlapping commands:

- `TypeCorrect`: one step per action.
- `LockFileExclusive` (`OneOwnerPerLockFile`). The property is not inductive. `LockInv`
  adds that whoever holds a flock is a process that still runs and has the inode open,
  that a process past `lock()` holds the lock of the inode it has open, and that a
  process about to call `flock` has one open. Two processes in the critical section
  with the same inode would both be its only holder.
- `StaleLockHarmless` (`StaleLockNeverBlocks`), from the same invariant: the holder that
  a refused process meets is alive.
- `TwoEditsExclude` (`PairsExclude`), for any finite set of edits of which no more than
  two have started (`Few`). `PairInv` says that an edit whose open lock file no longer
  has the name `lock` has a partner that is over, and that nobody else is past the
  start: the gap between `Unlock` and `RemoveLock` harms nobody. `WorkContext_ThreeEdits`
  shows that a third edit is enough to use the gap.

Its second part has any number of commands one after the other, with all faults and
kills, under `OneAtATime`: no command starts while another one runs. `SessionInv` says
that one command is active at most (`Alone`), that nothing is in a directory that is not
there (`Placed`), what the directory looks like at each system call of each kind of
command (`At`), what a command finds and leaves, up to the harm of those that stopped
half-way in this context (`Settled`), and that these do nothing more than leave
(`HurtLast`).

- `SettledBetweenCommands` (`CleanBetweenCommands`) follows from `Settled` directly.
- `ImplementsBuildSession`: WorkContext implements BuildSession. A step of begin, edit
  or end is shown to be the step of the abstract command it counts for, or a stutter. A
  step that stops a command half-way (`Hurts`: a kill, a write or a removal that fails,
  a begin without a lock file) maps to the one that may break a build; BuildSession
  allows that once for each command, so that the rest of the way out changes nothing.

### OciStore

`OciStore_proofs` has all failures and kills:

- `TypeCorrect`, with `Progress`, which is what a step knows about the steps before it in
  the same command (the directory it works in exists, the digest is set, the image is
  loaded).
- `DiffIDsAlwaysMatch`: `DiffInv` adds that the image in memory has equal lists, and that
  between writing config and manifest the manifest names that config.
- `ImplementsLayerStack`: OciStore implements LayerStack, with no hypothesis. The
  abstract stack changes when `save` has removed the old refs, or the image is lost;
  `StackInv` says what the image in memory has to do with the stack up to then: the
  same layers up to `UpdateTopLayer`, one put on or the top one changed after it.
- `LoadableImagesAreComplete`: an image that loads has a blob for each of its layers,
  after any failure, and if no error of closing one was dropped (`"flush"`), all of these
  are whole (`NoneCut`; TLC refutes `CompleteAndValid` with that fault, see above). It holds if a
  command makes no layer that the image has (`Distinct`) and the start image has
  no layer twice (`StartsDistinct`). `WholeInv` is the property with the image in memory
  included; `FreshInv` says that the layers of the image differ and that the new one is
  none of them, so that the blob pruned is not a live one. `OciStore_SameContent` shows
  that the hypothesis is needed.

The second part adds `Faults = {}` and proves the six properties of
`OciStore_Clean` that are not proved already: `ImageComplete`,
`NoOrphans`, `CacheFaithful`, `CacheIsSuffix`, `NothingMissing` and
`CopyCommitsItsFiles`. They are proved by one invariant, `CleanInv`, since each needs
the others: a layer is expanded right if the directories below are right and
contiguous, the blob it comes from is there if the command before left no gap, and
the blob to prune is the one that was replaced. `StoredInv` is the exact set of blobs,
configs and manifests at each step, `CachedInv` what the expanded layers are while a
command has one of them in hand. TLC checked both on `OciStore_Clean` first.

### ManifestEdits

`ManifestEdits_proofs`, for any names, values, files and starts:

- `TypeCorrect` and `NamesStayUnique` by one invariant. Every AppC command is brought down
  to one of three shapes: it is refused, it saves a manifest whose app has the same
  mounts and ports, or it replaces entries by name and path. `Fine` is what a manifest
  that loads and a manifest about to be saved have in common.
- `NamesStayInStep`, if nobody gives one path or one port two names, names a path with a
  blank, or writes to the annotations that hold names (`Naming`). A removal by value
  takes whichever annotation the map yields first: there is but one, since the user's
  texts are no paths. Every edit of an OCI image is brought down to one that leaves the
  names alone, adds one with its volume or port, or takes both away (`NamingShape`).

`ImplementsImageSettings`: ManifestEdits implements ImageSettings. For each command and
each mode there is a lemma that it refuses (`Refused`: settings unchanged, exit code not
0) or changes one setting (`Changed`). For AppC that is immediate from `Fine`, but for
mounts, ports and dependencies, where what is replaced has to be what ImageSettings says
clashes. For OCI a setting is spread over config and annotations: the lemmas about
`OciMounts` and `OciPorts` say what adding or removing an annotation and a volume does
to the names read back from them, and need `NamesInStep` for it. The hypotheses are
`Plain` (none of the six uses of `AllAvoid`, each of which is a counterexample of TLC;
a path is no name; `None` is no app; a command line has a word) and `PlainFiles` (a file
for replace-manifest has variables, a user, a command, but no annotations, which an OCI
config cannot have). The constants of the run `ManifestEdits` satisfy them.

### AppcRun

`AppcRun_proofs`, for any images, lists of dependencies and commands:

- `TypeCorrect`: `TypeInv` adds to `TypeOK` the stack of calls of `fetchACIWithSize` (only
  the one on top may not know its image yet) and that a directory has no file but
  those of its image. What `createDepList` returns is left open: the code asks again
  whether it is a list of images in the store, and so does `IsWhole`.
- `RunAddsNothing` (`NothingElseInImage`) with all faults and kills but `"leave"`, from
  `GuestInv`: only while a command runs, or after a kill there, has the image the engine's
  `resolv.conf`.
- `RunCleansUp` (`CleanAfterRun`) if no command leaves a process in its container
  (`"daemon"`) and the deferred removals do not fail (`"leave"`), and `RunKeepsOwnFiles`
  (`OwnFilesKept`) if none does and a mount left behind is found (`"hidden"`). `MountInv`
  says at which places of `lib.Run` something can be mounted, also after a killed run:
  never when a directory is removed. With each of these faults TLC refutes the property
  (see above).

`AppcTree_proofs` is about the trees of dependencies, of any depth. `createDepList`,
`genDeplist` and the order of the documentation (`Above`) are three walks over a tree:
what follows from a key is expanded and put behind it, or before it. `TheWalk` says that
there is exactly one function that does so if the images do not depend on themselves.
The prover has no induction here, but a set of counterexamples that is not empty has a
member with nothing of it below (`Acyclic`), which does as well: `WalkUnique` and
`WalkExists` argue so, and so does everything after them. `DepListIsAbove` and
`GenDeplistIsAbove` then say that `createDepList` returns an error or the order of the
documentation, and `genDeplist` an error or the same images.

- `RunSeesDependencies` (`ContainerSeesDependencies`), with all faults and kills. The
  invariant is `RenderInv`: a directory has no file but its image's share of the tree,
  which is what no image before it has (`Share`); one with the marker `rendered` has all
  of its share (`ShareInv`); what is left of the queue is a suffix of `createDepList`'s list
  whose images have the files no longer wanted (`ProgressInv`), and the lower directories
  are the images of the tree (`LowerInv`). Shares do not overlap, so that the order of
  the lower directories, which is another than that of the documentation, does not
  matter (`SeesPromised`). This needs one tree: with `Single` there is at most one
  dependency in the manifest of the image, with any tree below it. `AppcRun_LayerOrder`
  shows that two that share a file are seen in the wrong order.
- `RunFailsOnlyOnFault` (`FailsOnlyOnFault`), with any number of dependencies. As long as
  nothing outside has failed (`ErrorInv`): a call of `fetchACIWithSize` looks for the
  dependency its caller has come to, and finds the image that is meant (`Sound`); the
  store is closed under dependencies, but for those that a call has yet to come to
  (`ClosedInv`); and the only manifest missing is the one being written (`MadeInv`).
  From that, when a fetch has returned, both lists are lists of images (`WholeFound`).
  `Unpinned` leaves out image IDs below the first level, for which the property is false
  (see above).

Both assume that each dependency has exactly one image (`Resolvable`), and that none
depends on itself (`Acyclic`: otherwise the fetch does not end, and TLC's evaluation of
the lists would not either). MCAppcRun assumes all four hypotheses of the images and
lists that TLC checks, so that they are known to hold there.

### CommandLine

`CommandLine_proofs` proves all the properties of `CommandLine`, for any number of
processes, any scripts and any faults. One invariant, `IInv`, has those about builds and
files; TLC checked it before the proof. Its parts:

- `Typed`, `Control`, `HasBuild`: types, and what a place in `runWrapper` says about the
  command and the build. They give `TypeCorrect`.
- `UserInv`: a process that has found a build of the user's does not get past `begin`
  with `--modify`. `UserBuildIsSafe` follows.
- `LeftInv`: which temporary file and directory is there at which place.
  `ProcessCleansUp` follows.
- `FileInv`: what the `.tmp` file has in common with the build and with the file it is
  to replace. `ModifyReplacesWhole` follows, if `"flush"` is not among the faults.
- `HistoryInv`: the history is right in every image there is, in the build and in the
  three files. A new number is above all others because `HasHighest` says that any
  non-empty set of annotations has a highest number: an induction over finite sets is
  thereby carried by the invariant, and `NumbersAssumption` says it of those a user may
  write. The annotations of the user's stand for no command (`Own` leaves them out); a
  command on annotations may take away the notes of those before it (`Forgets`). Before
  a process annotates, its number is in no annotation (`Fresh`), and before it has
  written a file, in no file (`Unseen`): a later process cannot have been noted
  already. `BookInv` and `Counts` say which running command will go on to report success. `HistoryIsRight` follows.
- `SuccessInv`, on top of the others, follows the outcome of a command that will exit
  with 0 from the edit to the rename. `SuccessIsTrue` follows, again without `"flush"`.
  `CommandLine_FullDisk` shows that the hypothesis is needed.

The two properties about words rest on `ScriptLine_proofs` and on `LineInv`, which says
that the line being run is the first line of a text written for `asked`. They hold for
any set of characters with those that mean something, any commands of words that are
not empty, and any flags without a value of their own.

- `ScriptArgsAreRight` (`ScriptArgsArrive`), by lemma `TextsArrive`. `Folds(op, base, seq,
  value)` says that reading `seq` from `base` ends in `value`; it is unique, composes over
  concatenation (`FoldsThen`, `FoldsFlatten`), and is what `FoldLeft` computes (`IterFolds`;
  the fold of the community modules goes over sets of indices, so this takes `FoldExists`,
  one of the inductions over a set of counterexamples). `In(tokens, buf, quote)` is where
  `tokenizeLine` is: each way to write a word takes it from behind the words before to the
  end of this one (`Reads`). `joinLines` gives one line for one or two lines of text, and
  `TrimSpace` takes nothing from it, because a text neither begins nor ends with a blank;
  that, and the end in a backslash, are what `Styles` is for. `insertRunTacks` finds the
  command behind the flags and puts `--` there or finds one (`Inserted`), and what the
  command line library then takes for arguments is the command (`PositionalIs`).
- `ChrootArgsAreRight` (`ChrootArgsArrive`), by lemma `ChrootArgsAre`: after k arguments the
  value of the flag is a record of k fields, of which the last is still being read
  (`ReadArgs`).

### What they rest on

The named assumptions of the modules, which TLC evaluates in every run: `None` is no
process, inode, image, name or value (`NoneAssumption`, `NamesAssumption`,
`IdAssumption`); a text has the characters that mean something, a command begins with a
word that is not taken for a flag, and flags are written as they are (`CharAssumption`,
`CallsAssumption`, `FlagsAssumption`); the directory name `new-layer` is no digest; the
parameters are subsets of what the model knows; a build begins with an image that is
well formed (`StartsAssumption`: begin has just loaded it), and a file for
replace-manifest unmarshals (`FilesAssumption`). Beside them each theorem has the
hypotheses in its statement, and nothing else.

### Only model-checked

- `RunEnds`: liveness under fairness is out of this prover's reach.
- What the violated runs show, and `BeginNeverOverwrites`, `EndableContext` and
  `TrackedCommandsKept`, which the code does not keep.

## Not modelled

- `util/fsdiffer`: only the repository's tests use it.
- Man pages and `version`, which only print; tests, examples and vendored code. What the
  program uses of vendored packages (the dependency list, rendering, flag parsing) is
  part of the definitions that use it.
- How begin produces a start image: discovery, download, docker2aci, and the formats of
  tar, gzip and ACI. A step of begin has the outcomes these may have.
- The environment that the engines pass to a command and their search for its file.
- An AppC `copy`: it copies into `rootfs` and keeps no state of its own.
- The overlap of whole processes with history and `--modify`: WorkContext overlaps the
  single commands, CommandLine runs the processes in sequence.

## The plan

The three abstract specifications are implemented, by proof, and every safety property
of a passing run is a theorem. Left: two CommandLine processes that overlap, which both
count the annotations before either adds one (`acbuild/acbuild.go:327`).
