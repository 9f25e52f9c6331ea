-------------------------------- MODULE Registry -------------------------------
(*****************************************************************************)
(* The store of dependencies of an AppC build (package registry): tar files  *)
(* and expanded directories, both named by the digest of the image.          *)
(* FetchAndRender finds an image by name and label, or downloads it with all *)
(* its dependencies, and extracts every image of the tree into its           *)
(* directory.  Each file that is written is a step: a failure, or a kill     *)
(* that the module using this one adds, may come between any two.            *)
(*****************************************************************************)
EXTENDS Naturals, Sequences, SequencesExt

CONSTANTS
    Id,         \* digests of images, numbered in the order ReadDir lists them
    Man,        \* the images: Man[k] has name, version, deps and files
    None,       \* no version label, no image ID, no image
    Broken,     \* the outcome of a lookup that ends in an error
    Truncated,  \* a key cut to half its length, which is the name of no image
    Faults      \* what may go wrong, a subset of AllFaults

\* "net"       discovery, download, size check or decompression fails
\* "misnamed"  the server's image is not the one asked for: its name or version is another
\* "io"        a file or directory cannot be read, made or written
\* "kill"      the process is killed
\* "busy"      a mount left behind cannot be unmounted
\* "overlay"   no overlayfs, or the mount fails
\* "cmd"       the command, or the engine that starts it, fails
\* "daemon"    the command leaves a process in the container, and the mount busy
\* "hidden"    a mount left behind is not found in /proc/mounts: the path of its
\*             directory leads through a link, or has a blank
\* "leave"     what a run has made is left: the copy of resolv.conf stops half-way, or
\*             a deferred removal fails
AllFaults == {"net", "misnamed", "io", "kill", "busy", "overlay", "cmd", "daemon", "hidden", "leave"}

ASSUME FaultsAssumption == Faults \subseteq AllFaults
ASSUME IdAssumption == Id \subseteq Nat /\ {None, Broken, Truncated} \cap Id = {} /\ None # Broken

VARIABLES
    pc,        \* where the process is
    failed,    \* err # nil
    hurt,      \* something has gone wrong since the build began
    tar,       \* depstore-tar: the images whose tar file is there
    dir,       \* depstore-expanded: no directory, one without a manifest, or whole
    tree,      \* ... and the files in the rootfs of each
    rendered,  \* ... and which of them have the marker "rendered"
    want,      \* the dependency that FetchAndRender was called with
    stack,     \* the calls of fetchACIWithSize: [dep, id, next]
    queue      \* what is left of filesToRender: [key, left]

store == <<tar, dir, tree, rendered>>
regVars == <<pc, failed, hurt, store, want, stack, queue>>

Goto(l) == pc' = l /\ UNCHANGED <<failed, hurt>>
\* An error is returned up to the caller of FetchAndRender; an environment that
\* caused it is remembered.
Return(error) == pc' = "returned" /\ failed' = error
FailFor(fault) == fault \in Faults /\ Return(TRUE) /\ hurt' = TRUE

-----------------------------------------------------------------------------
(* Lookups.                                                                   *)

\* A label counts only if the image has it.
Matches(k, d) == /\ Man[k].name = d.name
                 /\ d.version \in {None, Man[k].version} \/ Man[k].version = None

\* GetACI: the first directory that matches, unless the manifest of one before it
\* cannot be read.
Hits(d) == {k \in Id : dir[k] = "made" \/ (dir[k] = "whole" /\ Matches(k, d))}
GetACI(d) == IF Hits(d) = {} THEN None
             ELSE LET k == CHOOSE k \in Hits(d) : \A l \in Hits(d) : k <= l
                  IN  IF dir[k] = "made" THEN Broken ELSE k

\* ResolveKey returns the key it has searched with, cut to lenKey.
ResolveKey(i) == IF i \in tar THEN Truncated ELSE None

DepKey(d) == IF d.id # None THEN ResolveKey(d.id) ELSE GetACI(d)

\* createDepList: the image, then its dependencies, the last one first.  A key
\* without a manifest ends it with an error, here a member that is no image.
Key == Id \cup {None, Broken, Truncated}
DepList ==
    LET Flat[k \in Key] ==
            IF k \notin Id THEN <<k>>
            ELSE LET deps == Reverse(Man[k].deps)
                 IN  <<k>> \o FlattenSeq([i \in DOMAIN deps |-> Flat[DepKey(deps[i])]])
    IN  Flat

\* genDeplist: the dependencies in their order, then the image, each looked up
\* by the name and version of its own manifest.
Self(k) == GetACI([name |-> Man[k].name, version |-> Man[k].version])
GenDeplist ==
    LET Gen[k \in Key] ==
            IF k \notin Id THEN <<k>>
            ELSE LET deps == Man[k].deps
                 IN  Append(FlattenSeq([i \in DOMAIN deps |-> Gen[GetACI(deps[i])]]), Self(k))
    IN  Gen

IsWhole(images) == images \in Seq(Id)

-----------------------------------------------------------------------------
(* Fetch and fetchACIWithSize.                                                *)

Frame(d) == [dep |-> d, id |-> None, next |-> 1]
Top == Head(stack)

Fetch ==
    /\ pc = "fetch"
    /\ CASE GetACI(want) = Broken -> Return(TRUE) /\ UNCHANGED <<hurt, stack>>
         [] GetACI(want) = None   -> Goto("download") /\ stack' = <<Frame(want)>>
         [] OTHER                 -> Goto("list") /\ UNCHANGED stack
    /\ UNCHANGED <<store, want, queue>>

\* Discovery, and the download into tmp.aci, whatever an earlier run left there.
Download ==
    /\ pc = "download"
    /\ \E k \in Id :
          /\ Matches(k, Top.dep) \/ "misnamed" \in Faults
          /\ hurt' = (hurt \/ ~Matches(k, Top.dep))
          /\ stack' = <<[Top EXCEPT !.id = k]>> \o Tail(stack)
    /\ pc' = "uncompress"
    /\ UNCHANGED <<failed, store, want, queue>>

DownloadFails ==
    /\ pc = "download"
    /\ FailFor("net")
    /\ UNCHANGED <<store, want, stack, queue>>

\* ... into tmp.uncompressed.aci, which is renamed to its digest in depstore-tar.
Uncompress ==
    /\ pc = "uncompress"
    /\ \/ tar' = tar \cup {Top.id} /\ Goto("mkdir")
       \/ FailFor("net") /\ UNCHANGED tar
    /\ UNCHANGED <<dir, tree, rendered, want, stack, queue>>

\* The directory, and the manifest in it, opened with O_TRUNC.
MakeDir ==
    /\ pc = "mkdir"
    /\ dir' = [dir EXCEPT ![Top.id] = "made"]
    /\ Goto("manifest")
    /\ UNCHANGED <<tar, tree, rendered, want, stack, queue>>

\* A variant with a bug: its name is compared with that of the first image.
BugWriteManifest ==
    /\ pc = "manifest"
    /\ dir' = [dir EXCEPT ![Top.id] = "whole"]
    /\ IF Man[Top.id].name = want.name THEN Goto("deps") ELSE Return(TRUE) /\ UNCHANGED hurt
    /\ UNCHANGED <<tar, tree, rendered, want, stack, queue>>

\* The manifest is written, read back and its name compared.
WriteManifest ==
    /\ pc = "manifest"
    /\ dir' = [dir EXCEPT ![Top.id] = "whole"]
    /\ IF Man[Top.id].name = Top.dep.name THEN Goto("deps") ELSE Return(TRUE) /\ UNCHANGED hurt
    /\ UNCHANGED <<tar, tree, rendered, want, stack, queue>>

\* The next dependency, whether it is in the store or not.
FetchDep ==
    /\ pc = "deps"
    /\ Top.next <= Len(Man[Top.id].deps)
    /\ stack' = <<Frame(Man[Top.id].deps[Top.next])>> \o stack
    /\ Goto("download")
    /\ UNCHANGED <<store, want, queue>>

\* A variant with a bug: the caller fetches the same dependency again.
BugFetched ==
    /\ pc = "deps"
    /\ Top.next > Len(Man[Top.id].deps)
    /\ stack' = Tail(stack)
    /\ Goto(IF stack' = <<>> THEN "list" ELSE "deps")
    /\ UNCHANGED <<store, want, queue>>

\* fetchACIWithSize returns; for a dependency with an image ID its caller looks
\* what the store now has under that name.
Fetched ==
    /\ pc = "deps"
    /\ Top.next > Len(Man[Top.id].deps)
    /\ LET rest == Tail(stack)
           pinned == Top.dep.id
       IN  IF rest = <<>>
           THEN stack' = <<>> /\ Goto("list")
           ELSE /\ stack' = <<[Head(rest) EXCEPT !.next = @ + 1]>> \o Tail(rest)
                /\ IF pinned = None \/ GetACI(Top.dep) = pinned
                   THEN UNCHANGED <<pc, failed, hurt>>
                   ELSE Return(TRUE) /\ hurt' = (hurt \/ Top.id # pinned)
    /\ UNCHANGED <<store, want, queue>>

-----------------------------------------------------------------------------
(* Rendering.                                                                 *)

\* GetRenderedACI: of the files of each image those that no image before it in
\* the list has, and the manifest of the first.
Wanted(images, i) ==
    (Man[images[i]].files \ UNION {Man[images[j]].files : j \in 1..(i - 1)})
        \cup (IF i = 1 THEN {"manifest"} ELSE {})

List ==
    /\ pc = "list"
    /\ \E images \in {DepList[GetACI(want)]} :
          IF IsWhole(images)
          THEN /\ queue' = [i \in DOMAIN images |-> [key |-> images[i], left |-> Wanted(images, i)]]
               /\ Goto("render")
          ELSE Return(TRUE) /\ UNCHANGED <<hurt, queue>>
    /\ UNCHANGED <<store, want, stack>>

Next1 == Head(queue)

\* The marker says that the image needs no extraction; its directory is the same
\* whatever image it is a dependency of.
Skip ==
    /\ pc = "render" /\ queue # <<>>
    /\ Next1.key \in rendered
    /\ queue' = Tail(queue)
    /\ UNCHANGED <<pc, failed, hurt, store, want, stack>>

\* ExtractImage, a file at a time; a file that is there is replaced.
ExtractFile ==
    /\ pc = "render" /\ queue # <<>>
    /\ Next1.key \notin rendered
    /\ \E f \in Next1.left \ {"manifest"} :
          /\ tree' = [tree EXCEPT ![Next1.key] = @ \cup {f}]
          /\ queue' = <<[Next1 EXCEPT !.left = @ \ {f}]>> \o Tail(queue)
    /\ UNCHANGED <<pc, failed, hurt, tar, dir, rendered, want, stack>>

\* So is the manifest of the first image, which is removed before it is written.
RemoveManifest ==
    /\ pc = "render" /\ queue # <<>>
    /\ Next1.key \notin rendered /\ "manifest" \in Next1.left
    /\ dir' = [dir EXCEPT ![Next1.key] = "made"]
    /\ Goto("remanifest")
    /\ UNCHANGED <<tar, tree, rendered, want, stack, queue>>

ExtractManifest ==
    /\ pc = "remanifest"
    /\ dir' = [dir EXCEPT ![Next1.key] = "whole"]
    /\ queue' = <<[Next1 EXCEPT !.left = @ \ {"manifest"}]>> \o Tail(queue)
    /\ Goto("render")
    /\ UNCHANGED <<tar, tree, rendered, want, stack>>

\* A variant with a bug: the marker is made first.
BugMark ==
    /\ pc = "render" /\ queue # <<>>
    /\ Next1.key \notin rendered
    /\ rendered' = rendered \cup {Next1.key}
    /\ UNCHANGED <<pc, failed, hurt, tar, dir, tree, want, stack, queue>>

Mark ==
    /\ pc = "render" /\ queue # <<>>
    /\ Next1.key \notin rendered /\ Next1.left = {}
    /\ rendered' = rendered \cup {Next1.key}
    /\ UNCHANGED <<pc, failed, hurt, tar, dir, tree, want, stack, queue>>

Rendered ==
    /\ pc = "render" /\ queue = <<>>
    /\ Return(FALSE)
    /\ UNCHANGED <<hurt, store, want, stack, queue>>

\* Any of the steps that write to the store fails.
WriteFails ==
    /\ pc \in {"uncompress", "mkdir", "manifest", "render", "remanifest"}
    /\ FailFor("io")
    /\ UNCHANGED <<store, want, stack, queue>>

FetchStep ==
    Fetch \/ Download \/ DownloadFails \/ Uncompress \/ MakeDir \/ WriteManifest \/ FetchDep \/ Fetched
RenderStep == List \/ Skip \/ ExtractFile \/ RemoveManifest \/ ExtractManifest \/ Mark \/ Rendered
RegistryStep == FetchStep \/ RenderStep \/ WriteFails

-----------------------------------------------------------------------------
RegistryInit ==
    /\ pc = "idle" /\ failed = FALSE /\ hurt = FALSE
    /\ tar = {} /\ dir = [k \in Id |-> "none"] /\ tree = [k \in Id |-> {}] /\ rendered = {}
    /\ want = None /\ stack = <<>> /\ queue = <<>>
================================================================================
