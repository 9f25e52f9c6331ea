------------------------------ MODULE ManifestEdits ----------------------------
(*****************************************************************************)
(* The commands that edit the manifest of the image being built: the command *)
(* line's handlers (acbuild/*.go) and the dispatch on the build mode         *)
(* (lib/manifest.go).  The mode is the one begin has stored in buildMode;    *)
(* AppcManifest and OciConfig are the edits of either mode.  Commands run    *)
(* one after the other here, each from a manifest that loads; WorkContext is *)
(* about their overlap, OciStore about writing the result.                   *)
(*****************************************************************************)
EXTENDS Sequences, Naturals

CONSTANTS
    Name,        \* names of mounts, ports, variables, annotations, images, ...
    Value,       \* values of variables, users, groups, directories, ...
    Path,        \* where mounts may be
    Number,      \* port numbers
    Protocol,    \* "tcp", "udp"
    Line,        \* command lines, sequences of words
    Files,       \* manifests for replace-manifest, as partial settings
    Starts,      \* <<mode, manifest or image>>: what a build may begin with
    Avoid,       \* usage nobody tries, a subset of AllAvoid
    MaxEdits,    \* bound on the number of commands
    None, Empty, Version, Illegal, Known, Exclusive, Relative, OutOfRange, BadLabels, Unfit,
    Colons, Cut, Services

\* "shared path"  two names for one path (OCI keeps both, AppC replaces the first)
\* "shared port"  two names for one port and protocol, likewise
\* "one word"     set-exec with a command without arguments over one that has some
\* "malformed"    a variable without "=" in an OCI config
\* "blank"        a name for a path with a blank, which remove cuts there
\* "reserved"     annotations with the keys or values that name mounts and ports
AllAvoid == {"shared path", "shared port", "one word", "malformed", "blank", "reserved"}

ASSUME AvoidAssumption == Avoid \subseteq AllAvoid
ASSUME NamesAssumption == None \notin Name \cup Path \cup Number \cup Protocol \cup Value
ASSUME BoundAssumption == MaxEdits \in Nat

VARIABLES
    mode,    \* buildMode: "appc" or "oci"
    man,     \* the AppC manifest
    image,   \* the OCI config and manifest
    last,    \* the command that ran last
    exit,    \* its exit code
    edits    \* how many ran (bounded by MaxEdits)

vars == <<mode, man, image, last, exit, edits>>

A == INSTANCE AppcManifest
O == INSTANCE OciConfig

-----------------------------------------------------------------------------
(* What a manifest and an image look like.                                    *)

MountSet == SUBSET [name : Name, path : Path, ro : BOOLEAN]
PortSet == SUBSET [name : Name, number : Number, protocol : Protocol, opts : SUBSET {"range", "sock"}]

AppType(app) ==
    /\ DOMAIN app = DOMAIN A!AppOf(Empty)
    /\ A!ValidApp(app)
    /\ app.mounts \in MountSet
    /\ app.ports \in PortSet

ManifestType(m) ==
    /\ DOMAIN m = {"name", "labels", "annotations", "deps", "app"}
    /\ m.name \in Name \ Illegal
    /\ DOMAIN m.labels \subseteq (Name \cup {Version}) \ Illegal
    /\ A!ValidTexts(m)
    /\ m.app # None => AppType(m.app)

\* The annotations of an OCI image: some keys name its mounts and ports, and have
\* paths and ports for values.
PortValues == {"port"} \X (Number \ Services) \X Protocol
AnnotationKeys == {"mount", "port", "text"} \X Name
AnnotationValues == ({"path"} \X Path) \cup PortValues \cup ({"text"} \X Value)

Paired(k, a) ==
    \/ k \in {"mount"} \X Name /\ a \in {"path"} \X Path
    \/ k \in {"port"} \X Name  /\ a \in PortValues
    \/ k \in {"text"} \X Name  /\ a \in {"text"} \X Value

ImageType(i) ==
    /\ DOMAIN i = {"env", "volumes", "ports", "entry", "cmd", "user", "dir", "ref", "annotations"}
    /\ i.volumes \subseteq Path
    /\ i.ports \subseteq (Number \X Protocol) \cup {<<n>> : n \in Number}
    /\ i.user \in Seq(Value \cup {Empty}) /\ Len(i.user) \in 1..2
    /\ \A k \in DOMAIN i.annotations : k \in AnnotationKeys /\ i.annotations[k] \in AnnotationValues

\* A name, and a path, belongs to one mount point, and a name to one port.
UniqueNames(app) ==
    /\ \A m, n \in app.mounts : m.name = n.name \/ m.path = n.path => m = n
    /\ \A p, q \in app.ports : p.name = q.name => p = q

\* Every name of a mount or port stands for a volume or port that the config has and
\* that is read back from it as it is, and no two names for the same.
InStep(i) ==
    \A k \in DOMAIN i.annotations :
       /\ Paired(k, i.annotations[k])
       /\ k[1] = "mount" => /\ i.annotations[k][2] \in i.volumes
                            /\ O!PathIn(i.annotations[k]) = i.annotations[k][2]
       /\ k[1] = "port" => O!PortIn(i.annotations[k]) \in i.ports
       /\ k[1] # "text" => \A l \in DOMAIN i.annotations :
                              i.annotations[l] = i.annotations[k] => l = k

\* begin has loaded or made what it starts from, so it is well formed.
ASSUME StartsAssumption ==
    \A s \in Starts :
       \/ s[1] = "appc" /\ ManifestType(s[2]) /\ (s[2].app # None => UniqueNames(s[2].app))
       \/ s[1] = "oci" /\ ImageType(s[2]) /\ InStep(s[2])

\* So is a file that unmarshals.  One that lists mount points or ports, which
\* would be taken as they are, is not modelled.
ASSUME FilesAssumption ==
    \A f \in Files :
       /\ "volumes" \in DOMAIN f /\ f.volumes \subseteq Path
       /\ "name" \in DOMAIN f => f.name \in Name \ Illegal
       /\ "labels" \in DOMAIN f => DOMAIN f.labels \subseteq (Name \cup {Version}) \ Illegal
       /\ {"mounts", "ports"} \cap DOMAIN f = {}
       /\ "user" \in DOMAIN f => f.user \in Value /\ "group" \in DOMAIN f /\ f.group \in Value \cup {Empty}

Init ==
    /\ \E s \in Starts : /\ mode = s[1]
                         /\ man = IF s[1] = "appc" THEN s[2] ELSE None
                         /\ image = IF s[1] = "oci" THEN s[2] ELSE None
    /\ last = [op |-> "begin"]
    /\ exit = 0
    /\ edits = 0

-----------------------------------------------------------------------------
\* a.man is a *appc.Manifest or an *oci.Image.
InMode(appc, oci) ==
    \/ mode = "appc" /\ appc /\ UNCHANGED image
    \/ mode = "oci"  /\ oci  /\ UNCHANGED man

\* The type switch of the commands that OCI images do not have.
AppcOnly(appc) == InMode(appc, O!Fail)

\* A handler: run the command c, exit with what getErrorCode says.
Run(c, Edit) ==
    /\ edits < MaxEdits
    /\ edits' = edits + 1
    /\ last' = c
    /\ Edit
    /\ UNCHANGED mode

Set(x, v) == [op |-> "set", field |-> x, value |-> v]
PutIn(x, n, v) == [op |-> "put", field |-> x, name |-> n, value |-> v]
Take(x, n) == [op |-> "take", field |-> x, name |-> n]

Shared(kind, key) == \E k \in DOMAIN image.annotations :
                        k[1] = kind /\ Tail(image.annotations[k]) = key
Usually(usage, cond) == mode = "oci" /\ usage \in Avoid => cond

-----------------------------------------------------------------------------
UserKeys == IF "reserved" \in Avoid THEN {"text"} \X Name ELSE AnnotationKeys
UserValues == IF "reserved" \in Avoid THEN {"text"} \X Value ELSE AnnotationValues

RunAddAnno == \E k \in UserKeys, v \in UserValues :
    Run(PutIn("annotations", k[2], v[2]), InMode(A!AddAnnotation(k[2], v[2]), O!AddAnnotation(k, v)))
RunRmAnno == \E k \in UserKeys :
    Run(Take("annotations", k[2]), InMode(A!RemoveAnnotation(k[2]), O!RemoveAnnotation(k)))

RunAddLabel == \E n \in Name \cup {Version}, v \in Value :
    Run(PutIn("labels", n, v), InMode(A!AddLabel(n, v), O!AddLabel(n, v)))
RunRmLabel == \E n \in Name \cup {Version} :
    Run(Take("labels", n), InMode(A!RemoveLabel(n), O!RemoveLabel(n)))

RunAddEnv == \E n \in Name, v \in Value :
    /\ Usually("malformed", ~O!Malformed)
    /\ Run(PutIn("env", n, v), InMode(A!AddEnv(n, v), O!AddEnv(n, v)))
RunRemoveEnv == \E n \in Name :
    Run(Take("env", n), InMode(A!RemoveEnv(n), O!RemoveEnv(n)))

RunAddMount == \E n \in Name, p \in Path, ro \in BOOLEAN :
    /\ Usually("shared path", ~Shared("mount", <<p>>))
    /\ Usually("blank", p \notin DOMAIN Cut)
    /\ Run([op |-> "add mount", new |-> [name |-> n, path |-> p, ro |-> ro]],
           InMode(A!AddMount(n, p, ro), O!AddMount(n, p, ro)))
RunRmMount == \E x \in Name \cup Path :
    Run([op |-> "remove mount", arg |-> x], InMode(A!RemoveMount(x), O!RemoveMount(x)))

RunAddPort == \E n \in Name, proto \in Protocol, num \in Number \ Services,
                 opts \in SUBSET {"range", "sock"} :
    /\ Usually("shared port", ~Shared("port", <<num, proto>>))
    /\ Run([op |-> "add port",
            new |-> [name |-> n, number |-> num, protocol |-> proto, opts |-> opts]],
           InMode(A!AddPort(n, proto, num, opts), O!AddPort(n, proto, num, opts)))
RunRmPort == \E x \in {<<y>> : y \in Name \cup Number} \cup (Number \X Protocol) :
    Run([op |-> "remove port", arg |-> x], InMode(A!RemovePort(x), O!RemovePort(x)))

-----------------------------------------------------------------------------
\* The handler parses the name and the labels before it opens the build.
RunAddDep == \E n \in Name, v \in Value \cup {None} :
    LET d == [name |-> n, version |-> v]
    IN  Run([op |-> "add dep", new |-> d], AppcOnly(A!IfLegal(n, A!AddDependency(d))))
RunRmDep == \E n \in Name :
    Run([op |-> "remove dep", name |-> n], AppcOnly(A!RemoveDependency(n)))

RunAddIso == \E n \in Name, v \in Value :
    Run(PutIn("isolators", n, v), AppcOnly(A!AddIsolator(n, v)))
RunRemoveIso == \E n \in Name :
    Run(Take("isolators", n), AppcOnly(A!RemoveIsolator(n)))

RunSetHandler == \E h \in {"pre-start", "post-stop"}, cmd \in Line :
    Run(PutIn("handlers", h, cmd), AppcOnly(A!SetHandler(h, cmd)))

RunSetName == \E n \in Name \cup {Empty} :
    Run(Set("name", n), AppcOnly(A!SetName(n)))
RunSetSuppGroups == \E gs \in SUBSET Value :
    Run(Set("supp", gs), AppcOnly(A!SetSuppGroups(gs)))

RunSetExec == \E cmd \in Line :
    /\ Usually("one word", Len(cmd) > 1 \/ image.cmd = <<>>)
    /\ Run(Set("exec", cmd), InMode(A!SetExec(cmd), O!SetExec(cmd)))
RunSetUser == \E u \in Value \cup {Empty} :
    Run(Set("user", u), InMode(A!SetUser(u), O!SetUser(u)))
RunSetGroup == \E g \in Value \cup {Empty} :
    Run(Set("group", g), InMode(A!SetGroup(g), O!SetGroup(g)))
RunSetWorkingDir == \E dir \in Value \cup {Empty} :
    Run(Set("dir", dir), InMode(A!SetWorkingDir(dir), O!SetWorkingDir(dir)))
RunSetTag == \E v \in Value :
    Run([op |-> "tag", value |-> v, version |-> Version], InMode(A!SetTag(v), O!SetTag(v)))

\* The file's settings as an OCI config writes them.
OciFile(f) ==
    LET all == [env |-> IF "env" \in DOMAIN f THEN {<<n, f.env[n]>> : n \in DOMAIN f.env} ELSE {},
                entry |-> IF "exec" \in DOMAIN f THEN SubSeq(f.exec, 1, 1) ELSE <<>>,
                cmd |-> IF "exec" \in DOMAIN f THEN Tail(f.exec) ELSE <<>>,
                user |-> IF "user" \in DOMAIN f THEN <<f.user, f.group>> ELSE <<>>,
                dir |-> IF "dir" \in DOMAIN f THEN f.dir ELSE Empty,
                volumes |-> f.volumes]
        given == {x \in DOMAIN all : \/ x \in DOMAIN f
                                     \/ x \in {"entry", "cmd"} /\ "exec" \in DOMAIN f}
    IN  [x \in given |-> all[x]]

RunReplaceMan == \E f \in Files :
    /\ mode = "appc" => f.volumes = {}
    /\ Run([op |-> "replace", file |-> f], InMode(A!Replace(f), O!Replace(OciFile(f))))

\* The file is not there, is a directory, or is no JSON.
RunReplaceNoMan ==
    Run([op |-> "replace", file |-> None], InMode(A!Fail(1), O!Fail))

Next ==
    \/ RunAddAnno \/ RunRmAnno \/ RunAddLabel \/ RunRmLabel \/ RunAddEnv \/ RunRemoveEnv
    \/ RunAddMount \/ RunRmMount \/ RunAddPort \/ RunRmPort
    \/ RunAddDep \/ RunRmDep \/ RunAddIso \/ RunRemoveIso
    \/ RunSetHandler \/ RunSetName \/ RunSetSuppGroups
    \/ RunSetExec \/ RunSetUser \/ RunSetGroup \/ RunSetWorkingDir \/ RunSetTag
    \/ RunReplaceMan \/ RunReplaceNoMan

Spec == Init /\ [][Next]_vars

-----------------------------------------------------------------------------
(* Properties.                                                                *)

\* Type correctness: the manifest has the form of its mode.
TypeOK ==
    /\ mode \in {"appc", "oci"}
    /\ exit \in 0..2 /\ edits \in 0..MaxEdits
    /\ mode = "appc" => ManifestType(man)
    /\ mode = "oci" => ImageType(image)

\* AppC mode: no edit makes two mount points with a name or a path in common, or
\* two ports with a name, although the manifest's own validation looks at neither.
NamesUnique == mode = "appc" /\ man.app # None => UniqueNames(man.app)

\* OCI mode: what add has named, remove finds by its name and by its place, and the
\* name is free again.
NamesInStep == mode = "oci" => InStep(image)

-----------------------------------------------------------------------------
(* The settings that a manifest or an image stands for.                       *)

AppcSettings ==
    LET app == A!App
        own == {"name", "labels", "annotations", "deps"}
    IN  [x \in own \cup DOMAIN app |-> IF x \in own THEN man[x] ELSE app[x]]

\* The annotation k has the value v.
Says(annos, k, v) == k \in DOMAIN annos /\ annos[k] = v

\* The values of a variable: a config written by others may give several.
ValuesOf(n) == {v \in Value \cup {None} : <<n, v>> \in image.env}
AnyOf(S) == CHOOSE x \in S : TRUE

OciEnv == [n \in {e[1] : e \in image.env} |-> AnyOf(ValuesOf(n))]

\* A volume or port without an annotation has no name.
OciMounts ==
    LET Names(n, path) == Says(image.annotations, O!MountName(n), <<"path", path>>)
    IN  {m \in [name : Name \cup {None}, path : image.volumes, ro : {FALSE}] :
            IF m.name = None THEN \A n \in Name : ~Names(n, m.path) ELSE Names(m.name, m.path)}

OciPorts ==
    LET Names(n, p) == Says(image.annotations, O!PortName(n), <<"port", p.number, p.protocol>>)
        Place(p) == IF p.protocol = None THEN <<p.number>> ELSE <<p.number, p.protocol>>
    IN  {p \in [name : Name \cup {None}, number : Number, protocol : Protocol \cup {None}, opts : {{}}] :
            /\ Place(p) \in image.ports
            /\ IF p.name = None THEN \A n \in Name : ~Names(n, p) ELSE Names(p.name, p)}

OciTexts == [n \in {m \in Name : <<"text", m>> \in DOMAIN image.annotations} |->
                image.annotations[<<"text", n>>][2]]

OciSettings ==
    [annotations |-> OciTexts, env |-> OciEnv, mounts |-> OciMounts, ports |-> OciPorts,
     exec |-> image.entry \o image.cmd,
     user |-> image.user[1],
     group |-> IF Len(image.user) > 1 THEN image.user[2] ELSE Empty,
     dir |-> image.dir,
     ref |-> image.ref]

Settings == IF mode = "appc" THEN AppcSettings ELSE OciSettings

User == INSTANCE ImageSettings WITH settings <- Settings

\* The commands of either mode do what ImageSettings promises: the setting a
\* command names changes as it says and no other one, or the command fails and
\* nothing changes.
ImplementsSettings == User!Spec
================================================================================
