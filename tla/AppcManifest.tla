------------------------------ MODULE AppcManifest -----------------------------
(*****************************************************************************)
(* The edits of an AppC manifest (lib/appc): each loads nothing, changes the *)
(* copy NewACBuild has read, and saves it if it is valid.  exit is the exit  *)
(* code of the command, which tells "not found" (2) from other errors (1).   *)
(*****************************************************************************)
EXTENDS Sequences, Naturals, Assoc

CONSTANTS
    None,        \* no app section, no file
    Empty,       \* the empty string
    Version,     \* the label "version"
    Illegal,     \* names that are no AC identifier, AC name or variable name
    Known,       \* the names of isolators appc knows
    Exclusive,   \* pairs of isolators that exclude each other
    Relative,    \* working directories that are not absolute
    OutOfRange,  \* <<number, is a range>>: beyond 1 - 65535
    BadLabels,   \* sets of <<name, value>>: labels that no image may have together
    Unfit        \* <<name, value>>: no value for the annotation or isolator of the name

VARIABLES man, exit

Nothing == [x \in {} |-> Empty]

\* An app section with the given user and group, and nothing else.
AppOf(id) == [user |-> id, group |-> id, exec |-> <<>>, supp |-> <<>>, dir |-> Empty,
              env |-> Nothing, mounts |-> {}, ports |-> {},
              isolators |-> Nothing, handlers |-> Nothing]

\* What an edit starts from when the manifest has no app section.
App == IF man.app = None THEN AppOf("0") ELSE man.app

ValidApp(a) ==
    /\ a.user # Empty /\ a.group # Empty
    /\ a.dir \notin Relative
    /\ DOMAIN a.env \cap Illegal = {}
    /\ \A pair \in Exclusive : ~ pair \subseteq DOMAIN a.isolators
    /\ \A p \in a.ports : <<p.number, "range" \in p.opts>> \notin OutOfRange

PairsOf(texts) == {<<n, texts[n]>> : n \in DOMAIN texts}
ValidTexts(m) ==
    /\ \A bad \in BadLabels : ~ bad \subseteq PairsOf(m.labels)
    /\ PairsOf(m.annotations) \cap Unfit = {}

Fail(code) == exit' = code /\ UNCHANGED man

\* A variant with a bug: whatever the edit has made of the manifest is written.
BugSave(m) == man' = m /\ exit' = 0

\* save(): MarshalJSON validates, and an invalid manifest is not written.
Save(m) == IF ValidTexts(m) /\ (m.app # None => ValidApp(m.app)) THEN man' = m /\ exit' = 0
           ELSE Fail(1)
SaveApp(a) == Save([man EXCEPT !.app = a])

IfLegal(n, Edit) == IF n \in Illegal THEN Fail(1) ELSE Edit
IfFound(cond, Edit) == IF cond THEN Edit ELSE Fail(2)
IfApp(Edit) == IF man.app = None THEN Fail(2) ELSE Edit

-----------------------------------------------------------------------------
AddAnnotation(n, v) == IfLegal(n, Save([man EXCEPT !.annotations = Put(@, n, v)]))

RemoveAnnotation(n) ==
    IfLegal(n, IfFound(n \in DOMAIN man.annotations,
                       Save([man EXCEPT !.annotations = Without(@, n)])))

AddLabel(n, v) == IfLegal(n, Save([man EXCEPT !.labels = Put(@, n, v)]))

RemoveLabel(n) ==
    IfLegal(n, IfFound(n \in DOMAIN man.labels, Save([man EXCEPT !.labels = Without(@, n)])))

SetTag(v) == AddLabel(Version, v)

SetName(n) == IF n = Empty THEN Fail(1) ELSE IfLegal(n, Save([man EXCEPT !.name = n]))

AddEnv(n, v) == SaveApp([App EXCEPT !.env = Put(@, n, v)])

RemoveEnv(n) ==
    IfApp(IfFound(n \in DOMAIN App.env, SaveApp([App EXCEPT !.env = Without(@, n)])))

-----------------------------------------------------------------------------
\* removeMount and removePort take a name or what the name stands for.
MountsBut(x) == {m \in App.mounts : x \notin {m.name, m.path}}
PortsBut(x) == {p \in App.ports : x \notin {p.name, p.number}}

\* A variant with a bug: only a mount of the same name is replaced.
BugAddMount(n, path, ro) ==
    IfLegal(n, SaveApp([App EXCEPT !.mounts = MountsBut(n) \cup
                           {[name |-> n, path |-> path, ro |-> ro]}]))

AddMount(n, path, ro) ==
    IfLegal(n, SaveApp([App EXCEPT !.mounts = (MountsBut(n) \cap MountsBut(path)) \cup
                           {[name |-> n, path |-> path, ro |-> ro]}]))

RemoveMount(x) ==
    IfApp(IfFound(MountsBut(x) # App.mounts, SaveApp([App EXCEPT !.mounts = MountsBut(x)])))

AddPort(n, proto, num, opts) ==
    IfLegal(n, SaveApp([App EXCEPT !.ports = PortsBut(n) \cup
                  {[name |-> n, number |-> num, protocol |-> proto, opts |-> opts]}]))

\* The argument is one word here; "80/tcp" is no AC name.
RemovePort(x) ==
    IfApp(IF Len(x) # 1 \/ x[1] \in Illegal THEN Fail(1)
          ELSE IfFound(PortsBut(x[1]) # App.ports,
                       SaveApp([App EXCEPT !.ports = PortsBut(x[1])])))

-----------------------------------------------------------------------------
OtherDeps(n) == SelectSeq(man.deps, LAMBDA d : d.name # n)

AddDependency(d) == Save([man EXCEPT !.deps = Append(OtherDeps(d.name), d)])

RemoveDependency(n) ==
    IfLegal(n, IfFound(OtherDeps(n) # man.deps, Save([man EXCEPT !.deps = OtherDeps(n)])))

AddIsolator(n, v) ==
    IF n \notin Known \/ <<n, v>> \in Unfit THEN Fail(1)
    ELSE IfLegal(n, SaveApp([App EXCEPT !.isolators = Put(@, n, v)]))

\* runRemoveIso does not look at the error: it exits with 1 whatever it is.
RemoveIsolator(n) ==
    IF n \in Illegal \/ n \notin DOMAIN App.isolators THEN Fail(1)
    ELSE SaveApp([App EXCEPT !.isolators = Without(@, n)])

SetHandler(n, cmd) == SaveApp([App EXCEPT !.handlers = Put(@, n, cmd)])

SetExec(cmd) == SaveApp([App EXCEPT !.exec = cmd])
SetUser(u) == IF u = Empty THEN Fail(1) ELSE SaveApp([App EXCEPT !.user = u])
SetGroup(g) == IF g = Empty THEN Fail(1) ELSE SaveApp([App EXCEPT !.group = g])
SetSuppGroups(gs) == SaveApp([App EXCEPT !.supp = gs])
SetWorkingDir(dir) == SaveApp([App EXCEPT !.dir = dir])

\* json.Unmarshal into the loaded manifest: a field of the file takes its place,
\* and the app section of the file is merged into the one that is there, or into
\* a blank one.
Replace(file) ==
    LET Over(r) == [x \in DOMAIN r |-> IF x \in DOMAIN file THEN file[x] ELSE r[x]]
        blank == AppOf(Empty)
        app == IF DOMAIN file \cap DOMAIN blank = {} THEN man.app
               ELSE Over(IF man.app = None THEN blank ELSE man.app)
    IN  Save([Over(man) EXCEPT !.app = app])
================================================================================
