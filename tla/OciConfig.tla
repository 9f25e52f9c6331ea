------------------------------- MODULE OciConfig -------------------------------
(*****************************************************************************)
(* The edits of an OCI image's config and manifest (lib/oci).  The config    *)
(* has no names for mounts and ports: an edit keeps them in annotations of   *)
(* the manifest, next to the volumes and ports of the config.                *)
(*****************************************************************************)
EXTENDS Sequences, Naturals, Assoc

CONSTANTS
    None,    \* the missing half of a variable without a value
    Empty,   \* the empty string
    Colons,  \* values with a colon in them
    Cut,     \* for a path with a blank in it, what is before the blank
    Services \* what a port has that is no number

VARIABLES image, exit

Fail == exit' = 1 /\ UNCHANGED image
Save(i) == image' = i /\ exit' = 0

\* addAnnotationSaveless and removeAnnotationByValSaveless, on the annotations a:
\* of several annotations with the value, the map's order decides which goes.
ByValue(a, v) == {k \in DOMAIN a : a[k] = v}
DropOne(a, v) == IF ByValue(a, v) = {} THEN {a} ELSE {Without(a, k) : k \in ByValue(a, v)}

\* The key is any, also one that names a mount or a port.
AddAnnotation(k, v) == Save([image EXCEPT !.annotations = Put(@, k, v)])

RemoveAnnotation(k) ==
    IF k \notin DOMAIN image.annotations THEN Fail
    ELSE Save([image EXCEPT !.annotations = Without(@, k)])

\* TODO in the code: labels are not implemented.
AddLabel(n, v) == Fail
RemoveLabel(n) == Fail

-----------------------------------------------------------------------------
\* env is a set of <<name, value>>.  An entry without "=" makes removeFromEnv give
\* up, whose error AddEnv does not look at.
EnvBut(n) == {e \in image.env : e[1] # n}
Malformed == \E e \in image.env : e[2] = None

\* A variant with a bug: the old value of the variable stays in the list.
BugAddEnv(n, v) == Save([image EXCEPT !.env = @ \cup {<<n, v>>}])

AddEnv(n, v) ==
    Save([image EXCEPT !.env = (IF Malformed THEN @ ELSE EnvBut(n)) \cup {<<n, v>>}])

RemoveEnv(n) ==
    IF Malformed \/ EnvBut(n) = image.env THEN Fail ELSE Save([image EXCEPT !.env = EnvBut(n)])

-----------------------------------------------------------------------------
MountName(n) == <<"mount", n>>
PortName(n) == <<"port", n>>

\* What Sscanf finds in the value of such an annotation: a path ends at a blank, and
\* a value of another form has none.
PathIn(v) == IF v[1] # "path" THEN None ELSE IF v[2] \in DOMAIN Cut THEN Cut[v[2]] ELSE v[2]
PortIn(v) == IF v[1] = "port" THEN Tail(v) ELSE None

AddMount(n, path, ro) ==
    IF ro \/ MountName(n) \in DOMAIN image.annotations THEN Fail
    ELSE Save([image EXCEPT !.volumes = @ \cup {path},
                            !.annotations = Put(@, MountName(n), <<"path", path>>)])

\* x is taken for a path first and for a name after that.
RemoveMount(x) ==
    IF x \in image.volumes
    THEN \E a \in DropOne(image.annotations, <<"path", x>>) :
            Save([image EXCEPT !.volumes = @ \ {x}, !.annotations = a])
    ELSE IF /\ MountName(x) \in DOMAIN image.annotations
            /\ PathIn(image.annotations[MountName(x)]) \in image.volumes
         THEN Save([image EXCEPT !.volumes = @ \ {PathIn(image.annotations[MountName(x)])},
                                 !.annotations = Without(@, MountName(x))])
         ELSE Fail

AddPort(n, proto, num, opts) ==
    IF opts # {} \/ PortName(n) \in DOMAIN image.annotations THEN Fail
    ELSE Save([image EXCEPT !.ports = @ \cup {<<num, proto>>},
                            !.annotations = Put(@, PortName(n), <<"port", num, proto>>)])

\* A variant with a bug: the annotation is found by the argument, not by the port.
BugRemoveByNumber(x) ==
    \E key \in {k \in image.ports : k = x \/ <<k[1]>> = x} :
       IF key[1] \in Services THEN Fail
       ELSE IF Len(key) = 1 THEN exit' = 2 /\ UNCHANGED image
       ELSE \E a \in DropOne(image.annotations, <<"port">> \o x) :
               Save([image EXCEPT !.ports = @ \ {key}, !.annotations = a])

\* x is <<number>>, <<number, protocol>> or <<name>>.  The first port that the map
\* yields and that matches goes; one that Atoi refuses fails, one without a protocol
\* panics (exit code 2).
RemoveByNumber(x) ==
    \E key \in {k \in image.ports : k = x \/ <<k[1]>> = x} :
       IF key[1] \in Services THEN Fail
       ELSE IF Len(key) = 1 THEN exit' = 2 /\ UNCHANGED image
       ELSE \E a \in DropOne(image.annotations, <<"port">> \o key) :
               Save([image EXCEPT !.ports = @ \ {key}, !.annotations = a])

RemovePort(x) ==
    \/ RemoveByNumber(x)
    \/ /\ \A k \in image.ports : k # x /\ <<k[1]>> # x
       /\ LET anno == PortName(x[1])
          IN  IF /\ Len(x) = 1
                 /\ anno \in DOMAIN image.annotations
                 /\ PortIn(image.annotations[anno]) \in image.ports
              THEN Save([image EXCEPT !.ports = @ \ {PortIn(image.annotations[anno])},
                                      !.annotations = Without(@, anno)])
              ELSE Fail

-----------------------------------------------------------------------------
\* One word is the entry point alone: the arguments of the previous command stay.
SetExec(cmd) ==
    Save([image EXCEPT !.entry = SubSeq(cmd, 1, 1),
                       !.cmd = IF Len(cmd) > 1 THEN Tail(cmd) ELSE @])

\* The user is "user", ":group" or "user:group", here the sequence of the parts.
SetUser(u) ==
    IF u = Empty \/ u \in Colons \/ Len(image.user) > 2 THEN Fail
    ELSE Save([image EXCEPT !.user = <<u>> \o Tail(@)])

SetGroup(g) ==
    IF g = Empty \/ g \in Colons \/ Len(image.user) > 2 THEN Fail
    ELSE Save([image EXCEPT !.user = <<Head(@), g>>])

SetWorkingDir(dir) == Save([image EXCEPT !.dir = dir])
SetTag(v) == Save([image EXCEPT !.ref = v])

\* json.Unmarshal into the loaded config: lists and strings take the place of the
\* old ones, volumes and ports are maps and are merged.  The names in the
\* manifest's annotations stay.
Replace(file) ==
    Save([x \in DOMAIN image |->
             IF x \notin DOMAIN file THEN image[x]
             ELSE IF x \in {"volumes", "ports"} THEN image[x] \cup file[x] ELSE file[x]])
================================================================================
