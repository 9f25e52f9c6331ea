-------------------------- MODULE ManifestEdits_proofs -------------------------
(*****************************************************************************)
(* Proofs about ManifestEdits, for any names, values, files and images a     *)
(* build may begin with, and any number of edits; and that ManifestEdits     *)
(* implements ImageSettings.                                                 *)
(*****************************************************************************)
EXTENDS ManifestEdits, SequenceTheorems, TLAPS

-----------------------------------------------------------------------------
(* Either mode has its own half of the state, and what a command does to it is *)
(* one of three things: it is refused and changes nothing, or what it has made *)
(* is saved.                                                                   *)

EditsInv == TypeOK /\ NamesUnique /\ NamesInStep

LEMMA EditsInit == Init => EditsInv
<1> SUFFICES ASSUME Init PROVE EditsInv
  OBVIOUS
<1>1. PICK s \in Starts : /\ mode = s[1]
                          /\ man = IF s[1] = "appc" THEN s[2] ELSE None
                          /\ image = IF s[1] = "oci" THEN s[2] ELSE None
  BY DEF Init
<1>2. exit = 0 /\ edits = 0
  BY DEF Init
<1>3. \/ mode = "appc" /\ ManifestType(man) /\ (man.app # None => UniqueNames(man.app))
      \/ mode = "oci" /\ ImageType(image) /\ InStep(image)
  BY <1>1, StartsAssumption
<1> QED
  BY <1>2, <1>3, BoundAssumption DEF EditsInv, TypeOK, NamesUnique, NamesInStep

-----------------------------------------------------------------------------
(* AppC.                                                                       *)

Fine(m) == ManifestType(m) /\ (m.app # None => UniqueNames(m.app))

LEMMA BlankApp ==
    ASSUME NEW id PROVE LET a == A!AppOf(id)
                        IN  /\ DOMAIN a = DOMAIN A!AppOf(Empty) /\ a.mounts = {} /\ a.ports = {}
BY DEF A!AppOf

LEMMA AppFine ==
    ASSUME man.app # None => AppType(man.app) /\ UniqueNames(man.app)
    PROVE  /\ DOMAIN A!App = DOMAIN A!AppOf(Empty)
           /\ A!App.mounts \in MountSet /\ A!App.ports \in PortSet /\ UniqueNames(A!App)
<1>1. CASE man.app = None
  BY <1>1 DEF A!App, A!AppOf, MountSet, PortSet, UniqueNames
<1>2. CASE man.app # None
  BY <1>2 DEF A!App, AppType
<1> QED  BY <1>1, <1>2

\* What save() has written is in order if what it was given names nothing twice.
LEMMA SaveFine ==
    ASSUME Fine(man), NEW m, A!Save(m), DOMAIN m = DOMAIN man,
           m.name \in Name \ Illegal, DOMAIN m.labels \subseteq (Name \cup {Version}) \ Illegal,
           m.app # None => /\ DOMAIN m.app = DOMAIN A!AppOf(Empty)
                           /\ m.app.mounts \in MountSet /\ m.app.ports \in PortSet
                           /\ UniqueNames(m.app)
    PROVE  Fine(man') /\ exit' \in 0..2
BY DEF Fine, A!Save, A!Fail, ManifestType, AppType

LEMMA SaveAppFine ==
    ASSUME Fine(man), NEW a, A!SaveApp(a), DOMAIN a = DOMAIN A!AppOf(Empty),
           a.mounts \in MountSet, a.ports \in PortSet, UniqueNames(a)
    PROVE  Fine(man') /\ exit' \in 0..2
<1> DEFINE m == [man EXCEPT !.app = a]
<1>1. A!Save(m)
  BY DEF A!SaveApp
<1>2. DOMAIN m = DOMAIN man /\ m.name = man.name /\ m.labels = man.labels /\ m.app = a
  BY DEF Fine, ManifestType
<1> HIDE DEF m
<1> QED  BY <1>1, <1>2, SaveFine DEF Fine, ManifestType

\* An edit of a part of the app section that names nothing.
LEMMA OtherPartFine ==
    ASSUME Fine(man), NEW x \in DOMAIN A!AppOf(Empty) \ {"mounts", "ports"}, NEW v,
           A!SaveApp([A!App EXCEPT ![x] = v])
    PROVE  Fine(man') /\ exit' \in 0..2
<1> DEFINE a == [A!App EXCEPT ![x] = v]
<1>1. /\ DOMAIN A!App = DOMAIN A!AppOf(Empty)
      /\ A!App.mounts \in MountSet /\ A!App.ports \in PortSet /\ UniqueNames(A!App)
  BY AppFine DEF Fine, ManifestType
<1>2. DOMAIN a = DOMAIN A!App /\ a.mounts = A!App.mounts /\ a.ports = A!App.ports
  BY <1>1 DEF A!AppOf
<1>3. UniqueNames(a)
  BY <1>1, <1>2 DEF UniqueNames
<1>4. A!SaveApp(a)
  OBVIOUS
<1> HIDE DEF a
<1> QED  BY <1>1, <1>2, <1>3, <1>4, SaveAppFine

LEMMA FailFine ==
    ASSUME Fine(man), A!Fail(1) \/ A!Fail(2) PROVE Fine(man') /\ exit' \in 0..2
BY DEF A!Fail

\* The edits of the parts of the app section that name nothing.
AppPartEdit ==
    \/ \E n, v : A!AddEnv(n, v) \/ A!AddIsolator(n, v) \/ A!SetHandler(n, v)
    \/ \E n : A!RemoveEnv(n) \/ A!RemoveIsolator(n)
    \/ \E v : A!SetExec(v) \/ A!SetUser(v) \/ A!SetGroup(v) \/ A!SetSuppGroups(v) \/ A!SetWorkingDir(v)

LEMMA AppPartFine == Fine(man) /\ AppPartEdit => Fine(man') /\ exit' \in 0..2
<1> SUFFICES ASSUME Fine(man), AppPartEdit PROVE Fine(man') /\ exit' \in 0..2
  OBVIOUS
<1>1. {"env", "isolators", "handlers", "exec", "user", "group", "supp", "dir"}
         \subseteq DOMAIN A!AppOf(Empty) \ {"mounts", "ports"}
  BY DEF A!AppOf
<1>2. \/ A!Fail(1) \/ A!Fail(2)
      \/ \E v : \/ A!SaveApp([A!App EXCEPT !.env = v]) \/ A!SaveApp([A!App EXCEPT !.isolators = v])
                \/ A!SaveApp([A!App EXCEPT !.handlers = v]) \/ A!SaveApp([A!App EXCEPT !.exec = v])
                \/ A!SaveApp([A!App EXCEPT !.user = v]) \/ A!SaveApp([A!App EXCEPT !.group = v])
                \/ A!SaveApp([A!App EXCEPT !.supp = v]) \/ A!SaveApp([A!App EXCEPT !.dir = v])
  <2>1. CASE \E n, v : A!AddEnv(n, v) \/ A!AddIsolator(n, v) \/ A!SetHandler(n, v)
    BY <2>1 DEF A!AddEnv, A!AddIsolator, A!SetHandler, A!IfLegal
  <2>2. CASE \E n : A!RemoveEnv(n) \/ A!RemoveIsolator(n)
    BY <2>2 DEF A!RemoveEnv, A!RemoveIsolator, A!IfApp, A!IfFound
  <2>3. CASE \E v : A!SetExec(v) \/ A!SetUser(v) \/ A!SetGroup(v) \/ A!SetSuppGroups(v) \/ A!SetWorkingDir(v)
    BY <2>3 DEF A!SetExec, A!SetUser, A!SetGroup, A!SetSuppGroups, A!SetWorkingDir
  <2> QED  BY <2>1, <2>2, <2>3 DEF AppPartEdit
<1> QED  BY <1>1, <1>2, OtherPartFine, FailFine

\* The edits of mount points and ports: what they add clashes with nothing they leave.
MountEdit ==
    \/ \E n \in Name, path \in Path, ro \in BOOLEAN : A!AddMount(n, path, ro)
    \/ \E x : A!RemoveMount(x)
PortEdit ==
    \/ \E n \in Name, proto \in Protocol, num \in Number, opts \in SUBSET {"range", "sock"} :
          A!AddPort(n, proto, num, opts)
    \/ \E x : A!RemovePort(x)

LEMMA MountsFine == Fine(man) /\ MountEdit => Fine(man') /\ exit' \in 0..2
<1> SUFFICES ASSUME Fine(man), MountEdit, ~A!Fail(1), ~A!Fail(2)
             PROVE  Fine(man') /\ exit' \in 0..2
  BY FailFine
<1>1. PICK ms \in SUBSET A!App.mounts, new \in MountSet :
         /\ A!SaveApp([A!App EXCEPT !.mounts = ms \cup new])
         /\ \A m \in new, k \in ms : m.name # k.name /\ m.path # k.path
         /\ \A m, k \in new : m = k
  <2>1. CASE \E n \in Name, path \in Path, ro \in BOOLEAN : A!AddMount(n, path, ro)
    <3>1. PICK n \in Name, path \in Path, ro \in BOOLEAN : A!AddMount(n, path, ro)
      BY <2>1
    <3> DEFINE m == [name |-> n, path |-> path, ro |-> ro]
    <3>2. A!SaveApp([A!App EXCEPT !.mounts = (A!MountsBut(n) \cap A!MountsBut(path)) \cup {m}])
      BY <3>1 DEF A!AddMount, A!IfLegal
    <3>3. {m} \in MountSet
      BY DEF MountSet
    <3>4. \A k \in A!MountsBut(n) \cap A!MountsBut(path) : m.name # k.name /\ m.path # k.path
      BY DEF A!MountsBut
    <3>5. A!MountsBut(n) \cap A!MountsBut(path) \subseteq A!App.mounts
      BY DEF A!MountsBut
    <3> QED  BY <3>2, <3>3, <3>4, <3>5
  <2>2. CASE \E x : A!RemoveMount(x)
    <3>1. PICK x : A!RemoveMount(x)
      BY <2>2
    <3>2. A!SaveApp([A!App EXCEPT !.mounts = A!MountsBut(x)])
      BY <3>1 DEF A!RemoveMount, A!IfApp, A!IfFound
    <3>3. A!MountsBut(x) \subseteq A!App.mounts /\ {} \in MountSet /\ A!MountsBut(x) \cup {} = A!MountsBut(x)
      BY DEF A!MountsBut, MountSet
    <3> QED  BY <3>2, <3>3
  <2> QED  BY <2>1, <2>2 DEF MountEdit
<1> DEFINE a == [A!App EXCEPT !.mounts = ms \cup new]
<1>2. /\ DOMAIN A!App = DOMAIN A!AppOf(Empty)
      /\ A!App.mounts \in MountSet /\ A!App.ports \in PortSet /\ UniqueNames(A!App)
  BY AppFine DEF Fine, ManifestType
<1>3. DOMAIN a = DOMAIN A!App /\ a.mounts = ms \cup new /\ a.ports = A!App.ports
  BY <1>2 DEF A!AppOf
<1>4. UniqueNames(a)
  BY <1>1, <1>2, <1>3 DEF UniqueNames
<1>5. a.mounts \in MountSet
  BY <1>2, <1>3 DEF MountSet
<1> HIDE DEF a
<1> QED  BY <1>1, <1>2, <1>3, <1>4, <1>5, SaveAppFine DEF a

LEMMA PortsFine == Fine(man) /\ PortEdit => Fine(man') /\ exit' \in 0..2
<1> SUFFICES ASSUME Fine(man), PortEdit, ~A!Fail(1), ~A!Fail(2)
             PROVE  Fine(man') /\ exit' \in 0..2
  BY FailFine
<1>1. PICK ps \in SUBSET A!App.ports, new \in PortSet :
         /\ A!SaveApp([A!App EXCEPT !.ports = ps \cup new])
         /\ \A p \in new, k \in ps : p.name # k.name
         /\ \A p, k \in new : p = k
  <2>1. CASE \E n \in Name, proto \in Protocol, num \in Number, opts \in SUBSET {"range", "sock"} :
                A!AddPort(n, proto, num, opts)
    <3>1. PICK n \in Name, proto \in Protocol, num \in Number, opts \in SUBSET {"range", "sock"} :
             A!AddPort(n, proto, num, opts)
      BY <2>1
    <3> DEFINE p == [name |-> n, number |-> num, protocol |-> proto, opts |-> opts]
    <3>2. A!SaveApp([A!App EXCEPT !.ports = A!PortsBut(n) \cup {p}])
      BY <3>1 DEF A!AddPort, A!IfLegal
    <3>3. {p} \in PortSet
      BY DEF PortSet
    <3>4. \A k \in A!PortsBut(n) : p.name # k.name
      BY DEF A!PortsBut
    <3>5. A!PortsBut(n) \subseteq A!App.ports
      BY DEF A!PortsBut
    <3> QED  BY <3>2, <3>3, <3>4, <3>5
  <2>2. CASE \E x : A!RemovePort(x)
    <3>1. PICK x : A!SaveApp([A!App EXCEPT !.ports = A!PortsBut(x)])
      BY <2>2 DEF A!RemovePort, A!IfApp, A!IfFound
    <3>3. A!PortsBut(x) \subseteq A!App.ports /\ {} \in PortSet /\ A!PortsBut(x) \cup {} = A!PortsBut(x)
      BY DEF A!PortsBut, PortSet
    <3> QED  BY <3>1, <3>3
  <2> QED  BY <2>1, <2>2 DEF PortEdit
<1> DEFINE a == [A!App EXCEPT !.ports = ps \cup new]
<1>2. /\ DOMAIN A!App = DOMAIN A!AppOf(Empty)
      /\ A!App.mounts \in MountSet /\ A!App.ports \in PortSet /\ UniqueNames(A!App)
  BY AppFine DEF Fine, ManifestType
<1>3. DOMAIN a = DOMAIN A!App /\ a.ports = ps \cup new /\ a.mounts = A!App.mounts
  BY <1>2 DEF A!AppOf
<1>4. UniqueNames(a)
  BY <1>1, <1>2, <1>3 DEF UniqueNames
<1>5. a.ports \in PortSet
  BY <1>2, <1>3 DEF PortSet
<1> HIDE DEF a
<1> QED  BY <1>1, <1>2, <1>3, <1>4, <1>5, SaveAppFine DEF a

\* The edits outside of the app section, and replace-manifest.
ManifestPartEdit ==
    \/ \E n, v : A!AddAnnotation(n, v)
    \/ \E n : A!RemoveAnnotation(n)
    \/ \E n \in Name \cup {Version} : \E v : A!AddLabel(n, v)
    \/ \E n : A!RemoveLabel(n)
    \/ \E v : A!SetTag(v)
    \/ \E n \in Name \cup {Empty} : A!SetName(n)
    \/ \E n, d : A!IfLegal(n, A!AddDependency(d))
    \/ \E n : A!RemoveDependency(n)
    \/ \E f \in Files : A!Replace(f)

LEMMA ManifestPartFine == Fine(man) /\ ManifestPartEdit => Fine(man') /\ exit' \in 0..2
<1> SUFFICES ASSUME Fine(man), ManifestPartEdit, ~A!Fail(1), ~A!Fail(2)
             PROVE  Fine(man') /\ exit' \in 0..2
  BY FailFine
<1>0. /\ DOMAIN man = {"name", "labels", "annotations", "deps", "app"}
      /\ man.name \in Name \ Illegal /\ DOMAIN man.labels \subseteq (Name \cup {Version}) \ Illegal
      /\ man.app # None => AppType(man.app) /\ UniqueNames(man.app)
  BY DEF Fine, ManifestType
<1>1. ASSUME NEW x \in {"annotations", "deps"}, NEW v, A!Save([man EXCEPT ![x] = v])
      PROVE  Fine(man') /\ exit' \in 0..2
  <2> DEFINE m == [man EXCEPT ![x] = v]
  <2>1. DOMAIN m = DOMAIN man /\ m.name = man.name /\ m.labels = man.labels /\ m.app = man.app
    BY <1>0
  <2>2. A!Save(m)
    BY <1>1
  <2> HIDE DEF m
  <2> QED  BY <1>0, <2>1, <2>2, SaveFine DEF AppType
<1>2. ASSUME NEW x \in {"name", "labels"}, NEW v, A!Save([man EXCEPT ![x] = v]),
             x = "name" => v \in Name \ Illegal,
             x = "labels" => DOMAIN v \subseteq (Name \cup {Version}) \ Illegal
      PROVE  Fine(man') /\ exit' \in 0..2
  <2> DEFINE m == [man EXCEPT ![x] = v]
  <2>1. /\ DOMAIN m = DOMAIN man /\ m.app = man.app
        /\ m.name \in Name \ Illegal /\ DOMAIN m.labels \subseteq (Name \cup {Version}) \ Illegal
    BY <1>0, <1>2
  <2>2. A!Save(m)
    BY <1>2
  <2> HIDE DEF m
  <2> QED  BY <1>0, <2>1, <2>2, SaveFine DEF AppType
<1>3. CASE \E n, v : A!AddAnnotation(n, v)
  BY <1>1, <1>3 DEF A!AddAnnotation, A!IfLegal
<1>4. CASE \E n : A!RemoveAnnotation(n)
  BY <1>1, <1>4 DEF A!RemoveAnnotation, A!IfLegal, A!IfFound
<1>5. ASSUME NEW n \in Name \cup {Version}, NEW v, A!AddLabel(n, v)
      PROVE  Fine(man') /\ exit' \in 0..2
  <2>1. n \notin Illegal /\ A!Save([man EXCEPT !.labels = A!Put(man.labels, n, v)])
    BY <1>5 DEF A!AddLabel, A!IfLegal
  <2>2. DOMAIN A!Put(man.labels, n, v) = DOMAIN man.labels \cup {n}
    BY DEF A!Put
  <2> QED  BY <1>0, <1>2, <2>1, <2>2
<1>6. CASE \E n : A!RemoveLabel(n)
  <2>1. PICK n : A!Save([man EXCEPT !.labels = A!Without(man.labels, n)])
    BY <1>6 DEF A!RemoveLabel, A!IfLegal, A!IfFound
  <2>2. DOMAIN A!Without(man.labels, n) \subseteq DOMAIN man.labels
    BY DEF A!Without
  <2> QED  BY <1>0, <1>2, <2>1, <2>2
<1>7. CASE \E v : A!SetTag(v)
  BY <1>5, <1>7 DEF A!SetTag
<1>8. CASE \E n \in Name \cup {Empty} : A!SetName(n)
  <2>1. PICK n \in Name \ Illegal : A!Save([man EXCEPT !.name = n])
    BY <1>8 DEF A!SetName, A!IfLegal
  <2> QED  BY <1>2, <2>1
<1>9. CASE \E n, d : A!IfLegal(n, A!AddDependency(d))
  BY <1>1, <1>9 DEF A!AddDependency, A!IfLegal
<1>10. CASE \E n : A!RemoveDependency(n)
  BY <1>1, <1>10 DEF A!RemoveDependency, A!IfLegal, A!IfFound
<1>11. CASE \E f \in Files : A!Replace(f)
  <2>1. PICK f \in Files : A!Replace(f)
    BY <1>11
  <2> DEFINE Over(r) == [x \in DOMAIN r |-> IF x \in DOMAIN f THEN f[x] ELSE r[x]]
             blank == A!AppOf(Empty)
             app == IF DOMAIN f \cap DOMAIN blank = {} THEN man.app
                    ELSE Over(IF man.app = None THEN blank ELSE man.app)
             m == [Over(man) EXCEPT !.app = app]
  <2>2. A!Save(m)
    BY <2>1 DEF A!Replace
  <2>3. /\ DOMAIN m = DOMAIN man /\ m.app = app
        /\ m.name \in Name \ Illegal /\ DOMAIN m.labels \subseteq (Name \cup {Version}) \ Illegal
    BY <1>0, FilesAssumption
  <2>4. ASSUME app # None
        PROVE  /\ DOMAIN app = DOMAIN A!AppOf(Empty)
               /\ app.mounts \in MountSet /\ app.ports \in PortSet /\ UniqueNames(app)
    <3>1. CASE app = man.app
      BY <1>0, <2>4, <3>1 DEF AppType
    <3>2. CASE app # man.app
      <4>1. PICK r : /\ app = Over(r) /\ DOMAIN r = DOMAIN A!AppOf(Empty)
                     /\ r.mounts \in MountSet /\ r.ports \in PortSet /\ UniqueNames(r)
        <5>1. CASE man.app = None
          <6>1. blank.mounts \in MountSet /\ blank.ports \in PortSet /\ UniqueNames(blank)
            BY DEF A!AppOf, MountSet, PortSet, UniqueNames
          <6> QED  BY <3>2, <5>1, <6>1
        <5>2. CASE man.app # None
          BY <1>0, <3>2, <5>2 DEF AppType
        <5> QED  BY <5>1, <5>2
      <4>2. "mounts" \notin DOMAIN f /\ "ports" \notin DOMAIN f
        BY FilesAssumption
      <4>3. DOMAIN app = DOMAIN r /\ app.mounts = r.mounts /\ app.ports = r.ports
        BY <4>1, <4>2 DEF A!AppOf
      <4> QED  BY <4>1, <4>3 DEF UniqueNames
    <3> QED  BY <3>1, <3>2
  <2> HIDE DEF m, app
  <2> QED  BY <2>2, <2>3, <2>4, SaveFine
<1> QED
  BY <1>3, <1>4, <1>5, <1>6, <1>7, <1>8, <1>9, <1>10, <1>11 DEF ManifestPartEdit

-----------------------------------------------------------------------------
(* OCI.                                                                        *)

\* The edits that touch no annotation, volume or port.
ConfigEdit ==
    \/ O!Fail
    \/ \E n, v : O!AddLabel(n, v) \/ O!AddEnv(n, v)
    \/ \E n : O!RemoveLabel(n) \/ O!RemoveEnv(n)
    \/ \E v : O!SetExec(v) \/ O!SetWorkingDir(v) \/ O!SetTag(v)
    \/ \E v \in Value \cup {Empty} : O!SetUser(v) \/ O!SetGroup(v)

\* The edits of the names.
FreePath(path) == /\ "shared path" \in Avoid => ~Shared("mount", <<path>>)
                  /\ "blank" \in Avoid => path \notin DOMAIN Cut
FreePort(num, proto) == "shared port" \in Avoid => ~Shared("port", <<num, proto>>)

NamingEdit ==
    \/ \E k \in UserKeys : \E v \in UserValues : O!AddAnnotation(k, v)
    \/ \E k \in UserKeys : O!RemoveAnnotation(k)
    \/ \E n \in Name : \E ro : \E path \in Path : FreePath(path) /\ O!AddMount(n, path, ro)
    \/ \E x : O!RemoveMount(x)
    \/ \E n \in Name : \E opts : \E proto \in Protocol, num \in Number \ Services :
          FreePort(num, proto) /\ O!AddPort(n, proto, num, opts)
    \/ \E x : O!RemovePort(x)

ReplaceEdit == \E f \in Files : O!Replace(OciFile(f))

\* What an edit may do to the annotations: leave them, add one, remove one.
LEMMA NamingShape ==
    ASSUME ImageType(image), NamingEdit
    PROVE  /\ exit' \in 0..2
           /\ \/ image' = image
              \/ \E k \in UserKeys : \E v \in UserValues :
                    image' = [image EXCEPT !.annotations = O!Put(@, k, v)]
              \/ \E k \in UserKeys : image' = [image EXCEPT !.annotations = O!Without(@, k)]
              \/ \E n \in Name : \E path \in Path :
                    /\ <<"mount", n>> \notin DOMAIN image.annotations /\ FreePath(path)
                    /\ image' = [image EXCEPT !.volumes = @ \cup {path},
                                  !.annotations = O!Put(@, <<"mount", n>>, <<"path", path>>)]
              \/ \E x, a : /\ a \in O!DropOne(image.annotations, <<"path", x>>)
                           /\ image' = [image EXCEPT !.volumes = @ \ {x}, !.annotations = a]
              \/ \E n : /\ <<"mount", n>> \in DOMAIN image.annotations
                        /\ image' = [image EXCEPT
                              !.volumes = @ \ {O!PathIn(image.annotations[<<"mount", n>>])},
                              !.annotations = O!Without(@, <<"mount", n>>)]
              \/ \E n \in Name : \E num \in Number \ Services, proto \in Protocol :
                    /\ <<"port", n>> \notin DOMAIN image.annotations /\ FreePort(num, proto)
                    /\ image' = [image EXCEPT !.ports = @ \cup {<<num, proto>>},
                                  !.annotations = O!Put(@, <<"port", n>>, <<"port", num, proto>>)]
              \/ \E key, a : /\ key \in image.ports /\ Len(key) # 1
                             /\ a \in O!DropOne(image.annotations, <<"port">> \o key)
                             /\ image' = [image EXCEPT !.ports = @ \ {key}, !.annotations = a]
              \/ \E n : /\ <<"port", n>> \in DOMAIN image.annotations
                        /\ image' = [image EXCEPT
                              !.ports = @ \ {O!PortIn(image.annotations[<<"port", n>>])},
                              !.annotations = O!Without(@, <<"port", n>>)]
<1> USE DEF O!Save, O!Fail, O!MountName, O!PortName
<1>0. 0 \in 0..2 /\ 1 \in 0..2 /\ 2 \in 0..2
  OBVIOUS
<1>1. CASE \E k \in UserKeys : \E v \in UserValues : O!AddAnnotation(k, v)
  BY <1>0, <1>1 DEF O!AddAnnotation
<1>2. CASE \E k \in UserKeys : O!RemoveAnnotation(k)
  BY <1>0, <1>2 DEF O!RemoveAnnotation
<1>3. CASE \E n \in Name : \E ro : \E path \in Path : FreePath(path) /\ O!AddMount(n, path, ro)
  BY <1>0, <1>3 DEF O!AddMount
<1>4. CASE \E x : O!RemoveMount(x)
  BY <1>0, <1>4 DEF O!RemoveMount
<1>5. CASE \E n \in Name : \E opts : \E proto \in Protocol, num \in Number \ Services :
              FreePort(num, proto) /\ O!AddPort(n, proto, num, opts)
  BY <1>0, <1>5 DEF O!AddPort
<1>6. CASE \E x : O!RemovePort(x)
  <2>1. PICK x : O!RemovePort(x)
    BY <1>6
  <2>2. CASE O!RemoveByNumber(x)
    BY <1>0, <2>2 DEF O!RemoveByNumber
  <2>3. CASE ~O!RemoveByNumber(x)
    BY <1>0, <2>1, <2>3 DEF O!RemovePort
  <2> QED  BY <2>2, <2>3
<1> QED  BY <1>1, <1>2, <1>3, <1>4, <1>5, <1>6 DEF NamingEdit

LEMMA PairIsTuple == \A S, T : \A p \in S \X T : p = <<p[1], p[2]>>
OBVIOUS

LEMMA TailOfPort ==
    ASSUME NEW n, NEW p
    PROVE  Tail(<<"port", n, p>>) = <<n, p>> /\ <<"port">> \o <<n, p>> = <<"port", n, p>>
<1> DEFINE S == {"port", n, p}
          s == <<"port", n, p>>
          t == <<n, p>>
          c == <<"port">> \o t
<1>1. s \in Seq(S) /\ Len(s) = 3 /\ s[1] = "port" /\ s[2] = n /\ s[3] = p
  OBVIOUS
<1>2. /\ t \in Seq(S) /\ Len(t) = 2 /\ t[1] = n /\ t[2] = p
      /\ <<"port">> \in Seq(S) /\ Len(<<"port">>) = 1 /\ <<"port">>[1] = "port"
  OBVIOUS
<1>3. Tail(s) \in Seq(S) /\ Len(Tail(s)) = 2 /\ Tail(s)[1] = n /\ Tail(s)[2] = p
  BY <1>1
<1>4. Tail(s) = t
  BY <1>2, <1>3
<1>5. /\ c \in Seq(S) /\ Len(c) = Len(<<"port">>) + Len(t)
      /\ \A i \in 1..Len(<<"port">>) + Len(t) :
            c[i] = IF i <= Len(<<"port">>) THEN <<"port">>[i] ELSE t[i - Len(<<"port">>)]
  <2> HIDE DEF t, S
  <2> QED  BY <1>2, ConcatProperties
<1>6. Len(c) = 3 /\ c[1] = "port" /\ c[2] = n /\ c[3] = p
  <2> HIDE DEF c, t, S
  <2> QED  BY <1>2, <1>5
<1>7. c = s
  <2> HIDE DEF c, s, S
  <2> QED  BY <1>1, <1>5, <1>6, SeqEqual
<1> QED  BY <1>4, <1>7

\* Removing an annotation leaves the others as they are.
LEMMA WithoutFacts ==
    ASSUME NEW a, NEW k
    PROVE  /\ DOMAIN O!Without(a, k) = DOMAIN a \ {k}
           /\ \A l \in DOMAIN a \ {k} : O!Without(a, k)[l] = a[l]
BY DEF O!Without

AnnotationType(k, a) == k \in AnnotationKeys /\ a \in AnnotationValues

LEMMA UserTyped == UserKeys \subseteq AnnotationKeys /\ UserValues \subseteq AnnotationValues
BY DEF UserKeys, UserValues, AnnotationKeys, AnnotationValues

LEMMA NamingType == ImageType(image) /\ NamingEdit => ImageType(image') /\ exit' \in 0..2
<1> SUFFICES ASSUME ImageType(image), NamingEdit PROVE ImageType(image')
  BY NamingShape
<1> DEFINE annos == image.annotations
           OK(a) == \A k \in DOMAIN a : AnnotationType(k, a[k])
           Ports == (Number \X Protocol) \cup {<<n>> : n \in Number}
<1>1. ASSUME NEW vs \in SUBSET Path, NEW ps \in SUBSET Ports, NEW a, OK(a),
             \/ image' = [image EXCEPT !.volumes = vs, !.annotations = a]
             \/ image' = [image EXCEPT !.ports = ps, !.annotations = a]
             \/ image' = [image EXCEPT !.annotations = a]
      PROVE  ImageType(image')
  BY <1>1 DEF ImageType, AnnotationType
<1>2. image.volumes \in SUBSET Path /\ OK(annos) /\ image.ports \in SUBSET Ports
  BY DEF ImageType, AnnotationType
<1>3. ASSUME NEW k, NEW v, AnnotationType(k, v) PROVE OK(O!Put(annos, k, v))
  <2> SUFFICES ASSUME NEW l \in DOMAIN O!Put(annos, k, v)
               PROVE  AnnotationType(l, O!Put(annos, k, v)[l])
    OBVIOUS
  <2>1. CASE l = k
    BY <1>3, <2>1 DEF O!Put
  <2>2. CASE l # k
    <3>1. l \in DOMAIN annos /\ O!Put(annos, k, v)[l] = annos[l]
      BY <2>2 DEF O!Put
    <3> QED  BY <1>2, <3>1
  <2> QED  BY <2>1, <2>2
<1>4. ASSUME NEW k PROVE OK(O!Without(annos, k))
  <2> SUFFICES ASSUME NEW l \in DOMAIN O!Without(annos, k)
               PROVE  AnnotationType(l, O!Without(annos, k)[l])
    OBVIOUS
  <2>1. l \in DOMAIN annos /\ O!Without(annos, k)[l] = annos[l]
    BY DEF O!Without
  <2> QED  BY <1>2, <2>1
<1>5. \A v : \A a \in O!DropOne(annos, v) : OK(a)
  BY <1>2, <1>4 DEF O!DropOne
<1> HIDE DEF OK
<1>6. CASE \E k \in UserKeys : \E v \in UserValues :
              image' = [image EXCEPT !.annotations = O!Put(@, k, v)]
  <2>1. PICK k \in UserKeys : \E v \in UserValues :
           image' = [image EXCEPT !.annotations = O!Put(annos, k, v)]
    BY <1>6
  <2>2. PICK v \in UserValues : image' = [image EXCEPT !.annotations = O!Put(annos, k, v)]
    BY <2>1
  <2>3. AnnotationType(k, v)
    BY UserTyped DEF AnnotationType
  <2> QED  BY <1>1, <1>2, <1>3, <2>2, <2>3
<1>7. CASE \E k \in UserKeys : image' = [image EXCEPT !.annotations = O!Without(@, k)]
  BY <1>1, <1>2, <1>4, <1>7
<1>8. CASE \E n \in Name : \E path \in Path :
              image' = [image EXCEPT !.volumes = @ \cup {path},
                                     !.annotations = O!Put(@, <<"mount", n>>, <<"path", path>>)]
  <2>1. PICK n \in Name : \E path \in Path :
           image' = [image EXCEPT !.volumes = image.volumes \cup {path},
                                  !.annotations = O!Put(annos, <<"mount", n>>, <<"path", path>>)]
    BY <1>8 DEF ImageType
  <2>2. PICK path \in Path :
           image' = [image EXCEPT !.volumes = image.volumes \cup {path},
                                  !.annotations = O!Put(annos, <<"mount", n>>, <<"path", path>>)]
    BY <2>1
  <2>3. AnnotationType(<<"mount", n>>, <<"path", path>>)
    BY DEF AnnotationType, AnnotationKeys, AnnotationValues
  <2>4. image.volumes \cup {path} \in SUBSET Path
    BY <1>2
  <2> QED  BY <1>1, <1>2, <1>3, <2>2, <2>3, <2>4
<1>9. CASE \E n \in Name : \E num \in Number \ Services, proto \in Protocol :
              image' = [image EXCEPT !.ports = @ \cup {<<num, proto>>},
                           !.annotations = O!Put(@, <<"port", n>>, <<"port", num, proto>>)]
  <2>1. PICK n \in Name : \E num \in Number \ Services, proto \in Protocol :
           image' = [image EXCEPT !.ports = image.ports \cup {<<num, proto>>},
                        !.annotations = O!Put(annos, <<"port", n>>, <<"port", num, proto>>)]
    BY <1>9 DEF ImageType
  <2>2. PICK num \in Number \ Services, proto \in Protocol :
           image' = [image EXCEPT !.ports = image.ports \cup {<<num, proto>>},
                        !.annotations = O!Put(annos, <<"port", n>>, <<"port", num, proto>>)]
    BY <2>1
  <2>3. AnnotationType(<<"port", n>>, <<"port", num, proto>>)
    BY DEF AnnotationType, AnnotationKeys, AnnotationValues, PortValues
  <2>4. image.ports \cup {<<num, proto>>} \in SUBSET Ports
    BY <1>2
  <2> QED  BY <1>1, <1>2, <1>3, <2>2, <2>3, <2>4
<1>10. CASE \E vs \in SUBSET image.volumes : \E v : \E a \in O!DropOne(annos, v) \cup {O!Without(annos, v)} :
               image' = [image EXCEPT !.volumes = vs, !.annotations = a]
  BY <1>1, <1>2, <1>4, <1>5, <1>10
<1>11. CASE \E ps \in SUBSET image.ports : \E v : \E a \in O!DropOne(annos, v) \cup {O!Without(annos, v)} :
               image' = [image EXCEPT !.ports = ps, !.annotations = a]
  BY <1>1, <1>2, <1>4, <1>5, <1>11
<1>12. CASE \E x, a : /\ a \in O!DropOne(annos, <<"path", x>>)
                     /\ image' = [image EXCEPT !.volumes = @ \ {x}, !.annotations = a]
  <2>1. PICK x, a : /\ a \in O!DropOne(annos, <<"path", x>>)
                    /\ image' = [image EXCEPT !.volumes = image.volumes \ {x}, !.annotations = a]
    BY <1>12
  <2> QED  BY <1>10, <2>1
<1>13. CASE \E n : image' = [image EXCEPT !.volumes = @ \ {O!PathIn(annos[<<"mount", n>>])},
                                          !.annotations = O!Without(@, <<"mount", n>>)]
  <2>1. PICK n : image' = [image EXCEPT !.volumes = image.volumes \ {O!PathIn(annos[<<"mount", n>>])},
                                        !.annotations = O!Without(annos, <<"mount", n>>)]
    BY <1>13 DEF ImageType
  <2> QED  BY <1>10, <2>1
<1>14. CASE \E key, a : /\ a \in O!DropOne(annos, <<"port">> \o key)
                       /\ image' = [image EXCEPT !.ports = @ \ {key}, !.annotations = a]
  <2>1. PICK key, a : /\ a \in O!DropOne(annos, <<"port">> \o key)
                      /\ image' = [image EXCEPT !.ports = image.ports \ {key}, !.annotations = a]
    BY <1>14
  <2> QED  BY <1>11, <2>1
<1>15. CASE \E n : image' = [image EXCEPT !.ports = @ \ {O!PortIn(annos[<<"port", n>>])},
                                          !.annotations = O!Without(@, <<"port", n>>)]
  <2>1. PICK n : image' = [image EXCEPT !.ports = image.ports \ {O!PortIn(annos[<<"port", n>>])},
                                        !.annotations = O!Without(annos, <<"port", n>>)]
    BY <1>15 DEF ImageType
  <2> QED  BY <1>11, <2>1
<1>16. CASE image' = image
  BY <1>16
<1> HIDE DEF annos
<1> QED
  BY <1>6, <1>7, <1>8, <1>9, <1>12, <1>13, <1>14, <1>15, <1>16, NamingShape DEF annos

\* InStep of its three parts.
Placed(k, v, vs, ps) == /\ Paired(k, v)
                        /\ k[1] = "mount" => v[2] \in vs /\ O!PathIn(v) = v[2]
                        /\ k[1] = "port" => Tail(v) \in ps
IsText(k) == k[1] = "text"

Named(a, vs, ps) ==
    \A k \in DOMAIN a : /\ Placed(k, a[k], vs, ps)
                        /\ ~IsText(k) => \A l \in DOMAIN a : a[l] = a[k] => l = k

LEMMA NamedIsInStep == ASSUME NEW i PROVE InStep(i) <=> Named(i.annotations, i.volumes, i.ports)
<1>1. \A k, v : Paired(k, v) /\ k[1] = "port" => O!PortIn(v) = Tail(v)
  BY DEF Paired, PortValues, O!PortIn
<1> DEFINE a == i.annotations
<1>2. ASSUME InStep(i), NEW k \in DOMAIN a
      PROVE  /\ Placed(k, a[k], i.volumes, i.ports)
             /\ ~IsText(k) => \A l \in DOMAIN a : a[l] = a[k] => l = k
  <2>1. Paired(k, a[k])
    BY <1>2 DEF InStep
  <2>2. k[1] = "mount" => a[k][2] \in i.volumes /\ O!PathIn(a[k]) = a[k][2]
    BY <1>2 DEF InStep
  <2>3. k[1] = "port" => Tail(a[k]) \in i.ports
    <3>1. k[1] = "port" => O!PortIn(a[k]) \in i.ports
      BY <1>2 DEF InStep
    <3> QED  BY <1>1, <2>1, <3>1
  <2>4. k[1] # "text" => \A l \in DOMAIN a : a[l] = a[k] => l = k
    BY <1>2 DEF InStep
  <2> HIDE DEF a
  <2> QED  BY <2>1, <2>2, <2>3, <2>4 DEF Placed, IsText
<1>3. ASSUME Named(a, i.volumes, i.ports), NEW k \in DOMAIN a
      PROVE  /\ Paired(k, a[k])
             /\ k[1] = "mount" => a[k][2] \in i.volumes /\ O!PathIn(a[k]) = a[k][2]
             /\ k[1] = "port" => O!PortIn(a[k]) \in i.ports
             /\ k[1] # "text" => \A l \in DOMAIN a : a[l] = a[k] => l = k
  <2>1. Placed(k, a[k], i.volumes, i.ports)
    BY <1>3 DEF Named
  <2>2. ~IsText(k) => \A l \in DOMAIN a : a[l] = a[k] => l = k
    BY <1>3 DEF Named
  <2>3. k[1] = "port" => O!PortIn(a[k]) = Tail(a[k])
    BY <1>1, <2>1 DEF Placed
  <2> HIDE DEF a
  <2> QED  BY <2>1, <2>2, <2>3 DEF Placed, IsText
<1>4. InStep(i) => Named(a, i.volumes, i.ports)
  BY <1>2 DEF Named
<1>5. Named(a, i.volumes, i.ports) => InStep(i)
  BY <1>3 DEF InStep
<1> QED  BY <1>4, <1>5

LEMMA KindFacts ==
    ASSUME NEW k, NEW v, Paired(k, v)
    PROVE  /\ k[1] \in {"mount", "port", "text"}
           /\ k[1] = "mount" => v[1] = "path" /\ v = <<"path", v[2]>> /\ Tail(v) = <<v[2]>>
           /\ k[1] = "port" => /\ v[1] = "port" /\ v = <<"port", v[2], v[3]>>
                               /\ Tail(v) = <<v[2], v[3]>> /\ v = <<"port">> \o Tail(v)
           /\ k[1] = "text" => v[1] = "text"
<1>1. k[1] = "mount" => v[1] = "path" /\ v = <<"path", v[2]>>
  BY DEF Paired
<1>2. k[1] = "port" => v[1] = "port" /\ v = <<"port", v[2], v[3]>>
  BY DEF Paired, PortValues
<1>3. k[1] = "text" => v[1] = "text"
  BY DEF Paired
<1>4. \A p : Tail(<<"path", p>>) = <<p>>
  <2> SUFFICES ASSUME NEW p PROVE Tail(<<"path", p>>) = <<p>>
    OBVIOUS
  <2>1. LET s == <<"path", p>>
        IN  s \in Seq({"path", p}) /\ Len(s) = 2 /\ s[2] = p /\ <<p>> \in Seq({"path", p})
    OBVIOUS
  <2>2. LET t == Tail(<<"path", p>>) IN t \in Seq({"path", p}) /\ Len(t) = 1 /\ t[1] = p
    BY <2>1
  <2> QED  BY <2>1, <2>2
<1>5. k[1] \in {"mount", "port", "text"}
  BY DEF Paired
<1>6. k[1] = "mount" => Tail(v) = <<v[2]>>
  BY <1>1, <1>4
<1>7. k[1] = "port" => Tail(v) = <<v[2], v[3]>> /\ v = <<"port">> \o Tail(v)
  BY <1>2, TailOfPort
<1> QED  BY <1>1, <1>2, <1>3, <1>5, <1>6, <1>7

LEMMA WithoutNamed ==
    ASSUME NEW a, NEW vs, NEW ps, Named(a, vs, ps), NEW vs2, NEW ps2, NEW d,
           \A k \in DOMAIN a \ {d} : Placed(k, a[k], vs2, ps2)
    PROVE  Named(O!Without(a, d), vs2, ps2)
<1> DEFINE b == O!Without(a, d)
<1>1. DOMAIN b = DOMAIN a \ {d} /\ \A k \in DOMAIN b : b[k] = a[k]
  BY WithoutFacts
<1> HIDE DEF b
<1>2. Named(b, vs2, ps2)
  BY <1>1 DEF Named
<1> QED  BY <1>2 DEF b

LEMMA PutNamed ==
    ASSUME NEW a, NEW vs, NEW ps, Named(a, vs, ps), NEW vs2, NEW ps2, vs \subseteq vs2, ps \subseteq ps2,
           NEW d, NEW v, Placed(d, v, vs2, ps2),
           \A l \in DOMAIN a \ {d} : a[l] = v => IsText(l) /\ IsText(d)
    PROVE  Named(O!Put(a, d, v), vs2, ps2)
<1> DEFINE b == O!Put(a, d, v)
<1>1. DOMAIN b = DOMAIN a \cup {d} /\ b[d] = v /\ \A k \in DOMAIN a \ {d} : b[k] = a[k]
  BY DEF O!Put
<1> HIDE DEF b
<1>2. \A k, x : Placed(k, x, vs, ps) => Placed(k, x, vs2, ps2)
  BY DEF Placed
<1>3. \A k \in DOMAIN b : Placed(k, b[k], vs2, ps2)
  BY <1>1, <1>2 DEF Named
<1>4. ASSUME NEW k \in DOMAIN b, ~IsText(k), NEW l \in DOMAIN b, b[l] = b[k] PROVE l = k
  BY <1>1, <1>4 DEF Named
<1>5. Named(b, vs2, ps2)
  BY <1>3, <1>4 DEF Named
<1> QED  BY <1>5 DEF b

LEMMA DropNamed ==
    ASSUME NEW a, NEW vs, NEW ps, Named(a, vs, ps), NEW vs2, NEW ps2, NEW v, NEW b \in O!DropOne(a, v),
           \A k \in DOMAIN a : IF a[k] = v THEN ~IsText(k) ELSE Placed(k, a[k], vs2, ps2)
    PROVE  Named(b, vs2, ps2)
<1>1. CASE O!ByValue(a, v) = {}
  BY <1>1 DEF O!DropOne, O!ByValue, Named
<1>2. CASE O!ByValue(a, v) # {}
  <2>1. PICK d \in DOMAIN a : a[d] = v /\ b = O!Without(a, d)
    BY <1>2 DEF O!DropOne, O!ByValue
  <2>2. \A k \in DOMAIN a \ {d} : a[k] # v
    BY <2>1 DEF Named
  <2> QED  BY <2>1, <2>2, WithoutNamed
<1> QED  BY <1>1, <1>2

\* What has to be avoided so that the names stay in step.
Naming == {"shared path", "shared port", "blank", "reserved"}

LEMMA NamingInStep ==
    Naming \subseteq Avoid /\ ImageType(image) /\ InStep(image) /\ NamingEdit
      => InStep(image')
<1> SUFFICES ASSUME Naming \subseteq Avoid, ImageType(image), InStep(image), NamingEdit
             PROVE  InStep(image')
  OBVIOUS
<1> DEFINE annos == image.annotations
           vols == image.volumes
           ports == image.ports
<1>0. /\ {"annotations", "volumes", "ports"} \subseteq DOMAIN image
      /\ \A k \in DOMAIN annos : Paired(k, annos[k])
      /\ Named(annos, vols, ports)
  BY NamedIsInStep DEF ImageType, InStep
<1>u. UserKeys = {"text"} \X Name /\ UserValues = {"text"} \X Value
  BY DEF UserKeys, UserValues, Naming
<1>1. ASSUME NEW vs, NEW ps, NEW a, Named(a, vs, ps),
             image'.annotations = a /\ image'.volumes = vs /\ image'.ports = ps
      PROVE  InStep(image')
  BY <1>1, NamedIsInStep
<1>k. ASSUME NEW k \in DOMAIN annos
      PROVE  /\ k[1] \in {"mount", "port", "text"}
             /\ k[1] = "mount" => /\ annos[k][1] = "path" /\ annos[k] = <<"path", annos[k][2]>>
                                  /\ Tail(annos[k]) = <<annos[k][2]>>
             /\ k[1] = "port" => annos[k][1] = "port" /\ annos[k] = <<"port">> \o Tail(annos[k])
             /\ k[1] = "text" => annos[k][1] = "text"
  BY <1>0, KindFacts
<1>2. CASE \E k \in UserKeys : \E v \in UserValues :
              image' = [image EXCEPT !.annotations = O!Put(@, k, v)]
  <2>0. PICK k \in UserKeys, v \in UserValues : image' = [image EXCEPT !.annotations = O!Put(annos, k, v)]
    BY <1>2
  <2>a. PICK n \in Name : k = <<"text", n>>
    BY <1>u
  <2>b. PICK w \in Value : v = <<"text", w>>
    BY <1>u
  <2>2. image'.annotations = O!Put(annos, k, v) /\ image'.volumes = vols /\ image'.ports = ports
    BY <1>0, <2>0
  <2>3. k[1] = "text" /\ v[1] = "text" /\ Paired(k, v)
    BY <2>a, <2>b DEF Paired
  <2>4. /\ \A l \in DOMAIN annos : annos[l] = v => IsText(l)
        /\ IsText(k) /\ Placed(k, v, vols, ports)
    BY <1>k, <2>3 DEF IsText, Placed
  <2>5. Named(O!Put(annos, k, v), vols, ports)
    BY <1>0, <2>3, <2>4, PutNamed
  <2> QED  BY <1>1, <2>2, <2>5
<1>3. CASE \E k \in UserKeys : image' = [image EXCEPT !.annotations = O!Without(@, k)]
  <2>1. PICK n : image' = [image EXCEPT !.annotations = O!Without(annos, n)]
    BY <1>3
  <2>2. image'.annotations = O!Without(annos, n) /\ image'.volumes = vols /\ image'.ports = ports
    BY <1>0, <2>1
  <2>3. Named(O!Without(annos, n), vols, ports)
    <3>1. \A k \in DOMAIN annos : Placed(k, annos[k], vols, ports)
      BY <1>0 DEF Named
    <3> QED  BY <1>0, <3>1, WithoutNamed
  <2> QED  BY <1>1, <2>2, <2>3
<1>4. CASE \E n \in Name : \E path \in Path :
              /\ <<"mount", n>> \notin DOMAIN annos /\ FreePath(path)
              /\ image' = [image EXCEPT !.volumes = @ \cup {path},
                                        !.annotations = O!Put(@, <<"mount", n>>, <<"path", path>>)]
  <2>1. PICK n \in Name, path \in Path :
           /\ FreePath(path)
           /\ image' = [image EXCEPT !.volumes = vols \cup {path},
                                     !.annotations = O!Put(annos, <<"mount", n>>, <<"path", path>>)]
    BY <1>0, <1>4
  <2>2. /\ image'.annotations = O!Put(annos, <<"mount", n>>, <<"path", path>>)
        /\ image'.volumes = vols \cup {path} /\ image'.ports = ports
    BY <1>0, <2>1
  <2>3. <<"mount", n>>[1] = "mount" /\ <<"path", path>>[1] = "path" /\ <<"path", path>>[2] = path
    OBVIOUS
  <2>4. \A l \in DOMAIN annos : annos[l] # <<"path", path>>
    <3> SUFFICES ASSUME NEW l \in DOMAIN annos, annos[l] = <<"path", path>> PROVE FALSE
      OBVIOUS
    <3>1. l[1] = "mount"
      BY <1>k, <2>3
    <3>2. Tail(annos[l]) = <<path>>
      BY <1>k, <2>3, <3>1
    <3> QED  BY <2>1, <3>1, <3>2 DEF FreePath, Shared, Naming
  <2>5. Placed(<<"mount", n>>, <<"path", path>>, vols \cup {path}, ports)
    <3>1. path \notin DOMAIN Cut
      BY <2>1 DEF FreePath, Naming
    <3> QED  BY <2>3, <3>1 DEF Placed, Paired, O!PathIn
  <2>6. Named(O!Put(annos, <<"mount", n>>, <<"path", path>>), vols \cup {path}, ports)
    BY <1>0, <2>4, <2>5, PutNamed
  <2> QED  BY <1>1, <2>2, <2>6
<1>5. CASE \E x, a : /\ a \in O!DropOne(annos, <<"path", x>>)
                     /\ image' = [image EXCEPT !.volumes = @ \ {x}, !.annotations = a]
  <2>1. PICK x, a : /\ a \in O!DropOne(annos, <<"path", x>>)
                    /\ image' = [image EXCEPT !.volumes = vols \ {x}, !.annotations = a]
    BY <1>5
  <2>2. image'.annotations = a /\ image'.volumes = vols \ {x} /\ image'.ports = ports
    BY <1>0, <2>1
  <2>3. \A k \in DOMAIN annos : annos[k] = <<"path", x>> => ~IsText(k)
    <3>1. <<"path", x>>[1] = "path"
      OBVIOUS
    <3> QED  BY <1>k, <3>1 DEF IsText
  <2>4. \A k \in DOMAIN annos : annos[k] # <<"path", x>> => Placed(k, annos[k], vols \ {x}, ports)
    BY <1>0, <1>k DEF Named, Placed
  <2>5. Named(a, vols \ {x}, ports)
    BY <1>0, <2>1, <2>3, <2>4, DropNamed
  <2> QED  BY <1>1, <2>2, <2>5
<1>6. CASE \E n : /\ <<"mount", n>> \in DOMAIN annos
                  /\ image' = [image EXCEPT !.volumes = @ \ {O!PathIn(annos[<<"mount", n>>])},
                                            !.annotations = O!Without(@, <<"mount", n>>)]
  <2>0. PICK n : /\ <<"mount", n>> \in DOMAIN annos
                 /\ image' = [image EXCEPT !.volumes = vols \ {O!PathIn(annos[<<"mount", n>>])},
                                           !.annotations = O!Without(annos, <<"mount", n>>)]
    BY <1>0, <1>6
  <2>1. /\ <<"mount", n>> \in DOMAIN annos
        /\ image' = [image EXCEPT !.volumes = vols \ {annos[<<"mount", n>>][2]},
                                  !.annotations = O!Without(annos, <<"mount", n>>)]
    <3>1. <<"mount", n>>[1] = "mount"
      OBVIOUS
    <3>2. O!PathIn(annos[<<"mount", n>>]) = annos[<<"mount", n>>][2]
      BY <2>0, <3>1 DEF InStep
    <3> QED  BY <2>0, <3>2
  <2> DEFINE d == <<"mount", n>>
  <2>2. /\ image'.annotations = O!Without(annos, d)
        /\ image'.volumes = vols \ {annos[d][2]} /\ image'.ports = ports
    BY <1>0, <2>1
  <2>3. d[1] = "mount" /\ d \in DOMAIN annos
    BY <2>1
  <2> HIDE DEF d
  <2>4. ASSUME NEW k \in DOMAIN annos \ {d} PROVE Placed(k, annos[k], vols \ {annos[d][2]}, ports)
    <3>1. Placed(k, annos[k], vols, ports) /\ (~IsText(d) => annos[k] # annos[d])
      BY <1>0, <2>3 DEF Named
    <3>2. k[1] = "mount" => annos[k][2] # annos[d][2]
      BY <1>k, <2>3, <3>1 DEF IsText
    <3> QED  BY <3>1, <3>2 DEF Placed
  <2>5. Named(O!Without(annos, d), vols \ {annos[d][2]}, ports)
    BY <1>0, <2>4, WithoutNamed
  <2> QED  BY <1>1, <2>2, <2>5
<1>7. CASE \E n \in Name : \E num \in Number \ Services, proto \in Protocol :
              /\ <<"port", n>> \notin DOMAIN annos /\ FreePort(num, proto)
              /\ image' = [image EXCEPT !.ports = @ \cup {<<num, proto>>},
                           !.annotations = O!Put(@, <<"port", n>>, <<"port", num, proto>>)]
  <2>0. PICK n \in Name : \E num \in Number \ Services, proto \in Protocol :
           /\ <<"port", n>> \notin DOMAIN annos /\ FreePort(num, proto)
           /\ image' = [image EXCEPT !.ports = @ \cup {<<num, proto>>},
                        !.annotations = O!Put(@, <<"port", n>>, <<"port", num, proto>>)]
    BY <1>7
  <2>1. PICK num \in Number \ Services, proto \in Protocol :
           /\ FreePort(num, proto)
           /\ image' = [image EXCEPT !.ports = ports \cup {<<num, proto>>},
                        !.annotations = O!Put(annos, <<"port", n>>, <<"port", num, proto>>)]
    BY <1>0, <2>0
  <2> DEFINE d == <<"port", n>>
             v == <<"port", num, proto>>
  <2>2. /\ image'.annotations = O!Put(annos, d, v)
        /\ image'.ports = ports \cup {<<num, proto>>} /\ image'.volumes = vols
    BY <1>0, <2>1
  <2>3. d[1] = "port" /\ v[1] = "port" /\ Tail(v) = <<num, proto>>
    BY TailOfPort
  <2>7. Paired(d, v)
    BY DEF Paired, PortValues
  <2> HIDE DEF d, v
  <2>4. \A l \in DOMAIN annos : annos[l] # v
    <3> SUFFICES ASSUME NEW l \in DOMAIN annos, annos[l] = v PROVE FALSE
      OBVIOUS
    <3>1. l[1] = "port"
      BY <1>k, <2>3
    <3> QED  BY <2>1, <2>3, <3>1 DEF FreePort, Shared, Naming
  <2>6. Placed(d, v, vols, ports \cup {<<num, proto>>})
    BY <2>3, <2>7 DEF Placed
  <2>5. Named(O!Put(annos, d, v), vols, ports \cup {<<num, proto>>})
    BY <1>0, <2>4, <2>6, PutNamed
  <2> QED  BY <1>1, <2>2, <2>5
<1>8. CASE \E key, a : /\ key \in ports /\ Len(key) # 1
                       /\ a \in O!DropOne(annos, <<"port">> \o key)
                       /\ image' = [image EXCEPT !.ports = @ \ {key}, !.annotations = a]
  <2>1. PICK key, a : /\ key \in ports /\ Len(key) # 1
                      /\ a \in O!DropOne(annos, <<"port">> \o key)
                      /\ image' = [image EXCEPT !.ports = ports \ {key}, !.annotations = a]
    BY <1>8
  <2>2. image'.annotations = a /\ image'.ports = ports \ {key} /\ image'.volumes = vols
    BY <1>0, <2>1
  <2> DEFINE v == <<"port">> \o key
  <2>3. v[1] = "port"
    <3>1. key \in Number \X Protocol
      <4>1. \A n : Len(<<n>>) = 1
        OBVIOUS
      <4>2. key \in (Number \X Protocol) \cup {<<n>> : n \in Number}
        BY <2>1 DEF ImageType
      <4>3. key \notin {<<n>> : n \in Number}
        BY <2>1, <4>1
      <4> QED  BY <4>2, <4>3
    <3>2. PICK n, p : key = <<n, p>>
      <4>1. key = <<key[1], key[2]>>
        BY <3>1, PairIsTuple, Zenon
      <4> QED  BY <4>1, Zenon
    <3>3. v = <<"port", n, p>>
      <4>1. <<"port">> \o <<n, p>> = <<"port", n, p>>
        BY TailOfPort
      <4> QED  BY <3>2, <4>1, Zenon
    <3> HIDE DEF v
    <3> QED  BY <3>3
  <2> HIDE DEF v
  <2>4. \A k \in DOMAIN annos : annos[k] = v => ~IsText(k)
    BY <1>k, <2>3 DEF IsText
  <2>5. ASSUME NEW k \in DOMAIN annos, annos[k] # v PROVE Placed(k, annos[k], vols, ports \ {key})
    <3>1. Placed(k, annos[k], vols, ports)
      BY <1>0 DEF Named
    <3>2. k[1] = "port" => Tail(annos[k]) # key
      BY <1>k, <2>5 DEF v
    <3> QED  BY <3>1, <3>2 DEF Placed
  <2>6. a \in O!DropOne(annos, v)
    BY <2>1 DEF v
  <2>7. Named(a, vols, ports \ {key})
    BY <1>0, <2>4, <2>5, <2>6, DropNamed
  <2> QED  BY <1>1, <2>2, <2>7
<1>9. CASE \E n : /\ <<"port", n>> \in DOMAIN annos
                  /\ image' = [image EXCEPT !.ports = @ \ {O!PortIn(annos[<<"port", n>>])},
                                            !.annotations = O!Without(@, <<"port", n>>)]
  <2>0. PICK n : /\ <<"port", n>> \in DOMAIN annos
                 /\ image' = [image EXCEPT !.ports = ports \ {O!PortIn(annos[<<"port", n>>])},
                                           !.annotations = O!Without(annos, <<"port", n>>)]
    BY <1>0, <1>9
  <2>1. /\ <<"port", n>> \in DOMAIN annos
        /\ image' = [image EXCEPT !.ports = ports \ {Tail(annos[<<"port", n>>])},
                                  !.annotations = O!Without(annos, <<"port", n>>)]
    <3>1. <<"port", n>>[1] = "port"
      OBVIOUS
    <3>2. annos[<<"port", n>>][1] = "port"
      BY <1>k, <2>0, <3>1
    <3> QED  BY <2>0, <3>2 DEF O!PortIn
  <2> DEFINE d == <<"port", n>>
  <2>2. /\ image'.annotations = O!Without(annos, d)
        /\ image'.ports = ports \ {Tail(annos[d])} /\ image'.volumes = vols
    BY <1>0, <2>1
  <2>3. d[1] = "port" /\ d \in DOMAIN annos
    BY <2>1
  <2> HIDE DEF d
  <2>4. ASSUME NEW k \in DOMAIN annos \ {d} PROVE Placed(k, annos[k], vols, ports \ {Tail(annos[d])})
    <3>1. Placed(k, annos[k], vols, ports) /\ (~IsText(d) => annos[k] # annos[d])
      BY <1>0, <2>3 DEF Named
    <3>2. k[1] = "port" => Tail(annos[k]) # Tail(annos[d])
      <4> SUFFICES ASSUME k[1] = "port", Tail(annos[k]) = Tail(annos[d]) PROVE FALSE
        OBVIOUS
      <4>1. annos[k] = annos[d]
        <5>1. annos[k] = <<"port">> \o Tail(annos[k])
          BY <1>k
        <5>2. annos[d] = <<"port">> \o Tail(annos[d])
          BY <1>k, <2>3
        <5> QED  BY <5>1, <5>2
      <4> QED  BY <2>3, <3>1, <4>1 DEF IsText
    <3> QED  BY <3>1, <3>2 DEF Placed
  <2>5. Named(O!Without(annos, d), vols, ports \ {Tail(annos[d])})
    BY <1>0, <2>4, WithoutNamed
  <2> QED  BY <1>1, <2>2, <2>5
<1>10. CASE image' = image
  BY <1>10
<1> HIDE DEF annos, ports, vols
<1> QED
  BY <1>2, <1>3, <1>4, <1>5, <1>6, <1>7, <1>8, <1>9, <1>10, NamingShape DEF annos, ports

\* The edits of the rest of the config, and replace-manifest.
LEMMA ConfigFine ==
    ImageType(image) /\ ConfigEdit
      => /\ ImageType(image') /\ exit' \in 0..2
         /\ InStep(image) => InStep(image')
<1> SUFFICES ASSUME ImageType(image), ConfigEdit
             PROVE  /\ ImageType(image') /\ exit' \in 0..2
                    /\ InStep(image) => InStep(image')
  OBVIOUS
<1> USE DEF O!Save, O!Fail
<1>0. 0 \in 0..2 /\ 1 \in 0..2
  OBVIOUS
<1>1. ASSUME NEW x \in {"env", "entry", "dir", "ref", "user"}, NEW v, image' = [image EXCEPT ![x] = v],
             x = "user" => v \in Seq(Value \cup {Empty}) /\ Len(v) \in 1..2
      PROVE  ImageType(image') /\ (InStep(image) => InStep(image'))
  <2>1. /\ DOMAIN image' = DOMAIN image
        /\ \A y \in DOMAIN image \ {x} : image'[y] = image[y]
        /\ x \in DOMAIN image => image'[x] = v
    BY <1>1
  <2>2. /\ image'.annotations = image.annotations /\ image'.volumes = image.volumes
        /\ image'.ports = image.ports
    BY <2>1 DEF ImageType
  <2>3. image'.user \in Seq(Value \cup {Empty}) /\ Len(image'.user) \in 1..2
    BY <1>1, <2>1 DEF ImageType
  <2>4. ImageType(image')
    BY <2>1, <2>2, <2>3 DEF ImageType
  <2> QED  BY <2>2, <2>4 DEF InStep
<1>2. CASE image' = image /\ exit' = 1
  BY <1>0, <1>2
<1>3. CASE \E n, v : O!AddLabel(n, v) \/ O!AddEnv(n, v)
  BY <1>0, <1>1, <1>2, <1>3 DEF O!AddLabel, O!AddEnv
<1>4. CASE \E n : O!RemoveLabel(n) \/ O!RemoveEnv(n)
  BY <1>0, <1>1, <1>2, <1>4 DEF O!RemoveLabel, O!RemoveEnv
<1>5. CASE \E v : O!SetWorkingDir(v) \/ O!SetTag(v)
  BY <1>0, <1>1, <1>2, <1>5 DEF O!SetWorkingDir, O!SetTag
<1>6. CASE \E cmd : O!SetExec(cmd)
  <2>1. PICK e, c : image' = [image EXCEPT !.entry = e, !.cmd = c] /\ exit' = 0
    BY <1>6 DEF O!SetExec
  <2>2. /\ DOMAIN image' = DOMAIN image
        /\ \A y \in DOMAIN image \ {"entry", "cmd"} : image'[y] = image[y]
    BY <2>1
  <2>3. ImageType(image')
    BY <2>2 DEF ImageType
  <2> QED  BY <1>0, <2>1, <2>2, <2>3 DEF InStep, ImageType
<1>7. ASSUME NEW u \in Value \cup {Empty}, O!SetUser(u)
      PROVE  ImageType(image') /\ exit' \in 0..2 /\ (InStep(image) => InStep(image'))
  <2> DEFINE w == <<u>> \o Tail(image.user)
  <2>1. w \in Seq(Value \cup {Empty}) /\ Len(w) \in 1..2
    <3>1. image.user \in Seq(Value \cup {Empty}) /\ Len(image.user) \in 1..2
      BY DEF ImageType
    <3>2. Tail(image.user) \in Seq(Value \cup {Empty}) /\ Len(Tail(image.user)) = Len(image.user) - 1
      BY <3>1
    <3>3. <<u>> \in Seq(Value \cup {Empty}) /\ Len(<<u>>) = 1
      OBVIOUS
    <3>4. w \in Seq(Value \cup {Empty}) /\ Len(w) = Len(<<u>>) + Len(Tail(image.user))
      BY <3>2, <3>3, ConcatProperties
    <3> HIDE DEF w
    <3> QED  BY <3>1, <3>2, <3>3, <3>4
  <2>2. \/ image' = [image EXCEPT !.user = w] /\ exit' = 0
        \/ image' = image /\ exit' = 1
    BY <1>7, Zenon DEF O!SetUser
  <2> HIDE DEF w
  <2> QED  BY <1>0, <1>1, <1>2, <2>1, <2>2
<1>8. ASSUME NEW g \in Value \cup {Empty}, O!SetGroup(g)
      PROVE  ImageType(image') /\ exit' \in 0..2 /\ (InStep(image) => InStep(image'))
  <2> DEFINE w == <<Head(image.user), g>>
  <2>1. w \in Seq(Value \cup {Empty}) /\ Len(w) \in 1..2
    <3>1. Head(image.user) \in Value \cup {Empty}
      BY DEF ImageType
    <3> QED  BY <3>1
  <2>2. \/ image' = [image EXCEPT !.user = w] /\ exit' = 0
        \/ image' = image /\ exit' = 1
    BY <1>8, Zenon DEF O!SetGroup
  <2> HIDE DEF w
  <2> QED  BY <1>0, <1>1, <1>2, <2>1, <2>2
<1> QED  BY <1>2, <1>3, <1>4, <1>5, <1>6, <1>7, <1>8 DEF ConfigEdit

\* The file's volumes are merged into the config, its user takes the old one's
\* place, and the names stay.
LEMMA ReplaceFine ==
    ImageType(image) /\ ReplaceEdit
      => /\ ImageType(image') /\ exit' \in 0..2
         /\ InStep(image) => InStep(image')
<1> SUFFICES ASSUME ImageType(image), NEW f \in Files, O!Replace(OciFile(f))
             PROVE  /\ ImageType(image') /\ exit' \in 0..2
                    /\ InStep(image) => InStep(image')
  BY DEF ReplaceEdit
<1> DEFINE file == OciFile(f)
<1>1. /\ DOMAIN file \subseteq {"env", "entry", "cmd", "user", "dir", "volumes"}
      /\ "volumes" \in DOMAIN file => file.volumes = f.volumes
      /\ "user" \in DOMAIN file => file.user = <<f.user, f.group>> /\ "user" \in DOMAIN f
  BY DEF OciFile
<1>2. f.volumes \subseteq Path
  BY FilesAssumption
<1>3. "user" \in DOMAIN f => f.user \in Value /\ f.group \in Value \cup {Empty}
  BY FilesAssumption
<1> HIDE DEF file
<1>4. /\ image' = [x \in DOMAIN image |->
                     IF x \notin DOMAIN file THEN image[x]
                     ELSE IF x \in {"volumes", "ports"} THEN image[x] \cup file[x] ELSE file[x]]
      /\ exit' = 0
  BY DEF O!Replace, O!Save, file
<1>5. /\ DOMAIN image' = DOMAIN image
      /\ image'.annotations = image.annotations /\ image'.ports = image.ports
      /\ image'.volumes = IF "volumes" \in DOMAIN file THEN image.volumes \cup f.volumes ELSE image.volumes
      /\ image'.user = IF "user" \in DOMAIN file THEN <<f.user, f.group>> ELSE image.user
  BY <1>1, <1>4 DEF ImageType
<1>6. image.volumes \subseteq image'.volumes /\ image'.volumes \subseteq Path
  BY <1>2, <1>5 DEF ImageType
<1>7. image'.user \in Seq(Value \cup {Empty}) /\ Len(image'.user) \in 1..2
  <2>1. CASE image'.user = image.user
    BY <2>1 DEF ImageType
  <2>2. CASE image'.user = <<f.user, f.group>> /\ "user" \in DOMAIN f
    BY <1>3, <2>2
  <2> QED  BY <1>1, <1>5, <2>1, <2>2
<1>8. ImageType(image')
  BY <1>5, <1>6, <1>7 DEF ImageType
<1>9. InStep(image) => InStep(image')
  BY <1>5, <1>6 DEF InStep
<1> QED  BY <1>4, <1>8, <1>9

-----------------------------------------------------------------------------
(* A command is an edit of the manifest's mode.                                *)

AppcEdit == A!Fail(1) \/ AppPartEdit \/ MountEdit \/ PortEdit \/ ManifestPartEdit
OciEdit == ConfigEdit \/ NamingEdit \/ ReplaceEdit

Edit ==
    /\ edits < MaxEdits /\ edits' = edits + 1 /\ mode' = mode
    /\ \/ mode = "appc" /\ AppcEdit /\ UNCHANGED image
       \/ mode = "oci" /\ OciEdit /\ UNCHANGED man

\* A handler that runs one of the two is an edit.
LEMMA RunIsEdit ==
    ASSUME NEW c, NEW ACTION appc, NEW ACTION oci, Run(c, InMode(appc, oci)),
           mode = "appc" /\ appc => AppcEdit,
           mode = "oci" /\ oci => OciEdit
    PROVE  Edit
BY DEF Run, InMode, Edit

LEMMA NextIsEdit == Next => Edit
<1>0. /\ A!Fail(1) => AppcEdit
      /\ O!Fail => OciEdit
  BY DEF AppcEdit, OciEdit, ConfigEdit
<1>1. RunAddAnno \/ RunRmAnno => Edit
  BY <1>0, RunIsEdit
  DEF RunAddAnno, RunRmAnno, AppcOnly, AppcEdit, OciEdit, ManifestPartEdit, NamingEdit
<1>2. RunAddLabel \/ RunRmLabel => Edit
  BY <1>0, RunIsEdit
  DEF RunAddLabel, RunRmLabel, AppcOnly, AppcEdit, OciEdit, ManifestPartEdit, ConfigEdit
<1>3. RunAddEnv \/ RunRemoveEnv => Edit
  BY <1>0, RunIsEdit
  DEF RunAddEnv, RunRemoveEnv, AppcOnly, AppcEdit, OciEdit, AppPartEdit, ConfigEdit
<1>4. RunAddMount \/ RunRmMount => Edit
  <2>1. ASSUME RunAddMount PROVE Edit
    <3>1. PICK n \in Name, p \in Path, ro \in BOOLEAN :
             /\ Usually("shared path", ~Shared("mount", <<p>>)) /\ Usually("blank", p \notin DOMAIN Cut)
             /\ Run([op |-> "add mount", new |-> [name |-> n, path |-> p, ro |-> ro]],
                    InMode(A!AddMount(n, p, ro), O!AddMount(n, p, ro)))
      BY <2>1 DEF RunAddMount
    <3>2. A!AddMount(n, p, ro) => AppcEdit
      BY DEF AppcEdit, MountEdit
    <3>3. mode = "oci" => FreePath(p)
      BY <3>1 DEF FreePath, Usually
    <3>4. FreePath(p) /\ O!AddMount(n, p, ro) => OciEdit
      BY DEF OciEdit, NamingEdit
    <3> QED  BY <3>1, <3>2, <3>3, <3>4 DEF Run, InMode, Edit
  <2>2. RunRmMount => Edit
    BY RunIsEdit DEF RunRmMount, AppcEdit, OciEdit, MountEdit, NamingEdit
  <2> QED  BY <2>1, <2>2
<1>5. RunAddPort \/ RunRmPort => Edit
  <2>1. ASSUME RunAddPort PROVE Edit
    <3>1. PICK n \in Name, proto \in Protocol, num \in Number \ Services, opts \in SUBSET {"range", "sock"} :
             /\ Usually("shared port", ~Shared("port", <<num, proto>>))
             /\ Run([op |-> "add port",
                     new |-> [name |-> n, number |-> num, protocol |-> proto, opts |-> opts]],
                    InMode(A!AddPort(n, proto, num, opts), O!AddPort(n, proto, num, opts)))
      BY <2>1 DEF RunAddPort
    <3>2. A!AddPort(n, proto, num, opts) => AppcEdit
      BY DEF AppcEdit, PortEdit
    <3>3. mode = "oci" => FreePort(num, proto)
      BY <3>1 DEF FreePort, Usually
    <3>4. FreePort(num, proto) /\ O!AddPort(n, proto, num, opts) => OciEdit
      BY DEF OciEdit, NamingEdit
    <3> QED  BY <3>1, <3>2, <3>3, <3>4 DEF Run, InMode, Edit
  <2>2. RunRmPort => Edit
    BY RunIsEdit DEF RunRmPort, AppcEdit, OciEdit, PortEdit, NamingEdit
  <2> QED  BY <2>1, <2>2
<1>6. RunAddDep \/ RunRmDep => Edit
  <2>1. ASSUME NEW n, NEW d, Run([op |-> "add dep", new |-> d], AppcOnly(A!IfLegal(n, A!AddDependency(d))))
        PROVE  Edit
    <3>1. A!IfLegal(n, A!AddDependency(d)) => AppcEdit
      BY DEF AppcEdit, ManifestPartEdit
    <3> QED  BY <1>0, <2>1, <3>1 DEF Run, InMode, AppcOnly, Edit
  <2>2. ASSUME NEW n, Run([op |-> "remove dep", name |-> n], AppcOnly(A!RemoveDependency(n)))
        PROVE  Edit
    <3>1. A!RemoveDependency(n) => AppcEdit
      BY DEF AppcEdit, ManifestPartEdit
    <3> QED  BY <1>0, <2>2, <3>1 DEF Run, InMode, AppcOnly, Edit
  <2> QED  BY <2>1, <2>2 DEF RunAddDep, RunRmDep
<1>7. RunAddIso \/ RunRemoveIso => Edit
  BY <1>0, RunIsEdit
  DEF RunAddIso, RunRemoveIso, AppcOnly, AppcEdit, OciEdit, AppPartEdit
<1>8. RunSetHandler \/ RunSetName \/ RunSetSuppGroups => Edit
  BY <1>0, RunIsEdit
  DEF RunSetHandler, RunSetName, RunSetSuppGroups, AppcOnly, AppcEdit, OciEdit, AppPartEdit, ManifestPartEdit
<1>9. RunSetExec \/ RunSetUser \/ RunSetGroup => Edit
  BY <1>0, RunIsEdit
  DEF RunSetExec, RunSetUser, RunSetGroup, AppcOnly, AppcEdit, OciEdit, AppPartEdit, ConfigEdit
<1>10. RunSetWorkingDir \/ RunSetTag => Edit
  BY <1>0, RunIsEdit
  DEF RunSetWorkingDir, RunSetTag, AppcOnly, AppcEdit, OciEdit, AppPartEdit, ManifestPartEdit, ConfigEdit
<1>11. RunReplaceMan \/ RunReplaceNoMan => Edit
  <2>1. ASSUME NEW f \in Files,
               Run([op |-> "replace", file |-> f], InMode(A!Replace(f), O!Replace(OciFile(f))))
        PROVE  Edit
    <3>1. A!Replace(f) => AppcEdit
      BY DEF AppcEdit, ManifestPartEdit
    <3>2. O!Replace(OciFile(f)) => OciEdit
      BY DEF OciEdit, ReplaceEdit
    <3> QED  BY <2>1, <3>1, <3>2 DEF Run, InMode, Edit
  <2>2. RunReplaceMan => Edit
    BY <2>1 DEF RunReplaceMan
  <2>3. RunReplaceNoMan => Edit
    BY <1>0, RunIsEdit DEF RunReplaceNoMan
  <2> QED  BY <2>2, <2>3
<1> QED
  BY <1>1, <1>2, <1>3, <1>4, <1>5, <1>6, <1>7, <1>8, <1>9, <1>10, <1>11 DEF Next

-----------------------------------------------------------------------------
(* The invariants.                                                             *)

LEMMA EditKeepsType == TypeOK /\ NamesUnique /\ Edit => TypeOK' /\ NamesUnique'
<1> SUFFICES ASSUME TypeOK, NamesUnique, Edit PROVE TypeOK' /\ NamesUnique'
  OBVIOUS
<1>1. mode' = mode /\ mode \in {"appc", "oci"} /\ edits' \in 0..MaxEdits
  BY BoundAssumption DEF TypeOK, Edit
<1>2. CASE mode = "appc"
  <2>1. Fine(man) /\ AppcEdit
    BY <1>2 DEF TypeOK, NamesUnique, Fine, Edit
  <2>2. Fine(man') /\ exit' \in 0..2
    BY <2>1, AppPartFine, MountsFine, PortsFine, ManifestPartFine, FailFine DEF AppcEdit
  <2> QED  BY <1>1, <1>2, <2>2 DEF TypeOK, NamesUnique, Fine
<1>3. CASE mode = "oci"
  <2>1. ImageType(image) /\ OciEdit
    BY <1>3 DEF TypeOK, Edit
  <2>2. ImageType(image') /\ exit' \in 0..2
    BY <2>1, ConfigFine, NamingType, ReplaceFine DEF OciEdit
  <2> QED  BY <1>1, <1>3, <2>2 DEF TypeOK, NamesUnique
<1> QED  BY <1>1, <1>2, <1>3

LEMMA EditKeepsStep ==
    Naming \subseteq Avoid /\ TypeOK /\ NamesInStep /\ Edit => NamesInStep'
<1> SUFFICES ASSUME Naming \subseteq Avoid, TypeOK, NamesInStep, Edit, mode' = "oci"
             PROVE  InStep(image')
  BY DEF NamesInStep
<1>1. ImageType(image) /\ InStep(image) /\ OciEdit
  BY DEF TypeOK, NamesInStep, Edit
<1> QED  BY <1>1, ConfigFine, NamingInStep, ReplaceFine DEF OciEdit

\* Every command of either mode keeps the form of the manifest it is about, whatever
\* its arguments, its exit code is one that getErrorCode or a panic gives, and no edit of an
\* AppC manifest makes two mount points with a name or a path in common or two ports
\* with a name.
THEOREM ManifestInvariant == Spec => [](TypeOK /\ NamesUnique)
<1>1. Init => TypeOK /\ NamesUnique
  BY EditsInit DEF EditsInv
<1>2. TypeOK /\ NamesUnique /\ [Next]_vars => TypeOK' /\ NamesUnique'
  <2>1. UNCHANGED vars => (TypeOK => TypeOK') /\ (NamesUnique => NamesUnique')
    BY DEF vars, TypeOK, NamesUnique
  <2> QED  BY <2>1, NextIsEdit, EditKeepsType
<1> QED  BY <1>1, <1>2, PTL DEF Spec

\* TypeOK of the run, for any names, values, files and starts.
THEOREM TypeCorrect == Spec => []TypeOK
BY ManifestInvariant, PTL

\* NamesUnique of the run: the edits of lib/appc keep names unique although the
\* validation of the manifest does not ask for it.
THEOREM NamesStayUnique == Spec => []NamesUnique
BY ManifestInvariant, PTL

\* NamesInStep of the run: as long as nobody gives two names to one path or one port
\* of an OCI image, names a path with a blank, or writes the annotations in which the
\* names are kept, the annotations and the config agree after every command, also after
\* those that remove by value and take whichever annotation the map yields first.
THEOREM NamesStayInStep == Naming \subseteq Avoid => (Spec => []NamesInStep)
<1> SUFFICES ASSUME Naming \subseteq Avoid PROVE Spec => []NamesInStep
  OBVIOUS
<1>1. Init => NamesInStep
  BY EditsInit DEF EditsInv
<1>2. TypeOK /\ NamesInStep /\ [Next]_vars => NamesInStep'
  <2>1. UNCHANGED vars => (NamesInStep => NamesInStep')
    BY DEF vars, NamesInStep
  <2> QED  BY <2>1, NextIsEdit, EditKeepsStep
<1> QED  BY <1>1, <1>2, TypeCorrect, PTL DEF Spec

-----------------------------------------------------------------------------
(* ManifestEdits implements ImageSettings: whichever the build mode, a command *)
(* that succeeds changes the one setting it names, and one that fails changes  *)
(* nothing.                                                                    *)

\* The usage that README lists as not in line with the promise is avoided; a path is
\* no name (it begins with a slash); None is no app section; a command has a word.
Plain ==
    /\ AllAvoid \subseteq Avoid
    /\ Name \cap Path = {}
    /\ DOMAIN None # DOMAIN A!AppOf(Empty)
    /\ Line \subseteq Seq(Value) \ {<<>>}

\* A file for replace-manifest, in the common form of either mode: what an OCI
\* config has no place for is not in it.
PlainFiles ==
    \A f \in Files :
       /\ DOMAIN f \cap {"annotations", "ref", "entry", "cmd"} = {}
       /\ "group" \in DOMAIN f => "user" \in DOMAIN f
       /\ "env" \in DOMAIN f => f.env \in [DOMAIN f.env -> Value]
       /\ "exec" \in DOMAIN f => f.exec \in Seq(Value) \ {<<>>}

Refused == exit' # 0 /\ Settings' = Settings

\* The setting x has become v.
Changed(x, v) == exit' = 0 /\ Settings' = [Settings EXCEPT ![x] = v]

-----------------------------------------------------------------------------
(* AppC.                                                                       *)

Own == {"name", "labels", "annotations", "deps"}
OfApp == {"user", "group", "exec", "supp", "dir", "env", "mounts", "ports", "isolators", "handlers"}

LEMMA AppFields == \A id : DOMAIN A!AppOf(id) = OfApp
BY DEF A!AppOf, OfApp

LEMMA AppcRead ==
    ASSUME Fine(man)
    PROVE  /\ DOMAIN A!App = OfApp
           /\ DOMAIN AppcSettings = Own \cup OfApp
           /\ \A x \in Own : AppcSettings[x] = man[x]
           /\ \A x \in OfApp : AppcSettings[x] = A!App[x]
<1>1. DOMAIN A!App = OfApp
  BY AppFine, AppFields DEF Fine, ManifestType
<1> QED  BY <1>1 DEF AppcSettings, Own, OfApp

\* A command that runs in AppC mode.
InAppc == Plain /\ PlainFiles /\ mode = "appc" /\ mode' = mode /\ Fine(man)

LEMMA AppcRefused ==
    ASSUME InAppc, A!Fail(1) \/ A!Fail(2)
    PROVE  Refused
BY DEF InAppc, A!Fail, Refused, Settings, AppcSettings, A!App

\* A field of the manifest itself.
LEMMA OwnChanged ==
    ASSUME InAppc, NEW x \in Own, NEW v,
           A!Save([man EXCEPT ![x] = v])
    PROVE  Refused \/ Changed(x, v)
<1> USE DEF InAppc
<1>1. CASE A!Fail(1)
  BY <1>1, AppcRefused
<1>2. CASE man' = [man EXCEPT ![x] = v] /\ exit' = 0
  <2>1. DOMAIN man = Own \cup {"app"}
    BY DEF Fine, ManifestType, Own
  <2>2. man'.app = man.app
    BY <1>2, <2>1 DEF Own
  <2>3. A!App' = A!App
    BY <2>2 DEF A!App
  <2>4. AppcSettings' = [AppcSettings EXCEPT ![x] = v]
    BY <1>2, <2>1, <2>3 DEF AppcSettings, Own
  <2> QED  BY <1>2, <2>4 DEF Changed, Settings
<1> QED  BY <1>1, <1>2 DEF A!Save

\* A field of the app section.
LEMMA AppChanged ==
    ASSUME InAppc, NEW x \in OfApp, NEW v,
           A!SaveApp([A!App EXCEPT ![x] = v])
    PROVE  Refused \/ Changed(x, v)
<1> USE DEF InAppc
<1> DEFINE a == [A!App EXCEPT ![x] = v]
<1>1. CASE A!Fail(1)
  BY <1>1, AppcRefused
<1>2. CASE man' = [man EXCEPT !.app = a] /\ exit' = 0
  <2>1. DOMAIN man = Own \cup {"app"}
    BY DEF Fine, ManifestType, Own
  <2>2. man'.app = a /\ \A y \in Own : man'[y] = man[y]
    BY <1>2, <2>1 DEF Own
  <2>3. DOMAIN A!App = OfApp /\ DOMAIN a = OfApp
    BY AppcRead
  <2>4. a # None
    BY <2>3, AppFields DEF Plain
  <2>5. A!App' = a
    BY <2>2, <2>4 DEF A!App
  <2>6. AppcSettings' = [AppcSettings EXCEPT ![x] = v]
    BY <2>2, <2>3, <2>5 DEF AppcSettings, Own, OfApp
  <2> QED  BY <1>2, <2>6 DEF Changed, Settings
<1> QED  BY <1>1, <1>2 DEF A!SaveApp, A!Save

-----------------------------------------------------------------------------
(* The promises that most commands make.                                       *)

LEMMA RefusedKept == Refused => User!Next
BY DEF Refused, User!Next

LEMMA SetKept ==
    ASSUME NEW x, NEW v, last' = Set(x, v), Refused \/ Changed(x, v)
    PROVE  User!Next
BY RefusedKept DEF Changed, User!Next, User!Promise, User!Becomes, Set

LEMMA PutKept ==
    ASSUME NEW x, NEW n, NEW v, last' = PutIn(x, n, v),
           Refused \/ Changed(x, User!Put(Settings[x], n, v))
    PROVE  User!Next
BY RefusedKept DEF Changed, User!Next, User!Promise, User!Becomes, PutIn

LEMMA TakeKept ==
    ASSUME NEW x, NEW n, last' = Take(x, n),
           Refused \/ (n \in DOMAIN Settings[x] /\ Changed(x, User!Without(Settings[x], n)))
    PROVE  User!Next
BY RefusedKept DEF Changed, User!Next, User!Promise, User!Becomes, Take

LEMMA AppcSettingsRead ==
    ASSUME InAppc
    PROVE  /\ \A x \in Own : Settings[x] = man[x]
           /\ \A x \in OfApp : Settings[x] = A!App[x]
BY AppcRead DEF InAppc, Settings

AppcSet ==
    \/ \E n : last' = Set("name", n) /\ A!SetName(n)
    \/ \E v : last' = Set("supp", v) /\ A!SetSuppGroups(v)
    \/ \E v : last' = Set("exec", v) /\ A!SetExec(v)
    \/ \E v : last' = Set("user", v) /\ A!SetUser(v)
    \/ \E v : last' = Set("group", v) /\ A!SetGroup(v)
    \/ \E v : last' = Set("dir", v) /\ A!SetWorkingDir(v)

LEMMA AppcSetKept == InAppc /\ AppcSet => User!Next
<1> SUFFICES ASSUME InAppc, AppcSet PROVE User!Next
  OBVIOUS
<1>0. CASE A!Fail(1)
  BY <1>0, AppcRefused, RefusedKept
<1>1. ASSUME NEW x \in OfApp, NEW v, last' = Set(x, v), A!SaveApp([A!App EXCEPT ![x] = v])
      PROVE  User!Next
  BY <1>1, AppChanged, SetKept
<1>2. ASSUME NEW n, last' = Set("name", n), A!Save([man EXCEPT !["name"] = n])
      PROVE  User!Next
  BY <1>2, OwnChanged, SetKept DEF Own
<1> QED
  BY <1>0, <1>1, <1>2 DEF AppcSet, OfApp, A!SetName, A!SetSuppGroups, A!SetExec, A!SetUser,
     A!SetGroup, A!SetWorkingDir, A!IfLegal

AppcPut ==
    \/ \E n, v : last' = PutIn("annotations", n, v) /\ A!AddAnnotation(n, v)
    \/ \E n, v : last' = PutIn("labels", n, v) /\ A!AddLabel(n, v)
    \/ \E n, v : last' = PutIn("env", n, v) /\ A!AddEnv(n, v)
    \/ \E n, v : last' = PutIn("isolators", n, v) /\ A!AddIsolator(n, v)
    \/ \E n, v : last' = PutIn("handlers", n, v) /\ A!SetHandler(n, v)

LEMMA AppcPutKept == InAppc /\ AppcPut => User!Next
<1> SUFFICES ASSUME InAppc, AppcPut PROVE User!Next
  OBVIOUS
<1>0. CASE A!Fail(1)
  BY <1>0, AppcRefused, RefusedKept
<1>1. ASSUME NEW x \in OfApp, NEW n, NEW v, last' = PutIn(x, n, v),
             A!SaveApp([A!App EXCEPT ![x] = A!Put(@, n, v)])
      PROVE  User!Next
  <2>1. Settings[x] = A!App[x] /\ x \in DOMAIN A!App
    BY AppcSettingsRead, AppcRead DEF InAppc
  <2>2. A!SaveApp([A!App EXCEPT ![x] = User!Put(Settings[x], n, v)])
    BY <1>1, <2>1 DEF A!Put, User!Put
  <2> QED  BY <1>1, <2>2, AppChanged, PutKept
<1>2. ASSUME NEW x \in Own, NEW n, NEW v, last' = PutIn(x, n, v),
             A!Save([man EXCEPT ![x] = A!Put(@, n, v)])
      PROVE  User!Next
  <2>1. Settings[x] = man[x] /\ x \in DOMAIN man
    BY AppcSettingsRead DEF InAppc, Fine, ManifestType, Own
  <2>2. A!Save([man EXCEPT ![x] = User!Put(Settings[x], n, v)])
    BY <1>2, <2>1 DEF A!Put, User!Put
  <2> QED  BY <1>2, <2>2, OwnChanged, PutKept
<1> QED
  BY <1>0, <1>1, <1>2 DEF AppcPut, Own, OfApp, A!AddAnnotation, A!AddLabel, A!AddEnv,
     A!AddIsolator, A!SetHandler, A!IfLegal

AppcTake ==
    \/ \E n : last' = Take("annotations", n) /\ A!RemoveAnnotation(n)
    \/ \E n : last' = Take("labels", n) /\ A!RemoveLabel(n)
    \/ \E n : last' = Take("env", n) /\ A!RemoveEnv(n)
    \/ \E n : last' = Take("isolators", n) /\ A!RemoveIsolator(n)

LEMMA AppcTakeKept == InAppc /\ AppcTake => User!Next
<1> SUFFICES ASSUME InAppc, AppcTake PROVE User!Next
  OBVIOUS
<1>0. CASE A!Fail(1) \/ A!Fail(2)
  BY <1>0, AppcRefused, RefusedKept
<1>1. ASSUME NEW x \in OfApp, NEW n, last' = Take(x, n), n \in DOMAIN A!App[x],
             A!SaveApp([A!App EXCEPT ![x] = A!Without(@, n)])
      PROVE  User!Next
  <2>1. Settings[x] = A!App[x] /\ x \in DOMAIN A!App
    BY AppcSettingsRead, AppcRead DEF InAppc
  <2>2. A!SaveApp([A!App EXCEPT ![x] = User!Without(Settings[x], n)])
    BY <1>1, <2>1 DEF A!Without, User!Without
  <2> QED  BY <1>1, <2>1, <2>2, AppChanged, TakeKept
<1>2. ASSUME NEW x \in Own, NEW n, last' = Take(x, n), n \in DOMAIN man[x],
             A!Save([man EXCEPT ![x] = A!Without(@, n)])
      PROVE  User!Next
  <2>1. Settings[x] = man[x] /\ x \in DOMAIN man
    BY AppcSettingsRead DEF InAppc, Fine, ManifestType, Own
  <2>2. A!Save([man EXCEPT ![x] = User!Without(Settings[x], n)])
    BY <1>2, <2>1 DEF A!Without, User!Without
  <2> QED  BY <1>2, <2>1, <2>2, OwnChanged, TakeKept
<1> QED
  BY <1>0, <1>1, <1>2 DEF AppcTake, Own, OfApp, A!RemoveAnnotation, A!RemoveLabel, A!RemoveEnv,
     A!RemoveIsolator, A!IfLegal, A!IfFound, A!IfApp

\* Commands about mount points and ports: what they leave is what was there.
LEMMA ReplacesKept ==
    ASSUME NEW x, NEW S, x \in DOMAIN Settings, Changed(x, S)
    PROVE  /\ Settings'[x] = S
           /\ User!Becomes(x, Settings'[x])
BY DEF Changed, User!Becomes

AppcMount ==
    \/ \E n \in Name, p \in Path, ro \in BOOLEAN :
          /\ last' = [op |-> "add mount", new |-> [name |-> n, path |-> p, ro |-> ro]]
          /\ A!AddMount(n, p, ro)
    \/ \E x : last' = [op |-> "remove mount", arg |-> x] /\ A!RemoveMount(x)

LEMMA AppcMountKept == InAppc /\ AppcMount => User!Next
<1> SUFFICES ASSUME InAppc, AppcMount, ~(A!Fail(1) \/ A!Fail(2)) PROVE User!Next
  BY AppcRefused, RefusedKept
<1>1. /\ Settings.mounts = A!App.mounts /\ "mounts" \in DOMAIN Settings
      /\ A!App.mounts \in MountSet
  BY AppcSettingsRead, AppcRead, AppFine DEF InAppc, Settings, OfApp, Fine, ManifestType
<1>2. ASSUME NEW S, A!SaveApp([A!App EXCEPT !.mounts = S]), ~Refused
      PROVE  exit' = 0 /\ Settings'.mounts = S /\ User!Becomes("mounts", Settings'.mounts)
  BY <1>1, <1>2, AppChanged, ReplacesKept DEF OfApp, Changed
<1>3. CASE \E n \in Name, p \in Path, ro \in BOOLEAN :
              /\ last' = [op |-> "add mount", new |-> [name |-> n, path |-> p, ro |-> ro]]
              /\ A!AddMount(n, p, ro)
  <2>1. PICK n \in Name, p \in Path, ro \in BOOLEAN :
           /\ last' = [op |-> "add mount", new |-> [name |-> n, path |-> p, ro |-> ro]]
           /\ A!AddMount(n, p, ro)
    BY <1>3
  <2> DEFINE m == [name |-> n, path |-> p, ro |-> ro]
             S == (A!MountsBut(n) \cap A!MountsBut(p)) \cup {m}
  <2>2. A!SaveApp([A!App EXCEPT !.mounts = S])
    BY <2>1 DEF A!AddMount, A!IfLegal
  <2>3. \A e \in A!App.mounts \cup S :
           \/ e = m \/ e.name = n \/ e.path = p
           \/ (e \in A!App.mounts /\ e \in S)
    BY <1>1 DEF A!MountsBut, MountSet, InAppc, Plain
  <2> HIDE DEF S
  <2>4. CASE ~Refused
    <3>1. exit' = 0 /\ Settings'.mounts = S /\ User!Becomes("mounts", Settings'.mounts)
      BY <1>2, <2>2, <2>4
    <3>2. m \in S
      BY DEF S
    <3>3. User!AddMount(last')
      BY <1>1, <2>1, <2>3, <3>1, <3>2 DEF User!AddMount, User!Replaces
    <3> QED  BY <3>1, <3>3 DEF User!Next, User!Promise
  <2> QED  BY <2>4, RefusedKept
<1>4. CASE \E x : last' = [op |-> "remove mount", arg |-> x] /\ A!RemoveMount(x)
  <2>1. PICK x : last' = [op |-> "remove mount", arg |-> x] /\ A!RemoveMount(x)
    BY <1>4
  <2>2. A!MountsBut(x) # A!App.mounts /\ A!SaveApp([A!App EXCEPT !.mounts = A!MountsBut(x)])
    BY <2>1 DEF A!RemoveMount, A!IfApp, A!IfFound
  <2>3. CASE ~Refused
    <3>1. exit' = 0 /\ Settings'.mounts = A!MountsBut(x) /\ User!Becomes("mounts", Settings'.mounts)
      BY <1>2, <2>2, <2>3
    <3>2. /\ A!MountsBut(x) \subseteq A!App.mounts
          /\ \A e \in A!App.mounts \ A!MountsBut(x) : x \in {e.name, e.path}
      BY DEF A!MountsBut
    <3>3. User!RemoveMount(last')
      BY <1>1, <2>1, <2>2, <3>1, <3>2 DEF User!RemoveMount, User!Loses
    <3> QED  BY <3>1, <3>3 DEF User!Next, User!Promise
  <2> QED  BY <2>3, RefusedKept
<1> QED  BY <1>3, <1>4 DEF AppcMount

AppcPort ==
    \/ \E n \in Name, proto \in Protocol, num \in Number, opts \in SUBSET {"range", "sock"} :
          /\ last' = [op |-> "add port",
                      new |-> [name |-> n, number |-> num, protocol |-> proto, opts |-> opts]]
          /\ A!AddPort(n, proto, num, opts)
    \/ \E x \in {<<y>> : y \in Name \cup Number} \cup (Number \X Protocol) :
          last' = [op |-> "remove port", arg |-> x] /\ A!RemovePort(x)

LEMMA AppcPortKept == InAppc /\ AppcPort => User!Next
<1> SUFFICES ASSUME InAppc, AppcPort, ~(A!Fail(1) \/ A!Fail(2)) PROVE User!Next
  BY AppcRefused, RefusedKept
<1>1. /\ Settings.ports = A!App.ports /\ "ports" \in DOMAIN Settings
      /\ A!App.ports \in PortSet
  BY AppcSettingsRead, AppcRead, AppFine DEF InAppc, Settings, OfApp, Fine, ManifestType
<1>2. ASSUME NEW S, A!SaveApp([A!App EXCEPT !.ports = S]), ~Refused
      PROVE  exit' = 0 /\ Settings'.ports = S /\ User!Becomes("ports", Settings'.ports)
  BY <1>1, <1>2, AppChanged, ReplacesKept DEF OfApp, Changed
<1>3. CASE \E n \in Name, proto \in Protocol, num \in Number, opts \in SUBSET {"range", "sock"} :
              /\ last' = [op |-> "add port",
                          new |-> [name |-> n, number |-> num, protocol |-> proto, opts |-> opts]]
              /\ A!AddPort(n, proto, num, opts)
  <2>1. PICK n \in Name, proto \in Protocol, num \in Number, opts \in SUBSET {"range", "sock"} :
           /\ last' = [op |-> "add port",
                       new |-> [name |-> n, number |-> num, protocol |-> proto, opts |-> opts]]
           /\ A!AddPort(n, proto, num, opts)
    BY <1>3
  <2> DEFINE p == [name |-> n, number |-> num, protocol |-> proto, opts |-> opts]
             S == A!PortsBut(n) \cup {p}
  <2>2. A!SaveApp([A!App EXCEPT !.ports = S])
    BY <2>1 DEF A!AddPort, A!IfLegal
  <2>3. \A e \in A!App.ports \cup S :
           e = p \/ n \in {e.name, e.number} \/ (e \in A!App.ports /\ e \in S)
    BY DEF A!PortsBut
  <2> HIDE DEF S
  <2>4. CASE ~Refused
    <3>1. exit' = 0 /\ Settings'.ports = S /\ User!Becomes("ports", Settings'.ports)
      BY <1>2, <2>2, <2>4
    <3>2. p \in S
      BY DEF S
    <3>3. User!AddPort(last')
      BY <1>1, <2>1, <2>3, <3>1, <3>2 DEF User!AddPort, User!Replaces
    <3> QED  BY <3>1, <3>3 DEF User!Next, User!Promise
  <2> QED  BY <2>4, RefusedKept
<1>4. CASE \E x \in {<<y>> : y \in Name \cup Number} \cup (Number \X Protocol) :
              last' = [op |-> "remove port", arg |-> x] /\ A!RemovePort(x)
  <2>1. PICK x \in {<<y>> : y \in Name \cup Number} \cup (Number \X Protocol) :
           last' = [op |-> "remove port", arg |-> x] /\ A!RemovePort(x)
    BY <1>4
  <2>2. /\ Len(x) = 1 /\ A!PortsBut(x[1]) # A!App.ports
        /\ A!SaveApp([A!App EXCEPT !.ports = A!PortsBut(x[1])])
    BY <2>1 DEF A!RemovePort, A!IfApp, A!IfFound
  <2>3. x = <<x[1]>>
    <3>1. CASE x \in {<<y>> : y \in Name \cup Number}
      BY <3>1
    <3>2. CASE x \in Number \X Protocol
      BY <2>2, <3>2, PairIsTuple
    <3> QED  BY <2>1, <3>1, <3>2
  <2>4. CASE ~Refused
    <3>1. exit' = 0 /\ Settings'.ports = A!PortsBut(x[1]) /\ User!Becomes("ports", Settings'.ports)
      BY <1>2, <2>2, <2>4
    <3>2. /\ A!PortsBut(x[1]) \subseteq A!App.ports
          /\ \A e \in A!App.ports \ A!PortsBut(x[1]) : x \in {<<e.name>>, <<e.number>>}
      BY <2>3 DEF A!PortsBut
    <3>3. User!RemovePort(last')
      BY <1>1, <2>1, <2>2, <3>1, <3>2 DEF User!RemovePort, User!Loses
    <3> QED  BY <3>1, <3>3 DEF User!Next, User!Promise
  <2> QED  BY <2>4, RefusedKept
<1> QED  BY <1>3, <1>4 DEF AppcPort

\* Dependencies and the version label.
AppcOwn ==
    \/ \E n, d : d.name = n /\ last' = [op |-> "add dep", new |-> d] /\ A!IfLegal(n, A!AddDependency(d))
    \/ \E n : last' = [op |-> "remove dep", name |-> n] /\ A!RemoveDependency(n)
    \/ \E v : last' = [op |-> "tag", value |-> v, version |-> Version] /\ A!SetTag(v)

LEMMA SameOtherDeps ==
    ASSUME NEW n, Settings.deps = man.deps
    PROVE  User!OtherDeps(n) = A!OtherDeps(n)
<1> DEFINE But(s) == SelectSeq(s, LAMBDA d : d.name # n)
<1>1. A!OtherDeps(n) = But(man.deps)
  BY DEF A!OtherDeps
<1>2. User!OtherDeps(n) = But(Settings.deps)
  BY DEF User!OtherDeps
<1> HIDE DEF But
<1> QED  BY <1>1, <1>2

LEMMA AppcOwnKept == InAppc /\ AppcOwn => User!Next
<1> SUFFICES ASSUME InAppc, AppcOwn, ~(A!Fail(1) \/ A!Fail(2)) PROVE User!Next
  BY AppcRefused, RefusedKept
<1>1. /\ Settings.deps = man.deps /\ Settings.labels = man.labels
      /\ DOMAIN Settings = Own \cup OfApp /\ "ref" \notin DOMAIN Settings
  BY AppcSettingsRead, AppcRead DEF InAppc, Settings, Own, OfApp
<1>2. ASSUME NEW x \in Own, NEW v, A!Save([man EXCEPT ![x] = v]), ~Refused
      PROVE  exit' = 0 /\ User!Becomes(x, v)
  BY <1>2, OwnChanged DEF Changed, User!Becomes
<1>3. CASE \E n, d : d.name = n /\ last' = [op |-> "add dep", new |-> d] /\ A!IfLegal(n, A!AddDependency(d))
  <2>1. PICK d : last' = [op |-> "add dep", new |-> d] /\ A!AddDependency(d)
    BY <1>3 DEF A!IfLegal
  <2>2. A!Save([man EXCEPT !.deps = Append(User!OtherDeps(d.name), d)])
    BY <1>1, <2>1, SameOtherDeps DEF A!AddDependency
  <2>3. CASE ~Refused
    <3>1. exit' = 0 /\ User!Becomes("deps", Append(User!OtherDeps(d.name), d))
      BY <1>2, <2>2, <2>3 DEF Own
    <3>2. User!Dependencies(last')
      BY <2>1, <3>1 DEF User!Dependencies
    <3> QED  BY <3>1, <3>2 DEF User!Next, User!Promise
  <2> QED  BY <2>3, RefusedKept
<1>4. CASE \E n : last' = [op |-> "remove dep", name |-> n] /\ A!RemoveDependency(n)
  <2>1. PICK n : last' = [op |-> "remove dep", name |-> n] /\ A!RemoveDependency(n)
    BY <1>4
  <2>2. User!OtherDeps(n) # Settings.deps /\ A!Save([man EXCEPT !.deps = User!OtherDeps(n)])
    BY <1>1, <2>1, SameOtherDeps DEF A!RemoveDependency, A!IfLegal, A!IfFound
  <2>3. CASE ~Refused
    <3>1. exit' = 0 /\ User!Becomes("deps", User!OtherDeps(n))
      BY <1>2, <2>2, <2>3 DEF Own
    <3>2. User!Dependencies(last')
      BY <2>1, <2>2, <3>1 DEF User!Dependencies
    <3> QED  BY <3>1, <3>2 DEF User!Next, User!Promise
  <2> QED  BY <2>3, RefusedKept
<1>5. CASE \E v : last' = [op |-> "tag", value |-> v, version |-> Version] /\ A!SetTag(v)
  <2>1. PICK v : last' = [op |-> "tag", value |-> v, version |-> Version] /\ A!SetTag(v)
    BY <1>5
  <2>2. A!Save([man EXCEPT !.labels = User!Put(Settings.labels, Version, v)])
    BY <1>1, <2>1 DEF A!SetTag, A!AddLabel, A!IfLegal, A!Put, User!Put
  <2>3. CASE ~Refused
    <3>1. exit' = 0 /\ User!Becomes("labels", User!Put(Settings.labels, Version, v))
      BY <1>2, <2>2, <2>3 DEF Own
    <3>2. User!Tag(last')
      BY <1>1, <2>1, <3>1 DEF User!Tag
    <3> QED  BY <3>1, <3>2 DEF User!Next, User!Promise
  <2> QED  BY <2>3, RefusedKept
<1> QED  BY <1>3, <1>4, <1>5 DEF AppcOwn

LEMMA SameBlank ==
    \A i, j : \A x \in OfApp \ {"user", "group"} : A!AppOf(i)[x] = A!AppOf(j)[x]
<1> SUFFICES ASSUME NEW i, NEW j, NEW x \in OfApp \ {"user", "group"}
             PROVE  A!AppOf(i)[x] = A!AppOf(j)[x]
  OBVIOUS
<1>1. x \in {"exec", "supp", "dir", "env", "mounts", "ports", "isolators", "handlers"}
  BY DEF OfApp
<1>2. ASSUME NEW k
      PROVE  /\ A!AppOf(k).exec = <<>> /\ A!AppOf(k).supp = <<>> /\ A!AppOf(k).dir = Empty
             /\ A!AppOf(k).env = A!Nothing /\ A!AppOf(k).mounts = {} /\ A!AppOf(k).ports = {}
             /\ A!AppOf(k).isolators = A!Nothing /\ A!AppOf(k).handlers = A!Nothing
  BY DEF A!AppOf
<1> QED  BY <1>1, <1>2

\* A file with an app section that meets a manifest without one gives the user and
\* the group, or it would not be saved: what else is blank is blank either way.
LEMMA AppcReplaceKept ==
    ASSUME InAppc, NEW f \in Files, f.volumes = {},
           last' = [op |-> "replace", file |-> f], A!Replace(f)
    PROVE  User!Next
<1> DEFINE Over(r) == [x \in DOMAIN r |-> IF x \in DOMAIN f THEN f[x] ELSE r[x]]
           blank == A!AppOf(Empty)
           app == IF DOMAIN f \cap DOMAIN blank = {} THEN man.app
                  ELSE Over(IF man.app = None THEN blank ELSE man.app)
           m == [Over(man) EXCEPT !.app = app]
<1>1. A!Save(m)
  BY DEF A!Replace
<1>2. /\ DOMAIN man = Own \cup {"app"} /\ DOMAIN blank = OfApp
      /\ man.app # None => DOMAIN man.app = OfApp
  BY AppFields DEF InAppc, Fine, ManifestType, AppType, Own
<1>3. CASE A!Fail(1)
  BY <1>3, AppcRefused, RefusedKept
<1>4. CASE man' = m /\ exit' = 0 /\ (m.app # None => A!ValidApp(m.app))
  <2>1. man'.app = app /\ \A x \in Own : man'[x] = IF x \in DOMAIN f THEN f[x] ELSE man[x]
    BY <1>2, <1>4 DEF Own
  <2>2. /\ DOMAIN A!App' = OfApp
        /\ \A x \in OfApp : A!App'[x] = IF x \in DOMAIN f THEN f[x] ELSE A!App[x]
    <3>1. CASE DOMAIN f \cap OfApp = {}
      <4>1. A!App' = A!App
        BY <1>2, <2>1, <3>1 DEF A!App
      <4> QED  BY <3>1, <4>1, AppcRead DEF InAppc
    <3>2. CASE DOMAIN f \cap OfApp # {}
      <4>1. /\ app = Over(IF man.app = None THEN blank ELSE man.app)
            /\ DOMAIN app = OfApp
        BY <1>2, <3>2
      <4>2. app # None
        BY <4>1, AppFields DEF InAppc, Plain
      <4>3. A!App' = app
        BY <2>1, <4>2 DEF A!App
      <4>4. CASE man.app # None
        BY <1>2, <4>1, <4>3, <4>4 DEF A!App
      <4>5. CASE man.app = None
        <5>1. app = Over(blank) /\ A!App = A!AppOf("0")
          BY <4>1, <4>5 DEF A!App
        <5>2. m.app = app
          BY <1>2
        <5>3. app.user # Empty /\ app.group # Empty
          BY <1>4, <4>2, <5>2 DEF A!ValidApp
        <5>4. blank.user = Empty /\ blank.group = Empty
          BY DEF A!AppOf
        <5>5. "user" \in DOMAIN f /\ "group" \in DOMAIN f
          BY <1>2, <5>1, <5>3, <5>4 DEF OfApp
        <5>6. \A x \in OfApp \ {"user", "group"} : blank[x] = A!AppOf("0")[x]
          BY SameBlank
        <5> HIDE DEF blank, app
        <5> QED  BY <1>2, <4>1, <4>3, <5>1, <5>5, <5>6
      <4> QED  BY <4>4, <4>5
    <3> QED  BY <3>1, <3>2
  <2>3. /\ DOMAIN Settings = Own \cup OfApp /\ DOMAIN Settings' = Own \cup OfApp
        /\ \A x \in Own \cup OfApp :
              Settings'[x] = IF x \in DOMAIN f THEN f[x] ELSE Settings[x]
    <3>1. DOMAIN Settings = Own \cup OfApp
      BY AppcRead DEF InAppc, Settings
    <3>2. /\ DOMAIN Settings' = Own \cup OfApp
          /\ \A x \in Own : Settings'[x] = man'[x]
          /\ \A x \in OfApp \ Own : Settings'[x] = A!App'[x]
      BY <2>2 DEF InAppc, Settings, AppcSettings, Own
    <3>3. Own \cap OfApp = {}
      BY DEF Own, OfApp
    <3> QED  BY <2>1, <2>2, <3>1, <3>2, <3>3, AppcSettingsRead
  <2>4. "mounts" \notin DOMAIN f /\ "mounts" \in OfApp
    BY FilesAssumption DEF OfApp
  <2>5. Settings'.mounts = Settings.mounts
    BY <2>3, <2>4
  <2>6. User!Replace(last')
    BY <2>3, <2>5 DEF User!Replace
  <2> QED  BY <1>4, <2>6 DEF User!Next, User!Promise
<1> QED  BY <1>1, <1>3, <1>4 DEF A!Save

\* The commands of AppC mode.
LEMMA AppcStep ==
    ASSUME Plain, PlainFiles, mode = "appc", Fine(man), Next
    PROVE  User!Next
<1> USE DEF Run, InMode, AppcOnly
<1>2. RunAddAnno \/ RunAddLabel \/ RunAddEnv \/ RunAddIso \/ RunSetHandler => User!Next
  <2>1. RunAddAnno \/ RunAddLabel \/ RunAddEnv \/ RunAddIso \/ RunSetHandler => InAppc /\ AppcPut
    BY DEF RunAddAnno, RunAddLabel, RunAddEnv, RunAddIso, RunSetHandler, InAppc, AppcPut
  <2> QED  BY <2>1, AppcPutKept
<1>3. RunRmAnno \/ RunRmLabel \/ RunRemoveEnv \/ RunRemoveIso => User!Next
  <2>1. RunRmAnno \/ RunRmLabel \/ RunRemoveEnv \/ RunRemoveIso => InAppc /\ AppcTake
    BY DEF RunRmAnno, RunRmLabel, RunRemoveEnv, RunRemoveIso, InAppc, AppcTake
  <2> QED  BY <2>1, AppcTakeKept
<1>4. RunSetName \/ RunSetSuppGroups \/ RunSetExec \/ RunSetUser \/ RunSetGroup \/ RunSetWorkingDir
         => User!Next
  <2>1. RunSetName \/ RunSetSuppGroups \/ RunSetExec \/ RunSetUser \/ RunSetGroup \/ RunSetWorkingDir
           => InAppc /\ AppcSet
    BY DEF RunSetName, RunSetSuppGroups, RunSetExec, RunSetUser, RunSetGroup, RunSetWorkingDir,
       InAppc, AppcSet
  <2> QED  BY <2>1, AppcSetKept
<1>5. RunAddMount \/ RunRmMount => User!Next
  <2>1. RunAddMount \/ RunRmMount => InAppc /\ AppcMount
    BY DEF RunAddMount, RunRmMount, InAppc, AppcMount
  <2> QED  BY <2>1, AppcMountKept
<1>6. RunAddPort \/ RunRmPort => User!Next
  <2>1. RunAddPort \/ RunRmPort => InAppc /\ AppcPort
    BY DEF RunAddPort, RunRmPort, InAppc, AppcPort
  <2> QED  BY <2>1, AppcPortKept
<1>7. RunAddDep \/ RunRmDep \/ RunSetTag => User!Next
  <2>1. RunAddDep \/ RunRmDep \/ RunSetTag => InAppc /\ AppcOwn
    BY DEF RunAddDep, RunRmDep, RunSetTag, InAppc, AppcOwn
  <2> QED  BY <2>1, AppcOwnKept
<1>8. RunReplaceMan \/ RunReplaceNoMan => User!Next
  <2>1. RunReplaceMan => User!Next
    <3> SUFFICES ASSUME RunReplaceMan PROVE User!Next
      OBVIOUS
    <3>1. PICK f \in Files : /\ f.volumes = {} /\ InAppc
                             /\ last' = [op |-> "replace", file |-> f] /\ A!Replace(f)
      BY DEF RunReplaceMan, InAppc
    <3> QED  BY <3>1, AppcReplaceKept
  <2>2. RunReplaceNoMan => InAppc /\ A!Fail(1)
    BY DEF RunReplaceNoMan, InAppc
  <2> QED  BY <2>1, <2>2, AppcRefused, RefusedKept
<1> QED  BY <1>2, <1>3, <1>4, <1>5, <1>6, <1>7, <1>8 DEF Next

-----------------------------------------------------------------------------
(* OCI.                                                                        *)

OciFields == {"annotations", "env", "mounts", "ports", "exec", "user", "group", "dir", "ref"}

\* A command that runs in OCI mode.
InOci == Plain /\ PlainFiles /\ mode = "oci" /\ mode' = mode /\ ImageType(image) /\ InStep(image)

ExecOf(i) == i.entry \o i.cmd
UserOf(i) == i.user[1]
GroupOf(i) == IF Len(i.user) > 1 THEN i.user[2] ELSE Empty

LEMMA OciRead ==
    /\ DOMAIN OciSettings = OciFields
    /\ OciSettings.annotations = OciTexts /\ OciSettings.env = OciEnv
    /\ OciSettings.mounts = OciMounts /\ OciSettings.ports = OciPorts
    /\ OciSettings.exec = ExecOf(image)
    /\ OciSettings.user = UserOf(image) /\ OciSettings.group = GroupOf(image)
    /\ OciSettings.dir = image.dir /\ OciSettings.ref = image.ref
BY DEF OciSettings, OciFields, ExecOf, UserOf, GroupOf

LEMMA OciReadPrimed ==
    /\ DOMAIN OciSettings' = OciFields
    /\ OciSettings'.annotations = OciTexts' /\ OciSettings'.env = OciEnv'
    /\ OciSettings'.mounts = OciMounts' /\ OciSettings'.ports = OciPorts'
    /\ OciSettings'.exec = ExecOf(image')
    /\ OciSettings'.user = UserOf(image') /\ OciSettings'.group = GroupOf(image')
    /\ OciSettings'.dir = image'.dir /\ OciSettings'.ref = image'.ref
BY DEF OciSettings, OciFields, ExecOf, UserOf, GroupOf

LEMMA OciRefused ==
    ASSUME InOci, exit' # 0, image' = image
    PROVE  Refused
BY DEF InOci, Refused, Settings, OciSettings, OciTexts, OciEnv, ValuesOf, OciMounts, OciPorts, Says

LEMMA OciChanged ==
    ASSUME InOci, exit' = 0, NEW x \in OciFields,
           \A y \in OciFields \ {x} : OciSettings'[y] = OciSettings[y]
    PROVE  /\ Changed(x, OciSettings'[x])
           /\ Settings.mounts = OciMounts /\ Settings'.mounts = OciMounts'
           /\ Settings.ports = OciPorts /\ Settings'.ports = OciPorts'
           /\ x \in DOMAIN Settings
<1>1. OciSettings' = [OciSettings EXCEPT ![x] = OciSettings'[x]]
  <2>1. /\ DOMAIN OciSettings = OciFields /\ DOMAIN OciSettings' = OciFields
        /\ OciSettings = [y \in OciFields |-> OciSettings[y]]
        /\ OciSettings' = [y \in OciFields |-> OciSettings'[y]]
    <3>1. /\ OciSettings = [y \in DOMAIN OciSettings |-> OciSettings[y]]
          /\ OciSettings' = [y \in DOMAIN OciSettings' |-> OciSettings'[y]]
      BY DEF OciSettings
    <3> QED  BY <3>1, OciRead, OciReadPrimed
  <2> QED  BY <2>1
<1> QED  BY <1>1, OciRead, OciReadPrimed DEF Changed, Settings, InOci

\* An edit that leaves the annotations, the volumes and the ports.
LEMMA NamesUntouched ==
    ASSUME image'.annotations = image.annotations, image'.volumes = image.volumes,
           image'.ports = image.ports
    PROVE  OciTexts' = OciTexts /\ OciMounts' = OciMounts /\ OciPorts' = OciPorts
BY DEF OciTexts, OciMounts, OciPorts, Says

LEMMA EnvUntouched == image'.env = image.env => OciEnv' = OciEnv
BY DEF OciEnv, ValuesOf

NamingFields == {"annotations", "volumes", "ports"}

LEMMA ImageFields == ImageType(image) =>
    DOMAIN image = NamingFields \cup {"env", "entry", "cmd", "user", "dir", "ref"}
BY DEF ImageType, NamingFields

LEMMA Joined ==
    ASSUME NEW S, NEW h \in Seq(S), NEW t \in Seq(S)
    PROVE  /\ h \o t \in Seq(S) /\ Len(h \o t) = Len(h) + Len(t)
           /\ \A i \in 1..Len(h) + Len(t) : (h \o t)[i] = IF i <= Len(h) THEN h[i] ELSE t[i - Len(h)]
BY ConcatProperties

LEMMA WholeAgain ==
    ASSUME NEW S, NEW s \in Seq(S), s # <<>>
    PROVE  /\ SubSeq(s, 1, 1) \o Tail(s) = s
           /\ Len(s) <= 1 => SubSeq(s, 1, 1) \o <<>> = s
<1>1. Len(s) \in Nat /\ Len(s) >= 1 /\ s[1] \in S
  OBVIOUS
<1> DEFINE h == SubSeq(s, 1, 1)
<1>2. h \in Seq(S) /\ Len(h) = 1 /\ h[1] = s[1]
  BY <1>1
<1>3. Tail(s) \in Seq(S) /\ Len(Tail(s)) = Len(s) - 1 /\ \A i \in 1..(Len(s) - 1) : Tail(s)[i] = s[i + 1]
  BY <1>1
<1> HIDE DEF h
<1>4. ASSUME NEW t \in Seq(S), Len(t) = Len(s) - 1, \A i \in 1..(Len(s) - 1) : t[i] = s[i + 1]
      PROVE  h \o t = s
  <2> DEFINE c == h \o t
  <2>1. /\ c \in Seq(S) /\ Len(c) = Len(h) + Len(t)
        /\ \A i \in 1..Len(h) + Len(t) : c[i] = IF i <= Len(h) THEN h[i] ELSE t[i - Len(h)]
    BY <1>2, Joined
  <2> HIDE DEF c
  <2>2. \A i \in 1..Len(s) : c[i] = s[i]
    BY <1>1, <1>2, <1>4, <2>1
  <2>3. Len(c) = Len(s)
    BY <1>1, <1>2, <1>4, <2>1
  <2>4. c = s
    BY <2>1, <2>2, <2>3, SeqEqual
  <2> QED  BY <2>4 DEF c
<1>5. h \o Tail(s) = s
  BY <1>3, <1>4
<1>6. ASSUME Len(s) <= 1 PROVE h \o <<>> = s
  <2> DEFINE e == <<>>
  <2>1. e \in Seq(S) /\ Len(e) = 0
    OBVIOUS
  <2> HIDE DEF e
  <2>2. \A n \in Nat : n >= 1 /\ n <= 1 => n - 1 = 0 /\ \A i \in 1..(n - 1) : FALSE
    OBVIOUS
  <2>3. Len(s) - 1 = 0 /\ \A i \in 1..(Len(s) - 1) : FALSE
    BY <1>1, <1>6, <2>2, Zenon
  <2>4. h \o e = s
    BY <1>4, <2>1, <2>3
  <2> QED  BY <2>4 DEF e
<1> QED  BY <1>5, <1>6 DEF h

OciSet ==
    \/ \E cmd \in Line : /\ Len(cmd) > 1 \/ image.cmd = <<>>
                         /\ last' = Set("exec", cmd) /\ O!SetExec(cmd)
    \/ \E v : last' = Set("user", v) /\ O!SetUser(v)
    \/ \E v : last' = Set("group", v) /\ O!SetGroup(v)
    \/ \E v : last' = Set("dir", v) /\ O!SetWorkingDir(v)

LEMMA OciSetKept == InOci /\ OciSet => User!Next
<1> SUFFICES ASSUME InOci, OciSet, ~O!Fail PROVE User!Next
  BY OciRefused, RefusedKept DEF O!Fail
<1>0. DOMAIN image = NamingFields \cup {"env", "entry", "cmd", "user", "dir", "ref"}
  BY ImageFields DEF InOci
<1>1. ASSUME NEW x \in {"exec", "user", "group", "dir"}, NEW v, last' = Set(x, v), exit' = 0,
             \A y \in NamingFields \cup {"env", "ref"} : image'[y] = image[y],
             ExecOf(image') = IF x = "exec" THEN v ELSE ExecOf(image),
             UserOf(image') = IF x = "user" THEN v ELSE UserOf(image),
             GroupOf(image') = IF x = "group" THEN v ELSE GroupOf(image),
             image'.dir = IF x = "dir" THEN v ELSE image.dir
      PROVE  User!Next
  <2>1. OciTexts' = OciTexts /\ OciMounts' = OciMounts /\ OciPorts' = OciPorts /\ OciEnv' = OciEnv
    BY <1>1, NamesUntouched, EnvUntouched DEF NamingFields
  <2>2. \A y \in OciFields \ {x} : OciSettings'[y] = OciSettings[y]
    BY <1>1, <2>1, OciRead, OciReadPrimed DEF OciFields
  <2>3. OciSettings'[x] = v /\ x \in OciFields
    BY <1>1, OciReadPrimed DEF OciFields
  <2> QED  BY <1>1, <2>2, <2>3, OciChanged, SetKept
<1>2. CASE \E cmd \in Line : /\ Len(cmd) > 1 \/ image.cmd = <<>>
                             /\ last' = Set("exec", cmd) /\ O!SetExec(cmd)
  <2>1. PICK cmd \in Line : /\ Len(cmd) > 1 \/ image.cmd = <<>>
                            /\ last' = Set("exec", cmd) /\ O!SetExec(cmd)
    BY <1>2
  <2>2. cmd \in Seq(Value) /\ cmd # <<>>
    BY <2>1 DEF InOci, Plain
  <2>3. /\ exit' = 0 /\ image'.entry = SubSeq(cmd, 1, 1)
        /\ image'.cmd = IF Len(cmd) > 1 THEN Tail(cmd) ELSE image.cmd
        /\ \A y \in DOMAIN image \ {"entry", "cmd"} : image'[y] = image[y]
    BY <1>0, <2>1 DEF O!SetExec, O!Save
  <2>4. ExecOf(image') = cmd
    <3>1. CASE Len(cmd) > 1
      BY <2>2, <2>3, <3>1, WholeAgain DEF ExecOf
    <3>2. CASE ~(Len(cmd) > 1)
      <4>1. image'.entry = SubSeq(cmd, 1, 1) /\ image'.cmd = <<>> /\ Len(cmd) <= 1
        BY <2>1, <2>2, <2>3, <3>2
      <4> QED  BY <2>2, <4>1, WholeAgain DEF ExecOf
    <3> QED  BY <3>1, <3>2
  <2>5. UserOf(image') = UserOf(image) /\ GroupOf(image') = GroupOf(image) /\ image'.dir = image.dir
    BY <1>0, <2>3 DEF UserOf, GroupOf
  <2>6. \A y \in NamingFields \cup {"env", "ref"} : image'[y] = image[y]
    BY <1>0, <2>3 DEF NamingFields
  <2> QED  BY <1>1, <2>1, <2>3, <2>4, <2>5, <2>6
<1>3. image.user \in Seq(Value \cup {Empty}) /\ Len(image.user) \in 1..2
  BY DEF InOci, ImageType
<1>4. ASSUME NEW u, exit' = 0, image' = [image EXCEPT !.user = u]
      PROVE  /\ image'.user = u /\ ExecOf(image') = ExecOf(image) /\ image'.dir = image.dir
             /\ \A y \in NamingFields \cup {"env", "ref"} : image'[y] = image[y]
  BY <1>0, <1>4 DEF ExecOf, NamingFields
<1>5. CASE \E v : last' = Set("user", v) /\ O!SetUser(v)
  <2>1. PICK v : last' = Set("user", v) /\ O!SetUser(v)
    BY <1>5
  <2> DEFINE S == Value \cup {Empty, v}
             t == Tail(image.user)
             h == <<v>>
             c == h \o t
  <2>2. exit' = 0 /\ image' = [image EXCEPT !.user = c]
    BY <2>1 DEF O!SetUser, O!Save
  <2>3. /\ t \in Seq(S) /\ Len(t) = Len(image.user) - 1
        /\ Len(image.user) > 1 => t[1] = image.user[2]
    BY <1>3
  <2>4. h \in Seq(S) /\ Len(h) = 1 /\ h[1] = v
    OBVIOUS
  <2> HIDE DEF t, h, S
  <2>5. /\ c \in Seq(S) /\ Len(c) = Len(h) + Len(t)
        /\ \A i \in 1..Len(h) + Len(t) : c[i] = IF i <= Len(h) THEN h[i] ELSE t[i - Len(h)]
    BY <2>3, <2>4, Joined
  <2> HIDE DEF c
  <2>6. c[1] = v /\ Len(c) = Len(image.user) /\ (Len(image.user) > 1 => c[2] = image.user[2])
    BY <1>3, <2>3, <2>4, <2>5
  <2>7. UserOf(image') = v /\ GroupOf(image') = GroupOf(image)
    BY <1>4, <2>2, <2>6 DEF UserOf, GroupOf
  <2> QED  BY <1>1, <1>4, <2>1, <2>2, <2>7
<1>6. CASE \E v : last' = Set("group", v) /\ O!SetGroup(v)
  <2>1. PICK v : last' = Set("group", v) /\ O!SetGroup(v)
    BY <1>6
  <2> DEFINE c == <<Head(image.user), v>>
  <2>2. exit' = 0 /\ image' = [image EXCEPT !.user = c]
    BY <2>1 DEF O!SetGroup, O!Save
  <2>3. c[1] = image.user[1] /\ c[2] = v /\ Len(c) = 2
    BY <1>3
  <2> HIDE DEF c
  <2>4. UserOf(image') = UserOf(image) /\ GroupOf(image') = v
    BY <1>4, <2>2, <2>3 DEF UserOf, GroupOf
  <2> QED  BY <1>1, <1>4, <2>1, <2>2, <2>4
<1>7. CASE \E v : last' = Set("dir", v) /\ O!SetWorkingDir(v)
  <2>1. PICK v : last' = Set("dir", v) /\ O!SetWorkingDir(v)
    BY <1>7
  <2>2. exit' = 0 /\ image'.dir = v /\ \A y \in DOMAIN image \ {"dir"} : image'[y] = image[y]
    BY <1>0, <2>1 DEF O!SetWorkingDir, O!Save
  <2>3. image'.entry = image.entry /\ image'.cmd = image.cmd /\ image'.user = image.user
    BY <1>0, <2>2
  <2>4. /\ ExecOf(image') = ExecOf(image) /\ UserOf(image') = UserOf(image)
        /\ GroupOf(image') = GroupOf(image)
    BY <2>3 DEF ExecOf, UserOf, GroupOf
  <2>5. \A y \in NamingFields \cup {"env", "ref"} : image'[y] = image[y]
    BY <1>0, <2>2 DEF NamingFields
  <2> QED  BY <1>1, <2>1, <2>2, <2>4, <2>5
<1> QED  BY <1>2, <1>5, <1>6, <1>7 DEF OciSet

LEMMA OciTagKept ==
    ASSUME InOci, NEW v, last' = [op |-> "tag", value |-> v, version |-> Version], O!SetTag(v)
    PROVE  User!Next
<1>0. DOMAIN image = NamingFields \cup {"env", "entry", "cmd", "user", "dir", "ref"}
  BY ImageFields DEF InOci
<1>1. exit' = 0 /\ image'.ref = v /\ \A y \in DOMAIN image \ {"ref"} : image'[y] = image[y]
  BY <1>0 DEF O!SetTag, O!Save
<1>2. /\ image'.annotations = image.annotations /\ image'.volumes = image.volumes
      /\ image'.ports = image.ports /\ image'.env = image.env /\ image'.dir = image.dir
      /\ image'.entry = image.entry /\ image'.cmd = image.cmd /\ image'.user = image.user
  BY <1>0, <1>1 DEF NamingFields
<1>3. OciTexts' = OciTexts /\ OciMounts' = OciMounts /\ OciPorts' = OciPorts /\ OciEnv' = OciEnv
  BY <1>2, NamesUntouched, EnvUntouched
<1>4. /\ ExecOf(image') = ExecOf(image) /\ UserOf(image') = UserOf(image)
      /\ GroupOf(image') = GroupOf(image)
  BY <1>2 DEF ExecOf, UserOf, GroupOf
<1>5. "ref" \in OciFields /\ \A y \in OciFields \ {"ref"} : OciSettings'[y] = OciSettings[y]
  BY <1>2, <1>3, <1>4, OciRead, OciReadPrimed DEF OciFields
<1>6. Changed("ref", v) /\ "ref" \in DOMAIN Settings
  BY <1>1, <1>5, OciChanged, OciReadPrimed
<1>7. User!Tag(last')
  BY <1>6 DEF User!Tag, User!Becomes, Changed
<1> QED  BY <1>1, <1>7 DEF User!Next, User!Promise

\* The entries of env before and after: the variable n has no entry but new ones.
Firsts(S) == {e[1] : e \in S}
Seconds(S, n) == {v \in Value \cup {None} : <<n, v>> \in S}

LEMMA OciEnvOthers ==
    ASSUME NEW n, NEW new, image'.env = O!EnvBut(n) \cup new, \A e \in new : e[1] = n
    PROVE  /\ DOMAIN OciEnv' = (DOMAIN OciEnv \ {n}) \cup Firsts(new)
           /\ \A m \in DOMAIN OciEnv \ {n} : OciEnv'[m] = OciEnv[m]
           /\ n \in DOMAIN OciEnv' => OciEnv'[n] = AnyOf(Seconds(new, n))
<1>1. DOMAIN OciEnv' = (DOMAIN OciEnv \ {n}) \cup Firsts(new)
  BY DEF OciEnv, O!EnvBut, Firsts
<1>2. ASSUME NEW m, NEW v PROVE <<m, v>>[1] = m
  OBVIOUS
<1>3. ASSUME NEW m \in DOMAIN OciEnv \ {n} PROVE OciEnv'[m] = OciEnv[m]
  <2>1. \A v : <<m, v>> \in image'.env <=> <<m, v>> \in image.env
    BY <1>2 DEF O!EnvBut
  <2>2. ValuesOf(m)' = ValuesOf(m)
    BY <2>1 DEF ValuesOf
  <2>3. m \in DOMAIN OciEnv'
    BY <1>1
  <2> QED  BY <2>2, <2>3 DEF OciEnv
<1>4. ASSUME n \in DOMAIN OciEnv'
      PROVE  OciEnv'[n] = AnyOf(Seconds(new, n))
  <2>1. \A v : <<n, v>> \in image'.env <=> <<n, v>> \in new
    BY <1>2 DEF O!EnvBut
  <2>2. ValuesOf(n)' = Seconds(new, n)
    BY <2>1 DEF ValuesOf, Seconds
  <2> QED  BY <1>4, <2>2 DEF OciEnv
<1> QED  BY <1>1, <1>3, <1>4

LEMMA AnyOfOne == \A v : AnyOf({v}) = v
BY DEF AnyOf

OciVariable ==
    \/ \E n : \E v \in Value : ~O!Malformed /\ last' = PutIn("env", n, v) /\ O!AddEnv(n, v)
    \/ \E n : last' = Take("env", n) /\ O!RemoveEnv(n)

LEMMA OciVariableKept == InOci /\ OciVariable => User!Next
<1> SUFFICES ASSUME InOci, OciVariable, ~O!Fail PROVE User!Next
  BY OciRefused, RefusedKept DEF O!Fail
<1>0. DOMAIN image = NamingFields \cup {"env", "entry", "cmd", "user", "dir", "ref"}
  BY ImageFields DEF InOci
<1>1. ASSUME NEW S, O!Save([image EXCEPT !.env = S])
      PROVE  image'.env = S /\ Changed("env", OciEnv') /\ Settings.env = OciEnv
  <2>1. /\ exit' = 0 /\ image'.env = S
        /\ \A y \in DOMAIN image \ {"env"} : image'[y] = image[y]
    BY <1>0, <1>1 DEF O!Save
  <2>2. /\ image'.annotations = image.annotations /\ image'.volumes = image.volumes
        /\ image'.ports = image.ports /\ image'.dir = image.dir /\ image'.ref = image.ref
        /\ image'.entry = image.entry /\ image'.cmd = image.cmd /\ image'.user = image.user
    BY <1>0, <2>1 DEF NamingFields
  <2>3. OciTexts' = OciTexts /\ OciMounts' = OciMounts /\ OciPorts' = OciPorts
    BY <2>2, NamesUntouched
  <2>4. /\ ExecOf(image') = ExecOf(image) /\ UserOf(image') = UserOf(image)
        /\ GroupOf(image') = GroupOf(image)
    BY <2>2 DEF ExecOf, UserOf, GroupOf
  <2>5. "env" \in OciFields /\ \A y \in OciFields \ {"env"} : OciSettings'[y] = OciSettings[y]
    BY <2>2, <2>3, <2>4, OciRead, OciReadPrimed DEF OciFields
  <2> QED  BY <2>1, <2>5, OciChanged, OciRead, OciReadPrimed DEF Settings, InOci
<1>2. CASE \E n : \E v \in Value : ~O!Malformed /\ last' = PutIn("env", n, v) /\ O!AddEnv(n, v)
  <2>1. PICK n : \E v \in Value : ~O!Malformed /\ last' = PutIn("env", n, v) /\ O!AddEnv(n, v)
    BY <1>2
  <2>2. PICK v \in Value : ~O!Malformed /\ last' = PutIn("env", n, v) /\ O!AddEnv(n, v)
    BY <2>1
  <2> DEFINE new == {<<n, v>>}
  <2>3. O!Save([image EXCEPT !.env = O!EnvBut(n) \cup new])
    BY <2>2 DEF O!AddEnv
  <2>4. \A e \in new : e[1] = n
    OBVIOUS
  <2>5. Firsts(new) = {n}
    BY DEF Firsts
  <2>6. Seconds(new, n) = {v}
    BY DEF Seconds
  <2> HIDE DEF new
  <2>7. /\ DOMAIN OciEnv' = DOMAIN OciEnv \cup {n} /\ OciEnv'[n] = v
        /\ \A m \in DOMAIN OciEnv \ {n} : OciEnv'[m] = OciEnv[m]
    <3>1. image'.env = O!EnvBut(n) \cup new
      BY <1>1, <2>3
    <3>2. /\ DOMAIN OciEnv' = (DOMAIN OciEnv \ {n}) \cup Firsts(new)
          /\ \A m \in DOMAIN OciEnv \ {n} : OciEnv'[m] = OciEnv[m]
          /\ n \in DOMAIN OciEnv' => OciEnv'[n] = AnyOf(Seconds(new, n))
      BY <2>4, <3>1, OciEnvOthers, Zenon
    <3> QED  BY <2>5, <2>6, <3>2, AnyOfOne
  <2>8. OciEnv' = User!Put(OciEnv, n, v)
    <3>1. OciEnv' = [m \in DOMAIN OciEnv' |-> OciEnv'[m]]
      BY DEF OciEnv
    <3> QED  BY <2>7, <3>1 DEF User!Put
  <2> QED  BY <1>1, <2>2, <2>3, <2>8, PutKept
<1>3. CASE \E n : last' = Take("env", n) /\ O!RemoveEnv(n)
  <2>1. PICK n : last' = Take("env", n) /\ O!RemoveEnv(n)
    BY <1>3
  <2>2. O!EnvBut(n) # image.env /\ O!Save([image EXCEPT !.env = O!EnvBut(n)])
    BY <2>1 DEF O!RemoveEnv
  <2>3. n \in DOMAIN OciEnv
    BY <2>2 DEF OciEnv, O!EnvBut
  <2> DEFINE new == {}
  <2>4. (\A e \in new : e[1] = n) /\ Firsts(new) = {} /\ O!EnvBut(n) = O!EnvBut(n) \cup new
    BY DEF Firsts
  <2> HIDE DEF new
  <2>5. /\ DOMAIN OciEnv' = DOMAIN OciEnv \ {n}
        /\ \A m \in DOMAIN OciEnv \ {n} : OciEnv'[m] = OciEnv[m]
    <3>1. image'.env = O!EnvBut(n) \cup new
      BY <1>1, <2>2, <2>4
    <3>2. /\ DOMAIN OciEnv' = (DOMAIN OciEnv \ {n}) \cup Firsts(new)
          /\ \A m \in DOMAIN OciEnv \ {n} : OciEnv'[m] = OciEnv[m]
      BY <2>4, <3>1, OciEnvOthers, Zenon
    <3> QED  BY <2>4, <3>2
  <2>6. OciEnv' = User!Without(OciEnv, n)
    <3>1. OciEnv' = [m \in DOMAIN OciEnv' |-> OciEnv'[m]]
      BY DEF OciEnv
    <3> QED  BY <2>5, <3>1 DEF User!Without
  <2> QED  BY <1>1, <2>1, <2>2, <2>3, <2>6, TakeKept
<1> QED  BY <1>2, <1>3 DEF OciVariable

-----------------------------------------------------------------------------
(* The annotations that name volumes and ports.                                *)

NamesPath(a, n, p) == Says(a, O!MountName(n), <<"path", p>>)
NamesPort(a, n, num, proto) == Says(a, O!PortName(n), <<"port", num, proto>>)

LEMMA SaysPut ==
    ASSUME NEW a, NEW d, NEW v, NEW k, NEW w
    PROVE  Says(O!Put(a, d, v), k, w) <=> IF k = d THEN w = v ELSE Says(a, k, w)
BY DEF Says, O!Put

LEMMA SaysWithout ==
    ASSUME NEW a, NEW d, NEW k, NEW w
    PROVE  Says(O!Without(a, d), k, w) <=> k # d /\ Says(a, k, w)
BY DEF Says, O!Without

\* The kinds of annotations do not mix, and of one kind the names tell them apart.
LEMMA Keys ==
    /\ \A m, n : O!MountName(m) # O!PortName(n) /\ O!MountName(m) # <<"text", n>>
                 /\ O!PortName(m) # <<"text", n>>
    /\ \A m, n : O!MountName(m) = O!MountName(n) => m = n
    /\ \A m, n : O!PortName(m) = O!PortName(n) => m = n
    /\ \A p, q : <<"path", p>> = <<"path", q>> => p = q
    /\ \A p, q, s, t : <<"port", p, q>> = <<"port", s, t>> => p = s /\ q = t
    /\ \A p, s, t : <<"path", p>> # <<"port", s, t>>
BY DEF O!MountName, O!PortName

\* What an annotation that names a path or a port looks like.
LEMMA NamingKeys ==
    ASSUME InOci, NEW k \in DOMAIN image.annotations
    PROVE  LET v == image.annotations[k]
           IN  /\ v[1] = "path" \/ k[1] = "mount" =>
                     /\ \E n \in Name : k = O!MountName(n)
                     /\ \E p : v = <<"path", p>>
               /\ v[1] = "port" \/ k[1] = "port" =>
                     /\ \E n \in Name : k = O!PortName(n)
                     /\ \E num \in Number, proto \in Protocol : v = <<"port", num, proto>>
<1> DEFINE v == image.annotations[k]
<1>1. Paired(k, v)
  BY DEF InOci, InStep
<1> HIDE DEF v
<1>2. CASE k \in {"mount"} \X Name /\ v \in {"path"} \X Path
  <2>1. PICK n \in Name, p \in Path : k = <<"mount", n>> /\ v = <<"path", p>>
    BY <1>2
  <2>2. v[1] = "path" /\ k[1] = "mount"
    BY <2>1
  <2> QED  BY <2>1, <2>2 DEF O!MountName, v
<1>3. CASE k \in {"port"} \X Name /\ v \in PortValues
  <2>1. PICK n \in Name, num \in Number, proto \in Protocol : k = <<"port", n>> /\ v = <<"port", num, proto>>
    BY <1>3 DEF PortValues
  <2>2. v[1] = "port" /\ k[1] = "port"
    BY <2>1
  <2> QED  BY <2>1, <2>2 DEF O!PortName, v
<1>4. CASE k \in {"text"} \X Name /\ v \in {"text"} \X Value
  <2>1. v[1] = "text" /\ k[1] = "text"
    BY <1>4
  <2> QED  BY <2>1 DEF v
<1> QED  BY <1>1, <1>2, <1>3, <1>4 DEF Paired

\* Two annotations that name one path or one port are one.
LEMMA OneName ==
    ASSUME InOci
    PROVE  /\ \A m, n, p : NamesPath(image.annotations, m, p) /\ NamesPath(image.annotations, n, p) => m = n
           /\ \A m, n, s, t :
                 NamesPort(image.annotations, m, s, t) /\ NamesPort(image.annotations, n, s, t) => m = n
<1>1. ASSUME NEW k, NEW l, NEW v, Says(image.annotations, k, v), Says(image.annotations, l, v), k[1] # "text"
      PROVE  k = l
  BY <1>1 DEF Says, InOci, InStep
<1>2. \A n : O!MountName(n)[1] # "text" /\ O!PortName(n)[1] # "text"
  BY DEF O!MountName, O!PortName
<1>3. ASSUME NEW m, NEW n, NEW p,
             NamesPath(image.annotations, m, p), NamesPath(image.annotations, n, p)
      PROVE  m = n
  <2>1. O!MountName(m) = O!MountName(n)
    BY <1>1, <1>2, <1>3 DEF NamesPath
  <2> QED  BY <2>1, Keys, Zenon
<1>4. ASSUME NEW m, NEW n, NEW s, NEW t,
             NamesPort(image.annotations, m, s, t), NamesPort(image.annotations, n, s, t)
      PROVE  m = n
  <2>1. O!PortName(m) = O!PortName(n)
    BY <1>1, <1>2, <1>4 DEF NamesPort
  <2> QED  BY <2>1, Keys, Zenon
<1> QED  BY <1>3, <1>4

LEMMA MountsAre ==
    \A m : m \in OciMounts <=>
       /\ m \in [name : Name \cup {None}, path : image.volumes, ro : {FALSE}]
       /\ IF m.name = None THEN \A n \in Name : ~NamesPath(image.annotations, n, m.path)
          ELSE NamesPath(image.annotations, m.name, m.path)
BY DEF OciMounts, NamesPath

LEMMA MountsArePrimed ==
    \A m : m \in OciMounts' <=>
       /\ m \in [name : Name \cup {None}, path : image'.volumes, ro : {FALSE}]
       /\ IF m.name = None THEN \A n \in Name : ~NamesPath(image'.annotations, n, m.path)
          ELSE NamesPath(image'.annotations, m.name, m.path)
BY DEF OciMounts, NamesPath

Place(p) == IF p.protocol = None THEN <<p.number>> ELSE <<p.number, p.protocol>>
Port == [name : Name \cup {None}, number : Number, protocol : Protocol \cup {None}, opts : {{}}]

LEMMA PortsAre ==
    \A p : p \in OciPorts <=>
       /\ p \in Port /\ Place(p) \in image.ports
       /\ IF p.name = None THEN \A n \in Name : ~NamesPort(image.annotations, n, p.number, p.protocol)
          ELSE NamesPort(image.annotations, p.name, p.number, p.protocol)
BY DEF OciPorts, NamesPort, Place, Port

LEMMA PortsArePrimed ==
    \A p : p \in OciPorts' <=>
       /\ p \in Port /\ Place(p) \in image'.ports
       /\ IF p.name = None THEN \A n \in Name : ~NamesPort(image'.annotations, n, p.number, p.protocol)
          ELSE NamesPort(image'.annotations, p.name, p.number, p.protocol)
BY DEF OciPorts, NamesPort, Place, Port

\* An edit that renames no volume, no port, and no text.
LEMMA MountsUntouched ==
    ASSUME image'.volumes = image.volumes,
           \A n, p : NamesPath(image'.annotations, n, p) <=> NamesPath(image.annotations, n, p)
    PROVE  OciMounts' = OciMounts
BY MountsAre, MountsArePrimed

LEMMA PortsUntouched ==
    ASSUME image'.ports = image.ports,
           \A n, s, t : NamesPort(image'.annotations, n, s, t) <=> NamesPort(image.annotations, n, s, t)
    PROVE  OciPorts' = OciPorts
BY PortsAre, PortsArePrimed

LEMMA TextsUntouched ==
    ASSUME \A n, v : Says(image'.annotations, <<"text", n>>, v) <=> Says(image.annotations, <<"text", n>>, v)
    PROVE  OciTexts' = OciTexts
<1>1. \A n : <<"text", n>> \in DOMAIN image'.annotations <=> <<"text", n>> \in DOMAIN image.annotations
  BY DEF Says
<1>2. \A n : <<"text", n>> \in DOMAIN image.annotations
             => image'.annotations[<<"text", n>>] = image.annotations[<<"text", n>>]
  BY DEF Says
<1> QED  BY <1>1, <1>2 DEF OciTexts

\* An edit of the annotations, the volumes and the ports leaves the rest.
LEMMA RestUntouched ==
    ASSUME InOci, NEW i, O!Save(i), DOMAIN i = DOMAIN image,
           \A y \in DOMAIN image \ NamingFields : i[y] = image[y]
    PROVE  /\ exit' = 0 /\ image' = i
           /\ \A y \in OciFields \ {"annotations", "mounts", "ports"} : OciSettings'[y] = OciSettings[y]
<1>0. DOMAIN image = NamingFields \cup {"env", "entry", "cmd", "user", "dir", "ref"}
  BY ImageFields DEF InOci
<1>1. exit' = 0 /\ image' = i
  BY DEF O!Save
<1>2. /\ image'.env = image.env /\ image'.dir = image.dir /\ image'.ref = image.ref
      /\ image'.entry = image.entry /\ image'.cmd = image.cmd /\ image'.user = image.user
  BY <1>0, <1>1 DEF NamingFields
<1>3. /\ ExecOf(image') = ExecOf(image) /\ UserOf(image') = UserOf(image)
      /\ GroupOf(image') = GroupOf(image) /\ OciEnv' = OciEnv
  BY <1>2, EnvUntouched DEF ExecOf, UserOf, GroupOf
<1>4. OciFields \ {"annotations", "mounts", "ports"} = {"env", "exec", "user", "group", "dir", "ref"}
  BY DEF OciFields
<1> QED  BY <1>1, <1>2, <1>3, <1>4, OciRead, OciReadPrimed

OciText ==
    \/ \E n \in Name : \E v \in Value :
          last' = PutIn("annotations", n, v) /\ O!AddAnnotation(<<"text", n>>, <<"text", v>>)
    \/ \E n \in Name : last' = Take("annotations", n) /\ O!RemoveAnnotation(<<"text", n>>)

LEMMA OciTextKept == InOci /\ OciText => User!Next
<1> SUFFICES ASSUME InOci, OciText, ~O!Fail PROVE User!Next
  BY OciRefused, RefusedKept DEF O!Fail
<1>0. DOMAIN image = NamingFields \cup {"env", "entry", "cmd", "user", "dir", "ref"}
  BY ImageFields DEF InOci
<1>1. ASSUME NEW a, O!Save([image EXCEPT !.annotations = a]),
             \A k, v : (\A n : k # <<"text", n>>) => (Says(a, k, v) <=> Says(image.annotations, k, v))
      PROVE  /\ image'.annotations = a /\ Changed("annotations", OciTexts')
             /\ Settings.annotations = OciTexts
  <2> DEFINE i == [image EXCEPT !.annotations = a]
  <2>1. /\ DOMAIN i = DOMAIN image /\ i.annotations = a
        /\ \A y \in DOMAIN image \ {"annotations"} : i[y] = image[y]
    BY <1>0 DEF NamingFields
  <2>2. /\ exit' = 0 /\ image' = i
        /\ \A y \in OciFields \ {"annotations", "mounts", "ports"} : OciSettings'[y] = OciSettings[y]
    <3>1. \A y \in DOMAIN image \ NamingFields : i[y] = image[y]
      BY <2>1 DEF NamingFields
    <3>2. O!Save(i)
      BY <1>1
    <3> HIDE DEF i
    <3> QED  BY <2>1, <3>1, <3>2, RestUntouched
  <2>3. image'.annotations = a /\ image'.volumes = image.volumes /\ image'.ports = image.ports
    BY <1>0, <2>1, <2>2 DEF NamingFields
  <2>4. OciMounts' = OciMounts
    BY <1>1, <2>3, Keys, MountsUntouched DEF NamesPath
  <2>5. OciPorts' = OciPorts
    BY <1>1, <2>3, Keys, PortsUntouched DEF NamesPort
  <2>6. \A y \in OciFields \ {"annotations"} : OciSettings'[y] = OciSettings[y]
    BY <2>2, <2>4, <2>5, OciRead, OciReadPrimed
  <2>7. "annotations" \in OciFields
    BY DEF OciFields
  <2> QED  BY <2>2, <2>3, <2>6, <2>7, OciChanged, OciRead, OciReadPrimed DEF Settings, InOci
<1>2. CASE \E n \in Name : \E v \in Value :
              last' = PutIn("annotations", n, v) /\ O!AddAnnotation(<<"text", n>>, <<"text", v>>)
  <2>1. PICK n \in Name : \E v \in Value :
           last' = PutIn("annotations", n, v) /\ O!AddAnnotation(<<"text", n>>, <<"text", v>>)
    BY <1>2
  <2>2. PICK v \in Value :
           last' = PutIn("annotations", n, v) /\ O!AddAnnotation(<<"text", n>>, <<"text", v>>)
    BY <2>1
  <2> DEFINE a == O!Put(image.annotations, <<"text", n>>, <<"text", v>>)
  <2>3. O!Save([image EXCEPT !.annotations = a])
    BY <2>2 DEF O!AddAnnotation
  <2>4. \A k, w : (\A m : k # <<"text", m>>) => (Says(a, k, w) <=> Says(image.annotations, k, w))
    BY SaysPut
  <2>5. /\ DOMAIN a = DOMAIN image.annotations \cup {<<"text", n>>} /\ a[<<"text", n>>] = <<"text", v>>
        /\ \A k \in DOMAIN image.annotations \ {<<"text", n>>} : a[k] = image.annotations[k]
    BY DEF O!Put
  <2> HIDE DEF a
  <2>6. OciTexts' = User!Put(OciTexts, n, v)
    <3>1. image'.annotations = a
      BY <1>1, <2>3, <2>4
    <3>2. DOMAIN OciTexts' = DOMAIN OciTexts \cup {n} /\ n \in DOMAIN OciTexts'
      BY <2>5, <3>1 DEF OciTexts
    <3>3. \A m \in DOMAIN OciTexts' : OciTexts'[m] = IF m = n THEN v ELSE OciTexts[m]
      <4>1. <<"text", v>>[2] = v /\ \A m : <<"text", m>> = <<"text", n>> => m = n
        OBVIOUS
      <4> QED  BY <2>5, <3>1, <4>1 DEF OciTexts
    <3>4. OciTexts' = [m \in DOMAIN OciTexts' |-> OciTexts'[m]]
      BY DEF OciTexts
    <3> QED  BY <3>2, <3>3, <3>4 DEF User!Put
  <2> QED  BY <1>1, <2>2, <2>3, <2>4, <2>6, PutKept
<1>3. CASE \E n \in Name : last' = Take("annotations", n) /\ O!RemoveAnnotation(<<"text", n>>)
  <2>1. PICK n \in Name : last' = Take("annotations", n) /\ O!RemoveAnnotation(<<"text", n>>)
    BY <1>3
  <2> DEFINE a == O!Without(image.annotations, <<"text", n>>)
  <2>3. <<"text", n>> \in DOMAIN image.annotations /\ O!Save([image EXCEPT !.annotations = a])
    BY <2>1 DEF O!RemoveAnnotation
  <2>4. \A k, w : (\A m : k # <<"text", m>>) => (Says(a, k, w) <=> Says(image.annotations, k, w))
    BY SaysWithout
  <2>5. /\ DOMAIN a = DOMAIN image.annotations \ {<<"text", n>>}
        /\ \A k \in DOMAIN image.annotations \ {<<"text", n>>} : a[k] = image.annotations[k]
    BY DEF O!Without
  <2> HIDE DEF a
  <2>6. OciTexts' = User!Without(OciTexts, n)
    <3>1. image'.annotations = a
      BY <1>1, <2>3, <2>4
    <3>0. \A m : <<"text", m>> = <<"text", n>> => m = n
      OBVIOUS
    <3>2. DOMAIN OciTexts' = DOMAIN OciTexts \ {n}
      BY <2>5, <3>0, <3>1 DEF OciTexts
    <3>3. \A m \in DOMAIN OciTexts' : OciTexts'[m] = OciTexts[m]
      BY <2>5, <3>0, <3>1 DEF OciTexts
    <3>4. OciTexts' = [m \in DOMAIN OciTexts' |-> OciTexts'[m]]
      BY DEF OciTexts
    <3> QED  BY <3>2, <3>3, <3>4 DEF User!Without
  <2>7. n \in DOMAIN OciTexts
    BY <2>1, <2>3 DEF OciTexts
  <2> QED  BY <1>1, <2>1, <2>3, <2>4, <2>6, <2>7, TakeKept
<1> QED  BY <1>2, <1>3 DEF OciText

-----------------------------------------------------------------------------
(* Mount points and ports of an OCI image.                                     *)

AddsMount(c, m) == c = [op |-> "add mount", new |-> m]
RemovesMount(c, x) == c = [op |-> "remove mount", arg |-> x]
AddsPort(c, p) == c = [op |-> "add port", new |-> p]
RemovesPort(c, x) == c = [op |-> "remove port", arg |-> x]

LEMMA AddMountPromise ==
    ASSUME NEW m, NEW S, AddsMount(last', m), Changed("mounts", S), "mounts" \in DOMAIN Settings,
           m \in S, \A e \in Settings.mounts \cup S :
                       \/ e = m \/ e.name = m.name \/ e.path = m.path
                       \/ (e \in Settings.mounts /\ e \in S)
    PROVE  User!Next
<1>1. Settings'.mounts = S /\ User!Becomes("mounts", Settings'.mounts)
  BY ReplacesKept
<1>2. User!AddMount(last')
  BY <1>1 DEF AddsMount, User!AddMount, User!Replaces
<1> QED  BY <1>2 DEF Changed, User!Next, User!Promise

LEMMA RemoveMountPromise ==
    ASSUME NEW x, NEW S, RemovesMount(last', x), Changed("mounts", S), "mounts" \in DOMAIN Settings,
           S # Settings.mounts, S \subseteq Settings.mounts,
           \A e \in Settings.mounts \ S : x \in {e.name, e.path}
    PROVE  User!Next
<1>1. Settings'.mounts = S /\ User!Becomes("mounts", Settings'.mounts)
  BY ReplacesKept
<1>2. User!RemoveMount(last')
  BY <1>1 DEF RemovesMount, User!RemoveMount, User!Loses
<1> QED  BY <1>2 DEF Changed, User!Next, User!Promise

LEMMA AddPortPromise ==
    ASSUME NEW p, NEW S, AddsPort(last', p), Changed("ports", S), "ports" \in DOMAIN Settings,
           p \in S, \A e \in Settings.ports \cup S :
                       \/ e = p \/ p.name \in {e.name, e.number}
                       \/ <<p.number, p.protocol>> = <<e.number, e.protocol>>
                       \/ (e \in Settings.ports /\ e \in S)
    PROVE  User!Next
<1>1. Settings'.ports = S /\ User!Becomes("ports", Settings'.ports)
  BY ReplacesKept
<1>2. User!AddPort(last')
  BY <1>1 DEF AddsPort, User!AddPort, User!Replaces
<1> QED  BY <1>2 DEF Changed, User!Next, User!Promise

LEMMA RemovePortPromise ==
    ASSUME NEW x, NEW S, RemovesPort(last', x), Changed("ports", S), "ports" \in DOMAIN Settings,
           S # Settings.ports, S \subseteq Settings.ports,
           \A e \in Settings.ports \ S : x \in {<<e.name>>, <<e.number>>, <<e.number, e.protocol>>}
    PROVE  User!Next
<1>1. Settings'.ports = S /\ User!Becomes("ports", Settings'.ports)
  BY ReplacesKept
<1>2. User!RemovePort(last')
  BY <1>1 DEF RemovesPort, User!RemovePort, User!Loses
<1> QED  BY <1>2 DEF Changed, User!Next, User!Promise

LEMMA OnlyMountsChange ==
    ASSUME InOci, NEW vs, NEW a, O!Save([image EXCEPT !.volumes = vs, !.annotations = a]),
           \A k, v : (\A n : k # O!MountName(n)) => (Says(a, k, v) <=> Says(image.annotations, k, v))
    PROVE  /\ image'.volumes = vs /\ image'.annotations = a
           /\ Changed("mounts", OciMounts')
           /\ Settings.mounts = OciMounts /\ "mounts" \in DOMAIN Settings
<1> DEFINE i == [image EXCEPT !.volumes = vs, !.annotations = a]
<1>0. DOMAIN image = NamingFields \cup {"env", "entry", "cmd", "user", "dir", "ref"}
  BY ImageFields DEF InOci
<1>1. /\ DOMAIN i = DOMAIN image /\ i.annotations = a /\ i.volumes = vs
      /\ \A y \in DOMAIN image \ {"annotations", "volumes"} : i[y] = image[y]
  BY <1>0 DEF NamingFields
<1>2. O!Save(i)
  OBVIOUS
<1> HIDE DEF i
<1>3. /\ exit' = 0 /\ image' = i
      /\ \A y \in OciFields \ {"annotations", "mounts", "ports"} : OciSettings'[y] = OciSettings[y]
  <2>1. \A y \in DOMAIN image \ NamingFields : i[y] = image[y]
    BY <1>1 DEF NamingFields
  <2> QED  BY <1>1, <1>2, <2>1, RestUntouched
<1>4. image'.annotations = a /\ image'.volumes = vs /\ image'.ports = image.ports
  BY <1>0, <1>1, <1>3 DEF NamingFields
<1>5. OciTexts' = OciTexts
  BY <1>4, Keys, TextsUntouched
<1>6. OciPorts' = OciPorts
  BY <1>4, Keys, PortsUntouched DEF NamesPort
<1>7. "mounts" \in OciFields /\ \A y \in OciFields \ {"mounts"} : OciSettings'[y] = OciSettings[y]
  BY <1>3, <1>5, <1>6, OciRead, OciReadPrimed DEF OciFields
<1> QED  BY <1>3, <1>4, <1>7, OciChanged, OciRead, OciReadPrimed

LEMMA OnlyPortsChange ==
    ASSUME InOci, NEW ps, NEW a, O!Save([image EXCEPT !.ports = ps, !.annotations = a]),
           \A k, v : (\A n : k # O!PortName(n)) => (Says(a, k, v) <=> Says(image.annotations, k, v))
    PROVE  /\ image'.ports = ps /\ image'.annotations = a
           /\ Changed("ports", OciPorts')
           /\ Settings.ports = OciPorts /\ "ports" \in DOMAIN Settings
<1> DEFINE i == [image EXCEPT !.ports = ps, !.annotations = a]
<1>0. DOMAIN image = NamingFields \cup {"env", "entry", "cmd", "user", "dir", "ref"}
  BY ImageFields DEF InOci
<1>1. /\ DOMAIN i = DOMAIN image /\ i.annotations = a /\ i.ports = ps
      /\ \A y \in DOMAIN image \ {"annotations", "ports"} : i[y] = image[y]
  BY <1>0 DEF NamingFields
<1>2. O!Save(i)
  OBVIOUS
<1> HIDE DEF i
<1>3. /\ exit' = 0 /\ image' = i
      /\ \A y \in OciFields \ {"annotations", "mounts", "ports"} : OciSettings'[y] = OciSettings[y]
  <2>1. \A y \in DOMAIN image \ NamingFields : i[y] = image[y]
    BY <1>1 DEF NamingFields
  <2> QED  BY <1>1, <1>2, <2>1, RestUntouched
<1>4. image'.annotations = a /\ image'.ports = ps /\ image'.volumes = image.volumes
  BY <1>0, <1>1, <1>3 DEF NamingFields
<1>5. OciTexts' = OciTexts
  BY <1>4, Keys, TextsUntouched
<1>6. OciMounts' = OciMounts
  BY <1>4, Keys, MountsUntouched DEF NamesPath
<1>7. "ports" \in OciFields /\ \A y \in OciFields \ {"ports"} : OciSettings'[y] = OciSettings[y]
  BY <1>3, <1>5, <1>6, OciRead, OciReadPrimed DEF OciFields
<1> QED  BY <1>3, <1>4, <1>7, OciChanged, OciRead, OciReadPrimed

LEMMA PutNamesPath ==
    ASSUME NEW a, NEW n, NEW p, O!MountName(n) \notin DOMAIN a, NEW j, NEW q
    PROVE  NamesPath(O!Put(a, O!MountName(n), <<"path", p>>), j, q)
             <=> (j = n /\ q = p) \/ NamesPath(a, j, q)
<1> DEFINE b == O!Put(a, O!MountName(n), <<"path", p>>)
<1>1. CASE j = n
  <2>1. Says(b, O!MountName(n), <<"path", q>>) <=> <<"path", q>> = <<"path", p>>
    BY SaysPut
  <2>2. <<"path", q>> = <<"path", p>> <=> q = p
    OBVIOUS
  <2>3. ~Says(a, O!MountName(n), <<"path", q>>)
    BY DEF Says
  <2> QED  BY <1>1, <2>1, <2>2, <2>3, Zenon DEF NamesPath
<1>2. CASE j # n
  <2>1. O!MountName(j) # O!MountName(n)
    BY <1>2, Keys, Zenon
  <2>2. Says(b, O!MountName(j), <<"path", q>>) <=> Says(a, O!MountName(j), <<"path", q>>)
    BY <2>1, SaysPut
  <2> QED  BY <1>2, <2>2, Zenon DEF NamesPath
<1> QED  BY <1>1, <1>2

LEMMA PutNamesPort ==
    ASSUME NEW a, NEW n, NEW num, NEW proto, O!PortName(n) \notin DOMAIN a, NEW j, NEW s, NEW t
    PROVE  NamesPort(O!Put(a, O!PortName(n), <<"port", num, proto>>), j, s, t)
             <=> (j = n /\ s = num /\ t = proto) \/ NamesPort(a, j, s, t)
<1> DEFINE b == O!Put(a, O!PortName(n), <<"port", num, proto>>)
<1>1. CASE j = n
  <2>1. Says(b, O!PortName(n), <<"port", s, t>>) <=> <<"port", s, t>> = <<"port", num, proto>>
    BY SaysPut
  <2>2. <<"port", s, t>> = <<"port", num, proto>> <=> s = num /\ t = proto
    OBVIOUS
  <2>3. ~Says(a, O!PortName(n), <<"port", s, t>>)
    BY DEF Says
  <2> QED  BY <1>1, <2>1, <2>2, <2>3, Zenon DEF NamesPort
<1>2. CASE j # n
  <2>1. O!PortName(j) # O!PortName(n)
    BY <1>2, Keys, Zenon
  <2>2. Says(b, O!PortName(j), <<"port", s, t>>) <=> Says(a, O!PortName(j), <<"port", s, t>>)
    BY <2>1, SaysPut
  <2> QED  BY <1>2, <2>2, Zenon DEF NamesPort
<1> QED  BY <1>1, <1>2

LEMMA OciAddMountKept ==
    ASSUME InOci, NEW n \in Name, NEW p \in Path, NEW ro \in BOOLEAN,
           AddsMount(last', [name |-> n, path |-> p, ro |-> ro]), O!AddMount(n, p, ro)
    PROVE  User!Next
<1> DEFINE m == [name |-> n, path |-> p, ro |-> ro]
           a == O!Put(image.annotations, O!MountName(n), <<"path", p>>)
           vs == image.volumes \cup {p}
<1>1. CASE O!Fail
  BY <1>1, OciRefused, RefusedKept DEF O!Fail
<1>2. CASE ~O!Fail
  <2>1. /\ ~ro /\ O!MountName(n) \notin DOMAIN image.annotations
        /\ O!Save([image EXCEPT !.volumes = vs, !.annotations = a])
    BY <1>2 DEF O!AddMount
  <2>2. \A k, v : (\A j : k # O!MountName(j)) => (Says(a, k, v) <=> Says(image.annotations, k, v))
    BY SaysPut
  <2>3. \A j, q : NamesPath(a, j, q) <=> (j = n /\ q = p) \/ NamesPath(image.annotations, j, q)
    BY <2>1, PutNamesPath
  <2> HIDE DEF a, vs
  <2>4. /\ image'.volumes = vs /\ image'.annotations = a
        /\ Changed("mounts", OciMounts')
        /\ Settings.mounts = OciMounts /\ "mounts" \in DOMAIN Settings
    BY <2>1, <2>2, OnlyMountsChange
  <2>5. n # None
    BY NamesAssumption
  <2>6. m \in OciMounts'
    <3>1. m \in [name : Name \cup {None}, path : vs, ro : {FALSE}]
      BY <2>1 DEF vs
    <3>2. NamesPath(a, m.name, m.path) /\ m.name # None
      BY <2>3, <2>5
    <3> QED  BY <2>4, <3>1, <3>2, MountsArePrimed
  <2>7. ASSUME NEW e, e.name # n, e.path # p
        PROVE  e \in OciMounts <=> e \in OciMounts'
    <3>1. \A j : NamesPath(a, j, e.path) <=> NamesPath(image.annotations, j, e.path)
      BY <2>3, <2>7
    <3>2. e \in [name : Name \cup {None}, path : vs, ro : {FALSE}] <=>
             e \in [name : Name \cup {None}, path : image.volumes, ro : {FALSE}]
      BY <2>7 DEF vs
    <3> QED  BY <2>4, <3>1, <3>2, MountsAre, MountsArePrimed
  <2>8. \A e \in OciMounts \cup OciMounts' :
           \/ e = m \/ e.name = m.name \/ e.path = m.path
           \/ (e \in OciMounts /\ e \in OciMounts')
    BY <2>7
  <2> QED  BY <2>4, <2>6, <2>8, AddMountPromise
<1> QED  BY <1>1, <1>2

\* A path and the annotation that names it go together, if one does.
MountGone(q, vs, a) ==
    /\ q \in image.volumes /\ vs = image.volumes \ {q}
    /\ \A k, v : (\A n : k # O!MountName(n)) => (Says(a, k, v) <=> Says(image.annotations, k, v))
    /\ \A j, r : NamesPath(a, j, r) <=> NamesPath(image.annotations, j, r) /\ r # q

LEMMA WithoutName ==
    ASSUME InOci, NEW n, NEW q, NamesPath(image.annotations, n, q), q \in image.volumes
    PROVE  MountGone(q, image.volumes \ {q}, O!Without(image.annotations, O!MountName(n)))
<1> DEFINE a == O!Without(image.annotations, O!MountName(n))
<1>1. \A k, v : (\A j : k # O!MountName(j)) => (Says(a, k, v) <=> Says(image.annotations, k, v))
  BY SaysWithout
<1>2. ASSUME NEW j, NEW r
      PROVE  NamesPath(a, j, r) <=> NamesPath(image.annotations, j, r) /\ r # q
  <2>1. NamesPath(a, j, r) <=> O!MountName(j) # O!MountName(n) /\ NamesPath(image.annotations, j, r)
    BY SaysWithout DEF NamesPath
  <2>2. O!MountName(j) = O!MountName(n) <=> j = n
    BY Keys, Zenon
  <2>3. NamesPath(image.annotations, j, r) /\ r = q => j = n
    BY OneName, Zenon
  <2>4. NamesPath(image.annotations, n, r) => r = q
    <3>1. NamesPath(image.annotations, n, r) => <<"path", r>> = <<"path", q>>
      BY DEF NamesPath, Says
    <3> QED  BY <3>1, Keys, Zenon
  <2> QED  BY <2>1, <2>2, <2>3, <2>4
<1> QED  BY <1>1, <1>2 DEF MountGone

LEMMA DropPath ==
    ASSUME InOci, NEW q \in image.volumes, NEW a \in O!DropOne(image.annotations, <<"path", q>>)
    PROVE  MountGone(q, image.volumes \ {q}, a)
<1> DEFINE annos == image.annotations
           v == <<"path", q>>
<1>1. CASE O!ByValue(annos, v) = {}
  <2>1. a = annos /\ \A k \in DOMAIN annos : annos[k] # v
    BY <1>1 DEF O!DropOne, O!ByValue
  <2>2. \A j : ~NamesPath(annos, j, q)
    BY <2>1 DEF NamesPath, Says
  <2> QED  BY <2>1, <2>2 DEF MountGone
<1>2. CASE O!ByValue(annos, v) # {}
  <2>1. PICK k \in DOMAIN annos : annos[k] = v /\ a = O!Without(annos, k)
    BY <1>2 DEF O!DropOne, O!ByValue
  <2>2. annos[k][1] = "path"
    BY <2>1
  <2>3. PICK n \in Name : k = O!MountName(n)
    BY <2>2, NamingKeys
  <2>4. NamesPath(annos, n, q)
    BY <2>1, <2>3 DEF NamesPath, Says
  <2> QED  BY <2>1, <2>3, <2>4, WithoutName
<1> QED  BY <1>1, <1>2

LEMMA MountGoneKept ==
    ASSUME InOci, NEW x, NEW q, NEW vs, NEW a, RemovesMount(last', x), MountGone(q, vs, a),
           O!Save([image EXCEPT !.volumes = vs, !.annotations = a]),
           x = q \/ (x \in Name /\ NamesPath(image.annotations, x, q))
    PROVE  User!Next
<1>1. /\ image'.volumes = vs /\ image'.annotations = a /\ Changed("mounts", OciMounts')
      /\ Settings.mounts = OciMounts /\ "mounts" \in DOMAIN Settings
  BY OnlyMountsChange DEF MountGone
<1>2. ASSUME NEW e PROVE e \in OciMounts' <=> e \in OciMounts /\ e.path # q
  <2>1. e \in [name : Name \cup {None}, path : vs, ro : {FALSE}] <=>
           e \in [name : Name \cup {None}, path : image.volumes, ro : {FALSE}] /\ e.path # q
    BY DEF MountGone
  <2>2. e.path # q => \A j : NamesPath(a, j, e.path) <=> NamesPath(image.annotations, j, e.path)
    BY DEF MountGone
  <2> QED  BY <1>1, <2>1, <2>2, MountsAre, MountsArePrimed
<1>3. OciMounts' # OciMounts
  <2> SUFFICES \E e \in OciMounts : e.path = q
    BY <1>2
  <2>0. q \in image.volumes
    BY DEF MountGone
  <2>1. CASE \E n \in Name : NamesPath(image.annotations, n, q)
    <3>1. PICK n \in Name : NamesPath(image.annotations, n, q)
      BY <2>1
    <3> DEFINE e == [name |-> n, path |-> q, ro |-> FALSE]
    <3>2. e \in [name : Name \cup {None}, path : image.volumes, ro : {FALSE}] /\ e.path = q
      BY <2>0
    <3>3. e.name # None /\ NamesPath(image.annotations, e.name, e.path)
      BY <3>1, NamesAssumption
    <3> HIDE DEF e
    <3> QED  BY <3>2, <3>3, MountsAre
  <2>2. CASE \A n \in Name : ~NamesPath(image.annotations, n, q)
    <3> DEFINE e == [name |-> None, path |-> q, ro |-> FALSE]
    <3>2. e \in [name : Name \cup {None}, path : image.volumes, ro : {FALSE}] /\ e.path = q
      BY <2>0
    <3>3. e.name = None
      OBVIOUS
    <3> HIDE DEF e
    <3> QED  BY <2>2, <3>2, <3>3, MountsAre
  <2> QED  BY <2>1, <2>2
<1>4. ASSUME NEW e \in OciMounts \ OciMounts' PROVE x \in {e.name, e.path}
  <2>1. e.path = q
    BY <1>2, <1>4
  <2>2. CASE x = q
    BY <2>1, <2>2
  <2>3. CASE x \in Name /\ NamesPath(image.annotations, x, q)
    <3>1. e.name # None /\ NamesPath(image.annotations, e.name, q)
      BY <2>1, <2>3, MountsAre
    <3>2. e.name = x
      BY <2>3, <3>1, OneName, Zenon
    <3> QED  BY <3>2
  <2> QED  BY <2>2, <2>3
<1>5. OciMounts' \subseteq OciMounts
  BY <1>2
<1> QED  BY <1>1, <1>3, <1>4, <1>5, RemoveMountPromise

LEMMA OciRemoveMountKept ==
    ASSUME InOci, NEW x, RemovesMount(last', x), O!RemoveMount(x)
    PROVE  User!Next
<1>1. CASE O!Fail
  BY <1>1, OciRefused, RefusedKept DEF O!Fail
<1>2. CASE x \in image.volumes
  <2>1. PICK a \in O!DropOne(image.annotations, <<"path", x>>) :
           O!Save([image EXCEPT !.volumes = image.volumes \ {x}, !.annotations = a])
    BY <1>2 DEF O!RemoveMount
  <2> QED  BY <1>2, <2>1, DropPath, MountGoneKept
<1>3. CASE x \notin image.volumes /\ ~O!Fail
  <2> DEFINE k == O!MountName(x)
             q == O!PathIn(image.annotations[k])
  <2>1. /\ k \in DOMAIN image.annotations /\ q \in image.volumes
        /\ O!Save([image EXCEPT !.volumes = image.volumes \ {q},
                                !.annotations = O!Without(image.annotations, k)])
    BY <1>3 DEF O!RemoveMount
  <2>2. k[1] = "mount"
    BY DEF O!MountName
  <2>3. (\E n \in Name : k = O!MountName(n)) /\ \E p : image.annotations[k] = <<"path", p>>
    BY <2>1, <2>2, NamingKeys
  <2>4. x \in Name
    BY <2>3, Keys, Zenon
  <2>5. image.annotations[k] = <<"path", q>>
    <3>1. q = image.annotations[k][2]
      BY <2>1, <2>2 DEF InOci, InStep
    <3> QED  BY <2>3, <3>1
  <2>6. NamesPath(image.annotations, x, q)
    BY <2>1, <2>5 DEF NamesPath, Says
  <2> QED  BY <2>1, <2>4, <2>6, WithoutName, MountGoneKept
<1> QED  BY <1>1, <1>2, <1>3

LEMMA PlaceIs ==
    ASSUME NEW p \in Port, NEW num, NEW proto \in Protocol
    PROVE  Place(p) = <<num, proto>> <=> p.number = num /\ p.protocol = proto
<1>1. proto # None
  BY NamesAssumption
<1>2. CASE p.protocol = None
  <2>1. Place(p) = <<p.number>>
    BY <1>2 DEF Place
  <2>2. <<p.number>> # <<num, proto>>
    OBVIOUS
  <2> QED  BY <1>1, <1>2, <2>1, <2>2
<1>3. CASE p.protocol # None
  <2>1. Place(p) = <<p.number, p.protocol>>
    BY <1>3 DEF Place
  <2> QED  BY <2>1
<1> QED  BY <1>2, <1>3

LEMMA OciAddPortKept ==
    ASSUME InOci, NEW n \in Name, NEW proto \in Protocol, NEW num \in Number,
           NEW opts \in SUBSET {"range", "sock"},
           AddsPort(last', [name |-> n, number |-> num, protocol |-> proto, opts |-> opts]),
           O!AddPort(n, proto, num, opts)
    PROVE  User!Next
<1> DEFINE p == [name |-> n, number |-> num, protocol |-> proto, opts |-> opts]
           a == O!Put(image.annotations, O!PortName(n), <<"port", num, proto>>)
           ps == image.ports \cup {<<num, proto>>}
<1>1. CASE O!Fail
  BY <1>1, OciRefused, RefusedKept DEF O!Fail
<1>2. CASE ~O!Fail
  <2>1. /\ opts = {} /\ O!PortName(n) \notin DOMAIN image.annotations
        /\ O!Save([image EXCEPT !.ports = ps, !.annotations = a])
    BY <1>2 DEF O!AddPort
  <2>2. \A k, v : (\A j : k # O!PortName(j)) => (Says(a, k, v) <=> Says(image.annotations, k, v))
    BY SaysPut
  <2>3. \A j, s, t : NamesPort(a, j, s, t) <=>
           (j = n /\ s = num /\ t = proto) \/ NamesPort(image.annotations, j, s, t)
    BY <2>1, PutNamesPort
  <2> HIDE DEF a, ps
  <2>4. /\ image'.ports = ps /\ image'.annotations = a
        /\ Changed("ports", OciPorts')
        /\ Settings.ports = OciPorts /\ "ports" \in DOMAIN Settings
    BY <2>1, <2>2, OnlyPortsChange
  <2>5. n # None
    BY NamesAssumption
  <2>6. p \in OciPorts'
    <3>1. p \in Port /\ p.name = n /\ p.number = num /\ p.protocol = proto
      BY <2>1 DEF Port
    <3> HIDE DEF p
    <3>2. Place(p) \in ps
      BY <3>1, PlaceIs DEF ps
    <3>3. NamesPort(a, p.name, p.number, p.protocol) /\ p.name # None
      BY <2>3, <2>5, <3>1
    <3> QED  BY <2>4, <3>1, <3>2, <3>3, PortsArePrimed
  <2>7. ASSUME NEW e \in Port, ~(e.number = num /\ e.protocol = proto)
        PROVE  e \in OciPorts <=> e \in OciPorts'
    <3>1. \A j : NamesPort(a, j, e.number, e.protocol) <=> NamesPort(image.annotations, j, e.number, e.protocol)
      BY <2>3, <2>7
    <3>2. Place(e) \in ps <=> Place(e) \in image.ports
      BY <2>7, PlaceIs DEF ps
    <3> QED  BY <2>4, <3>1, <3>2, PortsAre, PortsArePrimed
  <2>8. \A e \in OciPorts \cup OciPorts' :
           \/ e = p \/ p.name \in {e.name, e.number}
           \/ <<p.number, p.protocol>> = <<e.number, e.protocol>>
           \/ (e \in OciPorts /\ e \in OciPorts')
    <3>1. \A e \in OciPorts \cup OciPorts' : e \in Port
      BY PortsAre, PortsArePrimed
    <3>2. p.number = num /\ p.protocol = proto
      OBVIOUS
    <3> HIDE DEF p
    <3> QED  BY <2>7, <3>1, <3>2
  <2> QED  BY <2>4, <2>6, <2>8, AddPortPromise
<1> QED  BY <1>1, <1>2

\* A port and the annotation that names it go together, if one does.
PortGone(num, proto, ps, a) ==
    /\ num \in Number /\ proto \in Protocol
    /\ <<num, proto>> \in image.ports /\ ps = image.ports \ {<<num, proto>>}
    /\ \A k, v : (\A n : k # O!PortName(n)) => (Says(a, k, v) <=> Says(image.annotations, k, v))
    /\ \A j, s, t : NamesPort(a, j, s, t) <=>
          NamesPort(image.annotations, j, s, t) /\ ~(s = num /\ t = proto)

LEMMA WithoutPortName ==
    ASSUME InOci, NEW n, NEW num \in Number, NEW proto \in Protocol,
           NamesPort(image.annotations, n, num, proto), <<num, proto>> \in image.ports
    PROVE  PortGone(num, proto, image.ports \ {<<num, proto>>},
                    O!Without(image.annotations, O!PortName(n)))
<1> DEFINE a == O!Without(image.annotations, O!PortName(n))
<1>1. \A k, v : (\A j : k # O!PortName(j)) => (Says(a, k, v) <=> Says(image.annotations, k, v))
  BY SaysWithout
<1>2. ASSUME NEW j, NEW s, NEW t
      PROVE  NamesPort(a, j, s, t) <=>
                NamesPort(image.annotations, j, s, t) /\ ~(s = num /\ t = proto)
  <2>1. NamesPort(a, j, s, t) <=> O!PortName(j) # O!PortName(n) /\ NamesPort(image.annotations, j, s, t)
    BY SaysWithout DEF NamesPort
  <2>2. O!PortName(j) = O!PortName(n) <=> j = n
    BY Keys, Zenon
  <2>3. NamesPort(image.annotations, j, s, t) /\ s = num /\ t = proto => j = n
    BY OneName, Zenon
  <2>4. NamesPort(image.annotations, n, s, t) => s = num /\ t = proto
    <3>1. NamesPort(image.annotations, n, s, t) => <<"port", s, t>> = <<"port", num, proto>>
      BY DEF NamesPort, Says
    <3> QED  BY <3>1, Keys, Zenon
  <2> QED  BY <2>1, <2>2, <2>3, <2>4
<1> QED  BY <1>1, <1>2 DEF PortGone

LEMMA DropPort ==
    ASSUME InOci, NEW num \in Number, NEW proto \in Protocol, <<num, proto>> \in image.ports,
           NEW a \in O!DropOne(image.annotations, <<"port", num, proto>>)
    PROVE  PortGone(num, proto, image.ports \ {<<num, proto>>}, a)
<1> DEFINE annos == image.annotations
           v == <<"port", num, proto>>
<1>1. CASE O!ByValue(annos, v) = {}
  <2>1. a = annos /\ \A k \in DOMAIN annos : annos[k] # v
    BY <1>1 DEF O!DropOne, O!ByValue
  <2>2. \A j : ~NamesPort(annos, j, num, proto)
    BY <2>1 DEF NamesPort, Says
  <2> QED  BY <2>1, <2>2 DEF PortGone
<1>2. CASE O!ByValue(annos, v) # {}
  <2>1. PICK k \in DOMAIN annos : annos[k] = v /\ a = O!Without(annos, k)
    BY <1>2 DEF O!DropOne, O!ByValue
  <2>2. annos[k][1] = "port"
    BY <2>1
  <2>3. PICK n \in Name : k = O!PortName(n)
    BY <2>2, NamingKeys
  <2>4. NamesPort(annos, n, num, proto)
    BY <2>1, <2>3 DEF NamesPort, Says
  <2> QED  BY <2>1, <2>3, <2>4, WithoutPortName
<1> QED  BY <1>1, <1>2

LEMMA PortGoneKept ==
    ASSUME InOci, NEW x, NEW num, NEW proto, NEW ps, NEW a, RemovesPort(last', x),
           PortGone(num, proto, ps, a),
           O!Save([image EXCEPT !.ports = ps, !.annotations = a]),
           \/ x \in {<<num>>, <<num, proto>>}
           \/ \E n \in Name : x = <<n>> /\ NamesPort(image.annotations, n, num, proto)
    PROVE  User!Next
<1>0. num \in Number /\ proto \in Protocol /\ <<num, proto>> \in image.ports
  BY DEF PortGone
<1>1. /\ image'.ports = ps /\ image'.annotations = a /\ Changed("ports", OciPorts')
      /\ Settings.ports = OciPorts /\ "ports" \in DOMAIN Settings
  BY OnlyPortsChange DEF PortGone
<1>2. ASSUME NEW e PROVE e \in OciPorts' <=> e \in OciPorts /\ ~(e.number = num /\ e.protocol = proto)
  <2>1. e \in Port => (Place(e) \in ps <=>
           Place(e) \in image.ports /\ ~(e.number = num /\ e.protocol = proto))
    BY <1>0, PlaceIs DEF PortGone
  <2>2. ~(e.number = num /\ e.protocol = proto) =>
           \A j : NamesPort(a, j, e.number, e.protocol)
                    <=> NamesPort(image.annotations, j, e.number, e.protocol)
    BY DEF PortGone
  <2> QED  BY <1>1, <2>1, <2>2, PortsAre, PortsArePrimed
<1>3. OciPorts' # OciPorts
  <2> SUFFICES \E e \in OciPorts : e.number = num /\ e.protocol = proto
    BY <1>2
  <2>1. CASE \E n \in Name : NamesPort(image.annotations, n, num, proto)
    <3>1. PICK n \in Name : NamesPort(image.annotations, n, num, proto)
      BY <2>1
    <3> DEFINE e == [name |-> n, number |-> num, protocol |-> proto, opts |-> {}]
    <3>2. e \in Port /\ e.name = n /\ e.number = num /\ e.protocol = proto
      BY <1>0 DEF Port
    <3> HIDE DEF e
    <3>3. n # None
      BY NamesAssumption
    <3>4. Place(e) \in image.ports
      BY <1>0, <3>2, PlaceIs
    <3> QED  BY <3>1, <3>2, <3>3, <3>4, PortsAre
  <2>2. CASE \A n \in Name : ~NamesPort(image.annotations, n, num, proto)
    <3> DEFINE e == [name |-> None, number |-> num, protocol |-> proto, opts |-> {}]
    <3>2. e \in Port /\ e.name = None /\ e.number = num /\ e.protocol = proto
      BY <1>0 DEF Port
    <3> HIDE DEF e
    <3>3. Place(e) \in image.ports
      BY <1>0, <3>2, PlaceIs
    <3> QED  BY <2>2, <3>2, <3>3, PortsAre
  <2> QED  BY <2>1, <2>2
<1>4. ASSUME NEW e \in OciPorts \ OciPorts'
      PROVE  x \in {<<e.name>>, <<e.number>>, <<e.number, e.protocol>>}
  <2>1. e.number = num /\ e.protocol = proto
    BY <1>2, <1>4
  <2>2. CASE x \in {<<num>>, <<num, proto>>}
    BY <2>1, <2>2
  <2>3. CASE \E n \in Name : x = <<n>> /\ NamesPort(image.annotations, n, num, proto)
    <3>1. PICK n \in Name : x = <<n>> /\ NamesPort(image.annotations, n, num, proto)
      BY <2>3
    <3>2. e.name # None /\ NamesPort(image.annotations, e.name, num, proto)
      BY <2>1, <3>1, PortsAre
    <3>3. e.name = n
      BY <3>1, <3>2, OneName, Zenon
    <3> QED  BY <3>1, <3>3
  <2> QED  BY <2>2, <2>3
<1>5. OciPorts' \subseteq OciPorts
  BY <1>2
<1> QED  BY <1>1, <1>3, <1>4, <1>5, RemovePortPromise

LEMMA OciRemovePortKept ==
    ASSUME InOci, NEW x \in {<<y>> : y \in Name \cup Number} \cup (Number \X Protocol),
           RemovesPort(last', x), O!RemovePort(x)
    PROVE  User!Next
<1>1. CASE O!Fail
  BY <1>1, OciRefused, RefusedKept DEF O!Fail
<1>2. CASE O!RemoveByNumber(x)
  <2>1. PICK key \in {k \in image.ports : k = x \/ <<k[1]>> = x} :
           \/ exit' \in {1, 2} /\ image' = image
           \/ /\ Len(key) # 1
              /\ \E a \in O!DropOne(image.annotations, <<"port">> \o key) :
                   O!Save([image EXCEPT !.ports = image.ports \ {key}, !.annotations = a])
    BY <1>2 DEF O!RemoveByNumber, O!Fail
  <2>2. CASE exit' \in {1, 2} /\ image' = image
    BY <2>2, OciRefused, RefusedKept
  <2>3. CASE ~(exit' \in {1, 2} /\ image' = image)
    <3>1. key \in (Number \X Protocol) \cup {<<n>> : n \in Number}
      BY <2>1 DEF InOci, ImageType
    <3>0. Len(key) # 1
      BY <2>1, <2>3
    <3>2. key \in Number \X Protocol
      BY <3>0, <3>1
    <3>3. PICK num \in Number, proto \in Protocol : key = <<num, proto>>
      BY <3>2
    <3>4. <<"port">> \o key = <<"port", num, proto>>
      BY <3>3, TailOfPort
    <3>5. PICK a \in O!DropOne(image.annotations, <<"port", num, proto>>) :
             O!Save([image EXCEPT !.ports = image.ports \ {<<num, proto>>}, !.annotations = a])
      BY <2>1, <2>3, <3>3, <3>4
    <3>6. <<num, proto>> \in image.ports /\ x \in {<<num>>, <<num, proto>>}
      BY <2>1, <3>3
    <3>7. PortGone(num, proto, image.ports \ {<<num, proto>>}, a)
      BY <3>5, <3>6, DropPort
    <3> QED  BY <3>5, <3>6, <3>7, PortGoneKept
  <2> QED  BY <2>2, <2>3
<1>3. CASE ~O!RemoveByNumber(x) /\ ~O!Fail
  <2> DEFINE k == O!PortName(x[1])
             q == O!PortIn(image.annotations[k])
  <2>1. /\ Len(x) = 1 /\ k \in DOMAIN image.annotations /\ q \in image.ports
        /\ O!Save([image EXCEPT !.ports = image.ports \ {q},
                                !.annotations = O!Without(image.annotations, k)])
    BY <1>3 DEF O!RemovePort
  <2>2. k[1] = "port"
    BY DEF O!PortName
  <2>3. /\ \E n \in Name : k = O!PortName(n)
        /\ \E num \in Number, proto \in Protocol : image.annotations[k] = <<"port", num, proto>>
    BY <2>1, <2>2, NamingKeys
  <2>4. x[1] \in Name
    BY <2>3, Keys, Zenon
  <2>5. PICK num \in Number, proto \in Protocol : image.annotations[k] = <<"port", num, proto>>
    BY <2>3
  <2>6. q = <<num, proto>>
    BY <2>5, TailOfPort DEF O!PortIn
  <2>7. NamesPort(image.annotations, x[1], num, proto)
    BY <2>1, <2>5 DEF NamesPort, Says
  <2>8. x = <<x[1]>>
    <3>1. CASE x \in {<<y>> : y \in Name \cup Number}
      BY <3>1
    <3>2. CASE x \in Number \X Protocol
      BY <2>1, <3>2, PairIsTuple
    <3> QED  BY <3>1, <3>2
  <2>9. PortGone(num, proto, image.ports \ {<<num, proto>>}, O!Without(image.annotations, k))
    BY <2>1, <2>6, <2>7, WithoutPortName
  <2> HIDE DEF k, q
  <2> QED  BY <2>1, <2>4, <2>6, <2>7, <2>8, <2>9, PortGoneKept
<1> QED  BY <1>1, <1>2, <1>3

-----------------------------------------------------------------------------
(* replace-manifest in OCI mode.                                               *)

LEMMA OciFileIs ==
    ASSUME NEW f \in Files, DOMAIN f \cap {"entry", "cmd"} = {}
    PROVE  LET g == OciFile(f)
           IN  /\ DOMAIN g \subseteq {"env", "entry", "cmd", "user", "dir", "volumes"}
               /\ \A x \in {"env", "user", "dir", "volumes"} : x \in DOMAIN g <=> x \in DOMAIN f
               /\ "entry" \in DOMAIN g <=> "exec" \in DOMAIN f
               /\ "cmd" \in DOMAIN g <=> "exec" \in DOMAIN f
               /\ "env" \in DOMAIN f => g.env = {<<n, f.env[n]>> : n \in DOMAIN f.env}
               /\ "exec" \in DOMAIN f => g.entry = SubSeq(f.exec, 1, 1) /\ g.cmd = Tail(f.exec)
               /\ "user" \in DOMAIN f => g.user = <<f.user, f.group>>
               /\ "dir" \in DOMAIN f => g.dir = f.dir
               /\ "volumes" \in DOMAIN f => g.volumes = f.volumes
BY DEF OciFile

LEMMA EnvReplaced ==
    ASSUME NEW e, e \in [DOMAIN e -> Value], image'.env = {<<n, e[n]>> : n \in DOMAIN e}
    PROVE  OciEnv' = e
<1>0. \A n, v, m, w : <<n, v>> = <<m, w>> => n = m /\ v = w
  OBVIOUS
<1>1. \A n, v : <<n, v>> \in image'.env <=> n \in DOMAIN e /\ v = e[n]
  <2>1. ASSUME NEW n, NEW v, <<n, v>> \in image'.env PROVE n \in DOMAIN e /\ v = e[n]
    <3>1. PICK m \in DOMAIN e : <<n, v>> = <<m, e[m]>>
      BY <2>1
    <3>2. n = m /\ v = e[m]
      BY <1>0, <3>1, Zenon
    <3> QED  BY <3>2
  <2>2. ASSUME NEW n \in DOMAIN e PROVE <<n, e[n]>> \in image'.env
    OBVIOUS
  <2> QED  BY <2>1, <2>2
<1>2. {p[1] : p \in image'.env} = DOMAIN e
  <2>1. \A p \in image'.env : p[1] \in DOMAIN e
    OBVIOUS
  <2>2. \A n \in DOMAIN e : <<n, e[n]>> \in image'.env /\ <<n, e[n]>>[1] = n
    OBVIOUS
  <2>3. ASSUME NEW n \in DOMAIN e PROVE \E p \in image'.env : p[1] = n
    BY <2>2
  <2> QED  BY <2>1, <2>3, Zenon
<1>3. \A n \in DOMAIN e : ValuesOf(n)' = {e[n]}
  BY <1>1 DEF ValuesOf
<1>4. DOMAIN OciEnv' = DOMAIN e /\ \A n \in DOMAIN e : OciEnv'[n] = e[n]
  BY <1>2, <1>3, AnyOfOne DEF OciEnv
<1>5. OciEnv' = [n \in DOMAIN OciEnv' |-> OciEnv'[n]]
  BY DEF OciEnv
<1> QED  BY <1>4, <1>5

\* Volumes that are added keep the names there are.
LEMMA VolumesAdded ==
    ASSUME NEW new, image'.annotations = image.annotations, image'.volumes = image.volumes \cup new
    PROVE  /\ OciMounts \subseteq OciMounts'
           /\ {e.path : e \in OciMounts' \ OciMounts} \subseteq new
           /\ new \subseteq {e.path : e \in OciMounts'}
<1>0. ASSUME NEW e
      PROVE  e \in [name : Name \cup {None}, path : image.volumes, ro : {FALSE}] <=>
                /\ e \in [name : Name \cup {None}, path : image'.volumes, ro : {FALSE}]
                /\ e.path \in image.volumes
  OBVIOUS
<1>1. OciMounts \subseteq OciMounts'
  <2> SUFFICES ASSUME NEW e \in OciMounts PROVE e \in OciMounts'
    OBVIOUS
  <2> QED  BY <1>0, MountsAre, MountsArePrimed
<1>2. ASSUME NEW e \in OciMounts' \ OciMounts PROVE e.path \in new
  <2>1. e \in [name : Name \cup {None}, path : image'.volumes, ro : {FALSE}]
    BY MountsArePrimed
  <2>2. e.path \notin image.volumes
    BY <1>0, <2>1, MountsAre, MountsArePrimed
  <2> QED  BY <2>1, <2>2
<1>3. ASSUME NEW p \in new
      PROVE  \E e \in OciMounts' : e.path = p
  <2>0. p \in image'.volumes
    OBVIOUS
  <2>1. CASE \E n \in Name : NamesPath(image.annotations, n, p)
    <3>1. PICK n \in Name : NamesPath(image.annotations, n, p)
      BY <2>1
    <3> DEFINE e == [name |-> n, path |-> p, ro |-> FALSE]
    <3>2. e \in [name : Name \cup {None}, path : image'.volumes, ro : {FALSE}] /\ e.path = p
      BY <2>0
    <3>3. e.name # None /\ NamesPath(image'.annotations, e.name, e.path)
      BY <3>1, NamesAssumption
    <3> HIDE DEF e
    <3> QED  BY <3>2, <3>3, MountsArePrimed
  <2>2. CASE \A n \in Name : ~NamesPath(image.annotations, n, p)
    <3> DEFINE e == [name |-> None, path |-> p, ro |-> FALSE]
    <3>2. e \in [name : Name \cup {None}, path : image'.volumes, ro : {FALSE}] /\ e.path = p
      BY <2>0
    <3>3. e.name = None
      OBVIOUS
    <3> HIDE DEF e
    <3> QED  BY <2>2, <3>2, <3>3, MountsArePrimed
  <2> QED  BY <2>1, <2>2
<1> QED  BY <1>1, <1>2, <1>3

LEMMA OciReplaceKept ==
    ASSUME InOci, NEW f \in Files, last' = [op |-> "replace", file |-> f], O!Replace(OciFile(f))
    PROVE  User!Next
<1> DEFINE g == OciFile(f)
<1>0. DOMAIN image = NamingFields \cup {"env", "entry", "cmd", "user", "dir", "ref"}
  BY ImageFields DEF InOci
<1>f. /\ DOMAIN f \cap {"annotations", "ref", "entry", "cmd", "mounts", "ports"} = {}
      /\ "volumes" \in DOMAIN f
      /\ "user" \in DOMAIN f <=> "group" \in DOMAIN f
      /\ "env" \in DOMAIN f => f.env \in [DOMAIN f.env -> Value]
      /\ "exec" \in DOMAIN f => f.exec \in Seq(Value) \ {<<>>}
  BY FilesAssumption DEF InOci, PlainFiles
<1>g. /\ DOMAIN g \subseteq {"env", "entry", "cmd", "user", "dir", "volumes"}
      /\ \A x \in {"env", "user", "dir", "volumes"} : x \in DOMAIN g <=> x \in DOMAIN f
      /\ "entry" \in DOMAIN g <=> "exec" \in DOMAIN f
      /\ "cmd" \in DOMAIN g <=> "exec" \in DOMAIN f
      /\ "env" \in DOMAIN f => g.env = {<<n, f.env[n]>> : n \in DOMAIN f.env}
      /\ "exec" \in DOMAIN f => g.entry = SubSeq(f.exec, 1, 1) /\ g.cmd = Tail(f.exec)
      /\ "user" \in DOMAIN f => g.user = <<f.user, f.group>>
      /\ "dir" \in DOMAIN f => g.dir = f.dir
      /\ g.volumes = f.volumes
  BY <1>f, OciFileIs
<1> HIDE DEF g
<1>1. /\ exit' = 0
      /\ image' = [x \in DOMAIN image |->
                     IF x \notin DOMAIN g THEN image[x]
                     ELSE IF x \in {"volumes", "ports"} THEN image[x] \cup g[x] ELSE g[x]]
  BY DEF O!Replace, O!Save, g
<1>2. /\ image'.annotations = image.annotations /\ image'.ports = image.ports
      /\ image'.ref = image.ref
      /\ image'.volumes = image.volumes \cup f.volumes
      /\ image'.env = IF "env" \in DOMAIN f THEN g.env ELSE image.env
      /\ image'.dir = IF "dir" \in DOMAIN f THEN f.dir ELSE image.dir
      /\ image'.user = IF "user" \in DOMAIN f THEN g.user ELSE image.user
      /\ image'.entry = IF "exec" \in DOMAIN f THEN g.entry ELSE image.entry
      /\ image'.cmd = IF "exec" \in DOMAIN f THEN g.cmd ELSE image.cmd
  BY <1>0, <1>1, <1>f, <1>g DEF NamingFields
<1>3. OciTexts' = OciTexts /\ OciPorts' = OciPorts
  BY <1>2, TextsUntouched, PortsUntouched
<1>4. OciEnv' = IF "env" \in DOMAIN f THEN f.env ELSE OciEnv
  BY <1>2, <1>f, <1>g, EnvReplaced, EnvUntouched
<1>5. ExecOf(image') = IF "exec" \in DOMAIN f THEN f.exec ELSE ExecOf(image)
  BY <1>2, <1>f, <1>g, WholeAgain DEF ExecOf
<1>6. UserOf(image') = IF "user" \in DOMAIN f THEN f.user ELSE UserOf(image)
  BY <1>2, <1>g DEF UserOf
<1>7. GroupOf(image') = IF "group" \in DOMAIN f THEN f.group ELSE GroupOf(image)
  <2>1. CASE "user" \in DOMAIN f
    <3>1. image'.user = <<f.user, f.group>> /\ "group" \in DOMAIN f
      BY <1>2, <1>f, <1>g, <2>1
    <3> QED  BY <3>1 DEF GroupOf
  <2>2. CASE "user" \notin DOMAIN f
    BY <1>2, <1>f, <2>2 DEF GroupOf
  <2> QED  BY <2>1, <2>2
<1>8. /\ DOMAIN Settings' = DOMAIN Settings
      /\ \A x \in DOMAIN Settings \ {"mounts"} :
            Settings'[x] = IF x \in DOMAIN f THEN f[x] ELSE Settings[x]
      /\ Settings.mounts = OciMounts /\ Settings'.mounts = OciMounts'
  <2>1. Settings = OciSettings /\ Settings' = OciSettings'
    BY DEF InOci, Settings
  <2>2. ASSUME NEW x \in OciFields \ {"mounts"}
        PROVE  OciSettings'[x] = IF x \in DOMAIN f THEN f[x] ELSE OciSettings[x]
    <3>1. x \in {"annotations", "env", "ports", "exec", "user", "group", "dir", "ref"}
      BY DEF OciFields
    <3> QED
      BY <1>2, <1>3, <1>4, <1>5, <1>6, <1>7, <1>f, <3>1, OciRead, OciReadPrimed
  <2> QED  BY <2>1, <2>2, OciRead, OciReadPrimed
<1>9. /\ OciMounts \subseteq OciMounts'
      /\ {e.path : e \in OciMounts' \ OciMounts} \subseteq f.volumes
      /\ f.volumes \subseteq {e.path : e \in OciMounts'}
  BY <1>2, VolumesAdded
<1>10. User!Replace(last')
  BY <1>8, <1>9 DEF User!Replace
<1> QED  BY <1>1, <1>10 DEF User!Next, User!Promise

-----------------------------------------------------------------------------
\* The commands of OCI mode.
LEMMA OciStep ==
    ASSUME Plain, PlainFiles, mode = "oci", ImageType(image), InStep(image), Next
    PROVE  User!Next
<1> USE DEF Run, InMode, AppcOnly
<1>a. InOci
  BY NextIsEdit DEF InOci, Edit
<1>f. O!Fail => User!Next
  BY <1>a, OciRefused, RefusedKept DEF O!Fail
<1>1. RunAddAnno \/ RunRmAnno => User!Next
  <2>u. UserKeys = {"text"} \X Name /\ UserValues = {"text"} \X Value
    BY DEF UserKeys, UserValues, Plain, AllAvoid
  <2>t. ASSUME NEW k \in UserKeys
        PROVE  k[2] \in Name /\ k = <<"text", k[2]>>
    BY <2>u
  <2>v. ASSUME NEW v \in UserValues
        PROVE  v[2] \in Value /\ v = <<"text", v[2]>>
    BY <2>u
  <2>2. RunAddAnno => OciText
    <3> SUFFICES ASSUME RunAddAnno PROVE OciText
      OBVIOUS
    <3>1. PICK k \in UserKeys, v \in UserValues :
             last' = PutIn("annotations", k[2], v[2]) /\ O!AddAnnotation(k, v)
      BY <1>a DEF RunAddAnno, InOci
    <3>2. k[2] \in Name /\ k = <<"text", k[2]>> /\ v[2] \in Value /\ v = <<"text", v[2]>>
      BY <2>t, <2>v
    <3>3. O!AddAnnotation(<<"text", k[2]>>, <<"text", v[2]>>)
      BY <3>1, <3>2
    <3> QED  BY <3>1, <3>2, <3>3 DEF OciText
  <2>3. RunRmAnno => OciText
    <3> SUFFICES ASSUME RunRmAnno PROVE OciText
      OBVIOUS
    <3>1. PICK k \in UserKeys : last' = Take("annotations", k[2]) /\ O!RemoveAnnotation(k)
      BY <1>a DEF RunRmAnno, InOci
    <3>2. k[2] \in Name /\ k = <<"text", k[2]>>
      BY <2>t
    <3>3. O!RemoveAnnotation(<<"text", k[2]>>)
      BY <3>1, <3>2
    <3> QED  BY <3>1, <3>2, <3>3 DEF OciText
  <2>1. RunAddAnno \/ RunRmAnno => OciText
    BY <2>2, <2>3
  <2> QED  BY <1>a, <2>1, OciTextKept
<1>2. RunAddLabel \/ RunRmLabel \/ RunAddIso \/ RunRemoveIso \/ RunSetHandler \/ RunSetName
        \/ RunSetSuppGroups \/ RunAddDep \/ RunRmDep \/ RunReplaceNoMan => User!Next
  BY <1>a, <1>f DEF RunAddLabel, RunRmLabel, RunAddIso, RunRemoveIso, RunSetHandler, RunSetName,
     RunSetSuppGroups, RunAddDep, RunRmDep, RunReplaceNoMan, InOci, O!AddLabel, O!RemoveLabel
<1>3. RunAddEnv \/ RunRemoveEnv => User!Next
  <2>1. "malformed" \in Avoid
    BY <1>a DEF InOci, Plain, AllAvoid
  <2>2. RunAddEnv \/ RunRemoveEnv => OciVariable
    BY <1>a, <2>1 DEF RunAddEnv, RunRemoveEnv, InOci, OciVariable, Usually
  <2> QED  BY <1>a, <2>2, OciVariableKept
<1>4. RunAddMount => User!Next
  <2> SUFFICES ASSUME RunAddMount PROVE User!Next
    OBVIOUS
  <2>1. PICK n \in Name, p \in Path, ro \in BOOLEAN :
           /\ AddsMount(last', [name |-> n, path |-> p, ro |-> ro]) /\ O!AddMount(n, p, ro)
    BY <1>a DEF RunAddMount, InOci, AddsMount
  <2> QED  BY <1>a, <2>1, OciAddMountKept
<1>5. RunRmMount => User!Next
  <2>1. RunRmMount => \E x : RemovesMount(last', x) /\ O!RemoveMount(x)
    BY <1>a DEF RunRmMount, InOci, RemovesMount
  <2> QED  BY <1>a, <2>1, OciRemoveMountKept
<1>6. RunAddPort => User!Next
  <2> SUFFICES ASSUME RunAddPort PROVE User!Next
    OBVIOUS
  <2>1. PICK n \in Name, proto \in Protocol, num \in Number \ Services, opts \in SUBSET {"range", "sock"} :
           /\ AddsPort(last', [name |-> n, number |-> num, protocol |-> proto, opts |-> opts])
           /\ O!AddPort(n, proto, num, opts)
    BY <1>a DEF RunAddPort, InOci, AddsPort
  <2> QED  BY <1>a, <2>1, OciAddPortKept
<1>7. RunRmPort => User!Next
  <2>1. RunRmPort => \E x \in {<<y>> : y \in Name \cup Number} \cup (Number \X Protocol) :
                        RemovesPort(last', x) /\ O!RemovePort(x)
    BY <1>a DEF RunRmPort, InOci, RemovesPort
  <2> QED  BY <1>a, <2>1, OciRemovePortKept
<1>8. RunSetExec \/ RunSetUser \/ RunSetGroup \/ RunSetWorkingDir => User!Next
  <2>1. RunSetExec => OciSet
    BY <1>a DEF RunSetExec, InOci, OciSet, Usually, Plain, AllAvoid
  <2>2. RunSetUser \/ RunSetGroup \/ RunSetWorkingDir => OciSet
    BY <1>a DEF RunSetUser, RunSetGroup, RunSetWorkingDir, InOci, OciSet
  <2> QED  BY <1>a, <2>1, <2>2, OciSetKept
<1>9. RunSetTag => User!Next
  <2>1. RunSetTag => \E v : last' = [op |-> "tag", value |-> v, version |-> Version] /\ O!SetTag(v)
    BY <1>a DEF RunSetTag, InOci
  <2> QED  BY <1>a, <2>1, OciTagKept
<1>10. RunReplaceMan => User!Next
  <2>1. RunReplaceMan => \E f \in Files : /\ last' = [op |-> "replace", file |-> f]
                                          /\ O!Replace(OciFile(f))
    BY <1>a DEF RunReplaceMan, InOci
  <2> QED  BY <1>a, <2>1, OciReplaceKept
<1> QED
  BY <1>1, <1>2, <1>3, <1>4, <1>5, <1>6, <1>7, <1>8, <1>9, <1>10 DEF Next

\* ImplementsSettings of the run: whatever the build mode and whatever manifest a build
\* begins with, a command changes the setting it names as ImageSettings says and no
\* other one, or it fails and changes nothing, as long as nobody uses an OCI image in
\* one of the six ways that README lists as not in line with it.
THEOREM ImplementsImageSettings ==
    ASSUME Plain, PlainFiles PROVE Spec => ImplementsSettings
<1>1. Init => User!Init
  BY DEF Init, User!Init
<1>2. TypeOK /\ NamesUnique /\ NamesInStep /\ [Next]_vars => [User!Next]_User!vars
  <2> SUFFICES ASSUME TypeOK, NamesUnique, NamesInStep, [Next]_vars PROVE [User!Next]_User!vars
    OBVIOUS
  <2>1. CASE UNCHANGED vars
    <3>1. UNCHANGED <<mode, man, image, last, exit>>
      BY <2>1 DEF vars
    <3>2. Settings' = Settings
      BY <3>1 DEF Settings, AppcSettings, OciSettings, OciTexts, OciEnv, ValuesOf, OciMounts,
         OciPorts, A!App
    <3> QED  BY <3>1, <3>2 DEF User!vars
  <2>2. CASE Next
    <3>1. mode = "appc" => Fine(man)
      BY DEF TypeOK, NamesUnique, Fine
    <3>2. mode = "oci" => ImageType(image) /\ InStep(image)
      BY DEF TypeOK, NamesInStep
    <3>3. mode \in {"appc", "oci"}
      BY DEF TypeOK
    <3> QED  BY <2>2, <3>1, <3>2, <3>3, AppcStep, OciStep
  <2> QED  BY <2>1, <2>2
<1>3. Naming \subseteq Avoid
  BY DEF Plain, AllAvoid, Naming
<1>4. Spec => []NamesInStep
  BY <1>3, NamesStayInStep
<1> QED
  BY <1>1, <1>2, <1>4, ManifestInvariant, PTL DEF Spec, ImplementsSettings, User!Spec
================================================================================
