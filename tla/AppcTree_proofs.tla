----------------------------- MODULE AppcTree_proofs ---------------------------
(*****************************************************************************)
(* Proofs about the trees of dependencies in AppcRun: what the recursive     *)
(* functions of Registry compute, for any images that do not depend on       *)
(* themselves, and from that what the container sees and when a run fails.   *)
(* The inductions are about sets: a set of counterexamples that is not empty *)
(* has a least member.                                                       *)
(*****************************************************************************)
EXTENDS AppcRun_proofs, Lists_proofs

-----------------------------------------------------------------------------
(* Walks over a tree, of which DepList, GenDeplist and Above are three: below  *)
(* is what follows from each key that is expanded, and is put after the key or *)
(* before the one in self.                                                     *)

WalkStep(inner, below, place, self, f, k) ==
    LET all == FlattenSeq([i \in DOMAIN below[k] |-> f[below[k][i]]])
    IN  IF k \notin inner THEN <<k>>
        ELSE IF place = "first" THEN <<k>> \o all
        ELSE Append(all, self[k])

\* The members of the lists of what is below, and those of the list of k.
AllBelow(below, f, k) == UNION {ToSet(f[below[k][i]]) : i \in DOMAIN below[k]}
WithSelf(below, place, self, f, k) ==
    AllBelow(below, f, k) \cup {IF place = "first" THEN k ELSE self[k]}

IsWalk(K, inner, below, place, self, f) ==
    f = [k \in K |-> WalkStep(inner, below, place, self, f, k)]

\* Of any keys one has nothing below that is one of them.
NoCycle(inner, below) ==
    \A some \in SUBSET inner : some # {} =>
        \E k \in some : \A i \in DOMAIN below[k] : below[k][i] \notin some

\* A step looks only at what is below.
LEMMA StepLocal ==
    ASSUME NEW inner, NEW below, NEW place, NEW self, NEW f, NEW g, NEW k,
           k \in inner => \A i \in DOMAIN below[k] : f[below[k][i]] = g[below[k][i]]
    PROVE  WalkStep(inner, below, place, self, f, k) = WalkStep(inner, below, place, self, g, k)
<1>1. CASE k \notin inner
  BY <1>1 DEF WalkStep
<1>2. CASE k \in inner
  <2>1. [i \in DOMAIN below[k] |-> f[below[k][i]]] = [i \in DOMAIN below[k] |-> g[below[k][i]]]
    BY <1>2
  <2> QED  BY <2>1 DEF WalkStep
<1> QED  BY <1>1, <1>2

\* What a step computes, and its members.
Fits(K, inner, below, self, f) ==
    /\ inner \in SUBSET K /\ below \in [inner -> Seq(K)] /\ self \in [inner -> K]
    /\ f \in [K -> Seq(K)]

LEMMA StepFacts ==
    ASSUME NEW K, NEW inner, NEW below, NEW place, NEW self, NEW f,
           Fits(K, inner, below, self, f), NEW k \in K
    PROVE  /\ WalkStep(inner, below, place, self, f, k) \in Seq(K)
           /\ k \in inner =>
                 ToSet(WalkStep(inner, below, place, self, f, k)) = WithSelf(below, place, self, f, k)
<1>0. /\ inner \subseteq K /\ below \in [inner -> Seq(K)] /\ self \in [inner -> K]
      /\ f \in [K -> Seq(K)]
  BY DEF Fits
<1>1. CASE k \notin inner
  BY <1>1, MembersOfOne DEF WalkStep
<1>2. CASE k \in inner
  <2> DEFINE ss == [i \in DOMAIN below[k] |-> f[below[k][i]]]
  <2>1. below[k] \in Seq(K)
    BY <1>0, <1>2
  <2>2. DOMAIN below[k] = 1..Len(below[k]) /\ Len(below[k]) \in Nat
    BY <2>1
  <2>3. \A i \in 1..Len(below[k]) : below[k][i] \in K
    BY <2>1
  <2>4. ss \in [1..Len(below[k]) -> Seq(K)]
    BY <1>0, <2>2, <2>3
  <2>5. \A i \in DOMAIN below[k] : ss[i] = f[below[k][i]]
    OBVIOUS
  <2> HIDE DEF ss
  <2>6. FlattenSeq(ss) \in Seq(K) /\ ToSet(FlattenSeq(ss)) = UNION {ToSet(ss[j]) : j \in 1..Len(below[k])}
    BY <2>2, <2>4, FlattenFacts
  <2>7. UNION {ToSet(ss[j]) : j \in 1..Len(below[k])} = AllBelow(below, f, k)
    BY <2>2, <2>5 DEF AllBelow
  <2>8. CASE place = "first"
    <3>1. WalkStep(inner, below, place, self, f, k) = <<k>> \o FlattenSeq(ss)
      BY <1>2, <2>8 DEF WalkStep, ss
    <3>2. <<k>> \in Seq(K) /\ ToSet(<<k>>) = {k}
      BY MembersOfOne
    <3>3. /\ <<k>> \o FlattenSeq(ss) \in Seq(K)
          /\ ToSet(<<k>> \o FlattenSeq(ss)) = ToSet(<<k>>) \cup ToSet(FlattenSeq(ss))
      <4> DEFINE all == FlattenSeq(ss)
                 one == <<k>>
      <4>1. all \in Seq(K) /\ one \in Seq(K)
        BY <2>6, <3>2
      <4> HIDE DEF all, one
      <4>2. one \o all \in Seq(K) /\ ToSet(one \o all) = ToSet(one) \cup ToSet(all)
        BY <4>1, Members
      <4> QED  BY <4>2 DEF all, one
    <3>4. (IF place = "first" THEN k ELSE self[k]) = k
      BY <2>8
    <3> QED  BY <2>6, <2>7, <3>1, <3>2, <3>3, <3>4 DEF WithSelf
  <2>9. CASE place # "first"
    <3>1. WalkStep(inner, below, place, self, f, k) = Append(FlattenSeq(ss), self[k])
      BY <1>2, <2>9 DEF WalkStep, ss
    <3>2. self[k] \in K
      BY <1>0, <1>2
    <3>3. /\ Append(FlattenSeq(ss), self[k]) \in Seq(K)
          /\ ToSet(Append(FlattenSeq(ss), self[k])) = ToSet(FlattenSeq(ss)) \cup {self[k]}
      BY <2>6, <3>2, MembersAppend
    <3>4. (IF place = "first" THEN k ELSE self[k]) = self[k]
      BY <2>9
    <3> QED  BY <2>6, <2>7, <3>1, <3>3, <3>4 DEF WithSelf
  <2> QED  BY <2>8, <2>9
<1> QED  BY <1>1, <1>2

\* There is only one walk.
LEMMA WalkUnique ==
    ASSUME NEW K, NEW inner \in SUBSET K, NEW below \in [inner -> Seq(K)], NEW place, NEW self,
           NoCycle(inner, below), NEW f, NEW g,
           IsWalk(K, inner, below, place, self, f), IsWalk(K, inner, below, place, self, g)
    PROVE  f = g
<1> DEFINE Step(h, k) == WalkStep(inner, below, place, self, h, k)
           other == {k \in inner : f[k] # g[k]}
<1>1. f = [k \in K |-> Step(f, k)] /\ g = [k \in K |-> Step(g, k)]
  BY DEF IsWalk
<1>2. ASSUME NEW k \in K \ inner PROVE f[k] = g[k]
  <2>1. f[k] = Step(f, k) /\ g[k] = Step(g, k)
    BY <1>1
  <2> QED  BY <2>1 DEF WalkStep
<1>3. other = {}
  <2> SUFFICES ASSUME other # {} PROVE FALSE
    OBVIOUS
  <2>1. PICK k \in other : \A i \in DOMAIN below[k] : below[k][i] \notin other
    <3> HIDE DEF other
    <3>1. other \in SUBSET inner
      BY DEF other
    <3> QED  BY <3>1 DEF NoCycle
  <2>2. \A i \in DOMAIN below[k] : below[k][i] \in K
    <3>1. below[k] \in Seq(K)
      OBVIOUS
    <3> QED  BY <3>1
  <2>3. \A i \in DOMAIN below[k] : f[below[k][i]] = g[below[k][i]]
    BY <1>2, <2>1, <2>2
  <2> HIDE DEF other
  <2>4. Step(f, k) = Step(g, k)
    BY <2>3, StepLocal
  <2>5. k \in K /\ f[k] # g[k]
    BY DEF other
  <2>6. f[k] = Step(f, k) /\ g[k] = Step(g, k)
    <3> HIDE DEF Step
    <3> QED  BY <1>1, <2>5
  <2> QED  BY <2>4, <2>5, <2>6
<1>4. \A k \in K : Step(f, k) = Step(g, k)
  <2> SUFFICES ASSUME NEW k \in K PROVE Step(f, k) = Step(g, k)
    OBVIOUS
  <2>1. k \in inner => \A i \in DOMAIN below[k] : below[k][i] \in K
    <3>1. k \in inner => below[k] \in Seq(K)
      OBVIOUS
    <3> QED  BY <3>1
  <2>2. \A j \in K : f[j] = g[j]
    BY <1>2, <1>3
  <2>3. k \in inner => \A i \in DOMAIN below[k] : f[below[k][i]] = g[below[k][i]]
    BY <2>1, <2>2
  <2> QED  BY <2>3, StepLocal
<1> HIDE DEF Step
<1>5. [k \in K |-> Step(f, k)] = [k \in K |-> Step(g, k)]
  BY <1>4
<1> QED  BY <1>1, <1>5

\* ... and there is one: partial walks on sets of keys that are closed agree with each
\* other, and one more key can be added to all of them together.
Partial(K, inner, below, place, self, keys, f) ==
    /\ keys \subseteq inner /\ f \in [K -> Seq(K)]
    /\ \A k \in keys : \A i \in DOMAIN below[k] : below[k][i] \in inner => below[k][i] \in keys
    /\ \A k \in K \ inner : f[k] = <<k>>
    /\ \A k \in keys : f[k] = WalkStep(inner, below, place, self, f, k)

LEMMA PartialsAgree ==
    ASSUME NEW K, NEW inner \in SUBSET K, NEW below \in [inner -> Seq(K)], NEW place, NEW self,
           NoCycle(inner, below), NEW C, NEW f, NEW D, NEW g,
           Partial(K, inner, below, place, self, C, f), Partial(K, inner, below, place, self, D, g)
    PROVE  \A k \in C \cap D : f[k] = g[k]
<1> DEFINE other == {k \in C \cap D : f[k] # g[k]}
<1>1. other \in SUBSET inner
  BY DEF Partial
<1> SUFFICES ASSUME other # {} PROVE FALSE
  OBVIOUS
<1>2. PICK k \in other : \A i \in DOMAIN below[k] : below[k][i] \notin other
  <2> HIDE DEF other
  <2> QED  BY <1>1 DEF NoCycle
<1>3. k \in C /\ k \in D /\ k \in inner /\ f[k] # g[k]
  BY <1>1
<1>4. \A i \in DOMAIN below[k] : below[k][i] \in K
  <2>1. below[k] \in Seq(K)
    BY <1>3
  <2> QED  BY <2>1
<1>5. ASSUME NEW i \in DOMAIN below[k] PROVE f[below[k][i]] = g[below[k][i]]
  <2>1. CASE below[k][i] \in inner
    <3>1. below[k][i] \in C \cap D
      BY <1>3, <2>1 DEF Partial
    <3> QED  BY <1>2, <3>1
  <2>2. CASE below[k][i] \notin inner
    BY <1>4, <2>2 DEF Partial
  <2> QED  BY <2>1, <2>2
<1>6. WalkStep(inner, below, place, self, f, k) = WalkStep(inner, below, place, self, g, k)
  BY <1>5, StepLocal
<1> QED  BY <1>3, <1>6 DEF Partial

LEMMA WalkExists ==
    ASSUME NEW K, NEW inner \in SUBSET K, NEW below \in [inner -> Seq(K)],
           NEW place, NEW self \in [inner -> K], NoCycle(inner, below)
    PROVE  \E f \in [K -> Seq(K)] : IsWalk(K, inner, below, place, self, f)
<1> DEFINE Part(C, f) == Partial(K, inner, below, place, self, C, f)
           Step(f, k) == WalkStep(inner, below, place, self, f, k)
           Covers(k, C, f) == Part(C, f) /\ k \in C
           walked == {k \in inner : \E C, f : Covers(k, C, f)}
           F == [k \in K |-> IF k \in walked THEN CHOOSE v : \E C, f : Covers(k, C, f) /\ v = f[k]
                             ELSE IF k \in inner THEN <<>> ELSE <<k>>]
<1>1. \A k \in inner : \A i \in DOMAIN below[k] : below[k][i] \in K
  <2> SUFFICES ASSUME NEW k \in inner PROVE \A i \in DOMAIN below[k] : below[k][i] \in K
    OBVIOUS
  <2>1. below[k] \in Seq(K)
    OBVIOUS
  <2> QED  BY <2>1
<1>2. ASSUME NEW k, NEW C, NEW f, Covers(k, C, f) PROVE k \in walked /\ F[k] = f[k]
  <2>1. k \in inner /\ k \in K
    BY <1>2 DEF Partial
  <2>2. k \in walked
    <3> HIDE DEF Covers
    <3> QED  BY <1>2, <2>1
  <2>3. ASSUME NEW v, \E D, g : Covers(k, D, g) /\ v = g[k] PROVE v = f[k]
    <3>1. PICK D, g : Covers(k, D, g) /\ v = g[k]
      BY <2>3
    <3>2. \A j \in C \cap D : f[j] = g[j]
      BY <1>2, <3>1, PartialsAgree
    <3> QED  BY <1>2, <3>1, <3>2
  <2>4. \E v : \E D, g : Covers(k, D, g) /\ v = g[k]
    <3> HIDE DEF Covers
    <3> QED  BY <1>2
  <2>5. (CHOOSE v : \E D, g : Covers(k, D, g) /\ v = g[k]) = f[k]
    <3> HIDE DEF Covers
    <3> QED  BY <2>3, <2>4
  <2>6. F[k] = CHOOSE v : \E D, g : Covers(k, D, g) /\ v = g[k]
    <3> HIDE DEF Covers, walked
    <3> QED  BY <2>1, <2>2
  <2> QED  BY <2>2, <2>5, <2>6
<1>3. \A k \in walked : k \in inner /\ \E C, f : Covers(k, C, f)
  <2> HIDE DEF Covers
  <2> QED  OBVIOUS
<1>4. \A k \in K \ walked : F[k] = IF k \in inner THEN <<>> ELSE <<k>>
  <2> HIDE DEF walked
  <2> QED  OBVIOUS
<1>5. DOMAIN F = K /\ F = [k \in K |-> F[k]] /\ walked \subseteq inner
  <2>1. walked \subseteq inner
    OBVIOUS
  <2> HIDE DEF walked
  <2> QED  BY <2>1
<1> HIDE DEF F, walked
<1>6. F \in [K -> Seq(K)]
  <2>1. ASSUME NEW k \in K PROVE F[k] \in Seq(K)
    <3>1. CASE k \in walked
      <4>1. PICK C, f : Covers(k, C, f)
        BY <1>3, <3>1
      <4>2. F[k] = f[k] /\ f \in [K -> Seq(K)]
        BY <1>2, <4>1 DEF Partial
      <4> QED  BY <4>2
    <3>2. CASE k \notin walked
      <4>1. <<k>> \in Seq(K) /\ <<>> \in Seq(K)
        BY MembersOfOne
      <4> QED  BY <1>4, <3>2, <4>1
    <3> QED  BY <3>1, <3>2
  <2> QED  BY <1>5, <2>1
<1>7. \A k \in K \ inner : F[k] = <<k>>
  BY <1>3, <1>4
<1>8. ASSUME NEW k \in walked
      PROVE  /\ \A i \in DOMAIN below[k] : below[k][i] \in inner => below[k][i] \in walked
             /\ F[k] = Step(F, k)
  <2>1. PICK C, f : Covers(k, C, f)
    BY <1>3
  <2>2. ASSUME NEW i \in DOMAIN below[k], below[k][i] \in inner
        PROVE  below[k][i] \in walked /\ F[below[k][i]] = f[below[k][i]]
    <3>1. Covers(below[k][i], C, f)
      BY <2>1, <2>2 DEF Partial
    <3> HIDE DEF Covers
    <3> QED  BY <1>2, <3>1
  <2>3. ASSUME NEW i \in DOMAIN below[k], below[k][i] \notin inner
        PROVE  F[below[k][i]] = f[below[k][i]]
    <3>1. below[k][i] \in K \ inner
      BY <1>1, <1>3, <2>3
    <3> QED  BY <1>7, <2>1, <3>1 DEF Partial
  <2>4. Step(F, k) = Step(f, k)
    BY <2>2, <2>3, StepLocal
  <2>5. f[k] = Step(f, k)
    BY <2>1 DEF Partial
  <2>6. F[k] = f[k]
    BY <1>2, <2>1
  <2> HIDE DEF Step
  <2> QED  BY <2>2, <2>4, <2>5, <2>6
<1>9. inner \subseteq walked
  <2> DEFINE rest == inner \ walked
  <2> SUFFICES ASSUME rest # {} PROVE FALSE
    OBVIOUS
  <2>1. PICK k \in rest : \A i \in DOMAIN below[k] : below[k][i] \notin rest
    <3>1. rest \in SUBSET inner
      OBVIOUS
    <3> HIDE DEF rest
    <3> QED  BY <3>1 DEF NoCycle
  <2> DEFINE G == [F EXCEPT ![k] = Step(F, k)]
             C == walked \cup {k}
  <2>2. k \in inner /\ k \in K /\ k \notin walked
    OBVIOUS
  <2>3. Step(F, k) \in Seq(K)
    <3>1. Fits(K, inner, below, self, F)
      BY <1>6 DEF Fits
    <3> QED  BY <2>2, <3>1, StepFacts
  <2>4. G \in [K -> Seq(K)] /\ G[k] = Step(F, k) /\ \A j \in K : j # k => G[j] = F[j]
    <3> HIDE DEF Step
    <3> QED  BY <1>6, <2>2, <2>3
  <2>5. \A j \in C : \A i \in DOMAIN below[j] : below[j][i] \in inner => below[j][i] \in walked
    BY <1>8, <2>1
  <2>6. ASSUME NEW j \in C PROVE G[j] = Step(G, j)
    <3>1. \A i \in DOMAIN below[j] : G[below[j][i]] = F[below[j][i]]
      <4> SUFFICES ASSUME NEW i \in DOMAIN below[j] PROVE G[below[j][i]] = F[below[j][i]]
        OBVIOUS
      <4>1. below[j][i] \in K
        BY <1>1, <1>5, <2>2
      <4>2. below[j][i] # k
        BY <2>2, <2>5
      <4> HIDE DEF G
      <4> QED  BY <2>4, <4>1, <4>2
    <3> HIDE DEF G
    <3>2. Step(G, j) = Step(F, j)
      BY <3>1, StepLocal
    <3>3. j # k => F[j] = Step(F, j) /\ G[j] = F[j]
      <4> HIDE DEF Step
      <4> QED  BY <1>5, <1>8, <2>4
    <3> HIDE DEF Step
    <3> QED  BY <2>4, <3>2, <3>3
  <2>7. \A j \in K \ inner : G[j] = <<j>>
    <3> HIDE DEF G
    <3> QED  BY <1>7, <2>2, <2>4
  <2> HIDE DEF G
  <2>8. Part(C, G)
    BY <1>5, <2>2, <2>4, <2>5, <2>6, <2>7 DEF Partial
  <2>9. k \in walked
    <3>1. Covers(k, C, G)
      BY <2>8
    <3> HIDE DEF Covers
    <3> QED  BY <1>2, <3>1
  <2> QED  BY <2>2, <2>9
<1>10. \A k \in K : F[k] = Step(F, k)
  <2> SUFFICES ASSUME NEW k \in K PROVE F[k] = Step(F, k)
    OBVIOUS
  <2>1. CASE k \in inner
    <3> HIDE DEF Step
    <3> QED  BY <1>8, <1>9, <2>1
  <2>2. CASE k \notin inner
    BY <1>7, <2>2 DEF WalkStep
  <2> QED  BY <2>1, <2>2
<1>11. F = [k \in K |-> Step(F, k)]
  <2> HIDE DEF Step
  <2> QED  BY <1>5, <1>10
<1> QED  BY <1>6, <1>11 DEF IsWalk

\* So a function that is chosen as a walk is one, and is a function of lists.
LEMMA TheWalk ==
    ASSUME NEW K, NEW inner \in SUBSET K, NEW below \in [inner -> Seq(K)],
           NEW place, NEW self \in [inner -> K], NoCycle(inner, below)
    PROVE  \E f \in [K -> Seq(K)] :
               /\ IsWalk(K, inner, below, place, self, f)
               /\ \A g : IsWalk(K, inner, below, place, self, g) => g = f
<1>1. PICK f \in [K -> Seq(K)] : IsWalk(K, inner, below, place, self, f)
  BY WalkExists
<1>2. ASSUME NEW g, IsWalk(K, inner, below, place, self, g) PROVE g = f
  BY <1>1, <1>2, WalkUnique
<1> QED  BY <1>1, <1>2

-----------------------------------------------------------------------------
(* Lookups.                                                                   *)

LEMMA TheFacts ==
    ASSUME Resolvable, NEW d \in LookedUp
    PROVE  The(d) \in Id /\ \A j \in Id : Matches(j, d) <=> j = The(d)
<1>1. PICK k \in Id : \A j \in Id : Matches(j, d) <=> j = k
  BY DEF Resolvable
<1>2. The(d) \in Id /\ Matches(The(d), d)
  BY <1>1 DEF The
<1> QED  BY <1>1, <1>2

LEMMA DepsLookedUp ==
    ASSUME Resolvable, NEW k \in Id
    PROVE  /\ Man[k].deps \in Seq(Dependency) /\ Reverse(Man[k].deps) \in Seq(Dependency)
           /\ \A i \in DOMAIN Man[k].deps : Man[k].deps[i] \in LookedUp
           /\ \A i \in DOMAIN Reverse(Man[k].deps) : Reverse(Man[k].deps)[i] \in LookedUp
           /\ [name |-> Man[k].name, version |-> Man[k].version] \in LookedUp
           /\ The([name |-> Man[k].name, version |-> Man[k].version]) = k
<1> DEFINE deps == Man[k].deps
<1>1. deps \in Seq(Dependency)
  BY DEF Resolvable
<1>2. Reverse(deps) \in Seq(Dependency) /\ ToSet(Reverse(deps)) = ToSet(deps)
  BY <1>1, MembersReverse
<1>3. ToSet(deps) \subseteq LookedUp
  BY DEF LookedUp
<1>4. \A i \in DOMAIN deps : deps[i] \in ToSet(deps)
  BY DEF ToSet
<1>5. \A i \in DOMAIN Reverse(deps) : Reverse(deps)[i] \in ToSet(Reverse(deps))
  BY DEF ToSet
<1>6. [name |-> Man[k].name, version |-> Man[k].version] \in LookedUp
  BY DEF LookedUp
<1>7. Matches(k, [name |-> Man[k].name, version |-> Man[k].version])
  BY DEF Matches
<1>8. The([name |-> Man[k].name, version |-> Man[k].version]) = k
  BY <1>6, <1>7, TheFacts
<1> QED  BY <1>1, <1>2, <1>3, <1>4, <1>5, <1>6, <1>8

LEMMA LookupKey ==
    /\ Id \subseteq Key /\ None \in Key /\ None \notin Id /\ Broken \notin Id /\ Truncated \notin Id
    /\ \A d : GetACI(d) \in Key /\ DepKey(d) \in Key
    /\ \A d : GetACI(d) \in Id => GetACI(d) \in Hits(d) /\ dir[GetACI(d)] # "made"
    /\ \A d : GetACI(d) \notin Id => (Hits(d) = {} /\ GetACI(d) = None) \/ \E k \in Hits(d) : dir[k] = "made"
    /\ None # Broken
<1>1. /\ Id \subseteq Nat /\ None \notin Id /\ Broken \notin Id /\ Truncated \notin Id
      /\ None # Broken
  BY IdAssumption
<1>2. Id \subseteq Key /\ None \in Key /\ Broken \in Key /\ Truncated \in Key
  BY DEF Key
<1>3. ASSUME NEW d
      PROVE  /\ GetACI(d) \in Key
             /\ GetACI(d) \in Id => GetACI(d) \in Hits(d) /\ dir[GetACI(d)] # "made"
             /\ GetACI(d) \notin Id => (Hits(d) = {} /\ GetACI(d) = None) \/ \E k \in Hits(d) : dir[k] = "made"
  <2>1. CASE Hits(d) = {}
    BY <1>1, <1>2, <2>1 DEF GetACI
  <2>2. CASE Hits(d) # {}
    <3> DEFINE least == CHOOSE k \in Hits(d) : \A l \in Hits(d) : k <= l
    <3>1. Hits(d) \subseteq Id
      BY DEF Hits
    <3>2. \E k \in Hits(d) : \A l \in Hits(d) : k <= l
      <4>1. Hits(d) \subseteq Nat
        BY <1>1, <3>1
      <4> QED  BY <2>2, <4>1, Least
    <3>3. least \in Hits(d)
      BY <3>2
    <3>4. GetACI(d) = IF dir[least] = "made" THEN Broken ELSE least
      BY <2>2 DEF GetACI
    <3> HIDE DEF least
    <3> QED  BY <1>1, <1>2, <3>1, <3>3, <3>4
  <2> QED  BY <2>1, <2>2
<1>4. ASSUME NEW d PROVE DepKey(d) \in Key
  BY <1>2, <1>3 DEF DepKey, ResolveKey
<1> QED  BY <1>1, <1>2, <1>3, <1>4

\* A lookup that finds an image finds the one that is meant.
LEMMA LookupFinds ==
    ASSUME Resolvable, NEW d \in LookedUp
    PROVE  /\ GetACI(d) \in Id => GetACI(d) = The(d)
           /\ DepKey(d) \in Id => DepKey(d) = The(d)
<1>1. GetACI(d) \in Id => GetACI(d) = The(d)
  <2> SUFFICES ASSUME GetACI(d) \in Id PROVE GetACI(d) = The(d)
    OBVIOUS
  <2>1. GetACI(d) \in Hits(d) /\ dir[GetACI(d)] # "made"
    BY LookupKey
  <2>2. Matches(GetACI(d), d)
    BY <2>1 DEF Hits
  <2> QED  BY <2>2, TheFacts
<1>2. DepKey(d) \in Id => DepKey(d) = GetACI(d)
  BY LookupKey DEF DepKey, ResolveKey
<1> QED  BY <1>1, <1>2

-----------------------------------------------------------------------------
(* The three trees.                                                           *)

\* What follows from an image as the documentation and as the two functions have it.
AboveBelow == [k \in Id |-> [i \in DOMAIN Reverse(Man[k].deps) |-> The(Reverse(Man[k].deps)[i])]]
ListBelow == [k \in Id |-> [i \in DOMAIN Reverse(Man[k].deps) |-> DepKey(Reverse(Man[k].deps)[i])]]
GenBelow == [k \in Id |-> [i \in DOMAIN Man[k].deps |-> GetACI(Man[k].deps[i])]]

LEMMA BelowFacts ==
    ASSUME Resolvable, Acyclic
    PROVE  /\ AboveBelow \in [Id -> Seq(Id)] /\ NoCycle(Id, AboveBelow)
           /\ ListBelow \in [Id -> Seq(Key)] /\ NoCycle(Id, ListBelow)
           /\ GenBelow \in [Id -> Seq(Key)] /\ NoCycle(Id, GenBelow)
<1>1. ASSUME NEW k \in Id
      PROVE  /\ Len(Man[k].deps) \in Nat /\ DOMAIN Man[k].deps = 1..Len(Man[k].deps)
             /\ DOMAIN Reverse(Man[k].deps) = 1..Len(Man[k].deps)
             /\ AboveBelow[k] \in Seq(Id) /\ ListBelow[k] \in Seq(Key) /\ GenBelow[k] \in Seq(Key)
  <2> DEFINE deps == Man[k].deps
             n == Len(deps)
  <2>1. deps \in Seq(Dependency)
    BY DepsLookedUp
  <2>2. n \in Nat /\ DOMAIN deps = 1..n /\ DOMAIN Reverse(deps) = 1..n
    BY <2>1, MembersReverse
  <2>3. \A i \in 1..n : The(Reverse(deps)[i]) \in Id
    BY <2>2, DepsLookedUp, TheFacts
  <2>4. \A i \in 1..n : DepKey(Reverse(deps)[i]) \in Key /\ GetACI(deps[i]) \in Key
    BY LookupKey
  <2>5. /\ AboveBelow[k] = [i \in DOMAIN Reverse(deps) |-> The(Reverse(deps)[i])]
        /\ ListBelow[k] = [i \in DOMAIN Reverse(deps) |-> DepKey(Reverse(deps)[i])]
        /\ GenBelow[k] = [i \in DOMAIN deps |-> GetACI(deps[i])]
    BY DEF AboveBelow, ListBelow, GenBelow
  <2>6. /\ AboveBelow[k] \in [1..n -> Id] /\ ListBelow[k] \in [1..n -> Key] /\ GenBelow[k] \in [1..n -> Key]
    <3> HIDE DEF deps, n
    <3> QED  BY <2>2, <2>3, <2>4, <2>5
  <2> HIDE DEF n
  <2>7. \A S : [1..n -> S] \subseteq Seq(S)
    BY <2>2, SeqDef
  <2> QED  BY <2>2, <2>6, <2>7 DEF n
<1>2. ASSUME NEW some \in SUBSET Id, some # {}
      PROVE  \E k \in some : /\ \A i \in DOMAIN AboveBelow[k] : AboveBelow[k][i] \notin some
                             /\ \A i \in DOMAIN ListBelow[k] : ListBelow[k][i] \notin some
                             /\ \A i \in DOMAIN GenBelow[k] : GenBelow[k][i] \notin some
  <2>1. PICK k \in some : \A i \in DOMAIN Man[k].deps : The(Man[k].deps[i]) \notin some
    BY <1>2 DEF Acyclic
  <2> DEFINE deps == Man[k].deps
  <2>2. k \in Id
    OBVIOUS
  <2>3. \A i \in DOMAIN deps : The(deps[i]) \notin some /\ deps[i] \in LookedUp
    BY <2>1, <2>2, DepsLookedUp
  <2>4. \A i \in DOMAIN Reverse(deps) :
           The(Reverse(deps)[i]) \notin some /\ Reverse(deps)[i] \in LookedUp
    <3> SUFFICES ASSUME NEW i \in DOMAIN Reverse(deps)
                 PROVE  The(Reverse(deps)[i]) \notin some /\ Reverse(deps)[i] \in LookedUp
      OBVIOUS
    <3>1. Reverse(deps)[i] \in ToSet(Reverse(deps))
      BY DEF ToSet
    <3>2. deps \in Seq(Dependency) /\ Reverse(deps)[i] \in LookedUp
      BY <2>2, DepsLookedUp
    <3>3. ToSet(Reverse(deps)) = ToSet(deps)
      BY <3>2, MembersReverse
    <3>4. PICK j \in DOMAIN deps : deps[j] = Reverse(deps)[i]
      BY <3>1, <3>3 DEF ToSet
    <3> QED  BY <2>3, <3>2, <3>4
  <2>5. \A i \in DOMAIN Reverse(deps) : DepKey(Reverse(deps)[i]) \notin some
    BY <2>4, LookupFinds
  <2>6. \A i \in DOMAIN deps : GetACI(deps[i]) \notin some
    BY <2>3, LookupFinds
  <2>7. /\ AboveBelow[k] = [i \in DOMAIN Reverse(deps) |-> The(Reverse(deps)[i])]
        /\ ListBelow[k] = [i \in DOMAIN Reverse(deps) |-> DepKey(Reverse(deps)[i])]
        /\ GenBelow[k] = [i \in DOMAIN deps |-> GetACI(deps[i])]
    BY <2>2 DEF AboveBelow, ListBelow, GenBelow
  <2> HIDE DEF deps
  <2> QED  BY <2>3, <2>4, <2>5, <2>6, <2>7
<1>3. NoCycle(Id, AboveBelow) /\ NoCycle(Id, ListBelow) /\ NoCycle(Id, GenBelow)
  BY <1>2 DEF NoCycle
<1>4. /\ AboveBelow \in [Id -> Seq(Id)] /\ ListBelow \in [Id -> Seq(Key)]
      /\ GenBelow \in [Id -> Seq(Key)]
  <2>1. /\ AboveBelow = [k \in Id |-> AboveBelow[k]] /\ ListBelow = [k \in Id |-> ListBelow[k]]
        /\ GenBelow = [k \in Id |-> GenBelow[k]]
    BY DEF AboveBelow, ListBelow, GenBelow
  <2> QED  BY <1>1, <2>1
<1> QED  BY <1>3, <1>4

Same == [k \in Id |-> k]
Selves == [k \in Id |-> Self(k)]

\* The functions of Registry and AppcRun are those walks.
LEMMA AboveIsWalk ==
    ASSUME Resolvable, Acyclic
    PROVE  Above \in [Id -> Seq(Id)] /\ IsWalk(Id, Id, AboveBelow, "first", Same, Above)
<1> DEFINE Body(f, k) == <<k>> \o FlattenSeq([i \in DOMAIN Reverse(Man[k].deps) |-> f[The(Reverse(Man[k].deps)[i])]])
<1>1. PICK f \in [Id -> Seq(Id)] :
         /\ IsWalk(Id, Id, AboveBelow, "first", Same, f)
         /\ \A g : IsWalk(Id, Id, AboveBelow, "first", Same, g) => g = f
  <2>1. Same \in [Id -> Id] /\ Id \in SUBSET Id
    BY DEF Same
  <2> QED  BY <2>1, BelowFacts, TheWalk
<1>2. ASSUME NEW g, NEW k \in Id PROVE Body(g, k) = WalkStep(Id, AboveBelow, "first", Same, g, k)
  <2>1. AboveBelow[k] = [i \in DOMAIN Reverse(Man[k].deps) |-> The(Reverse(Man[k].deps)[i])]
    BY DEF AboveBelow
  <2>2. [i \in DOMAIN Reverse(Man[k].deps) |-> g[The(Reverse(Man[k].deps)[i])]]
           = [i \in DOMAIN AboveBelow[k] |-> g[AboveBelow[k][i]]]
    BY <2>1
  <2> QED  BY <2>2 DEF WalkStep
<1>3. ASSUME NEW g
      PROVE  g = [k \in Id |-> Body(g, k)] <=> IsWalk(Id, Id, AboveBelow, "first", Same, g)
  <2> HIDE DEF Body
  <2> QED  BY <1>2 DEF IsWalk
<1>4. Above = CHOOSE g : g = [k \in Id |-> Body(g, k)]
  BY DEF Above
<1>5. Above = [k \in Id |-> Body(Above, k)]
  <2> HIDE DEF Body
  <2> QED  BY <1>1, <1>3, <1>4
<1>6. IsWalk(Id, Id, AboveBelow, "first", Same, Above)
  <2> HIDE DEF Body
  <2> QED  BY <1>3, <1>5
<1> QED  BY <1>1, <1>6

LEMMA DepListIsWalk ==
    ASSUME Resolvable, Acyclic
    PROVE  DepList \in [Key -> Seq(Key)] /\ IsWalk(Key, Id, ListBelow, "first", Same, DepList)
<1> DEFINE Body(f, k) ==
               IF k \notin Id THEN <<k>>
               ELSE <<k>> \o FlattenSeq([i \in DOMAIN Reverse(Man[k].deps) |-> f[DepKey(Reverse(Man[k].deps)[i])]])
<1>1. PICK f \in [Key -> Seq(Key)] :
         /\ IsWalk(Key, Id, ListBelow, "first", Same, f)
         /\ \A g : IsWalk(Key, Id, ListBelow, "first", Same, g) => g = f
  <2>1. Same \in [Id -> Key] /\ Id \in SUBSET Key
    BY LookupKey DEF Same
  <2> QED  BY <2>1, BelowFacts, TheWalk
<1>2. ASSUME NEW g, NEW k \in Key PROVE Body(g, k) = WalkStep(Id, ListBelow, "first", Same, g, k)
  <2>1. CASE k \in Id
    <3>1. ListBelow[k] = [i \in DOMAIN Reverse(Man[k].deps) |-> DepKey(Reverse(Man[k].deps)[i])]
      BY <2>1 DEF ListBelow
    <3>2. [i \in DOMAIN Reverse(Man[k].deps) |-> g[DepKey(Reverse(Man[k].deps)[i])]]
             = [i \in DOMAIN ListBelow[k] |-> g[ListBelow[k][i]]]
      BY <3>1
    <3> QED  BY <2>1, <3>2 DEF WalkStep
  <2>2. CASE k \notin Id
    BY <2>2 DEF WalkStep
  <2> QED  BY <2>1, <2>2
<1>3. ASSUME NEW g
      PROVE  g = [k \in Key |-> Body(g, k)] <=> IsWalk(Key, Id, ListBelow, "first", Same, g)
  <2> HIDE DEF Body
  <2> QED  BY <1>2 DEF IsWalk
<1>4. DepList = CHOOSE g : g = [k \in Key |-> Body(g, k)]
  BY DEF DepList
<1>5. DepList = [k \in Key |-> Body(DepList, k)]
  <2> HIDE DEF Body
  <2> QED  BY <1>1, <1>3, <1>4
<1>6. IsWalk(Key, Id, ListBelow, "first", Same, DepList)
  <2> HIDE DEF Body
  <2> QED  BY <1>3, <1>5
<1> QED  BY <1>1, <1>6

LEMMA GenDeplistIsWalk ==
    ASSUME Resolvable, Acyclic
    PROVE  GenDeplist \in [Key -> Seq(Key)] /\ IsWalk(Key, Id, GenBelow, "last", Selves, GenDeplist)
<1> DEFINE Body(f, k) ==
               IF k \notin Id THEN <<k>>
               ELSE Append(FlattenSeq([i \in DOMAIN Man[k].deps |-> f[GetACI(Man[k].deps[i])]]), Self(k))
<1>1. PICK f \in [Key -> Seq(Key)] :
         /\ IsWalk(Key, Id, GenBelow, "last", Selves, f)
         /\ \A g : IsWalk(Key, Id, GenBelow, "last", Selves, g) => g = f
  <2>1. Selves \in [Id -> Key] /\ Id \in SUBSET Key
    BY LookupKey DEF Selves, Self
  <2> QED  BY <2>1, BelowFacts, TheWalk
<1>2. ASSUME NEW g, NEW k \in Key PROVE Body(g, k) = WalkStep(Id, GenBelow, "last", Selves, g, k)
  <2>1. CASE k \in Id
    <3>1. GenBelow[k] = [i \in DOMAIN Man[k].deps |-> GetACI(Man[k].deps[i])] /\ Selves[k] = Self(k)
      BY <2>1 DEF GenBelow, Selves
    <3>2. [i \in DOMAIN Man[k].deps |-> g[GetACI(Man[k].deps[i])]] = [i \in DOMAIN GenBelow[k] |-> g[GenBelow[k][i]]]
      BY <3>1
    <3> QED  BY <2>1, <3>1, <3>2 DEF WalkStep
  <2>2. CASE k \notin Id
    BY <2>2 DEF WalkStep
  <2> QED  BY <2>1, <2>2
<1>3. ASSUME NEW g
      PROVE  g = [k \in Key |-> Body(g, k)] <=> IsWalk(Key, Id, GenBelow, "last", Selves, g)
  <2> HIDE DEF Body
  <2> QED  BY <1>2 DEF IsWalk
<1>4. GenDeplist = CHOOSE g : g = [k \in Key |-> Body(g, k)]
  BY DEF GenDeplist
<1>5. GenDeplist = [k \in Key |-> Body(GenDeplist, k)]
  <2> HIDE DEF Body
  <2> QED  BY <1>1, <1>3, <1>4
<1>6. IsWalk(Key, Id, GenBelow, "last", Selves, GenDeplist)
  <2> HIDE DEF Body
  <2> QED  BY <1>3, <1>5
<1> QED  BY <1>1, <1>6

\* Each of them, an image at a time.
LEMMA TreeMembers ==
    ASSUME Resolvable, Acyclic, NEW k \in Id
    PROVE  /\ Above[k] \in Seq(Id) /\ DepList[k] \in Seq(Key) /\ GenDeplist[k] \in Seq(Key)
           /\ ToSet(Above[k]) = AllBelow(AboveBelow, Above, k) \cup {k}
           /\ ToSet(DepList[k]) = AllBelow(ListBelow, DepList, k) \cup {k}
           /\ ToSet(GenDeplist[k]) =
                 AllBelow(GenBelow, GenDeplist, k) \cup {Self(k)}
<1>1. k \in Key /\ Id \in SUBSET Key /\ Id \in SUBSET Id
  BY LookupKey
<1>2. /\ Same \in [Id -> Id] /\ Same \in [Id -> Key] /\ Selves \in [Id -> Key]
      /\ Selves[k] = Self(k)
  BY LookupKey DEF Same, Selves, Self
<1>3. /\ Above[k] \in Seq(Id)
      /\ ToSet(Above[k]) = AllBelow(AboveBelow, Above, k) \cup {k}
  <2>1. Above[k] = WalkStep(Id, AboveBelow, "first", Same, Above, k)
    BY AboveIsWalk DEF IsWalk
  <2>2. ToSet(WalkStep(Id, AboveBelow, "first", Same, Above, k)) =
            WithSelf(AboveBelow, "first", Same, Above, k)
    <3>1. Fits(Id, Id, AboveBelow, Same, Above)
      BY <1>1, <1>2, AboveIsWalk, BelowFacts DEF Fits
    <3> QED  BY <3>1, StepFacts
  <2> QED  BY <2>1, <2>2, AboveIsWalk DEF WithSelf
<1>4. /\ DepList[k] \in Seq(Key)
      /\ ToSet(DepList[k]) = AllBelow(ListBelow, DepList, k) \cup {k}
  <2>1. DepList[k] = WalkStep(Id, ListBelow, "first", Same, DepList, k)
    BY <1>1, DepListIsWalk DEF IsWalk
  <2>2. ToSet(WalkStep(Id, ListBelow, "first", Same, DepList, k)) =
            WithSelf(ListBelow, "first", Same, DepList, k)
    <3>1. Fits(Key, Id, ListBelow, Same, DepList)
      BY <1>1, <1>2, DepListIsWalk, BelowFacts DEF Fits
    <3>2. k \in Key
      BY <1>1
    <3> QED  BY <3>1, <3>2, StepFacts
  <2> QED  BY <1>1, <2>1, <2>2, DepListIsWalk DEF WithSelf
<1>5. /\ GenDeplist[k] \in Seq(Key)
      /\ ToSet(GenDeplist[k]) =
            AllBelow(GenBelow, GenDeplist, k) \cup {Self(k)}
  <2>1. GenDeplist[k] = WalkStep(Id, GenBelow, "last", Selves, GenDeplist, k)
    BY <1>1, GenDeplistIsWalk DEF IsWalk
  <2>2. ToSet(WalkStep(Id, GenBelow, "last", Selves, GenDeplist, k)) =
            WithSelf(GenBelow, "last", Selves, GenDeplist, k)
    <3>1. Fits(Key, Id, GenBelow, Selves, GenDeplist)
      BY <1>1, <1>2, GenDeplistIsWalk, BelowFacts DEF Fits
    <3>2. k \in Key
      BY <1>1
    <3> QED  BY <3>1, <3>2, StepFacts
  <2> QED  BY <1>1, <1>2, <2>1, <2>2, GenDeplistIsWalk DEF WithSelf
<1> QED  BY <1>3, <1>4, <1>5

\* A list of images has only lists of images below it, and a key that is no image
\* makes no list of images.
LEMMA WholeKey ==
    ASSUME Resolvable, Acyclic, NEW k \in Key
    PROVE  /\ IsWhole(DepList[k]) => k \in Id
           /\ IsWhole(GenDeplist[k]) => k \in Id
<1>1. ASSUME k \notin Id PROVE DepList[k] = <<k>> /\ GenDeplist[k] = <<k>>
  BY <1>1, DepListIsWalk, GenDeplistIsWalk DEF IsWalk, WalkStep
<1>2. ASSUME k \notin Id PROVE ~IsWhole(<<k>>)
  <2> SUFFICES ASSUME <<k>> \in Seq(Id) PROVE FALSE
    BY DEF IsWhole
  <2>1. <<k>>[1] \in Id
    OBVIOUS
  <2> QED  BY <1>2, <2>1
<1> QED  BY <1>1, <1>2

LEMMA WholeBelow ==
    ASSUME Resolvable, Acyclic, NEW k \in Id
    PROVE  /\ IsWhole(DepList[k]) =>
                 \A i \in DOMAIN ListBelow[k] : ListBelow[k][i] \in Id /\ IsWhole(DepList[ListBelow[k][i]])
           /\ IsWhole(GenDeplist[k]) =>
                 /\ \A i \in DOMAIN GenBelow[k] : GenBelow[k][i] \in Id /\ IsWhole(GenDeplist[GenBelow[k][i]])
                 /\ Self(k) = k
<1>1. ASSUME NEW s \in Seq(Key), NEW t \in Seq(Key), IsWhole(s), ToSet(t) \subseteq ToSet(s)
      PROVE  IsWhole(t)
  <2>1. ToSet(s) \subseteq Id
    BY <1>1, Members DEF IsWhole
  <2>2. ToSet(t) \subseteq Id
    BY <1>1, <2>1
  <2> QED  BY <2>2, Members DEF IsWhole
<1>2. /\ ListBelow[k] \in Seq(Key) /\ GenBelow[k] \in Seq(Key)
  BY BelowFacts
<1>3. /\ DepList[k] \in Seq(Key) /\ GenDeplist[k] \in Seq(Key)
      /\ \A j \in Key : DepList[j] \in Seq(Key) /\ GenDeplist[j] \in Seq(Key)
  BY TreeMembers, DepListIsWalk, GenDeplistIsWalk
<1>4. ASSUME IsWhole(DepList[k]), NEW i \in DOMAIN ListBelow[k]
      PROVE  ListBelow[k][i] \in Id /\ IsWhole(DepList[ListBelow[k][i]])
  <2>1. ListBelow[k][i] \in Key
    BY <1>2
  <2>2. ToSet(DepList[ListBelow[k][i]]) \subseteq ToSet(DepList[k])
    <3>1. ToSet(DepList[ListBelow[k][i]]) \in {ToSet(DepList[ListBelow[k][m]]) : m \in DOMAIN ListBelow[k]}
      OBVIOUS
    <3>2. ToSet(DepList[ListBelow[k][i]]) \subseteq AllBelow(ListBelow, DepList, k)
      BY <3>1 DEF AllBelow
    <3> QED  BY <3>2, TreeMembers
  <2>3. IsWhole(DepList[ListBelow[k][i]])
    BY <1>1, <1>3, <1>4, <2>1, <2>2
  <2> QED  BY <2>1, <2>3, WholeKey
<1>5. ASSUME IsWhole(GenDeplist[k]), NEW i \in DOMAIN GenBelow[k]
      PROVE  GenBelow[k][i] \in Id /\ IsWhole(GenDeplist[GenBelow[k][i]])
  <2>1. GenBelow[k][i] \in Key
    BY <1>2
  <2>2. ToSet(GenDeplist[GenBelow[k][i]]) \subseteq ToSet(GenDeplist[k])
    <3>1. ToSet(GenDeplist[GenBelow[k][i]]) \in {ToSet(GenDeplist[GenBelow[k][m]]) : m \in DOMAIN GenBelow[k]}
      OBVIOUS
    <3>2. ToSet(GenDeplist[GenBelow[k][i]]) \subseteq AllBelow(GenBelow, GenDeplist, k)
      BY <3>1 DEF AllBelow
    <3> QED  BY <3>2, TreeMembers
  <2>3. IsWhole(GenDeplist[GenBelow[k][i]])
    BY <1>1, <1>3, <1>5, <2>1, <2>2
  <2> QED  BY <2>1, <2>3, WholeKey
<1>6. ASSUME IsWhole(GenDeplist[k]) PROVE Self(k) = k
  <2> DEFINE self == [name |-> Man[k].name, version |-> Man[k].version]
  <2>1. Self(k) \in ToSet(GenDeplist[k])
    BY TreeMembers
  <2>2. Self(k) \in Id
    BY <1>3, <1>6, <2>1, Members DEF IsWhole
  <2>3. Self(k) = GetACI(self) /\ self \in LookedUp /\ The(self) = k
    BY DepsLookedUp DEF Self
  <2> HIDE DEF self
  <2> QED  BY <2>2, <2>3, LookupFinds
<1> QED  BY <1>4, <1>5, <1>6

\* createDepList returns an error or the order of the documentation.
LEMMA DepListIsAbove ==
    ASSUME Resolvable, Acyclic, NEW k \in Id, IsWhole(DepList[k])
    PROVE  DepList[k] = Above[k]
<1> DEFINE other == {j \in Id : IsWhole(DepList[j]) /\ DepList[j] # Above[j]}
<1> SUFFICES ASSUME other # {} PROVE FALSE
  OBVIOUS
<1>1. PICK j \in other : \A i \in DOMAIN AboveBelow[j] : AboveBelow[j][i] \notin other
  <2>1. other \in SUBSET Id
    OBVIOUS
  <2> HIDE DEF other
  <2> QED  BY <2>1, BelowFacts DEF NoCycle
<1>2. j \in Id /\ j \in Key /\ IsWhole(DepList[j]) /\ DepList[j] # Above[j]
  BY LookupKey
<1>3. /\ AboveBelow[j] = [i \in DOMAIN Reverse(Man[j].deps) |-> The(Reverse(Man[j].deps)[i])]
      /\ ListBelow[j] = [i \in DOMAIN Reverse(Man[j].deps) |-> DepKey(Reverse(Man[j].deps)[i])]
  BY <1>2 DEF AboveBelow, ListBelow
<1>4. ASSUME NEW i \in DOMAIN Reverse(Man[j].deps)
      PROVE  ListBelow[j][i] = AboveBelow[j][i] /\ DepList[ListBelow[j][i]] = Above[AboveBelow[j][i]]
  <2>1. ListBelow[j][i] \in Id /\ IsWhole(DepList[ListBelow[j][i]])
    BY <1>2, <1>3, WholeBelow
  <2>2. Reverse(Man[j].deps)[i] \in LookedUp
    BY <1>2, DepsLookedUp
  <2>3. ListBelow[j][i] = AboveBelow[j][i]
    BY <1>3, <2>1, <2>2, LookupFinds
  <2>4. AboveBelow[j][i] \notin other
    BY <1>1, <1>3
  <2> QED  BY <2>1, <2>3, <2>4
<1>5. [i \in DOMAIN ListBelow[j] |-> DepList[ListBelow[j][i]]]
         = [i \in DOMAIN AboveBelow[j] |-> Above[AboveBelow[j][i]]]
  BY <1>3, <1>4
<1>6. DepList[j] = <<j>> \o FlattenSeq([i \in DOMAIN ListBelow[j] |-> DepList[ListBelow[j][i]]])
  BY <1>2, DepListIsWalk DEF IsWalk, WalkStep
<1>7. Above[j] = <<j>> \o FlattenSeq([i \in DOMAIN AboveBelow[j] |-> Above[AboveBelow[j][i]]])
  BY <1>2, AboveIsWalk DEF IsWalk, WalkStep
<1> QED  BY <1>2, <1>5, <1>6, <1>7

\* genDeplist returns an error or the same images.
LEMMA GenDeplistIsAbove ==
    ASSUME Resolvable, Acyclic, NEW k \in Id, IsWhole(GenDeplist[k])
    PROVE  ToSet(GenDeplist[k]) = ToSet(Above[k])
<1> DEFINE other == {j \in Id : IsWhole(GenDeplist[j]) /\ ToSet(GenDeplist[j]) # ToSet(Above[j])}
<1> SUFFICES ASSUME other # {} PROVE FALSE
  OBVIOUS
<1>1. PICK j \in other : \A i \in DOMAIN AboveBelow[j] : AboveBelow[j][i] \notin other
  <2>1. other \in SUBSET Id
    OBVIOUS
  <2> HIDE DEF other
  <2> QED  BY <2>1, BelowFacts DEF NoCycle
<1>2. j \in Id /\ IsWhole(GenDeplist[j]) /\ ToSet(GenDeplist[j]) # ToSet(Above[j])
  OBVIOUS
<1> DEFINE deps == Man[j].deps
<1>3. /\ AboveBelow[j] = [i \in DOMAIN Reverse(deps) |-> The(Reverse(deps)[i])]
      /\ GenBelow[j] = [i \in DOMAIN deps |-> GetACI(deps[i])]
      /\ deps \in Seq(Dependency)
  BY <1>2, DepsLookedUp DEF AboveBelow, GenBelow
<1>4. \A d : (\E i \in DOMAIN Reverse(deps) : Reverse(deps)[i] = d) <=> \E i \in DOMAIN deps : deps[i] = d
  <2>1. ToSet(Reverse(deps)) = ToSet(deps)
    BY <1>3, MembersReverse
  <2> HIDE DEF deps
  <2> QED  BY <2>1 DEF ToSet
<1>5. ASSUME NEW i \in DOMAIN deps
      PROVE  GetACI(deps[i]) = The(deps[i]) /\ ToSet(GenDeplist[GetACI(deps[i])]) = ToSet(Above[The(deps[i])])
  <2>1. GetACI(deps[i]) \in Id /\ IsWhole(GenDeplist[GetACI(deps[i])])
    BY <1>2, <1>3, WholeBelow
  <2>2. deps[i] \in LookedUp
    BY <1>2, DepsLookedUp
  <2>3. GetACI(deps[i]) = The(deps[i])
    BY <2>1, <2>2, LookupFinds
  <2>4. PICK m \in DOMAIN Reverse(deps) : Reverse(deps)[m] = deps[i]
    BY <1>4
  <2>5. AboveBelow[j][m] = The(deps[i]) /\ m \in DOMAIN AboveBelow[j]
    BY <1>3, <2>4
  <2>6. The(deps[i]) \notin other
    BY <1>1, <2>5
  <2> QED  BY <2>1, <2>3, <2>6
<1>6. AllBelow(GenBelow, GenDeplist, j)
         = UNION {ToSet(Above[The(deps[i])]) : i \in DOMAIN deps}
  <2> HIDE DEF deps
  <2> QED  BY <1>3, <1>5 DEF AllBelow
<1>7. AllBelow(AboveBelow, Above, j)
         = UNION {ToSet(Above[The(deps[i])]) : i \in DOMAIN deps}
  <2>1. {ToSet(Above[AboveBelow[j][i]]) : i \in DOMAIN AboveBelow[j]}
           = {ToSet(Above[The(Reverse(deps)[i])]) : i \in DOMAIN Reverse(deps)}
    BY <1>3
  <2> HIDE DEF deps
  <2>2. {ToSet(Above[The(Reverse(deps)[i])]) : i \in DOMAIN Reverse(deps)}
           = {ToSet(Above[The(deps[i])]) : i \in DOMAIN deps}
    BY <1>4
  <2> QED  BY <2>1, <2>2 DEF AllBelow
<1>8. Self(j) = j
  BY <1>2, WholeBelow
<1>9. /\ ToSet(GenDeplist[j]) = AllBelow(GenBelow, GenDeplist, j) \cup {Self(j)}
      /\ ToSet(Above[j]) = AllBelow(AboveBelow, Above, j) \cup {j}
  BY <1>2, TreeMembers
<1> QED  BY <1>2, <1>6, <1>7, <1>8, <1>9

-----------------------------------------------------------------------------
(* Rendering.  The images of the tree are extracted in its order, each of them *)
(* the files that no image before it has, and marked when it has them.         *)

Tree == Above[The(list[1])]

\* What the directory of an image has when it is rendered as part of the tree.
Share(images, k) ==
    {f \in Man[k].files : \E i \in DOMAIN images :
        images[i] = k /\ \A j \in 1..(i - 1) : f \notin Man[images[j]].files}

\* n images are done; of the others the files that are not left are there.
Progress ==
    \E n \in 0..Len(Tree) :
        /\ Len(queue) = Len(Tree) - n
        /\ \A j \in 1..Len(queue) :
              /\ queue[j].key = Tree[n + j] /\ queue[j].left \subseteq Wanted(Tree, n + j)
              /\ Wanted(Tree, n + j) \ (queue[j].left \cup {"manifest"}) \subseteq tree[Tree[n + j]]
        /\ \A i \in 1..n : Tree[i] \in rendered

\* renderACI is called for the only dependency of the image.
WantInv ==
    pc \in Fetching \cup {"returned"} =>
        list # <<>> /\ next = 1 /\ want = [list[1] EXCEPT !.id = None]

LowerInv ==
    /\ \/ next = 1 /\ lowers = <<>>
       \/ next = 2 /\ list # <<>> /\ ToSet(lowers) = ToSet(Tree) /\ ToSet(Tree) \subseteq rendered
    /\ pc \in {"zoneinfo", "engine", "execute"} => next > Len(list)

\* No image has more than its share, and one that is marked has all of it.
ShareInv ==
    list # <<>> => \A k \in Id : /\ tree[k] \subseteq Share(Tree, k)
                                 /\ k \in rendered => Share(Tree, k) \subseteq tree[k]

ProgressInv ==
    /\ pc \in {"render", "remanifest"} => Progress
    /\ pc = "returned" /\ ~failed => ToSet(Tree) \subseteq rendered

RenderInv == WantInv /\ LowerInv /\ ShareInv /\ ProgressInv

\* Lists with another head.
LEMMA ReplaceHead ==
    ASSUME NEW S, NEW s \in Seq(S), s # <<>>, NEW x \in S
    PROVE  /\ Len(<<x>> \o Tail(s)) = Len(s) /\ Len(s) \in Nat /\ 1 \in 1..Len(s)
           /\ (<<x>> \o Tail(s))[1] = x /\ Head(s) = s[1]
           /\ \A j \in 2..Len(s) : (<<x>> \o Tail(s))[j] = s[j]
<1> DEFINE t == Tail(s)
           c == <<x>> \o t
<1>1. /\ t \in Seq(S) /\ Len(s) \in Nat /\ Len(s) # 0 /\ Len(t) = Len(s) - 1
      /\ \A i \in 1..(Len(s) - 1) : t[i] = s[i + 1]
      /\ Head(s) = s[1]
  OBVIOUS
<1>2. <<x>> \in Seq(S) /\ Len(<<x>>) = 1 /\ <<x>>[1] = x
  OBVIOUS
<1> HIDE DEF t
<1>3. /\ Len(c) = 1 + Len(t)
      /\ \A i \in 1..(1 + Len(t)) : c[i] = IF i <= 1 THEN x ELSE t[i - 1]
  BY <1>1, <1>2, ConcatProperties
<1> HIDE DEF c
<1>4. Len(c) = Len(s) /\ 1 \in 1..Len(s) /\ c[1] = x
  BY <1>1, <1>3
<1>5. ASSUME NEW j \in 2..Len(s) PROVE c[j] = s[j]
  <2>1. j - 1 \in 1..(Len(s) - 1) /\ j \in 1..(1 + Len(t)) /\ ~(j <= 1) /\ (j - 1) + 1 = j
    BY <1>1
  <2> QED  BY <1>1, <1>3, <2>1
<1> QED  BY <1>1, <1>4, <1>5 DEF c, t

\* The lookup of the dependency that is rendered.
LEMMA WantFinds ==
    ASSUME Resolvable, list \in Lists, NEW n \in DOMAIN list, want = [list[n] EXCEPT !.id = None]
    PROVE  /\ list[n] \in LookedUp /\ The(list[n]) \in Id
           /\ \A k \in Id : Matches(k, want) <=> k = The(list[n])
           /\ GetACI(want) \in Id => GetACI(want) = The(list[n])
<1>1. list \in Seq(Dependency) /\ list[n] \in Dependency
  BY DEF Resolvable
<1>2. list[n] \in LookedUp
  <2>1. list[n] \in ToSet(list)
    BY <1>1 DEF ToSet
  <2> QED  BY <2>1 DEF LookedUp
<1>3. The(list[n]) \in Id /\ \A j \in Id : Matches(j, list[n]) <=> j = The(list[n])
  BY <1>2, TheFacts
<1>4. want.name = list[n].name /\ want.version = list[n].version
  BY <1>1 DEF Dependency
<1>5. \A k \in Id : Matches(k, want) <=> k = The(list[n])
  BY <1>3, <1>4 DEF Matches
<1>6. GetACI(want) \in Id => GetACI(want) = The(list[n])
  <2> SUFFICES ASSUME GetACI(want) \in Id PROVE GetACI(want) = The(list[n])
    OBVIOUS
  <2>1. GetACI(want) \in Hits(want) /\ dir[GetACI(want)] # "made"
    BY LookupKey
  <2>2. Matches(GetACI(want), want)
    BY <2>1 DEF Hits
  <2> QED  BY <1>5, <2>2
<1> QED  BY <1>2, <1>3, <1>5, <1>6

\* What List puts into the queue, and what RenderedNext adds to the lower directories.
LEMMA WantTrees ==
    ASSUME Resolvable, Acyclic, list \in Lists, list # <<>>, want = [list[1] EXCEPT !.id = None]
    PROVE  /\ Tree \in Seq(Id)
           /\ IsWhole(DepList[GetACI(want)]) => DepList[GetACI(want)] = Tree
           /\ IsWhole(GenDeplist[GetACI(want)]) => ToSet(GenDeplist[GetACI(want)]) = ToSet(Tree)
<1>1. GetACI(want) \in Key
  BY LookupKey
<1>2. The(list[1]) \in Id /\ (GetACI(want) \in Id => GetACI(want) = The(list[1]))
  <2>1. list \in Seq(Dependency)
    BY DEF Resolvable
  <2>2. 1 \in DOMAIN list
    BY <2>1
  <2> QED  BY <2>2, WantFinds
<1>3. Tree \in Seq(Id)
  BY <1>2, AboveIsWalk DEF Tree
<1>4. ASSUME IsWhole(DepList[GetACI(want)]) PROVE DepList[GetACI(want)] = Tree
  <2>1. GetACI(want) = The(list[1])
    BY <1>1, <1>2, <1>4, WholeKey
  <2> QED  BY <1>2, <1>4, <2>1, DepListIsAbove DEF Tree
<1>5. ASSUME IsWhole(GenDeplist[GetACI(want)]) PROVE ToSet(GenDeplist[GetACI(want)]) = ToSet(Tree)
  <2>1. GetACI(want) = The(list[1])
    BY <1>1, <1>2, <1>5, WholeKey
  <2> QED  BY <1>2, <1>5, <2>1, GenDeplistIsAbove DEF Tree
<1> QED  BY <1>3, <1>4, <1>5

\* An image that none before has been marked for is done when nothing is left of it.
LEMMA ShareFacts ==
    ASSUME NEW images \in Seq(Id), NEW n \in 1..Len(images)
    PROVE  /\ Wanted(images, n) \ {"manifest"} \subseteq Share(images, images[n])
           /\ (\A i \in 1..(n - 1) : images[i] # images[n]) /\ "manifest" \notin Man[images[n]].files
                 => Share(images, images[n]) \subseteq Wanted(images, n) \ {"manifest"}
<1>1. n \in DOMAIN images /\ DOMAIN images = 1..Len(images) /\ Len(images) \in Nat
  OBVIOUS
<1>2. Wanted(images, n) \ {"manifest"} \subseteq Share(images, images[n])
  BY <1>1 DEF Wanted, Share
<1>3. ASSUME \A i \in 1..(n - 1) : images[i] # images[n], "manifest" \notin Man[images[n]].files,
             NEW f \in Share(images, images[n])
      PROVE  f \in Wanted(images, n) \ {"manifest"}
  <2>1. f \in Man[images[n]].files /\ f # "manifest"
    BY <1>3 DEF Share
  <2>2. PICK i \in 1..Len(images) :
           images[i] = images[n] /\ \A j \in 1..(i - 1) : f \notin Man[images[j]].files
    BY <1>1, <1>3 DEF Share
  <2>3. ~(i < n)
    BY <1>1, <1>3, <2>2
  <2>4. ~(n < i)
    BY <1>1, <2>1, <2>2
  <2>5. i = n
    BY <1>1, <2>3, <2>4
  <2> QED  BY <2>1, <2>2, <2>5 DEF Wanted
<1> QED  BY <1>2, <1>3

\* The steps of the rendering.
LEMMA RendersOne ==
    ASSUME TypeInv, queue # <<>>, Tree \in Seq(Id), Progress
    PROVE  \E n \in 1..Len(Tree) :
               /\ Next1 = queue[1] /\ Next1.key = Tree[n] /\ Next1.key \in Id
               /\ Next1.left \subseteq Wanted(Tree, n)
               /\ Wanted(Tree, n) \ (Next1.left \cup {"manifest"}) \subseteq tree[Tree[n]]
               /\ Len(queue) = Len(Tree) - (n - 1) /\ Len(queue) \in Nat
               /\ \A j \in 2..Len(queue) :
                     /\ (n - 1) + j \in 1..Len(Tree)
                     /\ queue[j].key = Tree[(n - 1) + j] /\ queue[j].left \subseteq Wanted(Tree, (n - 1) + j)
                     /\ Wanted(Tree, (n - 1) + j) \ (queue[j].left \cup {"manifest"}) \subseteq tree[Tree[(n - 1) + j]]
               /\ \A i \in 1..(n - 1) : Tree[i] \in rendered
<1>1. queue \in Seq(Parts) /\ queue # <<>>
  BY DEF TypeInv, StoreInv
<1>2. Len(queue) \in Nat /\ Len(queue) # 0 /\ Head(queue) = queue[1] /\ Len(Tree) \in Nat
  BY <1>1
<1>3. PICK m \in 0..Len(Tree) :
         /\ Len(queue) = Len(Tree) - m
         /\ \A j \in 1..Len(queue) :
               /\ queue[j].key = Tree[m + j] /\ queue[j].left \subseteq Wanted(Tree, m + j)
               /\ Wanted(Tree, m + j) \ (queue[j].left \cup {"manifest"}) \subseteq tree[Tree[m + j]]
         /\ \A i \in 1..m : Tree[i] \in rendered
  BY DEF Progress
<1>4. m + 1 \in 1..Len(Tree) /\ (m + 1) - 1 = m /\ 1 \in 1..Len(queue)
  BY <1>2, <1>3
<1>5. \A j \in 2..Len(queue) : j \in 1..Len(queue) /\ m + j \in 1..Len(Tree)
  BY <1>2, <1>3
<1>6. Tree[m + 1] \in Id
  BY <1>4
<1> DEFINE n == m + 1
<1>7. /\ Next1 = queue[1] /\ Next1.key = Tree[n] /\ Next1.key \in Id
      /\ Next1.left \subseteq Wanted(Tree, n)
      /\ Wanted(Tree, n) \ (Next1.left \cup {"manifest"}) \subseteq tree[Tree[n]]
  BY <1>2, <1>3, <1>4, <1>6 DEF Next1
<1>8. /\ n - 1 = m /\ n \in 1..Len(Tree)
  BY <1>4
<1> HIDE DEF n
<1> QED  BY <1>2, <1>3, <1>5, <1>7, <1>8

LEMMA RegistryRenders ==
    ASSUME Resolvable, Acyclic, TypeInv, RenderInv, RegistryStep, UNCHANGED runVars
    PROVE  RenderInv'
<1>1. pc \in Fetching /\ pc' \in Fetching \cup {"returned"}
  BY RegistryPlaces
<1>2. list # <<>> /\ next = 1 /\ want = [list[1] EXCEPT !.id = None] /\ list \in Lists
  BY <1>1 DEF RenderInv, WantInv, TypeInv, BuildInv
<1>3. list' = list /\ next' = next /\ lowers' = lowers /\ Tree' = Tree
  BY DEF runVars, Tree
<1>4. want' = want
  BY DEF RegistryStep, FetchStep, RenderStep, Fetch, Download, DownloadFails, Uncompress, MakeDir,
         WriteManifest, FetchDep, Fetched, List, Skip, ExtractFile, RemoveManifest, ExtractManifest,
         Mark, Rendered, WriteFails
<1>5. WantInv' /\ LowerInv'
  <2>1. lowers = <<>>
    BY <1>2 DEF RenderInv, LowerInv
  <2>2. pc' \notin {"zoneinfo", "engine", "execute"}
    BY <1>1 DEF Fetching
  <2> QED  BY <1>2, <1>3, <1>4, <2>1, <2>2 DEF WantInv, LowerInv
<1>6. Tree \in Seq(Id) /\ Len(Tree) \in Nat /\ DOMAIN Tree = 1..Len(Tree) /\ \A i \in 1..Len(Tree) : Tree[i] \in Id
  <2>1. Tree \in Seq(Id)
    BY <1>2, WantTrees
  <2> QED  BY <2>1
<1>7. \A k \in Id : /\ tree[k] \subseteq Share(Tree, k)
                    /\ k \in rendered => Share(Tree, k) \subseteq tree[k]
  BY <1>2 DEF RenderInv, ShareInv
<1>8. ASSUME UNCHANGED <<tree, rendered>> PROVE ShareInv'
  BY <1>3, <1>7, <1>8 DEF ShareInv
<1> SUFFICES ShareInv' /\ ProgressInv'
  BY <1>5 DEF RenderInv
<1>9. queue \in Seq(Parts) /\ DOMAIN tree = Id
  BY DEF TypeInv, StoreInv
<1>10. CASE FetchStep \/ WriteFails
  <2>1. UNCHANGED <<tree, rendered>> /\ pc' \notin {"render", "remanifest"} /\ (pc' = "returned" => failed')
    <3>1. Fetch \/ Download \/ DownloadFails \/ Uncompress \/ WriteFails
            => UNCHANGED <<tree, rendered>> /\ pc' \notin {"render", "remanifest"} /\ (pc' = "returned" => failed')
      BY DEF Fetch, Download, DownloadFails, Uncompress, WriteFails, Goto, Return, FailFor, store
    <3>2. MakeDir \/ WriteManifest \/ FetchDep
            => UNCHANGED <<tree, rendered>> /\ pc' \notin {"render", "remanifest"} /\ (pc' = "returned" => failed')
      BY DEF MakeDir, WriteManifest, FetchDep, Goto, Return, store
    <3>3. Fetched
            => UNCHANGED <<tree, rendered>> /\ pc' \notin {"render", "remanifest"} /\ (pc' = "returned" => failed')
      BY DEF Fetched, Goto, Return, store
    <3> QED  BY <1>10, <3>1, <3>2, <3>3 DEF FetchStep
  <2> QED  BY <1>8, <2>1 DEF ProgressInv
<1>11. CASE List
  <2> DEFINE images == DepList[GetACI(want)]
  <2>1. UNCHANGED <<tree, rendered>>
    BY <1>11 DEF List, store
  <2>2. CASE IsWhole(images)
    <3>1. queue' = [i \in DOMAIN images |-> [key |-> images[i], left |-> Wanted(images, i)]] /\ pc' = "render"
      BY <1>11, <2>2 DEF List, Goto
    <3>2. images = Tree
      BY <1>2, <2>2, WantTrees
    <3> HIDE DEF images
    <3>3. /\ queue' = [i \in 1..Len(Tree) |-> [key |-> Tree[i], left |-> Wanted(Tree, i)]]
      BY <1>6, <3>1, <3>2
    <3>4. Len(queue') = Len(Tree)
      BY <1>6, <3>3
    <3>5. Progress'
      <4>1. \A j \in 1..Len(queue') :
               /\ queue'[j].key = Tree[0 + j] /\ queue'[j].left \subseteq Wanted(Tree, 0 + j)
               /\ Wanted(Tree, 0 + j) \ (queue'[j].left \cup {"manifest"}) \subseteq tree'[Tree[0 + j]]
        BY <3>3, <3>4
      <4>2. 0 \in 0..Len(Tree) /\ Len(queue') = Len(Tree) - 0 /\ 1..0 = {}
        BY <1>6, <3>4
      <4> QED  BY <1>3, <4>1, <4>2 DEF Progress
    <3> QED  BY <1>8, <2>1, <3>1, <3>5 DEF ProgressInv
  <2>3. CASE ~IsWhole(images)
    <3>1. pc' = "returned" /\ failed' = TRUE
      BY <1>11, <2>3 DEF List, Return
    <3> QED  BY <1>8, <2>1, <3>1 DEF ProgressInv
  <2> QED  BY <2>2, <2>3
<1>12. CASE Rendered
  <2>1. UNCHANGED <<tree, rendered>> /\ pc = "render" /\ queue = <<>> /\ pc' = "returned" /\ failed' = FALSE
    BY <1>12 DEF Rendered, Return, store
  <2>2. Progress
    BY <2>1 DEF RenderInv, ProgressInv
  <2>3. PICK n \in 0..Len(Tree) : Len(queue) = Len(Tree) - n /\ \A i \in 1..n : Tree[i] \in rendered
    BY <2>2 DEF Progress
  <2>4. n = Len(Tree)
    <3>1. Len(queue) = 0
      BY <2>1
    <3>2. n \in Nat /\ Len(Tree) \in Nat
      BY <1>6
    <3>3. Len(Tree) - n = 0
      BY <2>3, <3>1
    <3> QED  BY <3>2, <3>3
  <2>5. ToSet(Tree) \subseteq rendered
    BY <1>6, <2>3, <2>4 DEF ToSet
  <2> QED  BY <1>3, <1>8, <2>1, <2>5 DEF ProgressInv
<1>13. CASE Skip \/ ExtractFile \/ RemoveManifest \/ ExtractManifest \/ Mark
  <2>1. queue # <<>> /\ pc \in {"render", "remanifest"} /\ pc' \in {"render", "remanifest"}
    <3>1. pc = "remanifest" => queue # <<>>
      BY DEF TypeInv, StoreInv
    <3> QED  BY <1>13, <3>1 DEF Skip, ExtractFile, RemoveManifest, ExtractManifest, Mark, Goto
  <2>2. Progress
    BY <2>1 DEF RenderInv, ProgressInv
  <2>3. PICK n \in 1..Len(Tree) :
               /\ Next1 = queue[1] /\ Next1.key = Tree[n] /\ Next1.key \in Id
               /\ Next1.left \subseteq Wanted(Tree, n)
               /\ Wanted(Tree, n) \ (Next1.left \cup {"manifest"}) \subseteq tree[Tree[n]]
               /\ Len(queue) = Len(Tree) - (n - 1) /\ Len(queue) \in Nat
               /\ \A j \in 2..Len(queue) :
                     /\ (n - 1) + j \in 1..Len(Tree)
                     /\ queue[j].key = Tree[(n - 1) + j] /\ queue[j].left \subseteq Wanted(Tree, (n - 1) + j)
                     /\ Wanted(Tree, (n - 1) + j) \ (queue[j].left \cup {"manifest"}) \subseteq tree[Tree[(n - 1) + j]]
               /\ \A i \in 1..(n - 1) : Tree[i] \in rendered
    BY <1>6, <2>1, <2>2, RendersOne
  <2>4. n - 1 \in 0..Len(Tree) /\ n \in 0..Len(Tree) /\ n \in Nat /\ (n - 1) + 1 = n
    BY <1>6
  <2>5. Next1 \in Parts /\ "manifest" \notin Man[Tree[n]].files
    BY <2>1, <2>3, QueueTop DEF TypeInv, Resolvable
  <2> SUFFICES ShareInv' /\ Progress'
    BY <2>1 DEF ProgressInv
  <2>6. ASSUME NEW left, NEW part \in Parts, part.key = Next1.key, part.left = left,
               queue' = <<part>> \o Tail(queue), left \subseteq Wanted(Tree, n), rendered' = rendered,
               Wanted(Tree, n) \ (left \cup {"manifest"}) \subseteq tree'[Tree[n]],
               \A k \in Id : tree[k] \subseteq tree'[k]
        PROVE  Progress'
    <3>1. /\ Len(queue') = Len(queue) /\ queue'[1] = part
          /\ \A j \in 2..Len(queue) : queue'[j] = queue[j]
      BY <1>9, <2>1, <2>6, ReplaceHead
    <3>2. \A j \in 2..Len(queue) : Tree[(n - 1) + j] \in Id
      BY <1>6, <2>3
    <3>3. ASSUME NEW j \in 1..Len(queue')
          PROVE  /\ queue'[j].key = Tree[(n - 1) + j] /\ queue'[j].left \subseteq Wanted(Tree, (n - 1) + j)
                 /\ Wanted(Tree, (n - 1) + j) \ (queue'[j].left \cup {"manifest"}) \subseteq tree'[Tree[(n - 1) + j]]
      <4>1. CASE j = 1
        <5>1. (n - 1) + j = n
          BY <2>4, <4>1
        <5> QED  BY <2>3, <2>6, <3>1, <4>1, <5>1
      <4>2. CASE j # 1
        <5>1. j \in 2..Len(queue)
          BY <2>3, <3>1, <4>2
        <5> QED  BY <2>3, <2>6, <3>1, <3>2, <5>1
      <4> QED  BY <4>1, <4>2
    <3>4. Len(queue') = Len(Tree) - (n - 1) /\ \A i \in 1..(n - 1) : Tree[i] \in rendered'
      BY <2>3, <2>6, <3>1
    <3> QED  BY <1>3, <2>4, <3>3, <3>4 DEF Progress
  <2>7. ASSUME UNCHANGED <<queue, tree>>, rendered \subseteq rendered' PROVE Progress'
    <3>1. Progress => Progress'
      BY <1>3, <2>7 DEF Progress
    <3> QED  BY <2>2, <3>1
  <2>8. CASE Skip
    <3>1. UNCHANGED <<tree, rendered>> /\ queue' = Tail(queue) /\ Tree[n] \in rendered
      BY <2>3, <2>8 DEF Skip, store
    <3>2. /\ Len(queue') = Len(queue) - 1
          /\ \A j \in 1..Len(queue') : queue'[j] = queue[j + 1]
      BY <1>9, <2>1, <3>1
    <3>3. Len(queue') = Len(Tree) - n
      BY <1>6, <2>3, <2>4, <3>2
    <3>4. ASSUME NEW j \in 1..Len(queue')
          PROVE  /\ queue'[j].key = Tree[n + j] /\ queue'[j].left \subseteq Wanted(Tree, n + j)
                 /\ Wanted(Tree, n + j) \ (queue'[j].left \cup {"manifest"}) \subseteq tree'[Tree[n + j]]
      <4>1. j + 1 \in 2..Len(queue) /\ (n - 1) + (j + 1) = n + j
        BY <2>3, <2>4, <3>2
      <4> QED  BY <2>3, <3>1, <3>2, <4>1
    <3>5. \A i \in 1..n : Tree[i] \in rendered'
      <4>1. \A i \in 1..n : i = n \/ i \in 1..(n - 1)
        BY <2>4
      <4> QED  BY <2>3, <3>1, <4>1
    <3>6. Progress'
      BY <1>3, <2>4, <3>3, <3>4, <3>5 DEF Progress
    <3> QED  BY <1>8, <3>1, <3>6
  <2>9. CASE ExtractFile
    <3>1. PICK f \in Next1.left \ {"manifest"} :
             /\ tree' = [tree EXCEPT ![Next1.key] = @ \cup {f}]
             /\ queue' = <<[Next1 EXCEPT !.left = @ \ {f}]>> \o Tail(queue)
      BY <2>9 DEF ExtractFile
    <3>2. rendered' = rendered /\ Next1.key \notin rendered
      BY <2>9 DEF ExtractFile
    <3>3. /\ tree'[Next1.key] = tree[Next1.key] \cup {f}
          /\ \A k \in Id : k # Next1.key => tree'[k] = tree[k]
      BY <1>9, <2>3, <3>1
    <3>4. f \in Share(Tree, Next1.key)
      BY <1>6, <2>3, <3>1, ShareFacts
    <3>5. ShareInv'
      BY <1>3, <1>7, <3>2, <3>3, <3>4 DEF ShareInv
    <3> DEFINE part == [Next1 EXCEPT !.left = @ \ {f}]
    <3>6. part \in Parts /\ part.key = Next1.key /\ part.left = Next1.left \ {f}
      BY <2>5 DEF Parts
    <3> HIDE DEF part
    <3>7. Wanted(Tree, n) \ ((Next1.left \ {f}) \cup {"manifest"}) \subseteq tree'[Tree[n]]
      BY <2>3, <3>3
    <3>8. \A k \in Id : tree[k] \subseteq tree'[k]
      BY <3>3
    <3>9. queue' = <<part>> \o Tail(queue) /\ Next1.left \ {f} \subseteq Wanted(Tree, n)
      BY <2>3, <3>1 DEF part
    <3>10. Progress'
      BY <2>6, <3>2, <3>6, <3>7, <3>8, <3>9
    <3> QED  BY <3>5, <3>10
  <2>10. CASE RemoveManifest
    <3>1. UNCHANGED <<tree, rendered, queue>>
      BY <2>10 DEF RemoveManifest
    <3> QED  BY <1>8, <2>7, <3>1
  <2>11. CASE ExtractManifest
    <3> DEFINE part == [Next1 EXCEPT !.left = @ \ {"manifest"}]
    <3>1. UNCHANGED <<tree, rendered>> /\ queue' = <<part>> \o Tail(queue)
      BY <2>11 DEF ExtractManifest
    <3>2. part \in Parts /\ part.key = Next1.key /\ part.left = Next1.left \ {"manifest"}
      BY <2>5 DEF Parts
    <3> HIDE DEF part
    <3>3. Wanted(Tree, n) \ ((Next1.left \ {"manifest"}) \cup {"manifest"}) \subseteq tree'[Tree[n]]
      BY <2>3, <3>1
    <3>4. Next1.left \ {"manifest"} \subseteq Wanted(Tree, n) /\ \A k \in Id : tree[k] \subseteq tree'[k]
      BY <2>3, <3>1
    <3>5. Progress'
      BY <2>6, <3>1, <3>2, <3>3, <3>4
    <3> QED  BY <1>8, <3>1, <3>5
  <2>12. CASE Mark
    <3>1. UNCHANGED <<tree, queue>> /\ rendered' = rendered \cup {Next1.key} /\ Next1.key \notin rendered /\ Next1.left = {}
      BY <2>12 DEF Mark
    <3>2. \A i \in 1..(n - 1) : Tree[i] # Tree[n]
      BY <2>3, <3>1
    <3>3. Share(Tree, Tree[n]) \subseteq Wanted(Tree, n) \ {"manifest"}
      BY <1>6, <2>5, <3>2, ShareFacts
    <3>4. Share(Tree, Next1.key) \subseteq tree[Next1.key]
      BY <2>3, <3>1, <3>3
    <3>5. ShareInv'
      BY <1>3, <1>7, <3>1, <3>4 DEF ShareInv
    <3> QED  BY <2>7, <3>1, <3>5
  <2> QED  BY <1>13, <2>8, <2>9, <2>10, <2>11, <2>12
<1> QED  BY <1>10, <1>11, <1>12, <1>13 DEF RegistryStep, RenderStep

\* The other steps of a run.
LEMMA RunRenders ==
    ASSUME Resolvable, Acyclic, Single, TypeInv, RenderInv, Next, ~RegistryStep
    PROVE  RenderInv'
<1> USE DEF Goto, FailTo, GiveUp, Idle, AfterRun
<1>1. list' = list /\ Tree' = Tree
  <2>1. StartRun \/ Clear \/ ClearFails \/ MakeWork \/ MakeWorkFails \/ FetchNext \/ RenderedNext => list' = list
    BY DEF StartRun, Clear, ClearFails, MakeWork, MakeWorkFails, FetchNext, RenderedNext, runVars
  <2>2. NoOverlay \/ Mount \/ MountFails \/ CopyZoneInfo \/ StartEngine \/ EngineFails => list' = list
    BY DEF NoOverlay, Mount, MountFails, CopyZoneInfo, StartEngine, EngineFails, runVars
  <2>3. Execute \/ StopEngine \/ Unmount \/ RemoveWork \/ Finish \/ Kill => list' = list
    BY DEF Execute, StopEngine, Unmount, RemoveWork, Finish, Kill
  <2>4. list' = list
    BY <2>1, <2>2, <2>3 DEF Next, RunStep
  <2> QED  BY <2>4 DEF Tree
<1>2. UNCHANGED <<tree, rendered>>
  <2>1. StartRun \/ Clear \/ ClearFails \/ MakeWork \/ MakeWorkFails \/ FetchNext \/ RenderedNext
          => UNCHANGED <<tree, rendered>>
    BY DEF StartRun, Clear, ClearFails, MakeWork, MakeWorkFails, FetchNext, RenderedNext, store
  <2>2. NoOverlay \/ Mount \/ MountFails \/ CopyZoneInfo \/ StartEngine \/ EngineFails => UNCHANGED <<tree, rendered>>
    BY DEF NoOverlay, Mount, MountFails, CopyZoneInfo, StartEngine, EngineFails, store
  <2>3. Execute \/ StopEngine \/ Unmount \/ RemoveWork \/ Finish \/ Kill => UNCHANGED <<tree, rendered>>
    BY DEF Execute, StopEngine, Unmount, RemoveWork, Finish, Kill, store
  <2> QED  BY <2>1, <2>2, <2>3 DEF Next, RunStep
<1>3. ShareInv'
  BY <1>1, <1>2 DEF RenderInv, ShareInv
<1>4. list \in Lists /\ list \in Seq(Dependency) /\ Len(list) \in Nat /\ Len(list) <= 1 /\ lowers \in Seq(Id)
  <2>1. list \in Lists /\ lowers \in Seq(Id)
    BY DEF TypeInv, BuildInv, IsWhole
  <2>2. list \in Seq(Dependency) /\ Len(list) <= 1
    BY <2>1 DEF Resolvable, Single
  <2> QED  BY <2>1, <2>2
<1>5. ASSUME pc' \notin Fetching \cup {"returned"} PROVE WantInv' /\ ProgressInv'
  BY <1>5 DEF WantInv, ProgressInv, Fetching
<1>6. ASSUME UNCHANGED <<next, lowers>>,
             pc' \in {"zoneinfo", "engine", "execute"} => next > Len(list)
      PROVE  LowerInv'
  BY <1>1, <1>2, <1>6 DEF RenderInv, LowerInv
<1> SUFFICES WantInv' /\ LowerInv' /\ ProgressInv'
  BY <1>3 DEF RenderInv
<1>7. CASE StartRun
  <2>1. next' = 1 /\ lowers' = <<>> /\ pc' = "unmount"
    BY <1>7 DEF StartRun
  <2> QED  BY <1>5, <2>1 DEF LowerInv, Fetching
<1>8. CASE Clear \/ ClearFails \/ MakeWork \/ MakeWorkFails \/ Kill
  <2>1. /\ UNCHANGED <<next, lowers>>
        /\ pc' \in {"work", "idle", "dependency", "remove work", "remove target"}
    BY <1>8 DEF Clear, ClearFails, MakeWork, MakeWorkFails, Kill, runVars
  <2> QED  BY <1>5, <1>6, <2>1 DEF Fetching
<1>9. CASE FetchNext
  <2>1. /\ UNCHANGED <<next, lowers>> /\ pc' = "fetch" /\ next <= Len(list)
        /\ want' = [list[next] EXCEPT !.id = None]
    BY <1>9 DEF FetchNext, runVars
  <2>2. next = 1
    BY <1>4, <2>1 DEF RenderInv, LowerInv
  <2>3. list # <<>>
    BY <1>4, <2>1, <2>2
  <2>4. LowerInv'
    BY <1>6, <2>1
  <2> QED  BY <1>1, <2>1, <2>2, <2>3, <2>4 DEF WantInv, ProgressInv
<1>10. CASE RenderedNext
  <2> DEFINE below == GenDeplist[GetACI(want)]
  <2>1. /\ pc = "returned"
        /\ \/ pc' = "remove work" /\ UNCHANGED <<lowers, next>>
           \/ ~failed /\ IsWhole(below) /\ lowers' = lowers \o below /\ next' = next + 1 /\ pc' = "dependency"
    BY <1>10 DEF RenderedNext
  <2>2. list # <<>> /\ next = 1 /\ want = [list[1] EXCEPT !.id = None]
    BY <2>1 DEF RenderInv, WantInv
  <2>3. lowers = <<>>
    BY <2>2 DEF RenderInv, LowerInv
  <2>4. WantInv' /\ ProgressInv'
    <3>1. pc' \notin Fetching \cup {"returned"}
      BY <2>1 DEF Fetching
    <3> QED  BY <1>5, <3>1
  <2>5. CASE pc' = "remove work" /\ UNCHANGED <<lowers, next>>
    BY <1>6, <2>4, <2>5
  <2>6. CASE ~failed /\ IsWhole(below) /\ lowers' = lowers \o below /\ next' = next + 1 /\ pc' = "dependency"
    <3>1. ToSet(below) = ToSet(Tree)
      BY <1>4, <2>2, <2>6, WantTrees
    <3> HIDE DEF below
    <3>2. lowers' = below
      <4>1. below \in Seq(Id)
        BY <2>6 DEF IsWhole
      <4> QED  BY <2>3, <2>6, <4>1
    <3>3. ToSet(Tree) \subseteq rendered
      BY <2>1, <2>6 DEF RenderInv, ProgressInv
    <3>4. next' = 2
      BY <2>2, <2>6
    <3>5. LowerInv'
      BY <1>1, <1>2, <2>2, <2>6, <3>1, <3>2, <3>3, <3>4 DEF LowerInv
    <3> QED  BY <2>4, <3>5
  <2> QED  BY <2>1, <2>5, <2>6
<1>11. CASE NoOverlay \/ Mount \/ MountFails
  <2>1. UNCHANGED <<next, lowers>> /\ next > Len(list) /\ pc' \in {"zoneinfo", "remove work"}
    <3>1. NoOverlay => UNCHANGED <<next, lowers>> /\ next > Len(list) /\ pc' = "zoneinfo"
      BY DEF NoOverlay, runVars
    <3>2. Mount => UNCHANGED <<next, lowers>> /\ next > Len(list) /\ pc' = "zoneinfo"
      BY DEF Mount
    <3>3. MountFails => UNCHANGED <<next, lowers>> /\ next > Len(list) /\ pc' = "remove work"
      BY DEF MountFails, runVars
    <3> QED  BY <1>11, <3>1, <3>2, <3>3
  <2> QED  BY <1>5, <1>6, <2>1 DEF Fetching
<1>12. CASE CopyZoneInfo \/ StartEngine \/ EngineFails
  <2>1. /\ UNCHANGED <<next, lowers>> /\ pc \in {"zoneinfo", "engine"}
        /\ pc' \in {"engine", "execute", "remove work", "umount"}
    BY <1>12 DEF CopyZoneInfo, StartEngine, EngineFails
  <2>2. next > Len(list)
    BY <2>1 DEF RenderInv, LowerInv
  <2> QED  BY <1>5, <1>6, <2>1, <2>2 DEF Fetching
<1>13. CASE Execute \/ StopEngine \/ Unmount \/ RemoveWork \/ Finish
  <2>1. /\ UNCHANGED <<next, lowers>>
        /\ pc' \in {"stop engine", "remove work", "umount", "remove target", "idle"}
    <3>1. Execute \/ StopEngine => UNCHANGED <<next, lowers>> /\ pc' \in {"stop engine", "remove work", "umount"}
      BY DEF Execute, StopEngine, Deferred
    <3>2. Unmount \/ RemoveWork \/ Finish
            => UNCHANGED <<next, lowers>> /\ pc' \in {"remove work", "remove target", "idle"}
      BY DEF Unmount, RemoveWork, Finish, Deferred
    <3> QED  BY <1>13, <3>1, <3>2
  <2> QED  BY <1>5, <1>6, <2>1 DEF Fetching
<1> QED
  BY <1>7, <1>8, <1>9, <1>10, <1>11, <1>12, <1>13 DEF Next, RunStep

\* While the registry is at work the run does nothing else.
LEMMA RegistryAlone == ASSUME Next, RegistryStep PROVE UNCHANGED runVars
<1>1. pc \in Fetching /\ pc' \in Fetching \cup {"returned"}
  BY RegistryPlaces
<1> SUFFICES ASSUME ~UNCHANGED runVars PROVE FALSE
  OBVIOUS
<1>2. ~Kill
  BY <1>1 DEF Kill, Fetching
<1> USE DEF Goto, Fetching, GiveUp, Idle, FailTo
<1>3. ~StartRun /\ ~Clear /\ ~ClearFails /\ ~MakeWork /\ ~MakeWorkFails /\ ~FetchNext /\ ~RenderedNext
  BY <1>1 DEF StartRun, Clear, ClearFails, MakeWork, MakeWorkFails, FetchNext, RenderedNext
<1>4. ~NoOverlay /\ ~Mount /\ ~MountFails /\ ~CopyZoneInfo /\ ~StartEngine /\ ~EngineFails
  BY <1>1 DEF NoOverlay, Mount, MountFails, CopyZoneInfo, StartEngine, EngineFails
<1>5. ~Execute /\ ~StopEngine /\ ~Unmount /\ ~RemoveWork /\ ~Finish
  BY <1>1 DEF Execute, StopEngine, Unmount, RemoveWork, Finish
<1> QED  BY <1>2, <1>3, <1>4, <1>5 DEF Next, RunStep

\* What the command sees when the rendering has been done so.
LEMMA SeesPromised ==
    ASSUME Resolvable, Acyclic, Single, TypeInv, RenderInv, pc = "execute", NEW f
    PROVE  View(lowers, f) = Promised(f)
<1>1. list \in Lists /\ list \in Seq(Dependency) /\ Len(list) \in Nat /\ Len(list) <= 1 /\ lowers \in Seq(Id)
  <2>1. list \in Lists /\ lowers \in Seq(Id)
    BY DEF TypeInv, BuildInv, IsWhole
  <2>2. list \in Seq(Dependency) /\ Len(list) <= 1
    BY <2>1 DEF Resolvable, Single
  <2> QED  BY <2>1, <2>2
<1>2. next > Len(list)
  BY DEF RenderInv, LowerInv
<1>3. CASE f \in own
  BY <1>3 DEF View, Promised
<1>4. CASE f \notin own /\ next = 1
  <2>1. lowers = <<>> /\ list = <<>> /\ DOMAIN list = {}
    BY <1>1, <1>2, <1>4 DEF RenderInv, LowerInv
  <2>2. Holding(lowers, f) = {}
    BY <2>1 DEF Holding
  <2>3. Stacked = <<>>
    <3> DEFINE ss == [i \in DOMAIN list |-> Above[The(Reverse(list)[i])]]
    <3>1. ss = <<>>
      BY <2>1
    <3>2. FlattenSeq(<<>>) = <<>>
      BY DEF FlattenSeq
    <3>3. FlattenSeq(ss) = <<>>
      BY <3>1, <3>2, Zenon
    <3> QED  BY <3>3 DEF Stacked
  <2>4. {i \in DOMAIN Stacked : f \in Man[Stacked[i]].files} = {}
    BY <2>3
  <2>5. View(lowers, f) = None
    BY <1>4, <2>2 DEF View
  <2>6. Promised(f) = None
    BY <1>4, <2>4 DEF Promised
  <2> QED  BY <2>5, <2>6
<1>5. CASE f \notin own /\ next # 1
  <2>1. list # <<>> /\ ToSet(lowers) = ToSet(Tree) /\ ToSet(Tree) \subseteq rendered
    BY <1>5 DEF RenderInv, LowerInv
  <2>2. Len(list) = 1 /\ DOMAIN list = 1..1
    <3>1. list \in Seq(Dependency) /\ list # <<>>
      BY <1>1, <2>1
    <3>2. Len(list) # 0 /\ DOMAIN list = 1..Len(list)
      BY <3>1
    <3> QED  BY <1>1, <3>2
  <2>3. The(list[1]) \in Id /\ Tree \in Seq(Id)
    <3>1. list[1] \in LookedUp
      <4>1. list[1] \in ToSet(list)
        BY <2>2 DEF ToSet
      <4> QED  BY <1>1, <4>1 DEF LookedUp
    <3> QED  BY <3>1, TheFacts, AboveIsWalk DEF Tree
  <2>4. DOMAIN Tree = 1..Len(Tree) /\ Len(Tree) \in Nat /\ \A i \in DOMAIN Tree : Tree[i] \in Id
    BY <2>3
  <2>5. Stacked = Tree
    <3> DEFINE ss == [i \in DOMAIN list |-> Above[The(Reverse(list)[i])]]
    <3>1. Reverse(list)[1] = list[1]
      BY <2>2 DEF Reverse
    <3>2. ss = [i \in 1..1 |-> Above[The(Reverse(list)[i])]]
      BY <2>2
    <3>3. ss[1] = Tree
      BY <3>1, <3>2 DEF Tree
    <3>4. Len(ss) = 1
      BY <3>2
    <3> HIDE DEF ss
    <3>5. FlattenSeq(ss) = Tree
      BY <3>3, <3>4, FlattenOne
    <3> QED  BY <3>5 DEF Stacked, ss
  <2>6. \A k \in ToSet(Tree) : k \in Id /\ tree[k] = Share(Tree, k)
    <3>1. \A k \in ToSet(Tree) : k \in Id /\ k \in rendered
      BY <2>1, <2>4 DEF ToSet
    <3> QED  BY <2>1, <3>1 DEF RenderInv, ShareInv
  <2> DEFINE having == {i \in DOMAIN Tree : f \in Man[Tree[i]].files}
  <2>7. Promised(f) = IF having = {} THEN None
                      ELSE Tree[CHOOSE i \in having : \A j \in having : i <= j]
    BY <1>5, <2>5 DEF Promised
  <2>8. View(lowers, f) = IF Holding(lowers, f) = {} THEN None
                          ELSE lowers[CHOOSE i \in Holding(lowers, f) : \A j \in Holding(lowers, f) : i <= j]
    BY <1>5 DEF View
  <2>9. \A i \in DOMAIN lowers : lowers[i] \in ToSet(Tree)
    BY <2>1 DEF ToSet
  <2>10. having \subseteq Nat /\ Holding(lowers, f) \subseteq Nat
    <3>1. DOMAIN lowers = 1..Len(lowers)
      BY <1>1
    <3> QED  BY <2>4, <3>1 DEF Holding
  <2>11. CASE having = {}
    <3>1. Holding(lowers, f) = {}
      <4> SUFFICES ASSUME NEW i \in DOMAIN lowers, f \in tree[lowers[i]] PROVE FALSE
        BY DEF Holding
      <4>1. f \in Share(Tree, lowers[i]) /\ lowers[i] \in ToSet(Tree)
        BY <2>6, <2>9
      <4>2. PICK m \in DOMAIN Tree : Tree[m] = lowers[i]
        BY <4>1 DEF ToSet
      <4>3. f \in Man[Tree[m]].files
        BY <4>1, <4>2 DEF Share
      <4> QED  BY <2>11, <4>3
    <3> QED  BY <2>7, <2>8, <2>11, <3>1
  <2>12. CASE having # {}
    <3> HIDE DEF having
    <3> DEFINE first == CHOOSE i \in having : \A j \in having : i <= j
    <3>1. first \in having /\ \A j \in having : first <= j
      <4>1. \E i \in having : \A j \in having : i <= j
        BY <2>10, <2>12, Least
      <4> QED  BY <4>1
    <3>2. Promised(f) = Tree[first]
      BY <2>7, <2>12
    <3> HIDE DEF first
    <3>3. first \in DOMAIN Tree /\ first \in Nat /\ f \in Man[Tree[first]].files
      BY <2>10, <3>1 DEF having
    <3>4. ASSUME NEW i \in DOMAIN Tree, f \in Man[Tree[i]].files, \A j \in 1..(i - 1) : f \notin Man[Tree[j]].files
          PROVE  i = first
      <4>1. first <= i
        BY <3>1, <3>4 DEF having
      <4>2. ~(first < i)
        <5>1. i \in Nat /\ first >= 1
          BY <2>4, <3>3
        <5>2. first < i => first \in 1..(i - 1)
          BY <3>3, <5>1
        <5> QED  BY <3>3, <3>4, <5>2
      <4> QED  BY <2>4, <3>3, <4>1, <4>2
    <3>5. f \in Share(Tree, Tree[first])
      <4>1. \A j \in 1..(first - 1) : f \notin Man[Tree[j]].files
        <5> SUFFICES ASSUME NEW j \in 1..(first - 1), f \in Man[Tree[j]].files PROVE FALSE
          OBVIOUS
        <5>1. j \in DOMAIN Tree /\ ~(first <= j)
          BY <2>4, <3>3
        <5> QED  BY <3>1, <5>1 DEF having
      <4> QED  BY <3>3, <4>1 DEF Share
    <3>6. ASSUME NEW i \in Holding(lowers, f) PROVE lowers[i] = Tree[first]
      <4>1. i \in DOMAIN lowers /\ f \in tree[lowers[i]]
        BY DEF Holding
      <4>2. f \in Share(Tree, lowers[i])
        BY <2>6, <2>9, <4>1
      <4>3. PICK m \in DOMAIN Tree :
               Tree[m] = lowers[i] /\ \A j \in 1..(m - 1) : f \notin Man[Tree[j]].files
        BY <4>2 DEF Share
      <4>4. f \in Man[Tree[m]].files
        BY <4>2, <4>3 DEF Share
      <4> QED  BY <3>4, <4>3, <4>4
    <3>7. Holding(lowers, f) # {}
      <4>1. Tree[first] \in ToSet(Tree)
        BY <3>3 DEF ToSet
      <4>2. PICK i \in DOMAIN lowers : lowers[i] = Tree[first]
        BY <2>1, <4>1 DEF ToSet
      <4>3. f \in tree[lowers[i]]
        BY <2>6, <3>5, <4>1, <4>2
      <4> QED  BY <4>3 DEF Holding
    <3>8. \E i \in Holding(lowers, f) : \A j \in Holding(lowers, f) : i <= j
      BY <2>10, <3>7, Least
    <3>9. (CHOOSE i \in Holding(lowers, f) : \A j \in Holding(lowers, f) : i <= j) \in Holding(lowers, f)
      BY <3>8
    <3> QED  BY <2>8, <3>2, <3>6, <3>7, <3>9
  <2> QED  BY <2>11, <2>12
<1> QED  BY <1>3, <1>4, <1>5

\* ContainerSeesDependencies of the run, for any images that do not depend on
\* themselves and an image with at most one dependency, however deep the tree below it:
\* when the command starts, every file of the container is the copy that the order
\* of the dependencies asks for, wherever earlier runs failed or were killed.  The
\* marker of an image is made when it has the files that no image before it has.
THEOREM RunSeesDependencies ==
    Resolvable /\ Acyclic /\ Single => (Spec => []ContainerSeesDependencies)
<1> SUFFICES ASSUME Resolvable, Acyclic, Single PROVE Spec => []ContainerSeesDependencies
  OBVIOUS
<1>1. Init => RenderInv
  <2> SUFFICES ASSUME Init PROVE RenderInv
    OBVIOUS
  <2>1. pc = "idle" /\ next = 1 /\ lowers = <<>> /\ rendered = {} /\ tree = [k \in Id |-> {}]
    BY DEF Init, RegistryInit
  <2> QED  BY <2>1 DEF RenderInv, WantInv, LowerInv, ShareInv, ProgressInv, Fetching
<1>2. TypeInv /\ RenderInv /\ [Next]_vars => RenderInv'
  <2> SUFFICES ASSUME TypeInv, RenderInv, [Next]_vars PROVE RenderInv'
    OBVIOUS
  <2>1. CASE UNCHANGED vars
    BY <2>1 DEF vars, runVars, regVars, store, RenderInv, WantInv, LowerInv, ShareInv, ProgressInv, Progress, Tree
  <2>2. CASE Next /\ ~RegistryStep
    BY <2>2, RunRenders
  <2>3. CASE Next /\ RegistryStep
    <3>1. UNCHANGED runVars
      BY <2>3, RegistryAlone
    <3> QED  BY <2>3, <3>1, RegistryRenders
  <2> QED  BY <2>1, <2>2, <2>3
<1>3. TypeInv /\ RenderInv => ContainerSeesDependencies
  BY SeesPromised DEF ContainerSeesDependencies
<1> QED  BY <1>1, <1>2, <1>3, TypeInvariant, PTL DEF Spec

-----------------------------------------------------------------------------
(* Errors.  As long as nothing outside has failed, the images of the store    *)
(* have their dependencies there too, but for those that a call of            *)
(* fetchACIWithSize has not come to yet.                                      *)

\* The images that may be below a list, of which none has a dependency with an ID.
Below == CHOOSE below \in SUBSET Id :
            /\ \A l \in Lists : \A i \in DOMAIN l : The(l[i]) \in below
            /\ \A k \in below : \A i \in DOMAIN Man[k].deps :
                  Man[k].deps[i].id = None /\ The(Man[k].deps[i]) \in below

Calling == {"download", "uncompress", "mkdir", "manifest", "deps"}
Having(k) == dir[k] # "none"
Waiting(k, i) == \E p \in 1..Len(stack) : stack[p].id = k /\ stack[p].next <= i

AskInv ==
    /\ next # 0
    /\ pc \in Fetching \cup {"returned"} =>
          next \in DOMAIN list /\ want = [list[next] EXCEPT !.id = None]

\* A call looks for the dependency that its caller has come to, and has found it if it
\* has found an image; only the call on top may not have that image in the store.
Sound ==
    \A p \in 1..Len(stack) :
       /\ p = Len(stack) => stack[p].dep = want
       /\ p # Len(stack) => /\ stack[p + 1].next \in DOMAIN Man[stack[p + 1].id].deps
                            /\ stack[p].dep = Man[stack[p + 1].id].deps[stack[p + 1].next]
       /\ stack[p].id # None => stack[p].id \in Below /\ Matches(stack[p].id, stack[p].dep)
       /\ p # 1 => Having(stack[p].id)
       /\ stack[p].next # 0

StackInv ==
    /\ Sound
    /\ pc \notin Calling => stack = <<>>
    /\ pc = "deps" => Having(Top.id)
    /\ pc \in Calling \ {"deps"} => Top.next = 1
    /\ pc = "download" => Top.id = None

\* No manifest is missing but the one that is being written.
MadeInv ==
    \A k \in Id : dir[k] = "made" =>
        (pc = "manifest" /\ Top.id = k) \/ (pc = "remanifest" /\ Next1.key = k)

ClosedInv ==
    \A k \in Id : Having(k) =>
        \A i \in DOMAIN Man[k].deps : Having(The(Man[k].deps[i])) \/ Waiting(k, i)

FoundInv ==
    /\ pc \in {"list", "render", "remanifest", "returned"} => Having(The(list[next]))
    /\ pc \in {"render", "remanifest"} => \A j \in 1..Len(queue) : Having(queue[j].key)

ErrorInv == ~failed /\ AskInv /\ StackInv /\ MadeInv /\ ClosedInv /\ FoundInv

LEMMA BelowHas ==
    ASSUME Unpinned
    PROVE  /\ Below \subseteq Id
           /\ \A l \in Lists : \A i \in DOMAIN l : The(l[i]) \in Below
           /\ \A k \in Below : \A i \in DOMAIN Man[k].deps :
                 Man[k].deps[i].id = None /\ The(Man[k].deps[i]) \in Below
<1> DEFINE P(below) == /\ \A l \in Lists : \A i \in DOMAIN l : The(l[i]) \in below
                       /\ \A k \in below : \A i \in DOMAIN Man[k].deps :
                             Man[k].deps[i].id = None /\ The(Man[k].deps[i]) \in below
<1>1. \E below \in SUBSET Id : P(below)
  BY DEF Unpinned
<1>2. Below = CHOOSE below \in SUBSET Id : P(below)
  BY DEF Below
<1>3. Below \in SUBSET Id /\ P(Below)
  <2> HIDE DEF P
  <2> QED  BY <1>1, <1>2
<1> QED  BY <1>3

\* A lookup that is meant for an image finds it, if it is there and nothing is half there.
LEMMA LookupHas ==
    ASSUME StoreInv, \A j \in Id : dir[j] # "made",
           NEW d, NEW k \in Id, \A j \in Id : Matches(j, d) <=> j = k, Having(k)
    PROVE  GetACI(d) = k
<1>1. dir[k] = "whole"
  BY DEF StoreInv, Having
<1>2. k \in Hits(d) /\ Hits(d) \subseteq Id
  BY <1>1 DEF Hits
<1>3. GetACI(d) \in Id
  BY <1>2, LookupKey
<1>4. GetACI(d) \in Hits(d)
  BY <1>3, LookupKey
<1>5. Matches(GetACI(d), d)
  BY <1>3, <1>4 DEF Hits
<1> QED  BY <1>3, <1>5

\* Both lists of such an image are lists of images, and all of them are there.
Listed(k) == /\ IsWhole(DepList[k]) /\ IsWhole(GenDeplist[k])
             /\ \A m \in ToSet(DepList[k]) : Having(m)

LEMMA WholeFound ==
    ASSUME Resolvable, Acyclic, Unpinned, StoreInv, ClosedInv, stack = <<>>,
           \A j \in Id : dir[j] # "made", NEW k \in Below, Having(k)
    PROVE  Listed(k)
<1> DEFINE bad == {j \in Below : Having(j) /\ ~Listed(j)}
<1> SUFFICES ASSUME bad # {} PROVE FALSE
  OBVIOUS
<1>1. PICK j \in bad : \A i \in DOMAIN Man[j].deps : The(Man[j].deps[i]) \notin bad
  <2>1. bad \in SUBSET Id
    BY BelowHas
  <2> HIDE DEF bad
  <2> QED  BY <2>1 DEF Acyclic
<1>2. j \in Below /\ j \in Id /\ Having(j) /\ ~Listed(j)
  BY BelowHas
<1> DEFINE deps == Man[j].deps
<1>3. ASSUME NEW d \in ToSet(deps)
      PROVE  /\ GetACI(d) \in Id /\ DepKey(d) = GetACI(d) /\ Listed(GetACI(d))
  <2>1. PICK i \in DOMAIN deps : deps[i] = d
    BY DEF ToSet
  <2>2. d.id = None /\ The(d) \in Below /\ The(d) \in Id
    BY <1>2, <2>1, BelowHas
  <2>3. ~Waiting(j, i)
    BY DEF Waiting
  <2>4. Having(The(d))
    BY <1>2, <2>1, <2>3 DEF ClosedInv
  <2>5. Listed(The(d))
    BY <1>1, <2>1, <2>2, <2>4
  <2>6. d \in LookedUp
    BY <1>2, <2>1, DepsLookedUp
  <2>7. \A m \in Id : Matches(m, d) <=> m = The(d)
    BY <2>6, TheFacts
  <2>8. GetACI(d) = The(d)
    BY <2>2, <2>4, <2>7, LookupHas
  <2> QED  BY <2>2, <2>5, <2>8 DEF DepKey
<1>4. /\ DepList[j] \in Seq(Key) /\ GenDeplist[j] \in Seq(Key)
      /\ ToSet(DepList[j]) = AllBelow(ListBelow, DepList, j) \cup {j}
      /\ ToSet(GenDeplist[j]) = AllBelow(GenBelow, GenDeplist, j) \cup {Self(j)}
  BY <1>2, TreeMembers
<1>5. \A i \in DOMAIN ListBelow[j] : ListBelow[j][i] \in Id /\ Listed(ListBelow[j][i])
  <2>1. ListBelow[j] = [i \in DOMAIN Reverse(deps) |-> DepKey(Reverse(deps)[i])]
    BY <1>2 DEF ListBelow
  <2>2. ToSet(Reverse(deps)) = ToSet(deps)
    BY <1>2, DepsLookedUp, MembersReverse
  <2>3. \A i \in DOMAIN Reverse(deps) : Reverse(deps)[i] \in ToSet(deps)
    BY <2>2 DEF ToSet
  <2> HIDE DEF deps
  <2> QED  BY <1>3, <2>1, <2>3
<1>6. \A i \in DOMAIN GenBelow[j] : GenBelow[j][i] \in Id /\ Listed(GenBelow[j][i])
  <2>1. GenBelow[j] = [i \in DOMAIN deps |-> GetACI(deps[i])]
    BY <1>2 DEF GenBelow
  <2>2. \A i \in DOMAIN deps : deps[i] \in ToSet(deps)
    BY DEF ToSet
  <2> HIDE DEF deps
  <2> QED  BY <1>3, <2>1, <2>2
<1>7. Self(j) = j
  <2> DEFINE self == [name |-> Man[j].name, version |-> Man[j].version]
  <2>1. self \in LookedUp /\ The(self) = j /\ Self(j) = GetACI(self)
    BY <1>2, DepsLookedUp DEF Self
  <2> HIDE DEF self
  <2>2. \A m \in Id : Matches(m, self) <=> m = j
    BY <2>1, TheFacts
  <2> QED  BY <1>2, <2>1, <2>2, LookupHas
<1>8. ASSUME NEW m \in ToSet(DepList[j]) PROVE m \in Id /\ Having(m)
  <2>1. CASE m = j
    BY <1>2, <2>1
  <2>2. CASE m # j
    <3>1. PICK i \in DOMAIN ListBelow[j] : m \in ToSet(DepList[ListBelow[j][i]])
      BY <1>4, <2>2 DEF AllBelow
    <3>2. Listed(ListBelow[j][i])
      BY <1>5
    <3> QED  BY <3>1, <3>2, Members DEF Listed, IsWhole
  <2> QED  BY <2>1, <2>2
<1>9. ASSUME NEW m \in ToSet(GenDeplist[j]) PROVE m \in Id
  <2>1. CASE m = j
    BY <1>2, <2>1
  <2>2. CASE m # j
    <3>1. PICK i \in DOMAIN GenBelow[j] : m \in ToSet(GenDeplist[GenBelow[j][i]])
      BY <1>4, <1>7, <2>2 DEF AllBelow
    <3>2. Listed(GenBelow[j][i])
      BY <1>6
    <3> QED  BY <3>1, <3>2, Members DEF Listed, IsWhole
  <2> QED  BY <2>1, <2>2
<1>10. IsWhole(DepList[j]) /\ IsWhole(GenDeplist[j])
  <2>1. ToSet(DepList[j]) \subseteq Id /\ ToSet(GenDeplist[j]) \subseteq Id
    BY <1>8, <1>9
  <2> QED  BY <1>4, <2>1, Members DEF IsWhole
<1> QED  BY <1>2, <1>8, <1>10 DEF Listed

LEMMA Places ==
    /\ \A n \in Nat : n # 0 /\ n # 1 => 2 \in 1..n /\ 2 \in 2..n
    /\ \A n \in Nat : \A p \in 1..n : p # n => p + 1 \in 2..n /\ p + 1 \in 1..n
    /\ \A n \in Nat : n + 1 # 0
OBVIOUS

LEMMA TailOfOne == ASSUME NEW S, NEW s \in Seq(S), s # <<>> PROVE Tail(s) = <<>> <=> Len(s) = 1
<1> DEFINE t == Tail(s)
<1>1. t \in Seq(S) /\ Len(t) = Len(s) - 1 /\ Len(s) \in Nat
  OBVIOUS
<1> HIDE DEF t
<1>2. t = <<>> <=> Len(t) = 0
  BY <1>1
<1>3. t = <<>> <=> Len(s) = 1
  BY <1>1, <1>2
<1> QED  BY <1>3 DEF t

\* The image that the call on top is to find.
LEMMA CallMeans ==
    ASSUME Resolvable, Unpinned, TypeInv, stack # <<>>, Sound,
           next \in DOMAIN list, want = [list[next] EXCEPT !.id = None]
    PROVE  \E k \in Below : /\ k \in Id /\ \A j \in Id : Matches(j, Top.dep) <=> j = k
                            /\ Tail(stack) = <<>> => k = The(list[next])
                            /\ Tail(stack) # <<>> =>
                                  /\ Top.dep.id = None
                                  /\ stack[2].id \in Id /\ Having(stack[2].id)
                                  /\ stack[2].next \in DOMAIN Man[stack[2].id].deps
                                  /\ Top.dep = Man[stack[2].id].deps[stack[2].next]
                                  /\ k = The(Top.dep)
<1>1. stack \in Seq(Frames) /\ \A i \in 2..Len(stack) : stack[i].id \in Id
  BY DEF TypeInv, CallInv, Calls
<1>2. Len(stack) \in Nat /\ Len(stack) # 0 /\ Top = stack[1] /\ 1 \in 1..Len(stack)
  BY <1>1 DEF Top
<1>3. Tail(stack) = <<>> <=> Len(stack) = 1
  BY <1>1, TailOfOne
<1>4. list \in Lists
  BY DEF TypeInv, BuildInv
<1>5. CASE Len(stack) = 1
  <2>1. Top.dep = want
    BY <1>2, <1>5 DEF Sound
  <2>2. The(list[next]) \in Id /\ \A j \in Id : Matches(j, want) <=> j = The(list[next])
    BY <1>4, WantFinds
  <2>3. The(list[next]) \in Below
    BY <1>4, BelowHas
  <2> QED  BY <1>3, <1>5, <2>1, <2>2, <2>3
<1>6. CASE Len(stack) # 1
  <2> DEFINE caller == stack[2].id
             i == stack[2].next
  <2>1. 2 \in 1..Len(stack) /\ 1 # Len(stack) /\ 1 + 1 = 2 /\ 2 \in 2..Len(stack) /\ 2 # 1
    <3>1. Len(stack) \in Nat /\ Len(stack) # 0 /\ Len(stack) # 1
      BY <1>2, <1>6
    <3>2. 2 \in 1..Len(stack) /\ 2 \in 2..Len(stack)
      BY <3>1, Places
    <3> QED  BY <3>1, <3>2
  <2>2. caller \in Id
    BY <1>1, <2>1
  <2>3. caller # None
    BY <2>2, LookupKey
  <2>4. i \in DOMAIN Man[caller].deps /\ Top.dep = Man[caller].deps[i]
    BY <1>2, <2>1 DEF Sound
  <2>5. caller \in Below /\ Having(caller)
    BY <2>1, <2>3 DEF Sound
  <2>6. Top.dep.id = None /\ The(Top.dep) \in Below
    BY <2>4, <2>5, BelowHas
  <2>7. The(Top.dep) \in Id /\ \A j \in Id : Matches(j, Top.dep) <=> j = The(Top.dep)
    BY <2>2, <2>4, DepsLookedUp, TheFacts
  <2> QED  BY <1>3, <1>6, <2>2, <2>4, <2>5, <2>6, <2>7
<1> QED  BY <1>5, <1>6

\* A new call on top of the others.
LEMMA SoundPush ==
    ASSUME TypeInv, stack # <<>>, Sound, Top.id \in Id, Having(Top.id),
           Top.next \in DOMAIN Man[Top.id].deps,
           stack' = <<Frame(Man[Top.id].deps[Top.next])>> \o stack, UNCHANGED <<want, dir>>
    PROVE  /\ Sound'
           /\ Top'.next = 1 /\ Top'.id = None
           /\ \A k, i : Waiting(k, i) => Waiting(k, i)'
<1> DEFINE x == Frame(Man[Top.id].deps[Top.next])
<1>1. stack \in Seq(Frames) /\ Len(stack) \in Nat /\ Len(stack) # 0 /\ Top = stack[1]
  BY DEF TypeInv, CallInv, Calls, Top
<1>2. Top.next \in Nat
  <2>1. stack[1] \in Frames
    BY <1>1
  <2> QED  BY <1>1, <2>1 DEF Frames
<1>3. x \in Frames
  BY <1>2, WishesHave
<1>4. x.next = 1 /\ x.id = None /\ x.dep = Man[Top.id].deps[Top.next]
  BY DEF Frame
<1> HIDE DEF x
<1>5. /\ Len(stack') = Len(stack) + 1 /\ stack' # <<>> /\ Head(stack') = x /\ stack' \in Seq(Frames)
      /\ \A p \in 2..(Len(stack) + 1) : stack'[p] = stack[p - 1]
  <2>1. stack' = <<x>> \o stack
    BY DEF x
  <2> QED  BY <1>1, <1>3, <2>1, PushFacts
<1>6. stack'[1] = x /\ stack'[2] = stack[1]
  <2>1. 2 \in 2..(Len(stack) + 1) /\ 2 - 1 = 1
    BY <1>1
  <2> QED  BY <1>5, <2>1
<1>7. ASSUME NEW p \in 1..Len(stack')
      PROVE  /\ p = Len(stack') => stack'[p].dep = want'
             /\ p # Len(stack') => /\ stack'[p + 1].next \in DOMAIN Man[stack'[p + 1].id].deps
                                   /\ stack'[p].dep = Man[stack'[p + 1].id].deps[stack'[p + 1].next]
             /\ stack'[p].id # None => stack'[p].id \in Below /\ Matches(stack'[p].id, stack'[p].dep)
             /\ p # 1 => dir'[stack'[p].id] # "none"
             /\ stack'[p].next # 0
  <2>1. CASE p = 1
    <3>1. p # Len(stack') /\ p + 1 = 2
      BY <1>1, <1>5, <2>1
    <3>2. stack'[p] = x /\ stack'[p + 1] = Top
      BY <1>1, <1>6, <2>1, <3>1
    <3>3. x.next # 0 /\ x.id = None /\ x.dep = Man[Top.id].deps[Top.next]
      BY <1>4
    <3> QED  BY <2>1, <3>1, <3>2, <3>3
  <2>2. CASE p # 1
    <3>1. p \in 2..(Len(stack) + 1) /\ p - 1 \in 1..Len(stack)
      BY <1>1, <1>5, <2>2
    <3>2. stack'[p] = stack[p - 1]
      BY <1>5, <3>1
    <3>3. p = Len(stack') <=> p - 1 = Len(stack)
      BY <1>1, <1>5, <3>1
    <3>4. p # Len(stack') => stack'[p + 1] = stack[(p - 1) + 1]
      <4>1. p # Len(stack') => p + 1 \in 2..(Len(stack) + 1) /\ (p + 1) - 1 = (p - 1) + 1
        BY <1>1, <1>5, <3>1
      <4> QED  BY <1>5, <4>1
    <3>5. dir[stack[p - 1].id] # "none"
      <4>1. CASE p - 1 = 1
        BY <1>1, <4>1 DEF Having
      <4>2. CASE p - 1 # 1
        BY <3>1, <4>2 DEF Sound, Having
      <4> QED  BY <4>1, <4>2
    <3> QED  BY <3>1, <3>2, <3>3, <3>4, <3>5 DEF Sound
  <2> QED  BY <2>1, <2>2
<1>8. ASSUME NEW k, NEW i, Waiting(k, i) PROVE Waiting(k, i)'
  <2>1. PICK p \in 1..Len(stack) : stack[p].id = k /\ stack[p].next <= i
    BY <1>8 DEF Waiting
  <2>2. p + 1 \in 2..(Len(stack) + 1) /\ (p + 1) - 1 = p /\ p + 1 \in 1..Len(stack')
    BY <1>1, <1>5
  <2>3. stack'[p + 1] = stack[p]
    BY <1>5, <2>2
  <2> QED  BY <2>1, <2>2, <2>3 DEF Waiting
<1> QED  BY <1>4, <1>5, <1>7, <1>8 DEF Sound, Having, Top

\* The call on top has found its image.
LEMMA SoundFound ==
    ASSUME TypeInv, stack # <<>>, Sound, Top.id = None, NEW k \in Below, k \in Id, Matches(k, Top.dep),
           stack' = <<[Top EXCEPT !.id = k]>> \o Tail(stack), UNCHANGED <<want, dir>>
    PROVE  /\ Sound'
           /\ Top'.next = Top.next /\ Top'.id = k
           /\ \A j \in Id : \A i : Waiting(j, i) => Waiting(j, i)'
<1> DEFINE x == [Top EXCEPT !.id = k]
<1>1. stack \in Seq(Frames) /\ Len(stack) \in Nat /\ Len(stack) # 0 /\ Top = stack[1]
  BY DEF TypeInv, CallInv, Calls, Top
<1>2. Top \in Frames
  BY <1>1
<1>3. x \in Frames /\ x.next = Top.next /\ x.id = k /\ x.dep = Top.dep
  BY <1>2 DEF Frames
<1> HIDE DEF x
<1>4. /\ Len(stack') = Len(stack) /\ stack'[1] = x
      /\ \A p \in 2..Len(stack) : stack'[p] = stack[p]
  <2>1. stack' = <<x>> \o Tail(stack)
    BY DEF x
  <2> QED  BY <1>1, <1>3, <2>1, ReplaceHead
<1>5. Top' = x
  <2>1. stack' = <<x>> \o Tail(stack) /\ Tail(stack) \in Seq(Frames)
    BY <1>1 DEF x
  <2>2. Head(stack') = x
    BY <1>3, <2>1, PushFacts
  <2> QED  BY <2>2 DEF Top
<1>6. ASSUME NEW p \in 1..Len(stack')
      PROVE  /\ p = Len(stack') => stack'[p].dep = want'
             /\ p # Len(stack') => /\ stack'[p + 1].next \in DOMAIN Man[stack'[p + 1].id].deps
                                   /\ stack'[p].dep = Man[stack'[p + 1].id].deps[stack'[p + 1].next]
             /\ stack'[p].id # None => stack'[p].id \in Below /\ Matches(stack'[p].id, stack'[p].dep)
             /\ p # 1 => dir'[stack'[p].id] # "none"
             /\ stack'[p].next # 0
  <2>1. stack'[p].dep = stack[p].dep /\ stack'[p].next = stack[p].next
    BY <1>1, <1>3, <1>4
  <2>2. p # Len(stack') => stack'[p + 1] = stack[p + 1]
    <3>1. p # Len(stack') => p + 1 \in 2..Len(stack)
      BY <1>1, <1>4, Places
    <3> QED  BY <1>4, <3>1
  <2>3. CASE p = 1
    <3>1. stack'[p].id = k /\ stack[p].dep = Top.dep /\ k \in Below /\ Matches(k, Top.dep)
      BY <1>1, <1>3, <1>4, <2>3
    <3>2. p \in 1..Len(stack) /\ Len(stack') = Len(stack) /\ want' = want
      BY <1>4
    <3> HIDE DEF Sound
    <3>3. /\ p = Len(stack) => stack[p].dep = want
          /\ p # Len(stack) => /\ stack[p + 1].next \in DOMAIN Man[stack[p + 1].id].deps
                               /\ stack[p].dep = Man[stack[p + 1].id].deps[stack[p + 1].next]
          /\ stack[p].next # 0
      BY <3>2, Zenon DEF Sound
    <3> QED  BY <2>1, <2>2, <2>3, <3>1, <3>2, <3>3
  <2>4. CASE p # 1
    <3>1. stack'[p] = stack[p]
      BY <1>1, <1>4, <2>4
    <3> QED  BY <1>4, <2>2, <2>4, <3>1 DEF Sound, Having
  <2> QED  BY <2>3, <2>4
<1>7. ASSUME NEW j \in Id, NEW i, Waiting(j, i) PROVE Waiting(j, i)'
  <2>1. PICK p \in 1..Len(stack) : stack[p].id = j /\ stack[p].next <= i
    BY <1>7 DEF Waiting
  <2>2. p # 1
    BY <1>1, <2>1, LookupKey
  <2>3. stack'[p] = stack[p] /\ p \in 1..Len(stack')
    BY <1>1, <1>4, <2>2
  <2> QED  BY <2>1, <2>3 DEF Waiting
<1> QED  BY <1>3, <1>5, <1>6, <1>7 DEF Sound, Having

\* The call on top returns to its caller.
LEMMA SoundReturn ==
    ASSUME TypeInv, stack # <<>>, Tail(stack) # <<>>, Sound,
           stack' = <<[Head(Tail(stack)) EXCEPT !.next = @ + 1]>> \o Tail(Tail(stack)), UNCHANGED <<want, dir>>
    PROVE  /\ Sound'
           /\ Top'.id = stack[2].id
           /\ \A j : \A i \in Nat : Waiting(j, i) =>
                 \/ Waiting(j, i)'
                 \/ (j = stack[2].id /\ i = stack[2].next)
                 \/ (j = Top.id /\ Top.next <= i)
<1> DEFINE rest == Tail(stack)
           x == [Head(rest) EXCEPT !.next = @ + 1]
<1>1. stack \in Seq(Frames) /\ Len(stack) \in Nat /\ Len(stack) # 0 /\ Top = stack[1]
  BY DEF TypeInv, CallInv, Calls, Top
<1>2. /\ rest \in Seq(Frames) /\ rest # <<>> /\ Len(rest) = Len(stack) - 1 /\ Len(rest) # 0
      /\ \A p \in 1..Len(rest) : rest[p] = stack[p + 1]
  BY <1>1
<1>3. Head(rest) = stack[2] /\ stack[2] \in Frames
  <2>1. Head(rest) = rest[1] /\ 1 \in 1..Len(rest) /\ 1 + 1 = 2
    BY <1>1, <1>2
  <2>2. rest[1] = stack[2] /\ rest[1] \in Frames
    BY <1>2, <2>1
  <2> QED  BY <2>1, <2>2
<1> HIDE DEF rest
<1>4. x \in Frames /\ x.next = stack[2].next + 1 /\ x.id = stack[2].id /\ x.dep = stack[2].dep /\ stack[2].next \in Nat
  <2> DEFINE e == stack[2]
  <2>1. e.next \in Nat /\ e.next + 1 \in Nat /\ e.id \in Id \cup {None} /\ e.dep \in Wishes
    BY <1>3 DEF Frames
  <2>2. x = [e EXCEPT !.next = @ + 1] /\ e = [dep |-> e.dep, id |-> e.id, next |-> e.next]
    BY <1>3 DEF Frames
  <2> HIDE DEF e, x
  <2>3. x = [dep |-> e.dep, id |-> e.id, next |-> e.next + 1]
    BY <2>2
  <2>4. x \in Frames /\ x.next = e.next + 1 /\ x.id = e.id /\ x.dep = e.dep
    BY <2>1, <2>3 DEF Frames
  <2> QED  BY <2>1, <2>4 DEF e
<1> HIDE DEF x
<1>5. /\ Len(stack') = Len(rest) /\ stack'[1] = x
      /\ \A p \in 2..Len(rest) : stack'[p] = rest[p]
  <2> DEFINE c == <<x>> \o Tail(rest)
  <2>1. stack' = c
    BY DEF x, rest
  <2>2. Len(c) = Len(rest) /\ c[1] = x /\ \A p \in 2..Len(rest) : c[p] = rest[p]
    BY <1>2, <1>4, ReplaceHead
  <2> HIDE DEF c
  <2> QED  BY <2>1, <2>2
<1>6. Top' = x
  <2>1. stack' = <<x>> \o Tail(rest) /\ Tail(rest) \in Seq(Frames)
    BY <1>2 DEF x, rest
  <2>2. Head(stack') = x
    BY <1>4, <2>1, PushFacts
  <2> QED  BY <2>2 DEF Top
<1>7. Len(stack') = Len(stack) - 1 /\ Len(stack') \in Nat /\ \A p \in 2..Len(stack') : stack'[p] = stack[p + 1]
  BY <1>1, <1>2, <1>5
<1>8. ASSUME NEW p \in 1..Len(stack')
      PROVE  /\ p = Len(stack') => stack'[p].dep = want'
             /\ p # Len(stack') => /\ stack'[p + 1].next \in DOMAIN Man[stack'[p + 1].id].deps
                                   /\ stack'[p].dep = Man[stack'[p + 1].id].deps[stack'[p + 1].next]
             /\ stack'[p].id # None => stack'[p].id \in Below /\ Matches(stack'[p].id, stack'[p].dep)
             /\ p # 1 => dir'[stack'[p].id] # "none"
             /\ stack'[p].next # 0
  <2>1. p + 1 \in 1..Len(stack) /\ p + 1 # 1 /\ (p = Len(stack') <=> p + 1 = Len(stack))
    BY <1>1, <1>7
  <2>2. stack'[p].dep = stack[p + 1].dep /\ stack'[p].id = stack[p + 1].id
    <3>1. CASE p = 1
      <4>1. p + 1 = 2
        BY <3>1
      <4> QED  BY <1>4, <1>5, <3>1, <4>1
    <3>2. CASE p # 1
      <4>1. p \in 2..Len(stack')
        BY <1>7, <3>2
      <4> QED  BY <1>7, <4>1
    <3> QED  BY <3>1, <3>2
  <2>3. p # Len(stack') => stack'[p + 1] = stack[(p + 1) + 1]
    <3>1. p # Len(stack') => p + 1 \in 2..Len(stack')
      BY <1>7
    <3> QED  BY <1>7, <3>1
  <2>4. stack'[p].next # 0
    <3>1. CASE p = 1
      BY <1>4, <1>5, <3>1, Places
    <3>2. CASE p # 1
      <4>1. stack'[p] = stack[p + 1]
        BY <1>7, <3>2
      <4> QED  BY <2>1, <4>1 DEF Sound
    <3> QED  BY <3>1, <3>2
  <2> QED  BY <2>1, <2>2, <2>3, <2>4 DEF Sound, Having
<1>9. ASSUME NEW j, NEW i \in Nat, Waiting(j, i)
      PROVE  \/ Waiting(j, i)'
             \/ (j = stack[2].id /\ i = stack[2].next)
             \/ (j = Top.id /\ Top.next <= i)
  <2>1. PICK p \in 1..Len(stack) : stack[p].id = j /\ stack[p].next <= i
    BY <1>9 DEF Waiting
  <2>2. CASE p = 1
    BY <1>1, <2>1, <2>2
  <2>3. CASE p = 2
    <3>1. stack[2].next <= i => i = stack[2].next \/ stack[2].next + 1 <= i
      <4>1. stack[2].next \in Nat
        BY <1>4
      <4> QED  BY <4>1
    <3>2. stack[2].next <= i /\ stack'[1].id = j /\ stack'[1].next = stack[2].next + 1
      BY <1>4, <1>5, <2>1, <2>3
    <3>3. 1 \in 1..Len(stack')
      BY <1>7, <2>3
    <3> QED  BY <2>1, <2>3, <3>1, <3>2, <3>3 DEF Waiting
  <2>4. CASE p # 1 /\ p # 2
    <3>1. p - 1 \in 2..Len(stack') /\ (p - 1) + 1 = p /\ p - 1 \in 1..Len(stack')
      BY <1>1, <1>7, <2>4
    <3>2. stack'[p - 1] = stack[p]
      BY <1>7, <3>1
    <3> QED  BY <2>1, <3>1, <3>2 DEF Waiting
  <2> QED  BY <2>2, <2>3, <2>4
<1> QED  BY <1>4, <1>6, <1>8, <1>9 DEF Sound, Having

\* What has gone wrong is not forgotten.
LEMMA HurtStays == ASSUME Next, ~hurt', TypeInv PROVE ~hurt
<1> USE DEF Goto, Return, FailFor, FailTo, GiveUp
<1>0. hurt \in BOOLEAN
  BY DEF TypeInv, CallInv
<1>1. StartRun \/ Clear \/ ClearFails \/ MakeWork \/ MakeWorkFails \/ FetchNext \/ RenderedNext
        => hurt' = hurt \/ hurt' = TRUE
  BY DEF StartRun, Clear, ClearFails, MakeWork, MakeWorkFails, FetchNext, RenderedNext
<1>2. NoOverlay \/ Mount \/ MountFails \/ CopyZoneInfo \/ StartEngine \/ EngineFails => hurt' = hurt \/ hurt' = TRUE
  BY DEF NoOverlay, Mount, MountFails, CopyZoneInfo, StartEngine, EngineFails
<1>3. Execute \/ Kill => hurt' = hurt \/ hurt' = TRUE
  BY DEF Execute, Kill
<1>31. StopEngine \/ Unmount \/ RemoveWork \/ Finish => \E gone \in BOOLEAN : hurt' = (hurt \/ gone)
  BY Zenon DEF StopEngine, Unmount, RemoveWork, Finish, Deferred
<1>4. Fetch \/ DownloadFails \/ Uncompress \/ MakeDir \/ WriteManifest \/ FetchDep
        => hurt' = hurt \/ hurt' = TRUE
  BY DEF Fetch, DownloadFails, Uncompress, MakeDir, WriteManifest, FetchDep
<1>41. Download => \E k \in Id : hurt' = (hurt \/ ~Matches(k, Top.dep))
  BY Zenon DEF Download
<1>5. Fetched => hurt' = hurt \/ hurt' = (hurt \/ Top.id # Top.dep.id)
  BY DEF Fetched
<1>6. RenderStep \/ WriteFails => hurt' = hurt \/ hurt' = TRUE
  BY DEF RenderStep, List, Skip, ExtractFile, RemoveManifest, ExtractManifest, Mark, Rendered, WriteFails
<1> QED
  BY <1>0, <1>1, <1>2, <1>3, <1>31, <1>4, <1>41, <1>5, <1>6 DEF Next, RunStep, RegistryStep, FetchStep

\* The steps of the registry bring no error of their own.
LEMMA RegistryErrs ==
    ASSUME Resolvable, Acyclic, Unpinned, TypeInv, ErrorInv, RegistryStep, UNCHANGED runVars, ~hurt'
    PROVE  ErrorInv'
<1> DEFINE k0 == The(list[next])
<1>1. pc \in Fetching /\ pc' \in Fetching \cup {"returned"}
  BY RegistryPlaces
<1>2. list' = list /\ next' = next /\ list \in Lists
  BY DEF runVars, TypeInv, BuildInv
<1>3. next # 0 /\ next \in DOMAIN list /\ want = [list[next] EXCEPT !.id = None]
  BY <1>1 DEF ErrorInv, AskInv
<1>4. want' = want
  BY DEF RegistryStep, FetchStep, RenderStep, Fetch, Download, DownloadFails, Uncompress, MakeDir,
         WriteManifest, FetchDep, Fetched, List, Skip, ExtractFile, RemoveManifest, ExtractManifest,
         Mark, Rendered, WriteFails
<1>5. AskInv'
  BY <1>2, <1>3, <1>4 DEF AskInv
<1>6. k0 \in Below /\ k0 \in Id /\ \A k \in Id : Matches(k, want) <=> k = k0
  BY <1>2, <1>3, WantFinds, BelowHas
<1> HIDE DEF k0
<1>7. /\ ~failed /\ Sound /\ (pc \notin Calling => stack = <<>>) /\ (pc = "deps" => Having(Top.id))
      /\ (pc \in Calling \ {"deps"} => Top.next = 1) /\ (pc = "download" => Top.id = None)
      /\ MadeInv /\ ClosedInv /\ FoundInv
  BY DEF ErrorInv, StackInv
<1>8. /\ pc \in Calling => stack # <<>>
      /\ pc \in Calling \ {"download"} => Top.id \in Id
      /\ stack \in Seq(Frames) /\ Len(stack) \in Nat
      /\ dir \in [Id -> {"none", "made", "whole"}] /\ DOMAIN dir = Id
      /\ stack # <<>> => Top = stack[1] /\ Top \in Frames /\ 1 \in 1..Len(stack)
  <2>1. stack \in Seq(Frames)
    BY DEF TypeInv, CallInv, Calls
  <2>2. stack # <<>> => Top = stack[1] /\ Top \in Frames /\ 1 \in 1..Len(stack)
    BY <2>1 DEF Top
  <2>3. pc \in Calling => stack # <<>>
    BY DEF TypeInv, CallInv, Calling, Current
  <2>4. pc \in Calling \ {"download"} => Top.id \in Id
    BY DEF TypeInv, CallInv, Calling, Current, Top
  <2>5. dir \in [Id -> {"none", "made", "whole"}]
    BY DEF TypeInv, StoreInv
  <2> QED  BY <2>1, <2>2, <2>3, <2>4, <2>5
<1>9. ASSUME pc \notin {"manifest", "remanifest"} PROVE \A k \in Id : dir[k] # "made"
  BY <1>7, <1>9 DEF MadeInv
<1>10. ASSUME NEW k \in Id, NEW i \in DOMAIN Man[k].deps PROVE The(Man[k].deps[i]) \in Id /\ i \in Nat /\ i >= 1
  <2>1. Man[k].deps[i] \in LookedUp /\ Man[k].deps \in Seq(Dependency)
    BY DepsLookedUp
  <2> QED  BY <2>1, TheFacts
<1>11. ASSUME \A k \in Id : Having(k) => Having(k)',
              \A k \in Id : Having(k)' => Having(k) \/ \A i \in DOMAIN Man[k].deps : Waiting(k, i)',
              \A k \in Id : \A i \in DOMAIN Man[k].deps :
                 Waiting(k, i) => Waiting(k, i)' \/ Having(The(Man[k].deps[i]))'
       PROVE  ClosedInv'
  <2> SUFFICES ASSUME NEW k \in Id, Having(k)', NEW i \in DOMAIN Man[k].deps
               PROVE  Having(The(Man[k].deps[i]))' \/ Waiting(k, i)'
    BY DEF ClosedInv
  <2>1. CASE Having(k)
    <3>1. Having(The(Man[k].deps[i])) \/ Waiting(k, i)
      BY <1>7, <2>1 DEF ClosedInv
    <3> QED  BY <1>10, <1>11, <3>1
  <2>2. CASE ~Having(k)
    BY <1>11, <2>2
  <2> QED  BY <2>1, <2>2
<1>12. UNCHANGED dir => \A k : Having(k)' <=> Having(k)
  BY DEF Having
<1>13. UNCHANGED stack => \A k, i : Waiting(k, i)' <=> Waiting(k, i)
  BY DEF Waiting
<1>14. ASSUME UNCHANGED stack, \A k \in Id : Having(k) => Having(k)' PROVE Sound'
  <2> SUFFICES ASSUME NEW p \in 1..Len(stack), p # 1 PROVE Having(stack[p].id)'
    BY <1>4, <1>7, <1>14 DEF Sound
  <2>1. Having(stack[p].id)
    BY <1>7 DEF Sound
  <2>2. stack[p].id \in Id
    <3>1. \A q \in 2..Len(stack) : stack[q].id \in Id
      BY DEF TypeInv, CallInv, Calls
    <3>2. p \in 2..Len(stack)
      BY <1>8
    <3> QED  BY <3>1, <3>2
  <2> QED  BY <1>14, <2>1, <2>2 DEF Having
<1> SUFFICES ~failed' /\ StackInv' /\ MadeInv' /\ ClosedInv' /\ FoundInv'
  BY <1>5 DEF ErrorInv
<1>15. CASE Fetch
  <2>1. pc = "fetch" /\ stack = <<>> /\ \A k \in Id : dir[k] # "made"
    <3>1. pc = "fetch"
      BY <1>15 DEF Fetch
    <3> QED  BY <1>7, <1>9, <3>1 DEF Calling
  <2>2. UNCHANGED <<dir, queue>>
    BY <1>15 DEF Fetch, store
  <2>3. MadeInv' /\ \A k, i : ~Waiting(k, i)
    <3>1. MadeInv'
      BY <2>1, <2>2 DEF MadeInv
    <3>2. Len(stack) = 0
      BY <2>1
    <3> QED  BY <3>1, <3>2 DEF Waiting
  <2>4. ClosedInv'
    BY <1>11, <1>12, <2>2, <2>3
  <2>5. GetACI(want) \in Id => GetACI(want) = k0 /\ Having(k0)
    <3> SUFFICES ASSUME GetACI(want) \in Id PROVE GetACI(want) = k0 /\ Having(k0)
      OBVIOUS
    <3>1. GetACI(want) \in Hits(want) /\ dir[GetACI(want)] # "made"
      BY LookupKey
    <3>2. Matches(GetACI(want), want) /\ dir[GetACI(want)] = "whole"
      BY <3>1 DEF Hits
    <3> QED  BY <1>6, <3>2 DEF Having
  <2>6. GetACI(want) \notin Id => GetACI(want) = None /\ None # Broken
    <3>1. ~\E k \in Hits(want) : dir[k] = "made"
      BY <2>1 DEF Hits
    <3> QED  BY <3>1, LookupKey
  <2>7. CASE GetACI(want) \in Id
    <3>1. pc' = "list" /\ UNCHANGED <<failed, stack>>
      <4>1. GetACI(want) # Broken /\ GetACI(want) # None
        BY <2>7, LookupKey
      <4> QED  BY <1>15, <4>1 DEF Fetch, Goto
    <3>2. StackInv'
      <4>1. Len(stack') = 0
        BY <2>1, <3>1
      <4> QED  BY <2>1, <3>1, <4>1 DEF StackInv, Sound, Calling
    <3>3. FoundInv'
      BY <1>2, <1>12, <2>2, <2>5, <2>7, <3>1 DEF FoundInv, k0
    <3> QED  BY <1>7, <2>3, <2>4, <3>1, <3>2, <3>3
  <2>8. CASE GetACI(want) \notin Id
    <3>1. pc' = "download" /\ stack' = <<Frame(want)>> /\ failed' = failed
      BY <1>15, <2>6, <2>8 DEF Fetch, Goto
    <3>2. Len(stack') = 1 /\ stack'[1] = Frame(want) /\ Top' = Frame(want)
      BY <3>1 DEF Top
    <3>3. Frame(want).dep = want /\ Frame(want).id = None /\ Frame(want).next = 1
      BY DEF Frame
    <3>4. Sound'
      <4>1. \A p \in 1..Len(stack') : p = 1
        BY <3>2
      <4> QED  BY <1>4, <3>2, <3>3, <4>1 DEF Sound
    <3>5. StackInv'
      BY <3>1, <3>2, <3>3, <3>4 DEF StackInv, Calling
    <3> QED  BY <1>7, <2>3, <2>4, <3>1, <3>5 DEF FoundInv
  <2> QED  BY <2>7, <2>8
<1>16. ASSUME DownloadFails \/ WriteFails PROVE FALSE
  BY <1>16 DEF DownloadFails, WriteFails, FailFor
<1>17. CASE Download
  <2>1. pc = "download" /\ pc' = "uncompress" /\ UNCHANGED <<failed, dir>> /\ stack # <<>> /\ Top.id = None
    <3>1. pc = "download"
      BY <1>17 DEF Download
    <3> QED  BY <1>7, <1>8, <1>17, <3>1 DEF Download, store, Calling
  <2>2. PICK k \in Id :
           /\ hurt' = (hurt \/ ~Matches(k, Top.dep))
           /\ stack' = <<[Top EXCEPT !.id = k]>> \o Tail(stack)
    BY <1>17 DEF Download
  <2>3. Matches(k, Top.dep)
    BY <2>2
  <2>4. k \in Below
    <3>1. PICK m \in Below : m \in Id /\ \A j \in Id : Matches(j, Top.dep) <=> j = m
      BY <1>3, <1>7, <2>1, CallMeans
    <3> QED  BY <2>3, <3>1
  <2>5. /\ Sound' /\ Top'.next = Top.next
        /\ \A j \in Id : \A i : Waiting(j, i) => Waiting(j, i)'
    BY <1>4, <1>7, <2>1, <2>2, <2>3, <2>4, SoundFound
  <2>6. StackInv'
    BY <1>7, <2>1, <2>5 DEF StackInv, Calling
  <2>7. ClosedInv'
    BY <1>11, <1>12, <2>1, <2>5
  <2>8. MadeInv'
    BY <1>9, <2>1 DEF MadeInv
  <2> QED  BY <1>7, <2>1, <2>6, <2>7, <2>8 DEF FoundInv
<1>18. CASE Uncompress
  <2>1. pc = "uncompress" /\ pc' = "mkdir" /\ UNCHANGED <<failed, dir, stack>>
    BY <1>18 DEF Uncompress, FailFor, Goto
  <2>2. Top' = Top
    BY <2>1 DEF Top
  <2>3. StackInv'
    BY <1>7, <1>12, <1>14, <2>1, <2>2 DEF StackInv, Calling
  <2>4. ClosedInv'
    BY <1>11, <1>12, <1>13, <2>1
  <2>5. MadeInv'
    BY <1>9, <2>1 DEF MadeInv
  <2> QED  BY <1>7, <2>1, <2>3, <2>4, <2>5 DEF FoundInv
<1>19. CASE MakeDir
  <2>1. pc = "mkdir" /\ pc' = "manifest" /\ UNCHANGED <<failed, stack>> /\ dir' = [dir EXCEPT ![Top.id] = "made"]
    BY <1>19 DEF MakeDir, Goto
  <2>2. Top' = Top /\ Top.id \in Id /\ Top.next = 1 /\ stack # <<>>
    BY <1>7, <1>8, <2>1 DEF Top, Calling
  <2>3. dir'[Top.id] = "made" /\ \A k \in Id : k # Top.id => dir'[k] = dir[k]
    BY <1>8, <2>1, <2>2
  <2>4. \A k \in Id : Having(k) => Having(k)'
    BY <2>3 DEF Having
  <2>5. StackInv'
    BY <1>7, <1>14, <2>1, <2>2, <2>4 DEF StackInv, Calling
  <2>6. MadeInv'
    BY <1>9, <2>1, <2>2, <2>3 DEF MadeInv
  <2>7. ClosedInv'
    <3>1. \A k \in Id : Having(k)' => Having(k) \/ k = Top.id
      BY <2>3 DEF Having
    <3>2. \A i \in DOMAIN Man[Top.id].deps : Waiting(Top.id, i)
      BY <1>8, <1>10, <2>2 DEF Waiting
    <3> QED  BY <1>11, <1>13, <2>1, <2>4, <3>1, <3>2
  <2> QED  BY <1>7, <2>1, <2>5, <2>6, <2>7 DEF FoundInv
<1>20. CASE WriteManifest
  <2>1. pc = "manifest" /\ UNCHANGED stack /\ dir' = [dir EXCEPT ![Top.id] = "whole"]
    BY <1>20 DEF WriteManifest
  <2>2. Top' = Top /\ Top.id \in Id /\ stack # <<>>
    BY <1>8, <2>1 DEF Top, Calling
  <2>3. Man[Top.id].name = Top.dep.name
    <3>1. Top.id # None
      BY <2>2, LookupKey
    <3>2. Matches(Top.id, Top.dep)
      BY <1>7, <1>8, <2>2, <3>1 DEF Sound
    <3> QED  BY <3>2 DEF Matches
  <2>4. pc' = "deps" /\ failed' = failed
    BY <1>20, <2>3 DEF WriteManifest, Goto
  <2>5. dir'[Top.id] = "whole" /\ \A k \in Id : k # Top.id => dir'[k] = dir[k]
    BY <1>8, <2>1, <2>2
  <2>6. \A k \in Id : Having(k) => Having(k)'
    BY <2>5 DEF Having
  <2>7. StackInv'
    <3>1. Having(Top.id)'
      BY <2>2, <2>5 DEF Having
    <3> QED  BY <1>14, <2>1, <2>4, <2>6, <3>1 DEF StackInv, Calling
  <2>8. MadeInv'
    BY <1>7, <2>1, <2>5 DEF MadeInv
  <2>9. ClosedInv'
    <3>1. \A k \in Id : Having(k)' => Having(k) \/ k = Top.id
      BY <2>5 DEF Having
    <3>2. \A i \in DOMAIN Man[Top.id].deps : Waiting(Top.id, i)
      <4>1. Top.next = 1
        BY <1>7, <2>1 DEF Calling
      <4> QED  BY <1>8, <1>10, <2>2, <4>1 DEF Waiting
    <3> QED  BY <1>11, <1>13, <2>1, <2>6, <3>1, <3>2
  <2> QED  BY <1>7, <2>4, <2>7, <2>8, <2>9 DEF FoundInv
<1>21. CASE FetchDep
  <2>1. /\ pc = "deps" /\ pc' = "download" /\ UNCHANGED <<failed, dir>>
        /\ Top.next <= Len(Man[Top.id].deps)
        /\ stack' = <<Frame(Man[Top.id].deps[Top.next])>> \o stack
    BY <1>21 DEF FetchDep, Goto, store
  <2>2. stack # <<>> /\ Top.id \in Id /\ Having(Top.id)
    BY <1>7, <1>8, <2>1 DEF Calling
  <2>3. Top.next \in DOMAIN Man[Top.id].deps
    <3>1. Top.next \in Nat /\ Top.next # 0
      BY <1>7, <1>8, <2>2 DEF Frames, Sound
    <3>2. Man[Top.id].deps \in Seq(Dependency)
      BY <2>2, DepsLookedUp
    <3> QED  BY <2>1, <3>1, <3>2
  <2>4. Sound' /\ Top'.next = 1 /\ Top'.id = None /\ \A k, i : Waiting(k, i) => Waiting(k, i)'
    BY <1>4, <1>7, <2>1, <2>2, <2>3, SoundPush
  <2>5. StackInv'
    BY <2>1, <2>4 DEF StackInv, Calling
  <2>6. ClosedInv'
    BY <1>11, <1>12, <2>1, <2>4
  <2>7. MadeInv'
    BY <1>9, <2>1 DEF MadeInv
  <2> QED  BY <1>7, <2>1, <2>5, <2>6, <2>7 DEF FoundInv
<1>22. CASE Fetched
  <2>1. pc = "deps" /\ Top.next > Len(Man[Top.id].deps) /\ UNCHANGED dir
    BY <1>22 DEF Fetched, store
  <2>2. stack # <<>> /\ Top.id \in Id /\ Having(Top.id) /\ Matches(Top.id, Top.dep)
    <3>1. stack # <<>> /\ Top.id \in Id /\ Having(Top.id)
      BY <1>7, <1>8, <2>1 DEF Calling
    <3>2. Matches(Top.id, Top.dep)
      BY <1>7, <1>8, <3>1, LookupKey DEF Sound
    <3> QED  BY <3>1, <3>2
  <2>3. PICK k \in Below : /\ k \in Id /\ \A j \in Id : Matches(j, Top.dep) <=> j = k
                           /\ Tail(stack) = <<>> => k = The(list[next])
                           /\ Tail(stack) # <<>> =>
                                 /\ Top.dep.id = None
                                 /\ stack[2].id \in Id /\ Having(stack[2].id)
                                 /\ stack[2].next \in DOMAIN Man[stack[2].id].deps
                                 /\ Top.dep = Man[stack[2].id].deps[stack[2].next]
                                 /\ k = The(Top.dep)
    BY <1>3, <1>7, <2>2, CallMeans
  <2>4. k = Top.id
    BY <2>2, <2>3
  <2>5. ASSUME NEW i \in DOMAIN Man[Top.id].deps PROVE ~(Top.next <= i)
    <3>1. Man[Top.id].deps \in Seq(Dependency) /\ Top.next \in Nat
      BY <1>8, <2>2, DepsLookedUp DEF Frames
    <3> QED  BY <2>1, <3>1
  <2>6. MadeInv'
    BY <1>9, <2>1 DEF MadeInv
  <2>7. CASE Tail(stack) = <<>>
    <3>1. stack' = <<>> /\ pc' = "list" /\ failed' = failed
      BY <1>22, <2>7 DEF Fetched, Goto
    <3>2. StackInv'
      <4>1. Len(stack') = 0
        BY <3>1
      <4> QED  BY <3>1, <4>1 DEF StackInv, Sound, Calling
    <3>3. ClosedInv'
      <4>1. Len(stack) = 1
        BY <1>8, <2>2, <2>7, TailOfOne
      <4>2. \A j \in Id : \A i \in DOMAIN Man[j].deps : ~Waiting(j, i)
        <5> SUFFICES ASSUME NEW j \in Id, NEW i \in DOMAIN Man[j].deps, Waiting(j, i) PROVE FALSE
          OBVIOUS
        <5>1. PICK p \in 1..Len(stack) : stack[p].id = j /\ stack[p].next <= i
          BY DEF Waiting
        <5>2. p = 1
          BY <4>1
        <5> QED  BY <1>8, <2>2, <2>5, <5>1, <5>2
      <4> QED  BY <1>11, <1>12, <2>1, <4>2
    <3>4. FoundInv'
      <4>1. Having(The(list[next]))
        BY <2>2, <2>3, <2>4, <2>7
      <4> QED  BY <1>2, <1>12, <2>1, <3>1, <4>1 DEF FoundInv
    <3> QED  BY <1>7, <2>6, <3>1, <3>2, <3>3, <3>4
  <2>8. CASE Tail(stack) # <<>>
    <3>1. /\ stack' = <<[Head(Tail(stack)) EXCEPT !.next = @ + 1]>> \o Tail(Tail(stack))
          /\ UNCHANGED <<pc, failed>>
      BY <1>22, <2>3, <2>8 DEF Fetched
    <3>2. /\ Sound' /\ Top'.id = stack[2].id
          /\ \A j : \A i \in Nat : Waiting(j, i) =>
                \/ Waiting(j, i)'
                \/ (j = stack[2].id /\ i = stack[2].next)
                \/ (j = Top.id /\ Top.next <= i)
      BY <1>4, <1>7, <2>1, <2>2, <2>8, <3>1, SoundReturn
    <3>3. StackInv'
      <4>1. Having(stack[2].id)
        BY <2>3, <2>8
      <4>2. Having(Top.id)'
        BY <2>1, <3>2, <4>1 DEF Having
      <4> QED  BY <2>1, <3>1, <3>2, <4>2 DEF StackInv, Calling
    <3>4. ClosedInv'
      <4>1. ASSUME NEW j \in Id, NEW i \in DOMAIN Man[j].deps, Waiting(j, i)
            PROVE  Waiting(j, i)' \/ Having(The(Man[j].deps[i]))'
        <5>1. i \in Nat
          BY <1>10
        <5>2. CASE j = stack[2].id /\ i = stack[2].next
          <6>1. The(Man[j].deps[i]) = Top.id
            BY <2>3, <2>4, <2>8, <5>2
          <6> QED  BY <1>12, <2>1, <2>2, <6>1
        <5>3. ~(j = Top.id /\ Top.next <= i)
          BY <2>5
        <5> QED  BY <3>2, <4>1, <5>1, <5>2, <5>3
      <4> QED  BY <1>11, <1>12, <2>1, <4>1
    <3> QED  BY <1>7, <2>1, <2>6, <3>1, <3>3, <3>4 DEF FoundInv
  <2> QED  BY <2>7, <2>8
<1>23. CASE RenderStep
  <2>1. pc \in {"list", "render", "remanifest"} /\ UNCHANGED stack /\ stack = <<>>
    <3>1. pc \in {"list", "render", "remanifest"} /\ UNCHANGED stack
      BY <1>23 DEF RenderStep, List, Skip, ExtractFile, RemoveManifest, ExtractManifest, Mark, Rendered
    <3> QED  BY <1>7, <3>1 DEF Calling
  <2>2. pc' \in {"render", "remanifest", "returned"}
    BY <1>23 DEF RenderStep, List, Skip, ExtractFile, RemoveManifest, ExtractManifest, Mark, Rendered, Goto, Return
  <2>3. StackInv'
    <3>1. Len(stack') = 0
      BY <2>1
    <3> QED  BY <2>1, <2>2, <3>1 DEF StackInv, Sound, Calling
  <2>4. Having(k0)
    BY <1>7, <2>1 DEF FoundInv, k0
  <2>5. queue \in Seq(Parts) /\ Len(queue) \in Nat /\ StoreInv
    BY DEF TypeInv, StoreInv
  <2>6. ASSUME \A k \in Id : Having(k)' <=> Having(k), ~failed', MadeInv',
               pc' \in {"render", "remanifest"} => \A j \in 1..Len(queue') : dir'[queue'[j].key] # "none"
        PROVE  ~failed' /\ StackInv' /\ MadeInv' /\ ClosedInv' /\ FoundInv'
    <3>1. ClosedInv'
      BY <1>11, <1>13, <2>1, <2>6
    <3>2. FoundInv'
      BY <1>2, <1>6, <2>4, <2>6 DEF FoundInv, Having, k0
    <3> QED  BY <2>3, <2>6, <3>1, <3>2
  <2>7. pc \in {"list", "render"} /\ UNCHANGED dir => MadeInv'
    BY <1>9 DEF MadeInv
  <2>8. pc \in {"render", "remanifest"} => \A j \in 1..Len(queue) : Having(queue[j].key) /\ queue[j].key \in Id
    <3>1. \A j \in 1..Len(queue) : queue[j].key \in Id
      <4>1. \A j \in 1..Len(queue) : queue[j] \in Parts
        BY <2>5
      <4> QED  BY <4>1 DEF Parts
    <3> QED  BY <1>7, <3>1 DEF FoundInv
  <2>9. CASE List
    <3> DEFINE images == DepList[GetACI(want)]
    <3>1. pc = "list" /\ UNCHANGED dir
      BY <2>9 DEF List, store
    <3>2. \A k \in Id : dir[k] # "made"
      BY <1>9, <3>1
    <3>3. GetACI(want) = k0
      BY <1>6, <2>4, <2>5, <3>2, LookupHas
    <3>4. Listed(k0)
      BY <1>6, <1>7, <2>1, <2>4, <2>5, <3>2, WholeFound
    <3>5. IsWhole(images) /\ \A m \in ToSet(images) : Having(m)
      BY <3>3, <3>4 DEF Listed
    <3>6. /\ queue' = [i \in DOMAIN images |-> [key |-> images[i], left |-> Wanted(images, i)]]
          /\ failed' = failed
      BY <2>9, <3>5 DEF List, Goto
    <3> HIDE DEF images
    <3>7. \A j \in 1..Len(queue') : queue'[j].key \in ToSet(images)
      <4>1. DOMAIN images = 1..Len(images) /\ Len(images) \in Nat
        BY <3>5 DEF IsWhole
      <4>2. Len(queue') = Len(images)
        BY <3>6, <4>1
      <4> QED  BY <3>6, <4>1, <4>2 DEF ToSet
    <3>8. \A j \in 1..Len(queue') : dir'[queue'[j].key] # "none"
      BY <3>1, <3>5, <3>7 DEF Having
    <3> QED  BY <1>7, <1>12, <2>6, <2>7, <3>1, <3>6, <3>8
  <2>10. CASE Skip
    <3>1. pc = "render" /\ queue # <<>> /\ UNCHANGED <<pc, failed, dir>> /\ queue' = Tail(queue)
      BY <2>10 DEF Skip, store
    <3>2. \A j \in 1..Len(queue') : j + 1 \in 1..Len(queue) /\ queue'[j] = queue[j + 1]
      BY <2>5, <3>1
    <3>3. \A j \in 1..Len(queue') : dir'[queue'[j].key] # "none"
      BY <2>8, <3>1, <3>2 DEF Having
    <3> QED  BY <1>7, <1>12, <2>6, <2>7, <3>1, <3>3
  <2>11. CASE ExtractFile \/ ExtractManifest
    <3>1. PICK f : queue' = <<[Next1 EXCEPT !.left = @ \ {f}]>> \o Tail(queue)
      BY <2>11 DEF ExtractFile, ExtractManifest
    <3>2. queue # <<>> /\ pc \in {"render", "remanifest"}
      <4>1. pc = "remanifest" => queue # <<>>
        BY <2>5 DEF StoreInv
      <4> QED  BY <2>11, <4>1 DEF ExtractFile, ExtractManifest
    <3> DEFINE part == [Next1 EXCEPT !.left = @ \ {f}]
    <3>3. Next1 = queue[1] /\ Next1 \in Parts /\ 1 \in 1..Len(queue)
      BY <2>5, <3>2 DEF Next1
    <3>4. part \in Parts /\ part.key = Next1.key
      <4>1. \A e \in Parts : [e EXCEPT !.left = @ \ {f}] \in Parts /\ [e EXCEPT !.left = @ \ {f}].key = e.key
        BY DEF Parts
      <4> QED  BY <3>3, <4>1
    <3>5. queue' = <<part>> \o Tail(queue)
      BY <3>1
    <3> HIDE DEF part
    <3>6. Len(queue') = Len(queue) /\ queue'[1] = part /\ \A j \in 2..Len(queue) : queue'[j] = queue[j]
      BY <2>5, <3>2, <3>4, <3>5, ReplaceHead
    <3>7. \A j \in 1..Len(queue') : queue'[j].key = queue[j].key
      BY <2>5, <3>3, <3>4, <3>6
    <3>8. failed' = failed /\ \A k \in Id : Having(k)' <=> Having(k)
      <4>1. CASE ExtractFile
        BY <1>12, <4>1 DEF ExtractFile
      <4>2. CASE ExtractManifest
        <5>1. dir' = [dir EXCEPT ![Next1.key] = "whole"] /\ failed' = failed
          BY <4>2 DEF ExtractManifest, Goto
        <5>2. Having(Next1.key)
          BY <2>8, <3>2, <3>3
        <5> QED  BY <1>8, <5>1, <5>2 DEF Having
      <4> QED  BY <2>11, <4>1, <4>2
    <3>9. MadeInv'
      <4>1. CASE ExtractFile
        BY <2>7, <4>1 DEF ExtractFile
      <4>2. CASE ExtractManifest
        <5>1. dir' = [dir EXCEPT ![Next1.key] = "whole"] /\ pc = "remanifest"
          BY <4>2 DEF ExtractManifest
        <5> QED  BY <1>7, <1>8, <5>1 DEF MadeInv
      <4> QED  BY <2>11, <4>1, <4>2
    <3>10. \A j \in 1..Len(queue') : dir'[queue'[j].key] # "none"
      BY <2>8, <3>2, <3>6, <3>7, <3>8 DEF Having
    <3> QED  BY <1>7, <2>6, <3>8, <3>9, <3>10
  <2>12. CASE RemoveManifest
    <3>1. /\ pc = "render" /\ queue # <<>> /\ pc' = "remanifest" /\ UNCHANGED <<failed, queue>>
          /\ dir' = [dir EXCEPT ![Next1.key] = "made"]
      BY <2>12 DEF RemoveManifest, Goto
    <3>2. Next1 = queue[1] /\ 1 \in 1..Len(queue)
      BY <2>5, <3>1 DEF Next1
    <3>3. Having(Next1.key) /\ Next1.key \in Id /\ Next1' = Next1
      BY <2>8, <3>1, <3>2 DEF Next1
    <3>4. \A k \in Id : Having(k)' <=> Having(k)
      BY <1>8, <3>1, <3>3 DEF Having
    <3>5. MadeInv'
      BY <1>8, <1>9, <3>1, <3>3 DEF MadeInv
    <3>6. \A j \in 1..Len(queue') : dir'[queue'[j].key] # "none"
      BY <2>8, <3>1, <3>4 DEF Having
    <3> QED  BY <1>7, <2>6, <3>1, <3>4, <3>5, <3>6
  <2>13. CASE Mark \/ Rendered
    <3>1. pc = "render" /\ UNCHANGED <<dir, queue>> /\ ~failed'
      BY <1>7, <2>13 DEF Mark, Rendered, Return, store
    <3>2. \A j \in 1..Len(queue') : dir'[queue'[j].key] # "none"
      BY <2>8, <3>1 DEF Having
    <3> QED  BY <1>12, <2>6, <2>7, <3>1, <3>2
  <2> QED  BY <1>23, <2>9, <2>10, <2>11, <2>12, <2>13 DEF RenderStep
<1> QED
  BY <1>15, <1>16, <1>17, <1>18, <1>19, <1>20, <1>21, <1>22, <1>23 DEF RegistryStep, FetchStep

\* Nor do the other steps of a run.
LEMMA RunErrs ==
    ASSUME Resolvable, Acyclic, Unpinned, TypeInv, ErrorInv, Next, ~RegistryStep, ~hurt'
    PROVE  ErrorInv'
<1> USE DEF Goto, FailTo, GiveUp, Idle, AfterRun
<1>1. /\ ~failed /\ next # 0 /\ next \in Nat /\ list \in Lists
      /\ MadeInv /\ ClosedInv /\ FoundInv /\ (pc \notin Calling => stack = <<>>)
  BY DEF ErrorInv, AskInv, StackInv, TypeInv, BuildInv
<1>2. Len(<<>>) = 0
  OBVIOUS
<1>3. ASSUME pc \notin Fetching, UNCHANGED dir, stack' = <<>>, ~failed', AskInv',
             pc' \notin (Fetching \ {"fetch"}) \cup {"returned"}
      PROVE  ErrorInv'
  <2>1. stack = <<>>
    BY <1>1, <1>3 DEF Fetching, Calling
  <2>2. MadeInv'
    BY <1>1, <1>3 DEF MadeInv, Fetching
  <2>3. StackInv'
    BY <1>2, <1>3 DEF StackInv, Sound, Calling, Fetching
  <2>4. ClosedInv'
    BY <1>1, <1>3, <2>1 DEF ClosedInv, Having, Waiting
  <2>5. FoundInv'
    BY <1>3 DEF FoundInv, Fetching
  <2> QED  BY <1>3, <2>2, <2>3, <2>4, <2>5 DEF ErrorInv
<1>4. ASSUME pc \notin Fetching \cup {"returned"}, UNCHANGED <<dir, stack>>, ~failed', next' # 0,
             pc' \notin Fetching \cup {"returned"}
      PROVE  ErrorInv'
  <2>1. stack' = <<>>
    BY <1>1, <1>4 DEF Fetching, Calling
  <2>2. AskInv'
    BY <1>4 DEF AskInv
  <2> QED  BY <1>3, <1>4, <2>1, <2>2
<1>5. CASE StartRun \/ Clear \/ MakeWork
  <2>1. /\ pc \in {"idle", "unmount", "work"} /\ UNCHANGED <<dir, stack>> /\ ~failed' /\ next' # 0
        /\ pc' \in {"unmount", "work", "dependency"}
    <3>1. CASE StartRun \/ Clear
      BY <1>1, <3>1 DEF StartRun, Clear, store
    <3>2. CASE MakeWork
      <4>1. pc' = "dependency" /\ failed' = failed
        BY <3>2 DEF MakeWork
      <4> QED  BY <1>1, <3>2, <4>1 DEF MakeWork, store
    <3> QED  BY <1>5, <3>1, <3>2
  <2> QED  BY <1>4, <2>1 DEF Fetching
<1>6. CASE NoOverlay \/ Mount \/ CopyZoneInfo \/ StartEngine
  <2>1. /\ pc \in {"dependency", "zoneinfo", "engine"} /\ UNCHANGED <<dir, stack, next>>
        /\ pc' \in {"zoneinfo", "engine", "execute", AfterRun}
    BY <1>6 DEF NoOverlay, Mount, CopyZoneInfo, StartEngine, store, runVars
  <2>2. ~failed'
    BY <1>1, <1>6 DEF NoOverlay, Mount, CopyZoneInfo, StartEngine
  <2> QED  BY <1>1, <1>4, <2>1, <2>2 DEF Fetching
<1>7. CASE Execute \/ StopEngine \/ Unmount \/ RemoveWork \/ Finish
  <2>1. /\ pc \in {"execute", "stop engine", "umount", "remove work", "remove target"}
        /\ UNCHANGED <<dir, stack, next>>
        /\ pc' \in {"stop engine", "umount", "remove work", "remove target", "idle"}
    <3>1. Execute \/ StopEngine
            => /\ pc \in {"execute", "stop engine"} /\ UNCHANGED <<dir, stack, next>>
               /\ pc' \in {"stop engine", "umount", "remove work"}
      BY DEF Execute, StopEngine, Deferred, store
    <3>2. Unmount \/ RemoveWork \/ Finish
            => /\ pc \in {"umount", "remove work", "remove target"} /\ UNCHANGED <<dir, stack, next>>
               /\ pc' \in {"remove work", "remove target", "idle"}
      BY DEF Unmount, RemoveWork, Finish, Deferred, store
    <3> QED  BY <1>7, <3>1, <3>2
  <2>2. ~failed'
    BY <1>1, <1>7 DEF Execute, StopEngine, Unmount, RemoveWork, Finish, Deferred
  <2> QED  BY <1>1, <1>4, <2>1, <2>2 DEF Fetching
<1>8. ASSUME ClearFails \/ MakeWorkFails \/ MountFails \/ EngineFails \/ Kill PROVE FALSE
  BY <1>8 DEF ClearFails, MakeWorkFails, MountFails, EngineFails, Kill
<1>9. CASE FetchNext
  <2>1. /\ pc = "dependency" /\ pc' = "fetch" /\ UNCHANGED <<dir, stack, next, list, failed>>
        /\ next <= Len(list) /\ want' = [list[next] EXCEPT !.id = None]
    BY <1>9 DEF FetchNext, store, runVars
  <2>2. next \in DOMAIN list
    <3>1. list \in Seq(Dependency)
      BY <1>1 DEF Resolvable
    <3> QED  BY <1>1, <2>1, <3>1
  <2>3. AskInv' /\ stack' = <<>>
    BY <1>1, <2>1, <2>2 DEF AskInv, Calling
  <2> QED  BY <1>1, <1>3, <2>1, <2>3 DEF Fetching
<1>10. CASE RenderedNext
  <2>1. pc = "returned" /\ stack' = <<>> /\ UNCHANGED dir
    BY <1>10 DEF RenderedNext, store
  <2>2. next \in DOMAIN list /\ want = [list[next] EXCEPT !.id = None]
    BY <2>1 DEF ErrorInv, AskInv
  <2> DEFINE k == The(list[next])
  <2>3. k \in Below /\ k \in Id /\ (\A j \in Id : Matches(j, want) <=> j = k) /\ Having(k)
    BY <1>1, <2>1, <2>2, WantFinds, BelowHas DEF FoundInv
  <2> HIDE DEF k
  <2>4. StoreInv /\ stack = <<>> /\ \A j \in Id : dir[j] # "made"
    BY <1>1, <2>1 DEF TypeInv, MadeInv, Calling
  <2>5. GetACI(want) = k
    BY <2>3, <2>4, LookupHas
  <2>6. Listed(k)
    BY <1>1, <2>3, <2>4, WholeFound
  <2>7. IsWhole(GenDeplist[GetACI(want)])
    BY <2>5, <2>6 DEF Listed
  <2>8. next' = next + 1 /\ pc' = "dependency" /\ ~failed'
    BY <1>1, <1>10, <2>7 DEF RenderedNext
  <2>9. AskInv'
    BY <1>1, <2>8 DEF AskInv, Fetching
  <2> QED  BY <1>3, <2>1, <2>8, <2>9 DEF Fetching
<1> QED
  BY <1>5, <1>6, <1>7, <1>8, <1>9, <1>10 DEF Next, RunStep

\* FailsOnlyOnFault of the run, for any images that do not depend on themselves and have
\* no dependency with an image ID below the image (for which ResolveKey returns a key
\* that names nothing), and any number of dependencies: what a run finds in the store
\* has its dependencies there, so long as nothing outside has failed, and createDepList,
\* genDeplist and the lookups between them succeed.
THEOREM RunFailsOnlyOnFault ==
    Resolvable /\ Acyclic /\ Unpinned => (Spec => []FailsOnlyOnFault)
<1> SUFFICES ASSUME Resolvable, Acyclic, Unpinned PROVE Spec => []FailsOnlyOnFault
  OBVIOUS
<1> DEFINE Inv == hurt \/ ErrorInv
<1>1. Init => Inv
  <2> SUFFICES ASSUME Init PROVE ErrorInv
    OBVIOUS
  <2>1. /\ pc = "idle" /\ next = 1 /\ failed = FALSE /\ stack = <<>> /\ dir = [k \in Id |-> "none"]
        /\ Len(<<>>) = 0
    BY DEF Init, RegistryInit
  <2>2. AskInv /\ StackInv
    BY <2>1 DEF AskInv, StackInv, Sound, Fetching, Calling
  <2>3. MadeInv /\ ClosedInv /\ FoundInv
    BY <2>1 DEF MadeInv, ClosedInv, FoundInv, Having
  <2> QED  BY <2>1, <2>2, <2>3 DEF ErrorInv
<1>2. TypeInv /\ Inv /\ [Next]_vars => Inv'
  <2> SUFFICES ASSUME TypeInv, Inv, [Next]_vars, ~hurt' PROVE ErrorInv'
    OBVIOUS
  <2>1. CASE UNCHANGED vars
    <3>1. ErrorInv
      BY <2>1 DEF vars, regVars
    <3> QED
      BY <2>1, <3>1 DEF vars, runVars, regVars, store, ErrorInv, AskInv, StackInv, Sound, Top, MadeInv, Next1,
                        ClosedInv, FoundInv, Having, Waiting
  <2>2. CASE Next
    <3>1. ~hurt
      BY <2>2, HurtStays
    <3> QED  BY <2>2, <3>1, RegistryErrs, RunErrs, RegistryAlone
  <2> QED  BY <2>1, <2>2
<1>3. Inv => FailsOnlyOnFault
  BY DEF ErrorInv, FailsOnlyOnFault
<1> HIDE DEF Inv
<1> QED  BY <1>1, <1>2, <1>3, TypeInvariant, PTL DEF Spec
================================================================================
