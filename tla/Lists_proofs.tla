------------------------------ MODULE Lists_proofs -----------------------------
(*****************************************************************************)
(* Facts about natural numbers, lists of lists, and the folds of the         *)
(* community modules.  The inductions are about sets: a set of natural       *)
(* numbers that is not empty has a least member.  An operator that is folded *)
(* over a list is given as a function here.                                  *)
(*****************************************************************************)
EXTENDS SequencesExt, SequenceTheorems, WellFoundedInduction, TLAPS

-----------------------------------------------------------------------------
(* Natural numbers.                                                           *)

LEMMA Least ==
    ASSUME NEW T, T \subseteq Nat, T # {}
    PROVE  \E n \in T : \A m \in T : n <= m
<1>1. IsWellFoundedOn(OpToRel(<,Nat), Nat)
  BY NatLessThanWellFounded
<1>2. PICK n \in T : \A m \in T : ~(<<m, n>> \in OpToRel(<,Nat))
  BY <1>1, WFMin
<1>3. n \in Nat /\ \A m \in T : m \in Nat
  OBVIOUS
<1>4. \A m \in T : ~(m < n)
  BY <1>2, <1>3 DEF OpToRel
<1> QED  BY <1>3, <1>4

\* Induction over the natural numbers, for a set.
LEMMA AllNat ==
    ASSUME NEW T, 0 \in T, \A n \in Nat : n \in T => n + 1 \in T
    PROVE  \A n \in Nat : n \in T
<1> DEFINE Bad == {n \in Nat : n \notin T}
<1> SUFFICES ASSUME Bad # {} PROVE FALSE
  OBVIOUS
<1>1. PICK n \in Bad : \A m \in Bad : n <= m
  BY Least
<1>2. n \in Nat /\ n # 0 /\ n \notin T
  OBVIOUS
<1>3. n - 1 \in Nat /\ n - 1 \notin Bad /\ (n - 1) + 1 = n
  <2> HIDE DEF Bad
  <2> QED  BY <1>1, <1>2
<1> QED  BY <1>2, <1>3

-----------------------------------------------------------------------------
(* Lists of lists.                                                            *)

LEMMA FlattenDef ==
    ASSUME NEW ss, Len(ss) \in Nat, Len(ss) # 0
    PROVE  \E f : /\ f = [i \in 1..Len(ss) |-> IF i = 1 THEN ss[i] ELSE f[i - 1] \o ss[i]]
                  /\ FlattenSeq(ss) = f[Len(ss)]
<1> DEFINE Body(f, n) == [i \in 1..n |-> IF i = 1 THEN ss[i] ELSE f[i - 1] \o ss[i]]
           Exists(n) == \E f : f = Body(f, n)
           T == {n \in Nat : Exists(n)}
<1>1. 0 \in T
  <2>1. [i \in 1..0 |-> ss[i]] = Body([i \in 1..0 |-> ss[i]], 0)
    OBVIOUS
  <2> QED  BY <2>1
<1>2. ASSUME NEW n \in Nat, n \in T PROVE n + 1 \in T
  <2>1. PICK f : f = Body(f, n)
    BY <1>2
  <2> DEFINE g == [i \in 1..(n + 1) |-> IF i \in 1..n THEN f[i]
                                        ELSE IF i = 1 THEN ss[i] ELSE f[i - 1] \o ss[i]]
  <2>2. ASSUME NEW i \in 1..(n + 1) PROVE g[i] = IF i = 1 THEN ss[i] ELSE g[i - 1] \o ss[i]
    <3>1. i # 1 => i - 1 \in 1..n /\ i - 1 \in 1..(n + 1)
      OBVIOUS
    <3>2. i # 1 => g[i - 1] = f[i - 1]
      BY <3>1
    <3>3. CASE i \in 1..n
      <4>1. f[i] = IF i = 1 THEN ss[i] ELSE f[i - 1] \o ss[i]
        BY <2>1, <3>3
      <4> QED  BY <3>2, <3>3, <4>1
    <3>4. CASE i \notin 1..n
      BY <3>2, <3>4
    <3> QED  BY <3>3, <3>4
  <2>3. Exists(n + 1)
    <3>1. g = Body(g, n + 1)
      BY <2>2
    <3> QED  BY <3>1
  <2> HIDE DEF Exists
  <2> QED  BY <2>3
<1>3. Len(ss) \in T
  <2> HIDE DEF T
  <2> QED  BY <1>1, <1>2, AllNat
<1>4. PICK f : f = Body(f, Len(ss))
  BY <1>3
<1> QED  BY <1>4 DEF FlattenSeq

LEMMA Members ==
    ASSUME NEW S, NEW s \in Seq(S), NEW t \in Seq(S)
    PROVE  /\ s \o t \in Seq(S) /\ ToSet(s \o t) = ToSet(s) \cup ToSet(t)
           /\ ToSet(s) \subseteq S
           /\ \A T : ToSet(s) \subseteq T => s \in Seq(T)
<1>1. /\ DOMAIN s = 1..Len(s) /\ Len(s) \in Nat /\ DOMAIN t = 1..Len(t) /\ Len(t) \in Nat
      /\ \A i \in 1..Len(s) : s[i] \in S
  OBVIOUS
<1>2. /\ s \o t \in Seq(S) /\ Len(s \o t) = Len(s) + Len(t)
      /\ \A i \in 1..(Len(s) + Len(t)) : (s \o t)[i] = IF i <= Len(s) THEN s[i] ELSE t[i - Len(s)]
  BY ConcatProperties
<1> DEFINE c == s \o t
<1>3. c \in Seq(S) /\ DOMAIN c = 1..(Len(s) + Len(t))
  BY <1>2
<1> HIDE DEF c
<1>4. ToSet(c) \subseteq ToSet(s) \cup ToSet(t)
  <2> SUFFICES ASSUME NEW i \in 1..(Len(s) + Len(t)) PROVE c[i] \in ToSet(s) \cup ToSet(t)
    BY <1>3 DEF ToSet
  <2>1. CASE i <= Len(s)
    <3>1. i \in 1..Len(s) /\ c[i] = s[i]
      BY <1>1, <1>2, <2>1 DEF c
    <3> QED  BY <1>1, <3>1 DEF ToSet
  <2>2. CASE ~(i <= Len(s))
    <3>1. i - Len(s) \in 1..Len(t) /\ c[i] = t[i - Len(s)]
      BY <1>1, <1>2, <2>2 DEF c
    <3> QED  BY <1>1, <3>1 DEF ToSet
  <2> QED  BY <2>1, <2>2
<1>5. ToSet(s) \subseteq ToSet(c)
  <2> SUFFICES ASSUME NEW i \in 1..Len(s) PROVE s[i] \in ToSet(c)
    BY <1>1 DEF ToSet
  <2>1. i \in 1..(Len(s) + Len(t)) /\ c[i] = s[i]
    BY <1>1, <1>2 DEF c
  <2> QED  BY <1>3, <2>1 DEF ToSet
<1>6. ToSet(t) \subseteq ToSet(c)
  <2> SUFFICES ASSUME NEW i \in 1..Len(t) PROVE t[i] \in ToSet(c)
    BY <1>1 DEF ToSet
  <2>1. /\ Len(s) + i \in 1..(Len(s) + Len(t)) /\ ~(Len(s) + i <= Len(s))
        /\ (Len(s) + i) - Len(s) = i
    BY <1>1
  <2>2. c[Len(s) + i] = t[i]
    BY <1>2, <2>1 DEF c
  <2> QED  BY <1>3, <2>1, <2>2 DEF ToSet
<1>7. ToSet(s) \subseteq S
  BY <1>1 DEF ToSet
<1>8. ASSUME NEW T, ToSet(s) \subseteq T PROVE s \in Seq(T)
  <2>1. \A i \in 1..Len(s) : s[i] \in T
    BY <1>1, <1>8 DEF ToSet
  <2> QED  BY <1>1, <2>1
<1> QED  BY <1>2, <1>4, <1>5, <1>6, <1>7, <1>8 DEF c

\* The empty list, and the list of one.
LEMMA MembersOfOne ==
    ASSUME NEW S, NEW x \in S
    PROVE  <<x>> \in Seq(S) /\ ToSet(<<x>>) = {x} /\ <<>> \in Seq(S) /\ ToSet(<<>>) = {}
<1>1. <<x>> \in Seq(S) /\ DOMAIN <<x>> = {1} /\ <<x>>[1] = x /\ <<>> \in Seq(S) /\ DOMAIN <<>> = {}
  OBVIOUS
<1>2. ToSet(<<x>>) = {x}
  BY <1>1 DEF ToSet
<1>3. ToSet(<<>>) = {}
  BY <1>1 DEF ToSet
<1> QED  BY <1>1, <1>2, <1>3

LEMMA MembersAppend ==
    ASSUME NEW S, NEW s \in Seq(S), NEW x \in S
    PROVE  Append(s, x) \in Seq(S) /\ ToSet(Append(s, x)) = ToSet(s) \cup {x}
<1>1. Append(s, x) = s \o <<x>>
  BY AppendIsConcat
<1>2. <<x>> \in Seq(S) /\ ToSet(<<x>>) = {x}
  BY MembersOfOne
<1>3. s \o <<x>> \in Seq(S) /\ ToSet(s \o <<x>>) = ToSet(s) \cup ToSet(<<x>>)
  BY <1>2, Members
<1> QED  BY <1>1, <1>2, <1>3, Zenon

LEMMA MembersReverse ==
    ASSUME NEW S, NEW s \in Seq(S)
    PROVE  /\ Reverse(s) \in Seq(S) /\ DOMAIN Reverse(s) = DOMAIN s
           /\ ToSet(Reverse(s)) = ToSet(s)
<1> DEFINE r == Reverse(s)
<1>1. DOMAIN s = 1..Len(s) /\ Len(s) \in Nat /\ \A i \in 1..Len(s) : s[i] \in S
  OBVIOUS
<1>2. r = [i \in 1..Len(s) |-> s[(Len(s) - i) + 1]]
  BY DEF Reverse
<1> HIDE DEF r
<1>3. \A i \in 1..Len(s) : /\ (Len(s) - i) + 1 \in 1..Len(s)
                           /\ (Len(s) - ((Len(s) - i) + 1)) + 1 = i
  BY <1>1
<1>4. \A i \in 1..Len(s) : r[i] = s[(Len(s) - i) + 1] /\ s[i] = r[(Len(s) - i) + 1]
  BY <1>2, <1>3
<1>5. DOMAIN r = 1..Len(s)
  BY <1>2
<1>6. r \in [1..Len(s) -> S]
  <2>1. \A i \in 1..Len(s) : s[(Len(s) - i) + 1] \in S
    BY <1>1, <1>3
  <2> QED  BY <1>2, <2>1
<1>7. r \in Seq(S)
  BY <1>1, <1>6, SeqDef
<1>8. ToSet(r) \subseteq ToSet(s)
  BY <1>1, <1>3, <1>4, <1>5 DEF ToSet
<1>9. ToSet(s) \subseteq ToSet(r)
  BY <1>1, <1>3, <1>4, <1>5 DEF ToSet
<1> QED  BY <1>1, <1>5, <1>7, <1>8, <1>9 DEF r

\* A flattened list has the members of its lists.
LEMMA FlattenFacts ==
    ASSUME NEW S, NEW n \in Nat, NEW ss \in [1..n -> Seq(S)]
    PROVE  /\ FlattenSeq(ss) \in Seq(S)
           /\ ToSet(FlattenSeq(ss)) = UNION {ToSet(ss[j]) : j \in 1..n}
<1>1. ss \in Seq(Seq(S)) /\ Len(ss) = n
  OBVIOUS
<1>2. CASE n = 0
  <2>1. FlattenSeq(ss) = ss /\ ss = <<>>
    BY <1>1, <1>2 DEF FlattenSeq
  <2>2. 1..n = {} /\ DOMAIN <<>> = {} /\ <<>> \in Seq(S)
    BY <1>2
  <2>3. ToSet(<<>>) = {}
    BY <2>2 DEF ToSet
  <2> QED  BY <2>1, <2>2, <2>3
<1>3. CASE n # 0
  <2>1. PICK f : /\ f = [i \in 1..n |-> IF i = 1 THEN ss[i] ELSE f[i - 1] \o ss[i]]
                 /\ FlattenSeq(ss) = f[n]
    BY <1>1, <1>3, FlattenDef
  <2> DEFINE Fine(k) == f[k] \in Seq(S) /\ ToSet(f[k]) = UNION {ToSet(ss[j]) : j \in 1..k}
             T == {k \in Nat : k \in 1..n => Fine(k)}
  <2>2. 0 \in T
    OBVIOUS
  <2>3. ASSUME NEW k \in Nat, k \in T PROVE k + 1 \in T
    <3> SUFFICES ASSUME k + 1 \in 1..n PROVE Fine(k + 1)
      OBVIOUS
    <3>1. ss[k + 1] \in Seq(S)
      OBVIOUS
    <3>2. f[k + 1] = IF k + 1 = 1 THEN ss[k + 1] ELSE f[(k + 1) - 1] \o ss[k + 1]
      BY <2>1
    <3>3. CASE k = 0
      <4>1. f[k + 1] = ss[k + 1] /\ 1..(k + 1) = {k + 1}
        BY <3>2, <3>3
      <4> QED  BY <3>1, <4>1
    <3>4. CASE k # 0
      <4>1. k \in 1..n /\ k + 1 # 1 /\ (k + 1) - 1 = k
        BY <3>4
      <4>2. Fine(k)
        BY <2>3, <4>1
      <4>3. f[k + 1] = f[k] \o ss[k + 1]
        BY <3>2, <4>1
      <4>4. f[k + 1] \in Seq(S) /\ ToSet(f[k + 1]) = ToSet(f[k]) \cup ToSet(ss[k + 1])
        BY <3>1, <4>2, <4>3, Members
      <4>5. 1..(k + 1) = 1..k \cup {k + 1}
        OBVIOUS
      <4>6. UNION {ToSet(ss[j]) : j \in 1..(k + 1)} = (UNION {ToSet(ss[j]) : j \in 1..k}) \cup ToSet(ss[k + 1])
        BY <4>5
      <4> QED  BY <4>2, <4>4, <4>6
    <3> QED  BY <3>3, <3>4
  <2>4. n \in T
    <3> HIDE DEF T
    <3> QED  BY <2>2, <2>3, AllNat
  <2>5. Fine(n)
    BY <1>3, <2>4
  <2> QED  BY <2>1, <2>5
<1> QED  BY <1>2, <1>3

\* ... and a list of one list is that list.
LEMMA FlattenOne == ASSUME NEW ss, Len(ss) = 1 PROVE FlattenSeq(ss) = ss[1]
<1>0. Len(ss) \in Nat /\ Len(ss) # 0
  OBVIOUS
<1>1. PICK f : /\ f = [i \in 1..Len(ss) |-> IF i = 1 THEN ss[i] ELSE f[i - 1] \o ss[i]]
               /\ FlattenSeq(ss) = f[Len(ss)]
  BY <1>0, FlattenDef, Zenon
<1>2. 1 \in 1..Len(ss)
  OBVIOUS
<1>3. f[1] = ss[1]
  BY <1>1, <1>2
<1>4. f[Len(ss)] = f[1]
  OBVIOUS
<1> QED  BY <1>1, <1>3, <1>4

-----------------------------------------------------------------------------
(* Folds.  FoldLeft goes through the sets of indices, from the highest index   *)
(* of each; Folds tells the same by the values after each element.             *)

LEMMA MaxIs ==
    ASSUME NEW S \in SUBSET Nat, NEW n \in S, \A m \in S : m <= n
    PROVE  Max(S) = n
<1>1. n \in S /\ \A m \in S : n >= m
  OBVIOUS
<1>2. Max(S) \in S /\ \A m \in S : Max(S) >= m
  BY <1>1 DEF Max
<1>3. Max(S) \in Nat /\ n \in Nat /\ n >= Max(S) /\ Max(S) >= n
  BY <1>1, <1>2
<1> QED  BY <1>3

LEMMA MaxIn ==
    ASSUME NEW n \in Nat, NEW S \in SUBSET (1..n), S # {}
    PROVE  Max(S) \in S /\ \A m \in S : m <= Max(S)
<1> DEFINE T == {n - i : i \in S}
<1>1. T \subseteq Nat /\ T # {}
  <2>1. \A i \in S : n - i \in Nat
    OBVIOUS
  <2> QED  BY <2>1
<1>2. PICK k \in T : \A m \in T : k <= m
  BY <1>1, Least, Zenon
<1>3. PICK i \in S : k = n - i
  BY <1>2
<1>4. \A j \in S : n - i <= n - j
  BY <1>2, <1>3
<1>5. \A j \in S : j <= i
  BY <1>4
<1>6. Max(S) = i
  BY <1>5, MaxIs
<1> QED  BY <1>5, <1>6

LEMMA MaxOfInterval ==
    ASSUME NEW n \in Nat \ {0}
    PROVE  1..n # {} /\ Max(1..n) = n /\ (1..n) \ {n} = 1..(n - 1)
<1>1. n \in 1..n /\ \A m \in 1..n : m <= n
  OBVIOUS
<1>2. Max(1..n) = n
  BY <1>1, MaxIs
<1> QED  BY <1>2

\* What a fold over the sets of indices of seq computes.
SetFold(op, base, seq, f) ==
    \A s \in DOMAIN f : f[s] = IF s = {} THEN base ELSE op[<<f[s \ {Max(s)}], seq[Max(s)]>>]

LEMMA FoldExists ==
    ASSUME NEW A, NEW C, NEW op \in [A \X C -> A], NEW base \in A,
           NEW n \in Nat, NEW seq \in [1..n -> C]
    PROVE  \E f \in [SUBSET (1..n) -> A] : SetFold(op, base, seq, f)
<1> DEFINE Good(m, f) ==
               \A s \in SUBSET (1..m) :
                  f[s] = IF s = {} THEN base ELSE op[<<f[s \ {Max(s)}], seq[Max(s)]>>]
           Found(m) == \E f \in [SUBSET (1..m) -> A] : Good(m, f)
           T == {m \in Nat : m <= n => Found(m)}
<1>1. 0 \in T
  <2>1. 1..0 = {}
    OBVIOUS
  <2>2. [s \in SUBSET (1..0) |-> base] \in [SUBSET (1..0) -> A]
    OBVIOUS
  <2>3. Good(0, [s \in SUBSET (1..0) |-> base])
    BY <2>1
  <2> HIDE DEF Good
  <2> QED  BY <2>2, <2>3
<1>2. ASSUME NEW m \in Nat, m \in T PROVE m + 1 \in T
  <2> SUFFICES ASSUME m + 1 <= n PROVE Found(m + 1)
    <3> HIDE DEF Found
    <3> QED  OBVIOUS
  <2>0. Found(m)
    <3> HIDE DEF Found
    <3> QED  BY <1>2
  <2>1. PICK f \in [SUBSET (1..m) -> A] : Good(m, f)
    <3> HIDE DEF Good
    <3> QED  BY <2>0
  <2> DEFINE g == [s \in SUBSET (1..(m + 1)) |->
                      IF m + 1 \notin s THEN f[s] ELSE op[<<f[s \ {m + 1}], seq[m + 1]>>]]
  <2>2. \A s \in SUBSET (1..(m + 1)) : s \ {m + 1} \in SUBSET (1..m)
    OBVIOUS
  <2>3. seq[m + 1] \in C
    OBVIOUS
  <2>4. g \in [SUBSET (1..(m + 1)) -> A]
    <3>1. ASSUME NEW s \in SUBSET (1..(m + 1)) PROVE g[s] \in A
      <4>1. f[s \ {m + 1}] \in A
        BY <2>2
      <4>2. CASE m + 1 \in s
        BY <2>3, <4>1, <4>2
      <4>3. CASE m + 1 \notin s
        <5>1. s \ {m + 1} = s
          BY <4>3
        <5> QED  BY <4>1, <4>3, <5>1
      <4> QED  BY <4>2, <4>3
    <3> QED  BY <3>1
  <2>5. ASSUME NEW s \in SUBSET (1..m) PROVE s \in SUBSET (1..(m + 1)) /\ g[s] = f[s]
    OBVIOUS
  <2>6. Good(m + 1, g)
    <3> SUFFICES ASSUME NEW s \in SUBSET (1..(m + 1))
                 PROVE  g[s] = IF s = {} THEN base ELSE op[<<g[s \ {Max(s)}], seq[Max(s)]>>]
      OBVIOUS
    <3>1. CASE m + 1 \in s
      <4>1. Max(s) = m + 1 /\ s # {}
        <5>1. s \in SUBSET Nat /\ \A i \in s : i <= m + 1
          OBVIOUS
        <5> QED  BY <3>1, <5>1, MaxIs
      <4>2. g[s \ {m + 1}] = f[s \ {m + 1}]
        BY <2>2, <2>5
      <4>3. g[s] = op[<<f[s \ {m + 1}], seq[m + 1]>>]
        BY <3>1
      <4> HIDE DEF g
      <4> QED  BY <4>1, <4>2, <4>3
    <3>2. CASE m + 1 \notin s
      <4>1. s \in SUBSET (1..m)
        BY <3>2
      <4>2. f[s] = IF s = {} THEN base ELSE op[<<f[s \ {Max(s)}], seq[Max(s)]>>]
        BY <2>1, <4>1
      <4>3. g[s] = f[s] /\ g[s \ {Max(s)}] = f[s \ {Max(s)}]
        <5>1. s \ {Max(s)} \in SUBSET (1..m)
          BY <4>1
        <5> HIDE DEF g
        <5> QED  BY <2>5, <4>1, <5>1
      <4> HIDE DEF g
      <4> QED  BY <4>2, <4>3
    <3> QED  BY <3>1, <3>2
  <2> HIDE DEF g, Good
  <2> QED  BY <2>4, <2>6
<1>3. n \in T
  <2> HIDE DEF T
  <2> QED  BY <1>1, <1>2, AllNat
<1>4. Found(n)
  <2> HIDE DEF Found
  <2> QED  BY <1>3
<1>5. PICK f \in [SUBSET (1..n) -> A] : Good(n, f)
  <2> HIDE DEF Good
  <2> QED  BY <1>4
<1>6. SetFold(op, base, seq, f)
  BY <1>5 DEF SetFold
<1> QED  BY <1>6

\* The values that op has after each element of seq, from base.
Chain(op, base, seq, g) ==
    g[0] = base /\ \A k \in 1..Len(seq) : g[k] = op[<<g[k - 1], seq[k]>>]
Folds(op, base, seq, value) == \E g : Chain(op, base, seq, g) /\ g[Len(seq)] = value

LEMMA IterFolds ==
    ASSUME NEW A, NEW C, NEW op \in [A \X C -> A], NEW base \in A,
           NEW seq \in Seq(C), NEW h, h[{}] = base,
           \A k \in 1..Len(seq) :
               h[1..(k - 1)] \in A => h[1..k] = op[<<h[1..(k - 1)], seq[k]>>]
    PROVE  Folds(op, base, seq, h[1..Len(seq)])
<1> DEFINE T == {k \in Nat : k <= Len(seq) => h[1..k] \in A}
<1>0. Len(seq) \in Nat /\ 1..0 = {} /\ \A k \in 1..Len(seq) : seq[k] \in C
  OBVIOUS
<1>1. 0 \in T
  BY <1>0
<1>2. ASSUME NEW k \in Nat, k \in T PROVE k + 1 \in T
  <2> SUFFICES ASSUME k + 1 <= Len(seq) PROVE h[1..(k + 1)] \in A
    OBVIOUS
  <2>1. k + 1 \in 1..Len(seq) /\ (k + 1) - 1 = k /\ h[1..k] \in A
    BY <1>0, <1>2
  <2>2. h[1..(k + 1)] = op[<<h[1..k], seq[k + 1]>>]
    BY <2>1
  <2> QED  BY <1>0, <2>1, <2>2
<1>3. \A k \in 0..Len(seq) : h[1..k] \in A
  <2> HIDE DEF T
  <2>1. \A k \in Nat : k \in T
    BY <1>1, <1>2, AllNat
  <2> QED  BY <1>0, <2>1 DEF T
<1> DEFINE g == [k \in 0..Len(seq) |-> h[1..k]]
<1>4. Chain(op, base, seq, g)
  <2>1. g[0] = base
    BY <1>0
  <2>2. ASSUME NEW k \in 1..Len(seq) PROVE g[k] = op[<<g[k - 1], seq[k]>>]
    <3>1. k - 1 \in 0..Len(seq) /\ k \in 0..Len(seq)
      BY <1>0
    <3>2. h[1..k] = op[<<h[1..(k - 1)], seq[k]>>]
      BY <1>3, <3>1
    <3>3. g[k] = h[1..k] /\ g[k - 1] = h[1..(k - 1)]
      BY <3>1
    <3> QED  BY <3>2, <3>3
  <2> QED  BY <2>1, <2>2 DEF Chain
<1>5. g[Len(seq)] = h[1..Len(seq)]
  BY <1>0
<1>6. Folds(op, base, seq, h[1..Len(seq)])
  <2> HIDE DEF g
  <2> QED  BY <1>4, <1>5 DEF Folds
<1> QED  BY <1>6

LEMMA ChainType ==
    ASSUME NEW A, NEW C, NEW op \in [A \X C -> A], NEW base \in A,
           NEW seq \in Seq(C), NEW g, Chain(op, base, seq, g)
    PROVE  \A k \in 0..Len(seq) : g[k] \in A
<1> DEFINE T == {k \in Nat : k <= Len(seq) => g[k] \in A}
<1>0. Len(seq) \in Nat /\ \A k \in 1..Len(seq) : seq[k] \in C
  OBVIOUS
<1>1. g[0] = base /\ \A k \in 1..Len(seq) : g[k] = op[<<g[k - 1], seq[k]>>]
  BY DEF Chain
<1>2. 0 \in T
  BY <1>1
<1>3. ASSUME NEW k \in Nat, k \in T PROVE k + 1 \in T
  <2> SUFFICES ASSUME k + 1 <= Len(seq) PROVE g[k + 1] \in A
    OBVIOUS
  <2>1. k + 1 \in 1..Len(seq) /\ (k + 1) - 1 = k /\ g[k] \in A
    BY <1>0, <1>3
  <2>2. g[k + 1] = op[<<g[k], seq[k + 1]>>]
    BY <1>1, <2>1
  <2> QED  BY <1>0, <2>1, <2>2
<1> HIDE DEF T
<1>4. \A k \in Nat : k \in T
  BY <1>2, <1>3, AllNat
<1> QED  BY <1>0, <1>4 DEF T

LEMMA FoldsType ==
    ASSUME NEW A, NEW C, NEW op \in [A \X C -> A], NEW base \in A,
           NEW seq \in Seq(C), NEW v, Folds(op, base, seq, v)
    PROVE  v \in A
<1>1. PICK g : Chain(op, base, seq, g) /\ g[Len(seq)] = v
  BY DEF Folds
<1>2. \A k \in 0..Len(seq) : g[k] \in A
  BY <1>1, ChainType
<1> QED  BY <1>1, <1>2

LEMMA FoldsUnique ==
    ASSUME NEW op, NEW base, NEW seq, Len(seq) \in Nat, NEW v, NEW w,
           Folds(op, base, seq, v), Folds(op, base, seq, w)
    PROVE  v = w
<1>1. PICK g : Chain(op, base, seq, g) /\ g[Len(seq)] = v
  BY DEF Folds
<1>2. PICK h : Chain(op, base, seq, h) /\ h[Len(seq)] = w
  BY DEF Folds
<1> DEFINE T == {k \in Nat : k <= Len(seq) => g[k] = h[k]}
<1>3. 0 \in T
  BY <1>1, <1>2 DEF Chain
<1>4. ASSUME NEW k \in Nat, k \in T PROVE k + 1 \in T
  <2> SUFFICES ASSUME k + 1 <= Len(seq) PROVE g[k + 1] = h[k + 1]
    OBVIOUS
  <2>1. k + 1 \in 1..Len(seq) /\ (k + 1) - 1 = k /\ g[k] = h[k]
    BY <1>4
  <2> QED  BY <1>1, <1>2, <2>1 DEF Chain
<1>5. Len(seq) \in T
  <2> HIDE DEF T
  <2> QED  BY <1>3, <1>4, AllNat
<1> QED  BY <1>1, <1>2, <1>5

LEMMA FoldsNone == ASSUME NEW op, NEW base PROVE Folds(op, base, <<>>, base)
<1> DEFINE g == [k \in {0} |-> base]
<1>1. Chain(op, base, <<>>, g) /\ g[Len(<<>>)] = base
  BY DEF Chain
<1> QED  BY <1>1 DEF Folds

LEMMA FoldsOne == ASSUME NEW op, NEW base, NEW c PROVE Folds(op, base, <<c>>, op[<<base, c>>])
<1> DEFINE g == [k \in {0, 1} |-> IF k = 0 THEN base ELSE op[<<base, c>>]]
<1>1. Len(<<c>>) = 1 /\ <<c>>[1] = c
  OBVIOUS
<1>2. g[0] = base /\ g[1] = op[<<base, c>>]
  OBVIOUS
<1>3. \A k \in 1..1 : k = 1 /\ k - 1 = 0
  OBVIOUS
<1> HIDE DEF g
<1>4. Chain(op, base, <<c>>, g)
  BY <1>1, <1>2, <1>3 DEF Chain
<1> QED  BY <1>1, <1>2, <1>4 DEF Folds

\* A fold over two lists is one over the first and then one over the second.
LEMMA FoldsThen ==
    ASSUME NEW op, NEW S, NEW p \in Seq(S), NEW q \in Seq(S), NEW u, NEW v, NEW w,
           Folds(op, u, p, v), Folds(op, v, q, w)
    PROVE  Folds(op, u, p \o q, w)
<1>1. PICK g : Chain(op, u, p, g) /\ g[Len(p)] = v
  BY DEF Folds
<1>2. PICK h : Chain(op, v, q, h) /\ h[Len(q)] = w
  BY DEF Folds
<1> DEFINE c == p \o q
           f == [k \in 0..(Len(p) + Len(q)) |-> IF k <= Len(p) THEN g[k] ELSE h[k - Len(p)]]
<1>3. /\ Len(p) \in Nat /\ Len(q) \in Nat /\ Len(c) = Len(p) + Len(q)
      /\ \A i \in 1..(Len(p) + Len(q)) : c[i] = IF i <= Len(p) THEN p[i] ELSE q[i - Len(p)]
  BY ConcatProperties
<1> HIDE DEF c
<1>4. Chain(op, u, c, f)
  <2>1. f[0] = u
    BY <1>1, <1>3 DEF Chain
  <2>2. ASSUME NEW k \in 1..(Len(p) + Len(q)) PROVE f[k] = op[<<f[k - 1], c[k]>>]
    <3>0. k \in 0..(Len(p) + Len(q)) /\ k - 1 \in 0..(Len(p) + Len(q))
      BY <1>3
    <3>1. CASE k <= Len(p)
      <4>1. k \in 1..Len(p) /\ k - 1 <= Len(p)
        BY <1>3, <3>1
      <4>2. g[k] = op[<<g[k - 1], p[k]>>]
        BY <1>1, <4>1 DEF Chain
      <4>3. f[k] = g[k] /\ f[k - 1] = g[k - 1] /\ c[k] = p[k]
        BY <1>3, <3>0, <3>1, <4>1
      <4> QED  BY <4>2, <4>3
    <3>2. CASE k > Len(p)
      <4>1. /\ k - Len(p) \in 1..Len(q) /\ ~(k <= Len(p))
            /\ (k - Len(p)) - 1 = (k - 1) - Len(p)
        BY <1>3, <3>2
      <4>2. h[k - Len(p)] = op[<<h[(k - 1) - Len(p)], q[k - Len(p)]>>]
        BY <1>2, <4>1 DEF Chain
      <4>3. f[k] = h[k - Len(p)] /\ c[k] = q[k - Len(p)]
        BY <1>3, <3>0, <4>1
      <4>4. f[k - 1] = h[(k - 1) - Len(p)]
        <5>1. CASE k - 1 <= Len(p)
          <6>1. k - 1 = Len(p) /\ (k - 1) - Len(p) = 0
            BY <1>3, <3>2, <5>1
          <6>2. f[k - 1] = g[Len(p)]
            BY <3>0, <6>1
          <6>3. h[0] = v
            BY <1>2 DEF Chain
          <6> HIDE DEF f
          <6> QED  BY <1>1, <6>1, <6>2, <6>3
        <5>2. CASE ~(k - 1 <= Len(p))
          BY <3>0, <5>2
        <5> QED  BY <5>1, <5>2
      <4> HIDE DEF f
      <4> QED  BY <4>2, <4>3, <4>4
    <3> QED  BY <1>3, <3>1, <3>2
  <2> HIDE DEF f
  <2> QED  BY <1>3, <2>1, <2>2 DEF Chain
<1>5. f[Len(c)] = w
  <2>1. Len(c) \in 0..(Len(p) + Len(q))
    BY <1>3
  <2>2. CASE Len(q) = 0
    <3>1. Len(c) = Len(p) /\ f[Len(c)] = g[Len(p)]
      BY <1>3, <2>1, <2>2
    <3>2. h[0] = v
      BY <1>2 DEF Chain
    <3> HIDE DEF f
    <3> QED  BY <1>1, <1>2, <2>2, <3>1, <3>2
  <2>3. CASE Len(q) # 0
    <3>1. ~(Len(c) <= Len(p)) /\ Len(c) - Len(p) = Len(q)
      BY <1>3, <2>3
    <3>2. f[Len(c)] = h[Len(q)]
      BY <2>1, <3>1
    <3> HIDE DEF f
    <3> QED  BY <1>2, <3>2
  <2> QED  BY <2>2, <2>3
<1>6. Folds(op, u, c, w)
  <2> HIDE DEF f
  <2> QED  BY <1>4, <1>5 DEF Folds
<1> QED  BY <1>6 DEF c

\* A fold over a list of lists goes through the values at the end of each of them.
LEMMA FoldsFlatten ==
    ASSUME NEW op, NEW S, NEW n \in Nat, NEW ss \in [1..n -> Seq(S)], NEW v,
           \A k \in 1..n : Folds(op, v[k - 1], ss[k], v[k])
    PROVE  Folds(op, v[0], FlattenSeq(ss), v[n])
<1>1. ss \in Seq(Seq(S)) /\ Len(ss) = n
  OBVIOUS
<1>2. CASE n = 0
  <2>1. FlattenSeq(ss) = <<>>
    BY <1>1, <1>2 DEF FlattenSeq
  <2>2. Folds(op, v[0], <<>>, v[0])
    BY FoldsNone
  <2> QED  BY <1>2, <2>1, <2>2
<1>3. CASE n # 0
  <2>1. PICK f : /\ f = [i \in 1..n |-> IF i = 1 THEN ss[i] ELSE f[i - 1] \o ss[i]]
                 /\ FlattenSeq(ss) = f[n]
    BY <1>1, <1>3, FlattenDef
  <2> DEFINE T == {k \in Nat : k \in 1..n => f[k] \in Seq(S) /\ Folds(op, v[0], f[k], v[k])}
  <2>2. 0 \in T
    OBVIOUS
  <2>3. ASSUME NEW k \in Nat, k \in T PROVE k + 1 \in T
    <3> SUFFICES ASSUME k + 1 \in 1..n
                 PROVE  f[k + 1] \in Seq(S) /\ Folds(op, v[0], f[k + 1], v[k + 1])
      OBVIOUS
    <3>1. (k + 1) - 1 = k /\ ss[k + 1] \in Seq(S) /\ Folds(op, v[k], ss[k + 1], v[k + 1])
      <4>1. (k + 1) - 1 = k
        OBVIOUS
      <4>2. Folds(op, v[(k + 1) - 1], ss[k + 1], v[k + 1])
        OBVIOUS
      <4> QED  BY <4>1, <4>2
    <3>2. f[k + 1] = IF k + 1 = 1 THEN ss[k + 1] ELSE f[(k + 1) - 1] \o ss[k + 1]
      BY <2>1
    <3>3. CASE k = 0
      <4>1. f[k + 1] = ss[k + 1]
        BY <3>2, <3>3
      <4> QED  BY <3>1, <3>3, <4>1
    <3>4. CASE k # 0
      <4>1. k \in 1..n /\ k + 1 # 1
        BY <3>4
      <4>2. f[k] \in Seq(S) /\ Folds(op, v[0], f[k], v[k])
        BY <2>3, <4>1
      <4>3. f[k + 1] = f[k] \o ss[k + 1]
        BY <3>1, <3>2, <4>1
      <4>4. Folds(op, v[0], f[k] \o ss[k + 1], v[k + 1])
        BY <3>1, <4>2, FoldsThen
      <4>5. f[k] \o ss[k + 1] \in Seq(S)
        BY <3>1, <4>2, ConcatProperties
      <4> QED  BY <4>3, <4>4, <4>5
    <3> QED  BY <3>3, <3>4
  <2>4. n \in T
    <3> HIDE DEF T
    <3> QED  BY <2>2, <2>3, AllNat
  <2> QED  BY <1>3, <2>1, <2>4
<1> QED  BY <1>2, <1>3

-----------------------------------------------------------------------------
(* Lists and their ends.                                                       *)

LEMMA Pair ==
    ASSUME NEW S, NEW x \in S, NEW y \in S
    PROVE  <<x>> \in Seq(S) /\ <<x, y>> \in Seq(S) /\ <<x>> \o <<y>> = <<x, y>>
<1>1. /\ <<x>> \in Seq(S) /\ Len(<<x>>) = 1 /\ <<x>>[1] = x
      /\ <<y>> \in Seq(S) /\ Len(<<y>>) = 1 /\ <<y>>[1] = y
      /\ <<x, y>> \in Seq(S) /\ Len(<<x, y>>) = 2 /\ <<x, y>>[1] = x /\ <<x, y>>[2] = y
  OBVIOUS
<1> DEFINE c == <<x>> \o <<y>>
<1>2. c \in Seq(S) /\ Len(c) = 2 /\ c[1] = x /\ c[2] = y
  <2>1. /\ c \in Seq(S) /\ Len(c) = Len(<<x>>) + Len(<<y>>)
        /\ \A i \in 1..(Len(<<x>>) + Len(<<y>>)) :
              c[i] = IF i <= Len(<<x>>) THEN <<x>>[i] ELSE <<y>>[i - Len(<<x>>)]
    BY <1>1, ConcatProperties
  <2> HIDE DEF c
  <2> QED  BY <1>1, <2>1
<1> HIDE DEF c
<1>3. c = <<x, y>>
  <2>1. \A i \in 1..2 : i = 1 \/ i = 2
    OBVIOUS
  <2> QED  BY <1>1, <1>2, <2>1, SeqEqual
<1> QED  BY <1>1, <1>3 DEF c

LEMMA AppendEnds ==
    ASSUME NEW S, NEW s \in Seq(S), NEW x \in S
    PROVE  /\ Append(s, x) \in Seq(S) /\ Append(s, x) # <<>>
           /\ Front(Append(s, x)) = s /\ Last(Append(s, x)) = x
<1> DEFINE a == Append(s, x)
<1>1. /\ a \in Seq(S) /\ a # <<>> /\ Len(a) = Len(s) + 1 /\ Len(s) \in Nat
      /\ \A i \in 1..Len(s) : a[i] = s[i]
      /\ a[Len(s) + 1] = x
  BY AppendProperties
<1> HIDE DEF a
<1>2. Last(a) = x
  BY <1>1 DEF Last
<1>3. Front(a) = SubSeq(a, 1, Len(s))
  BY <1>1 DEF Front
<1>4. SubSeq(a, 1, Len(s)) = s
  <2>1. /\ SubSeq(a, 1, Len(s)) \in Seq(S) /\ Len(SubSeq(a, 1, Len(s))) = Len(s)
        /\ \A i \in 1..Len(s) : SubSeq(a, 1, Len(s))[i] = a[i]
    <3>1. \A i \in 1..Len(s) : a[i] \in S
      BY <1>1
    <3>2. /\ SubSeq(a, 1, Len(s)) \in Seq(S)
          /\ Len(SubSeq(a, 1, Len(s))) = IF 1 <= Len(s) THEN Len(s) - 1 + 1 ELSE 0
          /\ \A i \in 1..(Len(s) - 1 + 1) : SubSeq(a, 1, Len(s))[i] = a[1 + i - 1]
      BY <1>1, <3>1, SubSeqProperties
    <3> QED  BY <1>1, <3>2
  <2> QED  BY <1>1, <2>1, SeqEqual
<1> QED  BY <1>1, <1>2, <1>3, <1>4 DEF a

LEMMA FrontLast ==
    ASSUME NEW S, NEW s \in Seq(S), s # <<>>
    PROVE  Front(s) \in Seq(S) /\ Last(s) \in S /\ Append(Front(s), Last(s)) = s
<1>1. PICK t \in Seq(S), x \in S : s = Append(t, x)
  BY SequenceEmptyOrAppend
<1>2. Front(s) = t /\ Last(s) = x
  BY <1>1, AppendEnds
<1> QED  BY <1>1, <1>2

LEMMA ConcatAppend ==
    ASSUME NEW S, NEW s \in Seq(S), NEW t \in Seq(S), NEW x \in S
    PROVE  s \o Append(t, x) = Append(s \o t, x)
<1>1. /\ Append(t, x) = t \o <<x>> /\ Append(s \o t, x) = (s \o t) \o <<x>>
      /\ <<x>> \in Seq(S)
  <2>1. s \o t \in Seq(S)
    BY ConcatProperties
  <2> QED  BY <2>1, AppendIsConcat
<1> QED  BY <1>1, ConcatAssociative

LEMMA ConcatLast ==
    ASSUME NEW S, NEW s \in Seq(S), NEW t \in Seq(S), t # <<>>
    PROVE  s \o t \in Seq(S) /\ s \o t # <<>> /\ Last(s \o t) = Last(t)
<1>1. PICK f \in Seq(S), x \in S : t = Append(f, x)
  BY SequenceEmptyOrAppend
<1>2. s \o t = Append(s \o f, x) /\ s \o f \in Seq(S)
  BY <1>1, ConcatAppend, ConcatProperties
<1>3. Last(t) = x
  BY <1>1, AppendEnds
<1> HIDE DEF Last
<1>4. Append(s \o f, x) \in Seq(S) /\ Append(s \o f, x) # <<>> /\ Last(Append(s \o f, x)) = x
  <2>1. s \o f \in Seq(S)
    BY <1>2
  <2> QED  BY <2>1, AppendEnds
<1> QED  BY <1>2, <1>3, <1>4

LEMMA ConcatFirst ==
    ASSUME NEW S, NEW s \in Seq(S), NEW t \in Seq(S), s # <<>>
    PROVE  s \o t # <<>> /\ (s \o t)[1] = s[1]
<1>1. Len(s) \in Nat \ {0} /\ Len(t) \in Nat
  BY EmptySeq
<1>2. Len(s \o t) = Len(s) + Len(t) /\ (s \o t)[1] = s[1]
  BY <1>1, ConcatProperties
<1>3. Len(s \o t) # 0
  BY <1>1, <1>2
<1> QED  BY <1>2, <1>3, EmptySeq

\* The beginnings of a list, one longer than the other.
LEMMA Beginnings ==
    ASSUME NEW S, NEW s \in Seq(S), NEW k \in 1..Len(s)
    PROVE  /\ SubSeq(s, 1, k) = Append(SubSeq(s, 1, k - 1), s[k])
           /\ SubSeq(s, 1, k - 1) \in Seq(S) /\ SubSeq(s, 1, k) \in Seq(S) /\ s[k] \in S
<1>1. SubSeq(s, 1, k) = SubSeq(s, 1, k - 1) \o <<s[k]>>
  BY SubSeqRecursiveSecond
<1>2. SubSeq(s, 1, k - 1) \in Seq(S) /\ SubSeq(s, 1, k) \in Seq(S) /\ s[k] \in S
  OBVIOUS
<1> QED  BY <1>1, <1>2, AppendIsConcat

LEMMA NoBeginning == ASSUME NEW s PROVE SubSeq(s, 1, 0) = <<>>
BY SubSeqEmpty

LEMMA FunctionIsList ==
    ASSUME NEW X, NEW n \in Nat, NEW s \in [1..n -> X]
    PROVE  s \in Seq(X) /\ Len(s) = n
OBVIOUS

\* One after the other, lists begin like the first and end like the last.
LEMMA FlattenEnds ==
    ASSUME NEW S, NEW n \in Nat \ {0}, NEW ss \in [1..n -> Seq(S)],
           \A k \in 1..n : ss[k] # <<>>
    PROVE  /\ Len(FlattenSeq(ss)) >= Len(ss[1]) /\ FlattenSeq(ss) # <<>>
           /\ \A j \in 1..Len(ss[1]) : FlattenSeq(ss)[j] = ss[1][j]
           /\ Last(FlattenSeq(ss)) = Last(ss[n])
<1>0. Len(ss) = n /\ 1 \in 1..n /\ n \in 1..n /\ ss[1] \in Seq(S) /\ Len(ss[1]) \in Nat
  OBVIOUS
<1>1. PICK f : /\ f = [i \in 1..n |-> IF i = 1 THEN ss[i] ELSE f[i - 1] \o ss[i]]
               /\ FlattenSeq(ss) = f[n]
  BY <1>0, FlattenDef
<1> DEFINE Fine(k) == /\ f[k] \in Seq(S) /\ f[k] # <<>> /\ Len(f[k]) >= Len(ss[1])
                      /\ \A j \in 1..Len(ss[1]) : f[k][j] = ss[1][j]
                      /\ Last(f[k]) = Last(ss[k])
           T == {k \in Nat : k \in 1..n => Fine(k)}
<1>2. 0 \in T
  OBVIOUS
<1>3. ASSUME NEW k \in Nat, k \in T PROVE k + 1 \in T
  <2> SUFFICES ASSUME k + 1 \in 1..n PROVE Fine(k + 1)
    OBVIOUS
  <2>1. ss[k + 1] \in Seq(S) /\ ss[k + 1] # <<>>
    OBVIOUS
  <2>2. f[k + 1] = IF k + 1 = 1 THEN ss[k + 1] ELSE f[(k + 1) - 1] \o ss[k + 1]
    BY <1>1
  <2>3. CASE k = 0
    <3>1. k + 1 = 1
      BY <2>3
    <3>2. f[1] = ss[1] /\ Fine(1)
      BY <1>0, <2>1, <2>2, <3>1
    <3> HIDE DEF Fine
    <3> QED  BY <3>1, <3>2
  <2>4. CASE k # 0
    <3>1. k \in 1..n /\ k + 1 # 1 /\ (k + 1) - 1 = k
      BY <2>4
    <3>2. Fine(k)
      BY <1>3, <3>1
    <3>3. f[k + 1] = f[k] \o ss[k + 1]
      BY <2>2, <3>1
    <3> DEFINE p == f[k]
               q == ss[k + 1]
               r == f[k + 1]
    <3>4. p \in Seq(S) /\ q \in Seq(S) /\ q # <<>> /\ r = p \o q /\ Len(p) >= Len(ss[1])
          /\ \A j \in 1..Len(ss[1]) : p[j] = ss[1][j]
      BY <2>1, <3>2, <3>3
    <3> HIDE DEF p, q, r
    <3>5. r \in Seq(S) /\ r # <<>> /\ Last(r) = Last(q)
      BY <3>4, ConcatLast
    <3>6. Len(p) \in Nat /\ Len(q) \in Nat
      BY <3>4
    <3>7. /\ Len(r) = Len(p) + Len(q)
          /\ \A j \in 1..(Len(p) + Len(q)) : r[j] = IF j <= Len(p) THEN p[j] ELSE q[j - Len(p)]
      BY <3>4, ConcatProperties
    <3>8. Len(r) >= Len(ss[1]) /\ \A j \in 1..Len(ss[1]) : r[j] = ss[1][j]
      BY <1>0, <3>4, <3>6, <3>7
    <3> QED  BY <3>5, <3>8 DEF q, r
  <2> QED  BY <2>3, <2>4
<1> HIDE DEF T
<1>4. \A k \in Nat : k \in T
  BY <1>2, <1>3, AllNat
<1>5. Fine(n)
  BY <1>0, <1>4 DEF T
<1> QED  BY <1>1, <1>5

LEMMA SplitAt ==
    ASSUME NEW S, NEW p \in Seq(S), NEW q \in Seq(S)
    PROVE  /\ SubSeq(p \o q, 1, Len(p)) = p
           /\ SubSeq(p \o q, Len(p) + 1, Len(p) + Len(q)) = q
<1> DEFINE m == Len(p)
           n == Len(q)
           c == p \o q
<1>1. m \in Nat /\ n \in Nat /\ (\A i \in 1..m : p[i] \in S) /\ (\A i \in 1..n : q[i] \in S)
  OBVIOUS
<1>2. c \in Seq(S) /\ \A i \in 1..(m + n) : c[i] = IF i <= m THEN p[i] ELSE q[i - m]
  BY ConcatProperties
<1> HIDE DEF c, m, n
<1>3. \A i \in 1..m : c[i] = p[i]
  BY <1>1, <1>2
<1>4. \A i \in 1..n : c[m + i] = q[i]
  <2> TAKE i \in 1..n
  <2>1. m + i \in 1..(m + n) /\ ~(m + i <= m) /\ (m + i) - m = i
    BY <1>1
  <2> QED  BY <1>2, <2>1
<1>5. SubSeq(c, 1, m) = p
  <2>1. 1 \in Int /\ m \in Int /\ \A i \in 1..m : c[i] \in S
    BY <1>1, <1>3
  <2>2. /\ SubSeq(c, 1, m) \in Seq(S) /\ Len(SubSeq(c, 1, m)) = IF 1 <= m THEN (m - 1) + 1 ELSE 0
        /\ \A i \in 1..((m - 1) + 1) : SubSeq(c, 1, m)[i] = c[(1 + i) - 1]
    BY <2>1, SubSeqProperties
  <2> DEFINE t == SubSeq(c, 1, m)
  <2> HIDE DEF t
  <2>3. t \in Seq(S) /\ Len(t) = m /\ \A i \in 1..m : t[i] = p[i]
    BY <1>1, <1>3, <2>2 DEF t
  <2>4. t = p
    BY <2>3, SeqEqual DEF m
  <2> QED  BY <2>4 DEF t
<1>6. SubSeq(c, m + 1, m + n) = q
  <2> DEFINE t == SubSeq(c, m + 1, m + n)
  <2>1. m + 1 \in Int /\ m + n \in Int /\ \A i \in (m + 1)..(m + n) : c[i] \in S
    <3>1. ASSUME NEW i \in (m + 1)..(m + n) PROVE c[i] \in S
      <4>1. i - m \in 1..n /\ m + (i - m) = i
        BY <1>1
      <4>2. c[m + (i - m)] = q[i - m] /\ q[i - m] \in S
        BY <1>1, <1>4, <4>1
      <4> QED  BY <4>1, <4>2
    <3> QED  BY <1>1, <3>1
  <2>2. /\ t \in Seq(S) /\ Len(t) = IF m + 1 <= m + n THEN ((m + n) - (m + 1)) + 1 ELSE 0
        /\ \A i \in 1..(((m + n) - (m + 1)) + 1) : t[i] = c[((m + 1) + i) - 1]
    BY <2>1, SubSeqProperties
  <2> HIDE DEF t
  <2>3. ((m + n) - (m + 1)) + 1 = n /\ (m + 1 <= m + n \/ n = 0) /\ \A i \in 1..n : ((m + 1) + i) - 1 = m + i
    BY <1>1
  <2>4. t \in Seq(S) /\ Len(t) = n /\ \A i \in 1..n : t[i] = q[i]
    BY <1>1, <1>4, <2>2, <2>3
  <2>5. t = q
    BY <2>4, SeqEqual DEF n
  <2> QED  BY <2>5 DEF t
<1> QED  BY <1>5, <1>6 DEF c, m, n
================================================================================
