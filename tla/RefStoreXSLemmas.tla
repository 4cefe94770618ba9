-------------------------- MODULE RefStoreXSLemmas --------------------------
(***************************************************************************)
(* The shape of RefStoreXS's state and its counts.  The tables and the     *)
(* actions hold what they can hold, every task in todo is one the code can *)
(* still do, and every reference is counted: the entries, what the program *)
(* and DESTROY hold, and the decrements that wait in todo.  Before that,   *)
(* lemmas about the operators RefStoreXS and its invariant are built from: *)
(* deletion from an action list, what waits in todo, and counting it.      *)
(***************************************************************************)
EXTENDS RefStoreXSInvariant, FiniteSetTheorems, TLAPS

-----------------------------------------------------------------------------
(* Deleted is a recursion over the list.  Induction is by the least number  *)
(* that refutes what is to be shown.                                        *)

\* A set of numbers that is not empty has a least one.
LEMMA LeastNumber ==
  ASSUME NEW T, T \subseteq Nat, T # {}
  PROVE  \E x \in T : \A y \in T : x <= y
<1> DEFINE F == {0..k : k \in T}
           R == StrictSubsetOrdering(Nat)
<1>1. F \subseteq FiniteSubsetsOf(Nat)
  <2> SUFFICES ASSUME NEW k \in T PROVE (0..k) \in FiniteSubsetsOf(Nat)
    OBVIOUS
  <2> QED BY FS_Interval DEF FiniteSubsetsOf
<1>2. IsWellFoundedOn(R, FiniteSubsetsOf(Nat))
  BY FS_StrictSubsetOrderingWellFounded, Zenon
<1>3. \E X \in F : \A Y \in F : ~ (<<Y, X>> \in R)
  <2> F # {} OBVIOUS
  <2> HIDE DEF F, R
  <2> QED BY <1>1, <1>2, WFMin, Zenon
<1>4. PICK x \in T : \A Y \in F : ~ (<<Y, 0..x>> \in R)
  BY <1>3
<1>5. ASSUME NEW y \in T, y < x PROVE FALSE
  <2>1. 0..y \in F OBVIOUS
  <2>2. (0..y) \subseteq (0..x) /\ (0..y) # (0..x) /\ (0..x) \subseteq Nat
    <3>1. x \in 0..x /\ x \notin 0..y BY <1>5
    <3> QED BY <1>5, <3>1
  <2>3. <<0..y, 0..x>> \in R
    BY <2>2 DEF StrictSubsetOrdering
  <2> QED BY <1>4, <2>1, <2>3
<1> QED BY <1>5

\* f is the function Deleted(q, A) computes, for the first k elements of q.
Deletes(q, A, k, f) ==
  f = [n \in 0..k |-> IF n = 0 THEN <<>>
                      ELSE IF q[n] \in A THEN f[n - 1] ELSE Append(f[n - 1], q[n])]

\* What that says of each number.
DeletesEach(q, A, k, f) ==
  \A n \in 0..k : f[n] = IF n = 0 THEN <<>>
                         ELSE IF q[n] \in A THEN f[n - 1] ELSE Append(f[n - 1], q[n])

LEMMA DeletesAt ==
  ASSUME NEW q, NEW A, NEW k \in Nat, NEW f, Deletes(q, A, k, f)
  PROVE  DeletesEach(q, A, k, f)
<1> DEFINE g == [n \in 0..k |-> IF n = 0 THEN <<>>
                      ELSE IF q[n] \in A THEN f[n - 1] ELSE Append(f[n - 1], q[n])]
<1>1. f = g
  BY DEF Deletes
<1>2. \A n \in 0..k : g[n] = IF n = 0 THEN <<>>
                             ELSE IF q[n] \in A THEN f[n - 1] ELSE Append(f[n - 1], q[n])
  OBVIOUS
<1> HIDE DEF g
<1> QED BY <1>1, <1>2 DEF DeletesEach

\* There is such a function.
LEMMA DeletesExists ==
  ASSUME NEW q, Len(q) \in Nat, NEW A
  PROVE  \A k \in 0..Len(q) : \E f : Deletes(q, A, k, f)
<1> DEFINE T == {k \in 0..Len(q) : ~ \E f : Deletes(q, A, k, f)}
<1> SUFFICES ASSUME T # {} PROVE FALSE
  OBVIOUS
<1>0. T \subseteq Nat OBVIOUS
<1>1. PICK k \in T : \A y \in T : k <= y
  <2> HIDE DEF T
  <2> QED BY LeastNumber, <1>0
<1>2. CASE k = 0
  <2> DEFINE f == [n \in 0..0 |-> <<>>]
  <2>1. Deletes(q, A, 0, f) BY DEF Deletes
  <2> QED BY <1>2, <2>1
<1>3. CASE k # 0
  <2>1. k - 1 \in 0..Len(q) /\ k - 1 \notin T /\ k \in Nat \ {0} BY <1>1, <1>3
  <2>2. PICK f : Deletes(q, A, k - 1, f) BY <2>1
  <2> DEFINE g == [n \in 0..k |->
                     IF n = k THEN (IF q[n] \in A THEN f[n - 1] ELSE Append(f[n - 1], q[n]))
                     ELSE f[n]]
             h == [n \in 0..k |-> IF n = 0 THEN <<>>
                     ELSE IF q[n] \in A THEN g[n - 1] ELSE Append(g[n - 1], q[n])]
  <2>3. ASSUME NEW n \in 0..k PROVE g[n] = h[n]
    <3>1. \A i \in 0..(k - 1) : f[i] = IF i = 0 THEN <<>>
                 ELSE IF q[i] \in A THEN f[i - 1] ELSE Append(f[i - 1], q[i])
      <4>1. k - 1 \in Nat BY <2>1
      <4>2. DeletesEach(q, A, k - 1, f) BY <4>1, <2>2, DeletesAt, Zenon
      <4> QED BY <4>2 DEF DeletesEach
    <3> QED BY <2>1, <3>1
  <2>4. g = h BY <2>3
  <2>5. Deletes(q, A, k, g) BY <2>4 DEF Deletes
  <2> QED BY <2>5
<1> QED BY <1>2, <1>3

\* Deleted(q, A) has what q has and A has not, once if q has it once.
LEMMA DeletedProps ==
  ASSUME NEW S, NEW q \in Seq(S), NEW A
  PROVE  /\ Deleted(q, A) \in Seq(S)
         /\ ToSet(Deleted(q, A)) = ToSet(q) \ A
         /\ NoDuplicate(q) => NoDuplicate(Deleted(q, A))
<1>1. PICK f : Deletes(q, A, Len(q), f) /\ Deleted(q, A) = f[Len(q)]
  <2> DEFINE f == CHOOSE f : Deletes(q, A, Len(q), f)
  <2>0. Len(q) \in Nat /\ Len(q) \in 0..Len(q) OBVIOUS
  <2>1. Deletes(q, A, Len(q), f) BY <2>0, DeletesExists, Zenon
  <2>2. Deleted(q, A) = f[Len(q)] BY Zenon DEF Deleted, Deletes
  <2> QED BY <2>1, <2>2
<1> DEFINE Good(k) == /\ f[k] \in Seq(S)
                      /\ ToSet(f[k]) = {q[j] : j \in 1..k} \ A
                      /\ NoDuplicate(q) => NoDuplicate(f[k])
           T == {k \in 0..Len(q) : ~ Good(k)}
<1>2. \A n \in 0..Len(q) : f[n] = IF n = 0 THEN <<>>
           ELSE IF q[n] \in A THEN f[n - 1] ELSE Append(f[n - 1], q[n])
  <2> Len(q) \in Nat OBVIOUS
  <2>1. DeletesEach(q, A, Len(q), f) BY <1>1, DeletesAt, Zenon
  <2> QED BY <2>1 DEF DeletesEach
<1>3. Good(0)
  <2>1. f[0] = <<>>
    <3> 0 \in 0..Len(q) OBVIOUS
    <3> QED BY <1>2
  <2>2. f[0] \in Seq(S) /\ ToSet(f[0]) = {} /\ NoDuplicate(f[0])
    BY <2>1 DEF ToSet, NoDuplicate
  <2> QED BY <2>2
<1>4. ASSUME NEW k \in 0..Len(q), k # 0, Good(k - 1) PROVE Good(k)
  <2>0. k \in Nat \ {0} /\ q[k] \in S /\ k \in 1..Len(q)
    BY <1>4
  <2>1. {q[j] : j \in 1..k} = {q[j] : j \in 1..(k - 1)} \cup {q[k]}
    <3>1. 1..k = 1..(k - 1) \cup {k} BY <2>0
    <3> QED BY <3>1
  <2>2. CASE q[k] \in A
    BY <1>2, <1>4, <2>0, <2>1, <2>2
  <2>3. CASE q[k] \notin A
    <3> DEFINE g == f[k - 1]
    <3>1. f[k] = Append(g, q[k]) /\ g \in Seq(S)
      BY <1>2, <1>4, <2>0, <2>3
    <3>2. ToSet(g) = {q[j] : j \in 1..(k - 1)} \ A /\ (NoDuplicate(q) => NoDuplicate(g))
      BY <1>4
    <3> HIDE DEF g
    <3>3. /\ Len(f[k]) = Len(g) + 1 /\ Len(g) \in Nat
          /\ f[k][Len(g) + 1] = q[k]
          /\ \A i \in 1..Len(g) : f[k][i] = g[i]
      BY <3>1, <2>0
    <3>4. ToSet(f[k]) = ToSet(g) \cup {q[k]}
      BY <3>1, <3>3, <2>0 DEF ToSet
    <3>5. ASSUME NoDuplicate(q) PROVE NoDuplicate(f[k])
      <4>1. q[k] \notin ToSet(g)
        BY <3>2, <3>5, <2>0 DEF NoDuplicate
      <4>2. \A i \in 1..Len(g) : g[i] # q[k]
        BY <4>1, <3>1 DEF ToSet
      <4>3. NoDuplicate(g)
        BY <3>2, <3>5
      <4> QED BY <3>3, <4>2, <4>3 DEF NoDuplicate
    <3> QED BY <3>1, <3>2, <3>4, <3>5, <2>0, <2>1, <2>3
  <2> QED BY <2>2, <2>3
<1>5. T = {}
  <2> SUFFICES ASSUME T # {} PROVE FALSE
    OBVIOUS
  <2>1. T \subseteq Nat OBVIOUS
  <2>2. PICK k \in T : \A y \in T : k <= y
    <3> HIDE DEF T
    <3> QED BY LeastNumber, <2>1
  <2>3. k # 0 /\ k \in 0..Len(q) /\ ~ Good(k)
    BY <2>2, <1>3
  <2>4. k - 1 \in 0..Len(q) /\ k - 1 \notin T
    <3>1. k - 1 \in 0..Len(q) /\ ~ (k <= k - 1)
      BY <2>3
    <3> HIDE DEF T
    <3> QED BY <2>2, <3>1
  <2>5. Good(k - 1)
    BY <2>4
  <2> HIDE DEF Good
  <2> QED BY <1>4, <2>3, <2>5
<1>6. Good(Len(q))
  <2> Len(q) \in 0..Len(q) OBVIOUS
  <2> QED BY <1>5
<1> QED BY <1>1, <1>6 DEF ToSet

-----------------------------------------------------------------------------
(* What waits in todo, and how often.                                       *)

LEMMA PlacesFinite ==
  ASSUME NEW q, Len(q) \in Nat, NEW X
  PROVE  /\ IsFiniteSet(Places(q, X)) /\ Places(q, X) \subseteq 1..Len(q)
         /\ Occurs(q, X) \in Nat
         /\ Occurs(q, X) = 0 <=> Places(q, X) = {}
<1>1. Places(q, X) \subseteq 1..Len(q)
  BY DEF Places
<1>2. IsFiniteSet(1..Len(q))
  BY FS_Interval
<1>3. IsFiniteSet(Places(q, X))
  BY <1>1, <1>2, FS_Subset
<1> QED BY <1>1, <1>3, FS_CardinalityType, FS_EmptySet DEF Occurs

\* What is there is counted.
LEMMA OccursIn ==
  ASSUME NEW T, NEW q \in Seq(T), NEW X
  PROVE  /\ Occurs(q, X) \in Nat
         /\ Occurs(q, X) = 0 <=> ToSet(q) \cap X = {}
<1>1. Len(q) \in Nat OBVIOUS
<1>2. Places(q, X) = {} <=> ToSet(q) \cap X = {}
  <2>1. ASSUME NEW d \in Places(q, X) PROVE ToSet(q) \cap X # {}
    <3>1. Len(q) + 1 - d \in 1..Len(q) /\ q[Len(q) + 1 - d] \in X
      BY <1>1 DEF Places
    <3> QED BY <3>1 DEF ToSet
  <2>2. ASSUME NEW x \in ToSet(q) \cap X PROVE Places(q, X) # {}
    <3>1. PICK p \in 1..Len(q) : q[p] = x
      BY DEF ToSet
    <3>2. Len(q) + 1 - p \in 1..Len(q) /\ Len(q) + 1 - (Len(q) + 1 - p) = p
      BY <1>1
    <3>3. Len(q) + 1 - p \in Places(q, X)
      BY <3>1, <3>2 DEF Places
    <3> QED BY <3>3
  <2> QED BY <2>1, <2>2
<1> QED BY <1>1, <1>2, PlacesFinite

\* A sequence put in front adds its own.
LEMMA OccursConcat ==
  ASSUME NEW T, NEW s \in Seq(T), NEW q \in Seq(T), NEW X
  PROVE  Occurs(s \o q, X) = Occurs(s, X) + Occurs(q, X)
<1> DEFINE up(d) == d + Len(q)
           U == {d \in (Len(q) + 1)..(Len(s) + Len(q)) : d - Len(q) \in Places(s, X)}
           f == [d \in Places(s, X) |-> d + Len(q)]
<1>1. /\ Len(q) \in Nat /\ Len(s) \in Nat /\ Len(s \o q) = Len(s) + Len(q)
      /\ \A p \in 1..Len(s) : (s \o q)[p] = s[p]
      /\ \A p \in 1..Len(q) : (s \o q)[Len(s) + p] = q[p]
  OBVIOUS
<1>2. Places(s \o q, X) = Places(q, X) \cup U
  <2>1. ASSUME NEW d \in 1..Len(q) PROVE d \in Places(s \o q, X) <=> d \in Places(q, X)
    <3>1. Len(q) + 1 - d \in 1..Len(q) /\ Len(s) + (Len(q) + 1 - d) = Len(s \o q) + 1 - d
          /\ d \in 1..Len(s \o q)
      BY <1>1
    <3> QED BY <1>1, <3>1 DEF Places
  <2>2. ASSUME NEW d \in (Len(q) + 1)..(Len(s) + Len(q))
        PROVE  d \in Places(s \o q, X) <=> d \in U
    <3>1. /\ d - Len(q) \in 1..Len(s) /\ Len(s) + 1 - (d - Len(q)) \in 1..Len(s)
          /\ Len(s) + 1 - (d - Len(q)) = Len(s \o q) + 1 - d /\ d \in 1..Len(s \o q)
      BY <1>1
    <3>2. (s \o q)[Len(s \o q) + 1 - d] = s[Len(s) + 1 - (d - Len(q))]
      BY <1>1, <3>1
    <3> QED BY <3>1, <3>2 DEF Places
  <2>3. /\ Places(s \o q, X) \subseteq 1..Len(q) \cup (Len(q) + 1)..(Len(s) + Len(q))
        /\ Places(q, X) \subseteq 1..Len(q)
        /\ 1..Len(q) \cap (Len(q) + 1)..(Len(s) + Len(q)) = {}
    BY <1>1 DEF Places
  <2> QED BY <2>1, <2>2, <2>3
<1>3. IsFiniteSet(Places(q, X)) /\ IsFiniteSet(Places(s, X)) /\ Places(s, X) \subseteq 1..Len(s)
  BY <1>1, PlacesFinite
<1>4. IsFiniteSet(U) /\ Cardinality(U) = Cardinality(Places(s, X))
  <2>1. f \in Bijection(Places(s, X), U)
    <3>1. ASSUME NEW d \in Places(s, X) PROVE f[d] \in U
      <4>1. d \in 1..Len(s) /\ d + Len(q) - Len(q) = d
        BY <1>1, <1>3
      <4> QED BY <1>1, <4>1
    <3>2. \A d, e \in Places(s, X) : f[d] = f[e] => d = e
      BY <1>1, <1>3
    <3>3. ASSUME NEW u \in U PROVE \E d \in Places(s, X) : f[d] = u
      <4>1. u - Len(q) \in Places(s, X) /\ u - Len(q) + Len(q) = u
        BY <1>1
      <4> QED BY <4>1
    <3>4. f \in [Places(s, X) -> U]
      BY <3>1
    <3> HIDE DEF U, f
    <3> QED BY <3>2, <3>3, <3>4 DEF Bijection, Injection, Surjection, IsInjective
  <2> HIDE DEF U, f
  <2> QED BY <1>3, <2>1, FS_Bijection DEF ExistsBijection
<1>5. Places(q, X) \cap U = {}
  BY <1>1 DEF Places
<1>6. Cardinality(Places(q, X)) \in Nat /\ Cardinality(Places(s, X)) \in Nat
  BY <1>3, FS_CardinalityType
<1> HIDE DEF U
<1>7. Cardinality(Places(q, X) \cup U)
        = Cardinality(Places(q, X)) + Cardinality(U) - Cardinality(Places(q, X) \cap U)
  BY <1>3, <1>4, FS_Union
<1>8. Cardinality(Places(q, X) \cap U) = 0
  BY <1>5, FS_EmptySet
<1>9. Cardinality(Places(s \o q, X)) = Cardinality(Places(s, X)) + Cardinality(Places(q, X))
  BY <1>2, <1>4, <1>6, <1>7, <1>8
<1> QED BY <1>9 DEF Occurs

\* A sequence of one.
LEMMA OccursOne ==
  ASSUME NEW x, NEW X
  PROVE  Occurs(<<x>>, X) = One(x \in X) /\ Occurs(<<>>, X) = 0
<1>1. Places(<<>>, X) = {}
  BY DEF Places
<1>2. Places(<<x>>, X) = IF x \in X THEN {1} ELSE {}
  BY DEF Places
<1> QED BY <1>1, <1>2, FS_EmptySet, FS_Singleton DEF Occurs, One

LEMMA SetOne ==
  ASSUME NEW x
  PROVE  ToSet(<<x>>) = {x} /\ ToSet(<<>>) = {}
BY DEF ToSet

LEMMA SetConcat ==
  ASSUME NEW T, NEW s \in Seq(T), NEW q \in Seq(T)
  PROVE  /\ s \o q \in Seq(T)
         /\ ToSet(s \o q) = ToSet(s) \cup ToSet(q)
         /\ s # <<>> => Head(s \o q) = Head(s) /\ s \o q # <<>>
         /\ s = <<>> => s \o q = q
<1>1. /\ Len(q) \in Nat /\ Len(s) \in Nat /\ Len(s \o q) = Len(s) + Len(q)
      /\ \A p \in 1..Len(s) : (s \o q)[p] = s[p]
      /\ \A p \in 1..Len(q) : (s \o q)[Len(s) + p] = q[p]
      /\ s \o q \in Seq(T)
  OBVIOUS
<1>2. ToSet(s \o q) \subseteq ToSet(s) \cup ToSet(q)
  <2> SUFFICES ASSUME NEW p \in 1..Len(s \o q) PROVE (s \o q)[p] \in ToSet(s) \cup ToSet(q)
    BY <1>1 DEF ToSet
  <2>1. CASE p \in 1..Len(s) BY <1>1, <2>1 DEF ToSet
  <2>2. CASE p \notin 1..Len(s)
    <3>1. p - Len(s) \in 1..Len(q) /\ Len(s) + (p - Len(s)) = p BY <1>1, <2>2
    <3> QED BY <1>1, <3>1 DEF ToSet
  <2> QED BY <2>1, <2>2
<1>3. ToSet(s) \subseteq ToSet(s \o q)
  BY <1>1 DEF ToSet
<1>4. ToSet(q) \subseteq ToSet(s \o q)
  <2> SUFFICES ASSUME NEW p \in 1..Len(q) PROVE q[p] \in ToSet(s \o q)
    BY <1>1 DEF ToSet
  <2>1. Len(s) + p \in 1..Len(s \o q) BY <1>1
  <2> QED BY <1>1, <2>1 DEF ToSet
<1> QED BY <1>1, <1>2, <1>3, <1>4

LEMMA ConcatAssoc ==
  ASSUME NEW T, NEW s \in Seq(T), NEW t \in Seq(T), NEW u \in Seq(T)
  PROVE  (s \o t) \o u = s \o (t \o u)
OBVIOUS

\* An order in which to go through a finite set.
LEMMA OrderProps ==
  ASSUME NEW S, IsFiniteSet(S), NEW s \in SetToSeqs(S)
  PROVE  s \in Seq(S) /\ Len(s) = Cardinality(S) /\ \A i \in 1..Len(s) : s[i] \in S
<1>1. Cardinality(S) \in Nat
  BY FS_CardinalityType
<1>2. s \in [1..Cardinality(S) -> S]
  BY DEF SetToSeqs
<1> QED BY <1>1, <1>2

LEMMA PairConcat ==
  ASSUME NEW T, NEW x \in T, NEW y \in T
  PROVE <<x, y>> = <<x>> \o <<y>>
<1> DEFINE s == <<x>> \o <<y>>
           p == <<x,y>>
<1>1. s \in Seq(T) /\ Len(s) = 2 /\ s[1] = x /\ s[2] = y
  OBVIOUS
<1>2. p \in Seq(T) /\ Len(p) = 2 /\ p[1] = x /\ p[2] = y
  OBVIOUS
<1> HIDE DEF s, p
<1>3. \A i \in 1..Len(s) : s[i] = p[i]
  BY <1>1, <1>2
<1>4. s = p
  BY <1>1, <1>2, <1>3
<1> QED BY <1>4 DEF s, p

LEMMA TripleConcat ==
  ASSUME NEW T, NEW x \in T, NEW y \in T, NEW z \in T
  PROVE <<x, y, z>> = <<x, y>> \o <<z>>
<1> DEFINE s == <<x, y>> \o <<z>>
           p == <<x, y, z>>
<1>1. s \in Seq(T) /\ Len(s) = 3 /\ s[1] = x /\ s[2] = y /\ s[3] = z
  OBVIOUS
<1>2. p \in Seq(T) /\ Len(p) = 3 /\ p[1] = x /\ p[2] = y /\ p[3] = z
  OBVIOUS
<1> HIDE DEF s, p
<1>3. \A i \in 1..Len(s) : s[i] = p[i]
  BY <1>1, <1>2
<1>4. s = p
  BY <1>1, <1>2, <1>3
<1> QED BY <1>4 DEF s, p

\* A sequence of one or none.
LEMMA MaybeOne ==
  ASSUME NEW T, NEW x \in T, NEW b
  PROVE  LET e == IF b THEN <<>> ELSE <<x>>
         IN  e \in Seq(T) /\ ToSet(e) = IF b THEN {} ELSE {x}
<1> DEFINE e == IF b THEN <<>> ELSE <<x>>
<1>1. CASE b
  <2>1. e = <<>>
    BY <1>1
  <2> HIDE DEF e
  <2>2. e \in Seq(T) /\ ToSet(e) = {}
    <3>1. ToSet(<<>>) = {}
      BY DEF ToSet
    <3> QED BY <2>1, <3>1
  <2>3. e \in Seq(T) /\ ToSet(e) = IF b THEN {} ELSE {x}
    BY <1>1, <2>2
  <2> QED BY <2>3 DEF e
<1>2. CASE ~ b
  <2>1. e = <<x>>
    BY <1>2
  <2> HIDE DEF e
  <2>2. e \in Seq(T)
    BY <2>1
  <2>3. ToSet(e) = {x}
    BY <2>1, SetOne, Zenon
  <2>4. e \in Seq(T) /\ ToSet(e) = IF b THEN {} ELSE {x}
    BY <1>2, <2>2, <2>3
  <2> QED BY <2>4 DEF e
<1> QED BY <1>1, <1>2

\* The next task and the rest.
LEMMA Split ==
  ASSUME NEW T, NEW q \in Seq(T), q # <<>>
  PROVE  /\ Head(q) \in T /\ Tail(q) \in Seq(T)
         /\ q = <<Head(q)>> \o Tail(q)
         /\ ToSet(q) = {Head(q)} \cup ToSet(Tail(q))
<1>1. Head(q) \in T /\ Tail(q) \in Seq(T) /\ q = <<Head(q)>> \o Tail(q)
  OBVIOUS
<1>2. /\ Len(q) \in Nat \ {0} /\ Len(Tail(q)) = Len(q) - 1 /\ Head(q) = q[1]
      /\ \A i \in 1..(Len(q) - 1) : Tail(q)[i] = q[i + 1]
  OBVIOUS
<1>3. ToSet(q) \subseteq {Head(q)} \cup ToSet(Tail(q))
  <2> SUFFICES ASSUME NEW i \in 1..Len(q), i # 1 PROVE q[i] \in ToSet(Tail(q))
    BY <1>2 DEF ToSet
  <2>1. i - 1 \in 1..(Len(q) - 1) /\ i - 1 + 1 = i
    BY <1>2
  <2>2. Tail(q)[i - 1] = q[i]
    BY <1>2, <2>1
  <2>3. i - 1 \in DOMAIN Tail(q)
    BY <1>1, <1>2, <2>1
  <2> QED BY <2>2, <2>3 DEF ToSet
<1>4. {Head(q)} \cup ToSet(Tail(q)) \subseteq ToSet(q)
  <2>1. \A i \in 1..(Len(q) - 1) : i + 1 \in 1..Len(q)
    BY <1>2
  <2>2. 1 \in 1..Len(q)
    BY <1>2
  <2> QED BY <1>1, <1>2, <2>1, <2>2 DEF ToSet
<1> QED BY <1>1, <1>3, <1>4

LEMMA OccursSplit ==
  ASSUME NEW T, NEW q \in Seq(T), q # <<>>, NEW X
  PROVE  Occurs(q, X) = One(Head(q) \in X) + Occurs(Tail(q), X)
<1>1. Head(q) \in T /\ Tail(q) \in Seq(T) /\ q = <<Head(q)>> \o Tail(q)
  OBVIOUS
<1>2. <<Head(q)>> \in Seq(T)
  BY <1>1
<1>3. Occurs(<<Head(q)>> \o Tail(q), X) = Occurs(<<Head(q)>>, X) + Occurs(Tail(q), X)
  BY <1>1, <1>2, OccursConcat
<1> QED BY <1>1, <1>3, OccursOne

\* Pushed on what is grounded, a grounded task leaves all grounded.
LEMMA GroundedPush ==
  ASSUME NEW T, NEW x \in T, NEW q \in Seq(T), NEW H
  PROVE  GroundedIn(<<x>> \o q, H) <=> Grounded(x, ToSet(q), H) /\ GroundedIn(q, H)
<1> DEFINE r == <<x>> \o q
           Below(u, p) == {u[j] : j \in (p + 1)..Len(u)}
<1>1. /\ Len(q) \in Nat /\ Len(r) = Len(q) + 1 /\ r[1] = x
      /\ \A p \in 1..Len(q) : r[p + 1] = q[p]
  OBVIOUS
<1>2. \A p \in 0..Len(q) : Below(r, p + 1) = Below(q, p)
  <2> SUFFICES ASSUME NEW p \in 0..Len(q) PROVE Below(r, p + 1) = Below(q, p)
    OBVIOUS
  <2>1. ASSUME NEW j \in (p + 1 + 1)..Len(r) PROVE r[j] \in Below(q, p)
    <3>1. j - 1 \in (p + 1)..Len(q) /\ j - 1 \in 1..Len(q) /\ j - 1 + 1 = j BY <1>1
    <3> QED BY <1>1, <3>1
  <2>2. ASSUME NEW j \in (p + 1)..Len(q) PROVE q[j] \in Below(r, p + 1)
    <3>1. j + 1 \in (p + 1 + 1)..Len(r) /\ j \in 1..Len(q) BY <1>1
    <3> QED BY <1>1, <3>1
  <2> HIDE DEF r
  <2> QED BY <2>1, <2>2
<1>3. Below(q, 0) = ToSet(q)
  BY DEF ToSet
<1>4. Below(r, 1) = ToSet(q)
  <2> HIDE DEF r, Below
  <2>1. 0 \in 0..Len(q) /\ 0 + 1 = 1 BY <1>1
  <2>2. Below(r, 0 + 1) = Below(q, 0) BY <1>2, <2>1
  <2> QED BY <1>3, <2>1, <2>2
<1> HIDE DEF r, Below
<1>5. ASSUME GroundedIn(r, H) PROVE Grounded(x, ToSet(q), H) /\ GroundedIn(q, H)
  <2>1. \A p \in 1..Len(r) : Grounded(r[p], Below(r, p), H)
    BY <1>5 DEF GroundedIn, Below
  <2>2. Grounded(x, ToSet(q), H)
    <3> 1 \in 1..Len(r) BY <1>1
    <3> QED BY <2>1, <1>1, <1>4
  <2>3. ASSUME NEW p \in 1..Len(q) PROVE Grounded(q[p], Below(q, p), H)
    <3> p + 1 \in 1..Len(r) /\ p \in 0..Len(q) BY <1>1
    <3>1. Grounded(r[p + 1], Below(r, p + 1), H) BY <2>1
    <3> QED BY <3>1, <1>1, <1>2
  <2> QED BY <2>2, <2>3 DEF GroundedIn, Below
<1>6. ASSUME Grounded(x, ToSet(q), H), GroundedIn(q, H) PROVE GroundedIn(r, H)
  <2>1. \A p \in 1..Len(q) : Grounded(q[p], Below(q, p), H)
    BY <1>6 DEF GroundedIn, Below
  <2>2. ASSUME NEW p \in 1..Len(r) PROVE Grounded(r[p], Below(r, p), H)
    <3>1. CASE p = 1 BY <3>1, <1>1, <1>4, <1>6
    <3>2. CASE p # 1
      <4> DEFINE m == p - 1
      <4>1. m \in 1..Len(q) /\ m \in 0..Len(q) /\ m + 1 = p BY <1>1, <3>2
      <4> HIDE DEF m
      <4>2. r[m + 1] = q[m] /\ Below(r, m + 1) = Below(q, m) BY <1>1, <1>2, <4>1
      <4> QED BY <2>1, <4>1, <4>2
    <3> QED BY <3>1, <3>2
  <2> QED BY <2>2 DEF GroundedIn, Below
<1> QED BY <1>5, <1>6 DEF r

LEMMA GroundedEmpty == \A H : GroundedIn(<<>>, H)
BY DEF GroundedIn
-----------------------------------------------------------------------------
(* The constants.                                                           *)

LEMMA Apartness ==
  /\ Key \cap Attr = {} /\ Object \cap Key = {} /\ Object \cap Attr = {}
  /\ Index = Key \cup Attr /\ Node = Object \cup Index
  /\ Null \notin Object /\ Null \notin Loop /\ \A I \in SUBSET Index : I # Null
<1>1. \A k \in Key : k[1] = "key"
  BY DEF Key, Store!Key
<1>2. \A a \in Attr : a[1] = "attr"
  BY DEF Attr, Store!Attr
<1>3. Key \cap Attr = {}
  BY <1>1, <1>2
<1> QED BY <1>3, RefStoreXSAssumption DEF Index, Node

LEMMA Finite ==
  IsFiniteSet(Object) /\ IsFiniteSet(Key) /\ IsFiniteSet(Attr) /\ IsFiniteSet(Index)
<1>1. IsFiniteSet(Object) /\ IsFiniteSet(KeyName) /\ IsFiniteSet(AttrName)
  BY RefStoreXSAssumption
<1>2. IsFiniteSet(Key)
  <2> DEFINE f == [x \in KeyName |-> <<"key", x>>]
  <2>1. f \in Surjection(KeyName, Key)
    BY DEF Surjection, Key, Store!Key
  <2> HIDE DEF f
  <2> QED BY <1>1, <2>1, FS_Surjection
<1>3. IsFiniteSet(Attr)
  <2> DEFINE f == [x \in AttrName |-> <<"attr", x[1], x[2]>>]
  <2>1. f \in Surjection(AttrName, Attr)
    BY DEF Surjection, Attr, Store!Attr
  <2> HIDE DEF f
  <2> QED BY <1>1, <2>1, FS_Surjection
<1> QED BY <1>1, <1>2, <1>3, FS_Union DEF Index

-----------------------------------------------------------------------------
(* The tasks, by their kinds.                                               *)

ActionKinds == {"rlookup", "attrhash", "encap_destroy_hook", "encap_attr_destroy_hook",
                "slookup", "flookup", "k_encap_cleanup", "attr_destroy_trigger"}

LEMMA ActionIs ==
  ASSUME NEW t \in Action
  PROVE  /\ t[1] \in ActionKinds
         /\ t[1] \in {"slookup", "flookup", "k_encap_cleanup"} => t = <<t[1], t[2]>> /\ t[2] \in Key
         /\ t[1] = "rlookup" => t = <<t[1], t[2]>> /\ t[2] \in Object
         /\ t[1] = "attrhash" => t = <<t[1], t[2], t[3]>> /\ t[2] \in Attr /\ t[3] \in Object
         /\ t[1] = "encap_destroy_hook" =>
              t = <<t[1], t[2]>> /\ t[2] \in Key /\ TheObject(t[2]) \in Object
         /\ t[1] = "encap_attr_destroy_hook" =>
              t = <<t[1], t[2]>> /\ t[2] \in Attr /\ TheObject(t[2]) \in Object
         /\ t[1] = "attr_destroy_trigger" => t = <<t[1], t[2]>> /\ t[2] \in Attr
<1>1. PICK n \in Node : t \in ActionsOf(n)
  BY DEF Action
<1>2. CASE n \in Object
  BY <1>1, <1>2 DEF ActionsOf, Made, ActionKinds
<1>3. CASE n \notin Object /\ n \in Key
  BY <1>1, <1>3 DEF ActionsOf, ActionKinds
<1>4. CASE n \notin Object /\ n \notin Key
  BY <1>1, <1>4, Apartness DEF ActionsOf, ActionKinds
<1> QED BY <1>2, <1>3, <1>4

TaskKinds == ActionKinds \cup
  {"dec", "free", "ka_end", "decall", "unvhash", "unhash", "vhash_check", "purge", "purge_end",
   "push", "attr_lookup", "values", "foreach", "destroy_attrs", "destroy_attr", "destroy_keys",
   "destroy_values"}

\* What a task's kind says of its arguments.
TaskIs(t) ==
  /\ t[1] \in TaskKinds
  /\ t[1] \in ActionKinds => t \in Action
  /\ t[1] \in {"dec", "free", "ka_end"} => t = <<t[1], t[2]>> /\ t[2] \in Node
  /\ t[1] = "decall" => t = <<t[1], t[2]>> /\ t[2] \in SUBSET Node
  /\ t[1] = "unvhash" => t = <<t[1], t[2], t[3]>> /\ t[2] \in Index /\ t[3] \in Object
  /\ t[1] = "unhash" => t = <<t[1], t[2], t[3]>> /\ t[2] \in Attr /\ t[3] \in Object
  /\ t[1] \in {"vhash_check", "purge", "purge_end", "push"} => t = <<t[1], t[2]>> /\ t[2] \in Object
  /\ t[1] \in {"attr_lookup", "values"} => t = <<t[1], t[2]>> /\ t[2] \in Attr
  /\ t[1] = "foreach" => t = <<t[1], t[2], t[3]>> /\ t[2] \in Object /\ t[3] \in Seq(Index)
  /\ t[1] = "destroy_attrs" => t = <<t[1], t[2]>> /\ t[2] \in SUBSET Attr
  /\ t[1] = "destroy_attr" => t = <<t[1], t[2], t[3]>> /\ t[2] \in Attr /\ t[3] \in SUBSET Object
  /\ t[1] = "destroy_values" => t = <<t[1], t[2]>> /\ t[2] \in SUBSET Object

LEMMA TaskKind ==
  ASSUME NEW t \in Task
  PROVE  TaskIs(t)
<1>1. CASE t \in Action
  <2> t[1] \in ActionKinds BY <1>1, ActionIs
  <2> QED BY <1>1 DEF TaskIs, TaskKinds, ActionKinds
<1>2. CASE t \in NodeTask
  BY <1>2 DEF NodeTask, TaskIs, TaskKinds, ActionKinds
<1>3. CASE t \in NodesTask
  BY <1>3 DEF NodesTask, TaskIs, TaskKinds, ActionKinds
<1>4. CASE t \in ValueTask
  BY <1>4 DEF ValueTask, TaskIs, TaskKinds, ActionKinds
<1>5. CASE t \in AttrTask
  BY <1>5 DEF AttrTask, TaskIs, TaskKinds, ActionKinds
<1>6. CASE t \in Unvhash
  BY <1>6 DEF Unvhash, TaskIs, TaskKinds, ActionKinds
<1>7. CASE t \in Unhash
  BY <1>7 DEF Unhash, TaskIs, TaskKinds, ActionKinds
<1>8. CASE t \in ForeachTask
  BY <1>8 DEF ForeachTask, TaskIs, TaskKinds, ActionKinds
<1>9. CASE t \in DestroyAttrsTask
  BY <1>9 DEF DestroyAttrsTask, TaskIs, TaskKinds, ActionKinds
<1>10. CASE t \in DestroyAttrTask
  BY <1>10 DEF DestroyAttrTask, TaskIs, TaskKinds, ActionKinds
<1>11. CASE t \in DestroyKeysTask
  BY <1>11 DEF DestroyKeysTask, TaskIs, TaskKinds, ActionKinds
<1>12. CASE t \in DestroyValuesTask
  BY <1>12 DEF DestroyValuesTask, TaskIs, TaskKinds, ActionKinds
<1>13. t \in Action \/ t \in NodeTask \/ t \in NodesTask \/ t \in ValueTask \/ t \in AttrTask \/ t \in Unvhash
       \/ t \in Unhash \/ t \in ForeachTask \/ t \in DestroyAttrsTask \/ t \in DestroyAttrTask \/ t \in DestroyKeysTask \/ t \in DestroyValuesTask
  BY DEF Task
<1> QED BY <1>1, <1>2, <1>3, <1>4, <1>5, <1>6, <1>7, <1>8, <1>9, <1>10, <1>11, <1>12, <1>13, Zenon

\* The tasks of which nothing below them is asked, and that are asked for by none.
Plain == {t \in Task : t[1] \notin {"encap_attr_destroy_hook", "free", "unhash", "attrhash",
                                    "purge", "foreach"}}

LEMMA SubTasks ==
  /\ Action \subseteq Task
  /\ NodeTask \subseteq Task
  /\ NodesTask \subseteq Task
  /\ ValueTask \subseteq Task
  /\ AttrTask \subseteq Task
  /\ Unvhash \subseteq Task
  /\ Unhash \subseteq Task
  /\ ForeachTask \subseteq Task
  /\ DestroyAttrsTask \subseteq Task
  /\ DestroyAttrTask \subseteq Task
  /\ DestroyKeysTask \subseteq Task
  /\ DestroyValuesTask \subseteq Task
BY DEF Task

LEMMA PlainTasks ==
  /\ \A n \in Node : <<"dec", n>> \in Plain /\ <<"ka_end", n>> \in Plain
  /\ \A S \in SUBSET Node : <<"decall", S>> \in Plain
  /\ \A i \in Index, v \in Object : <<"unvhash", i, v>> \in Plain
  /\ \A v \in Object : <<"vhash_check", v>> \in Plain /\ <<"purge_end", v>> \in Plain
                       /\ <<"push", v>> \in Plain
  /\ \A a \in Attr : <<"attr_lookup", a>> \in Plain /\ <<"values", a>> \in Plain
  /\ \A A \in SUBSET Attr : <<"destroy_attrs", A>> \in Plain
  /\ \A a \in Attr, V \in SUBSET Object : <<"destroy_attr", a, V>> \in Plain
  /\ <<"destroy_keys">> \in Plain
  /\ \A V \in SUBSET Object : <<"destroy_values", V>> \in Plain
<1>1. \A n \in Node : <<"dec", n>> \in Plain /\ <<"ka_end", n>> \in Plain
  BY SubTasks DEF Plain, NodeTask
<1>2. \A S \in SUBSET Node : <<"decall", S>> \in Plain
  BY SubTasks DEF Plain, NodesTask
<1>3. \A i \in Index, v \in Object : <<"unvhash", i, v>> \in Plain
  BY SubTasks DEF Plain, Unvhash
<1>4. \A v \in Object : <<"vhash_check", v>> \in Plain /\ <<"purge_end", v>> \in Plain
                       /\ <<"push", v>> \in Plain
  BY SubTasks DEF Plain, ValueTask
<1>5. \A a \in Attr : <<"attr_lookup", a>> \in Plain /\ <<"values", a>> \in Plain
  BY SubTasks DEF Plain, AttrTask
<1>6. \A A \in SUBSET Attr : <<"destroy_attrs", A>> \in Plain
  BY SubTasks DEF Plain, DestroyAttrsTask
<1>7. \A a \in Attr, V \in SUBSET Object : <<"destroy_attr", a, V>> \in Plain
  BY SubTasks DEF Plain, DestroyAttrTask
<1>8. <<"destroy_keys">> \in Plain
  BY SubTasks DEF Plain, DestroyKeysTask
<1>9. \A V \in SUBSET Object : <<"destroy_values", V>> \in Plain
  BY SubTasks DEF Plain, DestroyValuesTask
<1> QED BY <1>1, <1>2, <1>3, <1>4, <1>5, <1>6, <1>7, <1>8, <1>9

LEMMA OtherTasks ==
  /\ \A n \in Node : <<"free", n>> \in Task
  /\ \A a \in Attr, v \in Object : <<"unhash", a, v>> \in Task
  /\ \A v \in Object : <<"purge", v>> \in Task
  /\ \A v \in Object, s \in Seq(Index) : <<"foreach", v, s>> \in Task
  /\ Action \subseteq Task
<1>1. \A n \in Node : <<"free", n>> \in Task
  BY SubTasks DEF NodeTask
<1>2. \A a \in Attr, v \in Object : <<"unhash", a, v>> \in Task
  BY SubTasks DEF Unhash
<1>3. \A v \in Object : <<"purge", v>> \in Task
  BY SubTasks DEF ValueTask
<1>4. \A v \in Object, s \in Seq(Index) : <<"foreach", v, s>> \in Task
  BY SubTasks DEF ForeachTask
<1> QED BY <1>1, <1>2, <1>3, <1>4, SubTasks

LEMMA ActionTasks ==
  /\ \A k \in Key : /\ <<"slookup", k>> \in Action \cap Plain /\ <<"flookup", k>> \in Action \cap Plain
                    /\ <<"k_encap_cleanup", k>> \in Action \cap Plain
  /\ \A v \in Object : <<"rlookup", v>> \in Action \cap Plain
  /\ \A a \in Attr : <<"attr_destroy_trigger", a>> \in Action \cap Plain
  /\ \A a \in Attr, v \in Object : <<"attrhash", a, v>> \in Action
  /\ \A k \in Key : TheObject(k) \in Object => <<"encap_destroy_hook", k>> \in Action
  /\ \A a \in Attr : TheObject(a) \in Object => <<"encap_attr_destroy_hook", a>> \in Action
<1>1. \A k \in Key : /\ <<"slookup", k>> \in Action /\ <<"flookup", k>> \in Action
                     /\ <<"k_encap_cleanup", k>> \in Action
  <2> SUFFICES ASSUME NEW k \in Key
               PROVE  /\ <<"slookup", k>> \in Action /\ <<"flookup", k>> \in Action
                      /\ <<"k_encap_cleanup", k>> \in Action
    OBVIOUS
  <2>1. k \in Node /\ k \notin Object
    BY Apartness
  <2>2. {<<"slookup", k>>, <<"flookup", k>>, <<"k_encap_cleanup", k>>} = ActionsOf(k)
    BY <2>1 DEF ActionsOf
  <2> QED BY <2>1, <2>2 DEF Action
<1>2. \A v \in Object : <<"rlookup", v>> \in Action /\ \A a \in Attr : <<"attrhash", a, v>> \in Action
  BY Apartness DEF Action, ActionsOf
<1>3. \A a \in Attr : <<"attr_destroy_trigger", a>> \in Action
  BY Apartness DEF Action, ActionsOf
<1>4. \A k \in Key : TheObject(k) \in Object => <<"encap_destroy_hook", k>> \in Action
  BY Apartness DEF Action, ActionsOf, Made
<1>5. \A a \in Attr : TheObject(a) \in Object => <<"encap_attr_destroy_hook", a>> \in Action
  BY Apartness DEF Action, ActionsOf, Made
<1>6. Action \subseteq Task
  BY OtherTasks
<1> QED BY <1>1, <1>2, <1>3, <1>4, <1>5, <1>6 DEF Plain

\* Who holds what.
LEMMA Holds ==
  ASSUME NEW t \in Task, NEW n
  PROVE  t \in Holding(n) <=> \/ t[1] \in {"dec", "foreach", "purge_end"} /\ t[2] = n
                              \/ t[1] = "decall" /\ n \in t[2]
BY DEF Holding
-----------------------------------------------------------------------------
(* The action lists.                                                        *)

LEMMA WithoutProps ==
  ASSUME NEW f \in [Node -> Seq(Action)], NEW n \in Node, NEW a
  PROVE  /\ Without(f, n, a) \in [Node -> Seq(Action)]
         /\ \A m \in Node : m # n => Without(f, n, a)[m] = f[m]
         /\ ToSet(Without(f, n, a)[n]) = ToSet(f[n]) \ {a}
         /\ NoDuplicate(f[n]) => NoDuplicate(Without(f, n, a)[n])
<1> DEFINE d == Deleted(f[n], {a})
<1>1. f[n] \in Seq(Action)
  OBVIOUS
<1>2. /\ d \in Seq(Action) /\ ToSet(d) = ToSet(f[n]) \ {a}
      /\ NoDuplicate(f[n]) => NoDuplicate(d)
  BY <1>1, DeletedProps
<1> HIDE DEF d
<1>3. Without(f, n, a) = [f EXCEPT ![n] = d]
  BY DEF Without, d
<1> QED BY <1>2, <1>3

LEMMA WithoutKindProps ==
  ASSUME NEW f \in [Node -> Seq(Action)], NEW n \in Node, NEW kind
  PROVE  /\ WithoutKind(f, n, kind) \in [Node -> Seq(Action)]
         /\ \A m \in Node : m # n => WithoutKind(f, n, kind)[m] = f[m]
         /\ ToSet(WithoutKind(f, n, kind)[n]) = {b \in ToSet(f[n]) : b[1] # kind}
         /\ NoDuplicate(f[n]) => NoDuplicate(WithoutKind(f, n, kind)[n])
<1> DEFINE A == {b \in ToSet(f[n]) : b[1] = kind}
           d == Deleted(f[n], A)
<1>1. f[n] \in Seq(Action)
  OBVIOUS
<1>2. /\ d \in Seq(Action) /\ ToSet(d) = ToSet(f[n]) \ A
      /\ NoDuplicate(f[n]) => NoDuplicate(d)
  <2> HIDE DEF A
  <2> QED BY <1>1, DeletedProps
<1>3. ToSet(f[n]) \ A = {b \in ToSet(f[n]) : b[1] # kind}
  OBVIOUS
<1>4. WithoutKind(f, n, kind) = [f EXCEPT ![n] = d]
  BY DEF WithoutKind
<1> HIDE DEF d
<1> QED BY <1>2, <1>3, <1>4

LEMMA AddedProps ==
  ASSUME NEW f \in [Node -> Seq(Action)], NEW n \in Node, NEW a \in Action
  PROVE  /\ Added(f, n, a) \in [Node -> Seq(Action)]
         /\ \A m \in Node : m # n => Added(f, n, a)[m] = f[m]
         /\ ToSet(Added(f, n, a)[n]) = ToSet(f[n]) \cup {a}
         /\ NoDuplicate(f[n]) => NoDuplicate(Added(f, n, a)[n])
<1> DEFINE q == f[n]
           r == Append(q, a)
<1>1. CASE a \in ToSet(f[n])
  BY <1>1 DEF Added
<1>2. CASE a \notin ToSet(f[n])
  <2>1. q \in Seq(Action) /\ r \in Seq(Action)
    OBVIOUS
  <2>2. Added(f, n, a) = [f EXCEPT ![n] = r]
    BY <1>2 DEF Added
  <2>3. /\ Len(q) \in Nat /\ Len(r) = Len(q) + 1 /\ r[Len(q) + 1] = a
        /\ \A i \in 1..Len(q) : r[i] = q[i]
    BY <2>1
  <2>4. \A i \in 1..Len(q) : q[i] # a
    BY <1>2, <2>1 DEF ToSet
  <2> HIDE DEF q, r
  <2>5. ToSet(r) = ToSet(q) \cup {a}
    <3>1. 1..Len(r) = 1..Len(q) \cup {Len(q) + 1}
      BY <2>3
    <3>2. DOMAIN r = 1..Len(r) /\ DOMAIN q = 1..Len(q)
      BY <2>1
    <3> QED BY <2>3, <3>1, <3>2 DEF ToSet
  <2>6. NoDuplicate(q) => NoDuplicate(r)
    BY <2>3, <2>4 DEF NoDuplicate
  <2> QED BY <2>1, <2>2, <2>5, <2>6 DEF q
<1> QED BY <1>1, <1>2

\* The same, of every node.
LEMMA WithoutHas ==
  ASSUME NEW f \in [Node -> Seq(Action)], NEW n \in Node, NEW a
  PROVE  /\ Without(f, n, a) \in [Node -> Seq(Action)]
         /\ \A m \in Node : \A b : b \in ToSet(Without(f, n, a)[m]) <=> b \in ToSet(f[m]) /\ (m = n => b # a)
         /\ \A m \in Node : NoDuplicate(f[m]) => NoDuplicate(Without(f, n, a)[m])
<1>1. /\ Without(f, n, a) \in [Node -> Seq(Action)]
      /\ \A m \in Node : m # n => Without(f, n, a)[m] = f[m]
      /\ ToSet(Without(f, n, a)[n]) = ToSet(f[n]) \ {a}
      /\ NoDuplicate(f[n]) => NoDuplicate(Without(f, n, a)[n])
  BY WithoutProps
<1> QED BY <1>1

\* The same, of every node.
LEMMA WithoutKindHas ==
  ASSUME NEW f \in [Node -> Seq(Action)], NEW n \in Node, NEW kind
  PROVE  /\ WithoutKind(f, n, kind) \in [Node -> Seq(Action)]
         /\ \A m \in Node : \A b : b \in ToSet(WithoutKind(f, n, kind)[m]) <=> b \in ToSet(f[m]) /\ (m = n => b[1] # kind)
         /\ \A m \in Node : NoDuplicate(f[m]) => NoDuplicate(WithoutKind(f, n, kind)[m])
<1>1. /\ WithoutKind(f, n, kind) \in [Node -> Seq(Action)]
      /\ \A m \in Node : m # n => WithoutKind(f, n, kind)[m] = f[m]
      /\ ToSet(WithoutKind(f, n, kind)[n]) = {b \in ToSet(f[n]) : b[1] # kind}
      /\ NoDuplicate(f[n]) => NoDuplicate(WithoutKind(f, n, kind)[n])
  BY WithoutKindProps
<1> QED BY <1>1

\* The same, of every node.
LEMMA AddedHas ==
  ASSUME NEW f \in [Node -> Seq(Action)], NEW n \in Node, NEW a \in Action
  PROVE  /\ Added(f, n, a) \in [Node -> Seq(Action)]
         /\ \A m \in Node : \A b : b \in ToSet(Added(f, n, a)[m]) <=> b \in ToSet(f[m]) \/ (m = n /\ b = a)
         /\ \A m \in Node : NoDuplicate(f[m]) => NoDuplicate(Added(f, n, a)[m])
<1>1. /\ Added(f, n, a) \in [Node -> Seq(Action)]
      /\ \A m \in Node : m # n => Added(f, n, a)[m] = f[m]
      /\ ToSet(Added(f, n, a)[n]) = ToSet(f[n]) \cup {a}
      /\ NoDuplicate(f[n]) => NoDuplicate(Added(f, n, a)[n])
  BY AddedProps
<1> QED BY <1>1

\* g has some of the actions f has.
Fewer(g, f) ==
  /\ g \in [Node -> Seq(Action)]
  /\ \A m \in Node : ToSet(g[m]) \subseteq ToSet(f[m])
  /\ \A m \in Node : NoDuplicate(f[m]) => NoDuplicate(g[m])

\* Taking actions out, once or twice, leaves fewer.
LEMMA FewerActions ==
  ASSUME NEW f \in [Node -> Seq(Action)]
  PROVE  /\ Fewer(f, f)
         /\ \A n \in Node : \A a : Fewer(Without(f, n, a), f)
         /\ \A n \in Node : \A kind : Fewer(WithoutKind(f, n, kind), f)
         /\ \A g, h : Fewer(g, f) /\ Fewer(h, g) => Fewer(h, f)
<1>1. ASSUME NEW n \in Node, NEW a PROVE Fewer(Without(f, n, a), f)
  BY WithoutHas DEF Fewer
<1>2. ASSUME NEW n \in Node, NEW kind PROVE Fewer(WithoutKind(f, n, kind), f)
  BY WithoutKindHas DEF Fewer
<1>3. \A g, h : Fewer(g, f) /\ Fewer(h, g) => Fewer(h, f)
  BY DEF Fewer
<1>4. Fewer(f, f)
  BY DEF Fewer
<1> QED BY <1>1, <1>2, <1>3, <1>4

\* An index is made from an object or from a string.
LEMMA Encap ==
  ASSUME NEW i
  PROVE  IsEncap(i) <=> TheObject(i) \in Object
<1>1. ObjectsOf(i) = {TheObject(i)} \cap Object
  BY DEF ObjectsOf, Store!ObjectsOf, TheObject
<1> QED BY <1>1 DEF IsEncap

\* The actions a new index starts with.
LEMMA OwnActionsProps ==
  ASSUME NEW i \in Index
  PROVE  /\ OwnActions(i) \in Seq(Action) /\ NoDuplicate(OwnActions(i))
         /\ ToSet(OwnActions(i)) \subseteq ActionsOf(i)
         /\ i \in Attr => ToSet(OwnActions(i)) = {<<"attr_destroy_trigger", i>>}
<1>1. CASE i \in Attr
  <2> DEFINE x == <<"attr_destroy_trigger", i>>
             q == <<x>>
  <2>1. OwnActions(i) = q
    <3>1. i \notin Key
      BY <1>1, Apartness
    <3> QED BY <1>1, <3>1 DEF OwnActions
  <2>2. x \in Action /\ x \in ActionsOf(i)
    BY <1>1, ActionTasks, Apartness DEF ActionsOf
  <2>3. ToSet(q) = {x}
    BY SetOne, Zenon
  <2>4. q \in Seq(Action) /\ NoDuplicate(q)
    BY <2>2 DEF NoDuplicate
  <2> HIDE DEF q
  <2> QED BY <2>1, <2>2, <2>3, <2>4
<1>2. CASE i \notin Attr /\ IsEncap(i)
  <2> DEFINE x == <<"k_encap_cleanup", i>>
             q == <<x>>
  <2>1. OwnActions(i) = q /\ i \in Key
    BY <1>2, Apartness DEF OwnActions
  <2>2. x \in Action /\ x \in ActionsOf(i)
    BY <1>2, <2>1, ActionTasks, Apartness DEF ActionsOf
  <2>3. ToSet(q) = {x}
    BY SetOne, Zenon
  <2>4. q \in Seq(Action) /\ NoDuplicate(q)
    BY <2>2 DEF NoDuplicate
  <2> HIDE DEF q
  <2> QED BY <1>2, <2>1, <2>2, <2>3, <2>4
<1>3. CASE i \notin Attr /\ ~ IsEncap(i)
  <2> DEFINE x == <<"slookup", i>>
             y == <<"flookup", i>>
             q == <<x, y>>
  <2>1. OwnActions(i) = q /\ i \in Key
    <3>1. OwnActions(i) = <<x, y>>
      BY <1>3, Zenon DEF OwnActions
    <3> QED BY <1>3, <3>1, Apartness
  <2>2. x \in Action /\ x \in ActionsOf(i) /\ y \in Action /\ y \in ActionsOf(i)
    BY <1>3, <2>1, ActionTasks, Apartness DEF ActionsOf
  <2>3. ToSet(q) = {x, y}
    BY DEF ToSet
  <2>4. q \in Seq(Action) /\ NoDuplicate(q)
    BY <2>2 DEF NoDuplicate
  <2> HIDE DEF q
  <2> QED BY <1>3, <2>1, <2>2, <2>3, <2>4
<1> QED BY <1>1, <1>2, <1>3

\* Every node has actions that it can have.
Proper(f) ==
  /\ f \in [Node -> Seq(Action)]
  /\ \A n \in Node : ToSet(f[n]) \subseteq ActionsOf(n)

LEMMA ProperAdded ==
  ASSUME NEW f, Proper(f), NEW n \in Node, NEW a \in ActionsOf(n)
  PROVE  Proper(Added(f, n, a))
<1>1. a \in Action
  BY DEF Action
<1>2. /\ Added(f, n, a) \in [Node -> Seq(Action)]
      /\ \A m \in Node : \A b : b \in ToSet(Added(f, n, a)[m]) <=> b \in ToSet(f[m]) \/ (m = n /\ b = a)
  BY <1>1, AddedHas DEF Proper
<1> QED BY <1>2 DEF Proper

LEMMA ProperOwn ==
  ASSUME NEW f, Proper(f), NEW i \in Index
  PROVE  Proper([f EXCEPT ![i] = OwnActions(i)])
BY OwnActionsProps DEF Proper, Node

\* The actions of an object.
LEMMA ObjectActions ==
  /\ \A v \in Object : <<"rlookup", v>> \in ActionsOf(v) /\ v \in Node
  /\ \A v \in Object, a \in Attr : <<"attrhash", a, v>> \in ActionsOf(v)
  /\ \A k \in Key : TheObject(k) \in Object => <<"encap_destroy_hook", k>> \in ActionsOf(TheObject(k))
  /\ \A a \in Attr :
       TheObject(a) \in Object => <<"encap_attr_destroy_hook", a>> \in ActionsOf(TheObject(a))
BY DEF ActionsOf, Made, Node

\* Running the first action leaves the others.
LEMMA TailProps ==
  ASSUME NEW q \in Seq(Action), q # <<>>
  PROVE  /\ Tail(q) \in Seq(Action) /\ Head(q) \in ToSet(q)
         /\ ToSet(q) = {Head(q)} \cup ToSet(Tail(q))
         /\ NoDuplicate(q) => NoDuplicate(Tail(q)) /\ Head(q) \notin ToSet(Tail(q))
<1>1. /\ Tail(q) \in Seq(Action) /\ ToSet(q) = {Head(q)} \cup ToSet(Tail(q))
  BY Split
<1>2. /\ Len(q) \in Nat \ {0} /\ Len(Tail(q)) = Len(q) - 1 /\ Head(q) = q[1]
      /\ \A i \in 1..(Len(q) - 1) : Tail(q)[i] = q[i + 1]
      /\ DOMAIN Tail(q) = 1..(Len(q) - 1)
  OBVIOUS
<1>3. ASSUME NoDuplicate(q) PROVE NoDuplicate(Tail(q)) /\ Head(q) \notin ToSet(Tail(q))
  <2>1. \A i \in 1..(Len(q) - 1) : i + 1 \in 1..Len(q) /\ i + 1 # 1 /\ i \in Nat
    BY <1>2
  <2>2. \A i, j \in 1..(Len(q) - 1) : q[i + 1] = q[j + 1] => i = j
    <3> SUFFICES ASSUME NEW i \in 1..(Len(q) - 1), NEW j \in 1..(Len(q) - 1), q[i + 1] = q[j + 1]
                 PROVE  i = j
      OBVIOUS
    <3>1. i + 1 = j + 1
      BY <1>3, <2>1 DEF NoDuplicate
    <3> QED BY <3>1, <2>1
  <2>3. NoDuplicate(Tail(q))
    BY <1>2, <2>2 DEF NoDuplicate
  <2>4. Head(q) \notin ToSet(Tail(q))
    <3> SUFFICES ASSUME NEW i \in 1..(Len(q) - 1), q[i + 1] = q[1] PROVE FALSE
      BY <1>2 DEF ToSet
    <3>1. 1 \in 1..Len(q)
      BY <1>2
    <3> QED BY <1>3, <2>1, <3>1 DEF NoDuplicate
  <2> QED BY <2>3, <2>4
<1> QED BY <1>1, <1>3

\* DecIf leaves a decrement to do or nothing.
LEMMA DecIfPlain ==
  ASSUME NEW mode, NEW n, mode = "strong" => n \in Node
  PROVE  DecIf(mode, n) \in Seq(Plain) /\ ToSet(DecIf(mode, n)) \subseteq {<<"dec", n>>}
<1>1. CASE mode = "strong"
  <2>1. <<"dec", n>> \in Plain
    BY <1>1, PlainTasks, Zenon
  <2>2. DecIf(mode, n) = <<<<"dec", n>>>>
    BY <1>1 DEF DecIf
  <2> QED BY <2>1, <2>2, SetOne
<1>2. CASE mode # "strong"
  <2>1. DecIf(mode, n) = <<>>
    BY <1>2 DEF DecIf
  <2>2. <<>> \in Seq(Plain)
    OBVIOUS
  <2>3. ToSet(<<>>) = {}
    BY SetOne
  <2> QED BY <2>1, <2>2, <2>3, Zenon
<1> QED BY <1>1, <1>2

-----------------------------------------------------------------------------
(* What a step may put in front of what waits.                              *)

LEMMA GroundedSplit ==
  ASSUME NEW q \in Seq(Task), q # <<>>, NEW H, GroundedIn(q, H)
  PROVE  /\ Head(q) \in Task /\ Tail(q) \in Seq(Task)
         /\ ToSet(q) = {Head(q)} \cup ToSet(Tail(q))
         /\ Grounded(Head(q), ToSet(Tail(q)), H) /\ GroundedIn(Tail(q), H)
<1>1. /\ Head(q) \in Task /\ Tail(q) \in Seq(Task) /\ q = <<Head(q)>> \o Tail(q)
      /\ ToSet(q) = {Head(q)} \cup ToSet(Tail(q))
  BY Split
<1> DEFINE h == Head(q)
           t == Tail(q)
<1> HIDE DEF h, t
<1>2. h \in Task /\ t \in Seq(Task) /\ q = <<h>> \o t
  BY <1>1 DEF h, t
<1>3. GroundedIn(<<h>> \o t, H)
  BY <1>2
<1>4. Grounded(h, ToSet(t), H) /\ GroundedIn(t, H)
  BY <1>2, <1>3, GroundedPush
<1> QED BY <1>1, <1>4 DEF h, t

\* Nothing in the set is the hook that must run at once.
NoHook(S) == \A b \in S : b[1] # "encap_attr_destroy_hook"

LEMMA PlainGrounded ==
  ASSUME NEW x \in Plain, NEW S, NoHook(S), NEW H
  PROVE  Grounded(x, S, H) /\ x \in Task /\ NoHook(S \cup {x})
BY DEF Plain, Grounded, NoHook

LEMMA GroundedPlain ==
  ASSUME NEW s \in Seq(Plain), NEW t \in Seq(Task), NEW H, GroundedIn(t, H), NoHook(ToSet(t))
  PROVE  GroundedIn(s \o t, H) /\ NoHook(ToSet(s \o t)) /\ s \o t \in Seq(Task)
         /\ ToSet(s \o t) = ToSet(s) \cup ToSet(t)
<1> DEFINE r == s \o t
           Below(u, p) == {u[j] : j \in (p + 1)..Len(u)}
<1>1. s \in Seq(Task)
  BY DEF Plain
<1>2. r \in Seq(Task) /\ ToSet(r) = ToSet(s) \cup ToSet(t)
  BY <1>1, SetConcat
<1>3. NoHook(ToSet(s))
  BY DEF NoHook, Plain, ToSet
<1>4. NoHook(ToSet(r))
  BY <1>2, <1>3 DEF NoHook
<1>5. /\ Len(s) \in Nat /\ Len(t) \in Nat /\ Len(r) = Len(s) + Len(t)
      /\ \A p \in 1..Len(s) : r[p] = s[p] /\ s[p] \in Plain
      /\ \A p \in 1..Len(t) : r[Len(s) + p] = t[p]
      /\ DOMAIN r = 1..Len(r)
  OBVIOUS
<1>6. ASSUME NEW p \in 1..Len(r) PROVE Grounded(r[p], Below(r, p), H)
  <2>1. Below(r, p) \subseteq ToSet(r)
    <3>1. \A j \in (p + 1)..Len(r) : j \in 1..Len(r)
      BY <1>5
    <3> HIDE DEF r
    <3> QED BY <3>1, <1>5 DEF ToSet
  <2>2. NoHook(Below(r, p))
    BY <2>1, <1>4 DEF NoHook
  <2>3. CASE p <= Len(s)
    <3>1. p \in 1..Len(s)
      BY <1>5, <2>3
    <3>2. r[p] \in Plain
      BY <1>5, <3>1
    <3> HIDE DEF r, Below
    <3> QED BY <2>2, <3>2, PlainGrounded
  <2>4. CASE ~ (p <= Len(s))
    <3> DEFINE m == p - Len(s)
    <3>1. m \in 1..Len(t) /\ p = Len(s) + m
      BY <1>5, <2>4
    <3> HIDE DEF m
    <3>2. r[p] = t[m]
      BY <1>5, <3>1
    <3>3. Below(r, p) \subseteq Below(t, m)
      <4> SUFFICES ASSUME NEW j \in (p + 1)..Len(r) PROVE r[j] \in Below(t, m)
        OBVIOUS
      <4>1. j - Len(s) \in (m + 1)..Len(t) /\ j - Len(s) \in 1..Len(t) /\ Len(s) + (j - Len(s)) = j
        BY <1>5, <3>1
      <4>2. r[j] = t[j - Len(s)]
        BY <1>5, <4>1
      <4> QED BY <4>1, <4>2
    <3>4. Below(t, m) \subseteq Below(r, p)
      <4> SUFFICES ASSUME NEW j \in (m + 1)..Len(t) PROVE t[j] \in Below(r, p)
        OBVIOUS
      <4>1. Len(s) + j \in (p + 1)..Len(r) /\ j \in 1..Len(t)
        BY <1>5, <3>1
      <4>2. r[Len(s) + j] = t[j]
        BY <1>5, <4>1
      <4> HIDE DEF r
      <4> QED BY <4>1, <4>2
    <3>5. Grounded(t[m], Below(t, m), H)
      BY <3>1 DEF GroundedIn
    <3> HIDE DEF r, Below
    <3>6. Below(r, p) = Below(t, m)
      BY <3>3, <3>4
    <3> QED BY <3>2, <3>5, <3>6
  <2> QED BY <2>3, <2>4
<1> QED BY <1>2, <1>4, <1>6 DEF GroundedIn

\* A step that does the task on top and leaves plain ones in its place, that closes
\* nothing and opens nothing, keeps the shape of todo.
LEMMA PlainStep ==
  ASSUME TodoShape, todo # <<>>, NEW s, s \in Seq(Plain), todo' = s \o Tail(todo),
         Top[1] \notin {"free", "foreach", "ka_end"},
         held' = held, \A n \in kept' : n \in kept \/ <<"ka_end", n>> \in ToSet(s),
         \A n \in Node : life'[n] = "dying" <=> life[n] = "dying",
         iter' # Null <=> iter # Null,
         iter' # Null /\ iter'.gone => iter'.cur \in Index /\ iter'.cur \notin Under(iter.value)'
  PROVE  TodoShape'
<1> DEFINE t == Tail(todo)
<1>1. /\ Top \in Task /\ t \in Seq(Task) /\ ToSet(todo) = {Top} \cup ToSet(t)
      /\ Grounded(Top, ToSet(t), held) /\ GroundedIn(t, held)
  BY GroundedSplit DEF TodoShape, AllGrounded, Top
<1> HIDE DEF t
<1>2. NoHook(ToSet(t))
  BY <1>1 DEF Grounded, NoHook
<1>3. /\ GroundedIn(s \o t, held) /\ s \o t \in Seq(Task)
      /\ ToSet(s \o t) = ToSet(s) \cup ToSet(t)
  BY <1>1, <1>2, GroundedPlain
<1>4. todo' = s \o t
  BY DEF t
<1>5. \A x \in ToSet(s) : x[1] \notin {"free", "foreach"}
  BY DEF ToSet, Plain
<1>6. AllGrounded'
  BY <1>3, <1>4 DEF AllGrounded
<1>7. LoopOpen'
  <2>1. (\E x \in ToSet(todo') : x[1] = "foreach") <=> (\E x \in ToSet(todo) : x[1] = "foreach")
    BY <1>1, <1>3, <1>4, <1>5
  <2> QED BY <2>1 DEF TodoShape, LoopOpen
<1>8. KeptOpen'
  <2>1. \A n : <<"ka_end", n>> # Top
    OBVIOUS
  <2> QED BY <1>1, <1>3, <1>4, <2>1 DEF TodoShape, KeptOpen
<1>9. FreeOpen'
  <2>1. \A n : <<"free", n>> # Top /\ <<"free", n>> \notin ToSet(s)
    BY <1>5
  <2> QED BY <1>1, <1>3, <1>4, <2>1 DEF TodoShape, FreeOpen
<1> QED BY <1>3, <1>4, <1>6, <1>7, <1>8, <1>9 DEF TodoShape

-----------------------------------------------------------------------------
(* The steps.  ShapeX says that the step X keeps Shape.                     *)

\* The task on top is one of the tasks, and what it counts on is below it.
LEMMA TopIs ==
  ASSUME TodoShape, todo # <<>>
  PROVE  /\ Top \in Task /\ TaskIs(Top) /\ Tail(todo) \in Seq(Task)
         /\ ToSet(todo) = {Top} \cup ToSet(Tail(todo))
         /\ Grounded(Top, ToSet(Tail(todo)), held) /\ GroundedIn(Tail(todo), held)
         /\ NoHook(ToSet(Tail(todo)))
<1>1. /\ Top \in Task /\ Tail(todo) \in Seq(Task) /\ ToSet(todo) = {Top} \cup ToSet(Tail(todo))
      /\ Grounded(Top, ToSet(Tail(todo)), held) /\ GroundedIn(Tail(todo), held)
  BY GroundedSplit DEF TodoShape, AllGrounded, Top
<1> QED BY <1>1, TaskKind DEF Grounded, NoHook

LEMMA PushOne ==
  ASSUME NEW T, NEW x \in T, NEW q \in Seq(T)
  PROVE  <<x>> \o q \in Seq(T) /\ ToSet(<<x>> \o q) = {x} \cup ToSet(q)
<1> DEFINE s == <<x>>
<1>1. s \in Seq(T)
  OBVIOUS
<1>2. ToSet(s) = {x}
  BY SetOne, Zenon
<1> HIDE DEF s
<1>3. s \o q \in Seq(T) /\ ToSet(s \o q) = ToSet(s) \cup ToSet(q)
  BY <1>1, SetConcat
<1> QED BY <1>2, <1>3 DEF s

\* A step that leaves the data alone.
LEMMA SameData ==
  ASSUME DataShape, UNCHANGED <<held, heap, tables, blobs, loops>>
  PROVE  DataShape'
BY DEF DataShape, Typed, EntriesTyped, ActionsTyped, heap, tables, blobs, loops, Under

LEMMA ShapeFault ==
  ASSUME Shape, NEW what, Fault(what)
  PROVE  Shape'
BY DEF Fault, Shape, DataShape, Typed, EntriesTyped, ActionsTyped, heap, tables, blobs, loops, Under,
       TodoShape, AllGrounded, LoopOpen, KeptOpen, FreeOpen

\* A death leaves one thing to do: to run the dead node's actions.
LEMMA ShapeDie ==
  ASSUME Shape, todo # <<>>, Top[1] \in {"dec", "ka_end"}, NEW n \in Node, Top[2] = n,
         life[n] = "live", Die(n), kept' \in {kept, kept \ {n}}, Top[1] = "ka_end" => n \notin kept',
         UNCHANGED <<held, acts, rlookup, obj_paddr, loops>>
  PROVE  Shape'
<1> DEFINE t == Tail(todo)
           f == <<"free", n>>
<1>1. /\ t \in Seq(Task) /\ ToSet(todo) = {Top} \cup ToSet(t) /\ Top = <<Top[1], Top[2]>>
      /\ GroundedIn(t, held) /\ NoHook(ToSet(t))
  BY TopIs DEF Shape, TaskIs
<1>2. f \in Task /\ f \notin ToSet(todo)
  BY OtherTasks DEF Shape, TodoShape, FreeOpen
<1>3. todo' = <<f>> \o t
  BY DEF Die, Then
<1> HIDE DEF t, f
<1>4. ToSet(todo') = {f} \cup ToSet(t) /\ todo' \in Seq(Task)
  BY <1>1, <1>2, <1>3, PushOne
<1> USE DEF f
<1>5. Grounded(f, ToSet(t), held)
  BY <1>1, <1>2 DEF Grounded, NoHook
<1>6. AllGrounded'
  BY <1>1, <1>2, <1>3, <1>5, GroundedPush DEF AllGrounded
<1>7. LoopOpen'
  BY <1>1, <1>4 DEF Shape, TodoShape, LoopOpen, loops, Under
<1>8. KeptOpen'
  <2> SUFFICES ASSUME NEW m \in kept' PROVE <<"ka_end", m>> \in ToSet(t)
    BY <1>4 DEF KeptOpen
  <2>1. <<"ka_end", m>> \in ToSet(todo)
    BY DEF Shape, TodoShape, KeptOpen
  <2>2. <<"ka_end", m>> # Top
    BY <1>1
  <2> QED BY <2>1, <2>2, <1>1
<1>9. FreeOpen'
  <2> SUFFICES ASSUME NEW m \in Node
               PROVE  life'[m] = "dying" <=> <<"free", m>> \in ToSet(todo')
    BY DEF FreeOpen
  <2>1. life[m] = "dying" <=> <<"free", m>> \in ToSet(t)
    <3>1. <<"free", m>> # Top
      BY <1>1
    <3> QED BY <3>1, <1>1 DEF Shape, TodoShape, FreeOpen
  <2>2. life'[m] = IF m = n THEN "dying" ELSE life[m]
    BY DEF Shape, DataShape, Typed, Die
  <2> QED BY <1>4, <2>1, <2>2
<1>10. DataShape'
  <2> USE DEF Shape, DataShape, Typed, EntriesTyped, ActionsTyped, Die, loops, Cleared, Entry, Ref
  <2>1. Typed'
    OBVIOUS
  <2>2. EntriesTyped'
    OBVIOUS
  <2>3. ActionsTyped'
    OBVIOUS
  <2> QED BY <2>1, <2>2, <2>3
<1> QED BY <1>4, <1>6, <1>7, <1>8, <1>9, <1>10 DEF Shape, TodoShape

LEMMA ShapeDec ==
  ASSUME Shape, Dec
  PROVE  Shape'
<1> DEFINE n == Top[2]
<1>1. todo # <<>> /\ Top[1] = "dec" /\ n \in Node
  BY TopIs DEF Dec, Doing, Shape, TaskIs
<1>2. CASE /\ life[n] = "live" /\ Die(n)
           /\ UNCHANGED <<held, kept, acts, rlookup, obj_paddr, loops, err>>
  BY <1>1, <1>2, ShapeDie
<1>3. CASE /\ rc' = [rc EXCEPT ![n] = @ - 1] /\ Then(<<>>)
           /\ UNCHANGED <<held, life, kept, acts, tables, blobs, loops, err>>
  <2>0. <<>> \in Seq(Plain) /\ todo' = <<>> \o Tail(todo)
    BY <1>3 DEF Then
  <2>1. TodoShape'
    BY <1>1, <1>3, <2>0, PlainStep DEF Shape, tables, loops, TodoShape, LoopOpen, Under
  <2>2. DataShape'
    BY <1>1, <1>3 DEF Shape, DataShape, Typed, EntriesTyped, ActionsTyped, tables, blobs, loops
  <2> QED BY <2>1, <2>2 DEF Shape
<1>4. CASE Fault("decrement of a freed node")
  BY <1>4, ShapeFault
<1> QED BY <1>2, <1>3, <1>4 DEF Dec

LEMMA ShapeDecAll ==
  ASSUME Shape, DecAll
  PROVE  Shape'
<1> DEFINE S == Top[2]
<1>1. todo # <<>> /\ Top[1] = "decall" /\ S \in SUBSET Node
  BY TopIs DEF DecAll, Doing, Shape, TaskIs
<1>2. UNCHANGED <<held, heap, tables, blobs, loops>>
  BY DEF DecAll
<1>3. \E s \in Seq(Plain) : todo' = s \o Tail(todo)
  <2>1. CASE S = {}
    <3>1. <<>> \in Seq(Plain) /\ todo' = <<>> \o Tail(todo)
      BY <2>1 DEF DecAll, Then
    <3> QED BY <3>1
  <2>2. CASE S # {}
    <3>1. PICK n \in S : Then(<<<<"dec", n>>, <<"decall", S \ {n}>>>>)
      BY <2>2 DEF DecAll
    <3>2. <<"dec", n>> \in Plain /\ <<"decall", S \ {n}>> \in Plain
      BY <1>1, PlainTasks
    <3> DEFINE s == <<<<"dec", n>>, <<"decall", S \ {n}>>>>
    <3>3. s \in Seq(Plain)
      BY <3>2
    <3>4. todo' = s \o Tail(todo)
      BY <3>1 DEF Then
    <3> HIDE DEF s
    <3> QED BY <3>3, <3>4
  <2> QED BY <2>1, <2>2
<1>4. TodoShape'
  BY <1>1, <1>2, <1>3, PlainStep DEF Shape, heap, tables, loops, TodoShape, LoopOpen, Under
<1> QED BY <1>2, <1>4, SameData DEF Shape

\* The next action of a dying node goes on top of what waits.
LEMMA ShapeRunAction ==
  ASSUME Shape, RunAction
  PROVE  Shape'
<1> DEFINE n == Top[2]
           x == Head(acts[n])
<1>1. todo # <<>> /\ Top[1] = "free" /\ n \in Node /\ Top = <<"free", n>>
  BY TopIs DEF RunAction, Doing, Shape, TaskIs
<1>2. acts \in [Node -> Seq(Action)] /\ acts[n] # <<>> /\ acts[n] \in Seq(Action)
  BY <1>1 DEF RunAction, Shape, DataShape, Typed
<1>3. x \in ActionsOf(n) /\ x \in Action
  BY <1>1, <1>2, TailProps DEF Shape, DataShape, ActionsTyped
<1>4. x \in Task
  BY <1>3, OtherTasks
<1>5. todo' = <<x>> \o todo /\ todo \in Seq(Task) /\ GroundedIn(todo, held)
  BY DEF RunAction, Shape, TodoShape, AllGrounded
<1>6. ToSet(todo') = {x} \cup ToSet(todo) /\ todo' \in Seq(Task)
  <2> HIDE DEF x
  <2> QED BY <1>4, <1>5, PushOne
<1>7. Top \in ToSet(todo) /\ NoHook(ToSet(todo))
  BY <1>1, TopIs DEF Shape, NoHook
<1>8. x[1] \in ActionKinds /\ (x[1] = "attrhash" => x[3] = n)
  BY <1>1, <1>3, ActionIs DEF ActionsOf
<1>9. Grounded(x, ToSet(todo), held)
  BY <1>1, <1>7, <1>8 DEF Grounded, NoHook, ActionKinds
<1>10. AllGrounded'
  <2> HIDE DEF x
  <2>1. GroundedIn(<<x>> \o todo, held)
    BY <1>4, <1>5, <1>9, GroundedPush
  <2> QED BY <1>5, <2>1 DEF AllGrounded, RunAction
<1>11. LoopOpen' /\ KeptOpen' /\ FreeOpen'
  BY <1>6, <1>8 DEF RunAction, ActionKinds, Shape, TodoShape, LoopOpen, KeptOpen, FreeOpen, tables, loops, Under
<1>12. DataShape'
  <2>1. acts' \in [Node -> Seq(Action)] /\ \A m \in Node : ToSet(acts'[m]) \subseteq ToSet(acts[m])
    BY <1>1, <1>2, TailProps DEF RunAction
  <2> QED BY <2>1 DEF Shape, DataShape, Typed, EntriesTyped, ActionsTyped, RunAction, tables, blobs, loops
<1> QED BY <1>6, <1>10, <1>11, <1>12 DEF Shape, TodoShape

LEMMA ShapeFreed ==
  ASSUME Shape, Freed
  PROVE  Shape'
<1> DEFINE n == Top[2]
           t == Tail(todo)
<1>1. todo # <<>> /\ Top[1] = "free" /\ n \in Node /\ Top = <<"free", n>>
  BY TopIs DEF Freed, Doing, Shape, TaskIs
<1>2. todo' = t /\ t \in Seq(Task) /\ ToSet(todo) = {Top} \cup ToSet(t) /\ GroundedIn(t, held)
      /\ Top \notin ToSet(t)
  <2>1. todo' = <<>> \o t
    BY DEF Freed, Then
  <2> QED BY <2>1, <1>1, TopIs DEF Shape, Grounded
<1>3. AllGrounded'
  BY <1>2 DEF AllGrounded, Freed
<1>4. LoopOpen' /\ KeptOpen'
  BY <1>1, <1>2 DEF Freed, Shape, TodoShape, LoopOpen, KeptOpen, tables, loops, Under
<1>5. FreeOpen'
  <2> SUFFICES ASSUME NEW m \in Node
               PROVE  life'[m] = "dying" <=> <<"free", m>> \in ToSet(t)
    BY <1>2 DEF FreeOpen
  <2>1. life'[m] = IF m = n THEN "free" ELSE life[m]
    BY DEF Freed, Shape, DataShape, Typed
  <2>2. life[m] = "dying" <=> <<"free", m>> \in ToSet(todo)
    BY DEF Shape, TodoShape, FreeOpen
  <2>3. m # n => <<"free", m>> # Top
    BY <1>1
  <2> QED BY <1>1, <1>2, <2>1, <2>2, <2>3
<1>6. DataShape'
  BY <1>1 DEF Shape, DataShape, Typed, EntriesTyped, ActionsTyped, Freed, tables, loops, Entry
<1> QED BY <1>2, <1>3, <1>4, <1>5, <1>6 DEF Shape, TodoShape

\* A step that does the task on top and sets off plain ones, whatever it takes out.
LEMMA TaskDone ==
  ASSUME Shape, todo # <<>>, NEW s, s \in Seq(Plain), Then(s),
         Top[1] \notin {"free", "foreach", "ka_end"},
         UNCHANGED <<held, life, kept, iter>>,
         \A v \in Object : Under(v)' \subseteq Under(v)
  PROVE  TodoShape'
<1>1. TodoShape /\ todo' = s \o Tail(todo)
  BY DEF Shape, Then
<1>2. iter # Null /\ iter.gone =>
        iter.cur \in Index /\ iter.cur \notin Under(iter.value) /\ iter.value \in Object
  BY Apartness DEF Shape, DataShape, Typed, TodoShape, LoopOpen, Loop
<1>3. iter' # Null /\ iter'.gone => iter'.cur \in Index /\ iter'.cur \notin Under(iter.value)'
  BY <1>2
<1> QED BY <1>1, <1>3, PlainStep

LEMMA ShapeDelSlookup ==
  ASSUME Shape, DelSlookup
  PROVE  Shape'
<1>1. todo # <<>> /\ Top[1] = "slookup" /\ Top[2] \in Key
  BY TopIs, ActionIs DEF DelSlookup, Doing, Shape, TaskIs, ActionKinds
<1>2. <<>> \in Seq(Plain) /\ Then(<<>>)
  BY DEF DelSlookup
<1>3. \A v \in Object : Under(v)' \subseteq Under(v)
  BY DEF DelSlookup, Under
<1>4. TodoShape'
  BY <1>1, <1>2, <1>3, TaskDone DEF DelSlookup, heap, loops
<1>5. DataShape'
  BY <1>1 DEF DelSlookup, heap, loops, blobs, Shape, DataShape, Typed, EntriesTyped, ActionsTyped, Entry
<1> QED BY <1>4, <1>5 DEF Shape

LEMMA ShapeDelFlookup ==
  ASSUME Shape, DelFlookup
  PROVE  Shape'
<1> DEFINE k == Top[2]
<1>1. todo # <<>> /\ Top[1] = "flookup" /\ k \in Key
  BY TopIs, ActionIs DEF DelFlookup, Doing, Shape, TaskIs, ActionKinds
<1>2. flookup[k].mode = "strong" => flookup[k].value \in Node
  BY <1>1 DEF Shape, DataShape, EntriesTyped, Ref, Node
<1>3. DecIf(flookup[k].mode, flookup[k].value) \in Seq(Plain)
  BY <1>2, DecIfPlain
<1>4. \A v \in Object : Under(v)' \subseteq Under(v)
  BY DEF DelFlookup, Under
<1>5. TodoShape'
  BY <1>1, <1>3, <1>4, TaskDone DEF DelFlookup, heap, loops
<1>6. DataShape'
  BY <1>1 DEF DelFlookup, heap, loops, blobs, Shape, DataShape, Typed, EntriesTyped, ActionsTyped,
              Entry, NoValue, Ref
<1> QED BY <1>5, <1>6 DEF Shape

\* What a value is under, and deleting a vhash leaves nothing.
LEMMA UnderIs ==
  ASSUME Typed, NEW v \in Object
  PROVE  Under(v) \subseteq Index /\ (rlookup[v] # Null => Under(v) = rlookup[v])
BY DEF Typed, Under

LEMMA ShapeDelRlookup ==
  ASSUME Shape, DelRlookup
  PROVE  Shape'
<1> DEFINE v == Top[2]
           s == IF rlookup[v] = Null THEN <<>> ELSE <<<<"decall", rlookup[v]>>>>
<1>1. todo # <<>> /\ Top[1] = "rlookup" /\ v \in Object
  BY TopIs, ActionIs DEF DelRlookup, Doing, Shape, TaskIs, ActionKinds
<1>2. s \in Seq(Plain)
  <2>1. CASE rlookup[v] = Null
    BY <2>1
  <2>2. CASE rlookup[v] # Null
    <3>1. rlookup[v] \in SUBSET Node
      BY <1>1, <2>2, Apartness DEF Shape, DataShape, Typed
    <3>2. <<"decall", rlookup[v]>> \in Plain
      BY <3>1, PlainTasks
    <3> QED BY <2>2, <3>2
  <2> QED BY <2>1, <2>2
<1>3. \A u \in Object : Under(u)' \subseteq Under(u)
  BY <1>1 DEF DelRlookup, Under, Shape, DataShape, Typed
<1>4. Then(s)
  BY DEF DelRlookup
<1> HIDE DEF s
<1>5. TodoShape'
  BY <1>1, <1>2, <1>3, <1>4, TaskDone DEF DelRlookup, heap, loops
<1>6. DataShape'
  BY <1>1 DEF DelRlookup, heap, loops, blobs, Shape, DataShape, Typed, EntriesTyped, ActionsTyped
<1> QED BY <1>5, <1>6 DEF Shape

LEMMA ShapeDelAttrhash ==
  ASSUME Shape, DelAttrhash
  PROVE  Shape'
<1> DEFINE a == Top[2]
           v == Top[3]
<1>1. todo # <<>> /\ Top[1] = "attrhash" /\ a \in Attr /\ v \in Object
  BY TopIs, ActionIs DEF DelAttrhash, Doing, Shape, TaskIs, ActionKinds
<1>2. CASE life[a] = "free"
  BY <1>2, ShapeFault DEF DelAttrhash
<1>3. CASE life[a] # "free"
  <2>1. DecIf(attrhash[a][v], v) \in Seq(Plain)
    BY <1>1, DecIfPlain DEF Node
  <2>2. \A u \in Object : Under(u)' \subseteq Under(u)
    BY <1>3 DEF DelAttrhash, Under, tables
  <2>3. TodoShape'
    BY <1>1, <1>3, <2>1, <2>2, TaskDone DEF DelAttrhash, heap, loops
  <2>4. attrhash' \in [Attr -> [Object -> Entry]]
    <3>1. attrhash' = [attrhash EXCEPT ![a][v] = "none"] /\ attrhash \in [Attr -> [Object -> Entry]]
      BY <1>3 DEF DelAttrhash, Shape, DataShape, Typed
    <3> QED BY <1>1, <3>1 DEF Entry
  <2>5. DataShape'
    BY <1>3, <2>4 DEF DelAttrhash, heap, loops, tables, Shape, DataShape, Typed, EntriesTyped,
                      ActionsTyped
  <2> QED BY <2>3, <2>5 DEF Shape
<1> QED BY <1>2, <1>3

LEMMA ShapeDelFromVhash ==
  ASSUME Shape, DelFromVhash
  PROVE  Shape'
<1> DEFINE i == Top[2]
           v == Top[3]
           e == IF i \in Under(v) THEN <<<<"dec", i>>>> ELSE <<>>
           c == <<<<"vhash_check", v>>>>
<1>1. todo # <<>> /\ Top[1] = "unvhash" /\ i \in Index /\ v \in Object
  BY TopIs DEF DelFromVhash, Doing, Shape, TaskIs
<1>2. e \in Seq(Plain) /\ c \in Seq(Plain)
  <2>1. <<"dec", i>> \in Plain /\ <<"vhash_check", v>> \in Plain
    BY <1>1, PlainTasks DEF Node
  <2> QED BY <2>1
<1>3. e \o c \in Seq(Plain)
  <2> HIDE DEF e, c
  <2> QED BY <1>2, SetConcat
<1>4. /\ rlookup' = [rlookup EXCEPT ![v] = IF rlookup[v] = Null THEN Null ELSE @ \ {i}]
      /\ rlookup \in [Object -> (SUBSET Index) \cup {Null}]
  <2> HIDE DEF e, c
  <2>1. rlookup \in [Object -> (SUBSET Index) \cup {Null}]
    BY DEF Shape, DataShape, Typed
  <2>2. CASE rlookup[v] = Null /\ UNCHANGED rlookup
    BY <1>1, <2>1, <2>2
  <2>3. CASE rlookup[v] # Null /\ rlookup' = [rlookup EXCEPT ![v] = @ \ {i}]
    BY <2>1, <2>3
  <2> QED BY <2>1, <2>2, <2>3 DEF DelFromVhash
<1>5. \A u \in Object : Under(u)' \subseteq Under(u)
  BY <1>1, <1>4 DEF Under
<1>6. DataShape'
  <2>1. rlookup' \in [Object -> (SUBSET Index) \cup {Null}]
    BY <1>1, <1>4
  <2>2. iter' \in Loop \cup {Null}
    BY <1>1 DEF DelFromVhash, Shape, DataShape, Typed, Loop
  <2> QED BY <1>1, <2>1, <2>2
          DEF DelFromVhash, heap, blobs, Shape, DataShape, Typed, EntriesTyped, ActionsTyped
<1>7. CASE rlookup[v] = Null
  <2>1. Then(<<>>) /\ <<>> \in Seq(Plain) /\ UNCHANGED iter
    BY <1>7 DEF DelFromVhash
  <2>2. TodoShape'
    BY <1>1, <1>5, <2>1, TaskDone DEF DelFromVhash, heap
  <2> QED BY <1>6, <2>2 DEF Shape
<1>8. CASE rlookup[v] # Null /\ ~ (iter # Null /\ i \in Under(v) /\ iter.value = v /\ iter.cur = i)
  <2>1. Then(e \o c) /\ UNCHANGED iter
    BY <1>8 DEF DelFromVhash
  <2> HIDE DEF e, c
  <2>2. TodoShape'
    BY <1>1, <1>3, <1>5, <2>1, TaskDone DEF DelFromVhash, heap
  <2> QED BY <1>6, <2>2 DEF Shape
<1>9. CASE rlookup[v] # Null /\ iter # Null /\ i \in Under(v) /\ iter.value = v /\ iter.cur = i
  <2>1. Then(c) /\ iter' = [iter EXCEPT !.gone = TRUE] /\ iter \in Loop
    BY <1>9 DEF DelFromVhash, Shape, DataShape, Typed
  <2>2. iter' # Null /\ iter'.cur = i /\ iter'.value = v
    BY <1>6, <1>9, <2>1, Apartness DEF Loop
  <2>3. rlookup'[v] = rlookup[v] \ {i}
    BY <1>1, <1>4, <1>9
  <2>4. i \notin Under(iter.value)'
    BY <2>2, <2>3 DEF Under
  <2>5. todo' = c \o Tail(todo) /\ TodoShape
    BY <2>1 DEF Then, Shape
  <2>6. held' = held /\ kept' = kept /\ \A n \in Node : life'[n] = "dying" <=> life[n] = "dying"
    BY DEF DelFromVhash, heap
  <2> HIDE DEF c
  <2>7. TodoShape'
    BY <1>1, <1>2, <1>9, <2>2, <2>4, <2>5, <2>6, PlainStep
  <2> QED BY <1>6, <2>7 DEF Shape
<1> QED BY <1>7, <1>8, <1>9

\* Taking actions out leaves typed actions.
LEMMA ShapeActions ==
  ASSUME DataShape, Fewer(acts', acts)
  PROVE  acts' \in [Node -> Seq(Action)] /\ ActionsTyped'
BY DEF DataShape, ActionsTyped, Fewer

LEMMA ShapeVhashCheck ==
  ASSUME Shape, VhashCheck
  PROVE  Shape'
<1> DEFINE v == Top[2]
<1>1. todo # <<>> /\ Top[1] = "vhash_check" /\ v \in Object /\ v \in Node
  BY TopIs DEF VhashCheck, Doing, Shape, TaskIs, Node
<1>2. <<>> \in Seq(Plain) /\ Then(<<>>)
  BY DEF VhashCheck
<1>3. rlookup' \in [Object -> (SUBSET Index) \cup {Null}] /\ \A u \in Object : Under(u)' \subseteq Under(u)
  <2>1. rlookup' = rlookup \/ (rlookup' = [rlookup EXCEPT ![v] = Null] /\ rlookup[v] = {})
    BY DEF VhashCheck
  <2>2. rlookup \in [Object -> (SUBSET Index) \cup {Null}]
    BY DEF Shape, DataShape, Typed
  <2> QED BY <1>1, <2>1, <2>2 DEF Under
<1>4. TodoShape'
  BY <1>1, <1>2, <1>3, TaskDone DEF VhashCheck, loops
<1>5. Fewer(acts', acts)
  <2>1. acts \in [Node -> Seq(Action)]
    BY DEF Shape, DataShape, Typed
  <2>2. acts' = WithoutKind(acts, v, "rlookup") \/ acts' = acts
    BY DEF VhashCheck
  <2> QED BY <1>1, <2>1, <2>2, FewerActions
<1>6. acts' \in [Node -> Seq(Action)] /\ ActionsTyped'
  BY <1>5, ShapeActions DEF Shape
<1>7. DataShape'
  BY <1>3, <1>6 DEF VhashCheck, loops, blobs, Shape, DataShape, Typed, EntriesTyped
<1> QED BY <1>4, <1>7 DEF Shape

LEMMA ShapeEncapDestroyHook ==
  ASSUME Shape, EncapDestroyHook
  PROVE  Shape'
<1> DEFINE k == Top[2]
<1>1. todo # <<>> /\ Top[1] = "encap_destroy_hook" /\ k \in Key /\ k \in Node
  BY TopIs, ActionIs DEF EncapDestroyHook, Doing, Shape, TaskIs, ActionKinds, Node, Index
<1>2. CASE life[k] = "free"
  BY <1>2, ShapeFault DEF EncapDestroyHook
<1>3. CASE life[k] # "free"
  <2>1. <<"k_encap_cleanup", k>> \in Plain
    BY <1>1, ActionTasks
  <2>2. <<<<"k_encap_cleanup", k>>>> \in Seq(Plain)
    BY <2>1
  <2>3. \A u \in Object : Under(u)' \subseteq Under(u)
    BY <1>3 DEF EncapDestroyHook, Under, tables
  <2>4. TodoShape'
    BY <1>1, <1>3, <2>2, <2>3, TaskDone DEF EncapDestroyHook, loops
  <2>5. Fewer(acts', acts)
    <3>1. acts \in [Node -> Seq(Action)]
      BY DEF Shape, DataShape, Typed
    <3>2. acts' = WithoutKind(acts, k, "k_encap_cleanup")
      BY <1>3 DEF EncapDestroyHook
    <3> QED BY <1>1, <3>1, <3>2, FewerActions
  <2>6. acts' \in [Node -> Seq(Action)] /\ ActionsTyped'
    BY <2>5, ShapeActions DEF Shape
  <2>7. DataShape'
    BY <1>3, <2>6 DEF EncapDestroyHook, loops, blobs, tables, Shape, DataShape, Typed, EntriesTyped
  <2> QED BY <2>4, <2>7 DEF Shape
<1> QED BY <1>2, <1>3

LEMMA ShapeKEncapCleanup ==
  ASSUME Shape, KEncapCleanup
  PROVE  Shape'
<1> DEFINE k == Top[2]
           o == TheObject(k)
           d == DecIf(obj[k], o)
<1>1. todo # <<>> /\ Top[1] = "k_encap_cleanup" /\ k \in Key /\ k \in Node /\ k \in Index
  BY TopIs, ActionIs DEF KEncapCleanup, Doing, Shape, TaskIs, ActionKinds, Node, Index
<1>2. CASE life[k] = "free"
  BY <1>2, ShapeFault DEF KEncapCleanup
<1>3. CASE life[k] # "free"
  <2>1. obj[k] # "none" => o \in Object
    BY <1>1 DEF Shape, DataShape, EntriesTyped
  <2>2. d \in Seq(Plain)
    <3>1. obj[k] = "strong" => o \in Node
      BY <2>1 DEF Node
    <3> QED BY <3>1, DecIfPlain
  <2>3. FromTable(k) \in Seq(Plain)
    <3>1. /\ <<"slookup", k>> \in Plain /\ <<"flookup", k>> \in Plain
      BY <1>1, ActionTasks
    <3>2. CASE flookup[k].mode = "none"
      BY <3>2 DEF FromTable
    <3>3. CASE flookup[k].mode = "undef"
      BY <3>1, <3>3 DEF FromTable
    <3>4. CASE flookup[k].mode \in Ref
      <4>1. <<"unvhash", k, flookup[k].value>> \in Plain
        BY <1>1, <3>4, PlainTasks DEF Shape, DataShape, EntriesTyped
      <4> QED BY <3>1, <3>4, <4>1 DEF FromTable, Ref
    <3>5. flookup[k].mode \in Entry
      BY <1>1 DEF Shape, DataShape, Typed
    <3> QED BY <3>2, <3>3, <3>4, <3>5 DEF Entry
  <2>4. FromTable(k) \o d \in Seq(Plain)
    <3> HIDE DEF d
    <3> QED BY <2>2, <2>3, SetConcat
  <2>5. \A u \in Object : Under(u)' \subseteq Under(u)
    BY <1>3 DEF KEncapCleanup, Under, tables
  <2>6. TodoShape'
    BY <1>1, <1>3, <2>4, <2>5, TaskDone DEF KEncapCleanup, loops
  <2>7. Fewer(acts', acts)
    <3>1. acts \in [Node -> Seq(Action)]
      BY DEF Shape, DataShape, Typed
    <3>2. acts' = acts \/ (acts' = Without(acts, o, <<"encap_destroy_hook", k>>) /\ o \in Node)
      BY <1>3, <2>1 DEF KEncapCleanup, Ref, Node
    <3> HIDE DEF o
    <3> QED BY <3>1, <3>2, FewerActions
  <2>8. acts' \in [Node -> Seq(Action)] /\ ActionsTyped'
    BY <2>7, ShapeActions DEF Shape
  <2>9. DataShape'
    BY <1>1, <1>3, <2>8, ZenonT(60) DEF KEncapCleanup, loops, tables, Shape, DataShape, Typed, EntriesTyped, Entry
  <2> QED BY <2>6, <2>9 DEF Shape
<1> QED BY <1>2, <1>3

LEMMA ShapeEncapAttrDestroyHook ==
  ASSUME Shape, EncapAttrDestroyHook
  PROVE  Shape'
<1> DEFINE a == Top[2]
           o == TheObject(a)
           d == DecIf(obj[a], o)
           s == <<<<"attr_destroy_trigger", a>>, <<"dec", a>>>>
<1>1. todo # <<>> /\ Top[1] = "encap_attr_destroy_hook" /\ a \in Attr /\ a \in Node /\ a \in Index
  BY TopIs, ActionIs DEF EncapAttrDestroyHook, Doing, Shape, TaskIs, ActionKinds, Node, Index
<1>2. CASE life[a] = "free"
  BY <1>2, ShapeFault DEF EncapAttrDestroyHook
<1>3. CASE life[a] # "free"
  <2>1. d \in Seq(Plain)
    <3>1. obj[a] = "strong" => o \in Node
      BY <1>1 DEF Shape, DataShape, EntriesTyped, Node
    <3> QED BY <3>1, DecIfPlain
  <2>2. s \in Seq(Plain)
    <3>1. <<"attr_destroy_trigger", a>> \in Plain /\ <<"dec", a>> \in Plain
      BY <1>1, ActionTasks, PlainTasks
    <3> QED BY <3>1
  <2>3. d \o s \in Seq(Plain)
    <3> HIDE DEF d, s
    <3> QED BY <2>1, <2>2, SetConcat
  <2>4. \A u \in Object : Under(u)' \subseteq Under(u)
    BY <1>3 DEF EncapAttrDestroyHook, Under, tables
  <2>5. Then(d \o s)
    BY <1>3 DEF EncapAttrDestroyHook
  <2>6. TodoShape'
    <3> HIDE DEF d, s
    <3> QED BY <1>1, <1>3, <2>3, <2>4, <2>5, TaskDone DEF EncapAttrDestroyHook, loops
  <2>7. rc' \in [Node -> Int]
    BY <1>1, <1>3 DEF EncapAttrDestroyHook, AddRef, Shape, DataShape, Typed
  <2>8. DataShape'
    BY <1>1, <1>3, <2>7, ZenonT(60) DEF EncapAttrDestroyHook, loops, tables, Shape, DataShape, Typed, EntriesTyped,
                            ActionsTyped, Entry
  <2> QED BY <2>6, <2>8 DEF Shape
<1> QED BY <1>2, <1>3

LEMMA ShapeAttrDestroyTrigger ==
  ASSUME Shape, AttrDestroyTrigger
  PROVE  Shape'
<1> DEFINE a == Top[2]
           o == TheObject(a)
           d == DecIf(obj[a], o)
           s == <<<<"attr_lookup", a>>>>
           own == WithoutKind(acts, a, "attr_destroy_trigger")
<1>1. todo # <<>> /\ Top[1] = "attr_destroy_trigger" /\ a \in Attr /\ a \in Node /\ a \in Index
  BY TopIs, ActionIs DEF AttrDestroyTrigger, Doing, Shape, TaskIs, ActionKinds, Node, Index
<1>2. CASE Fault("use of a freed attribute or object")
  BY <1>2, ShapeFault
<1>3. CASE /\ acts' = IF obj_paddr[a] THEN WithoutKind(own, o, "encap_attr_destroy_hook") ELSE own
           /\ obj' = [obj EXCEPT ![a] = IF obj[a] = "none" THEN "none" ELSE "dangling"]
           /\ Then(d \o s)
           /\ UNCHANGED <<held, life, rc, kept, tables, obj_paddr, attrhash, loops, err>>
  <2>1. d \in Seq(Plain)
    <3>1. obj[a] = "strong" => o \in Node
      BY <1>1 DEF Shape, DataShape, EntriesTyped, Node
    <3> QED BY <3>1, DecIfPlain
  <2>2. s \in Seq(Plain)
    <3>1. <<"attr_lookup", a>> \in Plain
      BY <1>1, PlainTasks
    <3> QED BY <3>1
  <2>3. d \o s \in Seq(Plain)
    <3> HIDE DEF d, s
    <3> QED BY <2>1, <2>2, SetConcat
  <2>4. \A u \in Object : Under(u)' \subseteq Under(u)
    BY <1>3 DEF Under, tables
  <2>5. TodoShape'
    <3> HIDE DEF d, s
    <3> QED BY <1>1, <1>3, <2>3, <2>4, TaskDone DEF loops
  <2>6. Fewer(acts', acts)
    <3>1. acts \in [Node -> Seq(Action)]
      BY DEF Shape, DataShape, Typed
    <3>2. Fewer(own, acts)
      BY <1>1, <3>1, FewerActions
    <3>3. own \in [Node -> Seq(Action)]
      BY <3>2 DEF Fewer
    <3>4. obj_paddr[a] => o \in Node
      BY <1>1 DEF Shape, DataShape, EntriesTyped, Node
    <3> HIDE DEF own, o
    <3>5. Fewer(acts', own)
      BY <1>3, <3>3, <3>4, FewerActions
    <3> QED BY <3>1, <3>2, <3>5, FewerActions
  <2>7. acts' \in [Node -> Seq(Action)] /\ ActionsTyped'
    BY <2>6, ShapeActions DEF Shape
  <2>8. DataShape'
    BY <1>1, <1>3, <2>7 DEF loops, tables, Shape, DataShape, Typed, EntriesTyped, Entry
  <2> QED BY <2>5, <2>8 DEF Shape
<1> QED BY <1>2, <1>3 DEF AttrDestroyTrigger

LEMMA ShapeDelAttrLookup ==
  ASSUME Shape, DelAttrLookup
  PROVE  Shape'
<1> DEFINE a == Top[2]
           s == <<<<"values", a>>, <<"ka_end", a>>>>
<1>1. todo # <<>> /\ Top[1] = "attr_lookup" /\ a \in Attr /\ a \in Node
  BY TopIs DEF DelAttrLookup, Doing, Shape, TaskIs, Node, Index
<1>2. CASE life[a] = "free"
  BY <1>2, ShapeFault DEF DelAttrLookup
<1>3. CASE life[a] # "free"
  <2>1. s \in Seq(Plain) /\ <<"ka_end", a>> \in ToSet(s)
    <3>1. <<"values", a>> \in Plain /\ <<"ka_end", a>> \in Plain
      BY <1>1, PlainTasks
    <3>2. s \in Seq(Plain)
      BY <3>1
    <3>3. 2 \in DOMAIN s /\ s[2] = <<"ka_end", a>>
      OBVIOUS
    <3> HIDE DEF s
    <3> QED BY <3>2, <3>3 DEF ToSet
  <2>2. todo' = s \o Tail(todo) /\ TodoShape
    BY <1>3 DEF DelAttrLookup, Then, Shape
  <2>3. UNCHANGED <<held, life, rlookup, iter>> /\ kept' = kept \cup {a}
    BY <1>3 DEF DelAttrLookup, loops
  <2> HIDE DEF s
  <2>4. iter' # Null /\ iter'.gone => iter'.cur \in Index /\ iter'.cur \notin Under(iter.value)'
    BY <2>2, <2>3 DEF TodoShape, LoopOpen, Under
  <2>5. TodoShape'
    BY <1>1, <2>1, <2>2, <2>3, <2>4, PlainStep
  <2>6. DataShape'
    <3>1. kept' \in SUBSET Node /\ attr_lookup' \in [Attr -> Entry]
      <4>1. kept' = kept \cup {a} /\ attr_lookup' = [attr_lookup EXCEPT ![a] = "none"]
        BY <1>3 DEF DelAttrLookup
      <4>2. kept \in SUBSET Node /\ attr_lookup \in [Attr -> Entry] /\ "none" \in Entry
        BY DEF Shape, DataShape, Typed, Entry
      <4> QED BY <1>1, <4>1, <4>2
    <3> QED BY <1>3, <3>1 DEF DelAttrLookup, loops, blobs, Shape, DataShape, Typed, EntriesTyped,
                              ActionsTyped
  <2> QED BY <2>5, <2>6 DEF Shape
<1> QED BY <1>2, <1>3

LEMMA ShapeDelFromAttrhash ==
  ASSUME Shape, DelFromAttrhash
  PROVE  Shape'
<1> DEFINE a == Top[2]
           v == Top[3]
<1>1. todo # <<>> /\ Top[1] = "unhash" /\ a \in Attr /\ v \in Object /\ v \in Node
  BY TopIs DEF DelFromAttrhash, Doing, Shape, TaskIs, Node
<1>2. DecIf(attrhash[a][v], v) \in Seq(Plain)
  BY <1>1, DecIfPlain
<1>3. \A u \in Object : Under(u)' \subseteq Under(u)
  BY DEF DelFromAttrhash, Under, tables
<1>4. TodoShape'
  BY <1>1, <1>2, <1>3, TaskDone DEF DelFromAttrhash, loops
<1>5. attrhash' \in [Attr -> [Object -> Entry]]
  <2>1. attrhash' = [attrhash EXCEPT ![a][v] = "none"] /\ attrhash \in [Attr -> [Object -> Entry]]
    BY DEF DelFromAttrhash, Shape, DataShape, Typed
  <2> QED BY <1>1, <2>1 DEF Entry
<1>6. Fewer(acts', acts)
  <2>1. acts \in [Node -> Seq(Action)] /\ acts' = Without(acts, v, <<"attrhash", a, v>>)
    BY DEF DelFromAttrhash, Shape, DataShape, Typed
  <2> QED BY <1>1, <2>1, FewerActions
<1>7. acts' \in [Node -> Seq(Action)] /\ ActionsTyped'
  BY <1>6, ShapeActions DEF Shape
<1>8. DataShape'
  BY <1>5, <1>7 DEF DelFromAttrhash, loops, tables, Shape, DataShape, Typed, EntriesTyped
<1> QED BY <1>4, <1>8 DEF Shape

LEMMA ShapePurgeEnd ==
  ASSUME Shape, PurgeEnd
  PROVE  Shape'
<1> DEFINE v == Top[2]
           s == <<<<"rlookup", v>>, <<"dec", v>>>>
<1>1. todo # <<>> /\ Top[1] = "purge_end" /\ v \in Object /\ v \in Node
  BY TopIs DEF PurgeEnd, Doing, Shape, TaskIs, Node
<1>2. s \in Seq(Plain)
  <2>1. <<"rlookup", v>> \in Plain /\ <<"dec", v>> \in Plain
    BY <1>1, ActionTasks, PlainTasks
  <2> QED BY <2>1
<1>3. \A u \in Object : Under(u)' \subseteq Under(u)
  BY DEF PurgeEnd, Under, tables
<1>4. Then(s)
  BY DEF PurgeEnd
<1> HIDE DEF s
<1>5. TodoShape'
  BY <1>1, <1>2, <1>3, <1>4, TaskDone DEF PurgeEnd, loops
<1>6. Fewer(acts', acts)
  <2>1. acts \in [Node -> Seq(Action)] /\ acts' = WithoutKind(acts, v, "rlookup")
    BY DEF PurgeEnd, Shape, DataShape, Typed
  <2> QED BY <1>1, <2>1, FewerActions
<1>7. acts' \in [Node -> Seq(Action)] /\ ActionsTyped'
  BY <1>6, ShapeActions DEF Shape
<1>8. DataShape'
  BY <1>7 DEF PurgeEnd, loops, blobs, tables, Shape, DataShape, Typed, EntriesTyped
<1> QED BY <1>5, <1>8 DEF Shape

LEMMA ShapePushValue ==
  ASSUME Shape, PushValue
  PROVE  Shape'
<1> DEFINE v == Top[2]
<1>1. todo # <<>> /\ Top[1] = "push" /\ v \in Object /\ v \in Node
  BY TopIs DEF PushValue, Doing, Shape, TaskIs, Node
<1>2. CASE life[v] # "live"
  BY <1>2, ShapeFault DEF PushValue, Died
<1>3. CASE life[v] = "live"
  <2>1. <<>> \in Seq(Plain) /\ Then(<<>>)
    BY <1>3 DEF PushValue
  <2>2. \A u \in Object : Under(u)' \subseteq Under(u)
    BY <1>3 DEF PushValue, Under, tables
  <2>3. TodoShape'
    BY <1>1, <1>3, <2>1, <2>2, TaskDone DEF PushValue
  <2>4. rc' \in [Node -> Int]
    BY <1>1, <1>3 DEF PushValue, AddRef, Shape, DataShape, Typed
  <2>5. values' \in SUBSET Object
    BY <1>1, <1>3 DEF PushValue, Shape, DataShape, Typed
  <2>6. UNCHANGED <<held, life, kept, acts, tables, blobs, iter, err>>
    BY <1>3 DEF PushValue
  <2>7. DataShape'
    <3>1. Typed'
      BY <2>4, <2>5, <2>6 DEF blobs, tables, Shape, DataShape, Typed
    <3>2. EntriesTyped' /\ ActionsTyped'
      BY <2>6 DEF blobs, tables, Shape, DataShape, EntriesTyped, ActionsTyped
    <3> QED BY <3>1, <3>2 DEF DataShape
  <2> QED BY <2>3, <2>7 DEF Shape
<1> QED BY <1>2, <1>3

-----------------------------------------------------------------------------
(* The steps that push what counts on what is below, or that end a loop or  *)
(* a bracket.                                                               *)

\* Taking a value out of an attribute's hash and the attribute out of its vhash.
LEMMA GroundedUnhash ==
  ASSUME NEW a \in Attr, NEW v \in Object, NEW t \in Seq(Task), NEW H, GroundedIn(t, H), NoHook(ToSet(t))
  PROVE  LET s == <<<<"unhash", a, v>>, <<"unvhash", a, v>>>>
         IN  /\ GroundedIn(s \o t, H) /\ s \o t \in Seq(Task) /\ s \in Seq(Task)
             /\ ToSet(s \o t) = {<<"unhash", a, v>>, <<"unvhash", a, v>>} \cup ToSet(t)
             /\ NoHook(ToSet(s \o t))
<1> DEFINE x == <<"unhash", a, v>>
           y == <<"unvhash", a, v>>
           r == <<y>> \o t
<1>1. x \in Task /\ y \in Plain /\ y \in Task
  BY OtherTasks, PlainTasks DEF Index, Plain
<1>2. <<x, y>> \in Seq(Task) /\ <<x, y>> = <<x>> \o <<y>> /\ <<x>> \in Seq(Task) /\ <<y>> \in Seq(Task)
  <2> HIDE DEF x, y
  <2>1. <<x, y>> = <<x>> \o <<y>>
    BY <1>1, PairConcat
  <2>2. <<x, y>> \in Seq(Task) /\ <<x>> \in Seq(Task) /\ <<y>> \in Seq(Task)
    BY <1>1
  <2> QED BY <2>1, <2>2
<1>3. <<x, y>> \o t = <<x>> \o r
  <2> DEFINE sx == <<x>>
             sy == <<y>>
  <2>1. sx \in Seq(Task) /\ sy \in Seq(Task) /\ <<x, y>> = sx \o sy
    BY <1>2
  <2> HIDE DEF sx, sy
  <2>2. (sx \o sy) \o t = sx \o (sy \o t)
    BY <2>1, ConcatAssoc
  <2> QED BY <2>1, <2>2 DEF sx, sy
<1>4. r \in Seq(Task) /\ ToSet(r) = {y} \cup ToSet(t)
  BY <1>1, PushOne
<1>5. GroundedIn(r, H)
  <2>1. Grounded(y, ToSet(t), H)
    BY <1>1, PlainGrounded
  <2> QED BY <1>1, <2>1, GroundedPush
<1>6. NoHook(ToSet(r))
  BY <1>4 DEF NoHook
<1>7. Grounded(x, ToSet(r), H)
  BY <1>4, <1>6 DEF Grounded, NoHook
<1> HIDE DEF r, x
<1>8. GroundedIn(<<x>> \o r, H)
  BY <1>1, <1>4, <1>5, <1>7, GroundedPush
<1>9. <<x>> \o r \in Seq(Task) /\ ToSet(<<x>> \o r) = {x} \cup ToSet(r)
  BY <1>1, <1>4, PushOne
<1>10. NoHook({x} \cup ToSet(r))
  BY <1>6 DEF NoHook, x
<1> QED BY <1>2, <1>3, <1>4, <1>8, <1>9, <1>10 DEF x

\* No dying node appears or goes.
LEMMA FreeStill ==
  ASSUME TodoShape, todo # <<>>, Top[1] # "free", NEW S, ToSet(todo') = S \cup ToSet(Tail(todo)),
         \A x \in S : x[1] # "free", \A n \in Node : life'[n] = "dying" <=> life[n] = "dying"
  PROVE  FreeOpen'
<1> SUFFICES ASSUME NEW n \in Node
             PROVE  life[n] = "dying" <=> <<"free", n>> \in ToSet(todo')
  BY DEF FreeOpen
<1>1. <<"free", n>> # Top /\ <<"free", n>> \notin S
  OBVIOUS
<1>2. <<"free", n>> \in ToSet(todo') <=> <<"free", n>> \in ToSet(todo)
  BY <1>1, TopIs
<1> QED BY <1>2 DEF TodoShape, FreeOpen

\* Every bracket that is open is still closed.
LEMMA KeptStill ==
  ASSUME TodoShape, todo # <<>>, NEW S, ToSet(todo') = S \cup ToSet(Tail(todo)),
         \A n \in kept' : (n \in kept /\ <<"ka_end", n>> # Top) \/ <<"ka_end", n>> \in S
  PROVE  KeptOpen'
BY TopIs DEF TodoShape, KeptOpen

\* No loop of purge begins or ends.
LEMMA LoopStill ==
  ASSUME TodoShape, todo # <<>>, NEW S, ToSet(todo') = S \cup ToSet(Tail(todo)),
         (\E x \in S : x[1] = "foreach") <=> Top[1] = "foreach",
         iter' = iter, rlookup' = rlookup
  PROVE  LoopOpen'
<1>1. (\E x \in ToSet(todo') : x[1] = "foreach") <=> (\E x \in ToSet(todo) : x[1] = "foreach")
  BY TopIs
<1> QED BY <1>1 DEF TodoShape, LoopOpen, Under

LEMMA ShapeEachValue ==
  ASSUME Shape, EachValue
  PROVE  Shape'
<1> DEFINE a == Top[2]
<1>1. todo # <<>> /\ Top[1] = "values" /\ a \in Attr
  BY TopIs DEF EachValue, Doing, Shape, TaskIs
<1>2. CASE Fault("use of a freed attribute")
  BY <1>2, ShapeFault
<1>3. ASSUME NEW v \in Object, Fault("use of a freed value")
      PROVE  Shape'
  BY <1>3, ShapeFault
<1>4. ASSUME NEW v \in Object, kept' = kept \cup {v},
             todo' = <<<<"unhash", a, v>>, <<"unvhash", a, v>>>>
                      \o (IF v \in kept THEN <<>> ELSE <<<<"ka_end", v>>>>) \o todo,
             UNCHANGED <<held, life, rc, acts, tables, blobs, loops, err>>
      PROVE  Shape'
  <2> DEFINE e == IF v \in kept THEN <<>> ELSE <<<<"ka_end", v>>>>
             u == <<<<"unhash", a, v>>, <<"unvhash", a, v>>>>
             r == e \o todo
             S == {<<"unhash", a, v>>, <<"unvhash", a, v>>} \cup ToSet(e) \cup {Top}
  <2>1. v \in Node /\ todo \in Seq(Task) /\ GroundedIn(todo, held)
    BY DEF Node, Shape, TodoShape, AllGrounded
  <2>2. NoHook(ToSet(todo)) /\ ToSet(todo) = {Top} \cup ToSet(Tail(todo))
    BY <1>1, TopIs DEF Shape, NoHook
  <2>3. e \in Seq(Plain) /\ e \in Seq(Task)
        /\ ToSet(e) = IF v \in kept THEN {} ELSE {<<"ka_end", v>>}
    <3>1. <<"ka_end", v>> \in Plain
      BY <2>1, PlainTasks
    <3>2. e \in Seq(Plain) /\ ToSet(e) = IF v \in kept THEN {} ELSE {<<"ka_end", v>>}
      BY <3>1, MaybeOne
    <3> HIDE DEF e
    <3> QED BY <3>2 DEF Plain
  <2> HIDE DEF e
  <2>4. GroundedIn(r, held) /\ NoHook(ToSet(r)) /\ r \in Seq(Task) /\ ToSet(r) = ToSet(e) \cup ToSet(todo)
    BY <2>1, <2>2, <2>3, GroundedPlain
  <2>5. todo' = u \o r /\ u \in Seq(Task)
    <3>1. u \in Seq(Task)
      BY <1>1, <2>4, GroundedUnhash
    <3>2. todo' = (u \o e) \o todo
      BY <1>4 DEF e
    <3> HIDE DEF u
    <3> QED BY <2>1, <2>3, <3>1, <3>2, ConcatAssoc
  <2> HIDE DEF r
  <2>6. /\ GroundedIn(todo', held) /\ todo' \in Seq(Task)
        /\ ToSet(todo') = {<<"unhash", a, v>>, <<"unvhash", a, v>>} \cup ToSet(r)
    BY <1>1, <2>4, <2>5, GroundedUnhash
  <2>7. ToSet(todo') = S \cup ToSet(Tail(todo))
    BY <2>2, <2>4, <2>6
  <2>8. LoopOpen'
    <3>1. \A x \in S : x[1] # "foreach"
      BY <1>1, <2>3
    <3> HIDE DEF S
    <3> QED BY <1>1, <1>4, <2>7, <3>1, LoopStill DEF Shape, tables, loops
  <2>9. KeptOpen'
    <3>1. \A n \in kept' : (n \in kept /\ <<"ka_end", n>> # Top) \/ <<"ka_end", n>> \in S
      BY <1>1, <1>4, <2>3
    <3> HIDE DEF S
    <3> QED BY <1>1, <2>7, <3>1, KeptStill DEF Shape
  <2>10. FreeOpen'
    <3>1. \A x \in S : x[1] # "free"
      BY <1>1, <2>3
    <3> HIDE DEF S
    <3> QED BY <1>1, <1>4, <2>7, <3>1, FreeStill DEF Shape
  <2>11. DataShape'
    BY <1>4, <2>1 DEF loops, blobs, tables, Shape, DataShape, Typed, EntriesTyped, ActionsTyped
  <2>12. AllGrounded'
    BY <1>4, <2>6 DEF AllGrounded
  <2> QED BY <2>6, <2>8, <2>9, <2>10, <2>11, <2>12 DEF Shape, TodoShape
<1>5. CASE Then(<<>>) /\ UNCHANGED <<held, heap, tables, blobs, loops, err>>
  <2>1. <<>> \in Seq(Plain) /\ Then(<<>>)
    BY <1>5
  <2>2. \A u \in Object : Under(u)' \subseteq Under(u)
    BY <1>5 DEF Under, tables
  <2>3. TodoShape'
    BY <1>1, <1>5, <2>1, <2>2, TaskDone DEF heap, loops
  <2> QED BY <1>5, <2>3, SameData DEF Shape
<1> QED BY <1>2, <1>3, <1>4, <1>5 DEF EachValue

LEMMA ShapeKaEnd ==
  ASSUME Shape, KaEnd
  PROVE  Shape'
<1> DEFINE n == Top[2]
<1>1. todo # <<>> /\ Top[1] = "ka_end" /\ n \in Node /\ Top = <<"ka_end", n>> /\ kept' = kept \ {n}
  BY TopIs DEF KaEnd, Doing, Shape, TaskIs
<1>2. CASE life[n] = "live" /\ rc[n] <= 0
  <2>1. Die(n) /\ UNCHANGED <<held, acts, rlookup, obj_paddr, loops>>
    BY <1>2 DEF KaEnd
  <2> QED BY <1>1, <1>2, <2>1, ShapeDie
<1>3. CASE ~ (life[n] = "live" /\ rc[n] <= 0)
  <2>1. todo' = <<>> \o Tail(todo) /\ UNCHANGED <<held, life, rc, acts, tables, blobs, loops, err>>
    BY <1>3 DEF KaEnd, Then
  <2>2. todo' = Tail(todo) /\ Tail(todo) \in Seq(Task) /\ GroundedIn(Tail(todo), held)
    BY <1>1, <2>1, TopIs DEF Shape
  <2>3. ToSet(todo') = {} \cup ToSet(Tail(todo))
    BY <2>2
  <2>4. LoopOpen'
    BY <1>1, <2>1, <2>3, LoopStill DEF Shape, tables, loops
  <2>5. KeptOpen'
    <3>1. \A m \in kept' : (m \in kept /\ <<"ka_end", m>> # Top) \/ <<"ka_end", m>> \in {}
      BY <1>1
    <3> QED BY <1>1, <2>3, <3>1, KeptStill DEF Shape
  <2>6. FreeOpen'
    <3>1. (\A x \in {} : x[1] # "free") /\ \A m \in Node : life'[m] = "dying" <=> life[m] = "dying"
      BY <2>1
    <3> QED BY <1>1, <2>3, <3>1, FreeStill DEF Shape
  <2>7. DataShape'
    BY <1>1, <2>1 DEF loops, blobs, tables, Shape, DataShape, Typed, EntriesTyped, ActionsTyped
  <2>8. AllGrounded'
    BY <2>1, <2>2 DEF AllGrounded
  <2> QED BY <2>2, <2>4, <2>5, <2>6, <2>7, <2>8 DEF Shape, TodoShape
<1> QED BY <1>2, <1>3

LEMMA ShapePurgeBegin ==
  ASSUME Shape, PurgeBegin
  PROVE  Shape'
<1> DEFINE v == Top[2]
           t == Tail(todo)
<1>1. todo # <<>> /\ Top[1] = "purge" /\ v \in Object /\ v \in Node /\ Top = <<"purge", v>>
  BY TopIs DEF PurgeBegin, Doing, Shape, TaskIs, Node
<1>2. PICK s \in SetToSeqs(Under(v)) : Then(<<<<"foreach", v, s>>>>)
  BY DEF PurgeBegin
<1>3. s \in Seq(Index)
  <2>1. Under(v) \subseteq Index
    BY <1>1, UnderIs DEF Shape, DataShape
  <2>2. IsFiniteSet(Under(v))
    BY <2>1, Finite, FS_Subset
  <2> HIDE DEF v
  <2>3. s \in Seq(Under(v))
    BY <2>2, OrderProps
  <2> QED BY <2>1, <2>3
<1> DEFINE f == <<"foreach", v, s>>
<1>4. f \in Task
  BY <1>1, <1>3, OtherTasks
<1>5. /\ t \in Seq(Task) /\ GroundedIn(t, held) /\ NoHook(ToSet(t)) /\ \A b \in ToSet(t) : b[1] # "foreach"
  BY <1>1, TopIs DEF Shape, Grounded
<1>6. todo' = <<f>> \o t
  BY <1>2 DEF Then
<1>7. Grounded(f, ToSet(t), held)
  BY <1>5 DEF Grounded, NoHook
<1> HIDE DEF f, t
<1>8. todo' \in Seq(Task) /\ ToSet(todo') = {f} \cup ToSet(t)
  BY <1>4, <1>5, <1>6, PushOne
<1>9. ToSet(todo') = {f} \cup ToSet(Tail(todo))
  BY <1>8 DEF t
<1>10. GroundedIn(<<f>> \o t, held)
  BY <1>4, <1>5, <1>7, GroundedPush
<1>11. AllGrounded' /\ UNCHANGED <<held, life, kept>>
  BY <1>6, <1>10 DEF AllGrounded, PurgeBegin
<1>12. LoopOpen'
  <2>1. iter' = [value |-> v, cur |-> Null, gone |-> FALSE] /\ f[1] = "foreach"
    BY DEF PurgeBegin, f
  <2>2. iter' # Null
    <3>1. iter' \in Loop
      BY <1>1, <2>1 DEF Loop
    <3> QED BY <3>1, Apartness
  <2> QED BY <1>8, <2>1, <2>2 DEF LoopOpen
<1>13. KeptOpen'
  <2>1. \A n \in kept' : (n \in kept /\ <<"ka_end", n>> # Top) \/ <<"ka_end", n>> \in {f}
    BY <1>1, <1>11
  <2> QED BY <1>1, <1>9, <2>1, KeptStill DEF Shape
<1>14. FreeOpen'
  <2>1. \A x \in {f} : x[1] # "free"
    BY DEF f
  <2>2. \A n \in Node : life'[n] = "dying" <=> life[n] = "dying"
    BY <1>11
  <2>3. TodoShape /\ todo # <<>> /\ Top[1] # "free"
    BY <1>1 DEF Shape
  <2> DEFINE S == {f}
  <2>4. ToSet(todo') = S \cup ToSet(Tail(todo)) /\ \A x \in S : x[1] # "free"
    BY <1>9, <2>1
  <2> HIDE DEF S
  <2> QED BY <2>2, <2>3, <2>4, FreeStill
<1>15. DataShape'
  <2>1. rc' \in [Node -> Int]
    BY <1>1 DEF PurgeBegin, AddRef, Shape, DataShape, Typed
  <2>2. iter' \in Loop
    BY <1>1 DEF PurgeBegin, Loop
  <2> QED BY <2>1, <2>2 DEF PurgeBegin, blobs, tables, Shape, DataShape, Typed, EntriesTyped, ActionsTyped
<1> QED BY <1>8, <1>11, <1>12, <1>13, <1>14, <1>15 DEF Shape, TodoShape

\* The reference foreach has to an element that has left the vhash.
LEMMA LastPlain ==
  ASSUME Shape, iter # Null
  PROVE  LET last == IF iter.gone THEN <<<<"dec", iter.cur>>>> ELSE <<>>
         IN  last \in Seq(Plain) /\ last \in Seq(Task)
             /\ ToSet(last) = IF iter.gone THEN {<<"dec", iter.cur>>} ELSE {}
<1> DEFINE x == <<"dec", iter.cur>>
           last == IF iter.gone THEN <<x>> ELSE <<>>
<1>1. CASE iter.gone
  <2>1. x \in Plain
    BY <1>1, PlainTasks DEF Shape, TodoShape, LoopOpen, Node
  <2>2. last = IF FALSE THEN <<>> ELSE <<x>>
    BY <1>1
  <2> HIDE DEF x, last
  <2>3. last \in Seq(Plain) /\ ToSet(last) = {x}
    BY <2>1, <2>2, MaybeOne
  <2>4. last \in Seq(Plain) /\ last \in Seq(Task) /\ ToSet(last) = IF iter.gone THEN {x} ELSE {}
    BY <1>1, <2>3 DEF Plain
  <2> QED BY <2>4 DEF last, x
<1>2. CASE ~ iter.gone
  <2>1. last = <<>>
    BY <1>2
  <2>2. ToSet(<<>>) = {}
    BY DEF ToSet
  <2> HIDE DEF last
  <2>3. last \in Seq(Plain) /\ last \in Seq(Task) /\ ToSet(last) = IF iter.gone THEN {x} ELSE {}
    BY <1>2, <2>1, <2>2
  <2> QED BY <2>3 DEF last
<1> QED BY <1>1, <1>2

LEMMA ShapeForeach ==
  ASSUME Shape, Foreach
  PROVE  Shape'
<1> DEFINE v == Top[2]
           rest == Top[3]
           last == IF iter.gone THEN <<<<"dec", iter.cur>>>> ELSE <<>>
           t == Tail(todo)
<1>1. todo # <<>> /\ Top[1] = "foreach" /\ v \in Object /\ v \in Node /\ rest \in Seq(Index)
  BY TopIs DEF Foreach, Doing, Shape, TaskIs, Node
<1>2. /\ t \in Seq(Task) /\ GroundedIn(t, held) /\ NoHook(ToSet(t)) /\ \A b \in ToSet(t) : b[1] # "foreach"
      /\ ToSet(todo) = {Top} \cup ToSet(t)
  BY <1>1, TopIs DEF Shape, Grounded
<1>3. iter # Null /\ iter \in Loop
  <2>1. Top \in ToSet(todo)
    BY <1>2
  <2> QED BY <1>1, <2>1 DEF Shape, DataShape, Typed, TodoShape, LoopOpen
<1>4. last \in Seq(Plain) /\ last \in Seq(Task) /\ ToSet(last) \subseteq {<<"dec", iter.cur>>}
  <2>1. last \in Seq(Plain) /\ last \in Seq(Task)
        /\ ToSet(last) = IF iter.gone THEN {<<"dec", iter.cur>>} ELSE {}
    BY <1>3, LastPlain
  <2> HIDE DEF last
  <2> QED BY <2>1
<1> HIDE DEF t, last, v, rest
<1>5. CASE rest = <<>> /\ iter' = Null /\ Then(last \o <<<<"purge_end", v>>>>)
           /\ UNCHANGED <<held, heap, tables, blobs, values, err>>
  <2> DEFINE e == <<<<"purge_end", v>>>>
             s == last \o e
  <2>1. e \in Seq(Plain) /\ ToSet(e) = {<<"purge_end", v>>}
    <3>1. <<"purge_end", v>> \in Plain
      BY <1>1, PlainTasks
    <3> QED BY <3>1, MaybeOne, SetOne
  <2> HIDE DEF e
  <2>2. s \in Seq(Plain) /\ ToSet(s) = ToSet(last) \cup ToSet(e)
    BY <1>4, <2>1, SetConcat
  <2>3. todo' = s \o t
    BY <1>5 DEF Then, t, e
  <2>4. \A x \in ToSet(s) : x[1] \in {"dec", "purge_end"}
    BY <1>4, <2>1, <2>2
  <2> HIDE DEF s
  <2>5. GroundedIn(todo', held) /\ todo' \in Seq(Task) /\ ToSet(todo') = ToSet(s) \cup ToSet(t)
    BY <1>2, <2>2, <2>3, GroundedPlain
  <2>6. ToSet(todo') = ToSet(s) \cup ToSet(Tail(todo)) /\ Shape
    BY <2>5 DEF t
  <2>7. UNCHANGED <<held, life, rc, kept, acts, tables, blobs, values>>
    BY <1>5 DEF heap
  <2>8. LoopOpen'
    BY <1>2, <1>5, <2>4, <2>5 DEF LoopOpen
  <2>9. KeptOpen'
    <3>1. \A n \in kept' : (n \in kept /\ <<"ka_end", n>> # Top) \/ <<"ka_end", n>> \in ToSet(s)
      BY <1>1, <2>7
    <3> QED BY <1>1, <2>6, <3>1, KeptStill DEF Shape
  <2>10. FreeOpen'
    <3>1. \A x \in ToSet(s) : x[1] # "free"
      BY <2>4
    <3>2. \A n \in Node : life'[n] = "dying" <=> life[n] = "dying"
      BY <2>7
    <3>3. TodoShape /\ todo # <<>> /\ Top[1] # "free"
      BY <1>1 DEF Shape
    <3> QED BY <2>6, <3>1, <3>2, <3>3, FreeStill
  <2>11. DataShape'
    BY <1>5, <2>7 DEF blobs, tables, Shape, DataShape, Typed, EntriesTyped, ActionsTyped
  <2>12. AllGrounded'
    BY <2>5, <2>7 DEF AllGrounded
  <2> QED BY <2>5, <2>8, <2>9, <2>10, <2>11, <2>12 DEF Shape, TodoShape
<1>6. CASE Fault("use of freed value in iteration")
  BY <1>6, ShapeFault
<1>7. ASSUME rest # <<>>, iter' = [iter EXCEPT !.cur = Head(rest), !.gone = FALSE],
             Then(last \o (IF Head(rest) \in Attr
                             THEN <<<<"unhash", Head(rest), v>>, <<"unvhash", Head(rest), v>>>> ELSE <<>>)
                       \o <<<<"foreach", v, Tail(rest)>>>>),
             UNCHANGED <<held, heap, tables, blobs, values, err>>
      PROVE  Shape'
  <2> DEFINE i == Head(rest)
             f == <<"foreach", v, Tail(rest)>>
             u == <<<<"unhash", i, v>>, <<"unvhash", i, v>>>>
             w == IF i \in Attr THEN u ELSE <<>>
             q == <<f>> \o t
             U == {<<"unhash", i, v>>, <<"unvhash", i, v>>}
             S == ToSet(last) \cup (IF i \in Attr THEN U ELSE {}) \cup {f}
  <2>1. i \in Index /\ Tail(rest) \in Seq(Index)
    BY <1>1, <1>7
  <2>2. f \in Task /\ f[1] = "foreach" /\ i \in Node
    BY <1>1, <2>1, OtherTasks DEF Node
  <2>3. Grounded(f, ToSet(t), held)
    BY <1>2 DEF Grounded, NoHook
  <2> HIDE DEF f
  <2>4. q \in Seq(Task) /\ ToSet(q) = {f} \cup ToSet(t) /\ GroundedIn(q, held)
    BY <1>2, <2>2, <2>3, PushOne, GroundedPush
  <2>5. NoHook(ToSet(q))
    BY <1>2, <2>2, <2>4 DEF NoHook
  <2> HIDE DEF q, i
  <2>6. /\ w \o q \in Seq(Task) /\ GroundedIn(w \o q, held) /\ NoHook(ToSet(w \o q)) /\ w \in Seq(Task)
        /\ ToSet(w \o q) = (IF i \in Attr THEN U ELSE {}) \cup ToSet(q)
    <3>1. CASE i \in Attr
      <4>1. w = u
        BY <3>1
      <4>2. /\ GroundedIn(u \o q, held) /\ u \o q \in Seq(Task) /\ u \in Seq(Task)
            /\ ToSet(u \o q) = {<<"unhash", i, v>>, <<"unvhash", i, v>>} \cup ToSet(q)
            /\ NoHook(ToSet(u \o q))
        BY <1>1, <2>4, <2>5, <3>1, GroundedUnhash
      <4> HIDE DEF u, w
      <4>3. (IF i \in Attr THEN U ELSE {}) = U
        BY <3>1
      <4> QED BY <4>1, <4>2, <4>3
    <3>2. CASE i \notin Attr
      <4>1. w = <<>> /\ w \o q = q /\ w \in Seq(Task)
        BY <3>2, <2>4
      <4>2. (IF i \in Attr THEN U ELSE {}) = {}
        BY <3>2
      <4> HIDE DEF w
      <4> QED BY <2>4, <2>5, <4>1, <4>2
    <3> QED BY <3>1, <3>2
  <2>7. todo' = last \o (w \o q)
    <3> DEFINE sf == <<f>>
    <3>1. sf \in Seq(Task)
      BY <2>2
    <3>2. todo' = ((last \o w) \o sf) \o t
      BY <1>7 DEF Then, t, i, f
    <3> HIDE DEF sf, w
    <3>3. last \o w \in Seq(Task)
      BY <1>4, <2>6, SetConcat
    <3>4. todo' = (last \o w) \o (sf \o t)
      BY <1>2, <3>1, <3>2, <3>3, ConcatAssoc, SMTT(40)
    <3>5. sf \o t \in Seq(Task)
      BY <1>2, <3>1, SetConcat
    <3>6. todo' = last \o (w \o (sf \o t))
      <4> DEFINE h == sf \o t
      <4>1. h \in Seq(Task) /\ todo' = (last \o w) \o h
        BY <3>4, <3>5
      <4> HIDE DEF h
      <4>2. (last \o w) \o h = last \o (w \o h)
        BY <1>4, <2>6, <4>1, ConcatAssoc, SMTT(40)
      <4> QED BY <4>1, <4>2 DEF h
    <3> QED BY <3>6 DEF sf, q
  <2> HIDE DEF w
  <2>8. GroundedIn(todo', held) /\ todo' \in Seq(Task) /\ ToSet(todo') = ToSet(last) \cup ToSet(w \o q)
    BY <1>4, <2>6, <2>7, GroundedPlain
  <2>9. ToSet(todo') = S \cup ToSet(Tail(todo))
    BY <2>4, <2>6, <2>8 DEF t
  <2>10. UNCHANGED <<held, life, rc, kept, acts, tables, blobs, values>>
    BY <1>7 DEF heap
  <2>11. f \in S /\ \A x \in S : x[1] # "free"
    BY <1>4, <2>2
  <2>12. iter' \in Loop /\ iter'.cur = i /\ iter'.gone = FALSE
    BY <1>3, <1>7, <2>1 DEF Loop, i
  <2> HIDE DEF S
  <2>13. LoopOpen'
    <3>1. iter' # Null
      BY <2>12, Apartness
    <3>2. f \in ToSet(todo')
      BY <2>9, <2>11
    <3> QED BY <2>2, <2>12, <3>1, <3>2 DEF LoopOpen
  <2>14. KeptOpen'
    <3>1. \A n \in kept' : (n \in kept /\ <<"ka_end", n>> # Top) \/ <<"ka_end", n>> \in S
      BY <1>1, <2>10
    <3> QED BY <1>1, <2>9, <3>1, KeptStill DEF Shape
  <2>15. FreeOpen'
    <3>1. \A n \in Node : life'[n] = "dying" <=> life[n] = "dying"
      BY <2>10
    <3>2. TodoShape /\ todo # <<>> /\ Top[1] # "free"
      BY <1>1 DEF Shape
    <3> QED BY <2>9, <2>11, <3>1, <3>2, FreeStill
  <2>16. DataShape'
    BY <2>10, <2>12 DEF blobs, tables, Shape, DataShape, Typed, EntriesTyped, ActionsTyped
  <2>17. AllGrounded'
    BY <2>8, <2>10 DEF AllGrounded
  <2> QED BY <2>8, <2>13, <2>14, <2>15, <2>16, <2>17 DEF Shape, TodoShape
<1> QED BY <1>5, <1>6, <1>7 DEF Foreach, v, rest, last

-----------------------------------------------------------------------------
(* The steps of DESTROY.                                                    *)

LEMMA ShapeDestroyAttrs ==
  ASSUME Shape, DestroyAttrs
  PROVE  Shape'
<1> DEFINE A == Top[2]
<1>1. todo # <<>> /\ Top[1] = "destroy_attrs" /\ A \in SUBSET Attr
  BY TopIs DEF DestroyAttrs, Doing, Shape, TaskIs
<1>2. ASSUME NEW s \in Seq(Plain), Then(s), UNCHANGED <<held, heap, tables, blobs, loops, err>>
      PROVE  Shape'
  <2>1. \A u \in Object : Under(u)' \subseteq Under(u)
    BY <1>2 DEF Under, tables
  <2>2. TodoShape'
    BY <1>1, <1>2, <2>1, TaskDone DEF heap, loops
  <2> QED BY <1>2, <2>2, SameData DEF Shape
<1>3. CASE Then(<<>>) /\ UNCHANGED <<held, heap, tables, blobs, loops, err>>
  <2>1. <<>> \in Seq(Plain)
    OBVIOUS
  <2> QED BY <1>2, <1>3, <2>1
<1>4. ASSUME NEW a \in A, NEW V \in SUBSET Object,
             Then(<<<<"destroy_attr", a, V>>, <<"destroy_attrs", A \ {a}>>>>),
             UNCHANGED <<held, heap, tables, blobs, loops, err>>
      PROVE  Shape'
  <2> DEFINE s == <<<<"destroy_attr", a, V>>, <<"destroy_attrs", A \ {a}>>>>
  <2>1. s \in Seq(Plain)
    <3>1. <<"destroy_attr", a, V>> \in Plain /\ <<"destroy_attrs", A \ {a}>> \in Plain
      BY <1>1, PlainTasks
    <3> QED BY <3>1
  <2>2. Then(s)
    BY <1>4
  <2> HIDE DEF s
  <2> QED BY <1>2, <1>4, <2>1, <2>2
<1>5. CASE Died
  BY <1>5, ShapeFault DEF Died
<1>6. ASSUME NEW a \in A,
             LET V == {v \in Object : attrhash[a][v] # "none"} IN
               /\ Then(<<<<"destroy_attr", a, V>>, <<"destroy_attrs", A \ {a}>>>>)
               /\ UNCHANGED <<held, heap, tables, blobs, loops, err>>
      PROVE  Shape'
  <2> DEFINE V == {v \in Object : attrhash[a][v] # "none"}
  <2>1. /\ V \in SUBSET Object /\ Then(<<<<"destroy_attr", a, V>>, <<"destroy_attrs", A \ {a}>>>>)
        /\ UNCHANGED <<held, heap, tables, blobs, loops, err>>
    BY <1>6
  <2> HIDE DEF V, A
  <2> QED BY <1>4, <1>6, <2>1
<1> QED BY <1>3, <1>5, <1>6 DEF DestroyAttrs

LEMMA ShapeDestroyAttr ==
  ASSUME Shape, DestroyAttr
  PROVE  Shape'
<1> DEFINE a == Top[2]
           V == Top[3]
           t == Tail(todo)
<1>1. todo # <<>> /\ Top[1] = "destroy_attr" /\ a \in Attr /\ V \in SUBSET Object
  BY TopIs DEF DestroyAttr, Doing, Shape, TaskIs
<1>2. /\ t \in Seq(Task) /\ GroundedIn(t, held) /\ NoHook(ToSet(t))
      /\ ToSet(todo) = {Top} \cup ToSet(t)
  BY <1>1, TopIs DEF Shape
<1>3. CASE Then(<<>>) /\ UNCHANGED <<held, heap, tables, blobs, loops, err>>
  <2>1. <<>> \in Seq(Plain) /\ \A u \in Object : Under(u)' \subseteq Under(u)
    BY <1>3 DEF Under, tables
  <2>2. TodoShape'
    BY <1>1, <1>3, <2>1, TaskDone DEF heap, loops
  <2> QED BY <1>3, <2>2, SameData DEF Shape
<1>4. CASE Died
  BY <1>4, ShapeFault DEF Died
<1>5. ASSUME NEW v \in V,
             rc' = IF attrhash[a][v] = "strong" THEN AddRef(rc, v) ELSE rc,
             Then(<<<<"unhash", a, v>>, <<"unvhash", a, v>>, <<"push", v>>>>
                  \o DecIf(attrhash[a][v], v) \o <<<<"destroy_attr", a, V \ {v}>>>>),
             UNCHANGED <<held, life, kept, acts, tables, blobs, loops, err>>
      PROVE  Shape'
  <2> DEFINE x == <<"unhash", a, v>>
             y == <<"unvhash", a, v>>
             z == <<"push", v>>
             u == <<x, y>>
             p == <<z>>
             d == DecIf(attrhash[a][v], v)
             e == <<<<"destroy_attr", a, V \ {v}>>>>
             w == (p \o d) \o e
             S == {x, y} \cup ToSet(w)
  <2>1. v \in Object /\ v \in Node
    BY <1>1 DEF Node
  <2>2. p \in Seq(Plain) /\ e \in Seq(Plain) /\ d \in Seq(Plain)
        /\ x \in Task /\ y \in Task /\ z \in Task
    <3>1. <<"push", v>> \in Plain /\ <<"destroy_attr", a, V \ {v}>> \in Plain /\ y \in Plain
      BY <1>1, <2>1, PlainTasks DEF Index
    <3>2. d \in Seq(Plain)
      BY <2>1, DecIfPlain
    <3>3. x \in Task
      BY <1>1, <2>1, OtherTasks
    <3> HIDE DEF d, x, y
    <3> QED BY <3>1, <3>2, <3>3 DEF Plain
  <2>3. u \in Seq(Task) /\ <<x, y, z>> = u \o p
    <3> HIDE DEF x, y, z
    <3> QED BY <2>2, TripleConcat
  <2>4. todo' = ((<<x, y, z>> \o d) \o e) \o t
    BY <1>5 DEF Then
  <2> HIDE DEF p, d, e, u, t
  <2>5. w \in Seq(Plain) /\ w \in Seq(Task) /\ p \o d \in Seq(Plain)
    <3>1. p \o d \in Seq(Plain)
      BY <2>2, SetConcat
    <3>2. w \in Seq(Plain)
      BY <2>2, <3>1, SetConcat
    <3> HIDE DEF w
    <3> QED BY <3>1, <3>2 DEF Plain
  <2>6. todo' = u \o (w \o t)
    <3>1. p \in Seq(Task) /\ d \in Seq(Task) /\ e \in Seq(Task) /\ p \o d \in Seq(Task)
      BY <2>2, <2>5 DEF Plain
    <3>2. (u \o p) \o d = u \o (p \o d)
      BY <2>3, <3>1, ConcatAssoc
    <3>3. ((u \o p) \o d) \o e = u \o w
      <4> DEFINE h == p \o d
      <4>1. h \in Seq(Task) /\ (u \o p) \o d = u \o h
        BY <3>1, <3>2
      <4> HIDE DEF h
      <4>2. (u \o h) \o e = u \o (h \o e)
        BY <2>3, <3>1, <4>1, ConcatAssoc, SMTT(40)
      <4> QED BY <4>1, <4>2 DEF h
    <3> HIDE DEF w
    <3>4. (u \o w) \o t = u \o (w \o t)
      BY <1>2, <2>3, <2>5, ConcatAssoc, SMTT(40)
    <3> QED BY <2>3, <2>4, <3>3, <3>4
  <2> HIDE DEF w
  <2>7. GroundedIn(w \o t, held) /\ NoHook(ToSet(w \o t)) /\ w \o t \in Seq(Task)
        /\ ToSet(w \o t) = ToSet(w) \cup ToSet(t)
    BY <1>2, <2>5, GroundedPlain
  <2>8. GroundedIn(todo', held) /\ todo' \in Seq(Task) /\ ToSet(todo') = {x, y} \cup ToSet(w \o t)
    BY <1>1, <2>1, <2>6, <2>7, GroundedUnhash, ZenonT(60) DEF u
  <2>9. ToSet(todo') = S \cup ToSet(Tail(todo))
    BY <2>7, <2>8 DEF t
  <2>10. \A b \in S : b[1] \notin {"free", "foreach"}
    BY <2>5 DEF Plain, ToSet
  <2> HIDE DEF S
  <2>11. LoopOpen'
    BY <1>1, <1>5, <2>9, <2>10, LoopStill DEF Shape, tables, loops
  <2>12. KeptOpen'
    <3>1. \A n \in kept' : (n \in kept /\ <<"ka_end", n>> # Top) \/ <<"ka_end", n>> \in S
      BY <1>1, <1>5
    <3> QED BY <1>1, <2>9, <3>1, KeptStill DEF Shape
  <2>13. FreeOpen'
    <3>1. (\A b \in S : b[1] # "free") /\ \A n \in Node : life'[n] = "dying" <=> life[n] = "dying"
      BY <1>5, <2>10
    <3>2. TodoShape /\ todo # <<>> /\ Top[1] # "free"
      BY <1>1 DEF Shape
    <3> QED BY <2>9, <3>1, <3>2, FreeStill
  <2>14. rc' \in [Node -> Int]
    BY <1>5, <2>1 DEF AddRef, Shape, DataShape, Typed
  <2>15. DataShape'
    BY <1>5, <2>14 DEF loops, blobs, tables, Shape, DataShape, Typed, EntriesTyped, ActionsTyped
  <2>16. AllGrounded'
    BY <1>5, <2>8 DEF AllGrounded
  <2> QED BY <2>8, <2>11, <2>12, <2>13, <2>15, <2>16 DEF Shape, TodoShape
<1> QED BY <1>3, <1>4, <1>5 DEF DestroyAttr

LEMMA ShapeDestroyKeys ==
  ASSUME Shape, DestroyKeys
  PROVE  Shape'
<1> DEFINE K == {k \in Key : slookup[k] # "none"}
           V == {flookup[k].value : k \in K}
           Strong(v) == {k \in K : flookup[k] = [mode |-> "strong", value |-> v]}
           s == <<<<"destroy_values", values'>>>>
<1>1. todo # <<>> /\ Top[1] = "destroy_keys"
  BY DEF DestroyKeys, Doing
<1>2. CASE Died
  BY <1>2, ShapeFault DEF Died
<1>3. CASE /\ \A k \in K : flookup[k].mode \in Ref
           /\ slookup' = [k \in Key |-> "none"]
           /\ flookup' = [k \in Key |-> IF k \in K THEN NoValue ELSE flookup[k]]
           /\ values' = values \cup V
           /\ rc' = [n \in Node |-> IF n \in V
                       THEN rc[n] + (IF n \in values THEN 0 ELSE 1) - Cardinality(Strong(n))
                       ELSE rc[n]]
           /\ Then(s)
           /\ UNCHANGED <<held, life, kept, acts, rlookup, attr_lookup, blobs, iter, err>>
  <2>1. V \subseteq Object
    BY <1>3 DEF Shape, DataShape, EntriesTyped
  <2>2. values' \in SUBSET Object
    BY <1>3, <2>1 DEF Shape, DataShape, Typed
  <2>3. s \in Seq(Plain)
    <3>1. <<"destroy_values", values'>> \in Plain
      BY <2>2, PlainTasks
    <3> QED BY <3>1
  <2> HIDE DEF s
  <2>4. \A u \in Object : Under(u)' \subseteq Under(u)
    BY <1>3 DEF Under
  <2>5. TodoShape'
    BY <1>1, <1>3, <2>3, <2>4, TaskDone
  <2>6. rc' \in [Node -> Int]
    <3>1. ASSUME NEW n \in Node PROVE Cardinality(Strong(n)) \in Nat
      <4>1. Strong(n) \subseteq Key
        OBVIOUS
      <4> HIDE DEF Strong
      <4>2. IsFiniteSet(Strong(n))
        BY <4>1, Finite, FS_Subset
      <4> QED BY <4>2, FS_CardinalityType
    <3> HIDE DEF Strong, V
    <3> QED BY <1>3, <3>1 DEF Shape, DataShape, Typed
  <2>7. slookup' \in [Key -> Entry] /\ flookup' \in [Key -> [mode : Entry, value : Object \cup {Null}]]
    BY <1>3 DEF Entry, NoValue, Shape, DataShape, Typed
  <2>8. EntriesTyped'
    BY <1>3 DEF NoValue, Ref, blobs, Shape, DataShape, EntriesTyped
  <2> HIDE DEF K, V
  <2>9. DataShape'
    BY <1>3, <2>2, <2>6, <2>7, <2>8 DEF blobs, Shape, DataShape, Typed, ActionsTyped
  <2> QED BY <2>5, <2>9 DEF Shape
<1> QED BY <1>2, <1>3 DEF DestroyKeys

LEMMA ShapeDestroyValues ==
  ASSUME Shape, DestroyValues
  PROVE  Shape'
<1> DEFINE V == Top[2]
<1>1. todo # <<>> /\ Top[1] = "destroy_values" /\ V \in SUBSET Object
  BY TopIs DEF DestroyValues, Doing, Shape, TaskIs
<1>2. UNCHANGED <<held, life, rc, kept, slookup, flookup, attr_lookup, blobs, iter, err>>
  BY DEF DestroyValues
<1>3. CASE values' = {} /\ Then(<<<<"decall", values>>>>) /\ UNCHANGED <<acts, rlookup>>
  <2> DEFINE s == <<<<"decall", values>>>>
  <2>1. s \in Seq(Plain)
    <3>1. <<"decall", values>> \in Plain
      BY PlainTasks DEF Node, Shape, DataShape, Typed
    <3> QED BY <3>1
  <2>2. Then(s)
    BY <1>3
  <2> HIDE DEF s
  <2>3. \A u \in Object : Under(u)' \subseteq Under(u)
    BY <1>3 DEF Under
  <2>4. TodoShape'
    BY <1>1, <1>2, <2>1, <2>2, <2>3, TaskDone
  <2>5. DataShape'
    BY <1>2, <1>3 DEF blobs, Shape, DataShape, Typed, EntriesTyped, ActionsTyped
  <2> QED BY <2>4, <2>5 DEF Shape
<1>4. ASSUME NEW v \in V, rlookup' = [rlookup EXCEPT ![v] = Null],
             acts' = Without(acts, v, <<"rlookup", v>>), UNCHANGED values,
             Then(<<<<"decall", Under(v)>>, <<"destroy_values", V \ {v}>>>>)
      PROVE  Shape'
  <2> DEFINE s == <<<<"decall", Under(v)>>, <<"destroy_values", V \ {v}>>>>
  <2>1. v \in Object /\ v \in Node
    BY <1>1 DEF Node
  <2>2. s \in Seq(Plain)
    <3>1. Under(v) \in SUBSET Node
      BY <2>1, UnderIs DEF Node, Shape, DataShape
    <3>2. <<"decall", Under(v)>> \in Plain /\ <<"destroy_values", V \ {v}>> \in Plain
      BY <1>1, <3>1, PlainTasks
    <3> QED BY <3>2
  <2>3. Then(s)
    BY <1>4
  <2> HIDE DEF s
  <2>4. rlookup' \in [Object -> (SUBSET Index) \cup {Null}] /\ \A u \in Object : Under(u)' \subseteq Under(u)
    BY <1>4, <2>1 DEF Under, Shape, DataShape, Typed
  <2>5. TodoShape'
    BY <1>1, <1>2, <2>2, <2>3, <2>4, TaskDone
  <2>6. Fewer(acts', acts)
    <3>1. acts \in [Node -> Seq(Action)]
      BY DEF Shape, DataShape, Typed
    <3> QED BY <1>4, <2>1, <3>1, FewerActions
  <2>7. acts' \in [Node -> Seq(Action)] /\ ActionsTyped'
    BY <2>6, ShapeActions DEF Shape
  <2>8. DataShape'
    BY <1>2, <1>4, <2>4, <2>7 DEF blobs, Shape, DataShape, Typed, EntriesTyped
  <2> QED BY <2>5, <2>8 DEF Shape
<1> QED BY <1>3, <1>4 DEF DestroyValues

-----------------------------------------------------------------------------
(* The operations.  ShapeX says that the operation X keeps Shape; what it   *)
(* starts rests on nothing below.                                           *)

\* Between operations nothing is open, and an operation leaves what it has to do.
LEMMA Starts ==
  ASSUME Shape, Idle, DataShape', NEW s \in Seq(Task), todo' = s, GroundedIn(s, held'),
         \A x \in ToSet(s) : x[1] \notin {"free", "foreach"}, UNCHANGED <<kept, iter>>,
         \A n \in Node : life'[n] = "dying" <=> life[n] = "dying"
  PROVE  Shape'
<1>1. todo = <<>> /\ ToSet(todo) = {}
  BY DEF Idle, ToSet
<1>2. LoopOpen' /\ KeptOpen' /\ FreeOpen'
  BY <1>1 DEF Shape, TodoShape, LoopOpen, KeptOpen, FreeOpen
<1> QED BY <1>2 DEF Shape, TodoShape, AllGrounded

\* What an operation that only makes a reference or an entry leaves.
LEMMA StartsNothing ==
  ASSUME Shape, Idle, DataShape', UNCHANGED <<todo, kept, iter>>,
         \A n \in Node : life'[n] = "dying" <=> life[n] = "dying"
  PROVE  Shape'
<1>1. todo' = <<>>
  BY DEF Idle
<1>2. <<>> \in Seq(Task) /\ GroundedIn(<<>>, held') /\ ToSet(<<>>) = {}
  BY GroundedEmpty DEF ToSet
<1> QED BY <1>1, <1>2, Starts

\* What an operation leaves that has plain tasks to do.
LEMMA StartsPlain ==
  ASSUME Shape, Idle, DataShape', NEW s \in Seq(Plain), todo' = s, UNCHANGED <<kept, iter>>,
         \A n \in Node : life'[n] = "dying" <=> life[n] = "dying"
  PROVE  Shape'
<1>1. <<>> \in Seq(Task) /\ GroundedIn(<<>>, held') /\ NoHook(ToSet(<<>>))
  BY GroundedEmpty DEF ToSet, NoHook
<1>2. s \o <<>> = s
  OBVIOUS
<1>3. GroundedIn(s, held') /\ s \in Seq(Task)
  BY <1>1, <1>2, GroundedPlain
<1>4. \A x \in ToSet(s) : x[1] \notin {"free", "foreach"}
  BY DEF ToSet, Plain
<1> QED BY <1>3, <1>4, Starts

LEMMA ShapeNew ==
  ASSUME Shape, NEW o \in Object, New(o)
  PROVE  Shape'
<1>1. DataShape'
  BY DEF New, Node, tables, blobs, loops, Shape, DataShape, Typed, EntriesTyped, ActionsTyped
<1>2. \A n \in Node : life'[n] = "dying" <=> life[n] = "dying"
  BY DEF New, Node, Shape, DataShape, Typed
<1> QED BY <1>1, <1>2, StartsNothing DEF New, loops

LEMMA ShapeDrop ==
  ASSUME Shape, NEW o \in Object, Drop(o)
  PROVE  Shape'
<1> DEFINE s == <<<<"dec", o>>>>
<1>1. s \in Seq(Plain)
  <2>1. <<"dec", o>> \in Plain
    BY PlainTasks DEF Node
  <2> QED BY <2>1
<1>2. todo' = s
  BY DEF Drop
<1>3. DataShape'
  BY DEF Drop, heap, tables, blobs, loops, Shape, DataShape, Typed, EntriesTyped, ActionsTyped
<1> HIDE DEF s
<1> QED BY <1>1, <1>2, <1>3, StartsPlain DEF Drop, loops, heap

LEMMA ShapeTake ==
  ASSUME Shape, Idle, NEW v \in Object, Take(v)
  PROVE  Shape'
<1>1. DataShape'
  BY DEF Take, AddRef, Node, tables, blobs, loops, Shape, DataShape, Typed, EntriesTyped, ActionsTyped
<1> QED BY <1>1, StartsNothing DEF Take, loops

LEMMA ShapePurge ==
  ASSUME Shape, NEW v \in Object, Purge(v)
  PROVE  Shape'
<1> DEFINE x == <<"purge", v>>
           s == <<x>>
<1>1. todo' = s /\ v \in held /\ UNCHANGED <<held, heap, tables, blobs, loops>> /\ Idle
  BY DEF Purge
<1>2. x \in Task /\ <<>> \in Seq(Task) /\ GroundedIn(<<>>, held) /\ ToSet(<<>>) = {}
  BY OtherTasks, GroundedEmpty DEF ToSet
<1>3. Grounded(x, {}, held)
  BY <1>1 DEF Grounded
<1>4. s \in Seq(Task) /\ s = s \o <<>> /\ ToSet(s) = {x}
  <2> HIDE DEF x
  <2>1. s \in Seq(Task) /\ s = s \o <<>>
    BY <1>2
  <2> QED BY <2>1, SetOne, Zenon
<1>5. GroundedIn(s, held)
  <2> HIDE DEF x
  <2>1. GroundedIn(<<x>> \o <<>>, held)
    BY <1>2, <1>3, GroundedPush
  <2> QED BY <1>4, <2>1
<1>6. \A b \in ToSet(s) : b[1] \notin {"free", "foreach"}
  BY <1>4
<1> HIDE DEF s
<1>7. DataShape'
  BY <1>1, SameData DEF Shape
<1> QED BY <1>1, <1>4, <1>5, <1>6, <1>7, Starts DEF heap, loops

\* A purge with something below that holds its value.
LEMMA GroundedPurge ==
  ASSUME NEW v \in Object, NEW y \in Holding(v), y[1] \in {"dec", "decall"}, NEW H
  PROVE  LET s == <<<<"purge", v>>, y>>
         IN  s \in Seq(Task) /\ GroundedIn(s, H) /\ ToSet(s) = {<<"purge", v>>, y}
<1> DEFINE x == <<"purge", v>>
           s == <<x, y>>
           sy == <<y>>
<1>1. x \in Task /\ y \in Task /\ y \in Plain
  BY OtherTasks DEF Holding, Plain
<1>2. sy \in Seq(Task) /\ sy \in Seq(Plain) /\ s = <<x>> \o sy /\ ToSet(sy) = {y}
  <2>1. s = <<x>> \o sy
    BY <1>1, PairConcat
  <2>2. ToSet(sy) = {y}
    BY SetOne, Zenon
  <2> HIDE DEF x, s
  <2> QED BY <1>1, <2>1, <2>2
<1>3. GroundedIn(sy, H)
  <2>1. <<>> \in Seq(Task) /\ GroundedIn(<<>>, H) /\ NoHook(ToSet(<<>>)) /\ sy \o <<>> = sy
    BY GroundedEmpty DEF ToSet, NoHook
  <2> QED BY <1>2, <2>1, GroundedPlain
<1>4. Grounded(x, ToSet(sy), H)
  BY <1>2 DEF Grounded
<1> HIDE DEF x, sy, s
<1>5. GroundedIn(<<x>> \o sy, H) /\ <<x>> \o sy \in Seq(Task) /\ ToSet(<<x>> \o sy) = {x} \cup ToSet(sy)
  <2>1. GroundedIn(<<x>> \o sy, H)
    BY <1>1, <1>2, <1>3, <1>4, GroundedPush
  <2>2. <<x>> \o sy \in Seq(Task) /\ ToSet(<<x>> \o sy) = {x} \cup ToSet(sy)
    BY <1>1, <1>2, PushOne
  <2> QED BY <2>1, <2>2
<1>6. s \in Seq(Task) /\ GroundedIn(s, H) /\ ToSet(s) = {x, y}
  BY <1>2, <1>5
<1> QED BY <1>6 DEF s, x

LEMMA ShapePurgeBySk ==
  ASSUME Shape, NEW k \in Key, PurgeBySk(k)
  PROVE  Shape'
<1> DEFINE v == flookup[k].value
           y == <<"dec", v>>
           s == <<<<"purge", v>>, y>>
<1>1. v \in Object /\ v \in Node /\ Idle
  BY DEF PurgeBySk, Shape, DataShape, EntriesTyped, Node
<1>2. y \in Holding(v) /\ y[1] \in {"dec", "decall"}
  <2>1. y \in Task
    BY <1>1, PlainTasks DEF Plain
  <2> QED BY <2>1, Holds
<1>3. todo' = s /\ UNCHANGED <<held, life, kept, acts, tables, blobs, loops>>
  BY DEF PurgeBySk
<1>4. s \in Seq(Task) /\ GroundedIn(s, held) /\ ToSet(s) = {<<"purge", v>>, y}
  <2> HIDE DEF v, y
  <2> QED BY <1>1, <1>2, GroundedPurge
<1>5. \A b \in ToSet(s) : b[1] \notin {"free", "foreach"}
  BY <1>4
<1>6. rc' \in [Node -> Int]
  BY <1>1 DEF PurgeBySk, AddRef, Shape, DataShape, Typed
<1>7. DataShape'
  BY <1>3, <1>6 DEF tables, blobs, loops, Shape, DataShape, Typed, EntriesTyped, ActionsTyped
<1> HIDE DEF s
<1> QED BY <1>1, <1>3, <1>4, <1>5, <1>7, Starts DEF loops

LEMMA ShapePurgeByA ==
  ASSUME Shape, NEW a \in Attr, PurgeByA(a)
  PROVE  Shape'
<1> DEFINE V == {v \in Object : attrhash[a][v] \in Ref}
           y == <<"decall", V>>
<1>1. V \subseteq Object /\ IsFiniteSet(V) /\ V \subseteq Node /\ Idle
  BY Finite, FS_Subset DEF Node, PurgeByA
<1>2. PICK s \in SetToSeqs(V) : todo' = [i \in 1..Len(s) |-> <<"purge", s[i]>>] \o <<y>>
  BY DEF PurgeByA
<1>3. s \in Seq(V) /\ \A i \in 1..Len(s) : s[i] \in V
  <2> HIDE DEF V
  <2> QED BY <1>1, OrderProps
<1>4. rc' = [n \in Node |-> IF n \in V THEN rc[n] + 1 ELSE rc[n]]
      /\ UNCHANGED <<held, life, kept, acts, tables, blobs, loops>>
  BY DEF PurgeByA
<1> DEFINE f == [i \in 1..Len(s) |-> <<"purge", s[i]>>]
           r == f \o <<y>>
<1>5. y \in Task
  BY <1>1, PlainTasks DEF Plain
<1>6. f \in Seq(Task)
  <2>1. \A i \in 1..Len(s) : <<"purge", s[i]>> \in Task
    BY <1>1, <1>3, OtherTasks
  <2>2. Len(s) \in Nat
    BY <1>3
  <2> QED BY <2>1, <2>2
<1> HIDE DEF V, y
<1>7. /\ r \in Seq(Task) /\ Len(r) = Len(s) + 1 /\ Len(s) \in Nat
      /\ \A i \in 1..Len(s) : r[i] = <<"purge", s[i]>>
      /\ r[Len(s) + 1] = y
  BY <1>3, <1>5, <1>6
<1> HIDE DEF r, f
<1>8. \A i \in 1..Len(r) : r[i][1] \in {"purge", "decall"}
  BY <1>7 DEF y
<1>9. ASSUME NEW p \in 1..Len(r) PROVE Grounded(r[p], {r[q] : q \in (p + 1)..Len(r)}, held)
  <2> DEFINE B == {r[q] : q \in (p + 1)..Len(r)}
  <2>1. \A b \in B : b[1] \in {"purge", "decall"}
    BY <1>7, <1>8
  <2>2. CASE p = Len(s) + 1
    <3>1. r[p] = y
      BY <1>7, <2>2
    <3> HIDE DEF B
    <3>2. Grounded(y, B, held)
      BY <2>1 DEF Grounded, y
    <3> QED BY <3>1, <3>2 DEF B
  <2>3. CASE p # Len(s) + 1
    <3>1. p \in 1..Len(s) /\ Len(s) + 1 \in (p + 1)..Len(r)
      BY <1>7, <2>3
    <3>2. y \in B
      BY <1>7, <3>1
    <3>3. r[p] = <<"purge", s[p]>> /\ s[p] \in V
      BY <1>3, <1>7, <3>1
    <3>4. y \in Holding(s[p])
      BY <1>5, <3>3, Holds DEF y
    <3> HIDE DEF B
    <3>5. Grounded(r[p], B, held)
      BY <2>1, <3>2, <3>3, <3>4 DEF Grounded
    <3> QED BY <3>5 DEF B
  <2> QED BY <2>2, <2>3
<1>10. GroundedIn(r, held)
  BY <1>9 DEF GroundedIn
<1>11. todo' = r
  BY <1>2 DEF r, f
<1>12. \A b \in ToSet(r) : b[1] \notin {"free", "foreach"}
  BY <1>7, <1>8 DEF ToSet
<1>13. DataShape'
  <2>1. rc' \in [Node -> Int]
    BY <1>4 DEF Shape, DataShape, Typed
  <2> QED BY <1>4, <2>1 DEF tables, blobs, loops, Shape, DataShape, Typed, EntriesTyped, ActionsTyped
<1> QED BY <1>1, <1>4, <1>7, <1>10, <1>11, <1>12, <1>13, Starts DEF loops

LEMMA ShapeUnlinkSk ==
  ASSUME Shape, NEW k \in Key, UnlinkSk(k)
  PROVE  Shape'
<1> DEFINE v == flookup[k].value
           s == <<<<"unvhash", k, v>>, <<"dec", k>>, <<"dec", v>>>>
<1>1. v \in Object /\ v \in Node /\ k \in Node /\ Idle
  BY DEF UnlinkSk, Shape, DataShape, EntriesTyped, Node, Index
<1>2. s \in Seq(Plain)
  <2>1. <<"unvhash", k, v>> \in Plain /\ <<"dec", k>> \in Plain /\ <<"dec", v>> \in Plain
    BY <1>1, PlainTasks DEF Index
  <2> QED BY <2>1
<1>3. todo' = s /\ UNCHANGED <<held, life, kept, acts, tables, blobs, loops>>
  BY DEF UnlinkSk
<1> HIDE DEF s
<1>4. rc' \in [Node -> Int]
  BY <1>1 DEF UnlinkSk, AddRef, Shape, DataShape, Typed
<1>5. DataShape'
  BY <1>3, <1>4 DEF tables, blobs, loops, Shape, DataShape, Typed, EntriesTyped, ActionsTyped
<1> QED BY <1>1, <1>2, <1>3, <1>5, StartsPlain DEF loops

LEMMA ShapeDissocA ==
  ASSUME Shape, NEW a \in Attr, NEW v \in Object, DissocA(a, v)
  PROVE  Shape'
<1> DEFINE s == <<<<"unhash", a, v>>, <<"unvhash", a, v>>>>
<1>1. todo' = s /\ UNCHANGED <<held, heap, tables, blobs, loops>> /\ Idle
  BY DEF DissocA
<1>2. <<>> \in Seq(Task) /\ GroundedIn(<<>>, held) /\ NoHook(ToSet(<<>>)) /\ ToSet(<<>>) = {}
  BY GroundedEmpty DEF ToSet, NoHook
<1>3. s \in Seq(Task) /\ GroundedIn(s \o <<>>, held)
      /\ ToSet(s \o <<>>) = {<<"unhash", a, v>>, <<"unvhash", a, v>>} \cup ToSet(<<>>)
  BY <1>2, GroundedUnhash
<1>4. s \o <<>> = s
  BY <1>3
<1>5. \A b \in ToSet(s) : b[1] \notin {"free", "foreach"}
  BY <1>2, <1>3, <1>4
<1> HIDE DEF s
<1>6. DataShape'
  BY <1>1, SameData DEF Shape
<1> QED BY <1>1, <1>3, <1>4, <1>5, <1>6, Starts DEF heap, loops

LEMMA ShapeUnlinkA ==
  ASSUME Shape, NEW a \in Attr, UnlinkA(a)
  PROVE  Shape'
<1> DEFINE s == <<<<"attr_destroy_trigger", a>>>>
<1>1. s \in Seq(Plain)
  <2>1. <<"attr_destroy_trigger", a>> \in Plain
    BY ActionTasks
  <2> QED BY <2>1
<1>2. todo' = s /\ UNCHANGED <<held, heap, tables, blobs, loops>> /\ Idle
  BY DEF UnlinkA
<1> HIDE DEF s
<1>3. DataShape'
  BY <1>2, SameData DEF Shape
<1> QED BY <1>1, <1>2, <1>3, StartsPlain DEF loops, heap

LEMMA ShapeDestroy ==
  ASSUME Shape, Destroy
  PROVE  Shape'
<1> DEFINE A == {a \in Attr : attr_lookup[a] # "none"}
           s == <<<<"destroy_attrs", A>>, <<"destroy_keys">>>>
<1>1. s \in Seq(Plain)
  <2>1. <<"destroy_attrs", A>> \in Plain /\ <<"destroy_keys">> \in Plain
    BY PlainTasks
  <2> QED BY <2>1
<1>2. todo' = s /\ UNCHANGED <<held, heap, tables, blobs, loops>> /\ Idle
  BY DEF Destroy
<1> HIDE DEF s
<1>3. DataShape'
  BY <1>2, SameData DEF Shape
<1> QED BY <1>1, <1>2, <1>3, StartsPlain DEF loops, heap

LEMMA ShapeFetchSk ==
  ASSUME Shape, NEW k \in Key, FetchSk(k)
  PROVE  Shape'
<1>1. flookup[k].value \in Object /\ Idle /\ Take(flookup[k].value)
  BY DEF FetchSk, Shape, DataShape, EntriesTyped
<1> DEFINE v == flookup[k].value
<1> HIDE DEF v
<1>2. v \in Object /\ Take(v)
  BY <1>1 DEF v
<1> QED BY <1>1, <1>2, ShapeTake

LEMMA ShapeFetchA ==
  ASSUME Shape, NEW a \in Attr, FetchA(a)
  PROVE  Shape'
BY ShapeTake DEF FetchA

\* A vhash gets a key or an attribute.
LEMMA WithVhashTyped ==
  ASSUME Typed, NEW v \in Object, NEW i \in Index
  PROVE  /\ WithVhash(v, i) \in [Object -> (SUBSET Index) \cup {Null}]
         /\ WithVhash(v, i)[v] = Under(v) \cup {i}
         /\ \A u \in Object : u # v => WithVhash(v, i)[u] = rlookup[u]
BY DEF Typed, WithVhash, Under

LEMMA ShapeStoreSk ==
  ASSUME Shape, NEW k \in Key, NEW v \in Object, NEW sv \in BOOLEAN, NEW sk \in BOOLEAN,
         StoreSk(k, v, sv, sk)
  PROVE  Shape'
<1> DEFINE o == TheObject(k)
           keyed == [acts EXCEPT ![k] = OwnActions(k)]
           hooked == IF IsEncap(k) THEN Added(keyed, o, <<"encap_destroy_hook", k>>) ELSE keyed
           counted == [rc EXCEPT ![k] = 1]
           keyheld == IF IsEncap(k) /\ sk THEN AddRef(counted, o) ELSE counted
<1>1. k \in Index /\ k \in Node /\ v \in Node /\ (IsEncap(k) => o \in Object /\ o \in Node)
  BY Encap DEF Index, Node
<1>2. Typed /\ Proper(acts)
  BY DEF Proper, Shape, DataShape, Typed, ActionsTyped
<1>3. Proper(acts')
  <2>1. Proper(keyed)
    BY <1>1, <1>2, ProperOwn
  <2>2. Proper(hooked)
    <3> HIDE DEF keyed, o
    <3>1. IsEncap(k) => <<"encap_destroy_hook", k>> \in ActionsOf(o)
      BY <1>1, ObjectActions DEF o
    <3> QED BY <1>1, <2>1, <3>1, ProperAdded
  <2>3. acts' = Added(hooked, v, <<"rlookup", v>>)
    BY DEF StoreSk
  <2> HIDE DEF hooked
  <2> QED BY <1>1, <2>2, <2>3, ObjectActions, ProperAdded
<1>4. rc' \in [Node -> Int]
  <2>1. keyheld \in [Node -> Int]
    BY <1>1, <1>2 DEF Typed, AddRef
  <2>2. rc' = IF sv THEN AddRef(keyheld, v) ELSE keyheld
    BY DEF StoreSk
  <2> HIDE DEF keyheld
  <2> QED BY <1>1, <2>1, <2>2 DEF AddRef
<1>5. rlookup' \in [Object -> (SUBSET Index) \cup {Null}]
  BY <1>1, <1>2, WithVhashTyped DEF StoreSk
<1>6. /\ life' = [life EXCEPT ![k] = "live"] /\ life[k] = "free"
      /\ slookup' = [slookup EXCEPT ![k] = "weak"]
      /\ flookup' = [flookup EXCEPT ![k] = [mode |-> Mode(sv), value |-> v]]
      /\ obj' = IF IsEncap(k) THEN [obj EXCEPT ![k] = Mode(sk)] ELSE obj
      /\ UNCHANGED <<held, kept, attr_lookup, obj_paddr, attrhash, loops, todo, err>>
      /\ Idle
  BY DEF StoreSk
<1>7. Mode(sv) \in Ref /\ Mode(sk) \in Ref /\ Ref \subseteq Entry /\ "weak" \in Entry
  BY DEF Mode, Ref, Entry
<1>8. life' \in [Node -> {"free", "live", "dying"}] /\ \A n \in Node : life'[n] = "dying" <=> life[n] = "dying"
  BY <1>1, <1>2, <1>6 DEF Typed
<1>9. /\ slookup' \in [Key -> Entry] /\ obj' \in [Index -> Entry \cup {"dangling"}]
      /\ flookup' \in [Key -> [mode : Entry, value : Object \cup {Null}]]
  BY <1>1, <1>2, <1>6, <1>7 DEF Typed
<1>10. Typed'
  BY <1>2, <1>3, <1>4, <1>5, <1>6, <1>8, <1>9 DEF Typed, Proper, loops
<1>11. EntriesTyped'
  BY <1>1, <1>2, <1>6, <1>7 DEF Typed, EntriesTyped, Shape, DataShape
<1>12. ActionsTyped'
  BY <1>3 DEF Proper, ActionsTyped
<1> QED BY <1>6, <1>8, <1>10, <1>11, <1>12, StartsNothing DEF DataShape, loops

LEMMA ShapeStoreA ==
  ASSUME Shape, NEW a \in Attr, NEW v \in Object, NEW sv \in BOOLEAN, NEW sa \in BOOLEAN,
         StoreA(a, v, sv, sa)
  PROVE  Shape'
<1> DEFINE new == attr_lookup[a] = "none"
           o == TheObject(a)
           own == IF new THEN [acts EXCEPT ![a] = OwnActions(a)] ELSE acts
           hooked == IF new /\ IsEncap(a)
                       THEN Added(own, o, <<"encap_attr_destroy_hook", a>>) ELSE own
           reversed == IF rlookup[v] = Null THEN Added(hooked, v, <<"rlookup", v>>) ELSE hooked
           made == IF new THEN [rc EXCEPT ![a] = 1] ELSE rc
           objheld == IF new /\ IsEncap(a) /\ sa THEN AddRef(made, o) ELSE made
           inserted == IF FirstValue(a) THEN objheld ELSE AddRef(objheld, a)
<1>1. a \in Index /\ a \in Node /\ v \in Node /\ (IsEncap(a) => o \in Object /\ o \in Node)
  BY Encap DEF Index, Node
<1>2. Typed /\ Proper(acts)
  BY DEF Proper, Shape, DataShape, Typed, ActionsTyped
<1>3. Proper(acts')
  <2>1. Proper(own)
    BY <1>1, <1>2, ProperOwn
  <2>2. Proper(hooked)
    <3> HIDE DEF own, o, new
    <3>1. IsEncap(a) => <<"encap_attr_destroy_hook", a>> \in ActionsOf(o)
      BY <1>1, ObjectActions DEF o
    <3> QED BY <1>1, <2>1, <3>1, ProperAdded
  <2>3. Proper(reversed)
    <3> HIDE DEF hooked
    <3> QED BY <1>1, <2>2, ObjectActions, ProperAdded
  <2>4. acts' = Added(reversed, v, <<"attrhash", a, v>>)
    BY DEF StoreA
  <2> HIDE DEF reversed
  <2> QED BY <1>1, <2>3, <2>4, ObjectActions, ProperAdded
<1>4. rc' \in [Node -> Int]
  <2>1. made \in [Node -> Int]
    BY <1>1, <1>2 DEF Typed
  <2> HIDE DEF made
  <2>2. objheld \in [Node -> Int]
    BY <1>1, <2>1 DEF AddRef
  <2> HIDE DEF objheld
  <2>3. inserted \in [Node -> Int]
    BY <1>1, <2>2 DEF AddRef
  <2>4. rc' = IF sv THEN AddRef(inserted, v) ELSE inserted
    BY DEF StoreA, made, objheld
  <2> HIDE DEF inserted
  <2> QED BY <1>1, <2>3, <2>4 DEF AddRef
<1>5. rlookup' \in [Object -> (SUBSET Index) \cup {Null}]
  BY <1>1, <1>2, WithVhashTyped DEF StoreA
<1>6. /\ life' = [life EXCEPT ![a] = "live"]
      /\ attr_lookup' = [attr_lookup EXCEPT ![a] = "weak"]
      /\ obj' = IF new /\ IsEncap(a) THEN [obj EXCEPT ![a] = Mode(sa)] ELSE obj
      /\ obj_paddr' = IF new /\ IsEncap(a) THEN [obj_paddr EXCEPT ![a] = TRUE] ELSE obj_paddr
      /\ attrhash' = [attrhash EXCEPT ![a][v] = Mode(sv)]
      /\ UNCHANGED <<held, kept, slookup, flookup, loops, todo, err>>
      /\ Idle
  BY DEF StoreA
<1>7. Mode(sv) \in Ref /\ Mode(sa) \in Ref /\ Ref \subseteq Entry /\ "weak" \in Entry
  BY DEF Mode, Ref, Entry
<1>8. life' \in [Node -> {"free", "live", "dying"}] /\ \A n \in Node : life[n] # "dying" /\ life'[n] # "dying"
  <2>1. \A n \in Node : life[n] # "dying"
    BY <1>6 DEF Shape, TodoShape, FreeOpen, Idle, ToSet
  <2> QED BY <1>1, <1>2, <1>6, <2>1 DEF Typed
<1>9. /\ attr_lookup' \in [Attr -> Entry] /\ obj' \in [Index -> Entry \cup {"dangling"}]
      /\ obj_paddr' \in [Attr -> BOOLEAN]
  BY <1>1, <1>2, <1>6, <1>7 DEF Typed
<1>10. attrhash' \in [Attr -> [Object -> Entry]]
  BY <1>2, <1>6, <1>7 DEF Typed
<1>11. Typed'
  BY <1>2, <1>3, <1>4, <1>5, <1>6, <1>8, <1>9, <1>10 DEF Typed, Proper, loops
<1>12. EntriesTyped'
  BY <1>1, <1>2, <1>6, <1>7 DEF Typed, EntriesTyped, Shape, DataShape
<1>13. ActionsTyped'
  BY <1>3 DEF Proper, ActionsTyped
<1> QED BY <1>6, <1>8, <1>11, <1>12, <1>13, StartsNothing DEF DataShape, loops

-----------------------------------------------------------------------------
(* Every state.                                                             *)

LEMMA ShapeInit ==
  ASSUME Init
  PROVE  Shape
<1>1. todo = <<>> /\ ToSet(todo) = {}
  BY DEF Init, ToSet
<1>2. TodoShape
  BY <1>1, GroundedEmpty DEF Init, TodoShape, AllGrounded, LoopOpen, KeptOpen, FreeOpen
<1>3. Typed
  BY DEF Init, Typed, NoValue, Entry
<1>4. EntriesTyped
  BY DEF Init, EntriesTyped, NoValue, Ref
<1>5. ActionsTyped
  <2>1. \A n \in Node : acts[n] = <<>>
    BY DEF Init
  <2>2. ToSet(<<>>) = {}
    BY DEF ToSet
  <2> QED BY <2>1, <2>2 DEF ActionsTyped
<1> QED BY <1>2, <1>3, <1>4, <1>5 DEF Shape, DataShape

\* A step that changes nothing.
LEMMA ShapeStutter ==
  ASSUME Shape, UNCHANGED vars
  PROVE  Shape'
BY DEF vars, heap, tables, blobs, loops, Shape, DataShape, Typed, EntriesTyped, ActionsTyped, Under,
       TodoShape, AllGrounded, LoopOpen, KeptOpen, FreeOpen

LEMMA ShapeOperation ==
  ASSUME Shape, Operation
  PROVE  Shape'
<1>1. CASE Destroy
  BY <1>1, ShapeDestroy
<1>2. ASSUME NEW o \in Object, New(o) \/ Drop(o) \/ Purge(o)
      PROVE  Shape'
  BY <1>2, ShapeNew, ShapeDrop, ShapePurge
<1>3. ASSUME NEW k \in Key, FetchSk(k) \/ UnlinkSk(k) \/ PurgeBySk(k)
      PROVE  Shape'
  BY <1>3, ShapeFetchSk, ShapeUnlinkSk, ShapePurgeBySk
<1>4. ASSUME NEW k \in Key, NEW v \in Object, NEW sv \in BOOLEAN, NEW sk \in BOOLEAN, StoreSk(k, v, sv, sk)
      PROVE  Shape'
  BY <1>4, ShapeStoreSk
<1>5. ASSUME NEW a \in Attr, FetchA(a) \/ UnlinkA(a) \/ PurgeByA(a)
      PROVE  Shape'
  BY <1>5, ShapeFetchA, ShapeUnlinkA, ShapePurgeByA
<1>6. ASSUME NEW a \in Attr, NEW v \in Object, DissocA(a, v)
      PROVE  Shape'
  BY <1>6, ShapeDissocA
<1>7. ASSUME NEW a \in Attr, NEW v \in Object, NEW sv \in BOOLEAN, NEW sa \in BOOLEAN, StoreA(a, v, sv, sa)
      PROVE  Shape'
  BY <1>7, ShapeStoreA
<1> QED BY <1>1, <1>2, <1>3, <1>4, <1>5, <1>6, <1>7 DEF Operation

LEMMA ShapeStep ==
  ASSUME Shape, Step
  PROVE  Shape'
BY ShapeDec, ShapeDecAll, ShapeRunAction, ShapeFreed, ShapeDelSlookup, ShapeDelFlookup, ShapeDelRlookup,
   ShapeDelAttrhash, ShapeDelFromVhash, ShapeVhashCheck, ShapeEncapDestroyHook, ShapeKEncapCleanup,
   ShapeEncapAttrDestroyHook, ShapeAttrDestroyTrigger, ShapeDelAttrLookup, ShapeEachValue,
   ShapeDelFromAttrhash, ShapeKaEnd, ShapePurgeBegin, ShapeForeach, ShapePurgeEnd, ShapeDestroyAttrs,
   ShapeDestroyAttr, ShapePushValue, ShapeDestroyKeys, ShapeDestroyValues DEF Step

LEMMA ShapeNext ==
  ASSUME Shape, [Next]_vars
  PROVE  Shape'
BY ShapeStep, ShapeOperation, ShapeStutter DEF Next

\* In every state the tables and the action lists hold what they can hold, and what
\* waits in todo is in an order in which each step finds below it what it counts on.
THEOREM ShapeAlways == Spec => []Shape
BY ShapeInit, ShapeNext, PTL DEF Spec


-----------------------------------------------------------------------------
(* Cardinalities.                                                           *)

LEMMA OneIs == One(TRUE) = 1 /\ One(FALSE) = 0 /\ \A b \in BOOLEAN : One(b) = IF b THEN 1 ELSE 0
BY DEF One

LEMMA CardLess ==
  ASSUME NEW S, IsFiniteSet(S), NEW x
  PROVE  /\ Cardinality(S) \in Nat
         /\ IsFiniteSet(S \ {x})
         /\ Cardinality(S \ {x}) = Cardinality(S) - One(x \in S)
<1>0. Cardinality(S) \in Nat
  BY FS_CardinalityType
<1>1. CASE x \in S
  <2>1. IsFiniteSet(S \ {x}) /\ Cardinality(S \ {x}) = Cardinality(S) - 1
    BY <1>1, FS_RemoveElement
  <2>2. One(x \in S) = 1
    BY <1>1 DEF One
  <2> QED BY <1>0, <2>1, <2>2
<1>2. CASE x \notin S
  <2>1. S \ {x} = S
    BY <1>2
  <2>2. One(x \in S) = 0
    BY <1>2 DEF One
  <2> QED BY <1>0, <2>1, <2>2
<1> QED BY <1>1, <1>2

LEMMA CardMore ==
  ASSUME NEW S, IsFiniteSet(S), NEW x
  PROVE  /\ Cardinality(S) \in Nat
         /\ IsFiniteSet(S \cup {x})
         /\ Cardinality(S \cup {x}) = Cardinality(S) + One(x \notin S)
<1>0. Cardinality(S) \in Nat
  BY FS_CardinalityType
<1>1. CASE x \notin S
  <2>1. IsFiniteSet(S \cup {x}) /\ Cardinality(S \cup {x}) = Cardinality(S) + 1
    BY <1>1, FS_AddElement
  <2>2. One(x \notin S) = 1
    BY <1>1 DEF One
  <2> QED BY <1>0, <2>1, <2>2
<1>2. CASE x \in S
  <2>1. S \cup {x} = S
    BY <1>2
  <2>2. One(x \notin S) = 0
    BY <1>2 DEF One
  <2> QED BY <1>0, <2>1, <2>2
<1> QED BY <1>1, <1>2

LEMMA CardSub ==
  ASSUME NEW S, IsFiniteSet(S), NEW R, R \subseteq S
  PROVE  /\ IsFiniteSet(R) /\ Cardinality(R) \in Nat /\ Cardinality(S) \in Nat
         /\ Cardinality(R) <= Cardinality(S)
BY FS_Subset, FS_CardinalityType

\* What is not empty counts.
LEMMA CardSome ==
  ASSUME NEW S, IsFiniteSet(S)
  PROVE  /\ Cardinality(S) \in Nat /\ (Cardinality(S) = 0 <=> S = {})
         /\ \A x \in S : Cardinality(S) >= 1
<1>1. Cardinality(S) \in Nat /\ (Cardinality(S) = 0 <=> S = {})
  BY FS_EmptySet, FS_CardinalityType
<1> QED BY <1>1

-----------------------------------------------------------------------------
(* The references there are.                                                *)

\* What holds an object but for what waits in todo.
Refs(o) ==
  One(o \in held) + One(o \in values)
    + Cardinality(StrongKeys(o)) + Cardinality(StrongAttrs(o)) + Cardinality(StrongObjs(o))

LEMMA StrongFinite ==
  ASSUME NEW o
  PROVE  /\ IsFiniteSet(StrongKeys(o)) /\ IsFiniteSet(StrongAttrs(o)) /\ IsFiniteSet(StrongObjs(o))
         /\ IsFiniteSet(Vhashes(o))
         /\ Cardinality(StrongKeys(o)) \in Nat /\ Cardinality(StrongAttrs(o)) \in Nat
         /\ Cardinality(StrongObjs(o)) \in Nat /\ Cardinality(Vhashes(o)) \in Nat
<1>1. StrongKeys(o) \subseteq Key /\ StrongAttrs(o) \subseteq Attr /\ StrongObjs(o) \subseteq Index
      /\ Vhashes(o) \subseteq Object
  BY DEF StrongKeys, StrongAttrs, StrongObjs, Vhashes
<1>2. IsFiniteSet(StrongKeys(o)) /\ IsFiniteSet(StrongAttrs(o)) /\ IsFiniteSet(StrongObjs(o))
      /\ IsFiniteSet(Vhashes(o))
  BY <1>1, Finite, FS_Subset
<1> QED BY <1>2, FS_CardinalityType

LEMMA StrongFiniteNext ==
  ASSUME NEW o
  PROVE  /\ IsFiniteSet(StrongKeys(o)') /\ IsFiniteSet(StrongAttrs(o)') /\ IsFiniteSet(StrongObjs(o)')
         /\ IsFiniteSet(Vhashes(o)')
         /\ Cardinality(StrongKeys(o))' \in Nat /\ Cardinality(StrongAttrs(o))' \in Nat
         /\ Cardinality(StrongObjs(o))' \in Nat /\ Cardinality(Vhashes(o))' \in Nat
<1>1. StrongKeys(o)' \subseteq Key /\ StrongAttrs(o)' \subseteq Attr /\ StrongObjs(o)' \subseteq Index
      /\ Vhashes(o)' \subseteq Object
  BY DEF StrongKeys, StrongAttrs, StrongObjs, Vhashes
<1>2. IsFiniteSet(StrongKeys(o)') /\ IsFiniteSet(StrongAttrs(o)') /\ IsFiniteSet(StrongObjs(o)')
      /\ IsFiniteSet(Vhashes(o)')
  BY <1>1, Finite, FS_Subset
<1> QED BY <1>2, FS_CardinalityType

\* Nothing that holds o leaves nothing that holds o.
LEMMA RefsIs ==
  ASSUME NEW o
  PROVE  /\ Refs(o) \in Nat
         /\ o \in held \/ o \in values \/ StrongKeys(o) # {} \/ StrongAttrs(o) # {} \/ StrongObjs(o) # {}
              <=> Refs(o) >= 1
<1>1. One(o \in held) \in 0..1 /\ One(o \in values) \in 0..1
      /\ (o \in held <=> One(o \in held) = 1) /\ (o \in values <=> One(o \in values) = 1)
  BY DEF One
<1>2. /\ StrongKeys(o) = {} <=> Cardinality(StrongKeys(o)) = 0
      /\ StrongAttrs(o) = {} <=> Cardinality(StrongAttrs(o)) = 0
      /\ StrongObjs(o) = {} <=> Cardinality(StrongObjs(o)) = 0
  BY StrongFinite, FS_EmptySet
<1> QED BY <1>1, <1>2, StrongFinite DEF Refs

\* What waits in todo after a step that does the task on top.
LEMMA Popped ==
  ASSUME TodoShape, todo # <<>>, NEW s \in Seq(Task), Then(s), NEW X
  PROVE  /\ Occurs(todo, X) \in Nat /\ Occurs(s, X) \in Nat /\ Occurs(todo', X) \in Nat
         /\ Occurs(todo', X) = Occurs(s, X) + Occurs(todo, X) - One(Top \in X)
<1>1. Tail(todo) \in Seq(Task) /\ todo \in Seq(Task)
  BY TopIs DEF TodoShape
<1>2. Occurs(todo, X) = One(Top \in X) + Occurs(Tail(todo), X)
  BY <1>1, OccursSplit DEF Top
<1>3. Occurs(s \o Tail(todo), X) = Occurs(s, X) + Occurs(Tail(todo), X)
  BY <1>1, OccursConcat
<1>4. Occurs(todo, X) \in Nat /\ Occurs(s, X) \in Nat /\ Occurs(Tail(todo), X) \in Nat
  <2>1. Len(todo) \in Nat /\ Len(s) \in Nat /\ Len(Tail(todo)) \in Nat
    BY <1>1
  <2> QED BY <2>1, PlacesFinite
<1>5. One(Top \in X) \in Nat
  BY DEF One
<1> QED BY <1>2, <1>3, <1>4, <1>5 DEF Then

\* The tasks that hold nothing, and what the others hold.
LEMMA HoldingIs ==
  ASSUME NEW n
  PROVE  /\ \A t \in Task : t[1] \notin {"dec", "foreach", "purge_end", "decall"} => t \notin Holding(n)
         /\ \A m \in Node : <<"dec", m>> \in Holding(n) <=> m = n
         /\ \A S \in SUBSET Node : <<"decall", S>> \in Holding(n) <=> n \in S
         /\ \A v \in Object : <<"purge_end", v>> \in Holding(n) <=> v = n
         /\ \A v \in Object, s \in Seq(Index) : <<"foreach", v, s>> \in Holding(n) <=> v = n
<1>1. \A t \in Task : t[1] \notin {"dec", "foreach", "purge_end", "decall"} => t \notin Holding(n)
  BY Holds
<1>2. ASSUME NEW m \in Node PROVE <<"dec", m>> \in Holding(n) <=> m = n
  BY PlainTasks, Holds DEF Plain
<1>3. ASSUME NEW S \in SUBSET Node PROVE <<"decall", S>> \in Holding(n) <=> n \in S
  BY PlainTasks, Holds DEF Plain
<1>4. ASSUME NEW v \in Object PROVE <<"purge_end", v>> \in Holding(n) <=> v = n
  BY PlainTasks, Holds DEF Plain
<1>5. ASSUME NEW v \in Object, NEW s \in Seq(Index) PROVE <<"foreach", v, s>> \in Holding(n) <=> v = n
  BY OtherTasks, Holds
<1> QED BY <1>1, <1>2, <1>3, <1>4, <1>5

LEMMA OccursNone ==
  ASSUME NEW T, NEW s \in Seq(T), NEW X, \A t \in ToSet(s) : t \notin X
  PROVE  Occurs(s, X) = 0
BY OccursIn

LEMMA OccursTwo ==
  ASSUME NEW x \in Task, NEW y \in Task, NEW X
  PROVE  Occurs(<<x, y>>, X) = One(x \in X) + One(y \in X)
<1> DEFINE p == <<x>>
           q == <<y>>
<1>1. p \in Seq(Task) /\ q \in Seq(Task) /\ <<x, y>> = p \o q
  BY PairConcat
<1>2. Occurs(p, X) = One(x \in X) /\ Occurs(q, X) = One(y \in X)
  BY OccursOne, Zenon
<1> HIDE DEF p, q
<1>3. Occurs(p \o q, X) = Occurs(p, X) + Occurs(q, X)
  BY <1>1, OccursConcat
<1> QED BY <1>1, <1>2, <1>3

LEMMA OccursThree ==
  ASSUME NEW x \in Task, NEW y \in Task, NEW z \in Task, NEW X
  PROVE  Occurs(<<x, y, z>>, X) = One(x \in X) + One(y \in X) + One(z \in X)
<1> DEFINE p == <<x, y>>
           q == <<z>>
<1>1. p \in Seq(Task) /\ q \in Seq(Task) /\ <<x, y, z>> = p \o q
  BY TripleConcat
<1>2. Occurs(p, X) = One(x \in X) + One(y \in X)
  BY OccursTwo
<1>3. Occurs(q, X) = One(z \in X)
  BY OccursOne, Zenon
<1> HIDE DEF p, q
<1>4. Occurs(p \o q, X) = Occurs(p, X) + Occurs(q, X)
  BY <1>1, OccursConcat
<1> QED BY <1>1, <1>2, <1>3, <1>4

LEMMA OccursDecIf ==
  ASSUME NEW mode, NEW n, mode = "strong" => n \in Node, NEW m
  PROVE  DecIf(mode, n) \in Seq(Task) /\ Occurs(DecIf(mode, n), Holding(m)) = One(mode = "strong" /\ n = m)
<1>1. DecIf(mode, n) \in Seq(Task)
  <2>1. DecIf(mode, n) \in Seq(Plain)
    BY DecIfPlain
  <2>2. Plain \subseteq Task
    BY DEF Plain
  <2> QED BY <2>1, <2>2
<1>2. CASE mode = "strong"
  <2>1. <<"dec", n>> \in Holding(m) <=> n = m
    BY <1>2, HoldingIs
  <2>2. Occurs(<<<<"dec", n>>>>, Holding(m)) = One(<<"dec", n>> \in Holding(m))
    BY OccursOne, Zenon
  <2>3. DecIf(mode, n) = <<<<"dec", n>>>>
    BY <1>2 DEF DecIf
  <2> QED BY <1>1, <1>2, <2>1, <2>2, <2>3 DEF One
<1>3. CASE mode # "strong"
  <2>1. DecIf(mode, n) = <<>>
    BY <1>3 DEF DecIf
  <2>2. Occurs(<<>>, Holding(m)) = 0
    BY OccursOne, Zenon
  <2> QED BY <1>1, <1>3, <2>1, <2>2 DEF One
<1> QED BY <1>2, <1>3
-----------------------------------------------------------------------------
(* A step is balanced when the counts change as the references do.          *)

\* The references to n there are but for what waits in todo.
Firm(n) == IF n \in Object THEN Refs(n) ELSE Cardinality(Vhashes(n)) + Gone(n)

Balanced(n) ==
  Firm(n)' + Occurs(todo', Holding(n)) + rc[n] = Firm(n) + Occurs(todo, Holding(n)) + rc'[n]

LEMMA FirmNat ==
  ASSUME NEW n
  PROVE  Firm(n) \in Nat /\ Firm(n)' \in Nat
<1>1. Gone(n) \in Nat /\ Gone(n)' \in Nat
  BY DEF Gone, One
<1>2. Refs(n) \in Nat
  BY RefsIs
<1>3. Refs(n)' \in Nat
  <2>1. One(n \in held)' \in Nat /\ One(n \in values)' \in Nat
    BY DEF One
  <2> QED BY <2>1, StrongFiniteNext DEF Refs
<1> QED BY <1>1, <1>2, <1>3, StrongFinite, StrongFiniteNext DEF Firm

LEMMA CountNat ==
  ASSUME Shape, Shape', NEW n \in Node
  PROVE  /\ Firm(n) \in Nat /\ Firm(n)' \in Nat
         /\ Occurs(todo, Holding(n)) \in Nat /\ Occurs(todo', Holding(n)) \in Nat
         /\ rc[n] \in Int /\ rc'[n] \in Int
<1>1. todo \in Seq(Task) /\ todo' \in Seq(Task) /\ rc \in [Node -> Int] /\ rc' \in [Node -> Int]
  BY DEF Shape, TodoShape, DataShape, Typed
<1>2. Len(todo) \in Nat /\ Len(todo') \in Nat
  BY <1>1
<1>3. Occurs(todo, Holding(n)) \in Nat /\ Occurs(todo', Holding(n)) \in Nat
  BY <1>2, PlacesFinite
<1> QED BY <1>1, <1>3, FirmNat

\* What was counted is counted after a balanced step.
LEMMA BalancedCounts ==
  ASSUME Shape, Shape', ObjectsCounted, IndexCounted, \A n \in Node : Balanced(n)
  PROVE  ObjectsCounted' /\ IndexCounted'
<1>1. ASSUME NEW o \in Object PROVE rc'[o] = Firm(o)' + Occurs(todo', Holding(o))
  <2>1. o \in Node
    BY Apartness
  <2>2. rc[o] = Firm(o) + Occurs(todo, Holding(o))
    BY DEF ObjectsCounted, Firm, Refs
  <2> QED BY <2>1, <2>2, CountNat DEF Balanced
<1>2. ASSUME NEW i \in Index PROVE rc'[i] = Firm(i)' + Occurs(todo', Holding(i))
  <2>1. i \in Node /\ i \notin Object
    BY Apartness
  <2>2. rc[i] = Firm(i) + Occurs(todo, Holding(i))
    BY <2>1 DEF IndexCounted, Firm
  <2> QED BY <2>1, <2>2, CountNat DEF Balanced
<1>3. ObjectsCounted'
  BY <1>1 DEF ObjectsCounted, Firm, Refs
<1>4. IndexCounted'
  BY <1>2, Apartness DEF IndexCounted, Firm
<1> QED BY <1>3, <1>4

\* What a step leaves alone.
LEMMA Frame ==
  /\ UNCHANGED held => \A o : One(o \in held)' = One(o \in held)
  /\ UNCHANGED values => \A o : One(o \in values)' = One(o \in values)
  /\ UNCHANGED flookup => \A o : StrongKeys(o)' = StrongKeys(o)
  /\ UNCHANGED attrhash => \A o : StrongAttrs(o)' = StrongAttrs(o)
  /\ UNCHANGED obj => \A o : StrongObjs(o)' = StrongObjs(o)
  /\ UNCHANGED iter => \A i : Gone(i)' = Gone(i)
  /\ UNCHANGED rlookup => \A v \in Object : Under(v)' = Under(v)
  /\ (\A v \in Object : Under(v)' = Under(v)) => \A i : Vhashes(i)' = Vhashes(i)
BY DEF StrongKeys, StrongAttrs, StrongObjs, Gone, Vhashes, Under, One

LEMMA FirmSame ==
  ASSUME UNCHANGED <<held, values, flookup, attrhash, obj, iter>>,
         \A v \in Object : Under(v)' = Under(v), NEW n
  PROVE  Firm(n)' = Firm(n)
BY Frame DEF Firm, Refs

\* A task that is done and those it leaves change what waits for n so.
LEMMA Waiting ==
  ASSUME Shape, todo # <<>>, NEW s \in Seq(Task), Then(s), NEW n,
         Firm(n)' + Occurs(s, Holding(n)) + rc[n] = Firm(n) + One(Top \in Holding(n)) + rc'[n],
         rc[n] \in Int, rc'[n] \in Int
  PROVE  Balanced(n)
<1>1. /\ Occurs(todo, Holding(n)) \in Nat /\ Occurs(s, Holding(n)) \in Nat /\ Occurs(todo', Holding(n)) \in Nat
      /\ Occurs(todo', Holding(n)) = Occurs(s, Holding(n)) + Occurs(todo, Holding(n)) - One(Top \in Holding(n))
  BY Popped DEF Shape
<1>2. One(Top \in Holding(n)) \in Nat
  BY DEF One
<1> QED BY <1>1, <1>2, FirmNat, SMTT(40) DEF Balanced

LEMMA NothingWaits == <<>> \in Seq(Task) /\ \A X : Occurs(<<>>, X) = 0
<1>1. ASSUME NEW X PROVE Occurs(<<>>, X) = 0
  <2>1. Occurs(<<X>>, X) = One(X \in X) /\ Occurs(<<>>, X) = 0
    BY OccursOne, Zenon
  <2> QED BY <2>1
<1> QED BY <1>1

\* The same when nothing is left in its place.
LEMMA Finished ==
  ASSUME Shape, todo # <<>>, Then(<<>>), NEW n,
         Firm(n)' + rc[n] = Firm(n) + One(Top \in Holding(n)) + rc'[n],
         rc[n] \in Int, rc'[n] \in Int
  PROVE  Balanced(n)
<1> DEFINE s == <<>>
<1>1. s \in Seq(Task) /\ Occurs(s, Holding(n)) = 0 /\ Then(s)
  BY NothingWaits
<1> HIDE DEF s
<1>2. Firm(n)' + Occurs(s, Holding(n)) + rc[n] = Firm(n)' + rc[n]
  BY <1>1, FirmNat
<1> QED BY <1>1, <1>2, Waiting

Holder == {"dec", "foreach", "purge_end", "decall"}

LEMMA QuietTop ==
  ASSUME Shape, todo # <<>>, Top[1] \notin Holder
  PROVE  \A n : One(Top \in Holding(n)) = 0
<1>1. Top \in Task
  BY TopIs DEF Shape
<1>2. \A n : Top \notin Holding(n)
  BY <1>1, HoldingIs DEF Holder
<1> QED BY <1>2 DEF One

LEMMA QuietTasks ==
  ASSUME NEW s \in Seq(Task), \A t \in ToSet(s) : t[1] \notin Holder
  PROVE  \A n : Occurs(s, Holding(n)) = 0
<1> SUFFICES ASSUME NEW n PROVE Occurs(s, Holding(n)) = 0
  OBVIOUS
<1>1. ASSUME NEW t \in ToSet(s) PROVE t \notin Holding(n)
  <2>1. t \in Task /\ t[1] \notin Holder
    BY DEF ToSet
  <2> QED BY <2>1, HoldingIs DEF Holder
<1> QED BY <1>1, OccursNone

\* Nothing that is counted changes.
LEMMA Quiet ==
  ASSUME Shape, Shape', todo # <<>>, Top[1] \notin Holder,
         NEW s \in Seq(Task), \A t \in ToSet(s) : t[1] \notin Holder, Then(s),
         UNCHANGED <<rc, held, values, flookup, attrhash, obj, iter>>,
         \A v \in Object : Under(v)' = Under(v)
  PROVE  \A n \in Node : Balanced(n)
<1> SUFFICES ASSUME NEW n \in Node PROVE Balanced(n)
  OBVIOUS
<1>1. Firm(n)' = Firm(n)
  BY FirmSame
<1>3. Occurs(s, Holding(n)) = 0
  BY QuietTasks
<1>4. One(Top \in Holding(n)) = 0
  BY QuietTop
<1> QED BY <1>1, <1>3, <1>4, CountNat, Waiting

-----------------------------------------------------------------------------
(* One reference less.                                                      *)

LEMMA LessKey ==
  ASSUME Typed, NEW k \in Key, flookup' = [flookup EXCEPT ![k] = NoValue], NEW o \in Object
  PROVE  Cardinality(StrongKeys(o))' =
           Cardinality(StrongKeys(o)) - One(flookup[k].mode = "strong" /\ flookup[k].value = o)
<1>1. StrongKeys(o)' = StrongKeys(o) \ {k}
  BY DEF StrongKeys, Typed, NoValue
<1>2. k \in StrongKeys(o) <=> flookup[k].mode = "strong" /\ flookup[k].value = o
  BY DEF StrongKeys, Typed
<1>3. Cardinality(StrongKeys(o) \ {k}) = Cardinality(StrongKeys(o)) - One(k \in StrongKeys(o))
  BY StrongFinite, CardLess
<1> QED BY <1>1, <1>2, <1>3 DEF One

LEMMA LessAttr ==
  ASSUME Typed, NEW a \in Attr, NEW v \in Object, attrhash' = [attrhash EXCEPT ![a][v] = "none"],
         NEW o \in Object
  PROVE  Cardinality(StrongAttrs(o))' =
           Cardinality(StrongAttrs(o)) - One(attrhash[a][v] = "strong" /\ v = o)
<1>0. attrhash \in [Attr -> [Object -> Entry]]
  BY DEF Typed
<1>1. \A b \in Attr : attrhash'[b][o] = IF b = a /\ o = v THEN "none" ELSE attrhash[b][o]
  BY <1>0
<1>2. StrongAttrs(o)' = IF o = v THEN StrongAttrs(o) \ {a} ELSE StrongAttrs(o)
  BY <1>1 DEF StrongAttrs
<1>3. a \in StrongAttrs(o) <=> attrhash[a][o] = "strong"
  BY DEF StrongAttrs
<1>4. Cardinality(StrongAttrs(o) \ {a}) = Cardinality(StrongAttrs(o)) - One(a \in StrongAttrs(o))
  BY StrongFinite, CardLess
<1> QED BY <1>2, <1>3, <1>4, StrongFinite DEF One

LEMMA LessObj ==
  ASSUME Typed, NEW i \in Index, NEW x, obj' = [obj EXCEPT ![i] = x], x # "strong", NEW o \in Object
  PROVE  Cardinality(StrongObjs(o))' =
           Cardinality(StrongObjs(o)) - One(obj[i] = "strong" /\ TheObject(i) = o)
<1>1. StrongObjs(o)' = StrongObjs(o) \ {i}
  BY DEF StrongObjs, Typed
<1>2. i \in StrongObjs(o) <=> obj[i] = "strong" /\ TheObject(i) = o
  BY DEF StrongObjs
<1>3. Cardinality(StrongObjs(o) \ {i}) = Cardinality(StrongObjs(o)) - One(i \in StrongObjs(o))
  BY StrongFinite, CardLess
<1> QED BY <1>1, <1>2, <1>3 DEF One

\* A value leaves the vhashes of the indices that J names.
LEMMA LessVhash ==
  ASSUME NEW v \in Object, NEW J, \A u \in Object : Under(u)' = IF u = v THEN Under(u) \ J ELSE Under(u),
         NEW i
  PROVE  Cardinality(Vhashes(i))' = Cardinality(Vhashes(i)) - One(i \in Under(v) /\ i \in J)
<1>1. Vhashes(i)' = IF i \in J THEN Vhashes(i) \ {v} ELSE Vhashes(i)
  BY DEF Vhashes
<1>2. v \in Vhashes(i) <=> i \in Under(v)
  BY DEF Vhashes
<1>3. Cardinality(Vhashes(i) \ {v}) = Cardinality(Vhashes(i)) - One(v \in Vhashes(i))
  BY StrongFinite, CardLess
<1> QED BY <1>1, <1>2, <1>3, StrongFinite DEF One

LEMMA FirmLessKey ==
  ASSUME Typed, NEW k \in Key, flookup' = [flookup EXCEPT ![k] = NoValue],
         flookup[k].mode = "strong" => flookup[k].value \in Object,
         UNCHANGED <<held, values, attrhash, obj, iter, rlookup>>, NEW n
  PROVE  Firm(n)' = Firm(n) - One(flookup[k].mode = "strong" /\ flookup[k].value = n)
<1>1. CASE n \in Object
  <2>1. Cardinality(StrongKeys(n))' = Cardinality(StrongKeys(n)) - One(flookup[k].mode = "strong" /\ flookup[k].value = n)
    BY <1>1, LessKey
  <2>2. One(n \in held)' = One(n \in held) /\ One(n \in values)' = One(n \in values)
        /\ StrongAttrs(n)' = StrongAttrs(n) /\ StrongObjs(n)' = StrongObjs(n)
    BY Frame
  <2>3. One(n \in held) \in Nat /\ One(n \in values) \in Nat /\ One(flookup[k].mode = "strong" /\ flookup[k].value = n) \in Nat
    BY DEF One
  <2>4. Refs(n)' = Refs(n) - One(flookup[k].mode = "strong" /\ flookup[k].value = n)
    BY <2>1, <2>2, <2>3, StrongFinite DEF Refs
  <2> QED BY <1>1, <2>4 DEF Firm
<1>2. CASE n \notin Object
  <2>1. One(flookup[k].mode = "strong" /\ flookup[k].value = n) = 0
    BY <1>2 DEF One
  <2>2. Firm(n)' = Firm(n)
    BY <1>2, Frame DEF Firm
  <2> QED BY <2>1, <2>2, FirmNat
<1> QED BY <1>1, <1>2

LEMMA FirmLessAttr ==
  ASSUME Typed, NEW a \in Attr, NEW v \in Object, attrhash' = [attrhash EXCEPT ![a][v] = "none"],
         UNCHANGED <<held, values, flookup, obj, iter, rlookup>>, NEW n
  PROVE  Firm(n)' = Firm(n) - One(attrhash[a][v] = "strong" /\ v = n)
<1>1. CASE n \in Object
  <2>1. Cardinality(StrongAttrs(n))' = Cardinality(StrongAttrs(n)) - One(attrhash[a][v] = "strong" /\ v = n)
    BY <1>1, LessAttr
  <2>2. One(n \in held)' = One(n \in held) /\ One(n \in values)' = One(n \in values)
        /\ StrongKeys(n)' = StrongKeys(n) /\ StrongObjs(n)' = StrongObjs(n)
    BY Frame
  <2>3. One(n \in held) \in Nat /\ One(n \in values) \in Nat /\ One(attrhash[a][v] = "strong" /\ v = n) \in Nat
    BY DEF One
  <2>4. Refs(n)' = Refs(n) - One(attrhash[a][v] = "strong" /\ v = n)
    BY <2>1, <2>2, <2>3, StrongFinite DEF Refs
  <2> QED BY <1>1, <2>4 DEF Firm
<1>2. CASE n \notin Object
  <2>1. One(attrhash[a][v] = "strong" /\ v = n) = 0
    BY <1>2 DEF One
  <2>2. Firm(n)' = Firm(n)
    BY <1>2, Frame DEF Firm
  <2> QED BY <2>1, <2>2, FirmNat
<1> QED BY <1>1, <1>2

LEMMA FirmLessObj ==
  ASSUME Typed, NEW i \in Index, NEW x, obj' = [obj EXCEPT ![i] = x], x # "strong",
         obj[i] = "strong" => TheObject(i) \in Object,
         UNCHANGED <<held, values, flookup, attrhash, iter, rlookup>>, NEW n
  PROVE  Firm(n)' = Firm(n) - One(obj[i] = "strong" /\ TheObject(i) = n)
<1>1. CASE n \in Object
  <2>1. Cardinality(StrongObjs(n))' = Cardinality(StrongObjs(n)) - One(obj[i] = "strong" /\ TheObject(i) = n)
    BY <1>1, LessObj
  <2>2. One(n \in held)' = One(n \in held) /\ One(n \in values)' = One(n \in values)
        /\ StrongKeys(n)' = StrongKeys(n) /\ StrongAttrs(n)' = StrongAttrs(n)
    BY Frame
  <2>3. One(n \in held) \in Nat /\ One(n \in values) \in Nat /\ One(obj[i] = "strong" /\ TheObject(i) = n) \in Nat
    BY DEF One
  <2>4. Refs(n)' = Refs(n) - One(obj[i] = "strong" /\ TheObject(i) = n)
    BY <2>1, <2>2, <2>3, StrongFinite DEF Refs
  <2> QED BY <1>1, <2>4 DEF Firm
<1>2. CASE n \notin Object
  <2>1. One(obj[i] = "strong" /\ TheObject(i) = n) = 0
    BY <1>2 DEF One
  <2>2. Firm(n)' = Firm(n)
    BY <1>2, Frame DEF Firm
  <2> QED BY <2>1, <2>2, FirmNat
<1> QED BY <1>1, <1>2

-----------------------------------------------------------------------------
(* The steps.  EvenX says that X changes each count as it changes the       *)
(* references; FirmX how many of the references that do not wait in todo it *)
(* leaves.                                                                  *)

LEMMA EvenFault ==
  ASSUME NEW what, Fault(what)
  PROVE  \A n \in Node : Balanced(n)
<1> SUFFICES ASSUME NEW n \in Node PROVE Balanced(n)
  OBVIOUS
<1>1. UNCHANGED <<held, values, flookup, attrhash, obj, iter, rlookup>>
  BY DEF Fault, tables, blobs, loops
<1>2. Firm(n)' = Firm(n)
  BY <1>1, Frame, FirmSame
<1> QED BY <1>2 DEF Balanced, Fault, heap

\* A death clears weak references only.
LEMMA DieStrong ==
  ASSUME Typed, NEW n, Die(n), NEW o \in Object
  PROVE  /\ StrongKeys(o)' = StrongKeys(o) /\ StrongAttrs(o)' = StrongAttrs(o)
         /\ StrongObjs(o)' = StrongObjs(o)
<1>1. \A m : (Cleared(m) = "strong" <=> m = "strong")
  BY DEF Cleared
<1>2. StrongKeys(o)' = StrongKeys(o)
  <2> SUFFICES ASSUME NEW k \in Key
               PROVE  flookup'[k] = [mode |-> "strong", value |-> o]
                        <=> flookup[k] = [mode |-> "strong", value |-> o]
    BY DEF StrongKeys
  <2> DEFINE e == flookup[k]
  <2>1. flookup'[k] = IF e.value = n THEN [e EXCEPT !.mode = Cleared(e.mode)] ELSE e
    BY DEF Die
  <2>2. e \in [mode : Entry, value : Object \cup {Null}]
    BY DEF Typed
  <2> HIDE DEF e
  <2>3. e = [mode |-> "strong", value |-> o] <=> e.mode = "strong" /\ e.value = o
    BY <2>2
  <2>4. [e EXCEPT !.mode = Cleared(e.mode)] = [mode |-> Cleared(e.mode), value |-> e.value]
    BY <2>2
  <2> QED BY <1>1, <2>1, <2>3, <2>4 DEF e
<1>3. StrongAttrs(o)' = StrongAttrs(o)
  <2> SUFFICES ASSUME NEW a \in Attr
               PROVE  attrhash'[a][o] = "strong" <=> attrhash[a][o] = "strong"
    BY DEF StrongAttrs
  <2> QED BY <1>1 DEF Die
<1>4. StrongObjs(o)' = StrongObjs(o)
  BY <1>1 DEF StrongObjs, Die
<1> QED BY <1>2, <1>3, <1>4

\* A death changes no count but the dead node's.
LEMMA FirmDie ==
  ASSUME Typed, NEW n, Die(n), UNCHANGED <<held, values, iter, rlookup>>
  PROVE  \A m \in Node : Firm(m)' = Firm(m)
<1>1. \A o \in Object : Refs(o)' = Refs(o)
  BY DieStrong, Frame DEF Refs
<1> QED BY <1>1, Frame DEF Firm

LEMMA EvenDie ==
  ASSUME Shape, Shape', todo # <<>>, NEW m \in Node, Die(m), Top = <<"dec", m>>, rc[m] = 1,
         UNCHANGED <<held, values, iter, rlookup>>
  PROVE  \A n \in Node : Balanced(n)
<1> DEFINE s == <<<<"free", m>>>>
<1> SUFFICES ASSUME NEW n \in Node PROVE Balanced(n)
  OBVIOUS
<1>1. Firm(n)' = Firm(n)
  BY FirmDie DEF Shape, DataShape
<1>2. <<"free", m>> \in Task /\ <<"free", m>> \notin Holding(n)
  BY OtherTasks, HoldingIs
<1>3. s \in Seq(Task) /\ Then(s)
  BY <1>2 DEF Die
<1>4. Occurs(s, Holding(n)) = One(<<"free", m>> \in Holding(n))
  BY OccursOne, Zenon
<1>5. One(<<"free", m>> \in Holding(n)) = 0 /\ One(Top \in Holding(n)) = IF n = m THEN 1 ELSE 0
  BY <1>2, HoldingIs DEF One
<1>6. rc'[n] = IF n = m THEN 0 ELSE rc[n]
  BY DEF Die, Shape, DataShape, Typed
<1> HIDE DEF s
<1> QED BY <1>1, <1>3, <1>4, <1>5, <1>6, CountNat, Waiting

LEMMA EvenDec ==
  ASSUME Shape, Shape', Dec
  PROVE  \A n \in Node : Balanced(n)
<1> DEFINE m == Top[2]
<1>1. todo # <<>> /\ Top[1] = "dec" /\ m \in Node /\ Top = <<"dec", m>>
  BY TopIs DEF Dec, Doing, Shape, TaskIs
<1>2. CASE Fault("decrement of a freed node")
  BY <1>2, EvenFault
<1>3. CASE rc[m] = 1 /\ Die(m) /\ UNCHANGED <<held, rlookup, loops>>
  BY <1>1, <1>3, EvenDie DEF loops
<1>4. CASE /\ rc' = [rc EXCEPT ![m] = @ - 1] /\ Then(<<>>)
           /\ UNCHANGED <<held, tables, blobs, loops>>
  <2> SUFFICES ASSUME NEW n \in Node PROVE Balanced(n)
    OBVIOUS
  <2>1. UNCHANGED <<held, values, flookup, attrhash, obj, iter, rlookup>>
    BY <1>4 DEF tables, blobs, loops
  <2>2. Firm(n)' = Firm(n)
    BY <2>1, Frame, FirmSame
  <2>4. One(Top \in Holding(n)) = IF n = m THEN 1 ELSE 0
    BY <1>1, HoldingIs DEF One
  <2>5. rc'[n] = IF n = m THEN rc[n] - 1 ELSE rc[n]
    BY <1>4 DEF Shape, DataShape, Typed
  <2> QED BY <1>1, <1>4, <2>2, <2>4, <2>5, CountNat, Finished
<1> QED BY <1>2, <1>3, <1>4 DEF Dec

LEMMA EvenDecAll ==
  ASSUME Shape, Shape', DecAll
  PROVE  \A n \in Node : Balanced(n)
<1> DEFINE S == Top[2]
<1>1. todo # <<>> /\ Top[1] = "decall" /\ S \in SUBSET Node /\ Top = <<"decall", S>>
  BY TopIs DEF DecAll, Doing, Shape, TaskIs
<1>2. UNCHANGED <<held, values, flookup, attrhash, obj, iter, rlookup, rc>>
  BY DEF DecAll, heap, tables, blobs, loops
<1> SUFFICES ASSUME NEW n \in Node PROVE Balanced(n)
  OBVIOUS
<1>3. Firm(n)' = Firm(n)
  BY <1>2, Frame, FirmSame
<1>4. Top \in Holding(n) <=> n \in S
  BY <1>1, HoldingIs
<1>5. CASE S = {}
  <2>1. Then(<<>>)
    BY <1>5 DEF DecAll
  <2>2. One(Top \in Holding(n)) = 0
    BY <1>4, <1>5 DEF One
  <2> QED BY <1>1, <1>2, <1>3, <2>1, <2>2, CountNat, Finished
<1>6. CASE S # {}
  <2>1. PICK m \in S : Then(<<<<"dec", m>>, <<"decall", S \ {m}>>>>)
    BY <1>6 DEF DecAll
  <2> DEFINE x == <<"dec", m>>
             y == <<"decall", S \ {m}>>
             s == <<x, y>>
  <2>2. x \in Task /\ y \in Task
    BY <1>1, PlainTasks DEF Plain
  <2>3. (x \in Holding(n) <=> m = n) /\ (y \in Holding(n) <=> n \in S \ {m})
    BY <1>1, HoldingIs
  <2> HIDE DEF x, y
  <2>4. s \in Seq(Task)
    BY <2>2
  <2>5. Occurs(s, Holding(n)) = One(x \in Holding(n)) + One(y \in Holding(n))
    BY <2>2, OccursTwo
  <2>6. One(x \in Holding(n)) + One(y \in Holding(n)) = One(Top \in Holding(n))
    BY <1>4, <2>3 DEF One
  <2>7. Then(s)
    BY <2>1 DEF x, y
  <2> HIDE DEF s
  <2> QED BY <1>1, <1>2, <1>3, <2>4, <2>5, <2>6, <2>7, CountNat, Waiting
<1> QED BY <1>5, <1>6

LEMMA EvenRunAction ==
  ASSUME Shape, Shape', RunAction
  PROVE  \A n \in Node : Balanced(n)
<1> DEFINE x == Head(acts[Top[2]])
<1>1. todo # <<>> /\ Top[1] = "free" /\ Top[2] \in Node
  BY TopIs DEF RunAction, Doing, Shape, TaskIs
<1>2. x \in Action
  BY <1>1 DEF RunAction, Shape, DataShape, Typed
<1>3. x \in Task /\ x[1] \notin Holder
  BY <1>2, ActionIs, OtherTasks DEF ActionKinds, Holder
<1>4. todo' = <<x>> \o todo /\ todo \in Seq(Task)
  BY DEF RunAction, Shape, TodoShape
<1>5. UNCHANGED <<held, values, flookup, attrhash, obj, iter, rlookup, rc>>
  BY DEF RunAction, tables, blobs, loops
<1> HIDE DEF x
<1> SUFFICES ASSUME NEW n \in Node PROVE Balanced(n)
  OBVIOUS
<1>6. Firm(n)' = Firm(n)
  BY <1>5, Frame, FirmSame
<1> DEFINE s == <<x>>
<1>7. s \in Seq(Task)
  BY <1>3
<1>8. Occurs(s, Holding(n)) = 0
  <2>1. Occurs(s, Holding(n)) = One(x \in Holding(n))
    BY OccursOne, Zenon
  <2>2. x \notin Holding(n)
    BY <1>3, HoldingIs DEF Holder
  <2> QED BY <2>1, <2>2 DEF One
<1>9. todo' = s \o todo
  BY <1>4
<1> HIDE DEF s
<1>10. Occurs(todo', Holding(n)) = Occurs(s, Holding(n)) + Occurs(todo, Holding(n))
  BY <1>4, <1>7, <1>9, OccursConcat
<1> QED BY <1>5, <1>6, <1>8, <1>10, CountNat DEF Balanced

LEMMA EvenDelSlookup ==
  ASSUME Shape, Shape', DelSlookup
  PROVE  \A n \in Node : Balanced(n)
<1>1. todo # <<>> /\ Top[1] \notin Holder /\ Then(<<>>)
  BY DEF DelSlookup, Doing, Holder
<1>2. UNCHANGED <<held, values, flookup, attrhash, obj, iter, rlookup, rc>>
  BY DEF DelSlookup, heap, blobs, loops
<1> SUFFICES ASSUME NEW n \in Node PROVE Balanced(n)
  OBVIOUS
<1>3. Firm(n)' = Firm(n)
  BY <1>2, Frame, FirmSame
<1> QED BY <1>1, <1>2, <1>3, QuietTop, CountNat, Finished

LEMMA EvenDelFlookup ==
  ASSUME Shape, Shape', DelFlookup
  PROVE  \A n \in Node : Balanced(n)
<1> DEFINE k == Top[2]
           s == DecIf(flookup[k].mode, flookup[k].value)
<1>1. todo # <<>> /\ Top[1] \notin Holder /\ Top[1] = "flookup" /\ k \in Key
  BY TopIs, ActionIs DEF DelFlookup, Doing, Holder, Shape, TaskIs, ActionKinds
<1>2. Then(s) /\ flookup' = [flookup EXCEPT ![k] = NoValue]
      /\ UNCHANGED <<held, values, attrhash, obj, iter, rlookup, rc>>
  BY DEF DelFlookup, heap, blobs, loops
<1>3. flookup[k].mode = "strong" => flookup[k].value \in Object
  BY <1>1 DEF Shape, DataShape, EntriesTyped, Ref
<1> SUFFICES ASSUME NEW n \in Node PROVE Balanced(n)
  OBVIOUS
<1>4. s \in Seq(Task) /\ Occurs(s, Holding(n)) = One(flookup[k].mode = "strong" /\ flookup[k].value = n)
  BY <1>3, OccursDecIf, Apartness
<1> HIDE DEF s
<1>5. Firm(n)' = Firm(n) - One(flookup[k].mode = "strong" /\ flookup[k].value = n)
  BY <1>1, <1>2, <1>3, FirmLessKey DEF Shape, DataShape
<1>6. Firm(n)' + Occurs(s, Holding(n)) = Firm(n)
  BY <1>4, <1>5, FirmNat DEF One
<1> QED BY <1>1, <1>2, <1>4, <1>6, QuietTop, CountNat, Waiting

LEMMA EvenDelRlookup ==
  ASSUME Shape, Shape', DelRlookup
  PROVE  \A n \in Node : Balanced(n)
<1> DEFINE v == Top[2]
           x == <<"decall", rlookup[v]>>
           s == <<x>>
<1>1. todo # <<>> /\ Top[1] \notin Holder /\ Top[1] = "rlookup" /\ v \in Object
  BY TopIs, ActionIs DEF DelRlookup, Doing, Holder, Shape, TaskIs, ActionKinds
<1>2. rlookup' = [rlookup EXCEPT ![v] = Null] /\ UNCHANGED <<held, values, flookup, attrhash, obj, iter, rc>>
  BY DEF DelRlookup, heap, blobs, loops
<1>3. \A u \in Object : Under(u)' = IF u = v THEN {} ELSE Under(u)
  BY <1>1, <1>2 DEF Under, Shape, DataShape, Typed
<1> SUFFICES ASSUME NEW n \in Node PROVE Balanced(n)
  OBVIOUS
<1>4. CASE rlookup[v] = Null
  <2>1. \A u \in Object : Under(u)' = Under(u)
    BY <1>3, <1>4 DEF Under
  <2>2. Firm(n)' = Firm(n)
    BY <1>2, <2>1, FirmSame
  <2>3. Then(<<>>)
    BY <1>4 DEF DelRlookup
  <2> QED BY <1>1, <1>2, <2>2, <2>3, QuietTop, CountNat, Finished
<1>5. CASE rlookup[v] # Null
  <2>1. Under(v) = rlookup[v] /\ Under(v) \subseteq Index /\ rlookup[v] \in SUBSET Node
    BY <1>1, <1>5, UnderIs, Apartness DEF Shape, DataShape
  <2>2. x \in Task /\ (x \in Holding(n) <=> n \in Under(v))
    BY <2>1, PlainTasks, HoldingIs DEF Plain
  <2>3. s \in Seq(Task) /\ Then(s)
    BY <1>5, <2>2 DEF DelRlookup
  <2> HIDE DEF x
  <2>4. Occurs(s, Holding(n)) = One(x \in Holding(n))
    BY OccursOne, Zenon
  <2> HIDE DEF s
  <2>5. Firm(n)' + One(n \in Under(v)) = Firm(n)
    <3>1. CASE n \in Object
      <4>1. n \notin Under(v)
        BY <2>1, <3>1, Apartness
      <4>2. Firm(n)' = Firm(n)
        BY <1>2, <3>1, Frame DEF Firm, Refs
      <4> QED BY <4>1, <4>2, FirmNat DEF One
    <3>2. CASE n \notin Object
      <4>1. Cardinality(Vhashes(n))' = Cardinality(Vhashes(n)) - One(n \in Under(v) /\ n \in Under(v))
        <5>1. \A u \in Object : Under(u)' = IF u = v THEN Under(u) \ Under(v) ELSE Under(u)
          BY <1>3
        <5> QED BY <1>1, <5>1, LessVhash
      <4>2. Gone(n)' = Gone(n) /\ Gone(n) \in Nat
        BY <1>2, Frame DEF Gone, One
      <4>3. One(n \in Under(v) /\ n \in Under(v)) = One(n \in Under(v)) /\ One(n \in Under(v)) \in Nat
        BY DEF One
      <4> QED BY <3>2, <4>1, <4>2, <4>3, StrongFinite DEF Firm
    <3> QED BY <3>1, <3>2
  <2>6. Occurs(s, Holding(n)) = One(n \in Under(v)) /\ One(n \in Under(v)) \in Nat
    BY <2>2, <2>4 DEF One
  <2> QED BY <1>1, <1>2, <2>3, <2>5, <2>6, QuietTop, CountNat, Waiting
<1> QED BY <1>4, <1>5

\* A reference to v is taken from an attribute and will be given up.
LEMMA EvenLessAttr ==
  ASSUME Shape, Shape', todo # <<>>, Top[1] \notin Holder, NEW a \in Attr, NEW v \in Object,
         attrhash' = [attrhash EXCEPT ![a][v] = "none"], Then(DecIf(attrhash[a][v], v)),
         UNCHANGED <<held, values, flookup, obj, iter, rlookup, rc>>
  PROVE  \A n \in Node : Balanced(n)
<1> DEFINE s == DecIf(attrhash[a][v], v)
<1> SUFFICES ASSUME NEW n \in Node PROVE Balanced(n)
  OBVIOUS
<1>1. s \in Seq(Task) /\ Occurs(s, Holding(n)) = One(attrhash[a][v] = "strong" /\ v = n)
  BY OccursDecIf, Apartness
<1>2. Then(s)
  OBVIOUS
<1> HIDE DEF s
<1>3. Firm(n)' = Firm(n) - One(attrhash[a][v] = "strong" /\ v = n)
  BY FirmLessAttr DEF Shape, DataShape
<1>4. Firm(n)' + Occurs(s, Holding(n)) = Firm(n)
  BY <1>1, <1>3, FirmNat DEF One
<1> QED BY <1>1, <1>2, <1>4, QuietTop, CountNat, Waiting

LEMMA EvenDelAttrhash ==
  ASSUME Shape, Shape', DelAttrhash
  PROVE  \A n \in Node : Balanced(n)
<1>1. todo # <<>> /\ Top[1] \notin Holder /\ Top[1] = "attrhash" /\ Top[2] \in Attr /\ Top[3] \in Object
  BY TopIs, ActionIs DEF DelAttrhash, Doing, Holder, Shape, TaskIs, ActionKinds
<1>2. CASE life[Top[2]] = "free"
  BY <1>2, EvenFault DEF DelAttrhash
<1>3. CASE life[Top[2]] # "free"
  BY <1>1, <1>3, EvenLessAttr DEF DelAttrhash, heap, tables, loops
<1> QED BY <1>2, <1>3

LEMMA EvenDelFromAttrhash ==
  ASSUME Shape, Shape', DelFromAttrhash
  PROVE  \A n \in Node : Balanced(n)
<1>1. todo # <<>> /\ Top[1] \notin Holder /\ Top[1] = "unhash" /\ Top[2] \in Attr /\ Top[3] \in Object
  BY TopIs DEF DelFromAttrhash, Doing, Holder, Shape, TaskIs
<1> QED BY <1>1, EvenLessAttr DEF DelFromAttrhash, tables, loops

\* An element leaves a vhash: its reference is given up, or stays with the loop.
LEMMA EvenDelFromVhash ==
  ASSUME Shape, Shape', DelFromVhash
  PROVE  \A n \in Node : Balanced(n)
<1> DEFINE i == Top[2]
           v == Top[3]
           c == <<"vhash_check", v>>
           d == <<"dec", i>>
           at == iter # Null /\ i \in Under(v) /\ iter.value = v /\ iter.cur = i
           e == IF i \in Under(v) THEN <<d>> ELSE <<>>
           q == <<c>>
<1>1. todo # <<>> /\ Top[1] \notin Holder /\ Top[1] = "unvhash" /\ i \in Index /\ v \in Object
  BY TopIs DEF DelFromVhash, Doing, Holder, Shape, TaskIs
<1>2. UNCHANGED <<held, values, flookup, attrhash, obj, rc>>
  BY DEF DelFromVhash, heap, blobs
<1>3. c \in Task /\ d \in Task /\ \A n : c \notin Holding(n) /\ (d \in Holding(n) <=> n = i)
  <2>1. c \in Task /\ d \in Task /\ c[1] = "vhash_check"
    BY <1>1, PlainTasks, Apartness DEF Plain
  <2>2. ASSUME NEW n PROVE c \notin Holding(n)
    <3> HIDE DEF c
    <3> QED BY <2>1, HoldingIs
  <2>3. ASSUME NEW n PROVE d \in Holding(n) <=> n = i
    BY <1>1, HoldingIs, Apartness
  <2> QED BY <2>1, <2>2, <2>3
<1> SUFFICES ASSUME NEW n \in Node PROVE Balanced(n)
  OBVIOUS
<1>4. CASE rlookup[v] = Null
  <2>1. Then(<<>>) /\ UNCHANGED <<rlookup, iter>>
    BY <1>4 DEF DelFromVhash
  <2>2. Firm(n)' = Firm(n)
    BY <1>2, <2>1, Frame, FirmSame
  <2> QED BY <1>1, <1>2, <2>1, <2>2, QuietTop, CountNat, Finished
<1>5. CASE rlookup[v] # Null
  <2>1. \A u \in Object : Under(u)' = IF u = v THEN Under(u) \ {i} ELSE Under(u)
    <3>1. rlookup' = [rlookup EXCEPT ![v] = @ \ {i}] /\ rlookup \in [Object -> (SUBSET Index) \cup {Null}]
      BY <1>5 DEF DelFromVhash, Shape, DataShape, Typed
    <3> QED BY <1>1, <1>5, <3>1, Apartness DEF Under
  <2>2. ASSUME NEW j
        PROVE Cardinality(Vhashes(j))' = Cardinality(Vhashes(j)) - One(j \in Under(v) /\ j = i)
    <3>1. Cardinality(Vhashes(j))' = Cardinality(Vhashes(j)) - One(j \in Under(v) /\ j \in {i})
      BY <1>1, <2>1, LessVhash, ZenonT(60)
    <3> QED BY <3>1 DEF One
  <2>3. q \in Seq(Task) /\ Occurs(q, Holding(n)) = 0
    <3>1. Occurs(q, Holding(n)) = One(c \in Holding(n))
      BY OccursOne, Zenon
    <3> QED BY <1>3, <3>1 DEF One
  <2>4. Refs(n)' = Refs(n)
    BY <1>2, Frame DEF Refs
  <2>5. CASE at
    <3>1. Then(q) /\ iter' = [iter EXCEPT !.gone = TRUE] /\ iter \in Loop
      BY <1>5, <2>5 DEF DelFromVhash, Shape, DataShape, Typed
    <3>2. ~ iter.gone
      BY <2>5 DEF Shape, TodoShape, LoopOpen
    <3>3. Gone(n) = 0 /\ Gone(n)' = One(n = i)
      BY <2>5, <3>1, <3>2, Apartness DEF Gone, One, Loop
    <3>4. Cardinality(Vhashes(n))' + One(n = i) = Cardinality(Vhashes(n))
      BY <2>2, <2>5, StrongFinite DEF One
    <3>5. Firm(n)' = Firm(n)
      <4>1. CASE n \in Object
        BY <2>4, <4>1 DEF Firm
      <4>2. CASE n \notin Object
        BY <3>3, <3>4, <4>2, StrongFinite, StrongFiniteNext DEF Firm, One
      <4> QED BY <4>1, <4>2
    <3> HIDE DEF q
    <3> QED BY <1>1, <1>2, <2>3, <3>1, <3>5, QuietTop, CountNat, Waiting
  <2>6. CASE ~ at
    <3> DEFINE s == e \o q
    <3>1. Then(s) /\ UNCHANGED iter
      BY <1>5, <2>6 DEF DelFromVhash
    <3>2. e \in Seq(Task) /\ Occurs(e, Holding(n)) = One(n \in Under(v) /\ n = i)
      <4>1. CASE i \in Under(v)
        <5>1. e = <<d>>
          BY <4>1
        <5>2. Occurs(<<d>>, Holding(n)) = One(d \in Holding(n))
          BY OccursOne, Zenon
        <5>3. One(d \in Holding(n)) = One(n \in Under(v) /\ n = i)
          BY <1>3, <4>1 DEF One
        <5>4. <<d>> \in Seq(Task)
          BY <1>3
        <5> QED BY <5>1, <5>2, <5>3, <5>4
      <4>2. CASE i \notin Under(v)
        <5>1. e = <<>>
          BY <4>2
        <5> HIDE DEF e
        <5> QED BY <4>2, <5>1, NothingWaits DEF One
      <4> QED BY <4>1, <4>2
    <3> HIDE DEF e, q
    <3>3. s \in Seq(Task) /\ Occurs(s, Holding(n)) = Occurs(e, Holding(n)) + Occurs(q, Holding(n))
      BY <2>3, <3>2, OccursConcat, SetConcat
    <3> HIDE DEF s
    <3>4. Firm(n)' + One(n \in Under(v) /\ n = i) = Firm(n)
      <4>1. CASE n \in Object
        <5>1. n # i
          BY <1>1, <4>1, Apartness
        <5> QED BY <2>4, <4>1, <5>1, FirmNat DEF Firm, One
      <4>2. CASE n \notin Object
        <5>1. Gone(n)' = Gone(n) /\ Gone(n) \in Nat /\ One(n \in Under(v) /\ n = i) \in Nat
          BY <3>1, Frame DEF Gone, One
        <5> QED BY <2>2, <4>2, <5>1, StrongFinite DEF Firm
      <4> QED BY <4>1, <4>2
    <3>5. One(n \in Under(v) /\ n = i) \in Nat
      BY DEF One
    <3> QED BY <1>1, <1>2, <2>3, <3>1, <3>2, <3>3, <3>4, <3>5, QuietTop, CountNat, Waiting
  <2> QED BY <2>5, <2>6
<1> QED BY <1>4, <1>5

LEMMA EvenVhashCheck ==
  ASSUME Shape, Shape', VhashCheck
  PROVE  \A n \in Node : Balanced(n)
<1>1. todo # <<>> /\ Top[1] \notin Holder /\ Top[1] = "vhash_check" /\ Top[2] \in Object /\ Then(<<>>)
  BY TopIs DEF VhashCheck, Doing, Holder, Shape, TaskIs
<1>2. UNCHANGED <<held, values, flookup, attrhash, obj, iter, rc>>
  BY DEF VhashCheck, blobs, loops
<1>3. \A u \in Object : Under(u)' = Under(u)
  BY <1>1 DEF VhashCheck, Under, Shape, DataShape, Typed
<1> SUFFICES ASSUME NEW n \in Node PROVE Balanced(n)
  OBVIOUS
<1>4. Firm(n)' = Firm(n)
  BY <1>2, <1>3, FirmSame
<1> QED BY <1>1, <1>2, <1>4, QuietTop, CountNat, Finished

\* One task in the place of another, and nothing that is counted changes.
LEMMA EvenOne ==
  ASSUME Shape, Shape', todo # <<>>, Top[1] \notin Holder, NEW x \in Task, x[1] \notin Holder, Then(<<x>>),
         UNCHANGED <<held, values, flookup, attrhash, obj, iter, rlookup, rc>>
  PROVE  \A n \in Node : Balanced(n)
<1> DEFINE s == <<x>>
<1>1. ToSet(s) = {x}
  BY SetOne, Zenon
<1>2. s \in Seq(Task) /\ Then(s)
  OBVIOUS
<1> HIDE DEF s
<1> QED BY <1>1, <1>2, Quiet, Frame

LEMMA EvenEncapDestroyHook ==
  ASSUME Shape, Shape', EncapDestroyHook
  PROVE  \A n \in Node : Balanced(n)
<1> DEFINE k == Top[2]
           x == <<"k_encap_cleanup", k>>
<1>1. todo # <<>> /\ Top[1] \notin Holder /\ Top[1] = "encap_destroy_hook" /\ k \in Key
  BY TopIs, ActionIs DEF EncapDestroyHook, Doing, Holder, Shape, TaskIs, ActionKinds
<1>2. CASE life[k] = "free"
  BY <1>2, EvenFault DEF EncapDestroyHook
<1>3. CASE life[k] # "free"
  <2>1. Then(<<x>>) /\ UNCHANGED <<held, values, flookup, attrhash, obj, iter, rlookup, rc>>
    BY <1>3 DEF EncapDestroyHook, tables, blobs, loops
  <2>2. x \in Task /\ x[1] \notin Holder
    BY <1>1, ActionTasks DEF Plain, Holder
  <2> HIDE DEF x
  <2> QED BY <1>1, <2>1, <2>2, EvenOne
<1> QED BY <1>2, <1>3

\* The reference of an index to its object is taken out and will be given up.
LEMMA EvenLessObj ==
  ASSUME Shape, Shape', todo # <<>>, Top[1] \notin Holder, NEW i \in Index, NEW x, x # "strong",
         obj' = [obj EXCEPT ![i] = x], obj[i] = "strong" => TheObject(i) \in Object,
         UNCHANGED <<held, values, flookup, attrhash, iter, rlookup>>,
         NEW s \in Seq(Task), Then(s),
         \A n \in Node : Occurs(s, Holding(n)) + rc[n] = One(obj[i] = "strong" /\ TheObject(i) = n) + rc'[n]
  PROVE  \A n \in Node : Balanced(n)
<1> SUFFICES ASSUME NEW n \in Node PROVE Balanced(n)
  OBVIOUS
<1>1. Firm(n)' = Firm(n) - One(obj[i] = "strong" /\ TheObject(i) = n)
  BY FirmLessObj DEF Shape, DataShape
<1>2. Occurs(s, Holding(n)) \in Nat /\ One(obj[i] = "strong" /\ TheObject(i) = n) \in Nat
  BY OccursIn DEF One
<1>3. Firm(n)' + Occurs(s, Holding(n)) + rc[n] = Firm(n) + One(Top \in Holding(n)) + rc'[n]
  <2>1. Occurs(s, Holding(n)) + rc[n] = One(obj[i] = "strong" /\ TheObject(i) = n) + rc'[n]
    OBVIOUS
  <2>2. One(Top \in Holding(n)) = 0
    BY QuietTop
  <2> QED BY <1>1, <1>2, <2>1, <2>2, CountNat, SMTT(40)
<1> QED BY <1>3, CountNat, Waiting

LEMMA QuietTable ==
  ASSUME Shape, NEW k \in Key
  PROVE  FromTable(k) \in Seq(Task) /\ \A t \in ToSet(FromTable(k)) : t[1] \notin Holder
<1> DEFINE x == <<"unvhash", k, flookup[k].value>>
           y == <<"slookup", k>>
           z == <<"flookup", k>>
<1>1. y \in Task /\ z \in Task /\ y[1] \notin Holder /\ z[1] \notin Holder
  BY ActionTasks DEF Plain, Holder
<1>2. CASE flookup[k].mode = "none"
  <2>1. FromTable(k) = <<>>
    BY <1>2 DEF FromTable
  <2> QED BY <2>1, NothingWaits, SetOne
<1>3. CASE flookup[k].mode = "undef"
  <2>1. FromTable(k) = <<y, z>>
    BY <1>3 DEF FromTable
  <2> HIDE DEF y, z
  <2> QED BY <1>1, <2>1 DEF ToSet
<1>4. CASE flookup[k].mode \in Ref
  <2>1. FromTable(k) = <<x, y, z>>
    BY <1>4 DEF FromTable, Ref
  <2>2. x \in Task /\ x[1] \notin Holder
    BY <1>4, PlainTasks, Apartness DEF Shape, DataShape, EntriesTyped, Plain, Holder
  <2> HIDE DEF x, y, z
  <2> QED BY <1>1, <2>1, <2>2 DEF ToSet
<1>5. flookup[k].mode \in Entry
  BY DEF Shape, DataShape, Typed
<1> QED BY <1>2, <1>3, <1>4, <1>5 DEF Entry

LEMMA EvenKEncapCleanup ==
  ASSUME Shape, Shape', KEncapCleanup
  PROVE  \A n \in Node : Balanced(n)
<1> DEFINE k == Top[2]
           d == DecIf(obj[k], TheObject(k))
           f == FromTable(k)
           s == f \o d
<1>1. todo # <<>> /\ Top[1] \notin Holder /\ Top[1] = "k_encap_cleanup" /\ k \in Key /\ k \in Index
  BY TopIs, ActionIs DEF KEncapCleanup, Doing, Holder, Shape, TaskIs, ActionKinds, Index
<1>2. CASE life[k] = "free"
  BY <1>2, EvenFault DEF KEncapCleanup
<1>3. CASE life[k] # "free"
  <2>1. obj' = [obj EXCEPT ![k] = "none"] /\ Then(s)
        /\ UNCHANGED <<held, values, flookup, attrhash, iter, rlookup, rc>>
    BY <1>3 DEF KEncapCleanup, tables, loops
  <2>2. obj[k] = "strong" => TheObject(k) \in Object
    BY <1>1 DEF Shape, DataShape, EntriesTyped
  <2>3. f \in Seq(Task) /\ \A t \in ToSet(f) : t[1] \notin Holder
    BY <1>1, QuietTable
  <2>4. d \in Seq(Task) /\ \A n : Occurs(d, Holding(n)) = One(obj[k] = "strong" /\ TheObject(k) = n)
    BY <2>2, OccursDecIf, Apartness
  <2> HIDE DEF d, f
  <2>5. s \in Seq(Task)
    BY <2>3, <2>4, SetConcat
  <2>6. ASSUME NEW n \in Node PROVE Occurs(s, Holding(n)) = One(obj[k] = "strong" /\ TheObject(k) = n)
    <3>1. Occurs(s, Holding(n)) = Occurs(f, Holding(n)) + Occurs(d, Holding(n))
      BY <2>3, <2>4, OccursConcat
    <3>2. Occurs(f, Holding(n)) = 0
      BY <2>3, QuietTasks
    <3> QED BY <2>4, <3>1, <3>2 DEF One
  <2> HIDE DEF s
  <2> QED BY <1>1, <2>1, <2>2, <2>5, <2>6, EvenLessObj
<1> QED BY <1>2, <1>3

LEMMA EvenEncapAttrDestroyHook ==
  ASSUME Shape, Shape', EncapAttrDestroyHook
  PROVE  \A n \in Node : Balanced(n)
<1> DEFINE a == Top[2]
           d == DecIf(obj[a], TheObject(a))
           x == <<"attr_destroy_trigger", a>>
           y == <<"dec", a>>
           p == <<x, y>>
           s == d \o p
<1>1. todo # <<>> /\ Top[1] \notin Holder /\ Top[1] = "encap_attr_destroy_hook" /\ a \in Attr
      /\ a \in Index /\ a \in Node
  BY TopIs, ActionIs DEF EncapAttrDestroyHook, Doing, Holder, Shape, TaskIs, ActionKinds, Index, Node
<1>2. CASE life[a] = "free"
  BY <1>2, EvenFault DEF EncapAttrDestroyHook
<1>3. CASE life[a] # "free"
  <2>1. obj' = [obj EXCEPT ![a] = "none"] /\ rc' = AddRef(rc, a) /\ Then(s)
        /\ UNCHANGED <<held, values, flookup, attrhash, iter, rlookup>>
    BY <1>3 DEF EncapAttrDestroyHook, tables, loops
  <2>2. obj[a] = "strong" => TheObject(a) \in Object
    BY <1>1 DEF Shape, DataShape, EntriesTyped
  <2>3. x \in Task /\ y \in Task /\ x[1] \notin Holder
    BY <1>1, ActionTasks, PlainTasks DEF Plain, Holder
  <2>4. d \in Seq(Task) /\ \A n : Occurs(d, Holding(n)) = One(obj[a] = "strong" /\ TheObject(a) = n)
    BY <2>2, OccursDecIf, Apartness
  <2>5. \A n \in Node : y \in Holding(n) <=> n = a
    BY <1>1, HoldingIs
  <2> HIDE DEF d, x, y
  <2>6. p \in Seq(Task)
    BY <2>3
  <2>7. ASSUME NEW n \in Node PROVE Occurs(p, Holding(n)) = One(n = a)
    <3>1. Occurs(p, Holding(n)) = One(x \in Holding(n)) + One(y \in Holding(n))
      BY <2>3, OccursTwo
    <3>2. x \notin Holding(n)
      BY <2>3, HoldingIs DEF Holder
    <3> QED BY <2>5, <3>1, <3>2 DEF One
  <2> HIDE DEF p
  <2>8. s \in Seq(Task)
    BY <2>4, <2>6, SetConcat
  <2>9. ASSUME NEW n \in Node
        PROVE  Occurs(s, Holding(n)) + rc[n] = One(obj[a] = "strong" /\ TheObject(a) = n) + rc'[n]
    <3>1. Occurs(s, Holding(n)) = Occurs(d, Holding(n)) + Occurs(p, Holding(n))
      BY <2>4, <2>6, OccursConcat
    <3>2. rc'[n] = rc[n] + One(n = a)
      <4>1. rc \in [Node -> Int]
        BY DEF Shape, DataShape, Typed
      <4> QED BY <1>1, <2>1, <4>1 DEF AddRef, One
    <3>3. One(n = a) \in Nat /\ One(obj[a] = "strong" /\ TheObject(a) = n) \in Nat
      BY DEF One
    <3> QED BY <2>4, <2>7, <3>1, <3>2, <3>3, CountNat
  <2> HIDE DEF s
  <2> QED BY <1>1, <2>1, <2>2, <2>8, <2>9, EvenLessObj
<1> QED BY <1>2, <1>3

LEMMA EvenAttrDestroyTrigger ==
  ASSUME Shape, Shape', AttrDestroyTrigger
  PROVE  \A n \in Node : Balanced(n)
<1> DEFINE a == Top[2]
           d == DecIf(obj[a], TheObject(a))
           x == <<"attr_lookup", a>>
           p == <<x>>
           s == d \o p
           e == IF obj[a] = "none" THEN "none" ELSE "dangling"
<1>1. todo # <<>> /\ Top[1] \notin Holder /\ Top[1] = "attr_destroy_trigger" /\ a \in Attr /\ a \in Index
  BY TopIs, ActionIs DEF AttrDestroyTrigger, Doing, Holder, Shape, TaskIs, ActionKinds, Index
<1>2. CASE Fault("use of a freed attribute or object")
  BY <1>2, EvenFault
<1>3. CASE /\ obj' = [obj EXCEPT ![a] = e] /\ Then(s)
           /\ UNCHANGED <<held, rc, tables, attrhash, loops>>
  <2>1. UNCHANGED <<held, values, flookup, attrhash, iter, rlookup, rc>> /\ e # "strong"
    BY <1>3 DEF tables, loops
  <2>2. obj[a] = "strong" => TheObject(a) \in Object
    BY <1>1 DEF Shape, DataShape, EntriesTyped
  <2>3. x \in Task /\ x[1] \notin Holder
    BY <1>1, PlainTasks DEF Plain, Holder
  <2>4. d \in Seq(Task) /\ \A n : Occurs(d, Holding(n)) = One(obj[a] = "strong" /\ TheObject(a) = n)
    BY <2>2, OccursDecIf, Apartness
  <2> HIDE DEF d, x, e
  <2>5. p \in Seq(Task) /\ ToSet(p) = {x}
    <3>1. ToSet(p) = {x}
      BY SetOne, Zenon
    <3> QED BY <2>3, <3>1
  <2> HIDE DEF p
  <2>6. s \in Seq(Task)
    BY <2>4, <2>5, SetConcat
  <2>7. ASSUME NEW n \in Node PROVE Occurs(s, Holding(n)) = One(obj[a] = "strong" /\ TheObject(a) = n)
    <3>1. Occurs(s, Holding(n)) = Occurs(d, Holding(n)) + Occurs(p, Holding(n))
      BY <2>4, <2>5, OccursConcat
    <3>2. Occurs(p, Holding(n)) = 0
      BY <2>3, <2>5, QuietTasks
    <3> QED BY <2>4, <3>1, <3>2 DEF One
  <2> HIDE DEF s
  <2> QED BY <1>1, <1>3, <2>1, <2>2, <2>6, <2>7, EvenLessObj
<1> QED BY <1>2, <1>3 DEF AttrDestroyTrigger

LEMMA EvenDelAttrLookup ==
  ASSUME Shape, Shape', DelAttrLookup
  PROVE  \A n \in Node : Balanced(n)
<1> DEFINE a == Top[2]
           x == <<"values", a>>
           y == <<"ka_end", a>>
           s == <<x, y>>
<1>1. todo # <<>> /\ Top[1] \notin Holder /\ Top[1] = "attr_lookup" /\ a \in Attr /\ a \in Node
  BY TopIs DEF DelAttrLookup, Doing, Holder, Shape, TaskIs, Node, Index
<1>2. CASE life[a] = "free"
  BY <1>2, EvenFault DEF DelAttrLookup
<1>3. CASE life[a] # "free"
  <2>1. Then(s) /\ UNCHANGED <<held, values, flookup, attrhash, obj, iter, rlookup, rc>>
    BY <1>3 DEF DelAttrLookup, blobs, loops
  <2>2. x \in Task /\ x[1] \notin Holder /\ y \in Task /\ y[1] \notin Holder
    BY <1>1, PlainTasks DEF Plain, Holder
  <2> HIDE DEF x, y
  <2>3. s \in Seq(Task) /\ \A t \in ToSet(s) : t[1] \notin Holder
    BY <2>2 DEF ToSet
  <2> HIDE DEF s
  <2> QED BY <1>1, <2>1, <2>3, Quiet, Frame
<1> QED BY <1>2, <1>3

LEMMA EvenEachValue ==
  ASSUME Shape, Shape', EachValue
  PROVE  \A n \in Node : Balanced(n)
<1> DEFINE a == Top[2]
<1>1. todo # <<>> /\ Top[1] \notin Holder /\ Top[1] = "values" /\ a \in Attr
  BY TopIs DEF EachValue, Doing, Holder, Shape, TaskIs
<1>2. CASE Fault("use of a freed attribute")
  BY <1>2, EvenFault
<1>3. ASSUME NEW v \in Object, Fault("use of a freed value")
      PROVE  \A n \in Node : Balanced(n)
  BY <1>3, EvenFault
<1>4. ASSUME NEW v \in Object,
             todo' = <<<<"unhash", a, v>>, <<"unvhash", a, v>>>>
                      \o (IF v \in kept THEN <<>> ELSE <<<<"ka_end", v>>>>) \o todo,
             UNCHANGED <<held, rc, tables, blobs, loops>>
      PROVE  \A n \in Node : Balanced(n)
  <2> DEFINE x == <<"unhash", a, v>>
             y == <<"unvhash", a, v>>
             z == <<"ka_end", v>>
             u == <<x, y>>
             e == IF v \in kept THEN <<>> ELSE <<z>>
             s == u \o e
  <2>1. x \in Task /\ y \in Task /\ z \in Task /\ x[1] \notin Holder /\ y[1] \notin Holder /\ z[1] \notin Holder
    BY <1>1, OtherTasks, PlainTasks, Apartness DEF Plain, Holder
  <2>2. todo' = s \o todo /\ todo \in Seq(Task)
    BY <1>4 DEF Shape, TodoShape
  <2> HIDE DEF x, y, z
  <2>3. u \in Seq(Task) /\ ToSet(u) = {x, y}
    BY <2>1 DEF ToSet
  <2>4. e \in Seq(Task) /\ ToSet(e) \subseteq {z}
    <3>1. e \in Seq(Task) /\ ToSet(e) = IF v \in kept THEN {} ELSE {z}
      BY <2>1, MaybeOne
    <3> HIDE DEF e
    <3> QED BY <3>1
  <2> HIDE DEF u, e
  <2>5. s \in Seq(Task) /\ ToSet(s) = ToSet(u) \cup ToSet(e)
    BY <2>3, <2>4, SetConcat
  <2>6. \A t \in ToSet(s) : t[1] \notin Holder
    BY <2>1, <2>3, <2>4, <2>5
  <2> HIDE DEF s
  <2> SUFFICES ASSUME NEW n \in Node PROVE Balanced(n)
    OBVIOUS
  <2>7. Occurs(s, Holding(n)) = 0
    BY <2>5, <2>6, QuietTasks
  <2>8. Occurs(todo', Holding(n)) = Occurs(s, Holding(n)) + Occurs(todo, Holding(n))
    BY <2>2, <2>5, OccursConcat
  <2>9. Firm(n)' = Firm(n)
    BY <1>4, Frame, FirmSame DEF tables, blobs, loops
  <2> QED BY <1>4, <2>7, <2>8, <2>9, CountNat DEF Balanced
<1>5. CASE Then(<<>>) /\ UNCHANGED <<held, heap, tables, blobs, loops, err>>
  <2> SUFFICES ASSUME NEW n \in Node PROVE Balanced(n)
    OBVIOUS
  <2>1. Firm(n)' = Firm(n)
    BY <1>5, Frame, FirmSame DEF tables, blobs, loops
  <2> QED BY <1>1, <1>5, <2>1, QuietTop, CountNat, Finished DEF heap
<1> QED BY <1>2, <1>3, <1>4, <1>5 DEF EachValue

\* A node that nothing holds any more dies when it is no longer kept.
LEMMA EvenKaEnd ==
  ASSUME Shape, Shape', ObjectsCounted, IndexCounted, KaEnd
  PROVE  \A n \in Node : Balanced(n)
<1> DEFINE m == Top[2]
<1>1. todo # <<>> /\ Top[1] \notin Holder /\ Top[1] = "ka_end" /\ m \in Node
  BY TopIs DEF KaEnd, Doing, Holder, Shape, TaskIs
<1> SUFFICES ASSUME NEW n \in Node PROVE Balanced(n)
  OBVIOUS
<1>2. CASE life[m] = "live" /\ rc[m] <= 0
  <2> DEFINE x == <<"free", m>>
             s == <<x>>
  <2>1. Die(m) /\ UNCHANGED <<held, values, iter, rlookup>>
    BY <1>2 DEF KaEnd, loops
  <2>2. Firm(n)' = Firm(n)
    BY <2>1, FirmDie DEF Shape, DataShape
  <2>3. rc[m] = 0
    <3>1. CASE m \in Object
      <4>1. rc[m] = Firm(m) + Occurs(todo, Holding(m))
        BY <3>1 DEF ObjectsCounted, Firm, Refs
      <4> QED BY <1>1, <1>2, <4>1, CountNat
    <3>2. CASE m \notin Object
      <4>1. rc[m] = Firm(m) + Occurs(todo, Holding(m))
        BY <1>1, <3>2, Apartness DEF IndexCounted, Firm
      <4> QED BY <1>1, <1>2, <4>1, CountNat
    <3> QED BY <3>1, <3>2
  <2>4. rc'[n] = rc[n]
    BY <1>1, <2>1, <2>3 DEF Die, Shape, DataShape, Typed
  <2>5. x \in Task /\ x[1] \notin Holder /\ Then(s)
    BY <1>1, <2>1, OtherTasks DEF Holder, Die
  <2> HIDE DEF x
  <2>6. s \in Seq(Task) /\ Occurs(s, Holding(n)) = 0
    <3>1. Occurs(s, Holding(n)) = One(x \in Holding(n))
      BY OccursOne, Zenon
    <3>2. x \notin Holding(n)
      BY <2>5, HoldingIs DEF Holder
    <3> QED BY <2>5, <3>1, <3>2 DEF One
  <2> HIDE DEF s
  <2> QED BY <1>1, <2>2, <2>4, <2>5, <2>6, QuietTop, CountNat, Waiting
<1>3. CASE ~ (life[m] = "live" /\ rc[m] <= 0)
  <2>1. Then(<<>>) /\ UNCHANGED <<held, rc, tables, blobs, loops>>
    BY <1>3 DEF KaEnd
  <2>2. Firm(n)' = Firm(n)
    BY <2>1, Frame, FirmSame DEF tables, blobs, loops
  <2> QED BY <1>1, <2>1, <2>2, QuietTop, CountNat, Finished
<1> QED BY <1>2, <1>3

LEMMA EvenPurgeBegin ==
  ASSUME Shape, Shape', PurgeBegin
  PROVE  \A n \in Node : Balanced(n)
<1> DEFINE v == Top[2]
<1>1. todo # <<>> /\ Top[1] \notin Holder /\ Top[1] = "purge" /\ v \in Object /\ v \in Node
  BY TopIs DEF PurgeBegin, Doing, Holder, Shape, TaskIs, Node
<1>2. PICK s \in SetToSeqs(Under(v)) : Then(<<<<"foreach", v, s>>>>)
  BY DEF PurgeBegin
<1>3. s \in Seq(Index)
  <2>1. Under(v) \subseteq Index
    BY <1>1, UnderIs DEF Shape, DataShape
  <2>2. IsFiniteSet(Under(v))
    BY <2>1, Finite, FS_Subset
  <2> HIDE DEF v
  <2>3. s \in Seq(Under(v))
    BY <2>2, OrderProps
  <2> QED BY <2>1, <2>3
<1> DEFINE f == <<"foreach", v, s>>
           r == <<f>>
<1>4. f \in Task /\ \A n : f \in Holding(n) <=> n = v
  BY <1>1, <1>3, OtherTasks, HoldingIs
<1>5. iter = Null
  <2>1. \A b \in ToSet(Tail(todo)) : b[1] # "foreach"
    BY <1>1, TopIs DEF Shape, Grounded
  <2>2. ToSet(todo) = {Top} \cup ToSet(Tail(todo))
    BY <1>1, TopIs DEF Shape
  <2>3. ~ \E t \in ToSet(todo) : t[1] = "foreach"
    BY <1>1, <2>1, <2>2
  <2> QED BY <2>3 DEF Shape, TodoShape, LoopOpen
<1>6. iter' # Null /\ iter'.gone = FALSE
  <2>1. iter' = [value |-> v, cur |-> Null, gone |-> FALSE]
    BY DEF PurgeBegin
  <2>2. iter' \in Loop
    BY <1>1, <2>1 DEF Loop
  <2> QED BY <2>1, <2>2, Apartness
<1> SUFFICES ASSUME NEW n \in Node PROVE Balanced(n)
  OBVIOUS
<1>7. Firm(n)' = Firm(n)
  <2>1. Gone(n)' = Gone(n)
    BY <1>5, <1>6 DEF Gone, One
  <2>2. UNCHANGED <<held, values, flookup, attrhash, obj, rlookup>>
    BY DEF PurgeBegin, tables, blobs
  <2> QED BY <2>1, <2>2, Frame DEF Firm, Refs
<1>8. rc'[n] = rc[n] + One(n = v)
  <2>1. rc' = AddRef(rc, v) /\ rc \in [Node -> Int]
    BY DEF PurgeBegin, Shape, DataShape, Typed
  <2> QED BY <1>1, <2>1 DEF AddRef, One
<1>9. Then(r)
  BY <1>2
<1> HIDE DEF f
<1>10. r \in Seq(Task) /\ Occurs(r, Holding(n)) = One(n = v)
  <2>1. Occurs(r, Holding(n)) = One(f \in Holding(n))
    BY OccursOne, Zenon
  <2> QED BY <1>4, <2>1 DEF One
<1>11. One(n = v) \in Nat
  BY DEF One
<1> HIDE DEF r
<1> QED BY <1>1, <1>7, <1>8, <1>9, <1>10, <1>11, QuietTop, CountNat, Waiting

\* The loop gives up the element that has left the vhash.
LEMMA LastHolds ==
  ASSUME Shape, iter # Null, NEW n \in Node
  PROVE  LET last == IF iter.gone THEN <<<<"dec", iter.cur>>>> ELSE <<>>
         IN  last \in Seq(Task) /\ Occurs(last, Holding(n)) = Gone(n)
<1> DEFINE x == <<"dec", iter.cur>>
           last == IF iter.gone THEN <<x>> ELSE <<>>
<1>1. CASE iter.gone
  <2>1. x \in Task /\ (x \in Holding(n) <=> n = iter.cur)
    BY <1>1, PlainTasks, HoldingIs DEF Shape, TodoShape, LoopOpen, Node, Plain
  <2>2. Occurs(<<x>>, Holding(n)) = One(x \in Holding(n))
    BY OccursOne, Zenon
  <2>3. last = <<x>> /\ One(x \in Holding(n)) = Gone(n)
    BY <1>1, <2>1 DEF Gone, One
  <2>4. <<x>> \in Seq(Task)
    BY <2>1
  <2> HIDE DEF x, last
  <2>5. last \in Seq(Task) /\ Occurs(last, Holding(n)) = Gone(n)
    BY <2>2, <2>3, <2>4
  <2> QED BY <2>5 DEF last, x
<1>2. CASE ~ iter.gone
  <2>1. last = <<>> /\ Gone(n) = 0
    BY <1>2 DEF Gone, One
  <2> HIDE DEF last
  <2>2. last \in Seq(Task) /\ Occurs(last, Holding(n)) = Gone(n)
    BY <2>1, NothingWaits
  <2> QED BY <2>2 DEF last
<1> QED BY <1>1, <1>2

LEMMA EvenForeach ==
  ASSUME Shape, Shape', Foreach
  PROVE  \A n \in Node : Balanced(n)
<1> DEFINE v == Top[2]
           rest == Top[3]
           last == IF iter.gone THEN <<<<"dec", iter.cur>>>> ELSE <<>>
<1>1. /\ todo # <<>> /\ Top[1] = "foreach" /\ v \in Object /\ rest \in Seq(Index)
      /\ Top = <<"foreach", v, rest>>
  BY TopIs DEF Foreach, Doing, Shape, TaskIs
<1>2. iter # Null /\ iter \in Loop
  <2>1. Top \in ToSet(todo)
    BY <1>1, TopIs DEF Shape
  <2> QED BY <1>1, <2>1 DEF Shape, DataShape, Typed, TodoShape, LoopOpen
<1>3. last \in Seq(Task) /\ \A n \in Node : Occurs(last, Holding(n)) = Gone(n)
  <2>1. last \in Seq(Task)
    BY <1>2, LastPlain
  <2>2. ASSUME NEW n \in Node PROVE Occurs(last, Holding(n)) = Gone(n)
    BY <1>2, LastHolds
  <2> HIDE DEF last
  <2> QED BY <2>1, <2>2
<1>4. \A n : One(Top \in Holding(n)) = One(n = v)
  BY <1>1, HoldingIs DEF One
\* What is left is a list that holds v once, and no element is kept by the loop.
<1>5. ASSUME NEW q \in Seq(Task), \A n \in Node : Occurs(q, Holding(n)) = One(n = v), Then(last \o q),
             iter' # Null => ~ iter'.gone,
             UNCHANGED <<held, heap, tables, blobs, values>>
      PROVE  \A n \in Node : Balanced(n)
  <2> SUFFICES ASSUME NEW n \in Node PROVE Balanced(n)
    OBVIOUS
  <2> DEFINE s == last \o q
  <2> HIDE DEF last
  <2>1. s \in Seq(Task) /\ Occurs(s, Holding(n)) = Gone(n) + One(n = v)
    <3>1. Occurs(s, Holding(n)) = Occurs(last, Holding(n)) + Occurs(q, Holding(n))
      BY <1>3, <1>5, OccursConcat
    <3>2. s \in Seq(Task)
      BY <1>3, <1>5, SetConcat
    <3>3. Occurs(last, Holding(n)) = Gone(n) /\ Occurs(q, Holding(n)) = One(n = v)
      BY <1>3, <1>5
    <3> QED BY <3>1, <3>2, <3>3
  <2>2. Then(s)
    BY <1>5
  <2> HIDE DEF s
  <2>3. Gone(n)' = 0 /\ Gone(n) \in Nat /\ One(n = v) \in Nat
    BY <1>5 DEF Gone, One
  <2>4. UNCHANGED <<held, rc, values, flookup, attrhash, obj, rlookup>>
    BY <1>5 DEF heap, tables, blobs
  <2>5. Firm(n)' + Gone(n) = Firm(n)
    <3>1. CASE n \in Object
      <4>1. Refs(n)' = Refs(n)
        BY <2>4, Frame DEF Refs
      <4>2. Gone(n) = 0
        <5>1. iter.gone => iter.cur \in Index
          BY <1>2 DEF Shape, TodoShape, LoopOpen
        <5> QED BY <3>1, <5>1, Apartness DEF Gone, One
      <4> QED BY <3>1, <4>1, <4>2, FirmNat DEF Firm
    <3>2. CASE n \notin Object
      <4>1. Vhashes(n)' = Vhashes(n)
        BY <2>4, Frame
      <4> QED BY <2>3, <3>2, <4>1, StrongFinite DEF Firm
    <3> QED BY <3>1, <3>2
  <2> QED BY <1>1, <1>4, <2>1, <2>2, <2>3, <2>4, <2>5, CountNat, Waiting
<1>6. CASE rest = <<>> /\ iter' = Null /\ Then(last \o <<<<"purge_end", v>>>>)
           /\ UNCHANGED <<held, heap, tables, blobs, values, err>>
  <2> DEFINE x == <<"purge_end", v>>
             q == <<x>>
  <2>1. x \in Task /\ \A n : x \in Holding(n) <=> n = v
    <3>1. x \in Task
      BY <1>1, PlainTasks DEF Plain
    <3>2. \A n : x \in Holding(n) <=> n = v
      BY <1>1, HoldingIs
    <3> QED BY <3>1, <3>2
  <2>2. Then(last \o q)
    BY <1>6
  <2> HIDE DEF x
  <2>3. ASSUME NEW n \in Node PROVE Occurs(q, Holding(n)) = One(n = v)
    <3>1. Occurs(q, Holding(n)) = One(x \in Holding(n))
      BY OccursOne, Zenon
    <3> QED BY <2>1, <3>1 DEF One
  <2>4. q \in Seq(Task)
    BY <2>1
  <2> HIDE DEF q, last
  <2> QED BY <1>5, <1>6, <2>2, <2>3, <2>4
<1>7. CASE Fault("use of freed value in iteration")
  BY <1>7, EvenFault
<1>8. ASSUME rest # <<>>, iter' = [iter EXCEPT !.cur = Head(rest), !.gone = FALSE],
             Then(last \o (IF Head(rest) \in Attr
                             THEN <<<<"unhash", Head(rest), v>>, <<"unvhash", Head(rest), v>>>> ELSE <<>>)
                       \o <<<<"foreach", v, Tail(rest)>>>>),
             UNCHANGED <<held, heap, tables, blobs, values, err>>
      PROVE  \A n \in Node : Balanced(n)
  <2> DEFINE i == Head(rest)
             f == <<"foreach", v, Tail(rest)>>
             x == <<"unhash", i, v>>
             y == <<"unvhash", i, v>>
             w == IF i \in Attr THEN <<x, y>> ELSE <<>>
             r == <<f>>
             q == w \o r
  <2>1. i \in Index /\ Tail(rest) \in Seq(Index)
    BY <1>1, <1>8
  <2>2. f \in Task /\ \A n : f \in Holding(n) <=> n = v
    <3>1. f \in Task
      BY <1>1, <2>1, OtherTasks
    <3>2. ASSUME NEW n PROVE f \in Holding(n) <=> n = v
      <4>1. f \in Holding(n) <=> (f[1] \in {"dec", "foreach", "purge_end"} /\ f[2] = n) \/ (f[1] = "decall" /\ n \in f[2])
        <5> HIDE DEF f
        <5> QED BY <3>1, Holds
      <4> QED BY <4>1
    <3> QED BY <3>1, <3>2
  <2>3. w \in Seq(Task) /\ \A n : Occurs(w, Holding(n)) = 0
    <3>1. CASE i \in Attr
      <4>1. x \in Task /\ y \in Task /\ x[1] \notin Holder /\ y[1] \notin Holder
        BY <1>1, <2>1, <3>1, OtherTasks, PlainTasks DEF Plain, Holder
      <4>2. w = <<x, y>>
        BY <3>1
      <4> HIDE DEF x, y, w
      <4>3. w \in Seq(Task) /\ \A t \in ToSet(w) : t[1] \notin Holder
        BY <4>1, <4>2 DEF ToSet
      <4> QED BY <4>3, QuietTasks
    <3>2. CASE i \notin Attr
      <4>1. w = <<>>
        BY <3>2
      <4> HIDE DEF w
      <4> QED BY <4>1, NothingWaits
    <3> QED BY <3>1, <3>2
  <2>4. Then((last \o w) \o r)
    BY <1>8
  <2> HIDE DEF f, w, i
  <2>5. r \in Seq(Task) /\ \A n : Occurs(r, Holding(n)) = One(n = v)
    <3>1. \A n : Occurs(r, Holding(n)) = One(f \in Holding(n))
      BY OccursOne, Zenon
    <3> QED BY <2>2, <3>1 DEF One
  <2> HIDE DEF r, last
  <2>6. Then(last \o q)
    <3>1. (last \o w) \o r = last \o (w \o r)
      BY <1>3, <2>3, <2>5, ConcatAssoc
    <3> QED BY <2>4, <3>1
  <2>7. q \in Seq(Task) /\ \A n \in Node : Occurs(q, Holding(n)) = One(n = v)
    <3>1. ASSUME NEW n \in Node PROVE Occurs(q, Holding(n)) = One(n = v)
      <4>1. Occurs(q, Holding(n)) = Occurs(w, Holding(n)) + Occurs(r, Holding(n))
        BY <2>3, <2>5, OccursConcat
      <4> QED BY <2>3, <2>5, <4>1 DEF One
    <3>2. q \in Seq(Task)
      BY <2>3, <2>5, SetConcat
    <3> QED BY <3>1, <3>2
  <2>8. ~ iter'.gone
    BY <1>2, <1>8 DEF Loop
  <2> HIDE DEF q
  <2> QED BY <1>5, <1>8, <2>6, <2>7, <2>8
<1> QED BY <1>6, <1>7, <1>8 DEF Foreach

LEMMA EvenPurgeEnd ==
  ASSUME Shape, Shape', PurgeEnd
  PROVE  \A n \in Node : Balanced(n)
<1> DEFINE v == Top[2]
           x == <<"rlookup", v>>
           y == <<"dec", v>>
           s == <<x, y>>
<1>1. todo # <<>> /\ Top[1] = "purge_end" /\ v \in Object /\ v \in Node /\ Top = <<"purge_end", v>>
  BY TopIs DEF PurgeEnd, Doing, Shape, TaskIs, Node
<1>2. x \in Task /\ y \in Task /\ x[1] \notin Holder
  BY <1>1, ActionTasks, PlainTasks DEF Plain, Holder
<1>3. Then(s) /\ UNCHANGED <<held, values, flookup, attrhash, obj, iter, rlookup, rc>>
  BY DEF PurgeEnd, tables, blobs, loops
<1> SUFFICES ASSUME NEW n \in Node PROVE Balanced(n)
  OBVIOUS
<1>4. Firm(n)' = Firm(n)
  BY <1>3, Frame, FirmSame
<1>5. (Top \in Holding(n) <=> n = v) /\ (y \in Holding(n) <=> n = v)
  BY <1>1, HoldingIs
<1> HIDE DEF x, y
<1>6. Occurs(s, Holding(n)) = One(x \in Holding(n)) + One(y \in Holding(n))
  BY <1>2, OccursTwo
<1>7. s \in Seq(Task) /\ Occurs(s, Holding(n)) = One(Top \in Holding(n)) /\ One(Top \in Holding(n)) \in Nat
  <2>1. x \notin Holding(n)
    BY <1>2, HoldingIs DEF Holder
  <2> QED BY <1>2, <1>5, <1>6, <2>1 DEF One
<1> HIDE DEF s
<1> QED BY <1>1, <1>3, <1>4, <1>7, CountNat, Waiting

-----------------------------------------------------------------------------
(* The steps of DESTROY.                                                    *)

LEMMA EvenDestroyAttrs ==
  ASSUME Shape, Shape', DestroyAttrs
  PROVE  \A n \in Node : Balanced(n)
<1> DEFINE A == Top[2]
<1>1. todo # <<>> /\ Top[1] \notin Holder /\ Top[1] = "destroy_attrs" /\ A \in SUBSET Attr
  BY TopIs DEF DestroyAttrs, Doing, Holder, Shape, TaskIs
<1>2. CASE Then(<<>>) /\ UNCHANGED <<held, heap, tables, blobs, loops, err>>
  <2> SUFFICES ASSUME NEW n \in Node PROVE Balanced(n)
    OBVIOUS
  <2>1. Firm(n)' = Firm(n)
    BY <1>2, Frame, FirmSame DEF tables, blobs, loops
  <2> QED BY <1>1, <1>2, <2>1, QuietTop, CountNat, Finished DEF heap
<1>3. CASE Fault("DESTROY died")
  BY <1>3, EvenFault
<1>4. ASSUME NEW a \in A, NEW V \in SUBSET Object,
             Then(<<<<"destroy_attr", a, V>>, <<"destroy_attrs", A \ {a}>>>>),
             UNCHANGED <<held, heap, tables, blobs, loops, err>>
      PROVE  \A n \in Node : Balanced(n)
  <2> DEFINE x == <<"destroy_attr", a, V>>
             y == <<"destroy_attrs", A \ {a}>>
             s == <<x, y>>
  <2>1. x \in Task /\ x[1] \notin Holder /\ y \in Task /\ y[1] \notin Holder
    BY <1>1, PlainTasks DEF Plain, Holder
  <2>2. Then(s) /\ UNCHANGED <<held, values, flookup, attrhash, obj, iter, rlookup, rc>>
    BY <1>4 DEF heap, tables, blobs, loops
  <2> HIDE DEF x, y
  <2>3. s \in Seq(Task) /\ \A t \in ToSet(s) : t[1] \notin Holder
    BY <2>1 DEF ToSet
  <2> HIDE DEF s
  <2> QED BY <1>1, <2>2, <2>3, Quiet, Frame
<1> QED
  <2>1. CASE \E a \in A : attr_lookup[a] = "weak" /\
               LET V == {v \in Object : attrhash[a][v] # "none"} IN
                 /\ Then(<<<<"destroy_attr", a, V>>, <<"destroy_attrs", A \ {a}>>>>)
                 /\ UNCHANGED <<held, heap, tables, blobs, loops, err>>
    <3>1. PICK a \in A : LET V == {v \in Object : attrhash[a][v] # "none"} IN
                 /\ Then(<<<<"destroy_attr", a, V>>, <<"destroy_attrs", A \ {a}>>>>)
                 /\ UNCHANGED <<held, heap, tables, blobs, loops, err>>
      BY <2>1
    <3>2. {v \in Object : attrhash[a][v] # "none"} \in SUBSET Object
      OBVIOUS
    <3> QED BY <1>4, <3>1, <3>2
  <2> QED BY <1>2, <1>3, <2>1 DEF DestroyAttrs, Died

LEMMA EvenDestroyAttr ==
  ASSUME Shape, Shape', DestroyAttr
  PROVE  \A n \in Node : Balanced(n)
<1> DEFINE a == Top[2]
           V == Top[3]
<1>1. todo # <<>> /\ Top[1] \notin Holder /\ Top[1] = "destroy_attr" /\ a \in Attr /\ V \in SUBSET Object
  BY TopIs DEF DestroyAttr, Doing, Holder, Shape, TaskIs
<1>2. CASE Then(<<>>) /\ UNCHANGED <<held, heap, tables, blobs, loops, err>>
  <2> SUFFICES ASSUME NEW n \in Node PROVE Balanced(n)
    OBVIOUS
  <2>1. Firm(n)' = Firm(n)
    BY <1>2, Frame, FirmSame DEF tables, blobs, loops
  <2> QED BY <1>1, <1>2, <2>1, QuietTop, CountNat, Finished DEF heap
<1>3. CASE Fault("DESTROY died")
  BY <1>3, EvenFault
<1>4. ASSUME NEW v \in V,
             rc' = IF attrhash[a][v] = "strong" THEN AddRef(rc, v) ELSE rc,
             Then(<<<<"unhash", a, v>>, <<"unvhash", a, v>>, <<"push", v>>>>
                    \o DecIf(attrhash[a][v], v) \o <<<<"destroy_attr", a, V \ {v}>>>>),
             UNCHANGED <<held, tables, blobs, loops>>
      PROVE  \A n \in Node : Balanced(n)
  <2> DEFINE x == <<"unhash", a, v>>
             y == <<"unvhash", a, v>>
             z == <<"push", v>>
             w == <<"destroy_attr", a, V \ {v}>>
             d == DecIf(attrhash[a][v], v)
             p == <<x, y, z>>
             q == <<w>>
             s == (p \o d) \o q
  <2>1. /\ x \in Task /\ x[1] \notin Holder /\ y \in Task /\ y[1] \notin Holder
        /\ z \in Task /\ z[1] \notin Holder /\ w \in Task /\ w[1] \notin Holder /\ v \in Object /\ v \in Node
    BY <1>1, PlainTasks, OtherTasks, Apartness DEF Plain, Holder
  <2>2. d \in Seq(Task) /\ \A n : Occurs(d, Holding(n)) = One(attrhash[a][v] = "strong" /\ v = n)
    BY <2>1, OccursDecIf
  <2>3. Then(s) /\ UNCHANGED <<held, values, flookup, attrhash, obj, iter, rlookup>>
    BY <1>4 DEF tables, blobs, loops
  <2> HIDE DEF x, y, z, w, d
  <2>4. p \in Seq(Task) /\ \A n : Occurs(p, Holding(n)) = 0
    <3>1. p \in Seq(Task) /\ \A t \in ToSet(p) : t[1] \notin Holder
      BY <2>1 DEF ToSet
    <3> HIDE DEF p
    <3> QED BY <3>1, QuietTasks
  <2>5. q \in Seq(Task) /\ \A n : Occurs(q, Holding(n)) = 0
    <3>1. ToSet(q) = {w}
      BY SetOne, Zenon
    <3>2. q \in Seq(Task) /\ \A t \in ToSet(q) : t[1] \notin Holder
      BY <2>1, <3>1
    <3> HIDE DEF q
    <3> QED BY <3>2, QuietTasks
  <2> HIDE DEF p, q
  <2> SUFFICES ASSUME NEW n \in Node PROVE Balanced(n)
    OBVIOUS
  <2>6. s \in Seq(Task) /\ Occurs(s, Holding(n)) = One(attrhash[a][v] = "strong" /\ v = n)
    <3>1. p \o d \in Seq(Task)
      BY <2>2, <2>4, SetConcat
    <3>2. Occurs(p \o d, Holding(n)) = Occurs(p, Holding(n)) + Occurs(d, Holding(n))
      BY <2>2, <2>4, OccursConcat
    <3> DEFINE h == p \o d
    <3>3. h \in Seq(Task) /\ Occurs(h, Holding(n)) = Occurs(p, Holding(n)) + Occurs(d, Holding(n))
      BY <3>1, <3>2
    <3> HIDE DEF h
    <3>4. h \o q \in Seq(Task)
      BY <2>5, <3>3, SetConcat
    <3>5. Occurs(h \o q, Holding(n)) = Occurs(h, Holding(n)) + Occurs(q, Holding(n))
      BY <2>5, <3>3, OccursConcat
    <3>6. Occurs(d, Holding(n)) \in Nat
      BY <2>2 DEF One
    <3>7. Occurs(h \o q, Holding(n)) = Occurs(d, Holding(n))
      BY <2>4, <2>5, <3>3, <3>5, <3>6
    <3> QED BY <2>2, <3>4, <3>7 DEF h
  <2> HIDE DEF s
  <2>7. rc'[n] = rc[n] + One(attrhash[a][v] = "strong" /\ v = n)
    <3>1. rc \in [Node -> Int]
      BY DEF Shape, DataShape, Typed
    <3> QED BY <1>4, <2>1, <3>1 DEF AddRef, One
  <2>8. Firm(n)' = Firm(n)
    BY <2>3, Frame, FirmSame
  <2>9. One(attrhash[a][v] = "strong" /\ v = n) \in Nat
    BY DEF One
  <2> QED BY <1>1, <2>3, <2>6, <2>7, <2>8, <2>9, QuietTop, CountNat, Waiting
<1> QED BY <1>2, <1>3, <1>4 DEF DestroyAttr, Died

\* What @values gets is counted.
LEMMA EvenPushValue ==
  ASSUME Shape, Shape', PushValue
  PROVE  \A n \in Node : Balanced(n)
<1> DEFINE v == Top[2]
<1>1. todo # <<>> /\ Top[1] \notin Holder /\ Top[1] = "push" /\ v \in Object /\ v \in Node
  BY TopIs DEF PushValue, Doing, Holder, Shape, TaskIs, Node
<1>2. CASE life[v] # "live"
  BY <1>2, EvenFault DEF PushValue, Died
<1>3. CASE life[v] = "live"
  <2>1. /\ values' = values \cup {v} /\ rc' = (IF v \in values THEN rc ELSE AddRef(rc, v)) /\ Then(<<>>)
        /\ UNCHANGED <<held, flookup, attrhash, obj, iter, rlookup>>
    BY <1>3 DEF PushValue, tables, blobs
  <2> SUFFICES ASSUME NEW n \in Node PROVE Balanced(n)
    OBVIOUS
  <2>2. rc'[n] = rc[n] + One(v \notin values /\ v = n)
    <3>1. rc \in [Node -> Int]
      BY DEF Shape, DataShape, Typed
    <3> QED BY <1>1, <2>1, <3>1 DEF AddRef, One
  <2>3. Firm(n)' = Firm(n) + One(v \notin values /\ v = n)
    <3>1. CASE n \in Object
      <4>1. One(n \in values)' = One(n \in values) + One(v \notin values /\ v = n)
        BY <2>1 DEF One
      <4>2. One(n \in values) \in Nat /\ One(n \in held) \in Nat /\ One(v \notin values /\ v = n) \in Nat
        BY DEF One
      <4>3. One(n \in held)' = One(n \in held) /\ StrongKeys(n)' = StrongKeys(n)
            /\ StrongAttrs(n)' = StrongAttrs(n) /\ StrongObjs(n)' = StrongObjs(n)
        BY <2>1, Frame
      <4>4. Refs(n)' = Refs(n) + One(v \notin values /\ v = n)
        BY <4>1, <4>2, <4>3, StrongFinite DEF Refs
      <4> QED BY <3>1, <4>4 DEF Firm
    <3>2. CASE n \notin Object
      <4>1. Firm(n)' = Firm(n) /\ n # v
        BY <1>1, <2>1, <3>2, Frame DEF Firm
      <4> QED BY <4>1, FirmNat DEF One
    <3> QED BY <3>1, <3>2
  <2>4. One(v \notin values /\ v = n) \in Nat
    BY DEF One
  <2> QED BY <1>1, <2>1, <2>2, <2>3, <2>4, QuietTop, CountNat, Finished
<1> QED BY <1>2, <1>3

\* Every key goes, and the values its keys held are held by DESTROY instead.
LEMMA EvenDestroyKeys ==
  ASSUME Shape, Shape', DestroyKeys
  PROVE  \A n \in Node : Balanced(n)
<1> DEFINE K == {k \in Key : slookup[k] # "none"}
           V == {flookup[k].value : k \in K}
           Strong(v) == {k \in K : flookup[k] = [mode |-> "strong", value |-> v]}
<1>1. todo # <<>> /\ Top[1] \notin Holder
  BY DEF DestroyKeys, Doing, Holder
<1>2. CASE Fault("DESTROY died")
  BY <1>2, EvenFault
<1>3. ASSUME \A k \in K : flookup[k].mode \in Ref,
             flookup' = [k \in Key |-> IF k \in K THEN NoValue ELSE flookup[k]],
             values' = values \cup V,
             rc' = [n \in Node |-> IF n \in V
                      THEN rc[n] + (IF n \in values THEN 0 ELSE 1) - Cardinality(Strong(n))
                      ELSE rc[n]],
             Then(<<<<"destroy_values", values'>>>>),
             UNCHANGED <<held, rlookup, blobs, iter>>
      PROVE  \A n \in Node : Balanced(n)
  <2> DEFINE x == <<"destroy_values", values'>>
             s == <<x>>
  <2>1. V \subseteq Object
    BY <1>3 DEF Shape, DataShape, EntriesTyped
  <2>2. x \in Task /\ x[1] \notin Holder
    BY PlainTasks DEF Shape, DataShape, Typed, Plain, Holder
  <2>3. Then(s)
    BY <1>3
  <2> HIDE DEF x, V, K
  <2>4. s \in Seq(Task) /\ \A n : Occurs(s, Holding(n)) = 0
    <3>1. ToSet(s) = {x}
      BY SetOne, Zenon
    <3>2. s \in Seq(Task) /\ \A t \in ToSet(s) : t[1] \notin Holder
      BY <2>2, <3>1
    <3> HIDE DEF s
    <3> QED BY <3>2, QuietTasks
  <2> HIDE DEF s
  <2> SUFFICES ASSUME NEW n \in Node PROVE Balanced(n)
    OBVIOUS
  <2>5. StrongKeys(n)' = StrongKeys(n) \ K
    <3>1. K \subseteq Key
      BY DEF K
    <3>2. \A k \in Key : k \notin K => flookup'[k] = flookup[k]
      BY <1>3
    <3>3. \A k \in K : flookup'[k] # [mode |-> "strong", value |-> n]
      BY <1>3, <3>1 DEF NoValue
    <3> QED BY <3>2, <3>3 DEF StrongKeys
  <2>6. Strong(n) = StrongKeys(n) \cap K
    <3>1. K \subseteq Key
      BY DEF K
    <3> QED BY <3>1 DEF StrongKeys
  <2>7. n \notin V => Strong(n) = {}
    BY DEF V
  <2> DEFINE R == Strong(n)
  <2>8. Cardinality(StrongKeys(n))' = Cardinality(StrongKeys(n)) - Cardinality(R) /\ Cardinality(R) \in Nat
    <3>0. R = StrongKeys(n) \cap K
      BY <2>6
    <3> HIDE DEF R
    <3>1. IsFiniteSet(R) /\ R \subseteq StrongKeys(n) /\ StrongKeys(n) \ K = StrongKeys(n) \ R
      BY <3>0, StrongFinite, FS_Subset
    <3>2. Cardinality(StrongKeys(n) \ R) = Cardinality(StrongKeys(n)) - Cardinality(StrongKeys(n) \cap R)
      BY <3>1, StrongFinite, FS_Difference
    <3>3. StrongKeys(n) \cap R = R
      BY <3>1
    <3>4. Cardinality(R) \in Nat
      BY <3>1, FS_CardinalityType
    <3>5. StrongKeys(n)' = StrongKeys(n) \ R
      BY <2>5, <3>1
    <3> QED BY <3>2, <3>3, <3>4, <3>5
  <2>9. n \notin V => Cardinality(R) = 0
    BY <2>7, FS_EmptySet
  <2>10. rc'[n] = IF n \in V THEN rc[n] + (IF n \in values THEN 0 ELSE 1) - Cardinality(R) ELSE rc[n]
    BY <1>3
  <2> HIDE DEF R
  <2>11. One(n \in values)' = One(n \in values) + One(n \in V /\ n \notin values)
    BY <1>3 DEF One
  <2>12. One(n \in values) \in Nat /\ One(n \in held) \in Nat /\ One(n \in V /\ n \notin values) \in Nat
    BY DEF One
  <2>13. One(n \in held)' = One(n \in held) /\ StrongAttrs(n)' = StrongAttrs(n)
         /\ StrongObjs(n)' = StrongObjs(n)
    BY <1>3, Frame DEF blobs
  <2>14. rc'[n] = rc[n] + One(n \in V /\ n \notin values) - Cardinality(R)
    BY <2>8, <2>9, <2>10, CountNat DEF One
  <2>15. Firm(n)' = Firm(n) + One(n \in V /\ n \notin values) - Cardinality(R)
    <3>1. CASE n \in Object
      <4>1. Refs(n)' = Refs(n) + One(n \in V /\ n \notin values) - Cardinality(R)
        BY <2>8, <2>11, <2>12, <2>13, StrongFinite DEF Refs
      <4> QED BY <3>1, <4>1 DEF Firm
    <3>2. CASE n \notin Object
      <4>1. n \notin V
        BY <2>1, <3>2
      <4>2. Firm(n)' = Firm(n)
        BY <1>3, <3>2, Frame DEF Firm
      <4> QED BY <2>9, <4>1, <4>2, FirmNat DEF One
    <3> QED BY <3>1, <3>2
  <2> QED BY <1>1, <2>3, <2>4, <2>8, <2>12, <2>14, <2>15, QuietTop, CountNat, Waiting
<1>4. CASE ~ \E k \in K : slookup[k] # "weak" \/ flookup[k].mode \notin Ref
  <2>1. \A k \in K : flookup[k].mode \in Ref
    BY <1>4
  <2> QED BY <1>3, <1>4, <2>1 DEF DestroyKeys
<1>5. CASE \E k \in K : slookup[k] # "weak" \/ flookup[k].mode \notin Ref
  BY <1>2, <1>5 DEF DestroyKeys, Died
<1> QED BY <1>4, <1>5

LEMMA EvenDestroyValues ==
  ASSUME Shape, Shape', DestroyValues
  PROVE  \A n \in Node : Balanced(n)
<1> DEFINE V == Top[2]
<1>1. todo # <<>> /\ Top[1] \notin Holder /\ Top[1] = "destroy_values" /\ V \in SUBSET Object
  BY TopIs DEF DestroyValues, Doing, Holder, Shape, TaskIs
<1>2. UNCHANGED <<held, rc, flookup, attrhash, obj, iter>>
  BY DEF DestroyValues, blobs
<1>3. CASE values' = {} /\ Then(<<<<"decall", values>>>>) /\ UNCHANGED rlookup
  <2> DEFINE x == <<"decall", values>>
             s == <<x>>
  <2> SUFFICES ASSUME NEW n \in Node PROVE Balanced(n)
    OBVIOUS
  <2>1. values \subseteq Object /\ values \in SUBSET Node
    BY Apartness DEF Shape, DataShape, Typed
  <2>2. x \in Task /\ (x \in Holding(n) <=> n \in values)
    BY <2>1, PlainTasks, HoldingIs DEF Plain
  <2>3. Then(s)
    BY <1>3
  <2> HIDE DEF x
  <2>4. s \in Seq(Task) /\ Occurs(s, Holding(n)) = One(n \in values)
    <3>1. Occurs(s, Holding(n)) = One(x \in Holding(n))
      BY OccursOne, Zenon
    <3> QED BY <2>2, <3>1 DEF One
  <2> HIDE DEF s
  <2>5. Firm(n)' + One(n \in values) = Firm(n)
    <3>1. CASE n \in Object
      <4>1. One(n \in values)' = 0 /\ One(n \in values) \in Nat /\ One(n \in held) \in Nat
        BY <1>3 DEF One
      <4>2. One(n \in held)' = One(n \in held) /\ StrongKeys(n)' = StrongKeys(n)
            /\ StrongAttrs(n)' = StrongAttrs(n) /\ StrongObjs(n)' = StrongObjs(n)
        BY <1>2, Frame
      <4>3. Refs(n)' + One(n \in values) = Refs(n)
        BY <4>1, <4>2, StrongFinite DEF Refs
      <4> QED BY <3>1, <4>3 DEF Firm
    <3>2. CASE n \notin Object
      <4>1. Firm(n)' = Firm(n) /\ n \notin values
        BY <1>2, <1>3, <2>1, <3>2, Frame DEF Firm
      <4> QED BY <4>1, FirmNat DEF One
    <3> QED BY <3>1, <3>2
  <2>6. One(n \in values) \in Nat
    BY DEF One
  <2> QED BY <1>1, <1>2, <2>3, <2>4, <2>5, <2>6, QuietTop, CountNat, Waiting
<1>4. ASSUME NEW v \in V, rlookup' = [rlookup EXCEPT ![v] = Null],
             Then(<<<<"decall", Under(v)>>, <<"destroy_values", V \ {v}>>>>), UNCHANGED values
      PROVE  \A n \in Node : Balanced(n)
  <2> DEFINE x == <<"decall", Under(v)>>
             y == <<"destroy_values", V \ {v}>>
             s == <<x, y>>
  <2> SUFFICES ASSUME NEW n \in Node PROVE Balanced(n)
    OBVIOUS
  <2>1. v \in Object /\ Under(v) \subseteq Index /\ Under(v) \in SUBSET Node
    BY <1>1, UnderIs, Apartness DEF Shape, DataShape
  <2>2. x \in Task /\ (x \in Holding(n) <=> n \in Under(v))
    BY <2>1, PlainTasks, HoldingIs DEF Plain
  <2>3. y \in Task /\ y[1] \notin Holder
    BY <1>1, PlainTasks DEF Plain, Holder
  <2>4. Then(s)
    BY <1>4
  <2>5. \A u \in Object : Under(u)' = IF u = v THEN {} ELSE Under(u)
    BY <1>4, <2>1 DEF Under, Shape, DataShape, Typed
  <2> HIDE DEF x, y
  <2>6. s \in Seq(Task) /\ Occurs(s, Holding(n)) = One(n \in Under(v))
    <3>1. Occurs(s, Holding(n)) = One(x \in Holding(n)) + One(y \in Holding(n))
      BY <2>2, <2>3, OccursTwo
    <3>2. y \notin Holding(n)
      BY <2>3, HoldingIs DEF Holder
    <3> QED BY <2>2, <2>3, <3>1, <3>2 DEF One
  <2> HIDE DEF s
  <2>7. One(n \in Under(v)) \in Nat
    BY DEF One
  <2>8. Firm(n)' + One(n \in Under(v)) = Firm(n)
    <3>1. CASE n \in Object
      <4>1. n \notin Under(v)
        BY <2>1, <3>1, Apartness
      <4>2. Firm(n)' = Firm(n)
        BY <1>2, <1>4, <3>1, Frame DEF Firm, Refs
      <4> QED BY <4>1, <4>2, FirmNat DEF One
    <3>2. CASE n \notin Object
      <4>1. Cardinality(Vhashes(n))' = Cardinality(Vhashes(n)) - One(n \in Under(v) /\ n \in Under(v))
        <5>1. \A u \in Object : Under(u)' = IF u = v THEN Under(u) \ Under(v) ELSE Under(u)
          BY <2>5
        <5> QED BY <2>1, <5>1, LessVhash
      <4>2. Gone(n)' = Gone(n) /\ Gone(n) \in Nat
        BY <1>2, Frame DEF Gone, One
      <4>3. One(n \in Under(v) /\ n \in Under(v)) = One(n \in Under(v))
        BY DEF One
      <4> QED BY <2>7, <3>2, <4>1, <4>2, <4>3, StrongFinite DEF Firm
    <3> QED BY <3>1, <3>2
  <2> QED BY <1>1, <1>2, <2>4, <2>6, <2>7, <2>8, QuietTop, CountNat, Waiting
<1> QED BY <1>3, <1>4 DEF DestroyValues
-----------------------------------------------------------------------------
(* Where what is gone is forgotten.                                         *)

\* What holds nothing strongly forgets nothing that counts.
LEMMA EvenFreed ==
  ASSUME Shape, Shape', IndexCounted, LifeCounted, RefUnder, ObjectHooked, Freed
  PROVE  \A n \in Node : Balanced(n)
<1> DEFINE m == Top[2]
<1>1. todo # <<>> /\ Top[1] \notin Holder /\ Then(<<>>) /\ Top = <<"free", m>> /\ m \in Node
  BY TopIs DEF Freed, Doing, Holder, Shape, TaskIs
<1>2. UNCHANGED <<held, values, flookup, iter, rlookup, rc>> /\ acts[m] = <<>>
  BY DEF Freed, tables, loops
<1>3. life[m] = "dying"
  <2>1. Top \in ToSet(todo)
    BY <1>1, TopIs DEF Shape
  <2> QED BY <1>1, <2>1 DEF Shape, TodoShape, FreeOpen
<1>4. ASSUME NEW v \in Object, m \in Attr PROVE attrhash[m][v] # "strong"
  <2>1. SUFFICES ASSUME m \in Under(v) PROVE FALSE
    BY <1>4 DEF RefUnder, Ref
  <2>2. Cardinality(Vhashes(m)) >= 1
    BY <2>1, StrongFinite, CardSome DEF Vhashes
  <2>3. m \in Index /\ Gone(m) \in Nat /\ Occurs(todo, Holding(m)) \in Nat /\ rc[m] = 0
    BY <1>1, <1>3, <1>4, CountNat, Apartness DEF Gone, One, LifeCounted
  <2> QED BY <2>2, <2>3, StrongFinite DEF IndexCounted
<1>5. ASSUME m \in Index PROVE obj[m] # "strong"
  <2>1. OwnAction(m) \notin ToSet(acts[m])
    BY <1>2 DEF ToSet
  <2>2. Top # OwnAction(m)
    BY <1>1 DEF OwnAction
  <2> QED BY <1>5, <2>1, <2>2 DEF ObjectHooked
<1>6. ASSUME NEW o \in Object PROVE StrongAttrs(o)' = StrongAttrs(o) /\ StrongObjs(o)' = StrongObjs(o)
  <2>1. StrongAttrs(o)' = StrongAttrs(o)
    BY <1>4 DEF StrongAttrs, Freed
  <2>2. StrongObjs(o)' = StrongObjs(o)
    BY <1>5 DEF StrongObjs, Freed
  <2> QED BY <2>1, <2>2
<1>7. ASSUME NEW n \in Node PROVE Firm(n)' = Firm(n)
  <2>1. CASE n \in Object
    BY <1>2, <1>6, <2>1, Frame DEF Firm, Refs
  <2>2. CASE n \notin Object
    BY <1>2, <2>2, Frame DEF Firm
  <2> QED BY <2>1, <2>2
<1>8. ASSUME NEW n \in Node PROVE One(Top \in Holding(n)) = 0 /\ rc'[n] = rc[n]
  BY <1>1, <1>2, QuietTop
<1> QED BY <1>1, <1>7, <1>8, CountNat, Finished

-----------------------------------------------------------------------------
(* The operations, between which nothing waits.  EvenX says that X starts   *)
(* with what it has counted.                                                *)

LEMMA Idles ==
  ASSUME Idle
  PROVE  /\ todo = <<>> /\ \A X : Occurs(todo, X) = 0
         /\ ToSet(todo) = {}
BY NothingWaits DEF Idle, ToSet

\* What an operation leaves to do is what waits.
LEMMA Started ==
  ASSUME Idle, NEW n, Firm(n)' + Occurs(todo', Holding(n)) + rc[n] = Firm(n) + rc'[n],
         rc[n] \in Int, rc'[n] \in Int
  PROVE  Balanced(n)
<1>1. Occurs(todo, Holding(n)) = 0
  BY Idles
<1> QED BY <1>1, FirmNat DEF Balanced

LEMMA StartedQuiet ==
  ASSUME Shape, Shape', Idle, NEW s \in Seq(Task), todo' = s, \A t \in ToSet(s) : t[1] \notin Holder,
         UNCHANGED <<rc, held, values, flookup, attrhash, obj, iter, rlookup>>
  PROVE  \A n \in Node : Balanced(n)
<1> SUFFICES ASSUME NEW n \in Node PROVE Balanced(n)
  OBVIOUS
<1>1. Firm(n)' = Firm(n)
  BY Frame, FirmSame
<1>2. Occurs(s, Holding(n)) = 0
  BY QuietTasks
<1> QED BY <1>1, <1>2, CountNat, Started

LEMMA FirmHeld ==
  ASSUME UNCHANGED <<values, flookup, attrhash, obj, iter, rlookup>>, NEW v \in Object,
         NEW d \in Int, One(v \in held)' = One(v \in held) + d,
         \A u \in Object : u # v => One(u \in held)' = One(u \in held), NEW n \in Node
  PROVE  Firm(n)' = IF n = v THEN Firm(n) + d ELSE Firm(n)
<1>1. CASE n \in Object
  <2>1. One(n \in values)' = One(n \in values) /\ StrongKeys(n)' = StrongKeys(n)
        /\ StrongAttrs(n)' = StrongAttrs(n) /\ StrongObjs(n)' = StrongObjs(n)
    BY Frame
  <2>2. One(n \in held) \in Nat /\ One(n \in values) \in Nat
    BY DEF One
  <2>3. Refs(n)' = IF n = v THEN Refs(n) + d ELSE Refs(n)
    BY <1>1, <2>1, <2>2, StrongFinite DEF Refs
  <2> QED BY <1>1, <2>3 DEF Firm
<1>2. CASE n \notin Object
  BY <1>2, Frame DEF Firm
<1> QED BY <1>1, <1>2

LEMMA EvenNew ==
  ASSUME Shape, Shape', ObjectsCounted, LifeCounted, NEW o \in Object, New(o)
  PROVE  \A n \in Node : Balanced(n)
<1>1. o \in Node /\ Idle /\ life[o] = "free" /\ rc' = [rc EXCEPT ![o] = 1] /\ held' = held \cup {o}
      /\ UNCHANGED <<values, flookup, attrhash, obj, iter, rlookup, todo>>
  BY Apartness DEF New, tables, blobs, loops
<1>2. rc[o] = 0
  BY <1>1 DEF LifeCounted
<1>3. o \notin held
  <2>1. rc[o] = Refs(o) + Occurs(todo, Holding(o))
    BY DEF ObjectsCounted, Refs
  <2>2. Refs(o) \in Nat /\ Occurs(todo, Holding(o)) = 0
    BY <1>1, Idles, RefsIs
  <2>3. Refs(o) = 0
    BY <1>2, <2>1, <2>2
  <2> QED BY <2>3, RefsIs
<1>4. One(o \in held)' = One(o \in held) + 1 /\ \A u \in Object : u # o => One(u \in held)' = One(u \in held)
  BY <1>1, <1>3 DEF One
<1> SUFFICES ASSUME NEW n \in Node PROVE Balanced(n)
  OBVIOUS
<1>5. Firm(n)' = IF n = o THEN Firm(n) + 1 ELSE Firm(n)
  BY <1>1, <1>4, FirmHeld
<1>6. rc'[n] = IF n = o THEN rc[n] + 1 ELSE rc[n]
  BY <1>1, <1>2 DEF Shape, DataShape, Typed
<1>7. Occurs(todo', Holding(n)) = 0
  BY <1>1, Idles
<1> QED BY <1>1, <1>5, <1>6, <1>7, CountNat, Started

LEMMA EvenDrop ==
  ASSUME Shape, Shape', NEW o \in Object, Drop(o)
  PROVE  \A n \in Node : Balanced(n)
<1> DEFINE x == <<"dec", o>>
           s == <<x>>
<1>1. o \in Node /\ Idle /\ held' = held \ {o} /\ o \in held /\ todo' = s
      /\ UNCHANGED <<values, flookup, attrhash, obj, iter, rlookup, rc>>
  BY Apartness DEF Drop, heap, tables, blobs, loops
<1>2. One(o \in held)' = One(o \in held) + (0 - 1) /\ \A u \in Object : u # o => One(u \in held)' = One(u \in held)
  BY <1>1 DEF One
<1> SUFFICES ASSUME NEW n \in Node PROVE Balanced(n)
  OBVIOUS
<1>3. Firm(n)' = IF n = o THEN Firm(n) + (0 - 1) ELSE Firm(n)
  BY <1>1, <1>2, FirmHeld
<1>4. x \in Holding(n) <=> n = o
  BY <1>1, HoldingIs
<1>5. Occurs(s, Holding(n)) = One(x \in Holding(n))
  BY OccursOne, Zenon
<1>6. Occurs(todo', Holding(n)) = IF n = o THEN 1 ELSE 0
  BY <1>1, <1>4, <1>5 DEF One
<1> QED BY <1>1, <1>3, <1>6, CountNat, Started

LEMMA EvenTake ==
  ASSUME Shape, Shape', Idle, NEW v \in Object, Take(v)
  PROVE  \A n \in Node : Balanced(n)
<1>1. v \in Node /\ v \notin held /\ held' = held \cup {v} /\ rc' = AddRef(rc, v)
      /\ UNCHANGED <<values, flookup, attrhash, obj, iter, rlookup, todo>>
  BY Apartness DEF Take, tables, blobs, loops
<1>2. One(v \in held)' = One(v \in held) + 1 /\ \A u \in Object : u # v => One(u \in held)' = One(u \in held)
  BY <1>1 DEF One
<1> SUFFICES ASSUME NEW n \in Node PROVE Balanced(n)
  OBVIOUS
<1>3. Firm(n)' = IF n = v THEN Firm(n) + 1 ELSE Firm(n)
  BY <1>1, <1>2, FirmHeld
<1>4. rc'[n] = IF n = v THEN rc[n] + 1 ELSE rc[n]
  BY <1>1 DEF AddRef, Shape, DataShape, Typed
<1>5. Occurs(todo', Holding(n)) = 0
  BY <1>1, Idles
<1> QED BY <1>3, <1>4, <1>5, CountNat, Started

LEMMA EvenFetch ==
  ASSUME Shape, Shape', NEW i, (i \in Key /\ FetchSk(i)) \/ (i \in Attr /\ FetchA(i))
  PROVE  \A n \in Node : Balanced(n)
<1>1. CASE i \in Key /\ FetchSk(i)
  <2>1. flookup[i].value \in Object /\ Idle /\ Take(flookup[i].value)
    BY <1>1 DEF FetchSk, Shape, DataShape, EntriesTyped
  <2> DEFINE v == flookup[i].value
  <2> HIDE DEF v
  <2>2. v \in Object /\ Take(v)
    BY <2>1 DEF v
  <2> QED BY <2>1, <2>2, EvenTake
<1>2. CASE i \in Attr /\ FetchA(i)
  BY <1>2, EvenTake DEF FetchA
<1> QED BY <1>1, <1>2

\* The operations that only leave something to do.
LEMMA EvenDissocA ==
  ASSUME Shape, Shape', NEW a \in Attr, NEW v \in Object, DissocA(a, v)
  PROVE  \A n \in Node : Balanced(n)
<1> DEFINE x == <<"unhash", a, v>>
           y == <<"unvhash", a, v>>
           s == <<x, y>>
<1>1. x \in Task /\ y \in Task /\ x[1] \notin Holder /\ y[1] \notin Holder
  BY OtherTasks, PlainTasks, Apartness DEF Plain, Holder
<1>2. Idle /\ todo' = s /\ UNCHANGED <<rc, held, values, flookup, attrhash, obj, iter, rlookup>>
  BY DEF DissocA, heap, tables, blobs, loops
<1> HIDE DEF x, y
<1>3. s \in Seq(Task) /\ \A t \in ToSet(s) : t[1] \notin Holder
  BY <1>1 DEF ToSet
<1> HIDE DEF s
<1> QED BY <1>2, <1>3, StartedQuiet

LEMMA StartedOne ==
  ASSUME Shape, Shape', Idle, NEW x \in Task, todo' = <<x>>, x[1] \notin Holder,
         UNCHANGED <<rc, held, values, flookup, attrhash, obj, iter, rlookup>>
  PROVE  \A n \in Node : Balanced(n)
<1> DEFINE s == <<x>>
<1>1. ToSet(s) = {x}
  BY SetOne, Zenon
<1>2. s \in Seq(Task) /\ todo' = s
  OBVIOUS
<1> HIDE DEF s
<1> QED BY <1>1, <1>2, StartedQuiet

LEMMA EvenUnlinkA ==
  ASSUME Shape, Shape', NEW a \in Attr, UnlinkA(a)
  PROVE  \A n \in Node : Balanced(n)
<1> DEFINE x == <<"attr_destroy_trigger", a>>
<1>1. x \in Task /\ x[1] \notin Holder
  BY ActionTasks DEF Plain, Holder
<1>2. Idle /\ todo' = <<x>> /\ UNCHANGED <<rc, held, values, flookup, attrhash, obj, iter, rlookup>>
  BY DEF UnlinkA, heap, tables, blobs, loops
<1> HIDE DEF x
<1> QED BY <1>1, <1>2, StartedOne

LEMMA EvenPurge ==
  ASSUME Shape, Shape', NEW v \in Object, Purge(v)
  PROVE  \A n \in Node : Balanced(n)
<1> DEFINE x == <<"purge", v>>
<1>1. x \in Task /\ x[1] \notin Holder
  BY OtherTasks DEF Holder
<1>2. Idle /\ todo' = <<x>> /\ UNCHANGED <<rc, held, values, flookup, attrhash, obj, iter, rlookup>>
  BY DEF Purge, heap, tables, blobs, loops
<1> HIDE DEF x
<1> QED BY <1>1, <1>2, StartedOne

LEMMA EvenDestroy ==
  ASSUME Shape, Shape', Destroy
  PROVE  \A n \in Node : Balanced(n)
<1> DEFINE x == <<"destroy_attrs", {a \in Attr : attr_lookup[a] # "none"}>>
           y == <<"destroy_keys">>
           s == <<x, y>>
<1>1. x \in Task /\ y \in Task /\ x[1] \notin Holder /\ y[1] \notin Holder
  BY PlainTasks DEF Plain, Holder
<1>2. Idle /\ todo' = s /\ UNCHANGED <<rc, held, values, flookup, attrhash, obj, iter, rlookup>>
  BY DEF Destroy, heap, tables, blobs, loops
<1> HIDE DEF x, y
<1>3. s \in Seq(Task) /\ \A t \in ToSet(s) : t[1] \notin Holder
  BY <1>1 DEF ToSet
<1> HIDE DEF s
<1> QED BY <1>2, <1>3, StartedQuiet

LEMMA EvenPurgeBySk ==
  ASSUME Shape, Shape', NEW k \in Key, PurgeBySk(k)
  PROVE  \A n \in Node : Balanced(n)
<1> DEFINE v == flookup[k].value
           x == <<"purge", v>>
           y == <<"dec", v>>
           s == <<x, y>>
<1>1. v \in Object /\ v \in Node /\ Idle
  BY DEF PurgeBySk, Shape, DataShape, EntriesTyped, Node
<1>2. todo' = s /\ rc' = AddRef(rc, v) /\ UNCHANGED <<held, values, flookup, attrhash, obj, iter, rlookup>>
  BY DEF PurgeBySk, tables, blobs, loops
<1> HIDE DEF v
<1> SUFFICES ASSUME NEW n \in Node PROVE Balanced(n)
  OBVIOUS
<1>3. x \in Task /\ x[1] \notin Holder /\ y \in Task
  BY <1>1, OtherTasks, PlainTasks DEF Plain, Holder
<1>4. y \in Holding(n) <=> v = n
  BY <1>1, HoldingIs
<1> HIDE DEF x, y
<1>5. Occurs(s, Holding(n)) = One(x \in Holding(n)) + One(y \in Holding(n))
  BY <1>3, OccursTwo
<1>6. x \notin Holding(n)
  BY <1>3, HoldingIs DEF Holder
<1>7. rc'[n] = IF n = v THEN rc[n] + 1 ELSE rc[n]
  BY <1>1, <1>2 DEF AddRef, Shape, DataShape, Typed
<1>8. Occurs(todo', Holding(n)) = IF n = v THEN 1 ELSE 0
  BY <1>2, <1>4, <1>5, <1>6 DEF One
<1>9. Firm(n)' = Firm(n)
  BY <1>2, Frame, FirmSame
<1> QED BY <1>1, <1>7, <1>8, <1>9, CountNat, Started

LEMMA EvenUnlinkSk ==
  ASSUME Shape, Shape', NEW k \in Key, UnlinkSk(k)
  PROVE  \A n \in Node : Balanced(n)
<1> DEFINE v == flookup[k].value
           x == <<"unvhash", k, v>>
           y == <<"dec", k>>
           z == <<"dec", v>>
           s == <<x, y, z>>
<1>1. v \in Object /\ v \in Node /\ k \in Node /\ k \in Index /\ k # v /\ Idle
  BY Apartness DEF UnlinkSk, Shape, DataShape, EntriesTyped, Node
<1>2. todo' = s /\ rc' = AddRef(AddRef(rc, k), v)
      /\ UNCHANGED <<held, values, flookup, attrhash, obj, iter, rlookup>>
  BY DEF UnlinkSk, tables, blobs, loops
<1> HIDE DEF v
<1> SUFFICES ASSUME NEW n \in Node PROVE Balanced(n)
  OBVIOUS
<1>3. x \in Task /\ x[1] \notin Holder /\ y \in Task /\ z \in Task
  BY <1>1, OtherTasks, PlainTasks DEF Plain, Holder
<1>4. (y \in Holding(n) <=> k = n) /\ (z \in Holding(n) <=> v = n)
  BY <1>1, HoldingIs
<1> HIDE DEF x, y, z
<1>5. Occurs(s, Holding(n)) = One(x \in Holding(n)) + One(y \in Holding(n)) + One(z \in Holding(n))
  BY <1>3, OccursThree
<1>6. x \notin Holding(n)
  BY <1>3, HoldingIs DEF Holder
<1>7. rc'[n] = IF n = v \/ n = k THEN rc[n] + 1 ELSE rc[n]
  BY <1>1, <1>2 DEF AddRef, Shape, DataShape, Typed
<1>8. Occurs(todo', Holding(n)) = IF n = v \/ n = k THEN 1 ELSE 0
  BY <1>1, <1>2, <1>4, <1>5, <1>6 DEF One
<1>9. Firm(n)' = Firm(n)
  BY <1>2, Frame, FirmSame
<1> QED BY <1>1, <1>7, <1>8, <1>9, CountNat, Started

LEMMA EvenPurgeByA ==
  ASSUME Shape, Shape', NEW a \in Attr, PurgeByA(a)
  PROVE  \A n \in Node : Balanced(n)
<1> DEFINE V == {v \in Object : attrhash[a][v] \in Ref}
           y == <<"decall", V>>
<1>1. V \subseteq Object /\ IsFiniteSet(V) /\ V \subseteq Node /\ Idle
  BY Finite, FS_Subset DEF Node, PurgeByA
<1>2. PICK s \in SetToSeqs(V) : todo' = [i \in 1..Len(s) |-> <<"purge", s[i]>>] \o <<y>>
  BY DEF PurgeByA
<1>3. s \in Seq(V) /\ \A i \in 1..Len(s) : s[i] \in V
  <2> HIDE DEF V
  <2> QED BY <1>1, OrderProps
<1>4. rc' = [n \in Node |-> IF n \in V THEN rc[n] + 1 ELSE rc[n]]
      /\ UNCHANGED <<held, values, flookup, attrhash, obj, iter, rlookup>>
  BY DEF PurgeByA, tables, blobs, loops
<1> SUFFICES ASSUME NEW n \in Node PROVE Balanced(n)
  OBVIOUS
<1> DEFINE f == [i \in 1..Len(s) |-> <<"purge", s[i]>>]
           q == <<y>>
<1>5. y \in Task /\ (y \in Holding(n) <=> n \in V)
  BY <1>1, PlainTasks, HoldingIs DEF Plain
<1>6. f \in Seq(Task) /\ \A t \in ToSet(f) : t[1] \notin Holder
  <2>1. \A i \in 1..Len(s) : <<"purge", s[i]>> \in Task
    BY <1>1, <1>3, OtherTasks
  <2>2. Len(s) \in Nat
    BY <1>3
  <2>3. f \in Seq(Task)
    BY <2>1, <2>2
  <2>4. \A t \in ToSet(f) : t[1] = "purge"
    BY DEF ToSet
  <2> HIDE DEF f
  <2> QED BY <2>3, <2>4 DEF Holder
<1> HIDE DEF V, y, f
<1>7. Occurs(q, Holding(n)) = One(y \in Holding(n))
  BY OccursOne, Zenon
<1>8. q \in Seq(Task) /\ Occurs(q, Holding(n)) = One(n \in V) /\ todo' = f \o q
  BY <1>2, <1>5, <1>7 DEF One, f
<1> HIDE DEF q
<1>9. Occurs(f \o q, Holding(n)) = Occurs(f, Holding(n)) + Occurs(q, Holding(n))
  BY <1>6, <1>8, OccursConcat
<1>10. Occurs(f, Holding(n)) = 0
  BY <1>6, QuietTasks
<1>11. One(n \in V) \in Nat /\ rc'[n] = rc[n] + One(n \in V)
  <2>1. rc[n] \in Int
    BY CountNat
  <2> QED BY <1>4, <2>1 DEF One
<1>12. Firm(n)' = Firm(n)
  BY <1>4, Frame, FirmSame
<1>13. Occurs(todo', Holding(n)) = One(n \in V)
  BY <1>8, <1>9, <1>10, <1>11
<1> QED BY <1>1, <1>11, <1>12, <1>13, CountNat, Started

-----------------------------------------------------------------------------
(* Storing.                                                                 *)

\* An index that is free is in no vhash, and between operations one that lives is.
LEMMA FreeNowhere ==
  ASSUME Shape, IndexCounted, LifeCounted, Idle, NEW i \in Index
  PROVE  /\ Gone(i) = 0 /\ kept = {}
         /\ life[i] = "free" => Vhashes(i) = {} /\ rc[i] = 0
         /\ life[i] = "live" => Vhashes(i) # {}
<1>1. ToSet(todo) = {} /\ Occurs(todo, Holding(i)) = 0
  BY Idles
<1>2. iter = Null /\ kept = {}
  BY <1>1 DEF Shape, TodoShape, LoopOpen, KeptOpen, DataShape, Typed
<1>3. Gone(i) = 0
  BY <1>2 DEF Gone, One
<1>4. rc[i] = Cardinality(Vhashes(i)) /\ i \in Node
  BY <1>1, <1>3, StrongFinite, Apartness DEF IndexCounted
<1>5. Cardinality(Vhashes(i)) = 0 <=> Vhashes(i) = {}
  BY StrongFinite, CardSome
<1> QED BY <1>2, <1>3, <1>4, <1>5 DEF LifeCounted

LEMMA MoreVhash ==
  ASSUME NEW v \in Object, NEW i, i \notin Under(v),
         \A u \in Object : Under(u)' = IF u = v THEN Under(u) \cup {i} ELSE Under(u), NEW j
  PROVE  Cardinality(Vhashes(j))' = IF j = i THEN Cardinality(Vhashes(j)) + 1 ELSE Cardinality(Vhashes(j))
<1>1. Vhashes(j)' = IF j = i THEN Vhashes(j) \cup {v} ELSE Vhashes(j)
  BY DEF Vhashes
<1>2. j = i => v \notin Vhashes(j)
  BY DEF Vhashes
<1>3. Cardinality(Vhashes(j) \cup {v}) = Cardinality(Vhashes(j)) + One(v \notin Vhashes(j))
  BY StrongFinite, CardMore
<1> QED BY <1>1, <1>2, <1>3 DEF One

\* An entry that is made strong is a reference more.
LEMMA MoreStrong ==
  ASSUME NEW S, IsFiniteSet(S), NEW R, NEW x, x \notin S, NEW b, R = IF b THEN S \cup {x} ELSE S
  PROVE  Cardinality(R) = Cardinality(S) + One(b) /\ Cardinality(S) \in Nat
<1>1. Cardinality(S \cup {x}) = Cardinality(S) + One(x \notin S) /\ Cardinality(S) \in Nat
  BY CardMore
<1> QED BY <1>1 DEF One

\* An index that is free holds nothing strongly.
LEMMA FreeHoldsNothing ==
  ASSUME Idle, FreeClean, ForwardHooked, ObjectHooked, NEW i \in Index, life[i] = "free"
  PROVE  obj[i] # "strong" /\ (i \in Key => flookup[i].mode # "strong")
<1>1. ToSet(acts[i]) = {} /\ ToSet(todo) = {} /\ todo = <<>>
  BY Idles, Apartness DEF FreeClean, ToSet
<1>2. obj[i] # "strong"
  BY <1>1 DEF ObjectHooked
<1>3. i \in Key => flookup[i].mode # "strong"
  BY <1>1 DEF ForwardHooked
<1> QED BY <1>2, <1>3

LEMMA VhashMade ==
  ASSUME Typed, NEW v \in Object, NEW i \in Index, rlookup' = WithVhash(v, i)
  PROVE  \A u \in Object : Under(u)' = IF u = v THEN Under(u) \cup {i} ELSE Under(u)
<1>1. /\ WithVhash(v, i)[v] = Under(v) \cup {i}
      /\ \A u \in Object : u # v => WithVhash(v, i)[u] = rlookup[u]
  BY WithVhashTyped
<1>2. rlookup'[v] # Null
  <2>1. Under(v) \cup {i} \in SUBSET Index
    BY UnderIs
  <2> QED BY <1>1, <2>1, Apartness
<1> QED BY <1>1, <1>2 DEF Under

LEMMA EvenStoreSk ==
  ASSUME Shape, Shape', IndexCounted, LifeCounted, FreeClean, ForwardHooked, ObjectHooked,
         NEW k \in Key, NEW v \in Object, NEW sv \in BOOLEAN, NEW sk \in BOOLEAN, StoreSk(k, v, sv, sk)
  PROVE  \A n \in Node : Balanced(n)
<1> DEFINE o == TheObject(k)
           e == IsEncap(k) /\ sk
           counted == [rc EXCEPT ![k] = 1]
           keyheld == IF e THEN AddRef(counted, o) ELSE counted
<1>1. k \in Index /\ k \in Node /\ v \in Node /\ k # v /\ (IsEncap(k) => o \in Object /\ o \in Node /\ o # k)
  BY Encap, Apartness
<1>2. /\ flookup' = [flookup EXCEPT ![k] = [mode |-> Mode(sv), value |-> v]]
      /\ rlookup' = WithVhash(v, k)
      /\ obj' = IF IsEncap(k) THEN [obj EXCEPT ![k] = Mode(sk)] ELSE obj
      /\ rc' = IF sv THEN AddRef(keyheld, v) ELSE keyheld
      /\ UNCHANGED <<held, values, attrhash, iter, todo>> /\ Idle /\ life[k] = "free"
  BY DEF StoreSk, loops
<1>3. Gone(k) = 0 /\ Vhashes(k) = {} /\ rc[k] = 0
  BY <1>1, <1>2, FreeNowhere
<1>4. Typed /\ rc \in [Node -> Int]
  BY DEF Shape, DataShape, Typed
<1>5. \A n \in Node : rc'[n] = IF n = k THEN 1 ELSE rc[n] + One(sv /\ v = n) + One(e /\ o = n)
  <2> HIDE DEF o
  <2>1. \A n \in Node : keyheld[n] = IF n = k THEN 1 ELSE rc[n] + One(e /\ o = n)
    BY <1>1, <1>4 DEF AddRef, One
  <2>2. \A n \in Node : rc'[n] = IF sv /\ n = v THEN keyheld[n] + 1 ELSE keyheld[n]
    BY <1>1, <1>2, <1>4 DEF AddRef
  <2> HIDE DEF keyheld
  <2> QED BY <1>1, <1>4, <2>1, <2>2 DEF One
<1>6. \A X : Occurs(todo', X) = 0 /\ Occurs(todo, X) = 0
  BY <1>2, Idles
<1>9. obj[k] # "strong" /\ flookup[k].mode # "strong"
  BY <1>1, <1>2, FreeHoldsNothing
<1>7. ASSUME NEW x \in Object PROVE Balanced(x)
  <2>0. x \in Node /\ x # k
    BY <1>1, Apartness
  <2>1. Cardinality(StrongKeys(x))' = Cardinality(StrongKeys(x)) + One(sv /\ v = x)
    <3>1. k \notin StrongKeys(x)
      BY <1>9 DEF StrongKeys
    <3>2. StrongKeys(x)' = IF sv /\ v = x THEN StrongKeys(x) \cup {k} ELSE StrongKeys(x)
      BY <1>2, <1>4, <3>1 DEF StrongKeys, Typed, Mode
    <3> QED BY <3>1, <3>2, StrongFinite, MoreStrong, ZenonT(60)
  <2>2. Cardinality(StrongObjs(x))' = Cardinality(StrongObjs(x)) + One(e /\ o = x)
    <3>1. k \notin StrongObjs(x)
      BY <1>9 DEF StrongObjs
    <3>2. StrongObjs(x)' = IF e /\ o = x THEN StrongObjs(x) \cup {k} ELSE StrongObjs(x)
      BY <1>1, <1>2, <1>4, <3>1 DEF StrongObjs, Typed, Mode
    <3> QED BY <3>1, <3>2, StrongFinite, MoreStrong, ZenonT(60)
  <2>3. One(x \in held)' = One(x \in held) /\ One(x \in values)' = One(x \in values)
        /\ StrongAttrs(x)' = StrongAttrs(x) /\ One(x \in held) \in Nat /\ One(x \in values) \in Nat
    BY <1>2, Frame DEF One
  <2>4. One(sv /\ v = x) \in Nat /\ One(e /\ o = x) \in Nat
    BY DEF One
  <2> HIDE DEF e, o
  <2>5. Firm(x)' = Firm(x) + One(sv /\ v = x) + One(e /\ o = x)
    BY <2>1, <2>2, <2>3, <2>4, StrongFinite, StrongFiniteNext DEF Firm, Refs
  <2>6. rc'[x] = rc[x] + One(sv /\ v = x) + One(e /\ o = x)
    BY <1>5, <2>0
  <2> QED BY <1>6, <2>0, <2>4, <2>5, <2>6, CountNat DEF Balanced
<1>8. ASSUME NEW i \in Index PROVE Balanced(i)
  <2>0. i \in Node /\ i \notin Object /\ i # v /\ (e => i # o)
    BY <1>1, Apartness
  <2>1. k \notin Under(v)
    BY <1>3 DEF Vhashes
  <2>2. Cardinality(Vhashes(i))' = IF i = k THEN Cardinality(Vhashes(i)) + 1 ELSE Cardinality(Vhashes(i))
    BY <1>1, <1>2, <1>4, <2>1, VhashMade, MoreVhash
  <2>3. Gone(i)' = Gone(i) /\ Gone(i) \in Nat
    BY <1>2, Frame DEF Gone, One
  <2>4. Firm(i)' = IF i = k THEN Firm(i) + 1 ELSE Firm(i)
    BY <2>0, <2>2, <2>3, StrongFinite DEF Firm
  <2>5. rc'[i] = IF i = k THEN rc[i] + 1 ELSE rc[i]
    <3>1. ~ (sv /\ v = i) /\ ~ (e /\ o = i)
      BY <2>0
    <3> QED BY <1>3, <1>4, <1>5, <2>0, <3>1 DEF One
  <2> HIDE DEF keyheld
  <2>6. Firm(i) \in Nat /\ rc[i] \in Int /\ rc'[i] \in Int
    BY <2>0, CountNat
  <2>7. Firm(i)' + Occurs(todo', Holding(i)) + rc[i] = Firm(i) + rc'[i]
    BY <1>6, <2>4, <2>5, <2>6
  <2> QED BY <1>2, <2>6, <2>7, Started
<1> QED BY <1>7, <1>8 DEF Node

\* Between operations an attribute that lives has a value.
LEMMA StoredValue ==
  ASSUME Shape, IndexCounted, LifeCounted, UnderHas, FreeClean, Idle, NEW a \in Attr, life[a] = "live"
  PROVE  ~ FirstValue(a)
<1>1. Vhashes(a) # {}
  BY FreeNowhere, Apartness
<1>2. PICK v \in Object : a \in Under(v)
  BY <1>1 DEF Vhashes
<1>3. life[v] = "live"
  <2>1. v \in Node
    BY Apartness
  <2>2. life[v] # "dying"
    BY <2>1, Idles DEF Shape, TodoShape, FreeOpen
  <2>3. life[v] # "free"
    BY <1>2 DEF FreeClean, Under
  <2> QED BY <2>1, <2>2, <2>3 DEF Shape, DataShape, Typed
<1>4. attrhash[a][v] # "none"
  BY <1>2, <1>3, Idles DEF UnderHas
<1> QED BY <1>4 DEF FirstValue

LEMMA EvenStoreA ==
  ASSUME Shape, Shape', IndexCounted, LifeCounted, WeakLive, UnderHas, FreeClean,
         RefUnder, ForwardHooked, ObjectHooked,
         NEW a \in Attr, NEW v \in Object, NEW sv \in BOOLEAN, NEW sa \in BOOLEAN, StoreA(a, v, sv, sa)
  PROVE  \A n \in Node : Balanced(n)
<1> DEFINE new == attr_lookup[a] = "none"
           o == TheObject(a)
           e == new /\ IsEncap(a) /\ sa
           made == IF new THEN [rc EXCEPT ![a] = 1] ELSE rc
           objheld == IF e THEN AddRef(made, o) ELSE made
           inserted == IF FirstValue(a) THEN objheld ELSE AddRef(objheld, a)
<1>1. a \in Index /\ a \in Node /\ v \in Node /\ a # v /\ (IsEncap(a) => o \in Object /\ o \in Node /\ o # a)
  BY Encap, Apartness
<1>2. /\ a \notin Under(v)
      /\ attr_lookup[a] # "undef"
      /\ new => life[a] = "free"
      /\ attrhash' = [attrhash EXCEPT ![a][v] = Mode(sv)]
      /\ rlookup' = WithVhash(v, a)
      /\ obj' = IF new /\ IsEncap(a) THEN [obj EXCEPT ![a] = Mode(sa)] ELSE obj
      /\ rc' = IF sv THEN AddRef(inserted, v) ELSE inserted
      /\ UNCHANGED <<held, values, flookup, iter, todo>> /\ Idle
  BY DEF StoreA, loops
<1>3. Typed /\ rc \in [Node -> Int]
  BY DEF Shape, DataShape, Typed
<1>4. /\ new => FirstValue(a) /\ rc[a] = 0
      /\ ~ new => ~ FirstValue(a)
  <2>1. CASE new
    BY <1>1, <1>2, <2>1, FreeNowhere DEF FreeClean, FirstValue
  <2>2. CASE ~ new
    <3>1. attr_lookup[a] \in Entry
      BY <1>3 DEF Typed
    <3>2. attr_lookup[a] = "weak"
      BY <1>2, <2>2, <3>1 DEF WeakLive, Entry, Ref
    <3> QED BY <1>2, <2>2, <3>2, StoredValue DEF WeakLive
  <2> QED BY <2>1, <2>2
<1>5. \A n \in Node : rc'[n] = IF n = a THEN rc[n] + 1 ELSE rc[n] + One(sv /\ v = n) + One(e /\ o = n)
  <2> HIDE DEF o
  <2>1. \A n \in Node : made[n] = (IF n = a /\ new THEN 1 ELSE rc[n]) /\ made[n] \in Int
    BY <1>1, <1>3
  <2>a. made \in [Node -> Int]
    BY <1>1, <1>3
  <2> HIDE DEF made
  <2>2. /\ objheld \in [Node -> Int]
        /\ \A n \in Node : objheld[n] = made[n] + One(e /\ o = n)
    BY <1>1, <2>a DEF AddRef, One
  <2> HIDE DEF objheld, e
  <2>3. /\ inserted \in [Node -> Int]
        /\ \A n \in Node : inserted[n] = IF n = a /\ ~ FirstValue(a) THEN objheld[n] + 1 ELSE objheld[n]
    BY <1>1, <2>2 DEF AddRef
  <2> HIDE DEF inserted
  <2>4. \A n \in Node : rc'[n] = IF sv /\ n = v THEN inserted[n] + 1 ELSE inserted[n]
    BY <1>1, <1>2, <2>3 DEF AddRef, inserted, objheld, made, e, o
  <2> SUFFICES ASSUME NEW n \in Node
               PROVE  rc'[n] = IF n = a THEN rc[n] + 1 ELSE rc[n] + One(sv /\ v = n) + One(e /\ o = n)
    OBVIOUS
  <2>5. CASE n = a
    <3>1. One(e /\ o = n) = 0
      BY <1>1, <2>5 DEF One, e
    <3>2. rc'[n] = inserted[n]
      BY <1>1, <2>4, <2>5
    <3>3. objheld[n] = made[n] /\ made[n] \in Int
      BY <2>1, <2>2, <3>1
    <3>4. inserted[n] = IF FirstValue(a) THEN made[n] ELSE made[n] + 1
      BY <2>3, <2>5, <3>3
    <3>5. made[n] = IF new THEN 1 ELSE rc[n]
      BY <2>1, <2>5
    <3> QED BY <1>4, <2>5, <3>2, <3>4, <3>5
  <2>6. CASE n # a
    <3>1. inserted[n] = rc[n] + One(e /\ o = n)
      BY <2>1, <2>2, <2>3, <2>6
    <3>2. rc[n] \in Int /\ One(e /\ o = n) \in Int
      BY <1>3 DEF One
    <3>3. rc'[n] = inserted[n] + One(sv /\ v = n)
      BY <2>3, <2>4 DEF One
    <3>4. One(sv /\ v = n) \in Int
      BY DEF One
    <3> QED BY <2>6, <3>1, <3>2, <3>3, <3>4
  <2> QED BY <2>5, <2>6
<1> HIDE DEF made, objheld, inserted
<1>6. \A X : Occurs(todo', X) = 0 /\ Occurs(todo, X) = 0
  BY <1>2, Idles
<1>9. attrhash[a][v] # "strong" /\ (new => obj[a] # "strong")
  <2>1. attrhash[a][v] # "strong"
    BY <1>2 DEF RefUnder, Ref
  <2>2. new => obj[a] # "strong"
    BY <1>1, <1>2, FreeHoldsNothing
  <2> QED BY <2>1, <2>2
<1>7. ASSUME NEW x \in Object PROVE Balanced(x)
  <2>0. x \in Node /\ x # a
    BY <1>1, Apartness
  <2>1. Cardinality(StrongAttrs(x))' = Cardinality(StrongAttrs(x)) + One(sv /\ v = x)
    <3>1. v = x => a \notin StrongAttrs(x)
      BY <1>9 DEF StrongAttrs
    <3>3. CASE v = x
      <4>1. a \notin StrongAttrs(x)
        BY <3>1, <3>3
      <4>2. StrongAttrs(x)' = IF sv /\ v = x THEN StrongAttrs(x) \cup {a} ELSE StrongAttrs(x)
        BY <1>2, <1>3, <3>3, <4>1 DEF StrongAttrs, Typed, Mode
      <4> QED BY <4>1, <4>2, StrongFinite, MoreStrong, ZenonT(60)
    <3>4. CASE v # x
      <4>1. StrongAttrs(x)' = StrongAttrs(x) /\ One(sv /\ v = x) = 0
        BY <1>2, <1>3, <3>4 DEF StrongAttrs, Typed, One
      <4> QED BY <4>1, StrongFinite
    <3> QED BY <3>3, <3>4
  <2>2. Cardinality(StrongObjs(x))' = Cardinality(StrongObjs(x)) + One(e /\ o = x)
    <3>1. new => a \notin StrongObjs(x)
      BY <1>9 DEF StrongObjs
    <3>3. CASE new
      <4>1. a \notin StrongObjs(x)
        BY <3>1, <3>3
      <4>2. StrongObjs(x)' = IF e /\ o = x THEN StrongObjs(x) \cup {a} ELSE StrongObjs(x)
        BY <1>1, <1>2, <1>3, <3>3, <4>1 DEF StrongObjs, Typed, Mode
      <4> QED BY <4>1, <4>2, StrongFinite, MoreStrong, ZenonT(60)
    <3>4. CASE ~ new
      <4>1. StrongObjs(x)' = StrongObjs(x) /\ One(e /\ o = x) = 0
        BY <1>2, <3>4 DEF StrongObjs, One
      <4> QED BY <4>1, StrongFinite
    <3> QED BY <3>3, <3>4
  <2>3. One(x \in held)' = One(x \in held) /\ One(x \in values)' = One(x \in values)
        /\ StrongKeys(x)' = StrongKeys(x) /\ One(x \in held) \in Nat /\ One(x \in values) \in Nat
    BY <1>2, Frame DEF One
  <2>4. One(sv /\ v = x) \in Nat /\ One(e /\ o = x) \in Nat
    BY DEF One
  <2> HIDE DEF e, o
  <2>5. Firm(x)' = Firm(x) + One(sv /\ v = x) + One(e /\ o = x)
    BY <2>1, <2>2, <2>3, <2>4, StrongFinite, StrongFiniteNext DEF Firm, Refs
  <2>6. rc'[x] = rc[x] + One(sv /\ v = x) + One(e /\ o = x)
    BY <1>5, <2>0
  <2> QED BY <1>6, <2>0, <2>4, <2>5, <2>6, CountNat DEF Balanced
<1>8. ASSUME NEW i \in Index PROVE Balanced(i)
  <2>0. i \in Node /\ i \notin Object /\ i # v /\ (e => i # o)
    BY <1>1, Apartness
  <2>2. Cardinality(Vhashes(i))' = IF i = a THEN Cardinality(Vhashes(i)) + 1 ELSE Cardinality(Vhashes(i))
    BY <1>1, <1>2, <1>3, VhashMade, MoreVhash
  <2>3. Gone(i)' = Gone(i) /\ Gone(i) \in Nat
    BY <1>2, Frame DEF Gone, One
  <2>4. Firm(i)' = IF i = a THEN Firm(i) + 1 ELSE Firm(i)
    BY <2>0, <2>2, <2>3, StrongFinite DEF Firm
  <2>5. rc'[i] = IF i = a THEN rc[i] + 1 ELSE rc[i]
    <3>1. ~ (sv /\ v = i) /\ ~ (e /\ o = i)
      BY <2>0
    <3> HIDE DEF e, o
    <3>2. One(sv /\ v = i) = 0 /\ One(e /\ o = i) = 0
      BY <3>1 DEF One
    <3>3. rc[i] \in Int
      BY <1>3, <2>0
    <3> QED BY <1>5, <2>0, <3>2, <3>3
  <2> QED BY <1>2, <1>6, <2>0, <2>4, <2>5, CountNat, Started
<1> QED BY <1>7, <1>8 DEF Node

-----------------------------------------------------------------------------
(* Every step and every operation.                                          *)

LEMMA CountsInit ==
  ASSUME Init
  PROVE  ObjectsCounted /\ IndexCounted
<1>1. \A X : Occurs(todo, X) = 0
  BY NothingWaits DEF Init
<1>2. ASSUME NEW o \in Object
      PROVE  /\ Cardinality(StrongKeys(o)) = 0 /\ Cardinality(StrongAttrs(o)) = 0
             /\ Cardinality(StrongObjs(o)) = 0 /\ One(o \in held) = 0 /\ One(o \in values) = 0
  <2>1. StrongKeys(o) = {} /\ StrongObjs(o) = {}
    BY DEF Init, StrongKeys, StrongObjs, NoValue
  <2>2. StrongAttrs(o) = {}
    BY DEF Init, StrongAttrs
  <2>3. One(o \in held) = 0 /\ One(o \in values) = 0
    BY DEF Init, One
  <2> QED BY <2>1, <2>2, <2>3, FS_EmptySet
<1>6. ASSUME NEW i PROVE Cardinality(Vhashes(i)) = 0 /\ Gone(i) = 0
  <2>1. Vhashes(i) = {}
    BY DEF Init, Vhashes, Under
  <2> QED BY <2>1, FS_EmptySet DEF Init, One, Gone
<1>3. \A n \in Node : rc[n] = 0
  BY DEF Init
<1>4. ObjectsCounted
  BY <1>1, <1>2, <1>3, Apartness DEF ObjectsCounted
<1>5. IndexCounted
  BY <1>1, <1>3, <1>6, Apartness DEF IndexCounted
<1> QED BY <1>4, <1>5

LEMMA EvenStep ==
  ASSUME Shape, Shape', ObjectsCounted, IndexCounted, LifeCounted, RefUnder, ObjectHooked, Step
  PROVE  \A n \in Node : Balanced(n)
BY EvenDec, EvenFreed, EvenDecAll, EvenRunAction, EvenDelSlookup, EvenDelFlookup, EvenDelRlookup,
   EvenDelAttrhash, EvenDelFromVhash, EvenVhashCheck, EvenEncapDestroyHook, EvenKEncapCleanup,
   EvenEncapAttrDestroyHook, EvenAttrDestroyTrigger, EvenDelAttrLookup, EvenEachValue,
   EvenDelFromAttrhash, EvenKaEnd, EvenPurgeBegin, EvenForeach, EvenPurgeEnd, EvenDestroyAttrs,
   EvenDestroyAttr, EvenPushValue, EvenDestroyKeys, EvenDestroyValues DEF Step

LEMMA CountsStep ==
  ASSUME Shape, Shape', ObjectsCounted, IndexCounted, LifeCounted, RefUnder, ObjectHooked, Step
  PROVE  ObjectsCounted' /\ IndexCounted'
BY EvenStep, BalancedCounts

LEMMA CountsOperation ==
  ASSUME Shape, Shape', ObjectsCounted, IndexCounted, LifeCounted, WeakLive, UnderHas, FreeClean,
         RefUnder, ForwardHooked, ObjectHooked, Operation
  PROVE  ObjectsCounted' /\ IndexCounted'
<1>1. CASE Destroy
  BY <1>1, EvenDestroy, BalancedCounts
<1>2. ASSUME NEW o \in Object, New(o) \/ Drop(o) \/ Purge(o)
      PROVE  ObjectsCounted' /\ IndexCounted'
  BY <1>2, EvenNew, EvenDrop, EvenPurge, BalancedCounts
<1>3. ASSUME NEW k \in Key, FetchSk(k) \/ UnlinkSk(k) \/ PurgeBySk(k)
      PROVE  ObjectsCounted' /\ IndexCounted'
  <2>1. \A n \in Node : Balanced(n)
    BY <1>3, EvenFetch, EvenUnlinkSk, EvenPurgeBySk
  <2> QED BY <2>1, BalancedCounts
<1>4. ASSUME NEW k \in Key, NEW v \in Object, NEW sv \in BOOLEAN, NEW sk \in BOOLEAN, StoreSk(k, v, sv, sk)
      PROVE  ObjectsCounted' /\ IndexCounted'
  BY <1>4, EvenStoreSk, BalancedCounts
<1>5. ASSUME NEW a \in Attr, FetchA(a) \/ UnlinkA(a) \/ PurgeByA(a)
      PROVE  ObjectsCounted' /\ IndexCounted'
  <2>1. \A n \in Node : Balanced(n)
    BY <1>5, EvenFetch, EvenUnlinkA, EvenPurgeByA
  <2> QED BY <2>1, BalancedCounts
<1>6. ASSUME NEW a \in Attr, NEW v \in Object, DissocA(a, v)
      PROVE  ObjectsCounted' /\ IndexCounted'
  BY <1>6, EvenDissocA, BalancedCounts
<1>7. ASSUME NEW a \in Attr, NEW v \in Object, NEW sv \in BOOLEAN, NEW sa \in BOOLEAN, StoreA(a, v, sv, sa)
      PROVE  ObjectsCounted' /\ IndexCounted'
  BY <1>7, EvenStoreA, BalancedCounts
<1> QED BY <1>1, <1>2, <1>3, <1>4, <1>5, <1>6, <1>7 DEF Operation

LEMMA CountsStutter ==
  ASSUME Shape, Shape', ObjectsCounted, IndexCounted, UNCHANGED vars
  PROVE  ObjectsCounted' /\ IndexCounted'
<1>1. UNCHANGED <<held, values, flookup, attrhash, obj, iter, rlookup, rc, todo>>
  BY DEF vars, heap, tables, blobs, loops
<1>2. \A n \in Node : Firm(n)' = Firm(n)
  BY <1>1, Frame, FirmSame
<1>3. \A n \in Node : Balanced(n)
  BY <1>1, <1>2 DEF Balanced
<1> QED BY <1>3, BalancedCounts

=============================================================================
