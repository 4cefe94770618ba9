--------------------------- MODULE SweepingProofs ---------------------------
(***************************************************************************)
(* Type correctness and the safety properties of Sweeping, for any number  *)
(* of objects, of keys and attributes made from strings or from objects,   *)
(* whatever dies and whichever addresses are used again.                   *)
(*                                                                         *)
(* The invariant holds in the midst of a sweep too: what the program has   *)
(* stored, but under an orphan, and not removed is wired from both sides   *)
(* (KeysWired, AttrsWired), and what is in a vhash is found by a lookup or *)
(* is still to be visited by the loop that takes it out (Placed).  Every   *)
(* operation and every step of sweep computes a table s and then lets die  *)
(* what nothing refers to: each lemma shows that s is Ready and Placed,    *)
(* and Settles the rest.                                                   *)
(***************************************************************************)
EXTENDS Sweeping, TLAPS

\* What dies takes nothing else out of the table's types.

LEMMA UnreferencedType ==
  ASSUME NEW s \in Table PROVE Unreferenced(s) \in Table
<1>1. [k \in Key |-> IF k \in Gone(s) THEN Cleared(s.slookup[k]) ELSE s.slookup[k]]
        \in [Key -> Lookups]
  BY DEF Table, Cleared, Lookups
<1>2. [a \in Attr |-> IF a \in Gone(s) THEN Cleared(s.attr_lookup[a]) ELSE s.attr_lookup[a]]
        \in [Attr -> Lookups]
  BY DEF Table, Cleared, Lookups
<1>3. [i \in Index |-> IF i \in Gone(s) THEN "none" ELSE s.ref[i]]
        \in [Index -> Entry \cup {"text"}]
  BY DEF Table, Entry
<1>4. [k \in Key |-> IF k \in Gone(s) THEN Null ELSE s.vaddr[k]] \in [Key -> Object \cup {Null}]
  BY DEF Table
<1>5. [a \in Attr |-> [v \in Object |-> IF a \in Gone(s) THEN "none" ELSE s.attrhash[a][v]]]
        \in [Attr -> [Object -> Entry]]
  BY DEF Table, Entry
<1> QED
  BY <1>1, <1>2, <1>3, <1>4, <1>5 DEF Unreferenced, Table

LEMMA WithoutDeadType ==
  ASSUME NEW s \in Table PROVE WithoutDead(s) \in Table
<1> DEFINE F == [k \in Key |-> IF s.forward[k].value \in Dead(s)
                  THEN [mode |-> Cleared(s.forward[k].mode), value |-> s.forward[k].value]
                  ELSE s.forward[k]]
<1>1. F \in [Key -> [mode : Entry, value : Object \cup {Null}]]
  <2>1. \A k \in Key : /\ s.forward[k] \in [mode : Entry, value : Object \cup {Null}]
                       /\ Cleared(s.forward[k].mode) \in Entry
                       /\ s.forward[k].value \in Object \cup {Null}
    BY DEF Table, Cleared, Entry, Ref
  <2> QED BY <2>1
<1>2. [a \in Attr |-> [v \in Object |->
         IF v \in Dead(s) THEN Cleared(s.attrhash[a][v]) ELSE s.attrhash[a][v]]]
        \in [Attr -> [Object -> Entry]]
  BY DEF Table, Cleared, Entry, Ref
<1>3. [i \in Index |-> IF ObjectsOf(i) \cap Dead(s) # {} THEN Cleared(s.ref[i]) ELSE s.ref[i]]
        \in [Index -> Entry \cup {"text"}]
  BY DEF Table, Cleared, Entry, Ref
<1>4. s.live \ Dead(s) \in SUBSET Object
  BY DEF Table
<1> QED
  BY <1>1, <1>2, <1>3, <1>4 DEF WithoutDead, Table

\* What the loss of key and attribute objects, and of objects, leaves as it was.
LEMMA UnreferencedFields ==
  ASSUME NEW s \in Table, NEW r, r = Unreferenced(s)
  PROVE  /\ r.live = s.live /\ r.held = s.held /\ r.forward = s.forward /\ r.reverse = s.reverse
         /\ \A k \in Key : k \notin Gone(s) =>
              r.slookup[k] = s.slookup[k] /\ r.vaddr[k] = s.vaddr[k]
         /\ \A a \in Attr :
              r.attr_lookup[a] = "weak" <=> s.attr_lookup[a] = "weak" /\ a \notin Gone(s)
         /\ \A i \in Index : r.ref[i] = IF i \in Gone(s) THEN "none" ELSE s.ref[i]
         /\ \A a \in Attr, v \in Object :
              r.attrhash[a][v] = IF a \in Gone(s) THEN "none" ELSE s.attrhash[a][v]
BY DEF Unreferenced, Table, Cleared, Lookups

LEMMA WithoutDeadFields ==
  ASSUME NEW s \in Table, NEW r, r = WithoutDead(s)
  PROVE  /\ r.live = s.live \ Dead(s)
         /\ r.held = s.held /\ r.slookup = s.slookup /\ r.reverse = s.reverse
         /\ r.attr_lookup = s.attr_lookup /\ r.vaddr = s.vaddr
         /\ \A k \in Key : r.forward[k].value = s.forward[k].value
         /\ \A k \in Key : r.forward[k].mode =
              IF s.forward[k].value \in Dead(s) THEN Cleared(s.forward[k].mode)
              ELSE s.forward[k].mode
         /\ \A i \in Index : r.ref[i] =
              IF ObjectsOf(i) \cap Dead(s) # {} THEN Cleared(s.ref[i]) ELSE s.ref[i]
         /\ \A a \in Attr, v \in Object : r.attrhash[a][v] =
              IF v \in Dead(s) THEN Cleared(s.attrhash[a][v]) ELSE s.attrhash[a][v]
BY DEF WithoutDead, Table

-----------------------------------------------------------------------------
\* i is in the vhash of v.
In(s, i, v) == s.reverse[v] # Null /\ i \in s.reverse[v]

\* A reference that is not cleared leads to an object.
Alive(s) ==
  /\ s.held \subseteq s.live
  /\ \A k \in Key : s.forward[k].mode \in Ref => s.forward[k].value \in s.live
  /\ \A a \in Attr, v \in Object : s.attrhash[a][v] \in Ref => v \in s.live
  /\ \A i \in Index : s.ref[i] \in Ref => ObjectsOf(i) \subseteq s.live

\* Key and attribute objects have their HR_KFLD_REFSCALAR for as long as they exist.
Made(s) ==
  /\ \A i \in Index : s.ref[i] = "text" => ObjectsOf(i) = {}
  /\ \A i \in Index, v \in Object : In(s, i, v) => s.ref[i] # "none"
  /\ \A a \in Attr, v \in Object : s.attrhash[a][v] \in Ref => s.ref[a] # "none"

\* An attribute that is no orphan has the entries that are bound, each known to its
\* value's vhash.
AttrsWired(s, b, d) ==
  \A a \in Attr, v \in Object :
    /\ Of(a, v) \in b \ d => s.attrhash[a][v] \in Ref /\ s.ref[a] # "undef"
    /\ s.attrhash[a][v] \in Ref /\ s.ref[a] # "undef" =>
         Of(a, v) \in b /\ In(s, a, v) /\ s.attr_lookup[a] = "weak"

\* A bound key is in all the hashes, and no orphan.
KeysWired(s, b, d) ==
  \A k \in Key, v \in Object : Of(k, v) \in b \ d =>
    /\ s.slookup[k] = "weak" /\ s.vaddr[k] = v /\ In(s, k, v)
    /\ s.forward[k].mode \in Ref /\ s.forward[k].value = v
    /\ s.ref[k] # "undef"

\* A table from which whatever nothing refers to may die.
Ready(s, b, d) ==
  /\ s \in Table /\ b \subseteq [index : Index, value : Object]
  /\ Alive(s) /\ Made(s) /\ AttrsWired(s, b, d) /\ KeysWired(s, b, d)

\* A key or attribute object that is in no vhash has left nothing behind.
Emptied(s) ==
  \A i \in Index : (\A v \in Object : ~In(s, i, v)) =>
    s.ref[i] = "none" /\ (i \in Attr => \A v \in Object : s.attrhash[i][v] = "none")

\* ukey2ikey and attr_get find i; is_valid is false of it.
Found(s, i) == IF i \in Key THEN s.slookup[i] = "weak" ELSE s.attr_lookup[i] = "weak"

Invalid(s, i) == IF i \in Key THEN s.forward[i].mode = "none" ELSE s.attr_lookup[i] = "none"

\* What a vhash holds is found, or sweep has yet to take it out.
Placed(s, p, l) ==
  \A i \in Index, v \in Object : In(s, i, v) =>
    \/ Found(s, i)
    \/ p # "idle" /\ (p = "values" => v \in l) /\ Invalid(s, i)

Reached == \A i \in Index : Found(t, i) => \E v \in Object : In(t, i, v)

IInv == TypeOK /\ Ready(t, bound, doomed) /\ Emptied(t) /\ Placed(t, phase, left) /\ Reached

\* Deaths, and the deaths they bring, keep the table ready.
LEMMA Settling ==
  ASSUME NEW STATE s, NEW STATE b, NEW STATE d, Ready(s, b, d), Becomes(s, b, d)
  PROVE  /\ Ready(t, bound, doomed)' /\ Emptied(t)'
         /\ t'.held = s.held /\ doomed' \subseteq bound'
<1> DEFINE r == Unreferenced(s)
<1>1. s \in Table /\ r \in Table /\ WithoutDead(r) \in Table
  BY UnreferencedType, WithoutDeadType DEF Ready
<1>2. t' = WithoutDead(r)
  BY DEF Becomes, Settled
<1>3. /\ bound' = {e \in b : {e.value} \cup ObjectsOf(e.index) \subseteq t'.live}
      /\ doomed' = d \cap bound'
  BY DEF Becomes
<1>4. \A e : e \in bound' \ doomed' =>
        e \in b \ d /\ e.value \in t'.live /\ ObjectsOf(e.index) \subseteq t'.live
  BY <1>3
<1>5. /\ r.live = s.live /\ r.held = s.held /\ r.forward = s.forward /\ r.reverse = s.reverse
      /\ \A k \in Key : k \notin Gone(s) => r.slookup[k] = s.slookup[k] /\ r.vaddr[k] = s.vaddr[k]
      /\ \A a \in Attr : r.attr_lookup[a] = "weak" <=> s.attr_lookup[a] = "weak" /\ a \notin Gone(s)
      /\ \A i \in Index : r.ref[i] = IF i \in Gone(s) THEN "none" ELSE s.ref[i]
      /\ \A a \in Attr, v \in Object :
           r.attrhash[a][v] = IF a \in Gone(s) THEN "none" ELSE s.attrhash[a][v]
  BY <1>1, UnreferencedFields
<1> HIDE DEF r
<1>6. /\ t'.live = r.live \ Dead(r)
      /\ t'.held = r.held /\ t'.slookup = r.slookup /\ t'.reverse = r.reverse
      /\ t'.attr_lookup = r.attr_lookup /\ t'.vaddr = r.vaddr
      /\ \A k \in Key : t'.forward[k].value = r.forward[k].value
      /\ \A k \in Key : t'.forward[k].mode =
           IF r.forward[k].value \in Dead(r) THEN Cleared(r.forward[k].mode) ELSE r.forward[k].mode
      /\ \A i \in Index : t'.ref[i] =
           IF ObjectsOf(i) \cap Dead(r) # {} THEN Cleared(r.ref[i]) ELSE r.ref[i]
      /\ \A a \in Attr, v \in Object : t'.attrhash[a][v] =
           IF v \in Dead(r) THEN Cleared(r.attrhash[a][v]) ELSE r.attrhash[a][v]
  BY <1>1, <1>2, WithoutDeadFields
<1>7. t'.held = s.held /\ t' \in Table
  BY <1>1, <1>2, <1>5, <1>6
<1>8. \A i \in Index : i \notin Gone(s) <=> \E v \in Object : In(s, i, v)
  BY DEF Gone, In
<1>9. \A i \in Index, v \in Object : In(t', i, v) <=> In(s, i, v)
  BY <1>5, <1>6 DEF In
<1>10. Alive(t')
  <2>1. t'.held \subseteq t'.live
    BY <1>5, <1>6 DEF Ready, Alive, Dead, Kept
  <2>2. ASSUME NEW k \in Key, t'.forward[k].mode \in Ref
        PROVE  t'.forward[k].value \in t'.live
    <3>1. s.forward[k] \in [mode : Entry, value : Object \cup {Null}]
      BY <1>1 DEF Table
    <3>2. s.forward[k].value \in s.live
      BY <2>2, <1>5, <1>6 DEF Ready, Alive, Cleared, Ref
    <3>3. CASE s.forward[k].value \in Dead(r)
      <4>1. s.forward[k].mode = "strong"
        BY <2>2, <3>3, <1>5, <1>6 DEF Cleared, Ref
      <4>2. s.forward[k] = [mode |-> "strong", value |-> s.forward[k].value]
        BY <4>1, <3>1
      <4> QED BY <4>2, <3>3, <1>5 DEF Dead, Kept
    <3> QED BY <3>2, <3>3, <1>5, <1>6
  <2>3. ASSUME NEW a \in Attr, NEW v \in Object, t'.attrhash[a][v] \in Ref
        PROVE  v \in t'.live
    <3>1. v \in s.live /\ r.attrhash[a][v] \in Ref
      BY <2>3, <1>5, <1>6 DEF Ready, Alive, Cleared, Ref
    <3>2. CASE v \in Dead(r)
      <4>1. r.attrhash[a][v] = "strong"
        BY <2>3, <3>2, <1>6 DEF Cleared, Ref
      <4> QED BY <4>1, <3>2 DEF Dead, Kept
    <3> QED BY <3>1, <3>2, <1>5, <1>6
  <2>4. ASSUME NEW i \in Index, t'.ref[i] \in Ref
        PROVE  ObjectsOf(i) \subseteq t'.live
    <3>1. s.ref[i] \in Ref /\ r.ref[i] = s.ref[i]
      BY <2>4, <1>5, <1>6 DEF Cleared, Ref
    <3>2. ObjectsOf(i) \subseteq s.live
      BY <3>1 DEF Ready, Alive
    <3>3. ASSUME NEW o \in ObjectsOf(i), o \in Dead(r)
          PROVE  FALSE
      <4>1. r.ref[i] = "strong"
        BY <2>4, <3>1, <3>3, <1>6 DEF Cleared, Ref
      <4> QED BY <4>1, <3>3 DEF Dead, Kept
    <3> QED BY <3>2, <3>3, <1>5, <1>6
  <2> QED BY <2>1, <2>2, <2>3, <2>4 DEF Alive
<1>11. \A a \in Attr, v \in Object :
        t'.attrhash[a][v] \in Ref => s.attrhash[a][v] \in Ref /\ a \notin Gone(s)
  BY <1>5, <1>6 DEF Cleared, Ref
<1>12. Made(t')
  <2>1. ASSUME NEW i \in Index, t'.ref[i] = "text"
        PROVE  ObjectsOf(i) = {}
    <3>1. s.ref[i] = "text"
      BY <2>1, <1>5, <1>6 DEF Cleared
    <3> QED BY <3>1 DEF Ready, Made
  <2>2. \A i \in Index : i \notin Gone(s) /\ s.ref[i] # "none" => t'.ref[i] # "none"
    BY <1>5, <1>6 DEF Cleared
  <2>3. \A i \in Index, v \in Object : In(t', i, v) => t'.ref[i] # "none"
    BY <2>2, <1>8, <1>9 DEF Ready, Made
  <2>4. \A a \in Attr, v \in Object : t'.attrhash[a][v] \in Ref => t'.ref[a] # "none"
    BY <2>2, <1>11 DEF Ready, Made, Index
  <2> QED BY <2>1, <2>3, <2>4 DEF Made
<1>13. AttrsWired(t', bound', doomed')
  <2>1. SUFFICES ASSUME NEW a \in Attr, NEW v \in Object
        PROVE  /\ Of(a, v) \in bound' \ doomed' => t'.attrhash[a][v] \in Ref /\ t'.ref[a] # "undef"
               /\ t'.attrhash[a][v] \in Ref /\ t'.ref[a] # "undef" =>
                    Of(a, v) \in bound' /\ In(t', a, v) /\ t'.attr_lookup[a] = "weak"
    BY DEF AttrsWired
  <2>2. /\ Of(a, v) \in b \ d => s.attrhash[a][v] \in Ref /\ s.ref[a] # "undef"
        /\ s.attrhash[a][v] \in Ref /\ s.ref[a] # "undef" =>
             Of(a, v) \in b /\ In(s, a, v) /\ s.attr_lookup[a] = "weak"
    BY DEF Ready, AttrsWired
  <2>3. a \in Index /\ Of(a, v).index = a /\ Of(a, v).value = v
    BY DEF Index, Of
  <2>4. ASSUME Of(a, v) \in bound' \ doomed'
        PROVE  t'.attrhash[a][v] \in Ref /\ t'.ref[a] # "undef"
    <3>1. Of(a, v) \in b \ d /\ v \in t'.live /\ ObjectsOf(a) \subseteq t'.live
      BY <2>3, <2>4, <1>4
    <3>2. a \notin Gone(s)
      BY <2>2, <2>3, <3>1, <1>8
    <3>3. v \notin Dead(r) /\ ObjectsOf(a) \cap Dead(r) = {}
      BY <3>1, <1>6
    <3> QED BY <2>2, <2>3, <3>1, <3>2, <3>3, <1>5, <1>6
  <2>5. ASSUME t'.attrhash[a][v] \in Ref, t'.ref[a] # "undef"
        PROVE  Of(a, v) \in bound' /\ In(t', a, v) /\ t'.attr_lookup[a] = "weak"
    <3>1. s.attrhash[a][v] \in Ref /\ a \notin Gone(s)
      BY <2>5, <1>11
    <3>2. s.ref[a] # "undef"
      BY <2>3, <2>5, <3>1, <1>5, <1>6 DEF Cleared
    <3>3. v \in t'.live
      BY <2>5, <1>10 DEF Alive
    <3>4. ObjectsOf(a) \subseteq t'.live
      <4>1. t'.ref[a] \in Ref \cup {"text"}
        BY <2>3, <2>5, <1>7, <1>12 DEF Made, Table, Entry
      <4> QED BY <2>3, <4>1, <1>10, <1>12 DEF Alive, Made
    <3>5. Of(a, v) \in bound'
      BY <2>2, <2>3, <3>1, <3>2, <3>3, <3>4, <1>3
    <3> QED BY <2>2, <2>3, <3>1, <3>2, <3>5, <1>5, <1>6, <1>9
  <2> QED BY <2>4, <2>5
<1>14. KeysWired(t', bound', doomed')
  <2>1. SUFFICES ASSUME NEW k \in Key, NEW v \in Object, Of(k, v) \in bound' \ doomed'
        PROVE  /\ t'.slookup[k] = "weak" /\ t'.vaddr[k] = v /\ In(t', k, v)
               /\ t'.forward[k].mode \in Ref /\ t'.forward[k].value = v
               /\ t'.ref[k] # "undef"
    BY DEF KeysWired
  <2>2. k \in Index /\ Of(k, v).index = k /\ Of(k, v).value = v
    BY DEF Index, Of
  <2>3. Of(k, v) \in b \ d /\ v \in t'.live /\ ObjectsOf(k) \subseteq t'.live
    BY <2>1, <2>2, <1>4
  <2>4. /\ s.slookup[k] = "weak" /\ s.vaddr[k] = v /\ In(s, k, v)
        /\ s.forward[k].mode \in Ref /\ s.forward[k].value = v
        /\ s.ref[k] # "undef"
    BY <2>3 DEF Ready, KeysWired
  <2>5. k \notin Gone(s)
    BY <2>2, <2>4, <1>8
  <2>6. v \notin Dead(r) /\ ObjectsOf(k) \cap Dead(r) = {}
    BY <2>3, <1>6
  <2> QED BY <2>2, <2>4, <2>5, <2>6, <1>5, <1>6, <1>9
<1>15. Emptied(t')
  <2>1. ASSUME NEW i \in Index, \A v \in Object : ~In(t', i, v)
        PROVE  t'.ref[i] = "none" /\ (i \in Attr => \A v \in Object : t'.attrhash[i][v] = "none")
    <3>1. i \in Gone(s)
      BY <2>1, <1>8, <1>9
    <3> QED BY <3>1, <1>5, <1>6 DEF Cleared
  <2> QED BY <2>1 DEF Emptied
<1>16. doomed' \subseteq bound' /\ bound' \subseteq [index : Index, value : Object]
  BY <1>3 DEF Ready
<1> QED
  BY <1>7, <1>10, <1>12, <1>13, <1>14, <1>15, <1>16 DEF Ready

-----------------------------------------------------------------------------
\* They keep what is in the vhashes found, and what is found in a vhash.
LEMMA SettlesPlaced ==
  ASSUME NEW STATE s, NEW STATE b, NEW STATE d, s \in Table, Becomes(s, b, d),
         Placed(s, phase, left'), UNCHANGED phase
  PROVE  Placed(t, phase, left)' /\ Reached'
<1> DEFINE r == Unreferenced(s)
<1>1. s \in Table /\ r \in Table /\ t' = WithoutDead(r)
  BY UnreferencedType DEF Becomes, Settled
<1>2. /\ r.reverse = s.reverse /\ r.forward = s.forward
      /\ \A k \in Key : k \notin Gone(s) => r.slookup[k] = s.slookup[k]
      /\ \A k \in Key : r.slookup[k] = "weak" => k \notin Gone(s)
      /\ \A a \in Attr : a \notin Gone(s) => r.attr_lookup[a] = s.attr_lookup[a]
      /\ \A a \in Attr : r.attr_lookup[a] = "weak" => a \notin Gone(s)
  BY DEF Unreferenced, Table, Cleared, Lookups
<1> HIDE DEF r
<1>3. /\ t'.reverse = r.reverse /\ t'.slookup = r.slookup /\ t'.attr_lookup = r.attr_lookup
      /\ \A k \in Key : r.forward[k].mode = "none" => t'.forward[k].mode = "none"
  BY <1>1, WithoutDeadFields DEF Cleared
<1>4. \A i \in Index : i \notin Gone(s) <=> \E v \in Object : In(s, i, v)
  BY DEF Gone, In
<1>5. \A i, v : In(t, i, v)' <=> In(s, i, v)
  BY <1>2, <1>3 DEF In
<1>6. ASSUME NEW i \in Index, i \notin Gone(s)
      PROVE  (Found(s, i) => Found(t, i)') /\ (Invalid(s, i) => Invalid(t, i)')
  BY <1>2, <1>3, <1>6 DEF Found, Invalid, Index
<1>7. \A i \in Index : Found(t, i)' => i \notin Gone(s)
  BY <1>2, <1>3 DEF Found, Index
<1>8. Placed(t, phase, left)'
  BY <1>4, <1>5, <1>6 DEF Placed
<1>9. Reached'
  BY <1>4, <1>5, <1>7 DEF Reached
<1> QED BY <1>8, <1>9

\* So an operation keeps the invariant when the table it computes is Ready and Placed.
LEMMA Settles ==
  ASSUME NEW STATE s, NEW STATE b, NEW STATE d, IInv, Ready(s, b, d), Becomes(s, b, d),
         Placed(s, phase, left'), UNCHANGED phase
  PROVE  IInv'
<1>0. Placed(t, phase, left)' /\ Reached'
  BY SettlesPlaced DEF Ready
<1>1. Ready(t, bound, doomed)' /\ Emptied(t)' /\ doomed' \subseteq bound'
  BY Settling
<1>2. TypeOK'
  BY <1>1 DEF Ready, Alive, TypeOK, IInv
<1> QED BY <1>0, <1>1, <1>2 DEF IInv

LEMMA IndexKinds ==
  /\ \A k \in Key : k \in Index
  /\ \A a \in Attr : a \in Index
  /\ \A k \in Key, a \in Attr : k # a
BY DEF Key, Attr, Index

LEMMA OfPairs ==
  \A i, j, v, w : /\ Of(i, v) = Of(j, w) <=> i = j /\ v = w
                  /\ Of(i, v).index = i /\ Of(i, v).value = v
BY DEF Of

Linked(s, i, v) ==
  \A w \in Object : s.reverse[w] = IF w = v THEN Under(v) \cup {i} ELSE t.reverse[w]

\* Putting i into the vhash of v puts nothing else anywhere.
LEMMA Linking ==
  ASSUME NEW STATE s, s \in Table, t \in Table, NEW i \in Index, NEW v \in Object, Linked(s, i, v)
  PROVE  \A j \in Index, w \in Object : In(s, j, w) <=> (j = i /\ w = v) \/ In(t, j, w)
<1>1. Under(v) \subseteq Index
  BY DEF Under, Table
<1>2. Under(v) \cup {i} # Null
  BY <1>1, SweepingAssumption
<1>3. \A j \in Index : j \in Under(v) <=> In(t, j, v)
  BY DEF Under, In
<1> QED BY <1>2, <1>3 DEF In, Linked

\* Types of what the operations put into the table.
LEMMA LinkType ==
  ASSUME t \in Table, NEW i \in Index, NEW v \in Object
  PROVE  Under(v) \cup {i} \in (SUBSET Index) \cup {Null}
BY DEF Under, Table

LEMMA Modes ==
  \A strong \in BOOLEAN, i \in Index :
     Mode(strong) \in Ref /\ RefScalar(i, strong) \in Ref \cup {"text"}
BY DEF Mode, RefScalar, Ref

\* Taking what is in S out of the vhashes of V takes out nothing else.
Unlinks(s, V, S) ==
  \A w \in Object : s.reverse[w] = IF w \in V THEN Less(w, S) ELSE t.reverse[w]

LEMMA LessType ==
  ASSUME t \in Table, NEW v \in Object, NEW S
  PROVE  Less(v, S) \in (SUBSET Index) \cup {Null}
BY DEF Less, Under, Table

LEMMA Unlinking ==
  ASSUME NEW STATE s, t \in Table, NEW STATE V, NEW STATE S, Unlinks(s, V, S)
  PROVE  \A i \in Index, w \in Object : In(s, i, w) <=> In(t, i, w) /\ ~(w \in V /\ i \in S)
<1>1. ASSUME NEW i \in Index, NEW w \in Object, w \in V
      PROVE  In(s, i, w) <=> In(t, i, w) /\ i \notin S
  <2>1. Under(w) \subseteq Index /\ (i \in Under(w) <=> In(t, i, w))
    BY DEF Under, Table, In
  <2>2. s.reverse[w] = Less(w, S)
    BY <1>1 DEF Unlinks
  <2>3. CASE Under(w) \subseteq S
    BY <2>1, <2>2, <2>3 DEF Less, In
  <2>4. CASE ~(Under(w) \subseteq S)
    <3>1. s.reverse[w] = Under(w) \ S
      BY <2>2, <2>4 DEF Less
    <3>2. Under(w) \ S # Null
      BY <2>1, SweepingAssumption
    <3> QED BY <2>1, <3>1, <3>2 DEF In
  <2> QED BY <2>3, <2>4
<1>2. ASSUME NEW i \in Index, NEW w \in Object, w \notin V
      PROVE  In(s, i, w) <=> In(t, i, w)
  BY <1>2 DEF Unlinks, In
<1> QED BY <1>1, <1>2

\* What an operation that leaves the lookups of the keys alone has to show.
LEMMA KeysKept ==
  ASSUME IInv, NEW STATE s, NEW STATE b, NEW STATE d,
         s.live = t.live, s.slookup = t.slookup, s.vaddr = t.vaddr, s.forward = t.forward,
         \A k \in Key : s.ref[k] = t.ref[k],
         \A k \in Key, v \in Object : Of(k, v) \in b \ d =>
           Of(k, v) \in bound \ doomed /\ In(s, k, v)
  PROVE  KeysWired(s, b, d)
BY DEF IInv, Ready, KeysWired

\* And one that leaves those of the attributes alone.
LEMMA AttrsKept ==
  ASSUME IInv, NEW STATE s, NEW STATE b, NEW STATE d,
         s.attr_lookup = t.attr_lookup, s.attrhash = t.attrhash,
         \A a \in Attr : s.ref[a] = t.ref[a],
         \A a \in Attr, v \in Object : Of(a, v) \in b <=> Of(a, v) \in bound,
         \A a \in Attr, v \in Object : Of(a, v) \in d <=> Of(a, v) \in doomed,
         \A a \in Attr, v \in Object : In(t, a, v) => In(s, a, v)
  PROVE  AttrsWired(s, b, d)
BY DEF IInv, Ready, AttrsWired

\* Taking out of vhashes and out of attributes leaves what is there made.
LEMMA MadeKept ==
  ASSUME IInv, NEW STATE s,
         \A i \in Index : s.ref[i] = t.ref[i] \/ s.ref[i] = "undef",
         \A i \in Index, v \in Object : In(s, i, v) => In(t, i, v),
         \A a \in Attr, v \in Object : s.attrhash[a][v] \in Ref => t.attrhash[a][v] \in Ref
  PROVE  Made(s)
BY DEF IInv, Ready, Made, Index

\* Between sweeps an operation that puts nothing into a vhash keeps what is there found.
LEMMA PlacedKept ==
  ASSUME IInv, Idle, NEW STATE s, s.slookup = t.slookup, s.attr_lookup = t.attr_lookup,
         \A i \in Index, v \in Object : In(s, i, v) => In(t, i, v)
  PROVE  Placed(s, phase, left)
BY DEF IInv, Placed, Found, Idle

\* What the program takes hold of or lets go of changes nothing else.
LEMMA Holding ==
  ASSUME IInv, Idle, NEW STATE H, H \subseteq t.live
  PROVE  /\ Ready([t EXCEPT !.held = H], bound, doomed)
         /\ Placed([t EXCEPT !.held = H], phase, left)
<1> DEFINE s == [t EXCEPT !.held = H]
<1>1. s \in Table /\ s.live = t.live /\ s.held \subseteq t.live
  BY DEF IInv, Ready, Table
<1>2. /\ s.forward = t.forward /\ s.slookup = t.slookup /\ s.reverse = t.reverse
      /\ s.attr_lookup = t.attr_lookup /\ s.attrhash = t.attrhash
      /\ s.ref = t.ref /\ s.vaddr = t.vaddr
  BY DEF IInv, Ready, Table
<1> HIDE DEF s
<1>3. Ready(s, bound, doomed)
  BY <1>1, <1>2 DEF IInv, Ready, Alive, Made, AttrsWired, KeysWired, In
<1>4. Placed(s, phase, left)
  BY <1>2, PlacedKept DEF In
<1> QED BY <1>3, <1>4 DEF s

LEMMA DropKeeps ==
  ASSUME IInv, NEW o \in Object, Drop(o)
  PROVE  IInv'
<1>1. t.held \ {o} \subseteq t.live
  BY DEF IInv, Ready, Alive
<1> QED BY <1>1, Holding, Settles DEF Drop, Operation

LEMMA FetchSkKeeps ==
  ASSUME IInv, NEW k \in Key, FetchSk(k)
  PROVE  IInv'
<1>1. t.held \cup {t.forward[k].value} \subseteq t.live
  BY DEF FetchSk, IInv, Ready, Alive
<1> QED BY <1>1, Holding, Settles DEF FetchSk, Operation

LEMMA FetchAKeeps ==
  ASSUME IInv, NEW a \in Attr, FetchA(a)
  PROVE  IInv'
<1>1. t.held \cup {v \in Object : t.attrhash[a][v] \in Ref} \subseteq t.live
  BY DEF IInv, Ready, Alive
<1> QED BY <1>1, Holding, Settles DEF FetchA, Operation

\* The address of a dead object is used again, that of an orphan's too.
LEMMA NewKeeps ==
  ASSUME IInv, NEW o \in Object, New(o)
  PROVE  IInv'
<1>1. /\ t' \in Table /\ t'.live = t.live \cup {o} /\ t'.held = t.held \cup {o}
      /\ bound' = bound /\ doomed' = doomed /\ phase' = phase
  BY DEF New, IInv, Ready, Table
<1>2. /\ t'.forward = t.forward /\ t'.slookup = t.slookup /\ t'.reverse = t.reverse
      /\ t'.attr_lookup = t.attr_lookup /\ t'.attrhash = t.attrhash
      /\ t'.ref = t.ref /\ t'.vaddr = t.vaddr
  BY DEF New, IInv, Ready, Table
<1>3. KeysWired(t, bound, doomed)' /\ AttrsWired(t, bound, doomed)'
  BY <1>1, <1>2 DEF IInv, Ready, KeysWired, AttrsWired, In
<1>4. Alive(t)' /\ Made(t)' /\ Emptied(t)'
  BY <1>1, <1>2 DEF IInv, Ready, Alive, Made, Emptied, In
<1>5. TypeOK'
  BY <1>1 DEF IInv, TypeOK
<1>6. Placed(t, phase, left)' /\ Reached'
  BY <1>1, <1>2 DEF New, IInv, Placed, Reached, Found, Invalid, In
<1> QED BY <1>1, <1>3, <1>4, <1>5, <1>6 DEF IInv, Ready

\* What a lookup finds was made.
LEMMA FoundMade ==
  ASSUME IInv, NEW i \in Index, Found(t, i)
  PROVE  t.ref[i] # "none"
BY DEF IInv, Ready, Made, Reached

\* RefScalar is a reference to an object that is there, or text.
LEMMA RefScalars ==
  ASSUME NEW i \in Index, NEW strong \in BOOLEAN
  PROVE  /\ RefScalar(i, strong) \in Ref \cup {"text"}
         /\ RefScalar(i, strong) = "text" => ObjectsOf(i) = {}
BY DEF RefScalar, Mode, Ref

\* store_sk wires the key, whatever its key object was under before, but an orphan.
LEMMA StoreSkKeeps ==
  ASSUME IInv, NEW k \in Key, NEW v \in Object, NEW sv \in BOOLEAN,
         NEW sk \in BOOLEAN, StoreSk(k, v, sv, sk)
  PROVE  IInv'
<1> DEFINE s == [t EXCEPT
       !.slookup[k] = "weak",
       !.ref[k] = IF Ukey2ikey(k) THEN @ ELSE RefScalar(k, sk),
       !.reverse[v] = Under(v) \cup {k},
       !.forward[k] = [mode |-> Mode(sv), value |-> v],
       !.vaddr[k] = v]
           b == {e \in bound : e.index # k} \cup {Of(k, v)}
           d == IF Orphan(k) THEN doomed \cup {Of(k, v)} ELSE doomed \ {Of(k, v)}
<1>1. k \in Index
  BY IndexKinds
<1>2. /\ t \in Table /\ Under(v) \cup {k} \in (SUBSET Index) \cup {Null}
      /\ RefScalar(k, sk) \in Entry \cup {"text"}
      /\ [mode |-> Mode(sv), value |-> v] \in [mode : Entry, value : Object \cup {Null}]
      /\ "weak" \in Lookups
  BY <1>1, LinkType, Modes DEF IInv, Ready, Entry, Lookups
<1>3. /\ s \in Table /\ s.live = t.live /\ s.held = t.held
      /\ s.attr_lookup = t.attr_lookup /\ s.attrhash = t.attrhash
  BY <1>2, <1>1 DEF Table
<1>4. /\ \A j \in Key : s.slookup[j] = IF j = k THEN "weak" ELSE t.slookup[j]
      /\ \A j \in Key : s.vaddr[j] = IF j = k THEN v ELSE t.vaddr[j]
      /\ \A j \in Key :
           s.forward[j] = IF j = k THEN [mode |-> Mode(sv), value |-> v] ELSE t.forward[j]
      /\ \A w \in Object : s.reverse[w] = IF w = v THEN Under(v) \cup {k} ELSE t.reverse[w]
      /\ \A i \in Index : s.ref[i] = IF i = k /\ ~Ukey2ikey(k) THEN RefScalar(k, sk) ELSE t.ref[i]
  BY <1>2, <1>1 DEF Table
<1> HIDE DEF s
<1>5. \A j \in Index, w \in Object : In(s, j, w) <=> (j = k /\ w = v) \/ In(t, j, w)
  <2>1. Linked(s, k, v)
    BY <1>4 DEF Linked
  <2> QED BY <2>1, <1>2, <1>1, <1>3, Linking
<1>6. v \in t.live /\ ObjectsOf(k) \subseteq t.live /\ b \subseteq [index : Index, value : Object]
  BY <1>1 DEF StoreSk, Nameable, Of, IInv, Ready, Alive
<1>7. s.ref[k] # "none" /\ (s.ref[k] = "text" => ObjectsOf(k) = {})
  <2>1. Ukey2ikey(k) => Found(t, k)
    BY DEF Ukey2ikey, Found
  <2> QED BY <2>1, <1>1, <1>4, FoundMade, RefScalars DEF IInv, Ready, Made, Ref
<1>8. Alive(s)
  <2>1. \A i \in Index : s.ref[i] \in Ref => ObjectsOf(i) \subseteq s.live
    BY <1>3, <1>4, <1>6 DEF IInv, Ready, Alive
  <2> QED BY <2>1, <1>3, <1>4, <1>6 DEF IInv, Ready, Alive
<1>9. Made(s)
  <2>1. \A i \in Index : s.ref[i] = "text" => ObjectsOf(i) = {}
    BY <1>4, <1>7 DEF IInv, Ready, Made
  <2>2. \A i \in Index, w \in Object : In(s, i, w) => s.ref[i] # "none"
    BY <1>4, <1>5, <1>7 DEF IInv, Ready, Made
  <2>3. \A a \in Attr : s.ref[a] = t.ref[a]
    BY <1>4, IndexKinds
  <2> QED BY <2>1, <2>2, <2>3, <1>3 DEF IInv, Ready, Made
<1>10. AttrsWired(s, b, d)
  <2>1. ASSUME NEW a \in Attr
        PROVE  /\ s.ref[a] = t.ref[a] /\ a # k
               /\ \A w \in Object : Of(a, w) \in b <=> Of(a, w) \in bound
               /\ \A w \in Object : Of(a, w) \in d <=> Of(a, w) \in doomed
    BY <1>4, IndexKinds, OfPairs
  <2>2. \A a \in Attr, w \in Object : In(t, a, w) => In(s, a, w)
    BY <1>5, IndexKinds
  <2> HIDE DEF b, d
  <2> QED BY <2>1, <2>2, <1>3, AttrsKept
<1>11. KeysWired(s, b, d)
  <2>1. SUFFICES ASSUME NEW j \in Key, NEW w \in Object, Of(j, w) \in b \ d
        PROVE  /\ s.slookup[j] = "weak" /\ s.vaddr[j] = w /\ In(s, j, w)
               /\ s.forward[j].mode \in Ref /\ s.forward[j].value = w
               /\ s.ref[j] # "undef"
    BY DEF KeysWired
  <2>2. CASE j = k
    <3>1. w = v /\ ~Orphan(k)
      BY <2>1, <2>2, OfPairs
    <3>2. s.ref[k] # "undef"
      BY <1>1, <1>4, <3>1, RefScalars DEF Orphan, Ref
    <3> QED BY <2>2, <3>1, <3>2, <1>1, <1>4, <1>5, Modes
  <2>3. CASE j # k
    <3>1. Of(j, w) \in bound \ doomed
      BY <2>1, <2>3, OfPairs
    <3>2. j \in Index
      BY IndexKinds
    <3> QED BY <2>3, <3>1, <3>2, <1>4, <1>5 DEF IInv, Ready, KeysWired
  <2> QED BY <2>2, <2>3
<1>12. Ready(s, b, d)
  BY <1>3, <1>6, <1>8, <1>9, <1>10, <1>11 DEF Ready
<1>13. Placed(s, phase, left)
  <2>1. \A i \in Index : Found(t, i) => Found(s, i)
    BY <1>3, <1>4 DEF Found, Index
  <2>2. Found(s, k)
    BY <1>4 DEF Found
  <2> QED BY <1>5, <2>1, <2>2 DEF IInv, Placed, StoreSk, Store, Idle
<1>14. Becomes(s, b, d) /\ UNCHANGED <<phase, left>>
  BY OfPairs DEF StoreSk, Store, s
<1> HIDE DEF b, d
<1> QED BY <1>12, <1>13, <1>14, Settles

\* unlink_sk leaves forward alone, but what is in it is not bound any more.
LEMMA UnlinkSkKeeps ==
  ASSUME IInv, NEW k \in Key, UnlinkSk(k)
  PROVE  IInv'
<1> DEFINE v == t.forward[k].value
           s == [t EXCEPT !.reverse[v] = Less(v, {k})]
           b == {e \in bound : e.index # k}
<1>1. t \in Table /\ v \in Object
  BY DEF UnlinkSk, IInv, Ready, Alive, Table
<1> HIDE DEF v
<1>2. /\ s \in Table /\ s.live = t.live /\ s.held = t.held /\ s.attr_lookup = t.attr_lookup
      /\ s.attrhash = t.attrhash /\ s.forward = t.forward /\ s.slookup = t.slookup
      /\ s.vaddr = t.vaddr /\ s.ref = t.ref
  BY <1>1, LessType DEF Table
<1>3. Unlinks(s, {v}, {k})
  BY <1>1 DEF Unlinks, Table
<1> HIDE DEF s
<1>4. \A i \in Index, w \in Object : In(s, i, w) <=> In(t, i, w) /\ ~(w \in {v} /\ i \in {k})
  BY <1>1, <1>3, Unlinking
<1>5. Alive(s) /\ Made(s)
  BY <1>2, <1>4, MadeKept DEF IInv, Ready, Alive
<1>6. AttrsWired(s, b, doomed)
  <2>1. \A a \in Attr, w \in Object :
          (Of(a, w) \in b <=> Of(a, w) \in bound) /\ (In(t, a, w) => In(s, a, w))
    BY <1>4, IndexKinds, OfPairs
  <2> QED BY <2>1, <1>2, AttrsKept
<1>7. KeysWired(s, b, doomed)
  <2>1. ASSUME NEW j \in Key, NEW w \in Object, Of(j, w) \in b \ doomed
        PROVE  Of(j, w) \in bound \ doomed /\ In(s, j, w)
    <3>1. Of(j, w) \in bound \ doomed /\ j # k
      BY <2>1, OfPairs
    <3>2. In(t, j, w)
      BY <3>1 DEF IInv, Ready, KeysWired
    <3> QED BY <3>1, <3>2, <1>4, IndexKinds
  <2> QED BY <2>1, <1>2, KeysKept
<1>8. Ready(s, b, doomed)
  BY <1>2, <1>5, <1>6, <1>7 DEF IInv, Ready
<1>9. Placed(s, phase, left)
  BY <1>2, <1>4, PlacedKept DEF UnlinkSk, Operation
<1> QED BY <1>8, <1>9, Settles DEF UnlinkSk, Operation, s, v

\* Between sweeps an attribute that is not found is as it was before it was first stored.
LEMMA NotFound ==
  ASSUME IInv, Idle, NEW a \in Attr, ~AttrGet(a)
  PROVE  t.ref[a] = "none" /\ \A v \in Object : t.attrhash[a][v] = "none"
<1>1. a \in Index /\ ~Found(t, a)
  BY IndexKinds DEF AttrGet, Found
<1>2. \A v \in Object : ~In(t, a, v)
  BY <1>1 DEF IInv, Placed, Idle
<1> QED BY <1>1, <1>2 DEF IInv, Emptied

\* store_a wires the attribute, an entry left by a dead value included, but an orphan.
LEMMA StoreAKeeps ==
  ASSUME IInv, NEW a \in Attr, NEW v \in Object, NEW sv \in BOOLEAN,
         NEW sa \in BOOLEAN, StoreA(a, v, sv, sa)
  PROVE  IInv'
<1> DEFINE s == [t EXCEPT
       !.attr_lookup[a] = "weak",
       !.ref[a] = IF AttrGet(a) THEN @ ELSE RefScalar(a, sa),
       !.reverse[v] = Under(v) \cup {a},
       !.attrhash[a][v] = Mode(sv)]
           b == bound \cup {Of(a, v)}
           d == IF Orphan(a) THEN doomed \cup {Of(a, v)} ELSE doomed \ {Of(a, v)}
<1>1. /\ t \in Table /\ a \in Index /\ Under(v) \cup {a} \in (SUBSET Index) \cup {Null}
      /\ RefScalar(a, sa) \in Entry \cup {"text"} /\ Mode(sv) \in Ref /\ Mode(sv) \in Entry
      /\ "weak" \in Lookups
  BY IndexKinds, LinkType, Modes DEF IInv, Ready, Entry, Lookups
<1>2. /\ s \in Table /\ s.live = t.live /\ s.held = t.held /\ s.forward = t.forward
      /\ s.slookup = t.slookup /\ s.vaddr = t.vaddr
  BY <1>1 DEF Table
<1>3. /\ \A c \in Attr : s.attr_lookup[c] = IF c = a THEN "weak" ELSE t.attr_lookup[c]
      /\ \A c \in Attr, w \in Object :
           s.attrhash[c][w] = IF c = a /\ w = v THEN Mode(sv) ELSE t.attrhash[c][w]
      /\ \A i \in Index : s.ref[i] = IF i = a /\ ~AttrGet(a) THEN RefScalar(a, sa) ELSE t.ref[i]
  BY <1>1 DEF Table
<1>4. Linked(s, a, v)
  BY <1>1 DEF Linked, Table
<1> HIDE DEF s
<1>5. \A j \in Index, w \in Object : In(s, j, w) <=> (j = a /\ w = v) \/ In(t, j, w)
  BY <1>1, <1>2, <1>4, Linking
<1>6. v \in t.live /\ ObjectsOf(a) \subseteq t.live /\ b \subseteq [index : Index, value : Object]
  BY <1>1 DEF StoreA, Nameable, Of, IInv, Ready, Alive
<1>7. s.ref[a] # "none" /\ (s.ref[a] = "text" => ObjectsOf(a) = {})
  <2>1. AttrGet(a) => Found(t, a)
    BY IndexKinds DEF AttrGet, Found
  <2> QED BY <2>1, <1>1, <1>3, FoundMade, RefScalars DEF IInv, Ready, Made, Ref
<1>8. Alive(s)
  <2>1. \A i \in Index : s.ref[i] \in Ref => ObjectsOf(i) \subseteq s.live
    BY <1>2, <1>3, <1>6 DEF IInv, Ready, Alive
  <2>2. \A c \in Attr, w \in Object : s.attrhash[c][w] \in Ref => w \in s.live
    BY <1>2, <1>3, <1>6 DEF IInv, Ready, Alive
  <2> QED BY <2>1, <2>2, <1>2 DEF IInv, Ready, Alive
<1>9. Made(s)
  <2>1. \A i \in Index : s.ref[i] = "text" => ObjectsOf(i) = {}
    BY <1>3, <1>7 DEF IInv, Ready, Made
  <2>2. \A i \in Index, w \in Object : In(s, i, w) => s.ref[i] # "none"
    BY <1>3, <1>5, <1>7 DEF IInv, Ready, Made
  <2>3. \A c \in Attr, w \in Object : s.attrhash[c][w] \in Ref => s.ref[c] # "none"
    BY <1>3, <1>7, IndexKinds DEF IInv, Ready, Made
  <2> QED BY <2>1, <2>2, <2>3 DEF Made
<1>10. AttrsWired(s, b, d)
  <2>1. SUFFICES ASSUME NEW c \in Attr, NEW w \in Object
        PROVE  /\ Of(c, w) \in b \ d => s.attrhash[c][w] \in Ref /\ s.ref[c] # "undef"
               /\ s.attrhash[c][w] \in Ref /\ s.ref[c] # "undef" =>
                    Of(c, w) \in b /\ In(s, c, w) /\ s.attr_lookup[c] = "weak"
    BY DEF AttrsWired
  <2>2. c \in Index
    BY IndexKinds
  <2>3. CASE c = a /\ w = v
    <3>1. Of(c, w) \in b \ d => s.ref[a] # "undef"
      BY <2>3, <1>1, <1>3, RefScalars DEF Orphan, Ref
    <3> QED BY <2>3, <3>1, <1>1, <1>3, <1>5
  <2>4. CASE ~(c = a /\ w = v)
    <3>1. /\ Of(c, w) \in b <=> Of(c, w) \in bound
          /\ Of(c, w) \in b \ d <=> Of(c, w) \in bound \ doomed
      BY <2>4, OfPairs
    <3>2. /\ Of(c, w) \in bound \ doomed => t.attrhash[c][w] \in Ref /\ t.ref[c] # "undef"
          /\ t.attrhash[c][w] \in Ref /\ t.ref[c] # "undef" =>
               Of(c, w) \in bound /\ In(t, c, w) /\ t.attr_lookup[c] = "weak"
      BY DEF IInv, Ready, AttrsWired
    <3>3. s.attrhash[c][w] = t.attrhash[c][w] /\ (In(t, c, w) => In(s, c, w))
      BY <2>2, <2>4, <1>3, <1>5
    <3>4. t.attr_lookup[c] = "weak" => s.attr_lookup[c] = "weak"
      BY <1>3
    <3>5. t.attrhash[c][w] \in Ref => s.ref[c] = t.ref[c]
      BY <2>2, <1>3, NotFound DEF StoreA, Store, Ref
    <3> QED BY <3>1, <3>2, <3>3, <3>4, <3>5
  <2> QED BY <2>3, <2>4
<1>11. KeysWired(s, b, d)
  <2>1. ASSUME NEW k \in Key
        PROVE  s.ref[k] = t.ref[k]
    BY <1>3, IndexKinds
  <2>2. ASSUME NEW k \in Key, NEW w \in Object, Of(k, w) \in b \ d
        PROVE  Of(k, w) \in bound \ doomed /\ In(s, k, w)
    <3>1. Of(k, w) \in bound \ doomed
      BY <2>2, IndexKinds, OfPairs
    <3> QED BY <3>1, <1>5, IndexKinds DEF IInv, Ready, KeysWired
  <2> HIDE DEF b, d
  <2> QED BY <2>1, <2>2, <1>2, KeysKept
<1>12. Ready(s, b, d)
  BY <1>2, <1>6, <1>8, <1>9, <1>10, <1>11 DEF Ready
<1>13. Placed(s, phase, left)
  <2>1. \A i \in Index : Found(t, i) => Found(s, i)
    BY <1>2, <1>3 DEF Found, Index
  <2>2. Found(s, a)
    BY <1>3, IndexKinds DEF Found
  <2> QED BY <1>5, <2>1, <2>2 DEF IInv, Placed, StoreA, Store, Idle
<1>14. Becomes(s, b, d) /\ UNCHANGED <<phase, left>>
  BY OfPairs DEF StoreA, Store, s
<1> HIDE DEF b, d
<1> QED BY <1>12, <1>13, <1>14, Settles

\* What dissoc_a, unlink_a and purge have in common: values leave an attribute, whose
\* object may be let go with the last one.
LEMMA Leaving ==
  ASSUME IInv, NEW a \in Attr, NEW STATE V
  PROVE  /\ WithoutValues(a, V).hash \in [Object -> Entry]
         /\ \A v \in Object :
              WithoutValues(a, V).hash[v] = IF v \in V THEN "none" ELSE t.attrhash[a][v]
         /\ WithoutValues(a, V).ref \in Entry \cup {"text"}
         /\ \/ WithoutValues(a, V).ref = t.ref[a]
            \/ /\ WithoutValues(a, V).ref = "undef"
               /\ \A v \in Object : WithoutValues(a, V).hash[v] = "none"
<1>1. t \in Table /\ a \in Index
  BY IndexKinds DEF IInv, Ready
<1>2. t.ref[a] \in Entry \cup {"text"} /\ t.attrhash[a] \in [Object -> Entry]
  BY <1>1 DEF Table
<1> QED BY <1>2 DEF WithoutValues, Entry

LEMMA AttrsLeave ==
  ASSUME IInv, NEW STATE s, NEW STATE b, s.attr_lookup = t.attr_lookup,
         \A a \in Attr : \/ s.ref[a] = t.ref[a]
                         \/ s.ref[a] = "undef" /\ \A v \in Object : s.attrhash[a][v] = "none",
         \A a \in Attr, v \in Object : t.ref[a] # "undef" =>
           (s.attrhash[a][v] \in Ref <=> t.attrhash[a][v] \in Ref /\ Of(a, v) \in b),
         \A a \in Attr, v \in Object : Of(a, v) \in b =>
           Of(a, v) \in bound /\ (In(t, a, v) => In(s, a, v))
  PROVE  AttrsWired(s, b, doomed)
<1>1. SUFFICES ASSUME NEW a \in Attr, NEW v \in Object
      PROVE  /\ Of(a, v) \in b \ doomed => s.attrhash[a][v] \in Ref /\ s.ref[a] # "undef"
             /\ s.attrhash[a][v] \in Ref /\ s.ref[a] # "undef" =>
                  Of(a, v) \in b /\ In(s, a, v) /\ s.attr_lookup[a] = "weak"
  BY DEF AttrsWired
<1>2. /\ Of(a, v) \in bound \ doomed => t.attrhash[a][v] \in Ref /\ t.ref[a] # "undef"
      /\ t.attrhash[a][v] \in Ref /\ t.ref[a] # "undef" =>
           Of(a, v) \in bound /\ In(t, a, v) /\ t.attr_lookup[a] = "weak"
  BY DEF IInv, Ready, AttrsWired
<1>3. s.attrhash[a][v] \in Ref => s.ref[a] = t.ref[a] \/ s.ref[a] = "undef"
  OBVIOUS
<1>4. s.attrhash[a][v] \in Ref => s.ref[a] = t.ref[a]
  BY DEF Ref
<1> QED BY <1>2, <1>3, <1>4

\* dissoc_a.
LEMMA DissocAKeeps ==
  ASSUME IInv, NEW a \in Attr, NEW v \in Object, DissocA(a, v)
  PROVE  IInv'
<1> DEFINE w == WithoutValues(a, {v})
           s == [t EXCEPT !.attrhash[a] = w.hash, !.ref[a] = w.ref, !.reverse[v] = Less(v, {a})]
           b == bound \ {Of(a, v)}
<1>1. t \in Table /\ a \in Index
  BY IndexKinds DEF IInv, Ready
<1>2. /\ w.hash \in [Object -> Entry] /\ w.ref \in Entry \cup {"text"}
      /\ \A x \in Object : w.hash[x] = IF x = v THEN "none" ELSE t.attrhash[a][x]
      /\ w.ref = t.ref[a] \/ (w.ref = "undef" /\ \A x \in Object : w.hash[x] = "none")
  <2>1. /\ w.hash \in [Object -> Entry] /\ w.ref \in Entry \cup {"text"}
        /\ \A x \in Object : w.hash[x] = IF x \in {v} THEN "none" ELSE t.attrhash[a][x]
        /\ w.ref = t.ref[a] \/ (w.ref = "undef" /\ \A x \in Object : w.hash[x] = "none")
    BY Leaving
  <2> QED BY <2>1
<1> HIDE DEF w
<1>3. /\ s \in Table /\ s.live = t.live /\ s.held = t.held /\ s.forward = t.forward
      /\ s.slookup = t.slookup /\ s.vaddr = t.vaddr /\ s.attr_lookup = t.attr_lookup
  BY <1>1, <1>2, LessType DEF Table
<1>4. /\ \A i \in Index : s.ref[i] = IF i = a THEN w.ref ELSE t.ref[i]
      /\ \A c \in Attr, x \in Object :
           s.attrhash[c][x] = IF c = a THEN w.hash[x] ELSE t.attrhash[c][x]
  BY <1>1, <1>2 DEF Table
<1>5. Unlinks(s, {v}, {a})
  BY <1>1 DEF Unlinks, Table
<1> HIDE DEF s
<1>6. \A i \in Index, x \in Object : In(s, i, x) <=> In(t, i, x) /\ ~(x \in {v} /\ i \in {a})
  BY <1>1, <1>5, Unlinking
<1>7. \A c \in Attr, x \in Object :
        s.attrhash[c][x] \in Ref <=> t.attrhash[c][x] \in Ref /\ ~(c = a /\ x = v)
  BY <1>2, <1>4 DEF Ref
<1>8. Alive(s) /\ Made(s)
  <2>1. \A i \in Index : s.ref[i] = t.ref[i] \/ s.ref[i] = "undef"
    BY <1>2, <1>4
  <2>2. Alive(s)
    BY <2>1, <1>3, <1>7 DEF IInv, Ready, Alive, Ref
  <2> QED BY <2>1, <2>2, <1>6, <1>7, MadeKept
<1>9. AttrsWired(s, b, doomed)
  <2>1. \A c \in Attr, x \in Object :
          Of(c, x) \in b <=> Of(c, x) \in bound /\ ~(c = a /\ x = v)
    BY OfPairs
  <2>2. \A c \in Attr : \/ s.ref[c] = t.ref[c]
                        \/ s.ref[c] = "undef" /\ \A x \in Object : s.attrhash[c][x] = "none"
    BY <1>2, <1>4, IndexKinds
  <2>3. \A c \in Attr, x \in Object : t.ref[c] # "undef" =>
          (s.attrhash[c][x] \in Ref <=> t.attrhash[c][x] \in Ref /\ Of(c, x) \in b)
    BY <2>1, <1>7 DEF IInv, Ready, AttrsWired
  <2>4. \A c \in Attr, x \in Object : Of(c, x) \in b =>
          Of(c, x) \in bound /\ (In(t, c, x) => In(s, c, x))
    BY <2>1, <1>6, IndexKinds
  <2> HIDE DEF b
  <2> QED BY <2>2, <2>3, <2>4, <1>3, AttrsLeave
<1>10. KeysWired(s, b, doomed)
  <2>1. ASSUME NEW k \in Key, NEW x \in Object, Of(k, x) \in b \ doomed
        PROVE  Of(k, x) \in bound \ doomed /\ In(s, k, x)
    BY <2>1, <1>6, IndexKinds DEF IInv, Ready, KeysWired
  <2>2. \A k \in Key : s.ref[k] = t.ref[k]
    BY <1>4, IndexKinds
  <2> QED BY <2>1, <2>2, <1>3, KeysKept
<1>11. Ready(s, b, doomed)
  BY <1>3, <1>8, <1>9, <1>10 DEF IInv, Ready
<1>12. Placed(s, phase, left)
  BY <1>3, <1>6, PlacedKept DEF DissocA, Operation
<1> QED BY <1>11, <1>12, Settles DEF DissocA, Operation, s, w

\* unlink_a: the vhashes of dead values keep the attribute, which is not bound there.
LEMMA UnlinkAKeeps ==
  ASSUME IInv, NEW a \in Attr, UnlinkA(a)
  PROVE  IInv'
<1> DEFINE V == {v \in Object : t.attrhash[a][v] # "none"}
           L == {v \in Object : t.attrhash[a][v] \in Ref}
           w == WithoutValues(a, V)
           s == [t EXCEPT
             !.attrhash[a] = w.hash,
             !.ref[a] = IF V = {} THEN @ ELSE w.ref,
             !.reverse = [v \in Object |-> IF t.attrhash[a][v] \in Ref THEN Less(v, {a}) ELSE @[v]]]
           b == {e \in bound : e.index # a}
<1>1. t \in Table /\ a \in Index
  BY IndexKinds DEF IInv, Ready
<1> HIDE DEF V
<1>2. /\ w.hash \in [Object -> Entry] /\ w.ref \in Entry \cup {"text"}
      /\ \A x \in Object : w.hash[x] = "none"
      /\ w.ref = t.ref[a] \/ w.ref = "undef"
  <2>1. /\ w.hash \in [Object -> Entry] /\ w.ref \in Entry \cup {"text"}
        /\ \A x \in Object : w.hash[x] = IF x \in V THEN "none" ELSE t.attrhash[a][x]
        /\ w.ref = t.ref[a] \/ (w.ref = "undef" /\ \A x \in Object : w.hash[x] = "none")
    BY Leaving
  <2> QED BY <2>1 DEF V
<1> HIDE DEF w
<1>3. [v \in Object |-> IF t.attrhash[a][v] \in Ref THEN Less(v, {a}) ELSE t.reverse[v]]
        \in [Object -> (SUBSET Index) \cup {Null}]
  BY <1>1, LessType DEF Table
<1>4. /\ s \in Table /\ s.live = t.live /\ s.held = t.held /\ s.forward = t.forward
      /\ s.slookup = t.slookup /\ s.vaddr = t.vaddr /\ s.attr_lookup = t.attr_lookup
  BY <1>1, <1>2, <1>3 DEF Table
<1>5. /\ \A i \in Index : i # a => s.ref[i] = t.ref[i]
      /\ s.ref[a] = t.ref[a] \/ s.ref[a] = "undef"
      /\ \A c \in Attr, x \in Object : s.attrhash[c][x] = IF c = a THEN "none" ELSE t.attrhash[c][x]
  BY <1>1, <1>2 DEF Table
<1>6. Unlinks(s, L, {a})
  BY <1>1 DEF Unlinks, Table
<1> HIDE DEF s, L
<1>7. \A i \in Index, x \in Object : In(s, i, x) <=> In(t, i, x) /\ ~(x \in L /\ i \in {a})
  BY <1>1, <1>6, Unlinking
<1>8. Alive(s) /\ Made(s)
  <2>1. \A i \in Index : s.ref[i] = t.ref[i] \/ s.ref[i] = "undef"
    BY <1>5
  <2>2. \A c \in Attr, x \in Object : s.attrhash[c][x] \in Ref => t.attrhash[c][x] \in Ref
    BY <1>5 DEF Ref
  <2>3. Alive(s)
    BY <2>1, <2>2, <1>4 DEF IInv, Ready, Alive, Ref
  <2> QED BY <2>1, <2>2, <2>3, <1>7, MadeKept
<1>9. AttrsWired(s, b, doomed)
  <2>1. \A c \in Attr, x \in Object : Of(c, x) \in b <=> c # a /\ Of(c, x) \in bound
    BY OfPairs
  <2>2. \A c \in Attr : \/ s.ref[c] = t.ref[c]
                        \/ s.ref[c] = "undef" /\ \A x \in Object : s.attrhash[c][x] = "none"
    BY <1>5, IndexKinds
  <2>3. \A c \in Attr, x \in Object : t.ref[c] # "undef" =>
          (s.attrhash[c][x] \in Ref <=> t.attrhash[c][x] \in Ref /\ Of(c, x) \in b)
    BY <2>1, <1>5 DEF IInv, Ready, AttrsWired, Ref
  <2>4. \A c \in Attr, x \in Object : Of(c, x) \in b =>
          Of(c, x) \in bound /\ (In(t, c, x) => In(s, c, x))
    BY <2>1, <1>7, IndexKinds
  <2> HIDE DEF b
  <2> QED BY <2>2, <2>3, <2>4, <1>4, AttrsLeave
<1>10. KeysWired(s, b, doomed)
  <2>1. ASSUME NEW k \in Key, NEW x \in Object, Of(k, x) \in b \ doomed
        PROVE  Of(k, x) \in bound \ doomed /\ In(s, k, x)
    BY <2>1, <1>7, IndexKinds DEF IInv, Ready, KeysWired
  <2>2. \A k \in Key : s.ref[k] = t.ref[k]
    BY <1>5, IndexKinds
  <2> QED BY <2>1, <2>2, <1>4, KeysKept
<1>11. Ready(s, b, doomed)
  BY <1>4, <1>8, <1>9, <1>10 DEF IInv, Ready
<1>12. Placed(s, phase, left)
  BY <1>4, <1>7, PlacedKept DEF UnlinkA, Operation
<1> QED BY <1>11, <1>12, Settles DEF UnlinkA, Operation, s, w, V

\* purge tells the attributes that the vhash names: those are all that are bound.
LEMMA PurgeAllKeeps ==
  ASSUME IInv, NEW STATE V, V \subseteq Object, PurgeAll(V)
  PROVE  IInv'
<1> DEFINE s == Purged(V)
           b == {e \in bound : e.value \notin V}
           From(a) == {v \in V : a \in Under(v)}
           R == [v \in Object |-> IF v \in V THEN Null ELSE t.reverse[v]]
           H == [a \in Attr |-> IF From(a) = {} THEN t.attrhash[a]
                                               ELSE WithoutValues(a, From(a)).hash]
           F == [i \in Index |-> IF i \in Attr /\ From(i) # {} THEN WithoutValues(i, From(i)).ref
                                                             ELSE t.ref[i]]
<1>1. t \in Table
  BY DEF IInv, Ready
<1>2. s = [t EXCEPT !.reverse = R, !.attrhash = H, !.ref = F]
  BY <1>1 DEF Purged, Table
<1>3. ASSUME NEW a \in Attr
      PROVE  /\ H[a] \in [Object -> Entry] /\ F[a] \in Entry \cup {"text"}
             /\ \A v \in Object : H[a][v] = IF v \in From(a) THEN "none" ELSE t.attrhash[a][v]
             /\ F[a] = t.ref[a] \/ (F[a] = "undef" /\ \A v \in Object : H[a][v] = "none")
  <2> HIDE DEF From
  <2>1. /\ WithoutValues(a, From(a)).hash \in [Object -> Entry]
        /\ \A v \in Object : WithoutValues(a, From(a)).hash[v]
                            = IF v \in From(a) THEN "none" ELSE t.attrhash[a][v]
        /\ WithoutValues(a, From(a)).ref \in Entry \cup {"text"}
        /\ \/ WithoutValues(a, From(a)).ref = t.ref[a]
           \/ /\ WithoutValues(a, From(a)).ref = "undef"
              /\ \A v \in Object : WithoutValues(a, From(a)).hash[v] = "none"
    BY Leaving
  <2>2. t.attrhash[a] \in [Object -> Entry] /\ t.ref[a] \in Entry \cup {"text"} /\ a \in Index
    BY <1>1, IndexKinds DEF Table
  <2> QED BY <2>1, <2>2
<1>4. H \in [Attr -> [Object -> Entry]]
  <2>1. H = [a \in Attr |-> H[a]]
    OBVIOUS
  <2> HIDE DEF H
  <2> QED BY <2>1, <1>3
<1>5. F \in [Index -> Entry \cup {"text"}] /\ \A k \in Key : F[k] = t.ref[k]
  <2>1. \A k \in Key : F[k] = t.ref[k] /\ t.ref[k] \in Entry \cup {"text"}
    BY <1>1, IndexKinds DEF Table
  <2>2. F = [i \in Index |-> F[i]]
    OBVIOUS
  <2> HIDE DEF F
  <2> QED BY <2>1, <2>2, <1>3 DEF Index
<1>6. R \in [Object -> (SUBSET Index) \cup {Null}]
  BY <1>1 DEF Table
<1>7. \A i \in Index, v \in Object : R[v] # Null /\ i \in R[v] <=> In(t, i, v) /\ v \notin V
  BY DEF In
<1>8. \A a \in Attr, v \in Object :
        /\ H[a][v] \in Ref => t.attrhash[a][v] \in Ref
        /\ t.ref[a] # "undef" => (H[a][v] \in Ref <=> t.attrhash[a][v] \in Ref /\ v \notin V)
  <2>1. ASSUME NEW a \in Attr, NEW v \in Object, t.attrhash[a][v] \in Ref, t.ref[a] # "undef"
        PROVE  v \in From(a) <=> v \in V
    BY <2>1 DEF IInv, Ready, AttrsWired, In, Under
  <2>2. \A a \in Attr, v \in Object : v \in From(a) => v \in V
    OBVIOUS
  <2> HIDE DEF From, H
  <2> QED BY <2>1, <2>2, <1>3 DEF Ref
<1> HIDE DEF R, H, F
<1>9. /\ s \in Table /\ s.live = t.live /\ s.held = t.held /\ s.forward = t.forward
      /\ s.slookup = t.slookup /\ s.vaddr = t.vaddr /\ s.attr_lookup = t.attr_lookup
      /\ s.ref = F /\ s.reverse = R /\ s.attrhash = H
  BY <1>1, <1>2, <1>4, <1>5, <1>6 DEF Table
<1> HIDE DEF s
<1>10. \A i \in Index, v \in Object : In(s, i, v) <=> In(t, i, v) /\ v \notin V
  BY <1>7, <1>9 DEF In
<1>11. Alive(s) /\ Made(s)
  <2>1. \A i \in Index : s.ref[i] = t.ref[i] \/ s.ref[i] = "undef"
    BY <1>3, <1>5, <1>9 DEF Index
  <2>2. Alive(s)
    BY <2>1, <1>8, <1>9 DEF IInv, Ready, Alive, Ref
  <2> QED BY <2>1, <2>2, <1>8, <1>9, <1>10, MadeKept
<1>12. AttrsWired(s, b, doomed)
  <2>1. \A a \in Attr, v \in Object : Of(a, v) \in b <=> Of(a, v) \in bound /\ v \notin V
    BY OfPairs
  <2>2. \A a \in Attr : \/ s.ref[a] = t.ref[a]
                        \/ s.ref[a] = "undef" /\ \A v \in Object : s.attrhash[a][v] = "none"
    BY <1>3, <1>9
  <2>3. \A a \in Attr, v \in Object : t.ref[a] # "undef" =>
          (s.attrhash[a][v] \in Ref <=> t.attrhash[a][v] \in Ref /\ Of(a, v) \in b)
    BY <2>1, <1>8, <1>9 DEF IInv, Ready, AttrsWired
  <2>4. \A a \in Attr, v \in Object : Of(a, v) \in b =>
          Of(a, v) \in bound /\ (In(t, a, v) => In(s, a, v))
    BY <2>1, <1>10, IndexKinds
  <2> HIDE DEF b
  <2> QED BY <2>2, <2>3, <2>4, <1>9, AttrsLeave
<1>13. KeysWired(s, b, doomed)
  <2>1. ASSUME NEW k \in Key, NEW v \in Object, Of(k, v) \in b \ doomed
        PROVE  Of(k, v) \in bound \ doomed /\ In(s, k, v)
    <3>1. Of(k, v) \in bound \ doomed /\ v \notin V
      BY <2>1, OfPairs
    <3>2. In(t, k, v)
      BY <3>1 DEF IInv, Ready, KeysWired
    <3> QED BY <3>1, <3>2, <1>10, IndexKinds
  <2> QED BY <2>1, <1>5, <1>9, KeysKept
<1>14. Ready(s, b, doomed)
  BY <1>9, <1>11, <1>12, <1>13 DEF IInv, Ready
<1>15. Placed(s, phase, left)
  BY <1>9, <1>10, PlacedKept DEF PurgeAll, Operation
<1> QED BY <1>14, <1>15, Settles DEF PurgeAll, Operation, s

\* purge, purgeby_sk and purgeby_a purge objects only.
LEMMA PurgesKeep ==
  ASSUME IInv,
         \/ \E v \in Object : Purge(v)
         \/ \E k \in Key : PurgeBySk(k)
         \/ \E a \in Attr : PurgeByA(a)
  PROVE  IInv'
<1>1. CASE \E v \in Object : Purge(v)
  <2>1. PICK v \in Object : PurgeAll({v})
    BY <1>1 DEF Purge
  <2> QED BY <2>1, PurgeAllKeeps
<1>2. CASE \E k \in Key : PurgeBySk(k)
  <2>1. PICK k \in Key : t.forward[k].mode \in Ref /\ PurgeAll({t.forward[k].value})
    BY <1>2 DEF PurgeBySk
  <2>2. {t.forward[k].value} \subseteq Object
    BY <2>1 DEF IInv, Ready, Alive, Table
  <2> QED BY <2>1, <2>2, PurgeAllKeeps
<1>3. CASE \E a \in Attr : PurgeByA(a)
  <2>1. PICK a \in Attr : PurgeAll({v \in Object : t.attrhash[a][v] \in Ref})
    BY <1>3 DEF PurgeByA
  <2>2. {v \in Object : t.attrhash[a][v] \in Ref} \subseteq Object
    OBVIOUS
  <2> HIDE DEF Ref
  <2> QED BY <2>1, <2>2, PurgeAllKeeps
<1> QED BY <1>1, <1>2, <1>3

-----------------------------------------------------------------------------
\* Sweep may do what it likes to a key that is not bound, if what a vhash still has of
\* it becomes invalid.
LEMMA KeyGoes ==
  ASSUME IInv, phase = "keys", NEW k \in Key, NEW STATE s, s \in Table,
         \A v \in Object : Of(k, v) \notin bound \ doomed,
         s.live = t.live, s.held = t.held, s.attr_lookup = t.attr_lookup,
         s.attrhash = t.attrhash, s.ref = t.ref,
         s.forward[k].mode \in Ref => s.forward[k].value \in t.live,
         \A j \in Key : j # k => /\ s.slookup[j] = t.slookup[j] /\ s.vaddr[j] = t.vaddr[j]
                                 /\ s.forward[j] = t.forward[j],
         \A i \in Index, v \in Object : In(t, i, v) /\ i # k => In(s, i, v),
         \A i \in Index, v \in Object : In(s, i, v) => In(t, i, v),
         \A v \in Object : In(s, k, v) => s.forward[k].mode = "none"
  PROVE  Ready(s, bound, doomed) /\ Placed(s, phase, left')
<1>1. Alive(s) /\ Made(s)
  <2>1. Alive(s)
    BY DEF IInv, Ready, Alive
  <2> QED BY <2>1, MadeKept
<1>2. AttrsWired(s, bound, doomed)
  BY IndexKinds, AttrsKept
<1>3. KeysWired(s, bound, doomed)
  <2>1. ASSUME NEW j \in Key, NEW v \in Object, Of(j, v) \in bound \ doomed
        PROVE  /\ s.slookup[j] = "weak" /\ s.vaddr[j] = v /\ In(s, j, v)
               /\ s.forward[j].mode \in Ref /\ s.forward[j].value = v
               /\ s.ref[j] # "undef"
    <3>1. j # k /\ j \in Index
      BY <2>1, IndexKinds
    <3> QED BY <2>1, <3>1 DEF IInv, Ready, KeysWired
  <2> QED BY <2>1 DEF KeysWired
<1>4. ASSUME NEW i \in Index, NEW v \in Object, In(s, i, v)
      PROVE  Found(s, i) \/ Invalid(s, i)
  <2>1. CASE i = k
    BY <1>4, <2>1 DEF Invalid
  <2>2. CASE i # k
    BY <1>4, <2>2 DEF IInv, Placed, Found, Invalid, Index
  <2> QED BY <2>1, <2>2
<1> QED BY <1>1, <1>2, <1>3, <1>4 DEF IInv, Ready, Placed

LEMMA DelKeyReady ==
  ASSUME IInv, phase = "keys", NEW k \in Key, \A v \in Object : Of(k, v) \notin bound \ doomed
  PROVE  Ready(DelKey(k), bound, doomed) /\ Placed(DelKey(k), phase, left')
<1> DEFINE v == t.vaddr[k]
           s == DelKey(k)
           R == [w \in Object |-> IF w = v /\ t.reverse[w] # Null THEN t.reverse[w] \ {k}
                                                                  ELSE t.reverse[w]]
<1>1. t \in Table /\ NoValue \in [mode : Entry, value : Object \cup {Null}] /\ "none" \in Lookups
  BY DEF IInv, Ready, NoValue, Entry, Lookups
<1>2. s = [t EXCEPT !.forward[k] = NoValue, !.slookup[k] = "none", !.reverse = R]
  BY DEF DelKey
<1>3. R \in [Object -> (SUBSET Index) \cup {Null}]
  BY <1>1 DEF Table
<1>4. ASSUME NEW i \in Index, NEW w \in Object, In(t, i, w), i # k
      PROVE  R[w] # Null /\ i \in R[w]
  <2>1. t.reverse[w] # Null /\ i \in t.reverse[w] /\ t.reverse[w] \in SUBSET Index
    BY <1>1, <1>4 DEF In, Table
  <2>2. t.reverse[w] \ {k} # Null /\ i \in t.reverse[w] \ {k}
    BY <1>4, <2>1, SweepingAssumption
  <2> QED BY <2>1, <2>2
<1> HIDE DEF R
<1>5. /\ s \in Table /\ s.live = t.live /\ s.held = t.held /\ s.attr_lookup = t.attr_lookup
      /\ s.attrhash = t.attrhash /\ s.ref = t.ref /\ s.vaddr = t.vaddr /\ s.reverse = R
  <2> DEFINE f == [t.forward EXCEPT ![k] = NoValue]
             l == [t.slookup EXCEPT ![k] = "none"]
  <2>1. f \in [Key -> [mode : Entry, value : Object \cup {Null}]]
    BY <1>1 DEF Table
  <2>2. l \in [Key -> Lookups]
    BY <1>1 DEF Table
  <2>3. s = [t EXCEPT !.forward = f, !.slookup = l, !.reverse = R]
    BY <1>1, <1>2 DEF Table
  <2> HIDE DEF f, l, s
  <2> QED BY <1>1, <1>3, <2>1, <2>2, <2>3 DEF Table
<1>6. s.forward[k].mode = "none"
  BY <1>1, <1>2 DEF Table, NoValue
<1>7. \A j \in Key : j # k => s.slookup[j] = t.slookup[j] /\ s.forward[j] = t.forward[j]
  BY <1>1, <1>2 DEF Table
<1> HIDE DEF s
<1>8. \A i \in Index, w \in Object : In(t, i, w) /\ i # k => In(s, i, w)
  BY <1>4, <1>5 DEF In
<1>9. \A i \in Index, w \in Object : In(s, i, w) => In(t, i, w)
  BY <1>5 DEF In, R
<1> QED BY <1>5, <1>6, <1>7, <1>8, <1>9, KeyGoes DEF Ref, s

\* A bound key that was not stored under an orphan is never stale: its vaddr names a
\* vhash it is in, its value lives, and it is no orphan.
LEMMA SweepKeyKeeps ==
  ASSUME IInv, NEW k \in Key, SweepKey(k)
  PROVE  IInv'
<1> DEFINE stale == \/ t.vaddr[k] = Null \/ k \notin Under(t.vaddr[k])
                    \/ t.forward[k].mode \notin Ref
                    \/ t.ref[k] = "undef"
           s == IF t.slookup[k] = "undef" THEN [t EXCEPT !.slookup[k] = "none"]
                ELSE IF stale THEN DelKey(k) ELSE t
<1>1. Becomes(s, bound, doomed) /\ UNCHANGED phase /\ phase = "keys"
  BY DEF SweepKey, Visit
<1>2. t \in Table /\ Ready(t, bound, doomed) /\ k \in Index
  BY IndexKinds DEF IInv, Ready
<1>3. Ready(s, bound, doomed) /\ Placed(s, phase, left')
  <2>1. CASE t.slookup[k] = "undef"
    <3> DEFINE r == [t EXCEPT !.slookup[k] = "none"]
    <3>1. \A v \in Object : Of(k, v) \notin bound \ doomed
      BY <2>1 DEF IInv, Ready, KeysWired
    <3>2. /\ r \in Table /\ r.live = t.live /\ r.held = t.held /\ r.attr_lookup = t.attr_lookup
          /\ r.attrhash = t.attrhash /\ r.ref = t.ref /\ r.vaddr = t.vaddr
          /\ r.forward = t.forward /\ r.reverse = t.reverse
          /\ \A j \in Key : j # k => r.slookup[j] = t.slookup[j]
      BY <1>2 DEF Table, Lookups
    <3>3. s = r
      BY <2>1
    <3> HIDE DEF r, s
    <3>4. t.forward[k].mode \in Ref => t.forward[k].value \in t.live
      BY DEF IInv, Ready, Alive
    <3>5. \A i \in Index, v \in Object : In(t, i, v) <=> In(r, i, v)
      BY <3>2 DEF In
    <3>6. ASSUME NEW v \in Object, In(t, k, v)
          PROVE  t.forward[k].mode = "none"
      <4>1. ~Found(t, k)
        BY <2>1 DEF Found
      <4>2. Placed(t, phase, left)
        BY DEF IInv
      <4> QED BY <1>2, <3>6, <4>1, <4>2 DEF Placed, Invalid
    <3>7. /\ r.forward[k].mode \in Ref => r.forward[k].value \in t.live
          /\ \A j \in Key : j # k => /\ r.slookup[j] = t.slookup[j] /\ r.vaddr[j] = t.vaddr[j]
                                  /\ r.forward[j] = t.forward[j]
          /\ \A v \in Object : In(r, k, v) => r.forward[k].mode = "none"
      BY <1>2, <3>2, <3>4, <3>5, <3>6
    <3>8. Ready(r, bound, doomed) /\ Placed(r, phase, left')
      BY <1>1, <3>1, <3>2, <3>5, <3>7, KeyGoes
    <3> QED BY <3>3, <3>8
  <2>2. CASE t.slookup[k] # "undef" /\ stale
    <3>1. ASSUME NEW v \in Object, Of(k, v) \in bound \ doomed
          PROVE  FALSE
      <4>1. /\ t.vaddr[k] = v /\ In(t, k, v) /\ t.forward[k].mode \in Ref
            /\ t.ref[k] # "undef"
        BY <3>1 DEF IInv, Ready, KeysWired
      <4>2. k \in Under(v) /\ v # Null
        BY <4>1, SweepingAssumption DEF In, Under
      <4> QED BY <4>1, <4>2, <2>2
    <3>2. s = DelKey(k)
      BY <2>2
    <3> HIDE DEF s, stale
    <3> QED BY <1>1, <3>1, <3>2, DelKeyReady
  <2>3. CASE t.slookup[k] # "undef" /\ ~stale
    <3>1. s = t
      BY <2>3
    <3>2. Placed(t, phase, left')
      BY <1>1 DEF IInv, Placed
    <3> HIDE DEF s
    <3> QED BY <1>2, <3>1, <3>2
  <2> QED BY <2>1, <2>2, <2>3
<1> HIDE DEF s
<1> QED BY <1>1, <1>3, Settles

\* The loop leaves an attribute that is no orphan the entries that are bound, and deletes
\* it only when it has none; what is in the hash of an orphan is not wanted.
LEMMA SweepAttrKeeps ==
  ASSUME IInv, NEW a \in Attr, SweepAttr(a)
  PROVE  IInv'
<1> DEFINE hash == [v \in Object |->
                      IF t.attrhash[a][v] \in Ref /\ a \in Under(v) THEN t.attrhash[a][v]
                                                                   ELSE "none"]
           values == {v \in Object : hash[v] # "none"}
           swept == [t EXCEPT !.attrhash[a] = hash]
           Rest(U) == [v \in Object |-> IF v \in U THEN Less(v, {a}) ELSE t.reverse[v]]
           deleted == [swept EXCEPT !.attr_lookup[a] = "none", !.reverse = Rest(values)]
           s == IF t.attr_lookup[a] = "undef" THEN [t EXCEPT !.attr_lookup[a] = "none"]
                ELSE IF values = {} \/ t.ref[a] = "undef" THEN deleted ELSE swept
<1>1. Becomes(s, bound, doomed) /\ UNCHANGED phase /\ phase = "attrs"
  <2>1. swept.reverse = t.reverse
    BY DEF IInv, Ready, Table
  <2> QED BY <2>1 DEF SweepAttr, Visit
<1>2. t \in Table /\ a \in Index
  BY IndexKinds DEF IInv, Ready
<1>3. \A v \in Object : t.attrhash[a][v] \in Ref /\ t.ref[a] # "undef" =>
        a \in Under(v) /\ t.attr_lookup[a] = "weak"
  BY DEF IInv, Ready, AttrsWired, In, Under
<1>4. /\ hash \in [Object -> Entry]
      /\ \A v \in Object : hash[v] \in Ref => t.attrhash[a][v] \in Ref
      /\ \A v \in Object : t.attrhash[a][v] \in Ref /\ t.ref[a] # "undef" => hash[v] \in Ref
      /\ values = {} => \A v \in Object : hash[v] \notin Ref
  BY <1>2, <1>3 DEF Table, Entry, Ref
<1>5. \E h \in [Object -> Entry], l \in Lookups, U \in SUBSET Object :
        /\ s = [t EXCEPT !.attrhash[a] = h, !.attr_lookup[a] = l, !.reverse = Rest(U)]
        /\ \A v \in Object : h[v] \in Ref => t.attrhash[a][v] \in Ref
        /\ t.ref[a] # "undef" => U = {}
        /\ \A v \in Object : t.attrhash[a][v] \in Ref /\ t.ref[a] # "undef" =>
             h[v] \in Ref /\ l = "weak"
        /\ l = "none" \/ l = t.attr_lookup[a]
  <2>1. Rest({}) = t.reverse /\ {} \in SUBSET Object
    BY <1>2 DEF Table
  <2>2. t.attr_lookup[a] \in Lookups /\ "none" \in Lookups /\ t.attrhash[a] \in [Object -> Entry]
    BY <1>2 DEF Table, Lookups
  <2>3. CASE t.attr_lookup[a] = "undef"
    <3>1. s = [t EXCEPT !.attrhash[a] = t.attrhash[a], !.attr_lookup[a] = "none",
                        !.reverse = Rest({})]
      <4> HIDE DEF Rest
      <4> QED BY <1>2, <2>1, <2>3 DEF Table
    <3>2. \A v \in Object : t.attrhash[a][v] \in Ref => t.ref[a] = "undef"
      BY <1>3, <2>3
    <3> HIDE DEF s, Rest
    <3> QED BY <2>1, <2>2, <3>1, <3>2
  <2>4. CASE t.attr_lookup[a] # "undef" /\ (values = {} \/ t.ref[a] = "undef")
    <3>1. s = deleted
      BY <2>4
    <3>2. values \in SUBSET Object
      OBVIOUS
    <3> HIDE DEF hash, values, Rest
    <3>3. s = [t EXCEPT !.attrhash[a] = hash, !.attr_lookup[a] = "none", !.reverse = Rest(values)]
      BY <1>2, <3>1 DEF Table
    <3>4. t.ref[a] # "undef" => values = {} /\ \A v \in Object : t.attrhash[a][v] \notin Ref
      BY <1>4, <2>4
    <3> HIDE DEF s
    <3> QED BY <1>4, <2>2, <3>2, <3>3, <3>4
  <2>5. CASE t.attr_lookup[a] # "undef" /\ ~(values = {} \/ t.ref[a] = "undef")
    <3>1. s = swept
      BY <2>5
    <3> HIDE DEF hash, values, Rest
    <3>2. s = [t EXCEPT !.attrhash[a] = hash, !.attr_lookup[a] = t.attr_lookup[a],
                        !.reverse = Rest({})]
      BY <1>2, <2>1, <3>1 DEF Table
    <3> HIDE DEF s
    <3> QED BY <1>3, <1>4, <2>1, <2>2, <3>2
  <2> QED BY <2>3, <2>4, <2>5
<1> HIDE DEF s
<1>6. PICK h \in [Object -> Entry], l \in Lookups, U \in SUBSET Object :
        /\ s = [t EXCEPT !.attrhash[a] = h, !.attr_lookup[a] = l, !.reverse = Rest(U)]
        /\ \A v \in Object : h[v] \in Ref => t.attrhash[a][v] \in Ref
        /\ t.ref[a] # "undef" => U = {}
        /\ \A v \in Object : t.attrhash[a][v] \in Ref /\ t.ref[a] # "undef" =>
             h[v] \in Ref /\ l = "weak"
        /\ l = "none" \/ l = t.attr_lookup[a]
  BY <1>5
<1>7. Rest(U) \in [Object -> (SUBSET Index) \cup {Null}]
  BY <1>2, LessType DEF Table
<1>8. \A v \in Object : Rest(U)[v] = IF v \in U THEN Less(v, {a}) ELSE t.reverse[v]
  OBVIOUS
<1> HIDE DEF Rest
<1>9. /\ s \in Table /\ s.live = t.live /\ s.held = t.held /\ s.forward = t.forward
      /\ s.slookup = t.slookup /\ s.vaddr = t.vaddr /\ s.ref = t.ref
  BY <1>2, <1>6, <1>7 DEF Table
<1>10. \A c \in Attr : /\ s.attrhash[c] = IF c = a THEN h ELSE t.attrhash[c]
                       /\ s.attr_lookup[c] = IF c = a THEN l ELSE t.attr_lookup[c]
  BY <1>2, <1>6 DEF Table
<1>11. Unlinks(s, U, {a})
  <2>1. s.reverse = Rest(U)
    BY <1>2, <1>6 DEF Table
  <2> QED BY <2>1, <1>8 DEF Unlinks
<1>12. \A i \in Index, v \in Object : In(s, i, v) <=> In(t, i, v) /\ ~(v \in U /\ i \in {a})
  BY <1>2, <1>11, Unlinking
<1>13. \A i \in Index, v \in Object :
        /\ In(s, i, v) => In(t, i, v)
        /\ In(t, i, v) /\ (i # a \/ t.ref[a] # "undef") => In(s, i, v)
  BY <1>6, <1>12
<1>14. \A c \in Attr, v \in Object :
        /\ s.attrhash[c][v] \in Ref => t.attrhash[c][v] \in Ref
        /\ t.attrhash[c][v] \in Ref /\ t.ref[c] # "undef" =>
             s.attrhash[c][v] \in Ref /\ s.attr_lookup[c] = "weak"
  <2>1. \A c \in Attr, v \in Object : t.attrhash[c][v] \in Ref /\ t.ref[c] # "undef" =>
          t.attr_lookup[c] = "weak"
    BY DEF IInv, Ready, AttrsWired
  <2> HIDE DEF Ref
  <2> QED BY <2>1, <1>6, <1>10
<1>15. Ready(s, bound, doomed)
  <2>1. Alive(s)
    BY <1>9, <1>14 DEF IInv, Ready, Alive
  <2>2. Made(s)
    BY <1>9, <1>13, <1>14, MadeKept
  <2>3. AttrsWired(s, bound, doomed)
    <3>1. ASSUME NEW c \in Attr, NEW v \in Object
          PROVE  /\ Of(c, v) \in bound \ doomed => s.attrhash[c][v] \in Ref /\ s.ref[c] # "undef"
                 /\ s.attrhash[c][v] \in Ref /\ s.ref[c] # "undef" =>
                      Of(c, v) \in bound /\ In(s, c, v) /\ s.attr_lookup[c] = "weak"
      BY <1>9, <1>13, <1>14, IndexKinds DEF IInv, Ready, AttrsWired
    <3> QED BY <3>1 DEF AttrsWired
  <2>4. KeysWired(s, bound, doomed)
    <3>1. \A k \in Key, v \in Object : In(t, k, v) => In(s, k, v)
      BY <1>2, <1>13, IndexKinds
    <3> QED BY <1>9, <3>1 DEF IInv, Ready, KeysWired
  <2> QED BY <1>9, <2>1, <2>2, <2>3, <2>4 DEF IInv, Ready
<1>16. Placed(s, phase, left')
  <2>1. ASSUME NEW i \in Index, NEW v \in Object, In(s, i, v)
        PROVE  Found(s, i) \/ Invalid(s, i)
    <3>1. Found(t, i) \/ Invalid(t, i)
      BY <1>13, <2>1 DEF IInv, Placed
    <3>2. CASE i = a
      BY <3>1, <3>2, <1>6, <1>10, IndexKinds DEF Found, Invalid
    <3>3. CASE i # a
      BY <3>1, <3>3, <1>9, <1>10 DEF Found, Invalid, Index
    <3> QED BY <3>2, <3>3
  <2> QED BY <1>1, <2>1 DEF Placed
<1> QED BY <1>1, <1>15, <1>16, Settles

\* What is bound, but under an orphan, is valid, so the last loop leaves it; what is not
\* found is not valid and goes.
LEMMA SweepValueKeeps ==
  ASSUME IInv, NEW v \in Object, SweepValue(v)
  PROVE  IInv'
<1> DEFINE S == {i \in Under(v) : ~Valid(i)}
           s == [t EXCEPT !.reverse[v] = Less(v, S)]
<1>1. Becomes(s, bound, doomed) /\ UNCHANGED phase /\ t \in Table
  BY DEF SweepValue, Visit, IInv, Ready
<1>2. ASSUME NEW i \in Index, i \in S
      PROVE  /\ i \in Key => Of(i, v) \notin bound \ doomed
             /\ i \in Attr /\ t.ref[i] # "undef" => t.attrhash[i][v] \notin Ref
  <2>1. CASE i \in Key
    BY <1>2, <2>1, IndexKinds DEF IInv, Ready, KeysWired, Valid, Ref
  <2>2. CASE i \in Attr
    BY <1>2, <2>2, IndexKinds DEF IInv, Ready, AttrsWired, Valid
  <2> QED BY <2>1, <2>2 DEF Index
<1> HIDE DEF S
<1>3. /\ s \in Table /\ s.live = t.live /\ s.held = t.held /\ s.attr_lookup = t.attr_lookup
      /\ s.attrhash = t.attrhash /\ s.forward = t.forward /\ s.slookup = t.slookup
      /\ s.vaddr = t.vaddr /\ s.ref = t.ref
  BY <1>1, LessType DEF Table
<1>4. Unlinks(s, {v}, S)
  BY <1>1 DEF Unlinks, Table
<1> HIDE DEF s
<1>5. \A i \in Index, w \in Object : In(s, i, w) <=> In(t, i, w) /\ ~(w \in {v} /\ i \in S)
  BY <1>1, <1>4, Unlinking
<1>6. /\ \A k \in Key, w \in Object : Of(k, w) \in bound \ doomed /\ In(t, k, w) => In(s, k, w)
      /\ \A a \in Attr, w \in Object :
           t.attrhash[a][w] \in Ref /\ t.ref[a] # "undef" /\ In(t, a, w) => In(s, a, w)
  BY <1>2, <1>5, IndexKinds
<1>7. Alive(s) /\ Made(s)
  BY <1>3, <1>5, MadeKept DEF IInv, Ready, Alive
<1>8. AttrsWired(s, bound, doomed)
  BY <1>3, <1>6 DEF IInv, Ready, AttrsWired
<1>9. KeysWired(s, bound, doomed)
  BY <1>3, <1>6 DEF IInv, Ready, KeysWired
<1>10. Ready(s, bound, doomed)
  BY <1>3, <1>7, <1>8, <1>9 DEF IInv, Ready
<1>11. Placed(s, phase, left')
  <2>1. ASSUME NEW i \in Index, NEW w \in Object, In(s, i, w), ~Found(s, i)
        PROVE  w \in left' /\ Invalid(s, i)
    <3>1. In(t, i, w) /\ ~(w \in {v} /\ i \in S)
      BY <2>1, <1>5
    <3>2. (Found(t, i) <=> Found(s, i)) /\ (Invalid(t, i) <=> Invalid(s, i))
      BY <1>3 DEF Found, Invalid
    <3>3. w \in left /\ Invalid(t, i)
      BY <2>1, <3>1, <3>2 DEF IInv, Placed, SweepValue, Visit
    <3>4. w # v
      BY <3>1, <3>3 DEF S, In, Under, Valid, Invalid
    <3> QED BY <3>2, <3>3, <3>4 DEF SweepValue, Visit
  <2> QED BY <2>1 DEF Placed, SweepValue, Visit
<1> QED BY <1>1, <1>10, <1>11, Settles DEF s

-----------------------------------------------------------------------------
\* The invariant is inductive.
LEMMA InitIInv == Init => IInv
<1> SUFFICES ASSUME Init PROVE IInv
  OBVIOUS
<1>1. t \in Table
  BY DEF Init, Table, Entry, Lookups, NoValue
<1>2. t.held = {} /\ t.live = {} /\ bound = {} /\ doomed = {} /\ phase = "idle"
  BY DEF Init
<1>3. /\ \A k \in Key : t.forward[k].mode = "none"
      /\ \A a \in Attr, v \in Object : t.attrhash[a][v] = "none"
      /\ \A i \in Index : t.ref[i] = "none"
  BY DEF Init, NoValue
<1>4. \A i \in Index, v \in Object : ~In(t, i, v)
  BY DEF Init, In
<1>5. Alive(t) /\ Made(t) /\ AttrsWired(t, bound, doomed) /\ KeysWired(t, bound, doomed)
  BY <1>2, <1>3, <1>4 DEF Alive, Made, AttrsWired, KeysWired, Ref
<1>6. Emptied(t)
  BY <1>3 DEF Emptied
<1>7. Placed(t, phase, left) /\ Reached
  <2>1. \A i \in Index : ~Found(t, i)
    BY DEF Init, Found, Index
  <2> QED BY <2>1, <1>4 DEF Placed, Reached
<1> QED BY <1>1, <1>2, <1>5, <1>6, <1>7 DEF IInv, TypeOK, Ready

\* Starting a sweep, or its next loop, touches nothing.
LEMMA TableStays ==
  ASSUME IInv, UNCHANGED <<t, bound, doomed>>,
         phase' \in {"idle", "keys", "attrs", "values"}, Placed(t, phase', left')
  PROVE  IInv'
<1>1. TypeOK' /\ Ready(t, bound, doomed)' /\ Emptied(t)'
  BY DEF IInv, TypeOK, Ready, Alive, Made, AttrsWired, KeysWired, Emptied, In
<1>2. Placed(t, phase, left)' /\ Reached'
  BY DEF IInv, Placed, Reached, Found, Invalid, In
<1> QED BY <1>1, <1>2 DEF IInv

LEMMA NextIInv ==
  ASSUME IInv, [Next]_vars
  PROVE  IInv'
<1>1. CASE UNCHANGED vars
  BY <1>1, TableStays DEF vars, IInv, TypeOK
<1>2. CASE StartSweep \/ NextLoop
  <2>1. CASE StartSweep
    <3>1. Placed(t, phase', left')
      BY <2>1 DEF StartSweep, Idle, IInv, Placed
    <3> QED BY <2>1, <3>1, TableStays DEF StartSweep
  <2>2. CASE NextLoop
    <3>1. Placed(t, phase', left')
      BY <2>2 DEF NextLoop, IInv, Placed, In
    <3> QED BY <2>2, <3>1, TableStays DEF NextLoop
  <2> QED BY <1>2, <2>1, <2>2
<1>3. CASE \/ \E k \in Key : SweepKey(k)
           \/ \E a \in Attr : SweepAttr(a)
           \/ \E v \in Object : SweepValue(v)
  BY <1>3, SweepKeyKeeps, SweepAttrKeeps, SweepValueKeeps
<1>4. CASE \E o \in Object : New(o) \/ Drop(o) \/ Purge(o)
  BY <1>4, NewKeeps, DropKeeps, PurgesKeep
<1>5. CASE \E k \in Key : FetchSk(k) \/ UnlinkSk(k) \/ PurgeBySk(k)
  BY <1>5, FetchSkKeeps, UnlinkSkKeeps, PurgesKeep
<1>6. CASE \E a \in Attr : FetchA(a) \/ UnlinkA(a) \/ PurgeByA(a)
  BY <1>6, FetchAKeeps, UnlinkAKeeps, PurgesKeep
<1>7. CASE \E v \in Object, strong, own \in BOOLEAN :
             \/ \E k \in Key : StoreSk(k, v, strong, own)
             \/ \E a \in Attr : StoreA(a, v, strong, own)
  BY <1>7, StoreSkKeeps, StoreAKeeps
<1>8. CASE \E a \in Attr, v \in Object : DissocA(a, v)
  BY <1>8, DissocAKeeps
<1> QED BY <1>1, <1>2, <1>3, <1>4, <1>5, <1>6, <1>7, <1>8 DEF Next, Program, Sweep

\* The Perl backend's hashes keep their types through every operation and every step of
\* sweep, and what the program holds lives.
THEOREM SweepingTypeCorrect == Spec => []TypeOK
<1>1. IInv /\ [Next]_vars => IInv'
  BY NextIInv
<1>2. IInv => TypeOK
  BY DEF IInv
<1> QED BY InitIInv, <1>1, <1>2, PTL DEF Spec

\* sweep takes out nothing that the program stored and whose value and object live, in
\* whatever order it meets deaths, new objects at old addresses and operations, but what
\* was stored under an orphan.
THEOREM SweepingKeepsEntries == Spec => []EntriesKept
<1>1. IInv /\ [Next]_vars => IInv'
  BY NextIInv
<1>2. IInv => EntriesKept
  <2> SUFFICES ASSUME IInv, NEW e \in bound \ doomed
      PROVE  Present(e)
    BY DEF EntriesKept
  <2>1. e.index \in Index /\ e.value \in Object /\ e = Of(e.index, e.value)
    BY DEF IInv, Ready, Of
  <2>2. CASE e.index \in Key
    BY <2>1, <2>2, IndexKinds DEF IInv, Ready, KeysWired, In, Under, Present, Ukey2ikey
  <2>3. CASE e.index \in Attr
    BY <2>1, <2>3, IndexKinds DEF IInv, Ready, AttrsWired, In, Under, Present, AttrGet
  <2> QED BY <2>1, <2>2, <2>3 DEF Index
<1> QED BY InitIInv, <1>1, <1>2, PTL DEF Spec

\* fetch_a never returns what was removed from an attribute, made from a string or from
\* an object, unless it is asked for an orphan.
THEOREM SweepingAttrAnswers == Spec => []AttrAnswers
<1>1. IInv /\ [Next]_vars => IInv'
  BY NextIInv
<1>2. IInv => AttrAnswers
  BY DEF IInv, Ready, AttrsWired, AttrAnswers, Orphan
<1> QED BY InitIInv, <1>1, <1>2, PTL DEF Spec

\* Once sweep has ended a key or attribute object is in a vhash exactly when its lookup
\* finds it: no store makes a second object for it.
THEOREM SweepingOneObject == Spec => []OneObjectEach
<1>1. IInv /\ [Next]_vars => IInv'
  BY NextIInv
<1>2. IInv => OneObjectEach
  <2> SUFFICES ASSUME IInv, Idle, NEW i \in Index
      PROVE  (\E v \in Object : i \in Under(v)) <=> IF i \in Key THEN Ukey2ikey(i) ELSE AttrGet(i)
    BY DEF OneObjectEach
  <2>1. \A v \in Object : i \in Under(v) <=> In(t, i, v)
    BY DEF In, Under
  <2>2. Found(t, i) <=> \E v \in Object : In(t, i, v)
    BY DEF IInv, Placed, Reached, Idle
  <2> QED BY <2>1, <2>2 DEF Found, Ukey2ikey, AttrGet
<1> QED BY InitIInv, <1>1, <1>2, PTL DEF Spec
=============================================================================
