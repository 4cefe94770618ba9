-------------------------------- MODULE Store --------------------------------
(***************************************************************************)
(* What a Ref::Store table promises the program that uses it, whatever the *)
(* backend: lookups map keys and attributes to values, an entry goes when  *)
(* its value goes or the object it is looked up by goes, and the table     *)
(* keeps alive exactly what it was asked to hold strongly.  Objects die by *)
(* reference counting, so objects that hold each other through strong      *)
(* entries stay.  Every operation is one step, however long the chain of   *)
(* deaths it sets off.                                                     *)
(***************************************************************************)
EXTENDS Naturals, Sequences

CONSTANTS
  Object,       \* Perl objects: values, and keys or attributes by their address
  KeyName,      \* what is used as a key: objects and plain strings
  AttrName      \* <<type, object or string>> pairs used as attributes

VARIABLES
  live,         \* the objects that exist
  held,         \* the objects the program has a reference to
  entries       \* the lookups, a set of Entry

stvars == <<live, held, entries>>

Key == {<<"key", x>> : x \in KeyName}
Attr == {<<"attr", a[1], a[2]>> : a \in AttrName}
Index == Key \cup Attr

\* sv: the value is held strongly; si: the object of the index is.
Entry == [index : Index, value : Object, sv : BOOLEAN, si : BOOLEAN]

\* The object an index is made from, in a set that is empty for a string.
ObjectsOf(i) == {i[Len(i)]} \cap Object

\* The program can name an index when it has its object.
Nameable(i) == ObjectsOf(i) \subseteq held

-----------------------------------------------------------------------------
Surviving(E, D) == {e \in E : e.value \notin D /\ ObjectsOf(e.index) \cap D = {}}

StronglyHeld(E) ==
  {e.value : e \in {f \in E : f.sv}} \cup UNION {ObjectsOf(e.index) : e \in {f \in E : f.si}}

\* The objects that die when L exist, the program holds H and the table E: the
\* least set that contains whatever only its own members kept alive.
Garbage(L, H, E) ==
  LET Closed == {D \in SUBSET L : L \ (H \cup StronglyHeld(Surviving(E, D))) \subseteq D}
  IN  {o \in L : \A D \in Closed : o \in D}

Becomes(L, H, E) ==
  LET D == Garbage(L, H, E) IN
  /\ live' = L \ D
  /\ held' = H
  /\ entries' = Surviving(E, D)

Of(i) == {e \in entries : e.index = i}

-----------------------------------------------------------------------------
Init == live = {} /\ held = {} /\ entries = {}

New(o) == o \notin live /\ Becomes(live \cup {o}, held \cup {o}, entries)

Drop(o) == o \in held /\ Becomes(live, held \ {o}, entries)

Fetch(i) == Nameable(i) /\ \E e \in Of(i) : Becomes(live, held \cup {e.value}, entries)

\* A key has one value, and the options of the first store stay.
StoreKey(k, v, sv, si) ==
  /\ Nameable(k) /\ v \in held
  /\ Of(k) = {}
  /\ Becomes(live, held, entries \cup {[index |-> k, value |-> v, sv |-> sv, si |-> si]})

\* An attribute has many; whether its object is held was said when it was made.
StoreAttr(a, v, sv, si) ==
  /\ Nameable(a) /\ v \in held
  /\ \A e \in Of(a) : e.value # v /\ e.si = si
  /\ Becomes(live, held, entries \cup {[index |-> a, value |-> v, sv |-> sv, si |-> si]})

Unlink(i) == Nameable(i) /\ Becomes(live, held, entries \ Of(i))

Dissoc(a, v) ==
  /\ Nameable(a) /\ v \in held
  /\ Becomes(live, held, {e \in entries : ~(e.index = a /\ e.value = v)})

PurgeValues(V) == Becomes(live, held, {e \in entries : e.value \notin V})

Purge(v) == v \in held /\ PurgeValues({v})

PurgeBy(i) == Nameable(i) /\ PurgeValues({e.value : e \in Of(i)})

\* The table goes and another is made: everything it held strongly is let go.
Destroy == Becomes(live, held, {})

Next ==
  \/ Destroy
  \/ \E o \in Object : New(o) \/ Drop(o) \/ Purge(o)
  \/ \E i \in Index : Fetch(i) \/ Unlink(i) \/ PurgeBy(i)
  \/ \E v \in Object, sv, si \in BOOLEAN :
       \/ \E k \in Key : StoreKey(k, v, sv, si)
       \/ \E a \in Attr : StoreAttr(a, v, sv, si)
  \/ \E a \in Attr, v \in Object : Dissoc(a, v)

Spec == Init /\ [][Next]_stvars

-----------------------------------------------------------------------------
TypeOK == live \subseteq Object /\ held \subseteq Object /\ entries \subseteq Entry

\* What the program holds exists, and no entry outlives its value or the object
\* it is looked up by.
NothingDangles ==
  /\ held \subseteq live
  /\ \A e \in entries : e.value \in live /\ ObjectsOf(e.index) \subseteq live

\* Whatever exists is held by the program or, strongly, by an entry.
NothingLeaks == live \subseteq held \cup StronglyHeld(entries)

\* A key has one value, and one pair of options.
OneValue ==
  \A e, f \in entries : e.index = f.index /\ e.index \in Key => e = f
=============================================================================
