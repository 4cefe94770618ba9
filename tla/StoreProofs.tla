----------------------------- MODULE StoreProofs -----------------------------
(***************************************************************************)
(* What Store promises follows from its least set of garbage: that set is  *)
(* closed itself, so that taking it away leaves nothing unreferenced and   *)
(* nothing referring to what is gone.                                      *)
(***************************************************************************)
EXTENDS Store, TLAPS

LEMMA SurvivingAntitone ==
  ASSUME NEW E, NEW D, NEW G, G \subseteq D
  PROVE  StronglyHeld(Surviving(E, D)) \subseteq StronglyHeld(Surviving(E, G))
<1>1. Surviving(E, D) \subseteq Surviving(E, G)
  BY DEF Surviving
<1> QED
  BY <1>1 DEF StronglyHeld

LEMMA GarbageIsClosed ==
  ASSUME NEW L, NEW H, NEW E
  PROVE  L \ (H \cup StronglyHeld(Surviving(E, Garbage(L, H, E)))) \subseteq Garbage(L, H, E)
<1> DEFINE G == Garbage(L, H, E)
           Closed == {D \in SUBSET L : L \ (H \cup StronglyHeld(Surviving(E, D))) \subseteq D}
<1>1. G = {o \in L : \A D \in Closed : o \in D}
  BY DEF Garbage
<1>2. ASSUME NEW o \in L \ (H \cup StronglyHeld(Surviving(E, G))), NEW D \in Closed
      PROVE  o \in D
  <2>1. G \subseteq D
    BY <1>1
  <2>2. o \notin StronglyHeld(Surviving(E, D))
    <3> HIDE DEF G, Closed
    <3> QED
      BY <1>2, <2>1, SurvivingAntitone
  <2> QED
    BY <1>2, <2>2
<1> HIDE DEF Closed
<1> QED
  BY <1>1, <1>2

LEMMA HeldIsNotGarbage ==
  ASSUME NEW L, NEW H, NEW E
  PROVE  Garbage(L, H, E) \subseteq L \ H
<1>1. L \ (H \cup StronglyHeld(Surviving(E, L \ H))) \subseteq L \ H
  OBVIOUS
<1> QED
  BY <1>1 DEF Garbage

\* An operation that would leave a sound table but for the dead leaves a sound one.
LEMMA BecomesSound ==
  ASSUME NEW L \in SUBSET Object, NEW H \in SUBSET L, NEW E \in SUBSET Entry,
         \A e \in E : e.value \in L /\ ObjectsOf(e.index) \subseteq L,
         Becomes(L, H, E)
  PROVE  TypeOK' /\ NothingDangles' /\ NothingLeaks' /\ entries' \subseteq E
<1> DEFINE D == Garbage(L, H, E)
<1>1. live' = L \ D /\ held' = H /\ entries' = Surviving(E, D)
  BY DEF Becomes
<1>2. D \subseteq L \ H
  BY HeldIsNotGarbage
<1>3. L \ (H \cup StronglyHeld(Surviving(E, D))) \subseteq D
  BY GarbageIsClosed
<1> HIDE DEF D
<1>4. entries' \subseteq E
  BY <1>1 DEF Surviving
<1>5. \A e \in entries' : e.value \notin D /\ ObjectsOf(e.index) \cap D = {}
  BY <1>1 DEF Surviving
<1>6. NothingDangles'
  BY <1>1, <1>2, <1>4, <1>5 DEF NothingDangles, ObjectsOf
<1>7. NothingLeaks'
  BY <1>1, <1>3 DEF NothingLeaks, StronglyHeld
<1> QED
  BY <1>1, <1>4, <1>6, <1>7 DEF TypeOK

Sound == TypeOK /\ NothingDangles /\ NothingLeaks /\ OneValue

\* What every operation but the stores does: hold what exists, keep old entries.
LEMMA FewerEntries ==
  ASSUME Sound, NEW L \in SUBSET Object, live \subseteq L, NEW H \in SUBSET L,
         NEW E \in SUBSET entries, Becomes(L, H, E)
  PROVE  Sound'
<1>1. TypeOK' /\ NothingDangles' /\ NothingLeaks' /\ entries' \subseteq E
  BY BecomesSound DEF Sound, TypeOK, NothingDangles
<1> QED
  BY <1>1 DEF Sound, OneValue, Key

LEMMA KeyIsNoAttr == Key \cap Attr = {}
  BY DEF Key, Attr

LEMMA OneMore ==
  ASSUME Sound, NEW i \in Index, NEW v \in held, NEW sv \in BOOLEAN, NEW si \in BOOLEAN,
         Nameable(i), i \in Key => Of(i) = {},
         Becomes(live, held, entries \cup {[index |-> i, value |-> v, sv |-> sv, si |-> si]})
  PROVE  Sound'
<1> DEFINE new == [index |-> i, value |-> v, sv |-> sv, si |-> si]
           E == entries \cup {new}
<1>1. new \in Entry /\ new.index = i /\ new.value = v
  BY DEF Sound, TypeOK, Entry
<1>2. E \in SUBSET Entry /\ live \in SUBSET Object /\ held \in SUBSET live
  BY <1>1 DEF Sound, TypeOK, NothingDangles
<1>3. \A e \in E : e.value \in live /\ ObjectsOf(e.index) \subseteq live
  BY <1>1 DEF Sound, NothingDangles, Nameable
<1>4. \A e, f \in E : e.index = f.index /\ e.index \in Key => e = f
  <2>1. i \in Key => \A e \in entries : e.index # i
    BY DEF Of
  <2> QED
    BY <1>1, <2>1 DEF Sound, OneValue
<1> HIDE DEF new
<1>5. TypeOK' /\ NothingDangles' /\ NothingLeaks' /\ entries' \subseteq E
  <2>1. Becomes(live, held, E)
    BY DEF new
  <2> HIDE DEF E
  <2> QED
    BY <1>2, <1>3, <2>1, BecomesSound
<1>6. OneValue'
  BY <1>4, <1>5 DEF OneValue, Key
<1> QED
  BY <1>5, <1>6 DEF Sound

LEMMA NextSound == Sound /\ [Next]_stvars => Sound'
<1> SUFFICES ASSUME Sound, [Next]_stvars
             PROVE  Sound'
  OBVIOUS
<1> USE DEF Sound, TypeOK, NothingDangles
<1>1. ASSUME NEW o \in Object, New(o)
      PROVE  Sound'
  BY <1>1, FewerEntries DEF New
<1>2. ASSUME NEW o \in Object, Drop(o)
      PROVE  Sound'
  BY <1>2, FewerEntries DEF Drop
<1>3. ASSUME NEW o \in Object, Purge(o)
      PROVE  Sound'
  BY <1>3, FewerEntries DEF Purge, PurgeValues
<1>4. ASSUME NEW i \in Index, Fetch(i)
      PROVE  Sound'
  BY <1>4, FewerEntries DEF Fetch, Of
<1>5. ASSUME NEW i \in Index, Unlink(i)
      PROVE  Sound'
  BY <1>5, FewerEntries DEF Unlink
<1>6. ASSUME NEW i \in Index, PurgeBy(i)
      PROVE  Sound'
  BY <1>6, FewerEntries DEF PurgeBy, PurgeValues
<1>7. ASSUME NEW v \in Object, NEW sv \in BOOLEAN, NEW si \in BOOLEAN, NEW k \in Key,
             StoreKey(k, v, sv, si)
      PROVE  Sound'
  BY <1>7, OneMore DEF StoreKey, Index
<1>8. ASSUME NEW v \in Object, NEW sv \in BOOLEAN, NEW si \in BOOLEAN, NEW a \in Attr,
             StoreAttr(a, v, sv, si)
      PROVE  Sound'
  BY <1>8, OneMore, KeyIsNoAttr DEF StoreAttr, Index
<1>9. ASSUME NEW a \in Attr, NEW v \in Object, Dissoc(a, v)
      PROVE  Sound'
  BY <1>9, FewerEntries DEF Dissoc
<1>10. CASE Destroy
  BY <1>10, FewerEntries DEF Destroy
<1>11. CASE UNCHANGED stvars
  BY <1>11 DEF stvars, NothingLeaks, OneValue
<1> QED
  BY <1>1, <1>2, <1>3, <1>4, <1>5, <1>6, <1>7, <1>8, <1>9, <1>10, <1>11 DEF Next

\* The promise is sound, whatever the objects, keys and attributes: a table whose
\* lookups behave as Store says never shows an entry of something that is gone,
\* never keeps an object that nothing holds, and gives a key one value.
THEOREM StoreIsSound == Spec => [](NothingDangles /\ NothingLeaks /\ OneValue)
<1>1. Init => Sound
  BY DEF Init, Sound, TypeOK, NothingDangles, NothingLeaks, OneValue
<1>2. Sound => NothingDangles /\ NothingLeaks /\ OneValue
  BY DEF Sound
<1> QED
  BY <1>1, <1>2, NextSound, PTL DEF Spec

LEMMA NothingStrong == \A D : StronglyHeld(Surviving({}, D)) = {}
BY DEF StronglyHeld, Surviving

\* What is left when the table goes is what the program holds, no less and no
\* more: also objects that kept each other, or themselves, through strong entries
\* go with the table (DESTROY, Store.pm:591-637).
THEOREM TableReleases == Spec => [][Destroy => live' = held' /\ entries' = {}]_stvars
<1>1. ASSUME Sound, Destroy
      PROVE  live' = held' /\ entries' = {}
  <2> DEFINE D == Garbage(live, held, {})
  <2>1. live' = live \ D /\ held' = held /\ entries' = Surviving({}, D)
    BY <1>1 DEF Destroy, Becomes
  <2>2. D \subseteq live \ held
    BY HeldIsNotGarbage
  <2>3. live \ held \subseteq D
    <3>1. live \ (held \cup StronglyHeld(Surviving({}, D))) \subseteq D
      BY GarbageIsClosed
    <3>2. StronglyHeld(Surviving({}, D)) = {}
      BY NothingStrong
    <3> HIDE DEF D
    <3> QED
      BY <3>1, <3>2
  <2>4. held \subseteq live
    BY <1>1 DEF Sound, NothingDangles
  <2> HIDE DEF D
  <2> QED
    BY <2>1, <2>2, <2>3, <2>4 DEF Surviving
<1>2. Init => Sound
  BY DEF Init, Sound, TypeOK, NothingDangles, NothingLeaks, OneValue
<1> QED
  BY <1>1, <1>2, NextSound, PTL DEF Spec
=============================================================================
