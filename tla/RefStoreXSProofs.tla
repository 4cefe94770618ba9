--------------------------- MODULE RefStoreXSProofs ---------------------------
(***************************************************************************)
(* What a table refers to lives, in every state of RefStoreXS: between     *)
(* operations and in the middle of a cascade of deaths.  The parts of IInv *)
(* that Shape and the counts leave, one after the other; then IInv, and    *)
(* what follows from it.                                                   *)
(***************************************************************************)
EXTENDS RefStoreXSLemmas

-----------------------------------------------------------------------------
(* What is referred to lives.                                               *)

LEMMA CountsPositive ==
  ASSUME Shape, ObjectsCounted, IndexCounted, NEW n \in Node
  PROVE  /\ rc[n] \in Nat
         /\ rc[n] = Firm(n) + Occurs(todo, Holding(n))
         /\ Occurs(todo, Holding(n)) \in Nat
<1>1. Occurs(todo, Holding(n)) \in Nat /\ rc[n] \in Int
  <2>1. Len(todo) \in Nat
    BY DEF Shape, TodoShape
  <2> QED BY <2>1, PlacesFinite DEF Shape, DataShape, Typed
<1>2. n \in Object => rc[n] = Firm(n) + Occurs(todo, Holding(n))
  BY DEF ObjectsCounted, Firm, Refs
<1>3. n \in Index => rc[n] = Firm(n) + Occurs(todo, Holding(n))
  BY Apartness DEF IndexCounted, Firm
<1>4. n \in Object \/ n \in Index
  BY DEF Node
<1> QED BY <1>1, <1>2, <1>3, <1>4, FirmNat

\* A node that something refers to lives.
LEMMA CountedLive ==
  ASSUME Shape, ObjectsCounted, IndexCounted, LifeCounted
  PROVE  /\ \A n \in Node : Firm(n) >= 1 => life[n] = "live" /\ rc[n] >= 1
         /\ \A n \in Node : Occurs(todo, Holding(n)) >= 1 => life[n] = "live" /\ rc[n] >= 1
         /\ \A t \in ToSet(todo), n \in Node : t \in Holding(n) => life[n] = "live" /\ rc[n] >= 1
<1>1. ASSUME NEW n \in Node, rc[n] >= 1 PROVE life[n] = "live"
  BY <1>1, CountsPositive DEF LifeCounted
<1>2. ASSUME NEW n \in Node PROVE Firm(n) >= 1 => rc[n] >= 1
  BY CountsPositive, FirmNat DEF Node
<1>3. ASSUME NEW n \in Node PROVE Occurs(todo, Holding(n)) >= 1 => rc[n] >= 1
  BY CountsPositive, FirmNat DEF Node
<1>4. ASSUME NEW t \in ToSet(todo), NEW n \in Node, t \in Holding(n) PROVE Occurs(todo, Holding(n)) >= 1
  <2>1. todo \in Seq(Task)
    BY DEF Shape, TodoShape
  <2>2. Occurs(todo, Holding(n)) \in Nat /\ (Occurs(todo, Holding(n)) = 0 <=> ToSet(todo) \cap Holding(n) = {})
    BY <2>1, OccursIn
  <2> QED BY <1>4, <2>2
<1> QED BY <1>1, <1>2, <1>3, <1>4

LEMMA ReferredLive ==
  ASSUME Shape, ObjectsCounted, IndexCounted, LifeCounted
  PROVE  /\ \A o \in Object : o \in held \/ o \in values => life[o] = "live"
         /\ \A k \in Key : flookup[k].mode = "strong" => life[flookup[k].value] = "live"
         /\ \A a \in Attr, v \in Object : attrhash[a][v] = "strong" => life[v] = "live"
         /\ \A i \in Index : obj[i] = "strong" => life[TheObject(i)] = "live"
         /\ \A v \in Object : \A i \in Under(v) : life[i] = "live"
<1>1. ASSUME NEW o \in Object,
             o \in held \/ o \in values \/ StrongKeys(o) # {} \/ StrongAttrs(o) # {} \/ StrongObjs(o) # {}
      PROVE  life[o] = "live"
  <2>1. Refs(o) >= 1
    BY <1>1, RefsIs
  <2>2. Firm(o) >= 1 /\ o \in Node
    BY <2>1, Apartness DEF Firm
  <2> QED BY <2>2, CountedLive
<1>2. ASSUME NEW k \in Key, flookup[k].mode = "strong" PROVE life[flookup[k].value] = "live"
  <2>1. flookup[k].value \in Object /\ flookup[k] \in [mode : Entry, value : Object \cup {Null}]
    BY <1>2 DEF Shape, DataShape, Typed, EntriesTyped, Ref
  <2>2. k \in StrongKeys(flookup[k].value)
    BY <1>2, <2>1 DEF StrongKeys
  <2> QED BY <1>1, <2>1, <2>2
<1>3. ASSUME NEW a \in Attr, NEW v \in Object, attrhash[a][v] = "strong" PROVE life[v] = "live"
  <2>1. a \in StrongAttrs(v)
    BY <1>3 DEF StrongAttrs
  <2> QED BY <1>1, <2>1
<1>4. ASSUME NEW i \in Index, obj[i] = "strong" PROVE life[TheObject(i)] = "live"
  <2>1. TheObject(i) \in Object
    BY <1>4 DEF Shape, DataShape, EntriesTyped
  <2>2. i \in StrongObjs(TheObject(i))
    BY <1>4 DEF StrongObjs
  <2> QED BY <1>1, <2>1, <2>2
<1>5. ASSUME NEW v \in Object, NEW i \in Under(v) PROVE life[i] = "live"
  <2>1. i \in Index /\ i \in Node /\ i \notin Object
    BY UnderIs, Apartness DEF Shape, DataShape
  <2>2. Cardinality(Vhashes(i)) >= 1
    <3>1. v \in Vhashes(i)
      BY DEF Vhashes
    <3> QED BY <3>1, StrongFinite, CardSome
  <2>3. Gone(i) \in Nat
    BY DEF Gone, One
  <2>4. Firm(i) >= 1
    BY <2>1, <2>2, <2>3, StrongFinite DEF Firm
  <2> QED BY <2>1, <2>4, CountedLive
<1> QED BY <1>1, <1>2, <1>3, <1>4, <1>5

-----------------------------------------------------------------------------
(* What has a reference lives, and what lives has one or is kept.  LifeX    *)
(* says that X keeps this.                                                  *)

LEMMA LifeMore ==
  ASSUME LifeCounted, UNCHANGED life, kept \subseteq kept',
         \A n \in Node : rc'[n] = rc[n] \/ (life[n] = "live" /\ rc'[n] > 0)
  PROVE  LifeCounted'
BY DEF LifeCounted

LEMMA LifeSame ==
  ASSUME LifeCounted, UNCHANGED <<life, rc>>, kept \subseteq kept'
  PROVE  LifeCounted'
BY LifeMore

LEMMA LifeFault ==
  ASSUME LifeCounted, NEW what, Fault(what)
  PROVE  LifeCounted'
BY LifeSame DEF Fault, heap

\* The steps that change no count.
LEMMA LifeQuiet ==
  ASSUME LifeCounted,
         \/ DecAll \/ RunAction \/ DelSlookup \/ DelFlookup \/ DelRlookup \/ DelAttrhash
         \/ DelFromVhash \/ VhashCheck \/ EncapDestroyHook \/ KEncapCleanup \/ AttrDestroyTrigger
         \/ DelAttrLookup \/ EachValue \/ DelFromAttrhash \/ Foreach \/ PurgeEnd \/ DestroyAttrs
         \/ DestroyValues
  PROVE  LifeCounted'
<1>1. CASE DecAll
  BY <1>1, LifeSame DEF DecAll, heap
<1>2. CASE RunAction
  BY <1>2, LifeSame DEF RunAction, heap
<1>3. CASE DelSlookup
  BY <1>3, LifeSame DEF DelSlookup, heap
<1>4. CASE DelFlookup
  BY <1>4, LifeSame DEF DelFlookup, heap
<1>5. CASE DelRlookup
  BY <1>5, LifeSame DEF DelRlookup, heap
<1>6. CASE DelAttrhash
  BY <1>6, LifeSame, LifeFault DEF DelAttrhash, heap
<1>7. CASE DelFromVhash
  BY <1>7, LifeSame DEF DelFromVhash, heap
<1>8. CASE VhashCheck
  BY <1>8, LifeSame DEF VhashCheck, heap
<1>9. CASE EncapDestroyHook
  BY <1>9, LifeSame, LifeFault DEF EncapDestroyHook, heap
<1>10. CASE KEncapCleanup
  BY <1>10, LifeSame, LifeFault DEF KEncapCleanup, heap
<1>11. CASE AttrDestroyTrigger
  BY <1>11, LifeSame, LifeFault DEF AttrDestroyTrigger, heap
<1>12. CASE DelAttrLookup
  BY <1>12, LifeSame, LifeFault DEF DelAttrLookup, heap
<1>13. CASE EachValue
  BY <1>13, LifeSame, LifeFault DEF EachValue, heap
<1>14. CASE DelFromAttrhash
  BY <1>14, LifeSame DEF DelFromAttrhash, heap
<1>15. CASE Foreach
  BY <1>15, LifeSame, LifeFault DEF Foreach, heap
<1>16. CASE PurgeEnd
  BY <1>16, LifeSame DEF PurgeEnd, heap
<1>17. CASE DestroyAttrs
  BY <1>17, LifeSame, LifeFault DEF DestroyAttrs, heap, Died
<1>18. CASE DestroyValues
  BY <1>18, LifeSame DEF DestroyValues, heap
<1> QED BY <1>1, <1>2, <1>3, <1>4, <1>5, <1>6, <1>7, <1>8, <1>9, <1>10, <1>11, <1>12, <1>13, <1>14, <1>15, <1>16, <1>17, <1>18

\* A death.
LEMMA LifeDie ==
  ASSUME Shape, LifeCounted, NEW m \in Node, Die(m), \A n \in Node : n # m => (n \in kept => n \in kept')
  PROVE  LifeCounted'
<1> SUFFICES ASSUME NEW n \in Node
             PROVE  /\ life'[n] # "live" => rc'[n] = 0
                    /\ life'[n] = "live" => rc'[n] > 0 \/ n \in kept'
  BY DEF LifeCounted
<1>1. life'[n] = (IF n = m THEN "dying" ELSE life[n]) /\ rc'[n] = (IF n = m THEN 0 ELSE rc[n])
  BY DEF Die, Shape, DataShape, Typed
<1> QED BY <1>1 DEF LifeCounted

LEMMA LifeDec ==
  ASSUME Shape, LifeCounted, Dec
  PROVE  LifeCounted'
<1> DEFINE m == Top[2]
<1>1. m \in Node
  BY TopIs DEF Dec, Doing, Shape, TaskIs
<1>2. CASE Die(m) /\ UNCHANGED kept
  BY <1>1, <1>2, LifeDie
<1>3. CASE /\ life[m] = "live" /\ (rc[m] > 1 \/ m \in kept)
           /\ rc' = [rc EXCEPT ![m] = @ - 1] /\ UNCHANGED <<life, kept>>
  <2>1. \A n \in Node : rc'[n] = (IF n = m THEN rc[n] - 1 ELSE rc[n]) /\ rc[n] \in Int
    BY <1>3 DEF Shape, DataShape, Typed
  <2> QED BY <1>1, <1>3, <2>1 DEF LifeCounted
<1>4. CASE Fault("decrement of a freed node")
  BY <1>4, LifeFault
<1> QED BY <1>2, <1>3, <1>4 DEF Dec

LEMMA LifeKaEnd ==
  ASSUME Shape, LifeCounted, KaEnd
  PROVE  LifeCounted'
<1> DEFINE m == Top[2]
<1>1. m \in Node /\ kept' = kept \ {m}
  BY TopIs DEF KaEnd, Doing, Shape, TaskIs
<1>2. CASE Die(m)
  BY <1>1, <1>2, LifeDie
<1>3. CASE ~ (life[m] = "live" /\ rc[m] <= 0) /\ UNCHANGED <<life, rc>>
  <2>1. rc[m] \in Int
    BY <1>1 DEF Shape, DataShape, Typed
  <2> QED BY <1>1, <1>3, <2>1 DEF LifeCounted
<1> QED BY <1>2, <1>3 DEF KaEnd

LEMMA LifeFreed ==
  ASSUME Shape, LifeCounted, Freed
  PROVE  LifeCounted'
<1> DEFINE m == Top[2]
<1>1. m \in Node /\ life[m] = "dying"
  <2>1. todo # <<>> /\ m \in Node /\ Top \in ToSet(todo) /\ Top = <<"free", m>>
    BY TopIs DEF Freed, Doing, Shape, TaskIs
  <2> QED BY <2>1 DEF Shape, TodoShape, FreeOpen
<1>2. \A n \in Node : life'[n] = IF n = m THEN "free" ELSE life[n]
  BY DEF Freed, Shape, DataShape, Typed
<1>3. UNCHANGED <<rc, kept>>
  BY DEF Freed
<1> QED BY <1>1, <1>2, <1>3 DEF LifeCounted

\* The hook of an attribute that lives keeps it.
LEMMA LifeEncapAttrDestroyHook ==
  ASSUME Shape, ObjectsCounted, IndexCounted, LifeCounted, HookRuns, EncapAttrDestroyHook
  PROVE  LifeCounted'
<1> DEFINE a == Top[2]
<1>1. todo # <<>> /\ a \in Attr /\ a \in Node /\ Top = Hook(a)
  BY TopIs, ActionIs, Apartness DEF EncapAttrDestroyHook, Doing, Shape, TaskIs, ActionKinds, Hook
<1>2. life[a] = "live"
  BY <1>1 DEF HookRuns
<1>3. rc' = AddRef(rc, a) /\ UNCHANGED <<life, kept>>
  BY <1>2 DEF EncapAttrDestroyHook
<1>4. \A n \in Node : rc[n] \in Nat /\ rc'[n] = IF n = a THEN rc[n] + 1 ELSE rc[n]
  BY <1>1, <1>3, CountsPositive DEF AddRef, Shape, DataShape, Typed
<1> QED BY <1>2, <1>3, <1>4, LifeMore

\* What purge goes through lives: the program, or what is left to do, has it.
LEMMA LifePurgeBegin ==
  ASSUME Shape, ObjectsCounted, IndexCounted, LifeCounted, PurgeBegin
  PROVE  LifeCounted'
<1> DEFINE v == Top[2]
<1>1. todo # <<>> /\ Top[1] = "purge" /\ v \in Object /\ v \in Node
  BY TopIs, Apartness DEF PurgeBegin, Doing, Shape, TaskIs
<1>2. v \in held \/ \E b \in ToSet(todo) : b \in Holding(v)
  <2>1. Grounded(Top, ToSet(Tail(todo)), held) /\ ToSet(todo) = {Top} \cup ToSet(Tail(todo))
    BY <1>1, TopIs DEF Shape
  <2> QED BY <1>1, <2>1 DEF Grounded
<1>3. life[v] = "live"
  BY <1>1, <1>2, ReferredLive, CountedLive
<1>4. rc' = AddRef(rc, v) /\ UNCHANGED <<life, kept>>
  BY DEF PurgeBegin
<1>5. \A n \in Node : rc[n] \in Nat /\ rc'[n] = IF n = v THEN rc[n] + 1 ELSE rc[n]
  BY <1>1, <1>4, CountsPositive DEF AddRef, Shape, DataShape, Typed
<1> QED BY <1>3, <1>4, <1>5, LifeMore

LEMMA LifeDestroyAttr ==
  ASSUME Shape, ObjectsCounted, IndexCounted, LifeCounted, DestroyAttr
  PROVE  LifeCounted'
<1> DEFINE a == Top[2]
           V == Top[3]
<1>1. todo # <<>> /\ a \in Attr /\ V \in SUBSET Object
  BY TopIs DEF DestroyAttr, Doing, Shape, TaskIs
<1>2. CASE UNCHANGED heap
  BY <1>2, LifeSame DEF heap
<1>3. CASE Fault("DESTROY died")
  BY <1>3, LifeFault
<1>4. ASSUME NEW v \in V, rc' = IF attrhash[a][v] = "strong" THEN AddRef(rc, v) ELSE rc,
             UNCHANGED <<life, kept>>
      PROVE  LifeCounted'
  <2>1. v \in Object /\ v \in Node
    BY <1>1, Apartness
  <2>2. CASE attrhash[a][v] = "strong"
    <3>1. life[v] = "live"
      BY <1>1, <2>1, <2>2, ReferredLive
    <3>2. \A n \in Node : rc[n] \in Nat /\ rc'[n] = IF n = v THEN rc[n] + 1 ELSE rc[n]
      BY <1>4, <2>1, <2>2, CountsPositive DEF AddRef, Shape, DataShape, Typed
    <3> QED BY <1>4, <3>1, <3>2, LifeMore
  <2>3. CASE attrhash[a][v] # "strong"
    BY <1>4, <2>3, LifeSame
  <2> QED BY <2>2, <2>3
<1> QED BY <1>2, <1>3, <1>4 DEF DestroyAttr, Died

LEMMA LifePushValue ==
  ASSUME Shape, ObjectsCounted, IndexCounted, LifeCounted, PushValue
  PROVE  LifeCounted'
<1> DEFINE v == Top[2]
<1>1. todo # <<>> /\ v \in Node
  BY TopIs, Apartness DEF PushValue, Doing, Shape, TaskIs
<1>2. CASE life[v] # "live"
  BY <1>2, LifeFault DEF PushValue, Died
<1>3. CASE life[v] = "live"
  <2>1. rc' = (IF v \in values THEN rc ELSE AddRef(rc, v)) /\ UNCHANGED <<life, kept>>
    BY <1>3 DEF PushValue
  <2>2. \A n \in Node : rc[n] \in Nat /\ (rc'[n] = rc[n] \/ (n = v /\ rc'[n] = rc[n] + 1))
    BY <1>1, <2>1, CountsPositive DEF AddRef, Shape, DataShape, Typed
  <2> QED BY <1>3, <2>1, <2>2, LifeMore
<1> QED BY <1>2, <1>3

\* What DESTROY takes from the keys it holds itself.
LEMMA LifeDestroyKeys ==
  ASSUME Shape, Shape', LifeCounted, ObjectsCounted, IndexCounted, WeakLive, ObjectsCounted', IndexCounted', DestroyKeys
  PROVE  LifeCounted'
<1> DEFINE K == {k \in Key : slookup[k] # "none"}
           V == {flookup[k].value : k \in K}
           Strong(v) == {k \in K : flookup[k] = [mode |-> "strong", value |-> v]}
<1>1. CASE \E k \in K : slookup[k] # "weak" \/ flookup[k].mode \notin Ref
  BY <1>1, LifeFault DEF DestroyKeys, Died
<1>2. CASE ~ \E k \in K : slookup[k] # "weak" \/ flookup[k].mode \notin Ref
  <2>1. /\ values' = values \cup V
        /\ rc' = [n \in Node |-> IF n \in V
                      THEN rc[n] + (IF n \in values THEN 0 ELSE 1) - Cardinality(Strong(n))
                      ELSE rc[n]]
        /\ UNCHANGED <<life, kept>>
    BY <1>2 DEF DestroyKeys
  <2>2. ASSUME NEW n \in V PROVE life[n] = "live" /\ rc'[n] > 0
    <3>1. PICK k \in K : n = flookup[k].value
      OBVIOUS
    <3>2. k \in Key /\ flookup[k].mode \in Ref
      BY <1>2
    <3>3. n \in Object /\ n \in Node
      BY <3>1, <3>2, Apartness DEF Shape, DataShape, EntriesTyped
    <3>4. life[n] = "live"
      BY <3>1, <3>2, ReferredLive DEF WeakLive, Ref
    <3>5. Refs(n)' <= rc'[n] /\ Refs(n)' >= 1
      <4>1. rc'[n] = Refs(n)' + Occurs(todo', Holding(n))
        BY <3>3 DEF ObjectsCounted, Refs
      <4>2. Occurs(todo', Holding(n)) \in Nat /\ rc'[n] \in Int /\ Firm(n)' \in Nat
        BY <3>3, CountNat
      <4>3. n \in values'
        BY <2>1
      <4>4. One(n \in values)' = 1 /\ One(n \in held)' \in Nat
        BY <4>3 DEF One
      <4>5. Refs(n)' \in Nat /\ Refs(n)' >= 1
        BY <4>4, StrongFiniteNext DEF Refs
      <4> QED BY <4>1, <4>2, <4>5
    <3>6. rc'[n] \in Int /\ Refs(n)' \in Int
      BY <3>3, FirmNat DEF Firm, Shape, DataShape, Typed
    <3> QED BY <3>4, <3>5, <3>6
  <2>3. \A n \in Node : n \notin V => rc'[n] = rc[n]
    BY <2>1
  <2> HIDE DEF V
  <2> QED BY <2>1, <2>2, <2>3, LifeMore
<1> QED BY <1>1, <1>2

\* What an operation takes a reference to lives.
LEMMA LifeTake ==
  ASSUME Shape, ObjectsCounted, IndexCounted, LifeCounted, NEW v \in Object, life[v] = "live", Take(v)
  PROVE  LifeCounted'
<1>1. rc' = AddRef(rc, v) /\ UNCHANGED <<life, kept>> /\ v \in Node
  BY Apartness DEF Take
<1>2. \A n \in Node : rc[n] \in Nat /\ rc'[n] = IF n = v THEN rc[n] + 1 ELSE rc[n]
  BY <1>1, CountsPositive DEF AddRef, Shape, DataShape, Typed
<1> QED BY <1>1, <1>2, LifeMore

LEMMA FoundLive ==
  ASSUME Shape, ObjectsCounted, IndexCounted, LifeCounted, WeakLive
  PROVE  /\ \A k \in Key : flookup[k].mode \in Ref =>
              /\ flookup[k].value \in Object /\ life[flookup[k].value] = "live"
         /\ \A a \in Attr, v \in Object : attrhash[a][v] \in Ref => life[v] = "live"
         /\ \A i \in Index : Nameable(i) /\ IsEncap(i) => life[TheObject(i)] = "live"
<1>1. ASSUME NEW k \in Key, flookup[k].mode \in Ref
      PROVE  flookup[k].value \in Object /\ life[flookup[k].value] = "live"
  BY <1>1, ReferredLive DEF Shape, DataShape, EntriesTyped, WeakLive, Ref
<1>2. ASSUME NEW a \in Attr, NEW v \in Object, attrhash[a][v] \in Ref PROVE life[v] = "live"
  BY <1>2, ReferredLive DEF WeakLive, Ref
<1>3. ASSUME NEW i \in Index, Nameable(i), IsEncap(i) PROVE life[TheObject(i)] = "live"
  <2>1. TheObject(i) \in Object
    BY <1>3, Encap
  <2>2. TheObject(i) \in held
    BY <1>3, <2>1 DEF Nameable, ObjectsOf, Store!ObjectsOf, TheObject
  <2> QED BY <2>1, <2>2, ReferredLive
<1> QED BY <1>1, <1>2, <1>3

LEMMA LifeNew ==
  ASSUME Shape, LifeCounted, NEW o \in Object, New(o)
  PROVE  LifeCounted'
<1>1. /\ o \in Node /\ UNCHANGED kept
      /\ \A n \in Node : life'[n] = IF n = o THEN "live" ELSE life[n]
      /\ \A n \in Node : rc'[n] = IF n = o THEN 1 ELSE rc[n]
  BY Apartness DEF New, Shape, DataShape, Typed
<1> QED BY <1>1 DEF LifeCounted

LEMMA LifeFetch ==
  ASSUME Shape, ObjectsCounted, IndexCounted, LifeCounted, WeakLive,
         NEW i, (i \in Key /\ FetchSk(i)) \/ (i \in Attr /\ FetchA(i))
  PROVE  LifeCounted'
<1>1. CASE i \in Key /\ FetchSk(i)
  <2> DEFINE v == flookup[i].value
  <2>1. v \in Object /\ life[v] = "live" /\ Take(v)
    BY <1>1, FoundLive DEF FetchSk
  <2> HIDE DEF v
  <2> QED BY <2>1, LifeTake
<1>2. CASE i \in Attr /\ FetchA(i)
  BY <1>2, FoundLive, LifeTake DEF FetchA
<1> QED BY <1>1, <1>2

LEMMA LifeUnlinkSk ==
  ASSUME Shape, ObjectsCounted, IndexCounted, LifeCounted, WeakLive, NEW k \in Key, UnlinkSk(k)
  PROVE  LifeCounted'
<1> DEFINE v == flookup[k].value
<1>1. v \in Object /\ life[v] = "live" /\ v \in Node /\ k \in Node /\ k # v /\ life[k] = "live"
  BY FoundLive, Apartness DEF UnlinkSk, Ukey2ikey, WeakLive
<1>2. rc' = AddRef(AddRef(rc, k), v) /\ UNCHANGED <<life, kept>>
  BY DEF UnlinkSk
<1> HIDE DEF v
<1>3. \A n \in Node : rc[n] \in Nat /\ rc'[n] = IF n = v \/ n = k THEN rc[n] + 1 ELSE rc[n]
  BY <1>1, <1>2, CountsPositive DEF AddRef, Shape, DataShape, Typed
<1> QED BY <1>1, <1>2, <1>3, LifeMore

LEMMA LifePurgeBySk ==
  ASSUME Shape, ObjectsCounted, IndexCounted, LifeCounted, WeakLive, NEW k \in Key, PurgeBySk(k)
  PROVE  LifeCounted'
<1> DEFINE v == flookup[k].value
<1>1. v \in Object /\ life[v] = "live" /\ v \in Node
  BY FoundLive, Apartness DEF PurgeBySk
<1>2. rc' = AddRef(rc, v) /\ UNCHANGED <<life, kept>>
  BY DEF PurgeBySk
<1> HIDE DEF v
<1>3. \A n \in Node : rc[n] \in Nat /\ rc'[n] = IF n = v THEN rc[n] + 1 ELSE rc[n]
  BY <1>1, <1>2, CountsPositive DEF AddRef, Shape, DataShape, Typed
<1> QED BY <1>1, <1>2, <1>3, LifeMore

LEMMA LifePurgeByA ==
  ASSUME Shape, ObjectsCounted, IndexCounted, LifeCounted, WeakLive, NEW a \in Attr, PurgeByA(a)
  PROVE  LifeCounted'
<1> DEFINE V == {v \in Object : attrhash[a][v] \in Ref}
<1>1. \A v \in V : life[v] = "live"
  BY FoundLive
<1>2. rc' = [n \in Node |-> IF n \in V THEN rc[n] + 1 ELSE rc[n]] /\ UNCHANGED <<life, kept>>
  BY DEF PurgeByA
<1> HIDE DEF V
<1>3. \A n \in Node : rc[n] \in Nat /\ rc'[n] = IF n \in V THEN rc[n] + 1 ELSE rc[n]
  BY <1>2, CountsPositive
<1> QED BY <1>1, <1>2, <1>3, LifeMore

\* What is stored lives: the program has it.
LEMMA LifeStoreSk ==
  ASSUME Shape, ObjectsCounted, IndexCounted, LifeCounted, WeakLive,
         NEW k \in Key, NEW v \in Object, NEW sv \in BOOLEAN, NEW sk \in BOOLEAN, StoreSk(k, v, sv, sk)
  PROVE  LifeCounted'
<1> DEFINE o == TheObject(k)
           e == IsEncap(k) /\ sk
           counted == [rc EXCEPT ![k] = 1]
           keyheld == IF e THEN AddRef(counted, o) ELSE counted
<1>1. /\ k \in Node /\ v \in Node /\ k # v /\ life[v] = "live"
      /\ e => o \in Node /\ o # k /\ life[o] = "live"
  BY Encap, Apartness, ReferredLive, FoundLive DEF StoreSk
<1>2. rc' = (IF sv THEN AddRef(keyheld, v) ELSE keyheld) /\ life' = [life EXCEPT ![k] = "live"]
      /\ UNCHANGED kept
  BY DEF StoreSk
<1>3. \A n \in Node : rc[n] \in Nat
  BY CountsPositive
<1>4. rc \in [Node -> Int] /\ \A n \in Node : life'[n] = IF n = k THEN "live" ELSE life[n]
  BY <1>2 DEF Shape, DataShape, Typed
<1> HIDE DEF e, o
<1>5. /\ keyheld \in [Node -> Int] /\ keyheld[k] = 1
      /\ \A n \in Node : n # k => keyheld[n] = rc[n] \/ (n = o /\ e /\ keyheld[n] = rc[n] + 1)
  BY <1>1, <1>4 DEF AddRef
<1> HIDE DEF keyheld
<1>6. /\ rc'[k] = 1
      /\ \A n \in Node : n # k => rc'[n] = rc[n] \/ (life[n] = "live" /\ rc'[n] > 0)
  BY <1>1, <1>2, <1>3, <1>5 DEF AddRef
<1> QED BY <1>1, <1>2, <1>4, <1>6 DEF LifeCounted

LEMMA LifeStoreA ==
  ASSUME Shape, Shape', ObjectsCounted, IndexCounted, LifeCounted, WeakLive, IndexCounted',
         NEW a \in Attr, NEW v \in Object, NEW sv \in BOOLEAN, NEW sa \in BOOLEAN, StoreA(a, v, sv, sa)
  PROVE  LifeCounted'
<1> DEFINE new == attr_lookup[a] = "none"
           o == TheObject(a)
           e == new /\ IsEncap(a) /\ sa
           made == IF new THEN [rc EXCEPT ![a] = 1] ELSE rc
           objheld == IF e THEN AddRef(made, o) ELSE made
           inserted == IF FirstValue(a) THEN objheld ELSE AddRef(objheld, a)
<1>1. /\ a \in Node /\ v \in Node /\ a # v /\ life[v] = "live"
      /\ e => o \in Node /\ o # a /\ life[o] = "live"
  BY Encap, Apartness, ReferredLive, FoundLive DEF StoreA
<1>2. rc' = (IF sv THEN AddRef(inserted, v) ELSE inserted) /\ life' = [life EXCEPT ![a] = "live"]
      /\ UNCHANGED kept /\ rlookup' = WithVhash(v, a)
  BY DEF StoreA
<1>3. \A n \in Node : rc[n] \in Nat
  BY CountsPositive
<1>4. rc \in [Node -> Int] /\ \A n \in Node : life'[n] = IF n = a THEN "live" ELSE life[n]
  BY <1>2 DEF Shape, DataShape, Typed
<1> HIDE DEF e, o
<1>5. made \in [Node -> Int] /\ \A n \in Node : n # a => made[n] = rc[n]
  BY <1>1, <1>4
<1> HIDE DEF made
<1>6. /\ objheld \in [Node -> Int]
      /\ \A n \in Node : n # a => objheld[n] = rc[n] \/ (n = o /\ e /\ objheld[n] = rc[n] + 1)
  BY <1>1, <1>5 DEF AddRef
<1> HIDE DEF objheld
<1>7. inserted \in [Node -> Int] /\ \A n \in Node : n # a => inserted[n] = objheld[n]
  BY <1>1, <1>6 DEF AddRef
<1> HIDE DEF inserted
<1>8. \A n \in Node : n # a => rc'[n] = rc[n] \/ (life[n] = "live" /\ rc'[n] > 0)
  BY <1>1, <1>2, <1>3, <1>6, <1>7 DEF AddRef
<1>9. rc'[a] > 0
  <2>1. a \in Index /\ Typed
    BY Apartness DEF Shape, DataShape
  <2>2. a \in Under(v)'
    BY <1>2, <2>1, VhashMade
  <2>3. Vhashes(a)' # {}
    BY <2>2 DEF Vhashes
  <2>4. Cardinality(Vhashes(a))' >= 1
    BY <2>3, StrongFiniteNext, FS_EmptySet
  <2>5. Gone(a)' \in Nat /\ Occurs(todo', Holding(a)) \in Nat
    BY <1>1, CountNat DEF Gone, One
  <2> QED BY <2>1, <2>4, <2>5, StrongFiniteNext DEF IndexCounted
<1> QED BY <1>1, <1>2, <1>4, <1>8, <1>9 DEF LifeCounted

LEMMA LifeInit ==
  ASSUME Init
  PROVE  LifeCounted
BY DEF Init, LifeCounted

LEMMA LifeNext ==
  ASSUME Shape, Shape', ObjectsCounted, IndexCounted, LifeCounted, WeakLive, HookRuns,
         ObjectsCounted', IndexCounted', [Next]_vars
  PROVE  LifeCounted'
<1>1. CASE UNCHANGED vars
  BY <1>1, LifeSame DEF vars, heap
<1>2. CASE Step
  BY <1>2, LifeQuiet, LifeDec, LifeKaEnd, LifeFreed, LifeEncapAttrDestroyHook, LifePurgeBegin,
     LifeDestroyAttr, LifePushValue, LifeDestroyKeys DEF Step
<1>3. ASSUME NEW o \in Object, New(o) \/ Drop(o) \/ Purge(o)
      PROVE  LifeCounted'
  BY <1>3, LifeNew, LifeSame DEF Drop, Purge, heap
<1>4. ASSUME NEW k \in Key, FetchSk(k) \/ UnlinkSk(k) \/ PurgeBySk(k)
      PROVE  LifeCounted'
  BY <1>4, LifeFetch, LifeUnlinkSk, LifePurgeBySk
<1>5. ASSUME NEW a \in Attr, FetchA(a) \/ UnlinkA(a) \/ PurgeByA(a)
      PROVE  LifeCounted'
  <2>1. CASE UnlinkA(a)
    BY <2>1, LifeSame DEF UnlinkA, heap
  <2> QED BY <1>5, <2>1, LifeFetch, LifePurgeByA
<1>6. CASE Destroy
  BY <1>6, LifeSame DEF Destroy, heap
<1>7. ASSUME NEW a \in Attr, NEW v \in Object, DissocA(a, v)
      PROVE  LifeCounted'
  BY <1>7, LifeSame DEF DissocA, heap
<1>8. CASE Operation
  BY <1>3, <1>4, <1>5, <1>6, <1>7, <1>8, LifeStoreSk, LifeStoreA DEF Operation
<1> QED BY <1>1, <1>2, <1>8 DEF Next

-----------------------------------------------------------------------------
(* What is weakly referred to lives.  WeakX says that X keeps this: a death *)
(* makes every weak reference to the node undef, an operation makes one     *)
(* only to what lives.                                                      *)

LEMMA WeakStays ==
  ASSUME WeakLive, DataShape, \A n \in Node : life[n] = "live" => life'[n] = "live",
         \A k \in Key : slookup'[k] = slookup[k] \/ slookup'[k] \notin Ref,
         \A k \in Key : flookup'[k] = flookup[k] \/ flookup'[k].mode # "weak",
         \A a \in Attr : attr_lookup'[a] = attr_lookup[a] \/ attr_lookup'[a] \notin Ref,
         \A i \in Index : obj'[i] = obj[i] \/ obj'[i] # "weak",
         \A a \in Attr, v \in Object : attrhash'[a][v] = attrhash[a][v] \/ attrhash'[a][v] # "weak"
  PROVE  WeakLive'
<1>1. \A n \in Object : n \in Node
  BY Apartness
<1>2. \A n \in Index : n \in Node
  BY Apartness
<1>3. ASSUME NEW k \in Key, flookup'[k].mode = "weak" PROVE life'[flookup'[k].value] = "live"
  <2>1. flookup'[k] = flookup[k] /\ flookup[k].mode = "weak"
    BY <1>3
  <2>2. flookup[k].value \in Object
    BY <2>1 DEF DataShape, EntriesTyped, Ref
  <2> QED BY <1>1, <2>1, <2>2 DEF WeakLive
<1>4. ASSUME NEW i \in Index, obj'[i] = "weak" PROVE life'[TheObject(i)] = "live"
  <2>1. TheObject(i) \in Object /\ obj[i] = "weak"
    BY <1>4 DEF DataShape, EntriesTyped
  <2> QED BY <1>1, <2>1 DEF WeakLive
<1>5. /\ \A k \in Key : slookup'[k] # "strong"
      /\ \A a \in Attr : attr_lookup'[a] # "strong"
  BY DEF WeakLive, Ref
<1>6. /\ \A k \in Key : slookup'[k] = "weak" => life'[k] = "live"
      /\ \A a \in Attr : attr_lookup'[a] = "weak" => life'[a] = "live"
  BY <1>2, Apartness DEF WeakLive, Ref
<1>7. \A a \in Attr, v \in Object : attrhash'[a][v] = "weak" => life'[v] = "live"
  BY <1>1 DEF WeakLive
<1> QED BY <1>3, <1>4, <1>5, <1>6, <1>7 DEF WeakLive

LEMMA WeakSame ==
  ASSUME WeakLive, UNCHANGED <<life, slookup, flookup, attr_lookup, obj, attrhash>>
  PROVE  WeakLive'
BY DEF WeakLive

LEMMA WeakFault ==
  ASSUME WeakLive, NEW what, Fault(what)
  PROVE  WeakLive'
BY WeakSame DEF Fault, heap, tables, blobs

\* The steps that change no entry.
LEMMA WeakQuiet ==
  ASSUME WeakLive,
         \/ DecAll \/ RunAction \/ DelRlookup \/ DelFromVhash \/ VhashCheck \/ EncapDestroyHook
         \/ EachValue \/ PurgeBegin \/ Foreach \/ PurgeEnd \/ DestroyAttrs \/ DestroyAttr
         \/ PushValue \/ DestroyValues
  PROVE  WeakLive'
<1>1. CASE DecAll
  BY <1>1, WeakSame DEF DecAll, heap, tables, blobs
<1>2. CASE RunAction
  BY <1>2, WeakSame DEF RunAction, heap, tables, blobs
<1>3. CASE DelRlookup
  BY <1>3, WeakSame DEF DelRlookup, heap, tables, blobs
<1>4. CASE DelFromVhash
  BY <1>4, WeakSame DEF DelFromVhash, heap, tables, blobs
<1>5. CASE VhashCheck
  BY <1>5, WeakSame DEF VhashCheck, heap, tables, blobs
<1>6. CASE EncapDestroyHook
  BY <1>6, WeakSame, WeakFault DEF EncapDestroyHook, heap, tables, blobs
<1>7. CASE EachValue
  BY <1>7, WeakSame, WeakFault DEF EachValue, heap, tables, blobs
<1>8. CASE PurgeBegin
  BY <1>8, WeakSame DEF PurgeBegin, heap, tables, blobs
<1>9. CASE Foreach
  BY <1>9, WeakSame, WeakFault DEF Foreach, heap, tables, blobs
<1>10. CASE PurgeEnd
  BY <1>10, WeakSame DEF PurgeEnd, heap, tables, blobs
<1>11. CASE DestroyAttrs
  BY <1>11, WeakSame, WeakFault DEF DestroyAttrs, heap, tables, blobs, Died
<1>12. CASE DestroyAttr
  BY <1>12, WeakSame, WeakFault DEF DestroyAttr, heap, tables, blobs, Died
<1>13. CASE PushValue
  BY <1>13, WeakSame, WeakFault DEF PushValue, heap, tables, blobs, Died
<1>14. CASE DestroyValues
  BY <1>14, WeakSame DEF DestroyValues, heap, tables, blobs
<1> QED BY <1>1, <1>2, <1>3, <1>4, <1>5, <1>6, <1>7, <1>8, <1>9, <1>10, <1>11, <1>12, <1>13, <1>14

\* The steps that delete entries.
LEMMA WeakDelSlookup ==
  ASSUME Shape, WeakLive, DelSlookup
  PROVE  WeakLive'
<1>1. UNCHANGED <<life, flookup, attr_lookup, obj, attrhash>>
  BY DEF DelSlookup, heap, blobs
<1>2. \A k \in Key : slookup'[k] = slookup[k] \/ slookup'[k] \notin Ref
  BY DEF DelSlookup, Shape, DataShape, Typed, Ref
<1> QED BY <1>1, <1>2, WeakStays DEF Shape

LEMMA WeakDelFlookup ==
  ASSUME Shape, WeakLive, DelFlookup
  PROVE  WeakLive'
<1>1. UNCHANGED <<life, slookup, attr_lookup, obj, attrhash>>
  BY DEF DelFlookup, heap, blobs
<1>2. \A k \in Key : flookup'[k] = flookup[k] \/ flookup'[k].mode # "weak"
  BY DEF DelFlookup, Shape, DataShape, Typed, NoValue
<1> QED BY <1>1, <1>2, WeakStays DEF Shape

LEMMA WeakDelAttrhash ==
  ASSUME Shape, WeakLive, DelAttrhash \/ DelFromAttrhash
  PROVE  WeakLive'
<1> DEFINE a == Top[2]
           v == Top[3]
<1>1. CASE UNCHANGED life /\ attrhash' = [attrhash EXCEPT ![a][v] = "none"] /\ UNCHANGED <<tables, obj>>
  <2>1. \A b \in Attr, u \in Object : attrhash'[b][u] = attrhash[b][u] \/ attrhash'[b][u] # "weak"
    BY <1>1 DEF Shape, DataShape, Typed
  <2> QED BY <1>1, <2>1, WeakStays DEF Shape, tables
<1>2. CASE Fault("use of a freed attribute hash")
  BY <1>2, WeakFault
<1> QED BY <1>1, <1>2 DEF DelAttrhash, DelFromAttrhash, heap

LEMMA WeakLessObj ==
  ASSUME Shape, WeakLive, KEncapCleanup \/ EncapAttrDestroyHook \/ AttrDestroyTrigger
  PROVE  WeakLive'
<1> DEFINE i == Top[2]
<1>1. ASSUME NEW x, x # "weak", obj' = [obj EXCEPT ![i] = x], UNCHANGED <<life, tables, attrhash>>
      PROVE  WeakLive'
  <2>1. \A j \in Index : obj'[j] = obj[j] \/ obj'[j] # "weak"
    BY <1>1 DEF Shape, DataShape, Typed
  <2> QED BY <1>1, <2>1, WeakStays DEF Shape, tables
<1>2. CASE KEncapCleanup
  BY <1>1, <1>2, WeakFault DEF KEncapCleanup
<1>3. CASE EncapAttrDestroyHook
  BY <1>1, <1>3, WeakFault DEF EncapAttrDestroyHook
<1>4. CASE AttrDestroyTrigger
  <2>1. CASE Fault("use of a freed attribute or object")
    BY <2>1, WeakFault
  <2>2. CASE /\ obj' = [obj EXCEPT ![i] = IF obj[i] = "none" THEN "none" ELSE "dangling"]
             /\ UNCHANGED <<life, tables, attrhash>>
    <3> DEFINE x == IF obj[i] = "none" THEN "none" ELSE "dangling"
    <3>1. x # "weak" /\ obj' = [obj EXCEPT ![i] = x]
      BY <2>2
    <3> HIDE DEF x
    <3> QED BY <1>1, <2>2, <3>1
  <2> QED BY <1>4, <2>1, <2>2 DEF AttrDestroyTrigger
<1> QED BY <1>2, <1>3, <1>4

LEMMA WeakDelAttrLookup ==
  ASSUME Shape, WeakLive, DelAttrLookup
  PROVE  WeakLive'
<1>1. CASE attr_lookup' = [attr_lookup EXCEPT ![Top[2]] = "none"]
           /\ UNCHANGED <<life, slookup, flookup, obj, attrhash>>
  <2>1. \A a \in Attr : attr_lookup'[a] = attr_lookup[a] \/ attr_lookup'[a] \notin Ref
    BY <1>1 DEF Shape, DataShape, Typed, Ref
  <2> QED BY <1>1, <2>1, WeakStays DEF Shape
<1>2. CASE Fault("use of a freed attribute")
  BY <1>2, WeakFault
<1> QED BY <1>1, <1>2 DEF DelAttrLookup, blobs

LEMMA WeakDestroyKeys ==
  ASSUME Shape, WeakLive, DestroyKeys
  PROVE  WeakLive'
<1>1. CASE Fault("DESTROY died")
  BY <1>1, WeakFault
<1>2. CASE /\ slookup' = [k \in Key |-> "none"]
           /\ \A k \in Key : flookup'[k] = NoValue \/ flookup'[k] = flookup[k]
           /\ UNCHANGED <<life, attr_lookup, blobs>>
  <2>1. \A k \in Key : slookup'[k] \notin Ref /\ (flookup'[k] = flookup[k] \/ flookup'[k].mode # "weak")
    BY <1>2 DEF Ref, NoValue
  <2> QED BY <1>2, <2>1, WeakStays DEF Shape, blobs
<1> QED BY <1>1, <1>2 DEF DestroyKeys, Died

LEMMA WeakFreed ==
  ASSUME Shape, WeakLive, Freed
  PROVE  WeakLive'
<1> DEFINE m == Top[2]
<1>1. m \in Node /\ life[m] = "dying"
  <2>1. todo # <<>> /\ m \in Node /\ Top \in ToSet(todo) /\ Top = <<"free", m>>
    BY TopIs DEF Freed, Doing, Shape, TaskIs
  <2> QED BY <2>1 DEF Shape, TodoShape, FreeOpen
<1>2. \A n \in Node : life[n] = "live" => life'[n] = "live"
  BY <1>1 DEF Freed, Shape, DataShape, Typed
<1>3. UNCHANGED <<slookup, flookup, attr_lookup>>
  BY DEF Freed, tables
<1>4. \A i \in Index : obj'[i] = obj[i] \/ obj'[i] # "weak"
  BY DEF Freed
<1>5. \A a \in Attr, v \in Object : attrhash'[a][v] = attrhash[a][v] \/ attrhash'[a][v] # "weak"
  BY DEF Freed
<1> QED BY <1>2, <1>3, <1>4, <1>5, WeakStays DEF Shape

\* A death clears the weak references to what dies.
LEMMA WeakDie ==
  ASSUME Shape, WeakLive, NEW m \in Node, Die(m)
  PROVE  WeakLive'
<1>1. \A n \in Node : n # m /\ life[n] = "live" => life'[n] = "live"
  BY DEF Die, Shape, DataShape, Typed
<1>2. \A x : Cleared(x) # "weak" /\ (Cleared(x) = "strong" <=> x = "strong")
  BY DEF Cleared
<1>3. /\ \A k \in Key : slookup'[k] # "strong" /\ (slookup'[k] = "weak" => life'[k] = "live")
      /\ \A a \in Attr : attr_lookup'[a] # "strong" /\ (attr_lookup'[a] = "weak" => life'[a] = "live")
  BY <1>1, <1>2, Apartness DEF Die, WeakLive
<1>4. ASSUME NEW k \in Key, flookup'[k].mode = "weak" PROVE life'[flookup'[k].value] = "live"
  <2> DEFINE e == flookup[k]
  <2>1. flookup'[k] = IF e.value = m THEN [e EXCEPT !.mode = Cleared(e.mode)] ELSE e
    BY DEF Die
  <2>2. e \in [mode : Entry, value : Object \cup {Null}]
    BY DEF Shape, DataShape, Typed
  <2>3. e.mode \in Ref => e.value \in Object /\ e.value \in Node
    BY Apartness DEF Shape, DataShape, EntriesTyped
  <2>4. e.mode = "weak" => life[e.value] = "live"
    BY DEF WeakLive
  <2> HIDE DEF e
  <2>5. [e EXCEPT !.mode = Cleared(e.mode)].mode = Cleared(e.mode)
    BY <2>2
  <2>6. e.value # m /\ flookup'[k] = e
    BY <1>2, <1>4, <2>1, <2>5
  <2> QED BY <1>1, <1>4, <2>3, <2>4, <2>6 DEF Ref
<1>5. ASSUME NEW i \in Index, obj'[i] = "weak" PROVE life'[TheObject(i)] = "live"
  <2>1. TheObject(i) # m /\ obj[i] = "weak"
    BY <1>2, <1>5 DEF Die
  <2>2. TheObject(i) \in Node
    BY <2>1, Apartness DEF Shape, DataShape, EntriesTyped
  <2> QED BY <1>1, <2>1, <2>2 DEF WeakLive
<1>6. ASSUME NEW a \in Attr, NEW v \in Object, attrhash'[a][v] = "weak" PROVE life'[v] = "live"
  <2>1. v # m /\ attrhash[a][v] = "weak"
    BY <1>2, <1>6 DEF Die
  <2> QED BY <1>1, <2>1, Apartness DEF WeakLive
<1> QED BY <1>3, <1>4, <1>5, <1>6 DEF WeakLive

LEMMA WeakDec ==
  ASSUME Shape, WeakLive, Dec \/ KaEnd
  PROVE  WeakLive'
<1>1. Top[2] \in Node
  BY TopIs DEF Dec, KaEnd, Doing, Shape, TaskIs
<1>2. CASE Die(Top[2])
  BY <1>1, <1>2, WeakDie
<1>3. CASE UNCHANGED <<life, tables, blobs>>
  BY <1>3, WeakSame DEF tables, blobs
<1> QED BY <1>2, <1>3 DEF Dec, KaEnd, Fault, heap

\* Storing makes references to what lives.
LEMMA WeakStoreSk ==
  ASSUME Shape, ObjectsCounted, IndexCounted, LifeCounted, WeakLive,
         NEW k \in Key, NEW v \in Object, NEW sv \in BOOLEAN, NEW sk \in BOOLEAN, StoreSk(k, v, sv, sk)
  PROVE  WeakLive'
<1>1. k \in Index /\ k \in Node /\ life[v] = "live" /\ v # k
  BY Apartness, ReferredLive DEF StoreSk
<1>2. \A n \in Node : life'[n] = IF n = k THEN "live" ELSE life[n]
  BY DEF StoreSk, Shape, DataShape, Typed
<1>3. UNCHANGED <<attr_lookup, attrhash>>
  BY DEF StoreSk
<1>4. \A j \in Key : slookup'[j] = IF j = k THEN "weak" ELSE slookup[j]
  BY DEF StoreSk, Shape, DataShape, Typed
<1>5. ASSUME NEW j \in Key, flookup'[j].mode = "weak" PROVE life'[flookup'[j].value] = "live"
  <2>1. CASE j = k
    <3>1. flookup'[j].value = v /\ v \in Node
      BY <2>1, Apartness DEF StoreSk, Shape, DataShape, Typed
    <3> QED BY <1>1, <1>2, <3>1
  <2>2. CASE j # k
    <3>1. flookup'[j] = flookup[j]
      BY <2>2 DEF StoreSk, Shape, DataShape, Typed
    <3>2. flookup[j].value \in Node
      BY <1>5, <3>1, Apartness DEF Shape, DataShape, EntriesTyped, Ref
    <3> QED BY <1>2, <1>5, <3>1, <3>2 DEF WeakLive
  <2> QED BY <2>1, <2>2
<1>6. ASSUME NEW i \in Index, obj'[i] = "weak" PROVE life'[TheObject(i)] = "live"
  <2>1. CASE i = k /\ IsEncap(k)
    <3>1. life[TheObject(k)] = "live" /\ TheObject(k) \in Node
      BY <1>1, <2>1, FoundLive, Encap, Apartness DEF StoreSk
    <3> QED BY <1>2, <2>1, <3>1
  <2>2. CASE ~ (i = k /\ IsEncap(k))
    <3>1. obj'[i] = obj[i]
      BY <2>2 DEF StoreSk, Shape, DataShape, Typed
    <3>2. TheObject(i) \in Node
      BY <1>6, <3>1, Apartness DEF Shape, DataShape, EntriesTyped
    <3> QED BY <1>2, <1>6, <3>1, <3>2 DEF WeakLive
  <2> QED BY <2>1, <2>2
<1> QED BY <1>2, <1>3, <1>4, <1>5, <1>6, Apartness DEF WeakLive

LEMMA WeakStoreA ==
  ASSUME Shape, ObjectsCounted, IndexCounted, LifeCounted, WeakLive,
         NEW a \in Attr, NEW v \in Object, NEW sv \in BOOLEAN, NEW sa \in BOOLEAN, StoreA(a, v, sv, sa)
  PROVE  WeakLive'
<1>1. a \in Index /\ a \in Node /\ life[v] = "live" /\ v # a /\ v \in Node
  BY Apartness, ReferredLive DEF StoreA
<1>2. \A n \in Node : life'[n] = IF n = a THEN "live" ELSE life[n]
  BY DEF StoreA, Shape, DataShape, Typed
<1>3. UNCHANGED <<slookup, flookup>>
  BY DEF StoreA
<1>4. \A b \in Attr : attr_lookup'[b] = IF b = a THEN "weak" ELSE attr_lookup[b]
  BY DEF StoreA, Shape, DataShape, Typed
<1>5. ASSUME NEW b \in Attr, NEW u \in Object, attrhash'[b][u] = "weak" PROVE life'[u] = "live"
  <2>1. u = v \/ attrhash'[b][u] = attrhash[b][u]
    BY DEF StoreA, Shape, DataShape, Typed
  <2>2. life[u] = "live" /\ u \in Node
    BY <1>1, <1>5, <2>1, Apartness DEF WeakLive
  <2> QED BY <1>2, <2>2
<1>6. ASSUME NEW i \in Index, obj'[i] = "weak" PROVE life'[TheObject(i)] = "live"
  <2>1. CASE i = a /\ IsEncap(a)
    <3>1. life[TheObject(a)] = "live" /\ TheObject(a) \in Node
      BY <1>1, <2>1, FoundLive, Encap, Apartness DEF StoreA
    <3> QED BY <1>2, <2>1, <3>1
  <2>2. CASE ~ (i = a /\ IsEncap(a))
    <3>1. obj'[i] = obj[i]
      BY <2>2 DEF StoreA, Shape, DataShape, Typed
    <3>2. TheObject(i) \in Node
      BY <1>6, <3>1, Apartness DEF Shape, DataShape, EntriesTyped
    <3> QED BY <1>2, <1>6, <3>1, <3>2 DEF WeakLive
  <2> QED BY <2>1, <2>2
<1>7. \A k \in Key : slookup'[k] # "strong" /\ (slookup'[k] = "weak" => life'[k] = "live")
  BY <1>2, <1>3, Apartness DEF WeakLive
<1>8. \A k \in Key : flookup'[k].mode = "weak" => life'[flookup'[k].value] = "live"
  BY <1>2, <1>3, Apartness DEF WeakLive, Shape, DataShape, EntriesTyped, Ref
<1>9. \A b \in Attr : attr_lookup'[b] # "strong" /\ (attr_lookup'[b] = "weak" => life'[b] = "live")
  BY <1>1, <1>2, <1>4, Apartness DEF WeakLive
<1> QED BY <1>5, <1>6, <1>7, <1>8, <1>9 DEF WeakLive

LEMMA WeakNew ==
  ASSUME Shape, WeakLive, NEW o \in Object, New(o)
  PROVE  WeakLive'
<1>1. UNCHANGED <<slookup, flookup, attr_lookup, obj, attrhash>>
  BY DEF New, tables, blobs
<1>2. \A n \in Node : life[n] = "live" => life'[n] = "live"
  BY DEF New, Shape, DataShape, Typed
<1> QED BY <1>1, <1>2, WeakStays DEF Shape

LEMMA WeakInit ==
  ASSUME Init
  PROVE  WeakLive
BY DEF Init, WeakLive, NoValue

LEMMA WeakNext ==
  ASSUME Shape, ObjectsCounted, IndexCounted, LifeCounted, WeakLive, [Next]_vars
  PROVE  WeakLive'
<1>1. CASE UNCHANGED vars
  BY <1>1, WeakSame DEF vars, heap, tables, blobs
<1>2. CASE Step
  BY <1>2, WeakQuiet, WeakDelSlookup, WeakDelFlookup, WeakDelAttrhash, WeakLessObj, WeakDelAttrLookup,
     WeakDestroyKeys, WeakFreed, WeakDec DEF Step
<1>3. ASSUME NEW o \in Object, New(o) \/ Drop(o) \/ Purge(o)
      PROVE  WeakLive'
  BY <1>3, WeakNew, WeakSame DEF Drop, Purge, heap, tables, blobs
<1>4. ASSUME NEW k \in Key, FetchSk(k) \/ UnlinkSk(k) \/ PurgeBySk(k)
      PROVE  WeakLive'
  BY <1>4, WeakSame DEF FetchSk, Take, UnlinkSk, PurgeBySk, tables, blobs
<1>5. ASSUME NEW a \in Attr, FetchA(a) \/ UnlinkA(a) \/ PurgeByA(a)
      PROVE  WeakLive'
  BY <1>5, WeakSame DEF FetchA, Take, UnlinkA, PurgeByA, heap, tables, blobs
<1>6. CASE Destroy
  BY <1>6, WeakSame DEF Destroy, heap, tables, blobs
<1>7. ASSUME NEW a \in Attr, NEW v \in Object, DissocA(a, v)
      PROVE  WeakLive'
  BY <1>7, WeakSame DEF DissocA, heap, tables, blobs
<1>8. CASE Operation
  BY <1>3, <1>4, <1>5, <1>6, <1>7, <1>8, WeakStoreSk, WeakStoreA DEF Operation
<1> QED BY <1>1, <1>2, <1>8 DEF Next

-----------------------------------------------------------------------------
(* What a step leaves to do.                                                *)

\* What a step may set off: no hook that must run at once.
Lawful(s) == Len(s) \in Nat /\ \A i \in 1..Len(s) : s[i][1] # "encap_attr_destroy_hook"

LEMMA LawfulOne ==
  /\ Lawful(<<>>)
  /\ \A x : x[1] # "encap_attr_destroy_hook" => Lawful(<<x>>)
  /\ \A x, y : x[1] # "encap_attr_destroy_hook" /\ y[1] # "encap_attr_destroy_hook" => Lawful(<<x, y>>)
  /\ \A x, y, z :
       /\ x[1] # "encap_attr_destroy_hook" /\ y[1] # "encap_attr_destroy_hook"
       /\ z[1] # "encap_attr_destroy_hook"
       => Lawful(<<x, y, z>>)
<1>1. Lawful(<<>>)
  BY DEF Lawful
<1>2. ASSUME NEW x, x[1] # "encap_attr_destroy_hook" PROVE Lawful(<<x>>)
  BY <1>2 DEF Lawful
<1>3. ASSUME NEW x, NEW y, x[1] # "encap_attr_destroy_hook", y[1] # "encap_attr_destroy_hook"
      PROVE  Lawful(<<x, y>>)
  BY <1>3 DEF Lawful
<1>4. ASSUME NEW x, NEW y, NEW z, x[1] # "encap_attr_destroy_hook", y[1] # "encap_attr_destroy_hook",
             z[1] # "encap_attr_destroy_hook"
      PROVE  Lawful(<<x, y, z>>)
  <2> DEFINE s == <<x, y, z>>
  <2>1. Len(s) = 3 /\ s[1] = x /\ s[2] = y /\ s[3] = z
    OBVIOUS
  <2> HIDE DEF s
  <2>2. \A i \in 1..Len(s) : i = 1 \/ i = 2 \/ i = 3
    BY <2>1
  <2>3. Lawful(s)
    BY <1>4, <2>1, <2>2 DEF Lawful
  <2> QED BY <2>3 DEF s
<1> QED BY <1>1, <1>2, <1>3, <1>4

LEMMA LawfulConcat ==
  ASSUME NEW s, Lawful(s), NEW t, Lawful(t)
  PROVE  Lawful(s \o t)
<1> DEFINE r == s \o t
<1>1. Len(r) = Len(s) + Len(t) /\ Len(s) \in Nat /\ Len(t) \in Nat
  BY DEF Lawful
<1>2. \A i \in 1..Len(r) : r[i] = IF i <= Len(s) THEN s[i] ELSE t[i - Len(s)]
  BY <1>1
<1> HIDE DEF r
<1>3. \A i \in 1..Len(r) : IF i <= Len(s) THEN i \in 1..Len(s) ELSE i - Len(s) \in 1..Len(t)
  BY <1>1
<1>4. Lawful(r)
  BY <1>1, <1>2, <1>3 DEF Lawful
<1> QED BY <1>4 DEF r

LEMMA LawfulIf ==
  /\ \A mode, n : Lawful(DecIf(mode, n))
  /\ \A k : Lawful(FromTable(k))
  /\ \A b, s, t : Lawful(s) /\ Lawful(t) => Lawful(IF b THEN s ELSE t)
<1>1. ASSUME NEW mode, NEW n PROVE Lawful(DecIf(mode, n))
  <2> DEFINE x == <<"dec", n>>
  <2>1. Lawful(<<x>>) /\ Lawful(<<>>)
    BY LawfulOne
  <2> QED BY <2>1 DEF DecIf
<1>2. ASSUME NEW k PROVE Lawful(FromTable(k))
  <2> DEFINE x == <<"unvhash", k, flookup[k].value>>
             y == <<"slookup", k>>
             z == <<"flookup", k>>
  <2>1. x[1] = "unvhash" /\ y[1] = "slookup" /\ z[1] = "flookup"
    OBVIOUS
  <2>2. Lawful(<<>>) /\ Lawful(<<y, z>>) /\ Lawful(<<x, y, z>>)
    <3> HIDE DEF x, y, z
    <3> QED BY <2>1, LawfulOne
  <2>3. FromTable(k) \in {<<>>, <<y, z>>, <<x, y, z>>}
    BY DEF FromTable
  <2> QED BY <2>2, <2>3
<1>3. \A b, s, t : Lawful(s) /\ Lawful(t) => Lawful(IF b THEN s ELSE t)
  OBVIOUS
<1> QED BY <1>1, <1>2, <1>3

\* The task on top is done, and what was below it stays below what it sets off.
Sets(s) == Lawful(s) /\ Then(s)

\* Every step but the running of an action does so, or finds a fault.
LEMMA StepSets ==
  ASSUME Step, ~ RunAction
  PROVE  (\E s : Sets(s)) \/ EachValue \/ (\E what : Fault(what))
<1>1. CASE DecAll
  BY <1>1, LawfulOne, LawfulConcat, LawfulIf DEF DecAll, Sets
<1>2. CASE DelSlookup
  BY <1>2, LawfulOne, LawfulConcat, LawfulIf DEF DelSlookup, Sets
<1>3. CASE DelFlookup
  BY <1>3, LawfulOne, LawfulConcat, LawfulIf DEF DelFlookup, Sets
<1>4. CASE DelRlookup
  BY <1>4, LawfulOne, LawfulConcat, LawfulIf DEF DelRlookup, Sets
<1>5. CASE DelAttrhash
  BY <1>5, LawfulOne, LawfulConcat, LawfulIf DEF DelAttrhash, Sets
<1>6. CASE DelFromVhash
  BY <1>6, LawfulOne, LawfulConcat, LawfulIf DEF DelFromVhash, Sets
<1>7. CASE VhashCheck
  BY <1>7, LawfulOne, LawfulConcat, LawfulIf DEF VhashCheck, Sets
<1>8. CASE EncapDestroyHook
  BY <1>8, LawfulOne, LawfulConcat, LawfulIf DEF EncapDestroyHook, Sets
<1>9. CASE KEncapCleanup
  BY <1>9, LawfulOne, LawfulConcat, LawfulIf DEF KEncapCleanup, Sets
<1>10. CASE EncapAttrDestroyHook
  BY <1>10, LawfulOne, LawfulConcat, LawfulIf DEF EncapAttrDestroyHook, Sets
<1>11. CASE AttrDestroyTrigger
  BY <1>11, LawfulOne, LawfulConcat, LawfulIf DEF AttrDestroyTrigger, Sets
<1>12. CASE DelAttrLookup
  BY <1>12, LawfulOne, LawfulConcat, LawfulIf DEF DelAttrLookup, Sets
<1>13. CASE DelFromAttrhash
  BY <1>13, LawfulOne, LawfulConcat, LawfulIf DEF DelFromAttrhash, Sets
<1>14. CASE PurgeBegin
  BY <1>14, LawfulOne, LawfulConcat, LawfulIf DEF PurgeBegin, Sets
<1>15. CASE Foreach
  BY <1>15, LawfulOne, LawfulConcat, LawfulIf DEF Foreach, Sets
<1>16. CASE PurgeEnd
  BY <1>16, LawfulOne, LawfulConcat, LawfulIf DEF PurgeEnd, Sets
<1>17. CASE DestroyAttrs
  BY <1>17, LawfulOne, LawfulConcat, LawfulIf DEF DestroyAttrs, Died, Sets
<1>18. CASE DestroyAttr
  BY <1>18, LawfulOne, LawfulConcat, LawfulIf DEF DestroyAttr, Died, Sets
<1>19. CASE PushValue
  BY <1>19, LawfulOne, LawfulConcat, LawfulIf DEF PushValue, Died, Sets
<1>20. CASE DestroyKeys
  BY <1>20, LawfulOne, LawfulConcat, LawfulIf DEF DestroyKeys, Died, Sets
<1>21. CASE DestroyValues
  BY <1>21, LawfulOne, LawfulConcat, LawfulIf DEF DestroyValues, Sets
<1>22. CASE Dec
  BY <1>22, LawfulOne, LawfulConcat, LawfulIf DEF Dec, Die, Sets
<1>23. CASE Freed
  BY <1>23, LawfulOne, LawfulConcat, LawfulIf DEF Freed, Sets
<1>24. CASE KaEnd
  BY <1>24, LawfulOne, LawfulConcat, LawfulIf DEF KaEnd, Die, Sets
<1> QED BY <1>1, <1>2, <1>3, <1>4, <1>5, <1>6, <1>7, <1>8, <1>9, <1>10, <1>11, <1>12, <1>13, <1>14, <1>15, <1>16, <1>17, <1>18, <1>19, <1>20, <1>21, <1>22, <1>23, <1>24 DEF Step

LEMMA StepTodo ==
  ASSUME Shape, Step
  PROVE  /\ todo # <<>> /\ err = "none"
         /\ \A t \in ToSet(todo) : t = Top \/ t \in ToSet(todo')
         /\ RunAction \/ (\E what : Fault(what)) \/ \A a : ~ (todo' # <<>> /\ Top' = Hook(a))
<1>1. todo # <<>> /\ err = "none"
  BY DEF Step, Doing, DecAll, DelSlookup, DelFlookup, DelRlookup, DelAttrhash, DelFromVhash,
     VhashCheck, EncapDestroyHook, KEncapCleanup, EncapAttrDestroyHook, AttrDestroyTrigger,
     DelAttrLookup, DelFromAttrhash, PurgeBegin, Foreach, PurgeEnd, DestroyAttrs, DestroyAttr,
     PushValue, DestroyKeys, DestroyValues, Dec, Freed, KaEnd, RunAction, EachValue
<1>2. Tail(todo) \in Seq(Task) /\ ToSet(todo) = {Top} \cup ToSet(Tail(todo)) /\ NoHook(ToSet(Tail(todo)))
  BY <1>1, TopIs DEF Shape
<1>3. ASSUME NEW s, Lawful(s), NEW q \in Seq(Task), todo' = s \o q, NoHook(ToSet(q))
      PROVE  ToSet(q) \subseteq ToSet(todo') /\ \A a : ~ (todo' # <<>> /\ Top' = Hook(a))
  <2> DEFINE r == s \o q
  <2>1. /\ Len(r) = Len(s) + Len(q) /\ Len(s) \in Nat /\ Len(q) \in Nat /\ DOMAIN r = 1..Len(r)
        /\ \A p \in 1..Len(q) : r[Len(s) + p] = q[p]
        /\ \A p \in 1..Len(s) : r[p] = s[p]
    BY <1>3 DEF Lawful
  <2>2. r # <<>> => 1 \in 1..Len(r) /\ Head(r) = r[1]
    BY <2>1
  <2> HIDE DEF r
  <2>3. ToSet(q) \subseteq ToSet(r)
    BY <2>1 DEF ToSet
  <2>4. CASE Len(s) = 0
    <3>1. r # <<>> => Head(r) = q[1] /\ q[1] \in ToSet(q)
      BY <2>1, <2>2, <2>4 DEF ToSet
    <3>2. r # <<>> => Head(r)[1] # "encap_attr_destroy_hook"
      BY <1>3, <3>1 DEF NoHook
    <3> QED BY <1>3, <2>3, <3>2 DEF Top, Hook, r
  <2>5. CASE Len(s) # 0
    <3>1. r # <<>> => Head(r) = s[1] /\ 1 \in 1..Len(s)
      BY <2>1, <2>2, <2>5
    <3>2. r # <<>> => Head(r)[1] # "encap_attr_destroy_hook"
      BY <1>3, <3>1 DEF Lawful
    <3> QED BY <1>3, <2>3, <3>2 DEF Top, Hook, r
  <2> QED BY <2>4, <2>5
<1>4. CASE \E s : Sets(s)
  <2> PICK s : Sets(s)
    BY <1>4
  <2>1. Lawful(s) /\ todo' = s \o Tail(todo)
    BY DEF Sets, Then
  <2>2. ToSet(Tail(todo)) \subseteq ToSet(todo') /\ \A a : ~ (todo' # <<>> /\ Top' = Hook(a))
    BY <1>2, <1>3, <2>1
  <2> QED BY <1>1, <1>2, <2>2
<1>5. CASE \E what : Fault(what)
  BY <1>1, <1>5 DEF Fault
<1>6. CASE RunAction
  <2>1. Head(acts[Top[2]]) = Head(acts[Top[2]]) /\ todo' = <<Head(acts[Top[2]])>> \o todo
    BY <1>6 DEF RunAction
  <2>2. todo \in Seq(Task)
    BY DEF Shape, TodoShape
  <2> DEFINE x == <<Head(acts[Top[2]])>>
  <2>3. x \in Seq({Head(acts[Top[2]])} \cup Task) /\ todo \in Seq({Head(acts[Top[2]])} \cup Task)
    BY <2>2
  <2> HIDE DEF x
  <2>4. ToSet(todo) \subseteq ToSet(x \o todo)
    BY <2>3, SetConcat
  <2> QED BY <1>1, <1>6, <2>1, <2>4 DEF x
<1>7. CASE EachValue
  <2> DEFINE a == Top[2]
  <2>1. CASE Then(<<>>)
    <3>1. Sets(<<>>)
      BY <2>1, LawfulOne DEF Sets
    <3> QED BY <1>4, <3>1
  <2>2. CASE \E what : Fault(what)
    BY <1>5, <2>2
  <2>3. ASSUME NEW v \in Object,
               todo' = <<<<"unhash", a, v>>, <<"unvhash", a, v>>>>
                         \o (IF v \in kept THEN <<>> ELSE <<<<"ka_end", v>>>>) \o todo
        PROVE  ToSet(todo) \subseteq ToSet(todo') /\ \A b : ~ (todo' # <<>> /\ Top' = Hook(b))
    <3> DEFINE x == <<"unhash", a, v>>
               y == <<"unvhash", a, v>>
               z == <<"ka_end", v>>
               e == IF v \in kept THEN <<>> ELSE <<z>>
               d == <<x, y>>
    <3>1. Lawful(d) /\ Lawful(e)
      BY LawfulOne, LawfulIf
    <3> HIDE DEF d, e
    <3>2. Lawful(d \o e)
      BY <3>1, LawfulConcat
    <3>3. todo' = (d \o e) \o todo
      BY <2>3 DEF d, e
    <3>4. todo \in Seq(Task) /\ NoHook(ToSet(todo))
      <4>1. Top[1] = "values"
        BY <1>7 DEF EachValue, Doing
      <4> QED BY <1>2, <4>1 DEF Shape, TodoShape, NoHook
    <3> QED BY <1>3, <3>2, <3>3, <3>4
  <2> QED BY <1>1, <1>7, <2>1, <2>2, <2>3 DEF EachValue
<1> QED BY <1>4, <1>5, <1>6, <1>7, StepSets

\* An operation leaves no hook to do either.
LEMMA OperationTodo ==
  ASSUME Operation, Shape'
  PROVE  todo = <<>> /\ \A a : ~ (todo' # <<>> /\ Top' = Hook(a))
<1>1. todo = <<>> /\ Lawful(todo')
  <2>1. CASE \E o \in Object : New(o) \/ Drop(o) \/ Purge(o)
    BY <2>1, LawfulOne DEF Idle, New, Drop, Purge
  <2>2. CASE Destroy
    BY <2>2, LawfulOne DEF Idle, Destroy
  <2>3. CASE \E k \in Key : FetchSk(k) \/ UnlinkSk(k) \/ PurgeBySk(k)
    BY <2>3, LawfulOne DEF Idle, FetchSk, Take, UnlinkSk, PurgeBySk
  <2>4. CASE \E k \in Key : \E v \in Object, sv, sk \in BOOLEAN : StoreSk(k, v, sv, sk)
    BY <2>4, LawfulOne DEF Idle, StoreSk
  <2>5. CASE \E a \in Attr : FetchA(a) \/ UnlinkA(a) \/ \E v \in Object : DissocA(a, v)
    BY <2>5, LawfulOne DEF Idle, FetchA, Take, UnlinkA, DissocA
  <2>6. CASE \E a \in Attr : \E v \in Object, sv, sa \in BOOLEAN : StoreA(a, v, sv, sa)
    BY <2>6, LawfulOne DEF Idle, StoreA
  <2>7. ASSUME NEW a \in Attr, PurgeByA(a) PROVE todo = <<>> /\ Lawful(todo')
    <3> DEFINE V == {v \in Object : attrhash[a][v] \in Ref}
               y == <<"decall", V>>
    <3>1. PICK s \in SetToSeqs(V) : todo' = [i \in 1..Len(s) |-> <<"purge", s[i]>>] \o <<y>>
      BY <2>7 DEF PurgeByA
    <3>2. IsFiniteSet(V)
      BY Finite, FS_Subset
    <3>3. s \in Seq(V)
      BY <3>2, OrderProps
    <3> DEFINE p == [i \in 1..Len(s) |-> <<"purge", s[i]>>]
    <3>4. p \in Seq({<<"purge", v>> : v \in V}) /\ Len(p) = Len(s)
      BY <3>3
    <3>5. Lawful(p)
      BY <3>3, <3>4 DEF Lawful
    <3>6. Lawful(<<y>>)
      BY LawfulOne
    <3> HIDE DEF p, y
    <3> QED BY <2>7, <3>1, <3>5, <3>6, LawfulConcat DEF p, PurgeByA, Idle
  <2> QED BY <2>1, <2>2, <2>3, <2>4, <2>5, <2>6, <2>7 DEF Operation
<1>2. todo' # <<>> => todo'[1] = Top' /\ 1 \in 1..Len(todo')
  <2>1. todo' \in Seq(Task)
    BY DEF Shape, TodoShape
  <2> QED BY <2>1 DEF Top
<1>3. \A a : Hook(a)[1] = "encap_attr_destroy_hook"
  BY DEF Hook
<1> QED BY <1>1, <1>2, <1>3 DEF Lawful

-----------------------------------------------------------------------------
(* An attribute has the values it is under.  UnderX says that X keeps this, *)
(* with the moment in which the vhash is still to follow.                   *)

LEMMA UnderStays ==
  ASSUME UnderHas,
         \A a \in Attr, v \in Object : a \in Under(v)' => a \in Under(v),
         \A a \in Attr, v \in Object : a \in Under(v)' /\ attrhash[a][v] # "none" =>
           attrhash'[a][v] # "none" \/ life'[v] # "live" \/ <<"unvhash", a, v>> \in ToSet(todo'),
         \A v \in Object : life[v] # "live" => life'[v] # "live",
         \A a \in Attr, v \in Object : a \in Under(v)' /\ <<"unvhash", a, v>> \in ToSet(todo) =>
           <<"unvhash", a, v>> \in ToSet(todo')
  PROVE  UnderHas'
BY DEF UnderHas

LEMMA UnderFault ==
  ASSUME UnderHas, NEW what, Fault(what)
  PROVE  UnderHas'
<1>1. UNCHANGED <<life, rlookup, attrhash, todo>>
  BY DEF Fault, heap, tables, blobs
<1> QED BY <1>1 DEF UnderHas, Under

\* A step that takes no attribute out of a value and no value out of an attribute.
LEMMA UnderSame ==
  ASSUME Shape, UnderHas, Step, Top[1] # "unvhash", UNCHANGED attrhash,
         \A v \in Object : Under(v)' \subseteq Under(v),
         \A v \in Object : life[v] # "live" => life'[v] # "live"
  PROVE  UnderHas'
<1>1. \A a, v : <<"unvhash", a, v>> \in ToSet(todo) => <<"unvhash", a, v>> \in ToSet(todo')
  <2>1. \A a, v : <<"unvhash", a, v>> # Top
    OBVIOUS
  <2> QED BY <2>1, StepTodo
<1> QED BY <1>1, UnderStays

LEMMA UnderQuiet ==
  ASSUME Shape, UnderHas, Step,
         \/ DecAll \/ RunAction \/ DelSlookup \/ DelFlookup \/ EncapDestroyHook
         \/ KEncapCleanup \/ EncapAttrDestroyHook \/ AttrDestroyTrigger \/ DelAttrLookup
         \/ EachValue \/ PurgeBegin \/ Foreach \/ PurgeEnd \/ DestroyAttrs \/ DestroyAttr
         \/ PushValue \/ DestroyKeys
  PROVE  UnderHas'
<1>1. (\A v \in Object : Under(v)' \subseteq Under(v)) \/ ~ UNCHANGED rlookup
  BY DEF Under
<1>2. CASE DecAll
  BY <1>1, <1>2, UnderSame DEF DecAll, Doing, heap, tables, blobs
<1>3. CASE RunAction
  BY <1>1, <1>3, UnderSame DEF RunAction, Doing, heap, tables, blobs
<1>4. CASE DelSlookup
  BY <1>1, <1>4, UnderSame DEF DelSlookup, Doing, heap, tables, blobs
<1>5. CASE DelFlookup
  BY <1>1, <1>5, UnderSame DEF DelFlookup, Doing, heap, tables, blobs
<1>6. CASE EncapDestroyHook
  BY <1>1, <1>6, UnderSame, UnderFault DEF EncapDestroyHook, Doing, heap, tables, blobs
<1>7. CASE KEncapCleanup
  BY <1>1, <1>7, UnderSame, UnderFault DEF KEncapCleanup, Doing, heap, tables, blobs
<1>8. CASE EncapAttrDestroyHook
  BY <1>1, <1>8, UnderSame, UnderFault DEF EncapAttrDestroyHook, Doing, heap, tables, blobs
<1>9. CASE AttrDestroyTrigger
  BY <1>1, <1>9, UnderSame, UnderFault DEF AttrDestroyTrigger, Doing, heap, tables, blobs
<1>10. CASE DelAttrLookup
  BY <1>1, <1>10, UnderSame, UnderFault DEF DelAttrLookup, Doing, heap, tables, blobs
<1>11. CASE EachValue
  BY <1>1, <1>11, UnderSame, UnderFault DEF EachValue, Doing, heap, tables, blobs
<1>12. CASE PurgeBegin
  BY <1>1, <1>12, UnderSame DEF PurgeBegin, Doing, heap, tables, blobs
<1>13. CASE Foreach
  BY <1>1, <1>13, UnderSame, UnderFault DEF Foreach, Doing, heap, tables, blobs
<1>14. CASE PurgeEnd
  BY <1>1, <1>14, UnderSame DEF PurgeEnd, Doing, heap, tables, blobs
<1>15. CASE DestroyAttrs
  BY <1>1, <1>15, UnderSame, UnderFault DEF DestroyAttrs, Doing, heap, tables, blobs, Died
<1>16. CASE DestroyAttr
  BY <1>1, <1>16, UnderSame, UnderFault DEF DestroyAttr, Doing, heap, tables, blobs, Died
<1>17. CASE PushValue
  BY <1>1, <1>17, UnderSame, UnderFault DEF PushValue, Doing, heap, tables, blobs, Died
<1>18. CASE DestroyKeys
  BY <1>1, <1>18, UnderSame, UnderFault DEF DestroyKeys, Doing, heap, tables, blobs, Died
<1> QED BY <1>2, <1>3, <1>4, <1>5, <1>6, <1>7, <1>8, <1>9, <1>10, <1>11, <1>12, <1>13, <1>14, <1>15, <1>16, <1>17, <1>18

\* A vhash that goes.
LEMMA UnderLess ==
  ASSUME Shape, UnderHas, Step, DelRlookup \/ VhashCheck \/ DestroyValues
  PROVE  UnderHas'
<1>1. \A v : rlookup'[v] = rlookup[v] \/ rlookup'[v] = Null => Under(v)' \subseteq Under(v)
  BY DEF Under
<1>2. \A v \in Object : rlookup'[v] = rlookup[v] \/ rlookup'[v] = Null
  BY DEF DelRlookup, VhashCheck, DestroyValues, Shape, DataShape, Typed
<1>3. Top[1] # "unvhash" /\ UNCHANGED <<attrhash, life>>
  BY DEF DelRlookup, VhashCheck, DestroyValues, Doing, blobs, heap
<1> QED BY <1>1, <1>2, <1>3, UnderSame

LEMMA UnderDelFromVhash ==
  ASSUME Shape, UnderHas, Step, DelFromVhash
  PROVE  UnderHas'
<1>1. todo # <<>> /\ Top = <<"unvhash", Top[2], Top[3]>> /\ Top[2] \in Index /\ Top[3] \in Object
  BY TopIs DEF DelFromVhash, Doing, Shape, TaskIs
<1> PICK i \in Index, u \in Object : i = Top[2] /\ u = Top[3]
  BY <1>1
<1>2. \A v \in Object : Under(v)' \subseteq Under(v) /\ i \notin Under(u)'
  <2>1. CASE rlookup[u] = Null /\ UNCHANGED rlookup
    BY <2>1 DEF Under
  <2>2. CASE rlookup[u] # Null /\ rlookup' = [rlookup EXCEPT ![u] = @ \ {i}]
    <3>1. \A v \in Object : rlookup'[v] = IF v = u THEN rlookup[v] \ {i} ELSE rlookup[v]
      BY <1>1, <2>2 DEF Shape, DataShape, Typed
    <3>2. rlookup'[u] = rlookup[u] \ {i} /\ Under(u) = rlookup[u]
      BY <2>2, <3>1 DEF Under
    <3>3. Under(u)' \subseteq Under(u) /\ i \notin Under(u)'
      BY <3>2 DEF Under
    <3>4. \A v \in Object : v # u => Under(v)' = Under(v)
      BY <3>1 DEF Under
    <3> QED BY <3>3, <3>4
  <2> QED BY <2>1, <2>2 DEF DelFromVhash
<1>3. UNCHANGED <<attrhash, life>>
  BY DEF DelFromVhash, blobs, heap
<1>4. \A a \in Attr, v \in Object : a \in Under(v)' /\ <<"unvhash", a, v>> \in ToSet(todo) =>
        <<"unvhash", a, v>> \in ToSet(todo')
  <2>1. \A a, v : <<"unvhash", a, v>> = Top => a = i /\ v = u
    OBVIOUS
  <2>2. \A t \in ToSet(todo) : t = Top \/ t \in ToSet(todo')
    BY StepTodo
  <2> QED BY <1>2, <2>1, <2>2
<1> QED BY <1>2, <1>3, <1>4, UnderStays

LEMMA UnderDie ==
  ASSUME Shape, UnderHas, Step, Dec \/ KaEnd
  PROVE  UnderHas'
<1> DEFINE m == Top[2]
<1>1. Top[1] # "unvhash" /\ m \in Node /\ \A v \in Object : v \in Node
  BY TopIs, Apartness DEF Dec, KaEnd, Doing, Shape, TaskIs
<1>2. \A a, v : <<"unvhash", a, v>> \in ToSet(todo) => <<"unvhash", a, v>> \in ToSet(todo')
  <2>1. \A a, v : <<"unvhash", a, v>> # Top
    BY <1>1
  <2> QED BY <2>1, StepTodo
<1>3. UNCHANGED rlookup /\ \A v : Under(v)' = Under(v)
  BY DEF Dec, KaEnd, tables, Under, Fault
<1>4. CASE UNCHANGED <<life, blobs>>
  BY <1>2, <1>3, <1>4, UnderStays DEF blobs
<1>5. CASE Die(m)
  <2>1. \A v \in Object : life'[v] = IF v = m THEN "dying" ELSE life[v]
    BY <1>1, <1>5 DEF Die, Shape, DataShape, Typed
  <2>2. \A a \in Attr, v \in Object : attrhash[a][v] # "none" => attrhash'[a][v] # "none"
    BY <1>5 DEF Die, Cleared
  <2> QED BY <1>2, <1>3, <2>1, <2>2, UnderStays
<1> QED BY <1>4, <1>5 DEF Dec, KaEnd, Fault, heap

\* An attribute that is freed is under no value.
LEMMA UnderFreed ==
  ASSUME Shape, IndexCounted, LifeCounted, UnderHas, Step, Freed
  PROVE  UnderHas'
<1> DEFINE m == Top[2]
<1>1. Top[1] # "unvhash" /\ m \in Node /\ life[m] = "dying" /\ \A v \in Object : v \in Node
  <2>1. todo # <<>> /\ m \in Node /\ Top \in ToSet(todo) /\ Top = <<"free", m>>
    BY TopIs DEF Freed, Doing, Shape, TaskIs
  <2> QED BY <2>1, Apartness DEF Shape, TodoShape, FreeOpen
<1>2. \A a, v : <<"unvhash", a, v>> \in ToSet(todo) => <<"unvhash", a, v>> \in ToSet(todo')
  <2>1. \A a, v : <<"unvhash", a, v>> # Top
    BY <1>1
  <2> QED BY <2>1, StepTodo
<1>3. UNCHANGED rlookup /\ \A v : Under(v)' = Under(v)
  BY DEF Freed, tables, Under
<1>4. \A v \in Object : life[v] # "live" => life'[v] # "live"
  BY <1>1 DEF Freed, Shape, DataShape, Typed
<1>5. \A v \in Object : m \in Index => m \notin Under(v)
  <2> SUFFICES ASSUME m \in Index PROVE Vhashes(m) = {}
    BY DEF Vhashes
  <2>1. rc[m] = 0
    BY <1>1 DEF LifeCounted
  <2>2. Cardinality(Vhashes(m)) \in Nat /\ Gone(m) \in Nat /\ Occurs(todo, Holding(m)) \in Nat
    <3>1. Len(todo) \in Nat
      BY DEF Shape, TodoShape
    <3> QED BY <3>1, PlacesFinite, StrongFinite DEF Gone, One
  <2>3. Cardinality(Vhashes(m)) = 0
    BY <2>1, <2>2 DEF IndexCounted
  <2> QED BY <2>3, StrongFinite, FS_EmptySet
<1>6. \A a \in Attr, v \in Object : a # m => attrhash'[a][v] = attrhash[a][v]
  BY DEF Freed, Shape, DataShape, Typed
<1>7. \A a \in Attr : a \in Index
  BY Apartness
<1> QED BY <1>2, <1>3, <1>4, <1>5, <1>6, <1>7, UnderStays

\* The value's vhash is the next to go, or the value is dying.
LEMMA UnderDelAttrhash ==
  ASSUME Shape, UnderHas, Step, DelAttrhash \/ DelFromAttrhash
  PROVE  UnderHas'
<1> DEFINE b == Top[2]
           u == Top[3]
<1>1. /\ todo # <<>> /\ b \in Attr /\ u \in Object /\ u \in Node
      /\ Top[1] \in {"attrhash", "unhash"} /\ Top = <<Top[1], b, u>>
  BY TopIs, ActionIs, Apartness DEF DelAttrhash, DelFromAttrhash, Doing, Shape, TaskIs, ActionKinds
<1>2. CASE \E what : Fault(what)
  BY <1>2, UnderFault
<1>3. CASE attrhash' = [attrhash EXCEPT ![b][u] = "none"] /\ UNCHANGED <<life, rlookup>>
  <2>1. \A a, v : <<"unvhash", a, v>> \in ToSet(todo) => <<"unvhash", a, v>> \in ToSet(todo')
    <3>1. \A a, v : <<"unvhash", a, v>> # Top
      BY <1>1
    <3> QED BY <3>1, StepTodo
  <2>2. life[u] # "live" \/ <<"unvhash", b, u>> \in ToSet(todo)
    <3>1. Grounded(Top, ToSet(Tail(todo)), held) /\ ToSet(todo) = {Top} \cup ToSet(Tail(todo))
      BY <1>1, TopIs DEF Shape
    <3>2. <<"free", u>> \in ToSet(todo) \/ <<"unvhash", b, u>> \in ToSet(todo)
      BY <1>1, <3>1 DEF Grounded
    <3> QED BY <1>1, <3>2 DEF Shape, TodoShape, FreeOpen
  <2>3. \A a \in Attr, v \in Object : attrhash'[a][v] = attrhash[a][v] \/ (a = b /\ v = u)
    BY <1>3 DEF Shape, DataShape, Typed
  <2>4. \A v \in Object : Under(v)' = Under(v) /\ life'[v] = life[v]
    BY <1>3 DEF Under
  <2> QED BY <2>1, <2>2, <2>3, <2>4, UnderStays
<1> QED BY <1>2, <1>3 DEF DelAttrhash, DelFromAttrhash, heap, tables

LEMMA UnderOperation ==
  ASSUME UnderHas, todo = <<>>, UNCHANGED <<attrhash, rlookup, life>>
  PROVE  UnderHas'
<1>1. \A x : x \notin ToSet(todo)
  BY DEF ToSet
<1> QED BY <1>1 DEF UnderHas, Under

LEMMA UnderNew ==
  ASSUME Shape, UnderHas, FreeClean, NEW o \in Object, New(o)
  PROVE  UnderHas'
<1>1. \A x : x \notin ToSet(todo)
  BY DEF New, Idle, ToSet
<1>2. UNCHANGED <<rlookup, attrhash>> /\ life[o] = "free"
  BY DEF New, tables, blobs
<1>3. Under(o) = {}
  BY <1>2 DEF FreeClean, Under
<1>4. \A v \in Object : v # o => life'[v] = life[v]
  BY DEF New, Shape, DataShape, Typed
<1> QED BY <1>1, <1>2, <1>3, <1>4 DEF UnderHas, Under

LEMMA UnderStoreSk ==
  ASSUME Shape, UnderHas, NEW k \in Key, NEW v \in Object, NEW sv \in BOOLEAN, NEW sk \in BOOLEAN,
         StoreSk(k, v, sv, sk)
  PROVE  UnderHas'
<1>1. \A x : x \notin ToSet(todo)
  BY DEF StoreSk, Idle, ToSet
<1>2. UNCHANGED attrhash /\ rlookup' = WithVhash(v, k) /\ k \in Index
  BY Apartness DEF StoreSk
<1>3. \A u \in Object : Under(u)' = IF u = v THEN Under(u) \cup {k} ELSE Under(u)
  BY <1>2, VhashMade DEF Shape, DataShape
<1>4. \A u \in Object : life'[u] = life[u]
  BY Apartness DEF StoreSk, Shape, DataShape, Typed
<1>5. \A a \in Attr : a # k
  BY Apartness
<1> QED BY <1>1, <1>2, <1>3, <1>4, <1>5 DEF UnderHas

LEMMA UnderStoreA ==
  ASSUME Shape, UnderHas, NEW a \in Attr, NEW v \in Object, NEW sv \in BOOLEAN, NEW sa \in BOOLEAN,
         StoreA(a, v, sv, sa)
  PROVE  UnderHas'
<1>1. \A x : x \notin ToSet(todo)
  BY DEF StoreA, Idle, ToSet
<1>2. rlookup' = WithVhash(v, a) /\ a \in Index
  BY Apartness DEF StoreA
<1>3. \A u \in Object : Under(u)' = IF u = v THEN Under(u) \cup {a} ELSE Under(u)
  BY <1>2, VhashMade DEF Shape, DataShape
<1>4. \A u \in Object : life'[u] = life[u]
  BY Apartness DEF StoreA, Shape, DataShape, Typed
<1>5. \A b \in Attr, u \in Object :
        attrhash'[b][u] = attrhash[b][u] \/ (b = a /\ u = v)
  BY DEF StoreA, Shape, DataShape, Typed
<1>6. attrhash'[a][v] # "none"
  BY DEF StoreA, Shape, DataShape, Typed, Mode
<1> QED BY <1>1, <1>3, <1>4, <1>5, <1>6 DEF UnderHas

LEMMA UnderInit ==
  ASSUME Init
  PROVE  UnderHas
BY DEF Init, UnderHas, Under

LEMMA UnderNext ==
  ASSUME Shape, IndexCounted, LifeCounted, UnderHas, FreeClean, [Next]_vars
  PROVE  UnderHas'
<1>1. CASE UNCHANGED vars
  BY <1>1 DEF vars, heap, tables, blobs, UnderHas, Under
<1>2. CASE Step
  BY <1>2, UnderQuiet, UnderLess, UnderDelFromVhash, UnderDie, UnderFreed, UnderDelAttrhash DEF Step
<1>3. ASSUME NEW o \in Object, New(o) \/ Drop(o) \/ Purge(o)
      PROVE  UnderHas'
  BY <1>3, UnderNew, UnderOperation DEF Drop, Purge, Idle, heap, tables, blobs
<1>4. ASSUME NEW k \in Key, FetchSk(k) \/ UnlinkSk(k) \/ PurgeBySk(k)
      PROVE  UnderHas'
  BY <1>4, UnderOperation DEF FetchSk, Take, UnlinkSk, PurgeBySk, Idle, tables, blobs
<1>5. ASSUME NEW a \in Attr, FetchA(a) \/ UnlinkA(a) \/ PurgeByA(a)
      PROVE  UnderHas'
  BY <1>5, UnderOperation DEF FetchA, Take, UnlinkA, PurgeByA, Idle, heap, tables, blobs
<1>6. CASE Destroy
  BY <1>6, UnderOperation DEF Destroy, Idle, heap, tables, blobs
<1>7. ASSUME NEW a \in Attr, NEW v \in Object, DissocA(a, v)
      PROVE  UnderHas'
  BY <1>7, UnderOperation DEF DissocA, Idle, heap, tables, blobs
<1>8. CASE Operation
  BY <1>3, <1>4, <1>5, <1>6, <1>7, <1>8, UnderStoreSk, UnderStoreA DEF Operation
<1> QED BY <1>1, <1>2, <1>8 DEF Next

-----------------------------------------------------------------------------
(* The action lists, as a step leaves them.                                 *)

LEMMA FewerRunAction ==
  ASSUME Shape, RunAction
  PROVE  /\ Fewer(acts', acts)
         /\ Top[2] \in Node /\ Top = <<"free", Top[2]>>
         /\ Head(acts[Top[2]]) \in ToSet(acts[Top[2]])
         /\ NoDuplicate(acts[Top[2]]) => Head(acts[Top[2]]) \notin ToSet(acts'[Top[2]])
         /\ \A m \in Node : \A b : b \in ToSet(acts[m]) =>
              b \in ToSet(acts'[m]) \/ (m = Top[2] /\ b = Head(acts[Top[2]]))
<1>1. Top[2] \in Node /\ Top = <<"free", Top[2]>> /\ acts[Top[2]] # <<>>
  BY TopIs DEF RunAction, Doing, Shape, TaskIs
<1>2. PICK n \in Node : n = Top[2]
  BY <1>1
<1>3. acts \in [Node -> Seq(Action)] /\ acts' = [acts EXCEPT ![n] = Tail(acts[n])]
  BY <1>2 DEF RunAction, Shape, DataShape, Typed
<1>4. acts[n] \in Seq(Action) /\ acts[n] # <<>>
  BY <1>1, <1>2, <1>3
<1>5. /\ Tail(acts[n]) \in Seq(Action) /\ Head(acts[n]) \in ToSet(acts[n])
      /\ ToSet(acts[n]) = {Head(acts[n])} \cup ToSet(Tail(acts[n]))
      /\ NoDuplicate(acts[n]) => NoDuplicate(Tail(acts[n])) /\ Head(acts[n]) \notin ToSet(Tail(acts[n]))
  BY <1>4, TailProps
<1>6. acts' \in [Node -> Seq(Action)] /\ acts'[n] = Tail(acts[n])
      /\ \A m \in Node : m # n => acts'[m] = acts[m]
  BY <1>3, <1>5
<1>7. Fewer(acts', acts)
  BY <1>5, <1>6 DEF Fewer
<1>8. \A m \in Node : \A b : b \in ToSet(acts[m]) => b \in ToSet(acts'[m]) \/ (m = n /\ b = Head(acts[n]))
  BY <1>5, <1>6
<1> QED BY <1>1, <1>2, <1>5, <1>6, <1>7, <1>8

\* A step that deletes actions of a few kinds only.
Spares(kinds) == \A n \in Node : \A b : b \in ToSet(acts[n]) /\ b[1] \notin kinds => b \in ToSet(acts'[n])

LEMMA SparesProps ==
  ASSUME NEW f \in [Node -> Seq(Action)]
  PROVE  /\ \A n \in Node : \A a : \A m \in Node : \A b :
              b \in ToSet(f[m]) /\ b # a => b \in ToSet(Without(f, n, a)[m])
         /\ \A n \in Node : \A kind : \A m \in Node : \A b :
              b \in ToSet(f[m]) /\ b[1] # kind => b \in ToSet(WithoutKind(f, n, kind)[m])
<1>1. ASSUME NEW n \in Node, NEW a, NEW m \in Node, NEW b, b \in ToSet(f[m]), b # a
      PROVE  b \in ToSet(Without(f, n, a)[m])
  BY <1>1, WithoutHas
<1>2. ASSUME NEW n \in Node, NEW kind, NEW m \in Node, NEW b, b \in ToSet(f[m]), b[1] # kind
      PROVE  b \in ToSet(WithoutKind(f, n, kind)[m])
  BY <1>2, WithoutKindHas
<1> QED BY <1>1, <1>2

\* The steps that leave the action lists alone.
LEMMA ActsQuiet ==
  ASSUME \/ Dec \/ DecAll \/ Freed \/ DelSlookup \/ DelFlookup \/ DelRlookup \/ DelAttrhash
         \/ DelFromVhash \/ EncapAttrDestroyHook \/ DelAttrLookup \/ EachValue \/ KaEnd
         \/ PurgeBegin \/ Foreach \/ DestroyAttrs \/ DestroyAttr \/ PushValue \/ DestroyKeys
  PROVE  UNCHANGED acts
<1>1. CASE Dec
  BY <1>1 DEF Dec, heap, Fault, Died
<1>2. CASE DecAll
  BY <1>2 DEF DecAll, heap, Fault, Died
<1>3. CASE Freed
  BY <1>3 DEF Freed, heap, Fault, Died
<1>4. CASE DelSlookup
  BY <1>4 DEF DelSlookup, heap, Fault, Died
<1>5. CASE DelFlookup
  BY <1>5 DEF DelFlookup, heap, Fault, Died
<1>6. CASE DelRlookup
  BY <1>6 DEF DelRlookup, heap, Fault, Died
<1>7. CASE DelAttrhash
  BY <1>7 DEF DelAttrhash, heap, Fault, Died
<1>8. CASE DelFromVhash
  BY <1>8 DEF DelFromVhash, heap, Fault, Died
<1>9. CASE EncapAttrDestroyHook
  BY <1>9 DEF EncapAttrDestroyHook, heap, Fault, Died
<1>10. CASE DelAttrLookup
  BY <1>10 DEF DelAttrLookup, heap, Fault, Died
<1>11. CASE EachValue
  BY <1>11 DEF EachValue, heap, Fault, Died
<1>12. CASE KaEnd
  BY <1>12 DEF KaEnd, heap, Fault, Died
<1>13. CASE PurgeBegin
  BY <1>13 DEF PurgeBegin, heap, Fault, Died
<1>14. CASE Foreach
  BY <1>14 DEF Foreach, heap, Fault, Died
<1>15. CASE DestroyAttrs
  BY <1>15 DEF DestroyAttrs, heap, Fault, Died
<1>16. CASE DestroyAttr
  BY <1>16 DEF DestroyAttr, heap, Fault, Died
<1>17. CASE PushValue
  BY <1>17 DEF PushValue, heap, Fault, Died
<1>18. CASE DestroyKeys
  BY <1>18 DEF DestroyKeys, heap, Fault, Died
<1> QED BY <1>1, <1>2, <1>3, <1>4, <1>5, <1>6, <1>7, <1>8, <1>9, <1>10, <1>11, <1>12, <1>13, <1>14, <1>15, <1>16, <1>17, <1>18

LEMMA FewerVhashCheck ==
  ASSUME Shape, VhashCheck
  PROVE  Fewer(acts', acts) /\ Spares({"rlookup"})
<1>1. Top[2] \in Node
  BY TopIs, Apartness DEF VhashCheck, Doing, Shape, TaskIs
<1>2. acts \in [Node -> Seq(Action)]
  BY DEF Shape, DataShape, Typed
<1>3. acts' = WithoutKind(acts, Top[2], "rlookup") \/ acts' = acts
  BY DEF VhashCheck
<1>4. Fewer(acts', acts)
  BY <1>1, <1>2, <1>3, FewerActions
<1> QED BY <1>1, <1>2, <1>3, <1>4, SparesProps DEF Spares

LEMMA FewerPurgeEnd ==
  ASSUME Shape, PurgeEnd
  PROVE  Fewer(acts', acts) /\ Spares({"rlookup"})
<1>1. Top[2] \in Node
  BY TopIs, Apartness DEF PurgeEnd, Doing, Shape, TaskIs
<1>2. acts \in [Node -> Seq(Action)]
  BY DEF Shape, DataShape, Typed
<1>3. acts' = WithoutKind(acts, Top[2], "rlookup")
  BY DEF PurgeEnd
<1>4. Fewer(acts', acts)
  BY <1>1, <1>2, <1>3, FewerActions
<1> QED BY <1>1, <1>2, <1>3, <1>4, SparesProps DEF Spares

LEMMA FewerEncapDestroyHook ==
  ASSUME Shape, EncapDestroyHook
  PROVE  Fewer(acts', acts) /\ Spares({"k_encap_cleanup"})
<1>1. Top[2] \in Node
  BY TopIs, ActionIs, Apartness DEF EncapDestroyHook, Doing, Shape, TaskIs, ActionKinds
<1>2. acts \in [Node -> Seq(Action)]
  BY DEF Shape, DataShape, Typed
<1>3. acts' = WithoutKind(acts, Top[2], "k_encap_cleanup") \/ acts' = acts
  BY DEF EncapDestroyHook, Fault, heap
<1>4. Fewer(acts', acts)
  BY <1>1, <1>2, <1>3, FewerActions
<1> QED BY <1>1, <1>2, <1>3, <1>4, SparesProps DEF Spares

LEMMA FewerKEncapCleanup ==
  ASSUME Shape, KEncapCleanup
  PROVE  Fewer(acts', acts) /\ Spares({"encap_destroy_hook"})
<1>1. Top[2] \in Key /\ (obj[Top[2]] \in Ref => TheObject(Top[2]) \in Node)
  BY TopIs, ActionIs, Apartness DEF KEncapCleanup, Doing, Shape, TaskIs, ActionKinds,
     DataShape, EntriesTyped, Ref
<1>2. acts \in [Node -> Seq(Action)]
  BY DEF Shape, DataShape, Typed
<1>3. \/ obj[Top[2]] \in Ref /\ acts' = Without(acts, TheObject(Top[2]), <<"encap_destroy_hook", Top[2]>>)
      \/ acts' = acts
  BY DEF KEncapCleanup, Fault, heap
<1>4. Fewer(acts', acts)
  BY <1>1, <1>2, <1>3, FewerActions
<1>5. ASSUME NEW k, NEW n \in Node, acts' = Without(acts, n, <<"encap_destroy_hook", k>>)
      PROVE  Spares({"encap_destroy_hook"})
  <2>1. \A m \in Node : \A b : b \in ToSet(acts[m]) /\ b # <<"encap_destroy_hook", k>> => b \in ToSet(acts'[m])
    BY <1>2, <1>5, SparesProps
  <2> QED BY <2>1 DEF Spares
<1> QED BY <1>1, <1>3, <1>4, <1>5 DEF Spares

LEMMA FewerDelFromAttrhash ==
  ASSUME Shape, DelFromAttrhash
  PROVE  Fewer(acts', acts) /\ Spares({"attrhash"})
<1> DEFINE x == <<"attrhash", Top[2], Top[3]>>
<1>1. Top[3] \in Node
  BY TopIs, Apartness DEF DelFromAttrhash, Doing, Shape, TaskIs
<1>2. acts \in [Node -> Seq(Action)]
  BY DEF Shape, DataShape, Typed
<1>3. acts' = Without(acts, Top[3], x) /\ x[1] = "attrhash"
  BY DEF DelFromAttrhash
<1> HIDE DEF x
<1>4. Fewer(acts', acts)
  BY <1>1, <1>2, <1>3, FewerActions
<1>5. \A m \in Node : \A b : b \in ToSet(acts[m]) /\ b # x => b \in ToSet(acts'[m])
  BY <1>1, <1>2, <1>3, SparesProps
<1> QED BY <1>3, <1>4, <1>5 DEF Spares

LEMMA FewerDestroyValues ==
  ASSUME Shape, DestroyValues
  PROVE  /\ Fewer(acts', acts) /\ Spares({"rlookup"})
         /\ \A v \in Object : rlookup'[v] # Null =>
              rlookup[v] # Null /\ (<<"rlookup", v>> \in ToSet(acts[v]) => <<"rlookup", v>> \in ToSet(acts'[v]))
<1>1. todo # <<>> /\ Top[2] \in SUBSET Object
  BY TopIs DEF DestroyValues, Doing, Shape, TaskIs
<1>2. acts \in [Node -> Seq(Action)]
  BY DEF Shape, DataShape, Typed
<1>3. CASE UNCHANGED <<acts, rlookup>>
  BY <1>2, <1>3, FewerActions DEF Spares
<1>4. CASE \E v \in Top[2] : rlookup' = [rlookup EXCEPT ![v] = Null] /\ acts' = Without(acts, v, <<"rlookup", v>>)
  <2>1. PICK v \in Object : rlookup' = [rlookup EXCEPT ![v] = Null] /\ acts' = Without(acts, v, <<"rlookup", v>>)
    BY <1>1, <1>4
  <2> DEFINE x == <<"rlookup", v>>
  <2>2. v \in Node /\ acts' = Without(acts, v, x) /\ x[1] = "rlookup"
    BY <2>1, Apartness
  <2>3. \A u : u # v => <<"rlookup", u>> # x
    OBVIOUS
  <2> HIDE DEF x
  <2>4. Fewer(acts', acts)
    BY <1>2, <2>2, FewerActions
  <2>5. \A m \in Node : \A b : b \in ToSet(acts[m]) /\ b # x => b \in ToSet(acts'[m])
    BY <1>2, <2>2, SparesProps
  <2>6. \A u \in Object : rlookup'[u] # Null => rlookup[u] # Null /\ u # v
    BY <2>1 DEF Shape, DataShape, Typed
  <2>7. \A u \in Object : u \in Node
    BY Apartness
  <2> QED BY <2>2, <2>3, <2>4, <2>5, <2>6, <2>7 DEF Spares
<1> QED BY <1>3, <1>4 DEF DestroyValues

LEMMA FewerAttrDestroyTrigger ==
  ASSUME Shape, AttrDestroyTrigger
  PROVE  /\ Fewer(acts', acts) /\ Spares({"attr_destroy_trigger", "encap_attr_destroy_hook"})
         /\ Top[2] \in Attr /\ Top = Trigger(Top[2])
         /\ \/ UNCHANGED <<acts, todo, obj_paddr, life>>
            \/ /\ UNCHANGED <<obj_paddr, life>>
               /\ \A n \in Node : \A b : n # Top[2] /\ b \in ToSet(acts[n]) /\ b[1] # "encap_attr_destroy_hook" =>
                    b \in ToSet(acts'[n])
               /\ obj_paddr[Top[2]] => TheObject(Top[2]) \in Object
                    /\ \A b \in ToSet(acts'[TheObject(Top[2])]) : b[1] # "encap_attr_destroy_hook"
<1>1. /\ Top[2] \in Attr /\ Top[2] \in Node /\ Top = Trigger(Top[2])
      /\ obj_paddr[Top[2]] => TheObject(Top[2]) \in Object /\ TheObject(Top[2]) \in Node
  BY TopIs, ActionIs, Apartness DEF AttrDestroyTrigger, Doing, Shape, TaskIs, ActionKinds, Trigger,
     DataShape, EntriesTyped
<1>2. acts \in [Node -> Seq(Action)]
  BY DEF Shape, DataShape, Typed
<1>3. PICK a \in Attr : a = Top[2]
  BY <1>1
<1> DEFINE o == TheObject(a)
           own == WithoutKind(acts, a, "attr_destroy_trigger")
<1>4. CASE Fault("use of a freed attribute or object")
  <2>1. UNCHANGED <<acts, todo, obj_paddr, life>>
    BY <1>4 DEF Fault, heap, blobs
  <2> QED BY <1>1, <1>2, <2>1, FewerActions DEF Spares
<1>5. CASE acts' = (IF obj_paddr[a] THEN WithoutKind(own, o, "encap_attr_destroy_hook") ELSE own)
           /\ UNCHANGED <<obj_paddr, life>>
  <2>1. own \in [Node -> Seq(Action)] /\ Fewer(own, acts)
        /\ \A m \in Node : \A b : b \in ToSet(own[m]) <=> b \in ToSet(acts[m]) /\ (m = a => b[1] # "attr_destroy_trigger")
    <3>1. a \in Node
      BY <1>1, <1>3
    <3>2. own \in [Node -> Seq(Action)] /\ Fewer(own, acts)
      BY <1>2, <3>1, WithoutKindHas, FewerActions
    <3>3. \A m \in Node : \A b : b \in ToSet(own[m]) <=> b \in ToSet(acts[m]) /\ (m = a => b[1] # "attr_destroy_trigger")
      BY <1>2, <3>1, WithoutKindHas
    <3> HIDE DEF own
    <3> QED BY <3>2, <3>3
  <2> HIDE DEF own
  <2>2. CASE ~ obj_paddr[a]
    <3>1. acts' = own
      BY <1>5, <2>2
    <3> QED BY <1>1, <1>3, <1>5, <2>1, <2>2, <3>1 DEF Spares
  <2>3. CASE obj_paddr[a]
    <3>1. acts' = WithoutKind(own, o, "encap_attr_destroy_hook") /\ o \in Node /\ o \in Object
      BY <1>1, <1>3, <1>5, <2>3
    <3> HIDE DEF o
    <3>2. /\ Fewer(acts', own)
          /\ \A m \in Node : \A b : b \in ToSet(acts'[m]) <=>
               b \in ToSet(own[m]) /\ (m = o => b[1] # "encap_attr_destroy_hook")
      <4>1. Fewer(acts', own)
        BY <2>1, <3>1, FewerActions
      <4>2. \A m \in Node : \A b : b \in ToSet(acts'[m]) <=>
              b \in ToSet(own[m]) /\ (m = o => b[1] # "encap_attr_destroy_hook")
        BY <2>1, <3>1, WithoutKindHas
      <4> QED BY <4>1, <4>2
    <3>3. Fewer(acts', acts)
      BY <1>2, <2>1, <3>2, FewerActions
    <3>4. Spares({"attr_destroy_trigger", "encap_attr_destroy_hook"})
      BY <2>1, <3>2 DEF Spares
    <3>5. \A n \in Node : \A b : n # a /\ b \in ToSet(acts[n]) /\ b[1] # "encap_attr_destroy_hook" => b \in ToSet(acts'[n])
      BY <2>1, <3>2
    <3>6. \A b \in ToSet(acts'[o]) : b[1] # "encap_attr_destroy_hook"
      BY <3>1, <3>2
    <3> QED BY <1>1, <1>3, <1>5, <3>1, <3>3, <3>4, <3>5, <3>6 DEF o
  <2> QED BY <2>2, <2>3
<1> QED BY <1>3, <1>4, <1>5 DEF AttrDestroyTrigger, o

\* No step adds an action.
LEMMA StepFewer ==
  ASSUME Shape, Step
  PROVE  Fewer(acts', acts)
<1>1. acts \in [Node -> Seq(Action)]
  BY DEF Shape, DataShape, Typed
<1>2. UNCHANGED acts => Fewer(acts', acts)
  BY <1>1, FewerActions
<1> QED BY <1>2, ActsQuiet, FewerRunAction, FewerVhashCheck, FewerPurgeEnd, FewerEncapDestroyHook,
           FewerKEncapCleanup, FewerDelFromAttrhash, FewerDestroyValues, FewerAttrDestroyTrigger DEF Step

\* The actions that storing a key makes, and those it leaves.
LEMMA StoredSk ==
  ASSUME Shape, NEW k \in Key, NEW v \in Object, NEW sv \in BOOLEAN, NEW sk \in BOOLEAN,
         StoreSk(k, v, sv, sk)
  PROVE  /\ \A n \in Node : \A b : (n # k /\ b \in ToSet(acts[n])) \/ (n = v /\ b = <<"rlookup", v>>) => b \in ToSet(acts'[n])
         /\ \A n \in Node : \A b : n # k /\ b \in ToSet(acts'[n]) =>
              b \in ToSet(acts[n]) \/ b = <<"rlookup", v>> \/ b = <<"encap_destroy_hook", k>>
         /\ \A n \in Node : n # k /\ n # v /\ ~ (IsEncap(k) /\ n = TheObject(k)) => acts'[n] = acts[n]
         /\ (\A n \in Node : NoDuplicate(acts[n])) => \A n \in Node : NoDuplicate(acts'[n])
<1> DEFINE o == TheObject(k)
           x == <<"rlookup", v>>
           y == <<"encap_destroy_hook", k>>
           keyed == [acts EXCEPT ![k] = OwnActions(k)]
           hooked == IF IsEncap(k) THEN Added(keyed, o, y) ELSE keyed
<1>1. /\ k \in Index /\ k \in Node /\ v \in Node /\ v # k
      /\ x \in Action /\ (IsEncap(k) => o \in Node /\ o # k /\ y \in Action)
  BY Apartness, ActionTasks, Encap
<1>2. acts' = Added(hooked, v, x) /\ acts \in [Node -> Seq(Action)]
  BY DEF StoreSk, Shape, DataShape, Typed
<1>3. OwnActions(k) \in Seq(Action) /\ NoDuplicate(OwnActions(k))
  BY <1>1, OwnActionsProps
<1>4. /\ keyed \in [Node -> Seq(Action)] /\ keyed[k] = OwnActions(k)
      /\ \A n \in Node : n # k => keyed[n] = acts[n]
  BY <1>1, <1>2, <1>3
<1> HIDE DEF x, y, o, keyed
<1>5. /\ hooked \in [Node -> Seq(Action)]
      /\ \A n \in Node : \A b : b \in ToSet(hooked[n]) <=> b \in ToSet(keyed[n]) \/ (IsEncap(k) /\ n = o /\ b = y)
      /\ \A n \in Node : ~ (IsEncap(k) /\ n = o) => hooked[n] = keyed[n]
      /\ \A n \in Node : NoDuplicate(keyed[n]) => NoDuplicate(hooked[n])
  <2>1. CASE IsEncap(k)
    <3>1. hooked = Added(keyed, o, y) /\ o \in Node /\ y \in Action
      BY <1>1, <2>1
    <3> HIDE DEF hooked
    <3>2. /\ hooked \in [Node -> Seq(Action)]
          /\ \A n \in Node : \A b : b \in ToSet(hooked[n]) <=> b \in ToSet(keyed[n]) \/ (n = o /\ b = y)
          /\ \A n \in Node : NoDuplicate(keyed[n]) => NoDuplicate(hooked[n])
      BY <1>4, <3>1, AddedHas
    <3>3. \A n \in Node : n # o => hooked[n] = keyed[n]
      BY <1>4, <3>1, AddedProps
    <3> QED BY <2>1, <3>2, <3>3
  <2>2. CASE ~ IsEncap(k)
    BY <1>4, <2>2
  <2> QED BY <2>1, <2>2
<1> HIDE DEF hooked
<1>6. /\ \A n \in Node : \A b : b \in ToSet(acts'[n]) <=> b \in ToSet(hooked[n]) \/ (n = v /\ b = x)
      /\ \A n \in Node : NoDuplicate(hooked[n]) => NoDuplicate(acts'[n])
  BY <1>1, <1>2, <1>5, AddedHas
<1>7. \A n \in Node : n # v => acts'[n] = hooked[n]
  BY <1>1, <1>2, <1>5, AddedProps
<1>8. \A n \in Node : \A b : (n # k /\ b \in ToSet(acts[n])) \/ (n = v /\ b = x) => b \in ToSet(acts'[n])
  BY <1>1, <1>4, <1>5, <1>6
<1>9. \A n \in Node : \A b : n # k /\ b \in ToSet(acts'[n]) => b \in ToSet(acts[n]) \/ b = x \/ b = y
  BY <1>4, <1>5, <1>6
<1>10. \A n \in Node : n # k /\ n # v /\ ~ (IsEncap(k) /\ n = o) => acts'[n] = acts[n]
  BY <1>4, <1>5, <1>7
<1>11. ASSUME \A n \in Node : NoDuplicate(acts[n]), NEW n \in Node PROVE NoDuplicate(acts'[n])
  <2>1. NoDuplicate(keyed[n])
    BY <1>3, <1>4, <1>11
  <2> QED BY <1>5, <1>6, <2>1
<1> QED BY <1>8, <1>9, <1>10, <1>11 DEF x, y, o

\* The same of storing under an attribute.
LEMMA StoredA ==
  ASSUME Shape, NEW a \in Attr, NEW v \in Object, NEW sv \in BOOLEAN, NEW sa \in BOOLEAN,
         StoreA(a, v, sv, sa)
  PROVE  /\ \A n \in Node : \A b : n # a /\ b \in ToSet(acts[n]) => b \in ToSet(acts'[n])
         /\ rlookup[v] = Null => <<"rlookup", v>> \in ToSet(acts'[v])
         /\ Trigger(a) \in ToSet(acts'[a]) \/ (attr_lookup[a] # "none" /\ acts'[a] = acts[a])
         /\ \A n \in Node : \A b : n # a /\ b \in ToSet(acts'[n]) =>
              \/ b \in ToSet(acts[n]) \/ b = <<"rlookup", v>> \/ b = <<"attrhash", a, v>>
              \/ b = Hook(a) /\ attr_lookup[a] = "none" /\ IsEncap(a)
         /\ \A n \in Node : n # a /\ n # v /\ ~ (IsEncap(a) /\ n = TheObject(a)) => acts'[n] = acts[n]
         /\ (\A n \in Node : NoDuplicate(acts[n])) => \A n \in Node : NoDuplicate(acts'[n])
<1> DEFINE new == attr_lookup[a] = "none"
           o == TheObject(a)
           x == <<"rlookup", v>>
           y == Hook(a)
           z == <<"attrhash", a, v>>
           own == IF new THEN [acts EXCEPT ![a] = OwnActions(a)] ELSE acts
           hooked == IF new /\ IsEncap(a) THEN Added(own, o, y) ELSE own
           reversed == IF rlookup[v] = Null THEN Added(hooked, v, x) ELSE hooked
<1>1. /\ a \in Index /\ a \in Node /\ v \in Node /\ v # a /\ z \in Action
      /\ x \in Action /\ (IsEncap(a) => o \in Node /\ o # a /\ y \in Action)
  BY Apartness, ActionTasks, Encap DEF Hook
<1>2. acts' = Added(reversed, v, z) /\ acts \in [Node -> Seq(Action)]
  BY DEF StoreA, Shape, DataShape, Typed, Hook
<1>3. OwnActions(a) \in Seq(Action) /\ NoDuplicate(OwnActions(a)) /\ Trigger(a) \in ToSet(OwnActions(a))
  BY <1>1, OwnActionsProps DEF Trigger
<1>4. /\ own \in [Node -> Seq(Action)] /\ own[a] = (IF new THEN OwnActions(a) ELSE acts[a])
      /\ \A n \in Node : n # a => own[n] = acts[n]
  BY <1>1, <1>2, <1>3
<1> HIDE DEF x, y, z, o, own
<1>5. /\ hooked \in [Node -> Seq(Action)]
      /\ \A n \in Node : \A b : b \in ToSet(hooked[n]) <=> b \in ToSet(own[n]) \/ (new /\ IsEncap(a) /\ n = o /\ b = y)
      /\ \A n \in Node : ~ (IsEncap(a) /\ n = o) => hooked[n] = own[n]
      /\ \A n \in Node : NoDuplicate(own[n]) => NoDuplicate(hooked[n])
  <2>1. CASE new /\ IsEncap(a)
    <3>1. hooked = Added(own, o, y) /\ o \in Node /\ y \in Action
      BY <1>1, <2>1
    <3> HIDE DEF hooked
    <3>2. /\ hooked \in [Node -> Seq(Action)]
          /\ \A n \in Node : \A b : b \in ToSet(hooked[n]) <=> b \in ToSet(own[n]) \/ (n = o /\ b = y)
          /\ \A n \in Node : NoDuplicate(own[n]) => NoDuplicate(hooked[n])
      BY <1>4, <3>1, AddedHas
    <3>3. \A n \in Node : n # o => hooked[n] = own[n]
      BY <1>4, <3>1, AddedProps
    <3> QED BY <2>1, <3>2, <3>3
  <2>2. CASE ~ (new /\ IsEncap(a))
    <3>1. hooked = own
      BY <2>2
    <3> HIDE DEF hooked, new
    <3> QED BY <1>4, <2>2, <3>1
  <2> QED BY <2>1, <2>2
<1> HIDE DEF hooked, new
<1>6. /\ reversed \in [Node -> Seq(Action)]
      /\ \A n \in Node : \A b : b \in ToSet(reversed[n]) <=>
           b \in ToSet(hooked[n]) \/ (rlookup[v] = Null /\ n = v /\ b = x)
      /\ \A n \in Node : n # v => reversed[n] = hooked[n]
      /\ \A n \in Node : NoDuplicate(hooked[n]) => NoDuplicate(reversed[n])
  <2>1. CASE rlookup[v] = Null
    <3>1. reversed = Added(hooked, v, x)
      BY <2>1
    <3> HIDE DEF reversed
    <3>2. /\ reversed \in [Node -> Seq(Action)]
          /\ \A n \in Node : \A b : b \in ToSet(reversed[n]) <=> b \in ToSet(hooked[n]) \/ (n = v /\ b = x)
          /\ \A n \in Node : NoDuplicate(hooked[n]) => NoDuplicate(reversed[n])
      BY <1>1, <1>5, <3>1, AddedHas
    <3>3. \A n \in Node : n # v => reversed[n] = hooked[n]
      BY <1>1, <1>5, <3>1, AddedProps
    <3> QED BY <2>1, <3>2, <3>3
  <2>2. CASE rlookup[v] # Null
    BY <1>5, <2>2
  <2> QED BY <2>1, <2>2
<1> HIDE DEF reversed
<1>7. /\ \A n \in Node : \A b : b \in ToSet(acts'[n]) <=> b \in ToSet(reversed[n]) \/ (n = v /\ b = z)
      /\ \A n \in Node : NoDuplicate(reversed[n]) => NoDuplicate(acts'[n])
  BY <1>1, <1>2, <1>6, AddedHas
<1>8. \A n \in Node : n # v => acts'[n] = reversed[n]
  BY <1>1, <1>2, <1>6, AddedProps, ZenonT(60)
<1>9. \A n \in Node : \A b : n # a /\ b \in ToSet(acts[n]) => b \in ToSet(acts'[n])
  BY <1>4, <1>5, <1>6, <1>7
<1>10. rlookup[v] = Null => x \in ToSet(acts'[v])
  BY <1>1, <1>6, <1>7
<1>11. acts'[a] = own[a]
  <2>1. ~ (IsEncap(a) /\ a = o) /\ a # v /\ a \in Node
    BY <1>1
  <2> QED BY <1>5, <1>6, <1>8, <2>1
<1>12. Trigger(a) \in ToSet(acts'[a]) \/ (attr_lookup[a] # "none" /\ acts'[a] = acts[a])
  BY <1>3, <1>4, <1>11 DEF new
<1>13. \A n \in Node : \A b : n # a /\ b \in ToSet(acts'[n]) =>
         b \in ToSet(acts[n]) \/ b = x \/ b = z \/ (b = y /\ new /\ IsEncap(a))
  BY <1>4, <1>5, <1>6, <1>7
<1>14. \A n \in Node : n # a /\ n # v /\ ~ (IsEncap(a) /\ n = o) => acts'[n] = acts[n]
  BY <1>4, <1>5, <1>6, <1>8
<1>15. ASSUME \A n \in Node : NoDuplicate(acts[n]), NEW n \in Node PROVE NoDuplicate(acts'[n])
  <2>1. NoDuplicate(own[n])
    <3>1. own[n] = acts[n] \/ own[n] = OwnActions(a)
      BY <1>4
    <3> QED BY <1>3, <1>15, <3>1
  <2> QED BY <1>5, <1>6, <1>7, <2>1
<1> QED BY <1>9, <1>10, <1>12, <1>13, <1>14, <1>15 DEF x, y, z, o, new

\* What is not new to the lists.
LEMMA StoredElsewhere ==
  ASSUME Shape, NEW a \in Attr, NEW v \in Object, NEW sv \in BOOLEAN, NEW sa \in BOOLEAN,
         StoreA(a, v, sv, sa)
  PROVE  /\ \A n \in Node : \A b : n # a /\ b \in ToSet(acts[n]) => b \in ToSet(acts'[n])
         /\ Trigger(a) \in ToSet(acts'[a]) \/ (attr_lookup[a] # "none" /\ acts'[a] = acts[a])
         /\ \A n \in Node : n # a /\ n # v /\ ~ (IsEncap(a) /\ n = TheObject(a)) => acts'[n] = acts[n]
<1>1. /\ \A n \in Node : \A b : n # a /\ b \in ToSet(acts[n]) => b \in ToSet(acts'[n])
      /\ rlookup[v] = Null => <<"rlookup", v>> \in ToSet(acts'[v])
      /\ Trigger(a) \in ToSet(acts'[a]) \/ (attr_lookup[a] # "none" /\ acts'[a] = acts[a])
      /\ \A n \in Node : \A b : n # a /\ b \in ToSet(acts'[n]) =>
           \/ b \in ToSet(acts[n]) \/ b = <<"rlookup", v>> \/ b = <<"attrhash", a, v>>
           \/ b = Hook(a) /\ attr_lookup[a] = "none" /\ IsEncap(a)
      /\ \A n \in Node : n # a /\ n # v /\ ~ (IsEncap(a) /\ n = TheObject(a)) => acts'[n] = acts[n]
      /\ (\A n \in Node : NoDuplicate(acts[n])) => \A n \in Node : NoDuplicate(acts'[n])
  BY StoredA, Zenon
<1> QED BY <1>1

-----------------------------------------------------------------------------
(* A vhash goes with its value.  VhashX says that X keeps the two together. *)

LEMMA VhashStays ==
  ASSUME VhashHooked, todo = <<>> \/ Top[1] # "rlookup",
         \A v \in Object : rlookup'[v] # Null =>
           rlookup[v] # Null /\ (<<"rlookup", v>> \in ToSet(acts[v]) => <<"rlookup", v>> \in ToSet(acts'[v]))
  PROVE  VhashHooked'
<1>1. \A v : todo = <<>> \/ <<"rlookup", v>> # Top
  OBVIOUS
<1> QED BY <1>1 DEF VhashHooked

LEMMA VhashSame ==
  ASSUME VhashHooked, todo = <<>> \/ Top[1] # "rlookup", UNCHANGED <<acts, rlookup>>
  PROVE  VhashHooked'
BY VhashStays

LEMMA VhashFault ==
  ASSUME VhashHooked, NEW what, Fault(what)
  PROVE  VhashHooked'
<1>1. UNCHANGED <<acts, rlookup, todo>>
  BY DEF Fault, heap, tables
<1> QED BY <1>1 DEF VhashHooked, Top

LEMMA VhashQuiet ==
  ASSUME VhashHooked,
         \/ Dec \/ DecAll \/ Freed \/ DelSlookup \/ DelFlookup \/ DelAttrhash
         \/ EncapAttrDestroyHook \/ DelAttrLookup \/ EachValue \/ KaEnd \/ PurgeBegin
         \/ Foreach \/ DestroyAttrs \/ DestroyAttr \/ PushValue \/ DestroyKeys
  PROVE  VhashHooked'
<1>1. CASE Dec
  BY <1>1, VhashSame, VhashFault DEF Dec, Doing, heap, tables
<1>2. CASE DecAll
  BY <1>2, VhashSame DEF DecAll, Doing, heap, tables
<1>3. CASE Freed
  BY <1>3, VhashSame DEF Freed, Doing, heap, tables
<1>4. CASE DelSlookup
  BY <1>4, VhashSame DEF DelSlookup, Doing, heap, tables
<1>5. CASE DelFlookup
  BY <1>5, VhashSame DEF DelFlookup, Doing, heap, tables
<1>6. CASE DelAttrhash
  BY <1>6, VhashSame, VhashFault DEF DelAttrhash, Doing, heap, tables
<1>7. CASE EncapAttrDestroyHook
  BY <1>7, VhashSame, VhashFault DEF EncapAttrDestroyHook, Doing, heap, tables
<1>8. CASE DelAttrLookup
  BY <1>8, VhashSame, VhashFault DEF DelAttrLookup, Doing, heap, tables
<1>9. CASE EachValue
  BY <1>9, VhashSame, VhashFault DEF EachValue, Doing, heap, tables
<1>10. CASE KaEnd
  BY <1>10, VhashSame DEF KaEnd, Doing, heap, tables
<1>11. CASE PurgeBegin
  BY <1>11, VhashSame DEF PurgeBegin, Doing, heap, tables
<1>12. CASE Foreach
  BY <1>12, VhashSame, VhashFault DEF Foreach, Doing, heap, tables
<1>13. CASE DestroyAttrs
  BY <1>13, VhashSame, VhashFault DEF DestroyAttrs, Doing, heap, tables, Died
<1>14. CASE DestroyAttr
  BY <1>14, VhashSame, VhashFault DEF DestroyAttr, Doing, heap, tables, Died
<1>15. CASE PushValue
  BY <1>15, VhashSame, VhashFault DEF PushValue, Doing, heap, tables, Died
<1>16. CASE DestroyKeys
  BY <1>16, VhashSame, VhashFault DEF DestroyKeys, Doing, heap, tables, Died
<1> QED BY <1>1, <1>2, <1>3, <1>4, <1>5, <1>6, <1>7, <1>8, <1>9, <1>10, <1>11, <1>12, <1>13, <1>14, <1>15, <1>16

\* The steps that take other actions out.
LEMMA VhashSpares ==
  ASSUME Shape, VhashHooked,
         \/ EncapDestroyHook \/ KEncapCleanup \/ DelFromAttrhash \/ AttrDestroyTrigger
  PROVE  VhashHooked'
<1>1. UNCHANGED rlookup /\ Top[1] # "rlookup"
  BY DEF EncapDestroyHook, KEncapCleanup, DelFromAttrhash, AttrDestroyTrigger, Doing, Fault, tables
<1>2. \A v \in Object : <<"rlookup", v>> \in ToSet(acts[v]) => <<"rlookup", v>> \in ToSet(acts'[v])
  <2>1. \A v \in Object : v \in Node
    BY Apartness
  <2> QED BY <2>1, FewerEncapDestroyHook, FewerKEncapCleanup, FewerDelFromAttrhash,
             FewerAttrDestroyTrigger DEF Spares
<1> QED BY <1>1, <1>2, VhashStays

LEMMA VhashDelRlookup ==
  ASSUME Shape, VhashHooked, DelRlookup
  PROVE  VhashHooked'
<1>1. todo # <<>> /\ Top = <<"rlookup", Top[2]>> /\ Top[2] \in Object
  BY TopIs, ActionIs DEF DelRlookup, Doing, Shape, TaskIs, ActionKinds
<1>2. PICK v \in Object : v = Top[2]
  BY <1>1
<1>3. UNCHANGED acts /\ \A u \in Object : rlookup'[u] = IF u = v THEN Null ELSE rlookup[u]
  BY <1>2 DEF DelRlookup, heap, Shape, DataShape, Typed
<1>4. \A u : u # v => <<"rlookup", u>> # Top
  BY <1>2
<1> QED BY <1>3, <1>4 DEF VhashHooked

LEMMA VhashDelFromVhash ==
  ASSUME Shape, VhashHooked, DelFromVhash
  PROVE  VhashHooked'
<1>1. UNCHANGED acts /\ Top[1] # "rlookup"
  BY DEF DelFromVhash, heap, Doing
<1>2. rlookup' = rlookup \/ (rlookup[Top[3]] # Null /\ rlookup' = [rlookup EXCEPT ![Top[3]] = @ \ {Top[2]}])
  BY DEF DelFromVhash
<1>3. \A u \in Object : rlookup'[u] # Null => rlookup[u] # Null
  BY <1>2 DEF Shape, DataShape, Typed
<1> QED BY <1>1, <1>3, VhashStays

LEMMA VhashVhashCheck ==
  ASSUME Shape, VhashHooked, VhashCheck
  PROVE  VhashHooked'
<1>1. Top[1] # "rlookup"
  BY DEF VhashCheck, Doing
<1>2. PICK v \in Object : v = Top[2]
  BY TopIs DEF VhashCheck, Doing, Shape, TaskIs
<1>3. CASE UNCHANGED <<acts, rlookup>>
  BY <1>1, <1>3, VhashSame
<1>4. CASE acts' = WithoutKind(acts, v, "rlookup") /\ rlookup' = [rlookup EXCEPT ![v] = Null]
  <2>1. \A u \in Object : rlookup'[u] # Null => u # v /\ rlookup[u] # Null
    BY <1>4 DEF Shape, DataShape, Typed
  <2>2. acts \in [Node -> Seq(Action)] /\ v \in Node /\ \A u \in Object : u \in Node
    BY Apartness DEF Shape, DataShape, Typed
  <2>3. \A u \in Object : u # v => (\A b : b \in ToSet(acts[u]) => b \in ToSet(acts'[u]))
    BY <1>4, <2>2, WithoutKindHas
  <2> QED BY <1>1, <2>1, <2>3, VhashStays
<1> QED BY <1>2, <1>3, <1>4 DEF VhashCheck

\* What purge leaves is next to go.
LEMMA VhashPurgeEnd ==
  ASSUME Shape, VhashHooked, PurgeEnd
  PROVE  VhashHooked'
<1>1. PICK v \in Object : v = Top[2] /\ Top[1] # "rlookup" /\ todo # <<>>
  BY TopIs DEF PurgeEnd, Doing, Shape, TaskIs
<1>2. acts' = WithoutKind(acts, v, "rlookup") /\ UNCHANGED rlookup
      /\ todo' = <<<<"rlookup", v>>, <<"dec", v>>>> \o Tail(todo)
  BY <1>1 DEF PurgeEnd, tables, Then
<1>3. acts \in [Node -> Seq(Action)] /\ v \in Node /\ \A u \in Object : u \in Node
  BY Apartness DEF Shape, DataShape, Typed
<1>4. \A u \in Object : u # v => (\A b : b \in ToSet(acts[u]) => b \in ToSet(acts'[u]))
  BY <1>2, <1>3, WithoutKindHas
<1>5. todo' # <<>> /\ Top' = <<"rlookup", v>>
  <2> DEFINE x == <<"rlookup", v>>
             y == <<"dec", v>>
  <2>1. x \in Task /\ y \in Task /\ Tail(todo) \in Seq(Task)
    BY <1>1, <1>3, ActionTasks, PlainTasks, SubTasks, TopIs DEF Plain, Shape
  <2>2. todo' = <<x, y>> \o Tail(todo)
    BY <1>2
  <2> HIDE DEF x, y
  <2>3. todo' # <<>> /\ Head(todo') = x
    BY <2>1, <2>2, SetConcat
  <2> QED BY <2>3 DEF Top, x
<1>6. \A u : <<"rlookup", u>> # Top
  BY <1>1
<1> QED BY <1>1, <1>2, <1>4, <1>5, <1>6 DEF VhashHooked

LEMMA VhashRunAction ==
  ASSUME Shape, VhashHooked, RunAction
  PROVE  VhashHooked'
<1>1. Top[1] # "rlookup" /\ UNCHANGED rlookup /\ \A v \in Object : v \in Node
  BY Apartness DEF RunAction, Doing, tables
<1>2. todo' = <<Head(acts[Top[2]])>> \o todo
  BY DEF RunAction
<1>3. todo' # <<>> /\ Top' = Head(acts[Top[2]])
  <2> DEFINE x == Head(acts[Top[2]])
             T == {x} \cup Task
             s == <<x>>
  <2>1. s \in Seq(T) /\ todo \in Seq(T) /\ s # <<>> /\ Head(s) = x
    BY DEF Shape, TodoShape
  <2>2. todo' = s \o todo
    BY <1>2
  <2> HIDE DEF s, T, x
  <2>3. todo' # <<>> /\ Head(todo') = x
    BY <2>1, <2>2, SetConcat
  <2> QED BY <2>3 DEF Top, x
<1>4. \A v : <<"rlookup", v>> # Top
  BY <1>1
<1>5. ASSUME NEW v \in Object, rlookup'[v] # Null
      PROVE  <<"rlookup", v>> \in ToSet(acts'[v]) \/ Top' = <<"rlookup", v>>
  BY <1>1, <1>3, <1>4, <1>5, FewerRunAction DEF VhashHooked
<1> QED BY <1>3, <1>5 DEF VhashHooked

LEMMA VhashDestroyValues ==
  ASSUME Shape, VhashHooked, DestroyValues
  PROVE  VhashHooked'
<1>1. Top[1] # "rlookup"
  BY DEF DestroyValues, Doing
<1> QED BY <1>1, FewerDestroyValues, VhashStays

\* A value that gets a vhash gets the action.
LEMMA VhashStoreSk ==
  ASSUME Shape, VhashHooked, NEW k \in Key, NEW v \in Object, NEW sv \in BOOLEAN, NEW sk \in BOOLEAN,
         StoreSk(k, v, sv, sk)
  PROVE  VhashHooked'
<1>1. todo = <<>> /\ k \in Index /\ rlookup' = WithVhash(v, k)
  BY Apartness DEF StoreSk, Idle
<1>2. \A u \in Object : u # v => rlookup'[u] = rlookup[u]
  BY <1>1, WithVhashTyped DEF Shape, DataShape
<1>3. \A n \in Node : \A b : (n # k /\ b \in ToSet(acts[n])) \/ (n = v /\ b = <<"rlookup", v>>) => b \in ToSet(acts'[n])
  BY StoredSk
<1>4. \A u \in Object : u \in Node /\ u # k
  BY Apartness
<1>5. \A u \in Object : rlookup[u] # Null => <<"rlookup", u>> \in ToSet(acts[u])
  BY <1>1 DEF VhashHooked
<1>6. <<"rlookup", v>> \in ToSet(acts'[v])
  BY <1>3, <1>4
<1>7. \A u \in Object : rlookup[u] # Null => <<"rlookup", u>> \in ToSet(acts'[u])
  BY <1>3, <1>4, <1>5
<1> QED BY <1>2, <1>6, <1>7 DEF VhashHooked

LEMMA VhashStoreA ==
  ASSUME Shape, VhashHooked, NEW a \in Attr, NEW v \in Object, NEW sv \in BOOLEAN, NEW sa \in BOOLEAN,
         StoreA(a, v, sv, sa)
  PROVE  VhashHooked'
<1>1. todo = <<>> /\ a \in Index /\ rlookup' = WithVhash(v, a)
  BY Apartness DEF StoreA, Idle
<1>2. \A u \in Object : u # v => rlookup'[u] = rlookup[u]
  BY <1>1, WithVhashTyped DEF Shape, DataShape
<1>3. /\ \A n \in Node : \A b : n # a /\ b \in ToSet(acts[n]) => b \in ToSet(acts'[n])
      /\ rlookup[v] = Null => <<"rlookup", v>> \in ToSet(acts'[v])
  BY StoredA
<1> QED BY <1>1, <1>2, <1>3, Apartness DEF VhashHooked

LEMMA VhashInit ==
  ASSUME Init
  PROVE  VhashHooked
BY DEF Init, VhashHooked

LEMMA VhashNext ==
  ASSUME Shape, VhashHooked, [Next]_vars
  PROVE  VhashHooked'
<1>1. CASE UNCHANGED vars
  BY <1>1 DEF vars, heap, tables, VhashHooked, Top
<1>2. CASE Step
  BY <1>2, VhashQuiet, VhashSpares, VhashDelRlookup, VhashDelFromVhash, VhashVhashCheck,
     VhashPurgeEnd, VhashRunAction, VhashDestroyValues DEF Step
<1>3. ASSUME NEW o \in Object, New(o) \/ Drop(o) \/ Purge(o)
      PROVE  VhashHooked'
  BY <1>3, VhashSame DEF New, Drop, Purge, Idle, heap, tables
<1>4. ASSUME NEW k \in Key, FetchSk(k) \/ UnlinkSk(k) \/ PurgeBySk(k)
      PROVE  VhashHooked'
  BY <1>4, VhashSame DEF FetchSk, Take, UnlinkSk, PurgeBySk, Idle, tables
<1>5. ASSUME NEW a \in Attr, FetchA(a) \/ UnlinkA(a) \/ PurgeByA(a)
      PROVE  VhashHooked'
  BY <1>5, VhashSame DEF FetchA, Take, UnlinkA, PurgeByA, Idle, heap, tables
<1>6. CASE Destroy
  BY <1>6, VhashSame DEF Destroy, Idle, heap, tables
<1>7. ASSUME NEW a \in Attr, NEW v \in Object, DissocA(a, v)
      PROVE  VhashHooked'
  BY <1>7, VhashSame DEF DissocA, Idle, heap, tables
<1>8. CASE Operation
  BY <1>3, <1>4, <1>5, <1>6, <1>7, <1>8, VhashStoreSk, VhashStoreA DEF Operation
<1> QED BY <1>1, <1>2, <1>8 DEF Next

-----------------------------------------------------------------------------
(* Nothing is left of what is free.  FreeX says that X leaves nothing       *)
(* behind, nor adds anything to what is free.                               *)

LEMMA NoActions ==
  ASSUME NEW q \in Seq(Action), ToSet(q) = {}
  PROVE  q = <<>>
<1>1. Len(q) \in Nat /\ (Len(q) # 0 => 1 \in 1..Len(q)) /\ (Len(q) = 0 => q = <<>>) /\ DOMAIN q = 1..Len(q)
  OBVIOUS
<1> QED BY <1>1 DEF ToSet

LEMMA FreeStays ==
  ASSUME DataShape, FreeClean, Fewer(acts', acts),
         \A n \in Node : life'[n] = "free" => life[n] = "free",
         \A v \in Object : rlookup'[v] # Null => rlookup[v] # Null,
         \A a \in Attr, v \in Object : attrhash'[a][v] # "none" => attrhash[a][v] # "none"
  PROVE  FreeClean'
<1>1. ASSUME NEW n \in Node, life'[n] = "free" PROVE acts'[n] = <<>>
  <2>1. acts[n] = <<>>
    BY <1>1 DEF FreeClean
  <2>2. ToSet(acts[n]) = {}
    BY <2>1 DEF ToSet
  <2>3. acts'[n] \in Seq(Action) /\ ToSet(acts'[n]) = {}
    BY <2>2 DEF Fewer
  <2> QED BY <2>3, NoActions
<1>2. /\ \A v \in Object : v \in Node
      /\ \A a \in Attr : a \in Node
  BY Apartness
<1> QED BY <1>1, <1>2 DEF FreeClean

LEMMA FreeSame ==
  ASSUME FreeClean, UNCHANGED <<life, acts, rlookup, attrhash>>
  PROVE  FreeClean'
BY DEF FreeClean

LEMMA FreeFault ==
  ASSUME FreeClean, NEW what, Fault(what)
  PROVE  FreeClean'
BY FreeSame DEF Fault, heap, tables, blobs

\* The steps that change nothing of this but the action lists.
LEMMA FreeQuiet ==
  ASSUME Shape, FreeClean, Step,
         \/ DecAll \/ RunAction \/ DelSlookup \/ DelFlookup \/ EncapDestroyHook
         \/ KEncapCleanup \/ EncapAttrDestroyHook \/ AttrDestroyTrigger \/ DelAttrLookup
         \/ EachValue \/ PurgeBegin \/ Foreach \/ PurgeEnd \/ DestroyAttrs \/ DestroyAttr
         \/ PushValue \/ DestroyKeys
  PROVE  FreeClean'
<1>1. Fewer(acts', acts) /\ DataShape
  BY StepFewer DEF Shape
<1>2. CASE DecAll
  BY <1>1, <1>2, FreeStays DEF DecAll, heap, tables, blobs
<1>3. CASE RunAction
  BY <1>1, <1>3, FreeStays DEF RunAction, heap, tables, blobs
<1>4. CASE DelSlookup
  BY <1>1, <1>4, FreeStays DEF DelSlookup, heap, tables, blobs
<1>5. CASE DelFlookup
  BY <1>1, <1>5, FreeStays DEF DelFlookup, heap, tables, blobs
<1>6. CASE EncapDestroyHook
  BY <1>1, <1>6, FreeStays, FreeFault DEF EncapDestroyHook, heap, tables, blobs
<1>7. CASE KEncapCleanup
  BY <1>1, <1>7, FreeStays, FreeFault DEF KEncapCleanup, heap, tables, blobs
<1>8. CASE EncapAttrDestroyHook
  BY <1>1, <1>8, FreeStays, FreeFault DEF EncapAttrDestroyHook, heap, tables, blobs
<1>9. CASE AttrDestroyTrigger
  BY <1>1, <1>9, FreeStays, FreeFault DEF AttrDestroyTrigger, heap, tables, blobs
<1>10. CASE DelAttrLookup
  BY <1>1, <1>10, FreeStays, FreeFault DEF DelAttrLookup, heap, tables, blobs
<1>11. CASE EachValue
  BY <1>1, <1>11, FreeStays, FreeFault DEF EachValue, heap, tables, blobs
<1>12. CASE PurgeBegin
  BY <1>1, <1>12, FreeStays DEF PurgeBegin, heap, tables, blobs
<1>13. CASE Foreach
  BY <1>1, <1>13, FreeStays, FreeFault DEF Foreach, heap, tables, blobs
<1>14. CASE PurgeEnd
  BY <1>1, <1>14, FreeStays DEF PurgeEnd, heap, tables, blobs
<1>15. CASE DestroyAttrs
  BY <1>1, <1>15, FreeStays, FreeFault DEF DestroyAttrs, heap, tables, blobs, Died
<1>16. CASE DestroyAttr
  BY <1>1, <1>16, FreeStays, FreeFault DEF DestroyAttr, heap, tables, blobs, Died
<1>17. CASE PushValue
  BY <1>1, <1>17, FreeStays, FreeFault DEF PushValue, heap, tables, blobs, Died
<1>18. CASE DestroyKeys
  BY <1>1, <1>18, FreeStays, FreeFault DEF DestroyKeys, heap, tables, blobs, Died
<1> QED BY <1>2, <1>3, <1>4, <1>5, <1>6, <1>7, <1>8, <1>9, <1>10, <1>11, <1>12, <1>13, <1>14, <1>15, <1>16, <1>17, <1>18

\* Fewer vhashes, fewer values.
LEMMA FreeLess ==
  ASSUME Shape, FreeClean, Step,
         \/ DelRlookup \/ DelFromVhash \/ VhashCheck \/ DestroyValues \/ DelAttrhash \/ DelFromAttrhash
  PROVE  FreeClean'
<1>1. Fewer(acts', acts) /\ DataShape
  BY StepFewer DEF Shape
<1>2. CASE (DelRlookup \/ DelFromVhash \/ VhashCheck \/ DestroyValues)
  <2>1. UNCHANGED <<life, attrhash>>
    BY <1>2 DEF DelRlookup, DelFromVhash, VhashCheck, DestroyValues, heap, blobs
  <2>2. \A v \in Object : rlookup'[v] # Null => rlookup[v] # Null
    <3>1. CASE DelRlookup
      BY <3>1 DEF DelRlookup, Shape, DataShape, Typed
    <3>2. CASE DelFromVhash
      <4>1. \/ rlookup' = rlookup
            \/ rlookup[Top[3]] # Null /\ rlookup' = [rlookup EXCEPT ![Top[3]] = @ \ {Top[2]}]
        BY <3>2 DEF DelFromVhash
      <4> QED BY <4>1 DEF Shape, DataShape, Typed
    <3>3. CASE VhashCheck
      BY <3>3 DEF VhashCheck, Shape, DataShape, Typed
    <3>4. CASE DestroyValues
      BY <3>4 DEF DestroyValues, Shape, DataShape, Typed
    <3> QED BY <1>2, <3>1, <3>2, <3>3, <3>4
  <2> QED BY <1>1, <2>1, <2>2, FreeStays
<1>3. CASE DelAttrhash \/ DelFromAttrhash
  <2>1. CASE \E what : Fault(what)
    BY <2>1, FreeFault
  <2>2. CASE UNCHANGED <<life, rlookup>> /\ attrhash' = [attrhash EXCEPT ![Top[2]][Top[3]] = "none"]
    <3>1. \A a \in Attr, v \in Object : attrhash'[a][v] # "none" => attrhash[a][v] # "none"
      BY <2>2 DEF Shape, DataShape, Typed
    <3> QED BY <1>1, <2>2, <3>1, FreeStays
  <2> QED BY <1>3, <2>1, <2>2 DEF DelAttrhash, DelFromAttrhash, heap, tables
<1> QED BY <1>2, <1>3

LEMMA FreeDie ==
  ASSUME Shape, FreeClean, Step, Dec \/ KaEnd
  PROVE  FreeClean'
<1>1. Fewer(acts', acts) /\ DataShape /\ UNCHANGED rlookup
  BY StepFewer DEF Shape, Dec, KaEnd, tables, Fault
<1>2. CASE UNCHANGED <<life, blobs>>
  BY <1>1, <1>2, FreeStays DEF blobs
<1>3. CASE Die(Top[2])
  <2>1. \A n \in Node : life'[n] = "free" => life[n] = "free"
    BY <1>3 DEF Die, Shape, DataShape, Typed
  <2>2. \A a \in Attr, v \in Object : attrhash'[a][v] # "none" => attrhash[a][v] # "none"
    BY <1>3 DEF Die, Cleared
  <2> QED BY <1>1, <2>1, <2>2, FreeStays
<1> QED BY <1>2, <1>3 DEF Dec, KaEnd, Fault, heap

\* A node that goes has run its actions, so its vhash has gone.
LEMMA FreeFreed ==
  ASSUME Shape, FreeClean, VhashHooked, Freed
  PROVE  FreeClean'
<1>1. todo # <<>> /\ Top = <<"free", Top[2]>> /\ Top[2] \in Node
  BY TopIs DEF Freed, Doing, Shape, TaskIs
<1>2. PICK m \in Node : m = Top[2]
  BY <1>1
<1>3. UNCHANGED <<acts, rlookup>> /\ acts[m] = <<>>
  BY <1>2 DEF Freed, tables
<1>4. \A n \in Node : n # m => life'[n] = life[n]
  BY <1>2 DEF Freed, Shape, DataShape, Typed
<1>5. m \in Object => rlookup[m] = Null
  <2>1. \A v : <<"rlookup", v>> # Top
    BY <1>1
  <2>2. \A x : x \notin ToSet(acts[m])
    BY <1>3 DEF ToSet
  <2> QED BY <2>1, <2>2 DEF VhashHooked
<1>6. \A a \in Attr, v \in Object : attrhash'[a][v] = IF a = m THEN "none" ELSE attrhash[a][v]
  BY <1>2 DEF Freed
<1>7. /\ \A v \in Object : v \in Node
      /\ \A a \in Attr : a \in Node
  BY Apartness
<1> QED BY <1>3, <1>4, <1>5, <1>6, <1>7 DEF FreeClean

LEMMA FreeNew ==
  ASSUME Shape, FreeClean, NEW o \in Object, New(o)
  PROVE  FreeClean'
<1>1. UNCHANGED <<acts, rlookup, attrhash>> /\ acts \in [Node -> Seq(Action)]
  BY DEF New, tables, blobs, Shape, DataShape, Typed
<1>2. \A n \in Node : life'[n] = "free" => life[n] = "free"
  BY DEF New, Shape, DataShape, Typed
<1>3. \A v \in Object : v \in Node
  BY Apartness
<1>4. \A a \in Attr : a \in Node
  BY Apartness
<1> QED BY <1>1, <1>2, <1>3, <1>4 DEF FreeClean

\* What is stored, and what it is made from, lives.
LEMMA FreeStoreSk ==
  ASSUME Shape, ObjectsCounted, IndexCounted, LifeCounted, WeakLive, FreeClean,
         NEW k \in Key, NEW v \in Object, NEW sv \in BOOLEAN, NEW sk \in BOOLEAN, StoreSk(k, v, sv, sk)
  PROVE  FreeClean'
<1>1. /\ k \in Index /\ k \in Node /\ v \in Node /\ life[v] = "live"
      /\ IsEncap(k) => life[TheObject(k)] = "live"
  BY Apartness, ReferredLive, FoundLive DEF StoreSk
<1>2. \A n \in Node : life'[n] = IF n = k THEN "live" ELSE life[n]
  BY <1>1 DEF StoreSk, Shape, DataShape, Typed
<1>3. \A n \in Node : life'[n] = "free" => life[n] = "free" /\ acts'[n] = acts[n]
  <2>1. \A n \in Node : n # k /\ n # v /\ ~ (IsEncap(k) /\ n = TheObject(k)) => acts'[n] = acts[n]
    BY StoredSk
  <2> QED BY <1>1, <1>2, <2>1
<1>4. UNCHANGED attrhash /\ rlookup' = WithVhash(v, k)
  BY DEF StoreSk
<1>5. \A u \in Object : u # v => rlookup'[u] = rlookup[u]
  BY <1>1, <1>4, WithVhashTyped DEF Shape, DataShape
<1>6. /\ \A u \in Object : u \in Node /\ u # k
      /\ \A a \in Attr : a \in Node /\ a # k
  BY Apartness
<1> QED BY <1>1, <1>2, <1>3, <1>4, <1>5, <1>6 DEF FreeClean

LEMMA FreeStoreA ==
  ASSUME Shape, ObjectsCounted, IndexCounted, LifeCounted, WeakLive, FreeClean,
         NEW a \in Attr, NEW v \in Object, NEW sv \in BOOLEAN, NEW sa \in BOOLEAN, StoreA(a, v, sv, sa)
  PROVE  FreeClean'
<1>1. /\ a \in Index /\ a \in Node /\ v \in Node /\ life[v] = "live" /\ v # a
      /\ IsEncap(a) => life[TheObject(a)] = "live"
  BY Apartness, ReferredLive, FoundLive DEF StoreA
<1>2. \A n \in Node : life'[n] = IF n = a THEN "live" ELSE life[n]
  BY <1>1 DEF StoreA, Shape, DataShape, Typed
<1>3. \A n \in Node : life'[n] = "free" => life[n] = "free" /\ acts'[n] = acts[n]
  <2>1. \A n \in Node : n # a /\ n # v /\ ~ (IsEncap(a) /\ n = TheObject(a)) => acts'[n] = acts[n]
    BY StoredElsewhere
  <2> QED BY <1>1, <1>2, <2>1
<1>4. attrhash' = [attrhash EXCEPT ![a][v] = Mode(sv)] /\ rlookup' = WithVhash(v, a)
  BY DEF StoreA
<1>5. \A u \in Object : u # v => rlookup'[u] = rlookup[u]
  BY <1>1, <1>4, WithVhashTyped DEF Shape, DataShape
<1>6. \A b \in Attr : b # a => attrhash'[b] = attrhash[b]
  BY <1>4 DEF Shape, DataShape, Typed
<1>7. /\ \A u \in Object : u \in Node /\ u # a
      /\ \A b \in Attr : b \in Node
  BY Apartness
<1> QED BY <1>1, <1>2, <1>3, <1>5, <1>6, <1>7 DEF FreeClean

LEMMA FreeInit ==
  ASSUME Init
  PROVE  FreeClean
<1>1. /\ \A v \in Object : v \in Node
      /\ \A a \in Attr : a \in Node
  BY Apartness
<1> QED BY <1>1 DEF Init, FreeClean

LEMMA FreeNext ==
  ASSUME Shape, ObjectsCounted, IndexCounted, LifeCounted, WeakLive, VhashHooked, FreeClean, [Next]_vars
  PROVE  FreeClean'
<1>1. CASE UNCHANGED vars
  BY <1>1, FreeSame DEF vars, heap, tables, blobs
<1>2. CASE Step
  BY <1>2, FreeQuiet, FreeLess, FreeDie, FreeFreed DEF Step
<1>3. ASSUME NEW o \in Object, New(o) \/ Drop(o) \/ Purge(o)
      PROVE  FreeClean'
  BY <1>3, FreeNew, FreeSame DEF Drop, Purge, heap, tables, blobs
<1>4. ASSUME NEW k \in Key, FetchSk(k) \/ UnlinkSk(k) \/ PurgeBySk(k)
      PROVE  FreeClean'
  BY <1>4, FreeSame DEF FetchSk, Take, UnlinkSk, PurgeBySk, tables, blobs
<1>5. ASSUME NEW a \in Attr, FetchA(a) \/ UnlinkA(a) \/ PurgeByA(a)
      PROVE  FreeClean'
  BY <1>5, FreeSame DEF FetchA, Take, UnlinkA, PurgeByA, heap, tables, blobs
<1>6. CASE Destroy
  BY <1>6, FreeSame DEF Destroy, heap, tables, blobs
<1>7. ASSUME NEW a \in Attr, NEW v \in Object, DissocA(a, v)
      PROVE  FreeClean'
  BY <1>7, FreeSame DEF DissocA, heap, tables, blobs
<1>8. CASE Operation
  BY <1>3, <1>4, <1>5, <1>6, <1>7, <1>8, FreeStoreSk, FreeStoreA DEF Operation
<1> QED BY <1>1, <1>2, <1>8 DEF Next

-----------------------------------------------------------------------------
(* No list has an action twice.                                             *)

LEMMA OnceSame ==
  ASSUME ActsOnce, UNCHANGED acts
  PROVE  ActsOnce'
BY DEF ActsOnce

LEMMA OnceInit ==
  ASSUME Init
  PROVE  ActsOnce
BY DEF Init, ActsOnce, NoDuplicate

LEMMA OnceNext ==
  ASSUME Shape, ActsOnce, [Next]_vars
  PROVE  ActsOnce'
<1>1. CASE UNCHANGED vars
  BY <1>1, OnceSame DEF vars, heap
<1>2. CASE Step
  <2>1. Fewer(acts', acts)
    BY <1>2, StepFewer
  <2> QED BY <2>1 DEF ActsOnce, Fewer
<1>3. ASSUME NEW o \in Object, New(o) \/ Drop(o) \/ Purge(o)
      PROVE  ActsOnce'
  BY <1>3, OnceSame DEF New, Drop, Purge, heap
<1>4. ASSUME NEW k \in Key, FetchSk(k) \/ UnlinkSk(k) \/ PurgeBySk(k)
      PROVE  ActsOnce'
  BY <1>4, OnceSame DEF FetchSk, Take, UnlinkSk, PurgeBySk
<1>5. ASSUME NEW a \in Attr, FetchA(a) \/ UnlinkA(a) \/ PurgeByA(a)
      PROVE  ActsOnce'
  BY <1>5, OnceSame DEF FetchA, Take, UnlinkA, PurgeByA, heap
<1>6. CASE Destroy
  BY <1>6, OnceSame DEF Destroy, heap
<1>7. ASSUME NEW a \in Attr, NEW v \in Object, DissocA(a, v)
      PROVE  ActsOnce'
  BY <1>7, OnceSame DEF DissocA, heap
<1>8. ASSUME NEW k \in Key, NEW v \in Object, NEW sv \in BOOLEAN, NEW sk \in BOOLEAN, StoreSk(k, v, sv, sk)
      PROVE  ActsOnce'
  BY <1>8, StoredSk DEF ActsOnce
<1>9. ASSUME NEW a \in Attr, NEW v \in Object, NEW sv \in BOOLEAN, NEW sa \in BOOLEAN, StoreA(a, v, sv, sa)
      PROVE  ActsOnce'
  BY <1>9, StoredA DEF ActsOnce
<1>10. CASE Operation
  BY <1>3, <1>4, <1>5, <1>6, <1>7, <1>8, <1>9, <1>10 DEF Operation
<1> QED BY <1>1, <1>2, <1>10 DEF Next

-----------------------------------------------------------------------------
(* The hook an attribute leaves on its object goes before the attribute.    *)
(* HooksX says that X keeps this.                                           *)

\* An attribute that lives, its trigger still to run.
Armed(a) == life[a] = "live" /\ Trigger(a) \in ToSet(acts[a])

LEMMA HooksAre ==
  ASSUME AttrHooks, NEW a \in Attr, TheObject(a) \in Object, Hook(a) \in ToSet(acts[TheObject(a)])
  PROVE  /\ obj_paddr[a]
         /\ \/ Armed(a)
            \/ todo # <<>> /\ Top = <<"free", a>> /\ Trigger(a) \in ToSet(acts[a])
            \/ todo # <<>> /\ Top = Trigger(a)
         /\ (todo = <<>> \/ Top[1] \notin {"free", "attr_destroy_trigger"}) => Armed(a)
<1>1. /\ obj_paddr[a]
      /\ \/ Armed(a)
         \/ todo # <<>> /\ Top = <<"free", a>> /\ Trigger(a) \in ToSet(acts[a])
         \/ todo # <<>> /\ Top = Trigger(a)
  BY DEF AttrHooks, Armed
<1>2. Trigger(a)[1] = "attr_destroy_trigger" /\ <<"free", a>>[1] = "free"
  BY DEF Trigger
<1> QED BY <1>1, <1>2

\* A step that ends no attribute and takes none of the triggers.
LEMMA HooksStay ==
  ASSUME AttrHooks, todo = <<>> \/ Top[1] \notin {"free", "attr_destroy_trigger"},
         \A n \in Node : \A a : Hook(a) \in ToSet(acts'[n]) => Hook(a) \in ToSet(acts[n]),
         \A a \in Attr : Trigger(a) \in ToSet(acts[a]) => Trigger(a) \in ToSet(acts'[a]),
         \A a \in Attr : obj_paddr[a] => obj_paddr'[a],
         \A a \in Attr : life[a] = "live" => life'[a] = "live"
  PROVE  AttrHooks'
<1>1. ASSUME NEW a \in Attr, TheObject(a) \in Object, Hook(a) \in ToSet(acts'[TheObject(a)])
      PROVE  obj_paddr'[a] /\ life'[a] = "live" /\ Trigger(a) \in ToSet(acts'[a])
  <2>1. Hook(a) \in ToSet(acts[TheObject(a)])
    BY <1>1, Apartness
  <2>2. obj_paddr[a] /\ Armed(a)
    BY <1>1, <2>1, HooksAre
  <2> QED BY <2>2 DEF Armed
<1> QED BY <1>1 DEF AttrHooks

LEMMA HooksSame ==
  ASSUME AttrHooks, todo = <<>> \/ Top[1] \notin {"free", "attr_destroy_trigger"},
         UNCHANGED <<life, acts, obj_paddr>>
  PROVE  AttrHooks'
BY HooksStay

LEMMA HooksFault ==
  ASSUME AttrHooks, NEW what, Fault(what)
  PROVE  AttrHooks'
<1>1. UNCHANGED <<life, acts, obj_paddr, todo>>
  BY DEF Fault, heap, blobs
<1> QED BY <1>1 DEF AttrHooks, Top

LEMMA HooksQuiet ==
  ASSUME AttrHooks,
         \/ DecAll \/ DelSlookup \/ DelFlookup \/ DelRlookup \/ DelAttrhash \/ DelFromVhash
         \/ DelAttrLookup \/ EachValue \/ PurgeBegin \/ Foreach \/ DestroyAttrs \/ DestroyAttr
         \/ PushValue \/ DestroyKeys
  PROVE  AttrHooks'
<1>1. CASE DecAll
  BY <1>1, HooksSame DEF DecAll, Doing, heap, blobs
<1>2. CASE DelSlookup
  BY <1>2, HooksSame DEF DelSlookup, Doing, heap, blobs
<1>3. CASE DelFlookup
  BY <1>3, HooksSame DEF DelFlookup, Doing, heap, blobs
<1>4. CASE DelRlookup
  BY <1>4, HooksSame DEF DelRlookup, Doing, heap, blobs
<1>5. CASE DelAttrhash
  BY <1>5, HooksSame, HooksFault DEF DelAttrhash, Doing, heap, blobs
<1>6. CASE DelFromVhash
  BY <1>6, HooksSame DEF DelFromVhash, Doing, heap, blobs
<1>7. CASE DelAttrLookup
  BY <1>7, HooksSame, HooksFault DEF DelAttrLookup, Doing, heap, blobs
<1>8. CASE EachValue
  BY <1>8, HooksSame, HooksFault DEF EachValue, Doing, heap, blobs
<1>9. CASE PurgeBegin
  BY <1>9, HooksSame DEF PurgeBegin, Doing, heap, blobs
<1>10. CASE Foreach
  BY <1>10, HooksSame, HooksFault DEF Foreach, Doing, heap, blobs
<1>11. CASE DestroyAttrs
  BY <1>11, HooksSame, HooksFault DEF DestroyAttrs, Doing, heap, blobs, Died
<1>12. CASE DestroyAttr
  BY <1>12, HooksSame, HooksFault DEF DestroyAttr, Doing, heap, blobs, Died
<1>13. CASE PushValue
  BY <1>13, HooksSame, HooksFault DEF PushValue, Doing, heap, blobs, Died
<1>14. CASE DestroyKeys
  BY <1>14, HooksSame, HooksFault DEF DestroyKeys, Doing, heap, blobs, Died
<1> QED BY <1>1, <1>2, <1>3, <1>4, <1>5, <1>6, <1>7, <1>8, <1>9, <1>10, <1>11, <1>12, <1>13, <1>14

\* The steps that take other actions out.
LEMMA HooksSpares ==
  ASSUME Shape, AttrHooks,
         \/ VhashCheck \/ EncapDestroyHook \/ KEncapCleanup \/ PurgeEnd \/ DestroyValues
         \/ DelFromAttrhash
  PROVE  AttrHooks'
<1>1. UNCHANGED <<life, obj_paddr>> /\ Top[1] \notin {"free", "attr_destroy_trigger"}
  BY DEF VhashCheck, EncapDestroyHook, KEncapCleanup, PurgeEnd, DestroyValues, DelFromAttrhash,
     Doing, heap, blobs, Fault
<1>2. Fewer(acts', acts)
  BY FewerVhashCheck, FewerEncapDestroyHook, FewerKEncapCleanup, FewerPurgeEnd, FewerDestroyValues,
     FewerDelFromAttrhash
<1>3. \/ Spares({"rlookup"}) \/ Spares({"k_encap_cleanup"}) \/ Spares({"encap_destroy_hook"})
      \/ Spares({"attrhash"})
  BY FewerVhashCheck, FewerEncapDestroyHook, FewerKEncapCleanup, FewerPurgeEnd, FewerDestroyValues,
     FewerDelFromAttrhash
<1>4. \A a \in Attr : Trigger(a) \in ToSet(acts[a]) => Trigger(a) \in ToSet(acts'[a])
  <2>1. \A a \in Attr : a \in Node /\ Trigger(a)[1] = "attr_destroy_trigger"
    BY Apartness DEF Trigger
  <2> QED BY <1>3, <2>1 DEF Spares
<1>5. \A n \in Node : \A a : Hook(a) \in ToSet(acts'[n]) => Hook(a) \in ToSet(acts[n])
  BY <1>2 DEF Fewer
<1> QED BY <1>1, <1>4, <1>5, HooksStay

\* An attribute that dies has its trigger before it.
LEMMA HooksDie ==
  ASSUME Shape, AttrHooks, Dec \/ KaEnd
  PROVE  AttrHooks'
<1>1. todo # <<>> /\ Top[2] \in Node /\ Top[1] \notin {"free", "attr_destroy_trigger"}
  BY TopIs DEF Dec, KaEnd, Doing, Shape, TaskIs
<1>2. CASE UNCHANGED <<life, acts, obj_paddr>>
  BY <1>1, <1>2, HooksSame
<1>3. CASE Die(Top[2]) /\ UNCHANGED <<acts, obj_paddr>>
  <2>1. PICK m \in Node : m = Top[2]
    BY <1>1
  <2>2. \A n \in Node : life'[n] = IF n = m THEN "dying" ELSE life[n]
    BY <1>3, <2>1 DEF Die, Shape, DataShape, Typed
  <2>3. todo' # <<>> /\ Top' = <<"free", m>>
    <3> DEFINE x == <<"free", m>>
    <3>1. x \in Task /\ Tail(todo) \in Seq(Task)
      BY <1>1, <2>1, OtherTasks, TopIs DEF Shape
    <3>2. todo' = <<x>> \o Tail(todo)
      BY <1>3, <2>1 DEF Die, Then
    <3> HIDE DEF x
    <3>3. todo' # <<>> /\ Head(todo') = x
      BY <3>1, <3>2, SetConcat
    <3> QED BY <3>3 DEF Top, x
  <2>4. ASSUME NEW a \in Attr, TheObject(a) \in Object, Hook(a) \in ToSet(acts'[TheObject(a)])
        PROVE  /\ obj_paddr'[a]
               /\ \/ life'[a] = "live" /\ Trigger(a) \in ToSet(acts'[a])
                  \/ Top' = <<"free", a>> /\ Trigger(a) \in ToSet(acts'[a])
    <3>1. a \in Node /\ UNCHANGED <<acts, obj_paddr>>
      BY <1>3, Apartness
    <3>2. obj_paddr[a] /\ Armed(a)
      BY <1>1, <2>4, <3>1, HooksAre
    <3> QED BY <2>2, <2>3, <3>1, <3>2 DEF Armed
  <2> QED BY <2>3, <2>4 DEF AttrHooks
<1> QED BY <1>2, <1>3 DEF Dec, KaEnd, Fault, heap, blobs

LEMMA HooksRunAction ==
  ASSUME Shape, AttrHooks, RunAction
  PROVE  AttrHooks'
<1>1. /\ todo # <<>> /\ Top = <<"free", Top[2]>> /\ Top[2] \in Node
      /\ UNCHANGED <<life, obj_paddr>>
  BY TopIs DEF RunAction, Doing, Shape, TaskIs, blobs
<1>2. PICK m \in Node : m = Top[2]
  BY <1>1
<1>3. life[m] = "dying"
  BY <1>1, <1>2, TopIs DEF Shape, TodoShape, FreeOpen
<1>4. todo' # <<>> /\ Top' = Head(acts[m])
  <2> DEFINE x == Head(acts[m])
             T == {x} \cup Task
             s == <<x>>
  <2>1. s \in Seq(T) /\ todo \in Seq(T) /\ s # <<>> /\ Head(s) = x
    BY DEF Shape, TodoShape
  <2>2. todo' = s \o todo
    BY <1>2 DEF RunAction
  <2> HIDE DEF s, T, x
  <2>3. todo' # <<>> /\ Head(todo') = x
    BY <2>1, <2>2, SetConcat
  <2> QED BY <2>3 DEF Top, x
<1>5. /\ Fewer(acts', acts) /\ Head(acts[m]) \in ToSet(acts[m])
      /\ \A n \in Node : \A b : b \in ToSet(acts[n]) => b \in ToSet(acts'[n]) \/ (n = m /\ b = Head(acts[m]))
  BY <1>2, FewerRunAction
<1>6. ASSUME NEW a \in Attr, TheObject(a) \in Object, Hook(a) \in ToSet(acts'[TheObject(a)])
      PROVE  /\ obj_paddr'[a]
             /\ \/ life'[a] = "live" /\ Trigger(a) \in ToSet(acts'[a])
                \/ Top' = Trigger(a)
  <2>1. a \in Node /\ TheObject(a) \in Node
    BY <1>6, Apartness
  <2>2. Hook(a) \in ToSet(acts[TheObject(a)])
    BY <1>5, <1>6, <2>1 DEF Fewer
  <2>3. Top # Trigger(a)
    BY <1>1 DEF Trigger
  <2>4. obj_paddr[a] /\ (Armed(a) \/ (Top = <<"free", a>> /\ Trigger(a) \in ToSet(acts[a])))
    BY <1>6, <2>2, <2>3, HooksAre
  <2>5. CASE Armed(a)
    <3>1. a # m
      BY <1>3, <2>5 DEF Armed
    <3> QED BY <1>1, <1>5, <2>1, <2>4, <2>5, <3>1 DEF Armed
  <2>6. CASE Top = <<"free", a>>
    <3>1. a = m
      BY <1>2, <2>6
    <3>2. ToSet(acts[a]) \subseteq ActionsOf(a)
      BY <2>1 DEF Shape, DataShape, ActionsTyped
    <3>3. ActionsOf(a) = {Trigger(a)}
      BY Apartness DEF ActionsOf, Trigger
    <3> QED BY <1>1, <1>4, <1>5, <2>4, <3>1, <3>2, <3>3
  <2> QED BY <2>4, <2>5, <2>6
<1> QED BY <1>4, <1>6 DEF AttrHooks

LEMMA HooksFreed ==
  ASSUME Shape, AttrHooks, Freed
  PROVE  AttrHooks'
<1>1. todo # <<>> /\ Top = <<"free", Top[2]>> /\ Top[2] \in Node
  BY TopIs DEF Freed, Doing, Shape, TaskIs
<1>2. PICK m \in Node : m = Top[2]
  BY <1>1
<1>3. life[m] = "dying"
  BY <1>1, <1>2, TopIs DEF Shape, TodoShape, FreeOpen
<1>4. /\ UNCHANGED acts /\ acts[m] = <<>>
      /\ \A n \in Node : n # m => life'[n] = life[n]
      /\ \A a \in Attr : obj_paddr'[a] <=> a # m /\ obj_paddr[a]
  BY <1>2 DEF Freed, Shape, DataShape, Typed
<1>5. ASSUME NEW a \in Attr, TheObject(a) \in Object, Hook(a) \in ToSet(acts'[TheObject(a)])
      PROVE  obj_paddr'[a] /\ life'[a] = "live" /\ Trigger(a) \in ToSet(acts'[a])
  <2>1. a \in Node
    BY Apartness
  <2>2. Top # Trigger(a)
    BY <1>1 DEF Trigger
  <2>3. obj_paddr[a] /\ (Armed(a) \/ (Top = <<"free", a>> /\ Trigger(a) \in ToSet(acts[a])))
    BY <1>4, <1>5, <2>2, HooksAre
  <2>4. Trigger(a) \in ToSet(acts[a])
    BY <2>3 DEF Armed
  <2>5. a # m
    BY <1>4, <2>4 DEF ToSet
  <2>6. Armed(a)
    BY <1>2, <2>3, <2>5
  <2> QED BY <1>4, <2>1, <2>3, <2>5, <2>6 DEF Armed
<1> QED BY <1>5 DEF AttrHooks

\* The hook that runs has been taken from its object already.
LEMMA HooksEncapAttrDestroyHook ==
  ASSUME Shape, AttrHooks, HookRuns, EncapAttrDestroyHook
  PROVE  AttrHooks'
<1>1. todo # <<>> /\ Top = Hook(Top[2]) /\ Top[2] \in Attr
  BY TopIs, ActionIs DEF EncapAttrDestroyHook, Doing, Shape, TaskIs, ActionKinds, Hook
<1>2. CASE \E what : Fault(what)
  BY <1>2, HooksFault
<1>3. CASE UNCHANGED <<life, acts>> /\ obj_paddr' = [obj_paddr EXCEPT ![Top[2]] = FALSE]
  <2>1. PICK c \in Attr : c = Top[2]
    BY <1>1
  <2>2. \A a \in Attr : a # c => obj_paddr'[a] = obj_paddr[a]
    BY <1>3, <2>1 DEF Shape, DataShape, Typed
  <2>3. ASSUME NEW a \in Attr, TheObject(a) \in Object, Hook(a) \in ToSet(acts'[TheObject(a)])
        PROVE  obj_paddr'[a] /\ life'[a] = "live" /\ Trigger(a) \in ToSet(acts'[a])
    <3>1. a # c
      BY <1>1, <1>3, <2>1, <2>3 DEF HookRuns
    <3>2. Top[1] \notin {"free", "attr_destroy_trigger"}
      BY DEF EncapAttrDestroyHook, Doing
    <3>3. obj_paddr[a] /\ Armed(a)
      BY <1>3, <2>3, <3>2, HooksAre
    <3> QED BY <1>3, <2>2, <3>1, <3>3 DEF Armed
  <2> QED BY <2>3 DEF AttrHooks
<1> QED BY <1>2, <1>3 DEF EncapAttrDestroyHook

\* The trigger takes the hooks of its object.
LEMMA HooksAttrDestroyTrigger ==
  ASSUME Shape, AttrHooks, AttrDestroyTrigger
  PROVE  AttrHooks'
<1>1. Top[2] \in Attr /\ Top = Trigger(Top[2]) /\ Fewer(acts', acts)
  BY FewerAttrDestroyTrigger
<1>2. CASE UNCHANGED <<acts, todo, obj_paddr, life>>
  BY <1>2 DEF AttrHooks, Top
<1>3. CASE /\ UNCHANGED <<obj_paddr, life>>
           /\ \A n \in Node : \A b : n # Top[2] /\ b \in ToSet(acts[n]) /\ b[1] # "encap_attr_destroy_hook" =>
                b \in ToSet(acts'[n])
           /\ obj_paddr[Top[2]] => TheObject(Top[2]) \in Object
                /\ \A b \in ToSet(acts'[TheObject(Top[2])]) : b[1] # "encap_attr_destroy_hook"
  <2>1. PICK c \in Attr : c = Top[2]
    BY <1>1
  <2>2. ASSUME NEW a \in Attr, TheObject(a) \in Object, Hook(a) \in ToSet(acts'[TheObject(a)])
        PROVE  obj_paddr'[a] /\ life'[a] = "live" /\ Trigger(a) \in ToSet(acts'[a])
    <3>1. a \in Node /\ TheObject(a) \in Node
      BY <2>2, Apartness
    <3>2. Hook(a) \in ToSet(acts[TheObject(a)])
      BY <1>1, <2>2, <3>1 DEF Fewer
    <3>3. obj_paddr[a] /\ (Armed(a) \/ Top = <<"free", a>> \/ Top = Trigger(a))
      BY <2>2, <3>2, HooksAre
    <3>4. Hook(a)[1] = "encap_attr_destroy_hook" /\ Trigger(a)[1] = "attr_destroy_trigger"
      BY DEF Hook, Trigger
    <3>5. a # c
      BY <1>3, <2>1, <2>2, <3>3, <3>4
    <3>6. Top # <<"free", a>> /\ Top # Trigger(a)
      BY <1>1, <2>1, <3>5 DEF Trigger
    <3> QED BY <1>3, <2>1, <3>1, <3>3, <3>4, <3>5, <3>6 DEF Armed
  <2> QED BY <2>2 DEF AttrHooks
<1> QED BY <1>2, <1>3, FewerAttrDestroyTrigger

LEMMA HooksNew ==
  ASSUME Shape, AttrHooks, NEW o \in Object, New(o)
  PROVE  AttrHooks'
<1>1. todo = <<>> /\ UNCHANGED <<acts, obj_paddr>>
  BY DEF New, Idle, blobs
<1>2. \A a \in Attr : life'[a] = life[a]
  BY Apartness DEF New, Shape, DataShape, Typed
<1> QED BY <1>1, <1>2, HooksStay

LEMMA HooksStoreSk ==
  ASSUME Shape, AttrHooks, NEW k \in Key, NEW v \in Object, NEW sv \in BOOLEAN, NEW sk \in BOOLEAN,
         StoreSk(k, v, sv, sk)
  PROVE  AttrHooks'
<1>1. todo = <<>> /\ UNCHANGED obj_paddr
  BY DEF StoreSk, Idle
<1>2. \A a \in Attr : life'[a] = life[a] /\ a # k /\ a \in Node
  BY Apartness DEF StoreSk, Shape, DataShape, Typed
<1>3. \A n \in Node : \A b : n # k /\ b \in ToSet(acts[n]) => b \in ToSet(acts'[n])
  BY StoredSk
<1>4. \A n \in Node : \A b : n # k /\ b \in ToSet(acts'[n]) =>
        b \in ToSet(acts[n]) \/ b = <<"rlookup", v>> \/ b = <<"encap_destroy_hook", k>>
  BY StoredSk
<1>5. \A a : Hook(a) # <<"rlookup", v>> /\ Hook(a) # <<"encap_destroy_hook", k>>
  BY DEF Hook
<1>6. ASSUME NEW a \in Attr, TheObject(a) \in Object, Hook(a) \in ToSet(acts'[TheObject(a)])
      PROVE  obj_paddr'[a] /\ life'[a] = "live" /\ Trigger(a) \in ToSet(acts'[a])
  <2>1. TheObject(a) \in Node /\ TheObject(a) # k
    BY <1>6, Apartness
  <2>2. Hook(a) \in ToSet(acts[TheObject(a)])
    BY <1>4, <1>5, <1>6, <2>1
  <2>3. obj_paddr[a] /\ Armed(a)
    BY <1>1, <1>6, <2>2, HooksAre
  <2> QED BY <1>1, <1>2, <1>3, <2>3 DEF Armed
<1> QED BY <1>6 DEF AttrHooks

\* A new attribute has its trigger and leaves its hook.
LEMMA HooksStoreA ==
  ASSUME Shape, AttrHooks, NEW a \in Attr, NEW v \in Object, NEW sv \in BOOLEAN, NEW sa \in BOOLEAN,
         StoreA(a, v, sv, sa)
  PROVE  AttrHooks'
<1> DEFINE new == attr_lookup[a] = "none"
<1>1. /\ todo = <<>> /\ a \in Node /\ life'[a] = "live"
      /\ \A b \in Attr : b # a => life'[b] = life[b]
      /\ \A b \in Attr : obj_paddr'[b] = IF b = a /\ new /\ IsEncap(a) THEN TRUE ELSE obj_paddr[b]
  BY Apartness, ZenonT(60) DEF StoreA, Idle, Shape, DataShape, Typed
<1>2. /\ \A n \in Node : \A b : n # a /\ b \in ToSet(acts[n]) => b \in ToSet(acts'[n])
      /\ Trigger(a) \in ToSet(acts'[a]) \/ (~ new /\ acts'[a] = acts[a])
  BY StoredElsewhere
<1>3. \A n \in Node : \A b : n # a /\ b \in ToSet(acts'[n]) =>
        \/ b \in ToSet(acts[n]) \/ b = <<"rlookup", v>> \/ b = <<"attrhash", a, v>>
        \/ b = Hook(a) /\ new /\ IsEncap(a)
  BY StoredA, ZenonT(60)
<1> HIDE DEF new
<1>4. \A b : Hook(b) # <<"rlookup", v>> /\ Hook(b) # <<"attrhash", a, v>> /\ (b # a => Hook(b) # Hook(a))
  BY DEF Hook
<1>5. ASSUME NEW b \in Attr, TheObject(b) \in Object, Hook(b) \in ToSet(acts'[TheObject(b)])
      PROVE  obj_paddr'[b] /\ life'[b] = "live" /\ Trigger(b) \in ToSet(acts'[b])
  <2>1. TheObject(b) \in Node /\ TheObject(b) # a /\ b \in Node
    BY <1>5, Apartness
  <2>2. Hook(b) \in ToSet(acts[TheObject(b)]) => obj_paddr[b] /\ Armed(b)
    BY <1>1, <1>5, HooksAre
  <2>3. CASE b # a
    <3>1. Hook(b) \in ToSet(acts[TheObject(b)])
      BY <1>3, <1>4, <1>5, <2>1, <2>3
    <3> QED BY <1>1, <1>2, <2>1, <2>2, <2>3, <3>1 DEF Armed
  <2>4. CASE b = a /\ new
    <3>1. IsEncap(a)
      BY <1>5, <2>4, Encap
    <3> QED BY <1>1, <1>2, <2>4, <3>1
  <2>5. CASE b = a /\ ~ new
    <3>1. Hook(b) \in ToSet(acts[TheObject(b)])
      BY <1>3, <1>4, <1>5, <2>1, <2>5
    <3> QED BY <1>1, <1>2, <2>2, <2>5, <3>1 DEF Armed
  <2> QED BY <2>3, <2>4, <2>5
<1> QED BY <1>5 DEF AttrHooks

LEMMA HooksInit ==
  ASSUME Init
  PROVE  AttrHooks
<1>1. \A n \in Node : acts[n] = <<>>
  BY DEF Init
<1>2. \A x : x \notin ToSet(<<>>)
  BY DEF ToSet
<1>3. Object \subseteq Node
  BY Apartness
<1> QED BY <1>1, <1>2, <1>3 DEF AttrHooks

LEMMA HooksNext ==
  ASSUME Shape, AttrHooks, HookRuns, [Next]_vars
  PROVE  AttrHooks'
<1>1. CASE UNCHANGED vars
  BY <1>1 DEF vars, heap, blobs, AttrHooks, Top
<1>2. CASE Step
  BY <1>2, HooksQuiet, HooksSpares, HooksDie, HooksRunAction, HooksFreed,
     HooksEncapAttrDestroyHook, HooksAttrDestroyTrigger DEF Step
<1>3. ASSUME NEW o \in Object, New(o) \/ Drop(o) \/ Purge(o)
      PROVE  AttrHooks'
  BY <1>3, HooksNew, HooksSame DEF Drop, Purge, Idle, heap, blobs
<1>4. ASSUME NEW k \in Key, FetchSk(k) \/ UnlinkSk(k) \/ PurgeBySk(k)
      PROVE  AttrHooks'
  BY <1>4, HooksSame DEF FetchSk, Take, UnlinkSk, PurgeBySk, Idle, blobs
<1>5. ASSUME NEW a \in Attr, FetchA(a) \/ UnlinkA(a) \/ PurgeByA(a)
      PROVE  AttrHooks'
  BY <1>5, HooksSame DEF FetchA, Take, UnlinkA, PurgeByA, Idle, heap, blobs
<1>6. CASE Destroy
  BY <1>6, HooksSame DEF Destroy, Idle, heap, blobs
<1>7. ASSUME NEW a \in Attr, NEW v \in Object, DissocA(a, v)
      PROVE  AttrHooks'
  BY <1>7, HooksSame DEF DissocA, Idle, heap, blobs
<1>8. CASE Operation
  BY <1>3, <1>4, <1>5, <1>6, <1>7, <1>8, HooksStoreSk, HooksStoreA DEF Operation
<1> QED BY <1>1, <1>2, <1>8 DEF Next

-----------------------------------------------------------------------------
(* A hook that runs finds its attribute.                                    *)

LEMMA RunsRunAction ==
  ASSUME Shape, ActsOnce, AttrHooks, RunAction
  PROVE  HookRuns'
<1>1. /\ todo # <<>> /\ Top = <<"free", Top[2]>> /\ Top[2] \in Node /\ UNCHANGED life
  BY TopIs DEF RunAction, Doing, Shape, TaskIs
<1>2. PICK m \in Node : m = Top[2]
  BY <1>1
<1>3. /\ Fewer(acts', acts) /\ Head(acts[m]) \in ToSet(acts[m]) /\ Head(acts[m]) \notin ToSet(acts'[m])
  BY <1>2, FewerRunAction DEF ActsOnce
<1>4. Top' = Head(acts[m])
  <2> DEFINE x == Head(acts[m])
             T == {x} \cup Task
             s == <<x>>
  <2>1. s \in Seq(T) /\ todo \in Seq(T) /\ s # <<>> /\ Head(s) = x
    BY DEF Shape, TodoShape
  <2>2. todo' = s \o todo
    BY <1>2 DEF RunAction
  <2> HIDE DEF s, T, x
  <2>3. todo' # <<>> /\ Head(todo') = x
    BY <2>1, <2>2, SetConcat
  <2> QED BY <2>3 DEF Top, x
<1>5. ASSUME NEW a \in Attr, Top' = Hook(a)
      PROVE  life'[a] = "live" /\ (TheObject(a) \in Object => Hook(a) \notin ToSet(acts'[TheObject(a)]))
  <2>1. Hook(a) \in ToSet(acts[m]) /\ Hook(a) \notin ToSet(acts'[m]) /\ Hook(a)[1] = "encap_attr_destroy_hook"
    BY <1>3, <1>4, <1>5 DEF Hook
  <2>2. Hook(a) \in ActionsOf(m)
    BY <2>1 DEF Shape, DataShape, ActionsTyped
  <2>3. m = TheObject(a) /\ m \in Object
    <3>1. CASE m \in Object
      BY <2>2, <3>1 DEF ActionsOf, Made, Hook
    <3>2. CASE m \notin Object
      BY <2>1, <2>2, <3>2 DEF ActionsOf
    <3> QED BY <3>1, <3>2
  <2>4. Top # <<"free", a>> /\ Top # Trigger(a)
    BY <1>1, <1>2, <2>3, Apartness DEF Trigger
  <2>5. Armed(a)
    BY <2>1, <2>3, <2>4, HooksAre
  <2> QED BY <1>1, <2>1, <2>3, <2>5 DEF Armed
<1> QED BY <1>5 DEF HookRuns

LEMMA RunsInit ==
  ASSUME Init
  PROVE  HookRuns
BY DEF Init, HookRuns

LEMMA RunsNext ==
  ASSUME Shape, Shape', ActsOnce, AttrHooks, HookRuns, [Next]_vars
  PROVE  HookRuns'
<1>1. CASE UNCHANGED vars
  BY <1>1 DEF vars, heap, HookRuns, Top
<1>2. CASE Step
  <2>1. CASE RunAction
    BY <2>1, RunsRunAction
  <2>2. CASE \E what : Fault(what)
    <3>1. UNCHANGED <<life, acts, todo>>
      BY <2>2 DEF Fault, heap
    <3> QED BY <3>1 DEF HookRuns, Top
  <2>3. CASE \A a : ~ (todo' # <<>> /\ Top' = Hook(a))
    BY <2>3 DEF HookRuns
  <2> QED BY <1>2, <2>1, <2>2, <2>3, StepTodo
<1>3. CASE Operation
  BY <1>3, OperationTodo DEF HookRuns
<1> QED BY <1>1, <1>2, <1>3 DEF Next

-----------------------------------------------------------------------------
(* What a step does to an entry: it goes, or the reference in it does, or it stays.      *)

\* A reference is as it was, or was weak and is undef, or there is none any more.
Fades(now, then) == now = then \/ (now \notin Ref /\ (then = "none" => now = "none"))

\* A key has its value, but the reference to it was weak and is undef.
Undone(now, then) == then.mode = "weak" /\ now.mode = "undef" /\ now.value = then.value

LEMMA PushTwo ==
  ASSUME NEW x \in Task, NEW y \in Task, NEW q \in Seq(Task)
  PROVE  <<x, y>> \o q \in Seq(Task) /\ ToSet(<<x, y>> \o q) = {x, y} \cup ToSet(q)
<1>1. <<x, y>> \o q = <<x>> \o (<<y>> \o q)
  BY PairConcat, ConcatAssoc
<1> DEFINE r == <<y>> \o q
<1>2. r \in Seq(Task) /\ ToSet(r) = {y} \cup ToSet(q)
  BY PushOne
<1> HIDE DEF r
<1>3. <<x>> \o r \in Seq(Task) /\ ToSet(<<x>> \o r) = {x} \cup ToSet(r)
  BY <1>2, PushOne
<1> QED BY <1>1, <1>2, <1>3 DEF r

LEMMA FadesDie ==
  ASSUME Shape, NEW n \in Node, Die(n)
  PROVE  /\ \A k \in Key : flookup'[k] = flookup[k] \/ Undone(flookup'[k], flookup[k])
         /\ \A a \in Attr : Fades(attr_lookup'[a], attr_lookup[a])
                            /\ (attr_lookup[a] # "none" => attr_lookup'[a] # "none")
         /\ \A i \in Index : Fades(obj'[i], obj[i]) /\ (obj[i] = "strong" => obj'[i] = "strong")
         /\ \A a \in Attr, v \in Object : Fades(attrhash'[a][v], attrhash[a][v])
<1>1. ASSUME NEW mode PROVE /\ Fades(Cleared(mode), mode)
                            /\ mode # "none" => Cleared(mode) # "none"
                            /\ mode = "strong" => Cleared(mode) = "strong"
  BY DEF Cleared, Fades, Ref
<1>2. ASSUME NEW mode PROVE Fades(mode, mode)
  BY DEF Fades
<1>3. ASSUME NEW k \in Key
      PROVE  flookup'[k] = flookup[k] \/ Undone(flookup'[k], flookup[k])
  <2>1. flookup[k] \in [mode : Entry, value : Object \cup {Null}]
    BY DEF Shape, DataShape, Typed
  <2>2. flookup'[k] = flookup[k] \/ flookup'[k] = [flookup[k] EXCEPT !.mode = Cleared(@)]
    BY DEF Die
  <2>3. flookup[k].mode # "weak" => [flookup[k] EXCEPT !.mode = Cleared(@)] = flookup[k]
    BY <2>1 DEF Cleared
  <2>4. flookup[k].mode = "weak" => Undone([flookup[k] EXCEPT !.mode = Cleared(@)], flookup[k])
    BY <2>1 DEF Cleared, Undone
  <2> QED BY <2>2, <2>3, <2>4
<1>4. \A a \in Attr : attr_lookup'[a] \in {attr_lookup[a], Cleared(attr_lookup[a])}
  BY DEF Die
<1>5. \A i \in Index : obj'[i] \in {obj[i], Cleared(obj[i])}
  BY DEF Die
<1>6. \A a \in Attr, v \in Object : attrhash'[a][v] \in {attrhash[a][v], Cleared(attrhash[a][v])}
  BY DEF Die
<1> QED BY <1>1, <1>2, <1>3, <1>4, <1>5, <1>6

LEMMA StepHashes ==
  ASSUME Shape, Step
  PROVE  \A a \in Attr, v \in Object : Fades(attrhash'[a][v], attrhash[a][v])
<1>1. CASE UNCHANGED attrhash
  BY <1>1 DEF Fades
<1>2. CASE \E n \in Node : Die(n)
  BY <1>2, FadesDie
<1>3. ASSUME NEW b, NEW u, attrhash' = [attrhash EXCEPT ![b][u] = "none"]
      PROVE  \A a \in Attr, v \in Object : Fades(attrhash'[a][v], attrhash[a][v])
  <2>1. \A a \in Attr, v \in Object : attrhash'[a][v] \in {attrhash[a][v], "none"}
    BY <1>3 DEF Shape, DataShape, Typed
  <2> QED BY <2>1 DEF Fades, Ref
<1>4. CASE Freed
  <2>1. \A a \in Attr, v \in Object : attrhash'[a][v] \in {attrhash[a][v], "none"}
    BY <1>4 DEF Freed
  <2> QED BY <2>1 DEF Fades, Ref
<1>5. CASE Dec \/ KaEnd
  <2>1. Top[2] \in Node
    BY <1>5, TopIs DEF Dec, KaEnd, Doing, Shape, TaskIs
  <2> QED BY <1>1, <1>2, <1>5, <2>1 DEF Dec, KaEnd, blobs, Fault
<1>6. CASE DelAttrhash \/ DelFromAttrhash
  BY <1>1, <1>3, <1>6 DEF DelAttrhash, DelFromAttrhash, blobs, Fault
<1>7. CASE DecAll \/ RunAction \/ DelSlookup \/ DelFlookup \/ DelRlookup \/ DelFromVhash \/ VhashCheck
           \/ EncapDestroyHook
  BY <1>1, <1>7 DEF DecAll, RunAction, DelSlookup, DelFlookup, DelRlookup, DelFromVhash, VhashCheck,
     EncapDestroyHook, blobs, Fault
<1>8. CASE KEncapCleanup \/ EncapAttrDestroyHook \/ AttrDestroyTrigger \/ DelAttrLookup \/ EachValue
  BY <1>1, <1>8 DEF KEncapCleanup, EncapAttrDestroyHook, AttrDestroyTrigger, DelAttrLookup, EachValue,
     blobs, Fault
<1>9. CASE PurgeBegin \/ Foreach \/ PurgeEnd \/ DestroyAttrs \/ DestroyAttr \/ PushValue \/ DestroyKeys
           \/ DestroyValues
  BY <1>1, <1>9 DEF PurgeBegin, Foreach, PurgeEnd, DestroyAttrs, DestroyAttr, PushValue, DestroyKeys,
     DestroyValues, blobs, Fault, Died
<1> QED BY <1>4, <1>5, <1>6, <1>7, <1>8, <1>9 DEF Step

LEMMA StepObjs ==
  ASSUME Shape, Step
  PROVE  \A i \in Index : obj'[i] = "strong" => obj[i] = "strong"
<1>1. CASE UNCHANGED obj
  BY <1>1
<1>2. CASE \E n \in Node : Die(n)
  BY <1>2, FadesDie DEF Fades, Ref
<1>3. ASSUME NEW b, NEW e, e # "strong", obj' = [obj EXCEPT ![b] = e]
      PROVE  \A i \in Index : obj'[i] = "strong" => obj[i] = "strong"
  BY <1>3 DEF Shape, DataShape, Typed
<1>4. CASE Freed
  BY <1>4 DEF Freed
<1>5. CASE Dec \/ KaEnd
  <2>1. Top[2] \in Node
    BY <1>5, TopIs DEF Dec, KaEnd, Doing, Shape, TaskIs
  <2> QED BY <1>1, <1>2, <1>5, <2>1 DEF Dec, KaEnd, blobs, Fault
<1>6. CASE KEncapCleanup \/ EncapAttrDestroyHook
  BY <1>1, <1>3, <1>6 DEF KEncapCleanup, EncapAttrDestroyHook, blobs, Fault
<1>7. CASE AttrDestroyTrigger
  <2>1. obj' = obj \/ \E e : e # "strong" /\ obj' = [obj EXCEPT ![Top[2]] = e]
    BY <1>7 DEF AttrDestroyTrigger, blobs, Fault
  <2> QED BY <1>1, <1>3, <2>1
<1>8. CASE DecAll \/ RunAction \/ DelSlookup \/ DelFlookup \/ DelRlookup \/ DelFromVhash \/ VhashCheck
           \/ EncapDestroyHook \/ DelAttrhash \/ DelFromAttrhash \/ DelAttrLookup \/ EachValue
  BY <1>1, <1>8 DEF DecAll, RunAction, DelSlookup, DelFlookup, DelRlookup, DelFromVhash, VhashCheck,
     EncapDestroyHook, DelAttrhash, DelFromAttrhash, DelAttrLookup, EachValue, blobs, Fault
<1>9. CASE PurgeBegin \/ Foreach \/ PurgeEnd \/ DestroyAttrs \/ DestroyAttr \/ PushValue \/ DestroyKeys
           \/ DestroyValues
  BY <1>1, <1>9 DEF PurgeBegin, Foreach, PurgeEnd, DestroyAttrs, DestroyAttr, PushValue, DestroyKeys,
     DestroyValues, blobs, Fault, Died
<1> QED BY <1>4, <1>5, <1>6, <1>7, <1>8, <1>9 DEF Step

LEMMA StepForward ==
  ASSUME Shape, Step
  PROVE  \A k \in Key : \/ flookup'[k] = flookup[k] \/ Undone(flookup'[k], flookup[k])
                        \/ flookup'[k] = NoValue /\ (Top = <<"flookup", k>> \/ (DestroyKeys /\ slookup[k] # "none"))
<1>1. CASE UNCHANGED flookup
  BY <1>1
<1>2. CASE \E n \in Node : Die(n)
  BY <1>2, FadesDie
<1>4. CASE DelFlookup
  <2>1. Top = <<"flookup", Top[2]>>
    BY <1>4, TopIs, ActionIs DEF DelFlookup, Doing, Shape, TaskIs, ActionKinds
  <2>2. \A k \in Key : flookup'[k] = flookup[k] \/ (flookup'[k] = NoValue /\ k = Top[2])
    BY <1>4 DEF DelFlookup, Shape, DataShape, Typed
  <2> QED BY <2>1, <2>2
<1>5. CASE Dec \/ KaEnd
  <2>1. Top[2] \in Node
    BY <1>5, TopIs DEF Dec, KaEnd, Doing, Shape, TaskIs
  <2> QED BY <1>1, <1>2, <1>5, <2>1 DEF Dec, KaEnd, tables, Fault
<1>6. CASE DestroyKeys
  <2>1. \A k \in Key : flookup'[k] = flookup[k] \/ (flookup'[k] = NoValue /\ slookup[k] # "none")
    BY <1>6 DEF DestroyKeys, Died, Fault, tables
  <2> QED BY <1>6, <2>1
<1>7. CASE DecAll \/ RunAction \/ Freed \/ DelSlookup \/ DelRlookup \/ DelFromVhash \/ VhashCheck
           \/ EncapDestroyHook \/ DelAttrhash \/ DelFromAttrhash
  BY <1>1, <1>7 DEF DecAll, RunAction, Freed, DelSlookup, DelRlookup, DelFromVhash, VhashCheck,
     EncapDestroyHook, DelAttrhash, DelFromAttrhash, tables, Fault
<1>8. CASE KEncapCleanup \/ EncapAttrDestroyHook \/ AttrDestroyTrigger \/ DelAttrLookup \/ EachValue
  BY <1>1, <1>8 DEF KEncapCleanup, EncapAttrDestroyHook, AttrDestroyTrigger, DelAttrLookup, EachValue,
     tables, Fault
<1>9. CASE PurgeBegin \/ Foreach \/ PurgeEnd \/ DestroyAttrs \/ DestroyAttr \/ PushValue \/ DestroyValues
  BY <1>1, <1>9 DEF PurgeBegin, Foreach, PurgeEnd, DestroyAttrs, DestroyAttr, PushValue, DestroyValues,
     tables, Fault, Died
<1> QED BY <1>4, <1>5, <1>6, <1>7, <1>8, <1>9 DEF Step

LEMMA StepAttrs ==
  ASSUME Shape, Step
  PROVE  \A a \in Attr : attr_lookup[a] # "none" =>
           attr_lookup'[a] # "none" \/ (DelAttrLookup /\ <<"values", a>> \in ToSet(todo'))
<1>1. CASE UNCHANGED attr_lookup
  BY <1>1
<1>2. CASE \E n \in Node : Die(n)
  BY <1>2, FadesDie
<1>3. CASE DelAttrLookup
  <2>1. Top[2] \in Attr /\ Tail(todo) \in Seq(Task)
    BY <1>3, TopIs, ActionIs DEF DelAttrLookup, Doing, Shape, TaskIs
  <2> DEFINE b == Top[2]
             x == <<"values", b>>
             y == <<"ka_end", b>>
  <2>2. CASE attr_lookup' = [attr_lookup EXCEPT ![b] = "none"] /\ Then(<<x, y>>)
    <3>1. x \in Task /\ y \in Task
      BY <2>1, PlainTasks, Apartness DEF Plain
    <3>2. todo' = <<x, y>> \o Tail(todo)
      BY <2>2 DEF Then
    <3> HIDE DEF x, y
    <3> DEFINE s == Tail(todo)
    <3>7. s \in Seq(Task)
      BY <2>1
    <3> HIDE DEF s
    <3>8. \A t, u \in Task : ToSet(<<t, u>> \o s) = {t, u} \cup ToSet(s)
      BY <3>7, PushTwo
    <3>4. \A t, u \in Task : ToSet(<<t, u>> \o Tail(todo)) = {t, u} \cup ToSet(Tail(todo))
      BY <3>8 DEF s
    <3>3. ToSet(<<x, y>> \o Tail(todo)) = {x, y} \cup ToSet(Tail(todo))
      BY <3>1, <3>4
    <3>5. x \in ToSet(todo')
      BY <3>2, <3>3
    <3>6. \A a \in Attr : attr_lookup'[a] = attr_lookup[a] \/ a = b
      BY <2>2 DEF Shape, DataShape, Typed
    <3> QED BY <1>3, <3>5, <3>6 DEF x
  <2> QED BY <1>1, <1>3, <2>2 DEF DelAttrLookup, Fault, tables
<1>5. CASE Dec \/ KaEnd
  <2>1. Top[2] \in Node
    BY <1>5, TopIs DEF Dec, KaEnd, Doing, Shape, TaskIs
  <2> QED BY <1>1, <1>2, <1>5, <2>1 DEF Dec, KaEnd, tables, Fault
<1>7. CASE DecAll \/ RunAction \/ Freed \/ DelSlookup \/ DelRlookup \/ DelFromVhash \/ VhashCheck
           \/ EncapDestroyHook \/ DelAttrhash \/ DelFromAttrhash \/ DelFlookup
  BY <1>1, <1>7 DEF DecAll, RunAction, Freed, DelSlookup, DelRlookup, DelFromVhash, VhashCheck,
     EncapDestroyHook, DelAttrhash, DelFromAttrhash, DelFlookup, tables, Fault
<1>8. CASE KEncapCleanup \/ EncapAttrDestroyHook \/ AttrDestroyTrigger \/ EachValue
  BY <1>1, <1>8 DEF KEncapCleanup, EncapAttrDestroyHook, AttrDestroyTrigger, EachValue,
     tables, Fault
<1>9. CASE PurgeBegin \/ Foreach \/ PurgeEnd \/ DestroyAttrs \/ DestroyAttr \/ PushValue \/ DestroyValues
           \/ DestroyKeys
  BY <1>1, <1>9 DEF PurgeBegin, Foreach, PurgeEnd, DestroyAttrs, DestroyAttr, PushValue, DestroyValues,
     DestroyKeys, tables, Fault, Died
<1> QED BY <1>3, <1>5, <1>7, <1>8, <1>9 DEF Step

-----------------------------------------------------------------------------
(* An attribute that has values is found, or is taking them out.            *)

LEMMA FoundStep ==
  ASSUME Shape, HashFound, Step
  PROVE  HashFound'
<1> SUFFICES ASSUME NEW a \in Attr, NEW v \in Object, attrhash'[a][v] # "none"
             PROVE  attr_lookup'[a] # "none" \/ <<"values", a>> \in ToSet(todo')
  BY DEF HashFound
<1>1. attrhash[a][v] # "none"
  BY StepHashes DEF Fades
<1>2. CASE attr_lookup[a] # "none"
  BY <1>2, StepAttrs
<1>3. CASE <<"values", a>> \in ToSet(todo) /\ Top # <<"values", a>>
  BY <1>3, StepTodo
<1>4. CASE Top = <<"values", a>>
  <2>1. EachValue /\ todo \in Seq(Task)
    BY <1>4 DEF Step, Doing, DecAll, DelSlookup, DelFlookup, DelRlookup, DelAttrhash, DelFromVhash,
       VhashCheck, EncapDestroyHook, KEncapCleanup, EncapAttrDestroyHook, AttrDestroyTrigger,
       DelAttrLookup, DelFromAttrhash, PurgeBegin, Foreach, PurgeEnd, DestroyAttrs, DestroyAttr,
       PushValue, DestroyKeys, DestroyValues, Dec, Freed, KaEnd, RunAction, Shape, TodoShape
  <2>2. todo # <<>> /\ <<"values", a>> \in ToSet(todo)
    BY <1>4, <2>1, TopIs DEF EachValue, Doing, Shape
  <2>3. CASE \E what : Fault(what)
    BY <2>2, <2>3 DEF Fault
  <2>4. CASE \A u \in Object : attrhash[a][u] = "none"
    BY <1>1, <2>4
  <2>5. ASSUME NEW u \in Object,
               todo' = <<<<"unhash", a, u>>, <<"unvhash", a, u>>>>
                          \o (IF u \in kept THEN <<>> ELSE <<<<"ka_end", u>>>>) \o todo
        PROVE  <<"values", a>> \in ToSet(todo')
    <3> DEFINE x == <<"unhash", a, u>>
               y == <<"unvhash", a, u>>
               z == <<"ka_end", u>>
               e == IF u \in kept THEN <<>> ELSE <<z>>
    <3>1. x \in Task /\ y \in Task /\ z \in Task
      BY PlainTasks, OtherTasks, Apartness DEF Plain
    <3>2. e \in Seq(Task)
      BY <3>1, MaybeOne
    <3>3. <<x, y>> \in Seq(Task)
      BY <3>1
    <3>4. todo' = (<<x, y>> \o e) \o todo
      BY <2>5
    <3> HIDE DEF x, y, e
    <3>5. <<x, y>> \o e \in Seq(Task)
      BY <3>2, <3>3, SetConcat
    <3> DEFINE s == <<x, y>> \o e
    <3> HIDE DEF s
    <3>6. ToSet(s \o todo) = ToSet(s) \cup ToSet(todo)
      <4>1. s \in Seq(Task)
        BY <3>5 DEF s
      <4> QED BY <2>1, <4>1, SetConcat
    <3>7. ToSet(todo) \subseteq ToSet(todo')
      BY <3>4, <3>6 DEF s
    <3> QED BY <2>2, <3>7
  <2> QED BY <1>4, <2>1, <2>3, <2>4, <2>5 DEF EachValue
<1> QED BY <1>1, <1>2, <1>3, <1>4 DEF HashFound

LEMMA FoundOperation ==
  ASSUME Shape, HashFound, Operation, Shape'
  PROVE  HashFound'
<1>1. \A x : x \notin ToSet(todo)
  BY OperationTodo DEF ToSet
<1>2. CASE UNCHANGED <<attrhash, attr_lookup>>
  BY <1>1, <1>2 DEF HashFound
<1>3. ASSUME NEW a \in Attr, NEW v \in Object, NEW sv \in BOOLEAN, NEW sa \in BOOLEAN,
             StoreA(a, v, sv, sa)
      PROVE  HashFound'
  <2>1. \A b \in Attr : attr_lookup'[b] = IF b = a THEN "weak" ELSE attr_lookup[b]
    BY <1>3 DEF StoreA, Shape, DataShape, Typed
  <2>2. \A b \in Attr : b # a => attrhash'[b] = attrhash[b]
    BY <1>3 DEF StoreA, Shape, DataShape, Typed
  <2> QED BY <1>1, <2>1, <2>2 DEF HashFound
<1>4. CASE Destroy \/ \E o \in Object : New(o) \/ Drop(o) \/ Purge(o)
  BY <1>2, <1>4 DEF Destroy, New, Drop, Purge, blobs, tables
<1>5. CASE \E k \in Key : FetchSk(k) \/ UnlinkSk(k) \/ PurgeBySk(k)
  BY <1>2, <1>5 DEF FetchSk, Take, UnlinkSk, PurgeBySk, blobs, tables
<1>7. ASSUME NEW k, NEW v, NEW sv, NEW sk, StoreSk(k, v, sv, sk)
      PROVE  HashFound'
  BY <1>2, <1>7 DEF StoreSk
<1>6. CASE \E a \in Attr : \/ FetchA(a) \/ UnlinkA(a) \/ PurgeByA(a)
                          \/ \E v \in Object : DissocA(a, v)
  BY <1>2, <1>6 DEF FetchA, Take, UnlinkA, PurgeByA, DissocA, blobs, tables
<1> QED BY <1>3, <1>4, <1>5, <1>6, <1>7 DEF Operation

LEMMA FoundInit ==
  ASSUME Init
  PROVE  HashFound
BY DEF Init, HashFound

LEMMA FoundNext ==
  ASSUME Shape, HashFound, Shape', [Next]_vars
  PROVE  HashFound'
<1>1. CASE UNCHANGED vars
  BY <1>1 DEF vars, tables, blobs, HashFound
<1> QED BY <1>1, FoundStep, FoundOperation DEF Next

-----------------------------------------------------------------------------
(* What a key or an attribute takes with it: the actions of an index.       *)

LEMMA IndexActions ==
  ASSUME Shape, NEW i \in Index, NEW t \in ToSet(acts[i])
  PROVE  \/ i \in Key /\ t \in {<<"slookup", i>>, <<"flookup", i>>, <<"k_encap_cleanup", i>>}
         \/ i \in Attr /\ t = <<"attr_destroy_trigger", i>>
<1>1. t \in ActionsOf(i)
  BY Apartness DEF Shape, DataShape, ActionsTyped
<1> QED BY <1>1, Apartness DEF ActionsOf

LEMMA RunTodo ==
  ASSUME Shape, RunAction
  PROVE  /\ Head(acts[Top[2]]) \in Task
         /\ todo' # <<>> /\ Top' = Head(acts[Top[2]])
         /\ ToSet(todo') = {Head(acts[Top[2]])} \cup ToSet(todo)
<1> DEFINE x == Head(acts[Top[2]])
<1>1. /\ Top[2] \in Node /\ x \in ToSet(acts[Top[2]])
  BY FewerRunAction
<1>2. x \in Task
  <2>1. acts[Top[2]] \in Seq(Action)
    BY <1>1 DEF Shape, DataShape, Typed
  <2>2. x \in Action
    BY <1>1, <2>1 DEF ToSet
  <2> QED BY <2>2, SubTasks
<1>3. todo' = <<x>> \o todo /\ todo \in Seq(Task)
  BY DEF RunAction, Shape, TodoShape
<1> HIDE DEF x
<1>4. <<x>> \in Seq(Task) /\ <<x>> # <<>> /\ Head(<<x>>) = x
  BY <1>2
<1>5. todo' # <<>> /\ Head(todo') = x
  BY <1>3, <1>4, SetConcat
<1>6. ToSet(todo') = {x} \cup ToSet(todo)
  BY <1>2, <1>3, PushOne
<1> QED BY <1>2, <1>5, <1>6 DEF x, Top

\* An action of a key or an attribute goes from its list when it is the next to run.
LEMMA OwnKept ==
  ASSUME Shape, Step, NEW i \in Index, NEW t \in ToSet(acts[i]), Top # t
  PROVE  t \in ToSet(acts'[i]) \/ (todo' # <<>> /\ Top' = t)
<1>1. i \in Node
  BY Apartness
<1>2. /\ t[1] \in {"slookup", "flookup", "k_encap_cleanup", "attr_destroy_trigger"}
      /\ t = <<t[1], i>>
  BY IndexActions
<1>3. CASE UNCHANGED acts
  BY <1>3
<1>4. CASE RunAction
  BY <1>1, <1>4, FewerRunAction, RunTodo
<1>5. CASE VhashCheck \/ PurgeEnd \/ DestroyValues
  <2>1. Spares({"rlookup"})
    BY <1>5, FewerVhashCheck, FewerPurgeEnd, FewerDestroyValues
  <2> QED BY <1>1, <1>2, <2>1 DEF Spares
<1>6. CASE KEncapCleanup
  BY <1>1, <1>2, <1>6, FewerKEncapCleanup DEF Spares
<1>7. CASE DelFromAttrhash
  BY <1>1, <1>2, <1>7, FewerDelFromAttrhash DEF Spares
<1>8. CASE AttrDestroyTrigger
  <2>1. Top[2] = i => t[1] # "attr_destroy_trigger"
    BY <1>2, <1>8, FewerAttrDestroyTrigger DEF Trigger
  <2>2. CASE Top[2] # i
    BY <1>1, <1>2, <1>3, <1>8, <2>2, FewerAttrDestroyTrigger
  <2>3. CASE t[1] # "attr_destroy_trigger"
    BY <1>1, <1>2, <1>8, <2>3, FewerAttrDestroyTrigger DEF Spares
  <2> QED BY <2>1, <2>2, <2>3
<1>9. CASE EncapDestroyHook
  <2> DEFINE j == Top[2]
             x == <<"k_encap_cleanup", j>>
  <2>1. j \in Key /\ j \in Node /\ acts \in [Node -> Seq(Action)] /\ Tail(todo) \in Seq(Task)
    BY <1>9, TopIs, ActionIs, Apartness DEF EncapDestroyHook, Doing, Shape, TaskIs, ActionKinds,
       DataShape, Typed
  <2>2. CASE acts' = WithoutKind(acts, j, "k_encap_cleanup") /\ Then(<<x>>)
    <3>1. t \in ToSet(acts'[i]) \/ (i = j /\ t[1] = "k_encap_cleanup")
      BY <1>1, <2>1, <2>2, WithoutKindHas
    <3>2. ASSUME t = x PROVE todo' # <<>> /\ Top' = t
      <4>1. x \in Task /\ todo' = <<x>> \o Tail(todo)
        BY <2>1, <2>2, PlainTasks, ActionTasks DEF Then, Plain
      <4> HIDE DEF x
      <4>2. <<x>> \in Seq(Task) /\ <<x>> # <<>> /\ Head(<<x>>) = x
        BY <4>1
      <4> QED BY <2>1, <3>2, <4>1, <4>2, SetConcat DEF Top
    <3> QED BY <1>2, <3>1, <3>2
  <2>3. CASE \E what : Fault(what)
    BY <1>3, <2>3 DEF Fault, heap
  <2> QED BY <1>9, <2>2, <2>3 DEF EncapDestroyHook
<1> QED BY <1>3, <1>4, <1>5, <1>6, <1>7, <1>8, <1>9, ActsQuiet DEF Step

-----------------------------------------------------------------------------
LEMMA OwnStored ==
  ASSUME Shape, NEW k \in Key, NEW v \in Object, NEW sv \in BOOLEAN, NEW sk \in BOOLEAN,
         StoreSk(k, v, sv, sk)
  PROVE  acts'[k] = OwnActions(k)
<1> DEFINE o == TheObject(k)
           x == <<"rlookup", v>>
           y == <<"encap_destroy_hook", k>>
           keyed == [acts EXCEPT ![k] = OwnActions(k)]
           hooked == IF IsEncap(k) THEN Added(keyed, o, y) ELSE keyed
<1>1. /\ k \in Index /\ k \in Node /\ v \in Node /\ v # k
      /\ x \in Action /\ (IsEncap(k) => o \in Node /\ o # k /\ y \in Action)
  BY Apartness, ActionTasks, Encap
<1>2. acts' = Added(hooked, v, x) /\ acts \in [Node -> Seq(Action)]
  BY DEF StoreSk, Shape, DataShape, Typed
<1>3. OwnActions(k) \in Seq(Action)
  BY <1>1, OwnActionsProps
<1>4. keyed \in [Node -> Seq(Action)] /\ keyed[k] = OwnActions(k)
  BY <1>1, <1>2, <1>3
<1> HIDE DEF x, y, o, keyed
<1>5. hooked \in [Node -> Seq(Action)] /\ hooked[k] = keyed[k]
  <2>1. CASE IsEncap(k)
    <3>1. hooked = Added(keyed, o, y) /\ o \in Node /\ y \in Action /\ o # k
      BY <1>1, <2>1
    <3> HIDE DEF hooked
    <3> QED BY <1>1, <1>4, <3>1, AddedProps
  <2>2. CASE ~ IsEncap(k)
    BY <1>4, <2>2
  <2> QED BY <2>1, <2>2
<1> HIDE DEF hooked
<1> QED BY <1>1, <1>2, <1>4, <1>5, AddedProps

\* What a key has when it is stored.
LEMMA KeyActions ==
  ASSUME NEW k \in Key
  PROVE  /\ ToSet(OwnActions(k)) = IF IsEncap(k) THEN {<<"k_encap_cleanup", k>>}
                                   ELSE {<<"slookup", k>>, <<"flookup", k>>}
         /\ Cleanup(k) \cap ToSet(OwnActions(k)) # {}
<1> DEFINE x == <<"slookup", k>>
           y == <<"flookup", k>>
           z == <<"k_encap_cleanup", k>>
<1>1. k \notin Attr
  BY Apartness
<1>2. OwnActions(k) = IF IsEncap(k) THEN <<z>> ELSE <<x, y>>
  BY <1>1 DEF OwnActions
<1>3. Cleanup(k) = {y, z}
  BY DEF Cleanup
<1> HIDE DEF x, y, z
<1>4. ToSet(<<z>>) = {z}
  BY SetOne
<1>5. ToSet(<<x, y>>) = {x, y}
  BY DEF ToSet
<1>6. ToSet(OwnActions(k)) = IF IsEncap(k) THEN {z} ELSE {x, y}
  BY <1>2, <1>4, <1>5
<1> QED BY <1>3, <1>6 DEF x, y, z

-----------------------------------------------------------------------------
(* What a key keeps goes with the key.                                      *)

LEMMA ForwardStep ==
  ASSUME Shape, ForwardHooked, Step
  PROVE  ForwardHooked'
<1> SUFFICES ASSUME NEW k \in Key, flookup'[k].mode # "none"
             PROVE  Cleanup(k) \cap (ToSet(acts'[k]) \cup ToSet(todo')) # {}
  BY DEF ForwardHooked, Cleanup
<1>1. flookup[k].mode # "none"
  BY StepForward DEF NoValue, Undone
<1>2. PICK t \in Cleanup(k) : t \in ToSet(acts[k]) \/ t \in ToSet(todo)
  BY <1>1 DEF ForwardHooked
<1>3. k \in Index /\ t[2] = k /\ t[1] \in {"flookup", "k_encap_cleanup"} /\ todo # <<>>
  BY Apartness, StepTodo DEF Cleanup
<1>4. CASE Top = t /\ t[1] = "flookup"
  <2>1. DelFlookup
    BY <1>4 DEF Step, Doing, DecAll, DelSlookup, DelFlookup, DelRlookup, DelAttrhash, DelFromVhash,
       VhashCheck, EncapDestroyHook, KEncapCleanup, EncapAttrDestroyHook, AttrDestroyTrigger,
       DelAttrLookup, DelFromAttrhash, PurgeBegin, Foreach, PurgeEnd, DestroyAttrs, DestroyAttr,
       PushValue, DestroyKeys, DestroyValues, Dec, Freed, KaEnd, RunAction, EachValue
  <2>2. flookup'[k] = NoValue
    BY <1>3, <1>4, <2>1 DEF DelFlookup, Shape, DataShape, Typed
  <2> QED BY <2>2 DEF NoValue
<1>5. CASE Top = t /\ t[1] = "k_encap_cleanup"
  <2>1. KEncapCleanup
    BY <1>5 DEF Step, Doing, DecAll, DelSlookup, DelFlookup, DelRlookup, DelAttrhash, DelFromVhash,
       VhashCheck, EncapDestroyHook, KEncapCleanup, EncapAttrDestroyHook, AttrDestroyTrigger,
       DelAttrLookup, DelFromAttrhash, PurgeBegin, Foreach, PurgeEnd, DestroyAttrs, DestroyAttr,
       PushValue, DestroyKeys, DestroyValues, Dec, Freed, KaEnd, RunAction, EachValue
  <2>2. CASE \E what : Fault(what)
    <3>1. UNCHANGED <<acts, todo>>
      BY <2>2 DEF Fault, heap
    <3> QED BY <1>2, <3>1
  <2>3. CASE Then(FromTable(k) \o DecIf(obj[k], TheObject(k)))
    <3> DEFINE x == <<"unvhash", k, flookup[k].value>>
               y == <<"slookup", k>>
               z == <<"flookup", k>>
               d == DecIf(obj[k], TheObject(k))
    <3>1. FromTable(k) = IF flookup[k].mode = "undef" THEN <<y, z>> ELSE <<x, y, z>>
      BY <1>1 DEF FromTable
    <3>2. /\ y \in Task /\ z \in Task /\ Tail(todo) \in Seq(Task)
          /\ flookup[k].mode # "undef" => x \in Task
      <4>1. flookup[k].mode # "undef" => flookup[k].mode \in Ref
        BY <1>1 DEF Shape, DataShape, Typed, Entry
      <4>2. flookup[k].mode # "undef" => flookup[k].value \in Object
        BY <4>1 DEF Shape, DataShape, EntriesTyped
      <4> QED BY <1>3, <4>2, PlainTasks, ActionTasks, TopIs DEF Plain, Shape
    <3>3. d \in Seq(Task)
      <4>1. obj[k] = "strong" => TheObject(k) \in Node
        BY <1>3, Apartness DEF Shape, DataShape, EntriesTyped
      <4>2. d \in Seq(Plain)
        BY <4>1, DecIfPlain
      <4> QED BY <4>2 DEF Plain
    <3>4. z \in Cleanup(k)
      BY DEF Cleanup
    <3> HIDE DEF x, y, z, d
    <3> DEFINE f == FromTable(k)
    <3>5. f \in Seq(Task) /\ z \in ToSet(f)
      <4>1. <<y, z>> \in Seq(Task) /\ z \in ToSet(<<y, z>>)
        BY <3>2 DEF ToSet
      <4>2. flookup[k].mode # "undef" => <<x, y, z>> \in Seq(Task) /\ z \in ToSet(<<x, y, z>>)
        BY <3>2 DEF ToSet
      <4> QED BY <3>1, <4>1, <4>2
    <3>6. todo' = (f \o d) \o Tail(todo)
      BY <2>3 DEF Then, d
    <3> HIDE DEF f
    <3>7. f \o d \in Seq(Task) /\ z \in ToSet(f \o d)
      BY <3>3, <3>5, SetConcat
    <3> DEFINE s == f \o d
               u == Tail(todo)
    <3> HIDE DEF s
    <3>8. s \in Seq(Task) /\ z \in ToSet(s) /\ u \in Seq(Task) /\ todo' = s \o u
      BY <3>2, <3>6, <3>7 DEF s
    <3> HIDE DEF u
    <3>10. ToSet(s \o u) = ToSet(s) \cup ToSet(u)
      BY <3>8, SetConcat
    <3>9. z \in ToSet(todo')
      BY <3>8, <3>10
    <3> QED BY <3>4, <3>9
  <2>4. Top[2] = k
    BY <1>3, <1>5
  <2> QED BY <2>1, <2>2, <2>3, <2>4 DEF KEncapCleanup
<1>6. CASE Top # t
  <2>1. CASE t \in ToSet(todo)
    BY <1>2, <1>6, <2>1, StepTodo
  <2>2. CASE t \in ToSet(acts[k])
    <3>1. t \in ToSet(acts'[k]) \/ (todo' # <<>> /\ Top' = t)
      BY <1>3, <1>6, <2>2, OwnKept
    <3>2. todo' \in Seq(Task) => (todo' # <<>> /\ Top' = t => t \in ToSet(todo'))
      BY Split DEF Top
    <3>3. todo' \in Seq(Task)
      BY ShapeStep DEF Shape, TodoShape
    <3> QED BY <1>2, <3>1, <3>2, <3>3
  <2> QED BY <1>2, <2>1, <2>2
<1> QED BY <1>3, <1>4, <1>5, <1>6

LEMMA ForwardOperation ==
  ASSUME Shape, ForwardHooked, Operation, Shape'
  PROVE  ForwardHooked'
<1>1. \A x : x \notin ToSet(todo)
  BY OperationTodo DEF ToSet
<1>2. CASE UNCHANGED <<acts, flookup>>
  BY <1>1, <1>2 DEF ForwardHooked, Cleanup
<1>3. \A k \in Key : k \in Node
  BY Apartness
<1>4. ASSUME NEW a \in Attr, NEW v \in Object, NEW sv \in BOOLEAN, NEW sa \in BOOLEAN,
             StoreA(a, v, sv, sa)
      PROVE  ForwardHooked'
  <2>1. UNCHANGED flookup
    BY <1>4 DEF StoreA
  <2>2. \A k \in Key : ToSet(acts[k]) \subseteq ToSet(acts'[k])
    <3>1. \A n \in Node : \A b : n # a /\ b \in ToSet(acts[n]) => b \in ToSet(acts'[n])
      BY <1>4, StoredA
    <3>2. a \notin Key
      BY Apartness
    <3> QED BY <1>3, <3>1, <3>2
  <2> QED BY <1>1, <2>1, <2>2 DEF ForwardHooked, Cleanup
<1>5. ASSUME NEW k \in Key, NEW v \in Object, NEW sv \in BOOLEAN, NEW sk \in BOOLEAN,
             StoreSk(k, v, sv, sk)
      PROVE  ForwardHooked'
  <2>1. \A j \in Key : j # k => flookup'[j] = flookup[j]
    BY <1>5 DEF StoreSk, Shape, DataShape, Typed
  <2>2. \A j \in Key : j # k => ToSet(acts[j]) \subseteq ToSet(acts'[j])
    <3>1. \A n \in Node : \A b : (n # k /\ b \in ToSet(acts[n])) \/ (n = v /\ b = <<"rlookup", v>>) => b \in ToSet(acts'[n])
      BY <1>5, StoredSk
    <3> QED BY <1>3, <3>1
  <2>3. Cleanup(k) \cap ToSet(acts'[k]) # {}
    BY <1>5, OwnStored, KeyActions
  <2> QED BY <1>1, <2>1, <2>2, <2>3 DEF ForwardHooked, Cleanup
<1>6. CASE Destroy \/ \E o \in Object : New(o) \/ Drop(o) \/ Purge(o)
  BY <1>2, <1>6 DEF Destroy, New, Drop, Purge, heap, tables
<1>7. CASE \E k \in Key : FetchSk(k) \/ UnlinkSk(k) \/ PurgeBySk(k)
  BY <1>2, <1>7 DEF FetchSk, Take, UnlinkSk, PurgeBySk, heap, tables
<1>8. CASE \E a \in Attr : \/ FetchA(a) \/ UnlinkA(a) \/ PurgeByA(a)
                          \/ \E v \in Object : DissocA(a, v)
  BY <1>2, <1>8 DEF FetchA, Take, UnlinkA, PurgeByA, DissocA, heap, tables
<1> QED BY <1>4, <1>5, <1>6, <1>7, <1>8 DEF Operation

LEMMA ForwardInit ==
  ASSUME Init
  PROVE  ForwardHooked
BY DEF Init, ForwardHooked, NoValue

LEMMA ForwardNext ==
  ASSUME Shape, Shape', ForwardHooked, [Next]_vars
  PROVE  ForwardHooked'
<1>1. CASE UNCHANGED vars
  BY <1>1 DEF vars, tables, heap, ForwardHooked, Cleanup
<1> QED BY <1>1, ForwardStep, ForwardOperation DEF Next

-----------------------------------------------------------------------------
(* What a key or an attribute was made from is let go of with it.           *)

LEMMA ObjectStep ==
  ASSUME Shape, ObjectHooked, Step
  PROVE  ObjectHooked'
<1> SUFFICES ASSUME NEW i \in Index, obj'[i] = "strong"
             PROVE  OwnAction(i) \in ToSet(acts'[i]) \/ (todo' # <<>> /\ Top' = OwnAction(i))
  BY DEF ObjectHooked, OwnAction
<1>1. obj[i] = "strong"
  BY StepObjs
<1>2. CASE OwnAction(i) \in ToSet(acts[i]) /\ Top # OwnAction(i)
  BY <1>2, OwnKept
<1>3. CASE Top = OwnAction(i)
  <2>1. \/ i \in Attr /\ Top = <<"attr_destroy_trigger", i>>
        \/ i \in Key /\ Top = <<"k_encap_cleanup", i>>
    BY <1>3, Apartness DEF OwnAction
  <2>5. Top[2] = i /\ Top[1] \in {"attr_destroy_trigger", "k_encap_cleanup"}
    BY <2>1
  <2>2. AttrDestroyTrigger \/ KEncapCleanup
    BY <2>5 DEF Step, Doing, DecAll, DelSlookup, DelFlookup, DelRlookup, DelAttrhash, DelFromVhash,
       VhashCheck, EncapDestroyHook, KEncapCleanup, EncapAttrDestroyHook, AttrDestroyTrigger,
       DelAttrLookup, DelFromAttrhash, PurgeBegin, Foreach, PurgeEnd, DestroyAttrs, DestroyAttr,
       PushValue, DestroyKeys, DestroyValues, Dec, Freed, KaEnd, RunAction, EachValue
  <2>3. CASE \E what : Fault(what)
    <3>1. UNCHANGED <<acts, todo>> /\ todo # <<>>
      BY <2>3, StepTodo DEF Fault, heap
    <3> QED BY <1>3, <3>1 DEF Top
  <2>4. CASE \E e : e # "strong" /\ obj' = [obj EXCEPT ![i] = e]
    BY <2>4 DEF Shape, DataShape, Typed
  <2>6. CASE AttrDestroyTrigger
    <3>1. (\E what : Fault(what)) \/ obj' = [obj EXCEPT ![i] = IF obj[i] = "none" THEN "none" ELSE "dangling"]
      BY <2>5, <2>6 DEF AttrDestroyTrigger
    <3>2. (IF obj[i] = "none" THEN "none" ELSE "dangling") # "strong"
      OBVIOUS
    <3> QED BY <2>3, <2>4, <3>1, <3>2
  <2>7. CASE KEncapCleanup
    <3>1. (\E what : Fault(what)) \/ obj' = [obj EXCEPT ![i] = "none"]
      BY <2>5, <2>7 DEF KEncapCleanup
    <3> QED BY <2>3, <2>4, <3>1
  <2> QED BY <2>2, <2>6, <2>7
<1> QED BY <1>1, <1>2, <1>3 DEF ObjectHooked

LEMMA ObjectOperation ==
  ASSUME Shape, ObjectHooked, Operation, Shape'
  PROVE  ObjectHooked'
<1>1. todo = <<>>
  BY OperationTodo
<1>2. CASE UNCHANGED <<acts, obj>>
  BY <1>1, <1>2 DEF ObjectHooked, OwnAction
<1>3. \A i \in Index : i \in Node
  BY Apartness
<1>4. ASSUME NEW a \in Attr, NEW v \in Object, NEW sv \in BOOLEAN, NEW sa \in BOOLEAN,
             StoreA(a, v, sv, sa)
      PROVE  ObjectHooked'
  <2>1. \A i \in Index : i # a => obj'[i] = obj[i]
    BY <1>4 DEF StoreA, Shape, DataShape, Typed
  <2>2. attr_lookup[a] # "none" => obj'[a] = obj[a]
    BY <1>4 DEF StoreA
  <2>3. \A i \in Index : i # a => ToSet(acts[i]) \subseteq ToSet(acts'[i])
    <3>1. \A n \in Node : \A b : n # a /\ b \in ToSet(acts[n]) => b \in ToSet(acts'[n])
      BY <1>4, StoredA
    <3> QED BY <1>3, <3>1
  <2>4. Trigger(a) \in ToSet(acts'[a]) \/ (attr_lookup[a] # "none" /\ acts'[a] = acts[a])
    BY <1>4, StoredElsewhere
  <2>5. OwnAction(a) = Trigger(a)
    BY DEF OwnAction, Trigger
  <2>6. \A i \in Index : obj[i] = "strong" => OwnAction(i) \in ToSet(acts[i])
    BY <1>1 DEF ObjectHooked
  <2>7. \A i \in Index : obj'[i] = "strong" => OwnAction(i) \in ToSet(acts'[i])
    BY <2>1, <2>2, <2>3, <2>4, <2>5, <2>6
  <2> QED BY <2>7 DEF ObjectHooked, OwnAction
<1>5. ASSUME NEW k \in Key, NEW v \in Object, NEW sv \in BOOLEAN, NEW sk \in BOOLEAN,
             StoreSk(k, v, sv, sk)
      PROVE  ObjectHooked'
  <2>1. \A i \in Index : i # k => obj'[i] = obj[i]
    BY <1>5 DEF StoreSk, Shape, DataShape, Typed
  <2>2. obj'[k] = "strong" /\ ~ IsEncap(k) => obj[k] = "strong"
    BY <1>5 DEF StoreSk
  <2>3. obj[k] = "strong" => IsEncap(k)
    BY <1>3, Apartness, Encap DEF Shape, DataShape, EntriesTyped
  <2>4. \A i \in Index : i # k => ToSet(acts[i]) \subseteq ToSet(acts'[i])
    <3>1. \A n \in Node : \A b : (n # k /\ b \in ToSet(acts[n])) \/ (n = v /\ b = <<"rlookup", v>>) => b \in ToSet(acts'[n])
      BY <1>5, StoredSk
    <3> QED BY <1>3, <3>1
  <2>5. IsEncap(k) => OwnAction(k) \in ToSet(acts'[k])
    BY <1>5, OwnStored, KeyActions, Apartness DEF OwnAction
  <2>6. \A i \in Index : obj[i] = "strong" => OwnAction(i) \in ToSet(acts[i])
    BY <1>1 DEF ObjectHooked
  <2>7. \A i \in Index : obj'[i] = "strong" => OwnAction(i) \in ToSet(acts'[i])
    BY <2>1, <2>2, <2>3, <2>4, <2>5, <2>6
  <2> QED BY <2>7 DEF ObjectHooked, OwnAction
<1>6. CASE Destroy \/ \E o \in Object : New(o) \/ Drop(o) \/ Purge(o)
  BY <1>2, <1>6 DEF Destroy, New, Drop, Purge, heap, blobs
<1>7. CASE \E k \in Key : FetchSk(k) \/ UnlinkSk(k) \/ PurgeBySk(k)
  BY <1>2, <1>7 DEF FetchSk, Take, UnlinkSk, PurgeBySk, heap, blobs
<1>8. CASE \E a \in Attr : \/ FetchA(a) \/ UnlinkA(a) \/ PurgeByA(a)
                          \/ \E v \in Object : DissocA(a, v)
  BY <1>2, <1>8 DEF FetchA, Take, UnlinkA, PurgeByA, DissocA, heap, blobs
<1> QED BY <1>4, <1>5, <1>6, <1>7, <1>8 DEF Operation

LEMMA ObjectInit ==
  ASSUME Init
  PROVE  ObjectHooked
BY DEF Init, ObjectHooked

LEMMA ObjectNext ==
  ASSUME Shape, Shape', ObjectHooked, [Next]_vars
  PROVE  ObjectHooked'
<1>1. CASE UNCHANGED vars
  BY <1>1 DEF vars, blobs, heap, ObjectHooked, OwnAction, Top
<1> QED BY <1>1, ObjectStep, ObjectOperation DEF Next

-----------------------------------------------------------------------------
(* What comes before what in todo.                                          *)

LEMMA AheadConcat ==
  ASSUME NEW s, Len(s) \in Nat, NEW q, Len(q) \in Nat, NEW U, NEW W, Ahead(s, U, W),
         (\E i \in 1..Len(s) : s[i] \in W) \/ Ahead(q, U, W)
  PROVE  Ahead(s \o q, U, W)
<1> DEFINE z == s \o q
<1>1. Len(z) = Len(s) + Len(q)
  OBVIOUS
<1>2. \A i \in 1..Len(z) : z[i] = IF i <= Len(s) THEN s[i] ELSE q[i - Len(s)]
  BY <1>1
<1> HIDE DEF z
<1>3. ASSUME NEW p \in 1..Len(z), z[p] \in U PROVE \E r \in 1..(p - 1) : z[r] \in W
  <2>1. CASE p <= Len(s)
    <3>1. p \in 1..Len(s) /\ s[p] \in U
      BY <1>1, <1>2, <1>3, <2>1
    <3>2. PICK r \in 1..(p - 1) : s[r] \in W
      BY <3>1 DEF Ahead
    <3>3. r \in 1..Len(z) /\ r <= Len(s)
      BY <1>1, <2>1, <3>2
    <3> QED BY <1>2, <3>2, <3>3
  <2>2. CASE p > Len(s) /\ \E i \in 1..Len(s) : s[i] \in W
    <3>1. PICK i \in 1..Len(s) : s[i] \in W
      BY <2>2
    <3>2. i \in 1..Len(z) /\ i <= Len(s) /\ i \in 1..(p - 1)
      BY <1>1, <2>2
    <3> QED BY <1>2, <3>1, <3>2
  <2>3. CASE p > Len(s) /\ Ahead(q, U, W)
    <3>1. p - Len(s) \in 1..Len(q) /\ q[p - Len(s)] \in U
      BY <1>1, <1>2, <1>3, <2>3
    <3>2. PICK r \in 1..(p - Len(s) - 1) : q[r] \in W
      BY <2>3, <3>1 DEF Ahead
    <3>3. r + Len(s) \in 1..Len(z) /\ ~ (r + Len(s) <= Len(s)) /\ (r + Len(s)) - Len(s) = r
          /\ r + Len(s) \in 1..(p - 1)
      BY <1>1, <3>1
    <3>4. z[r + Len(s)] = q[r]
      BY <1>2, <3>3
    <3> QED BY <3>2, <3>3, <3>4
  <2> QED BY <1>1, <2>1, <2>2, <2>3
<1>4. Ahead(z, U, W)
  BY <1>3 DEF Ahead
<1> QED BY <1>4 DEF z

LEMMA AheadSplit ==
  ASSUME NEW T, NEW q \in Seq(T), q # <<>>, NEW U, NEW W, Ahead(q, U, W)
  PROVE  Head(q) \notin U /\ (Head(q) \in W \/ Ahead(Tail(q), U, W))
<1>1. 1 \in 1..Len(q) /\ Head(q) = q[1] /\ Len(Tail(q)) = Len(q) - 1 /\ Len(q) \in Nat
      /\ \A p \in 1..Len(Tail(q)) : Tail(q)[p] = q[p + 1]
  OBVIOUS
<1>2. Head(q) \notin U
  BY <1>1 DEF Ahead
<1>3. ASSUME Head(q) \notin W PROVE Ahead(Tail(q), U, W)
  <2> SUFFICES ASSUME NEW p \in 1..Len(Tail(q)), Tail(q)[p] \in U
               PROVE  \E r \in 1..(p - 1) : Tail(q)[r] \in W
    BY DEF Ahead
  <2>1. p + 1 \in 1..Len(q) /\ q[p + 1] \in U
    BY <1>1
  <2>2. PICK r \in 1..((p + 1) - 1) : q[r] \in W
    BY <2>1 DEF Ahead
  <2>3. r # 1
    BY <1>1, <1>3, <2>2
  <2>4. r - 1 \in 1..(p - 1) /\ r - 1 \in 1..Len(Tail(q)) /\ (r - 1) + 1 = r
    BY <1>1, <2>3
  <2> QED BY <1>1, <2>2, <2>4
<1> QED BY <1>2, <1>3

\* Nothing of U in s.
Clear(s, U) == Len(s) \in Nat /\ \A i \in 1..Len(s) : s[i] \notin U

LEMMA ClearOne ==
  ASSUME NEW U
  PROVE  /\ Clear(<<>>, U)
         /\ \A x : x \notin U => Clear(<<x>>, U)
         /\ \A x, y : x \notin U /\ y \notin U => Clear(<<x, y>>, U)
         /\ \A x, y, z : x \notin U /\ y \notin U /\ z \notin U => Clear(<<x, y, z>>, U)
<1>1. Clear(<<>>, U)
  BY DEF Clear
<1>2. ASSUME NEW x, x \notin U PROVE Clear(<<x>>, U)
  BY <1>2 DEF Clear
<1>3. ASSUME NEW x, NEW y, x \notin U, y \notin U PROVE Clear(<<x, y>>, U)
  <2> DEFINE s == <<x, y>>
  <2>1. Len(s) = 2 /\ s[1] = x /\ s[2] = y
    OBVIOUS
  <2> HIDE DEF s
  <2>2. Clear(s, U)
    BY <1>3, <2>1 DEF Clear
  <2> QED BY <2>2 DEF s
<1>4. ASSUME NEW x, NEW y, NEW z, x \notin U, y \notin U, z \notin U PROVE Clear(<<x, y, z>>, U)
  <2> DEFINE s == <<x, y, z>>
  <2>1. Len(s) = 3 /\ s[1] = x /\ s[2] = y /\ s[3] = z
    OBVIOUS
  <2> HIDE DEF s
  <2>2. \A i \in 1..Len(s) : i = 1 \/ i = 2 \/ i = 3
    BY <2>1
  <2>3. Clear(s, U)
    BY <1>4, <2>1, <2>2 DEF Clear
  <2> QED BY <2>3 DEF s
<1> QED BY <1>1, <1>2, <1>3, <1>4

LEMMA ClearConcat ==
  ASSUME NEW U, NEW s, Clear(s, U), NEW t, Clear(t, U)
  PROVE  Clear(s \o t, U)
<1> DEFINE r == s \o t
<1>1. Len(r) = Len(s) + Len(t) /\ Len(s) \in Nat /\ Len(t) \in Nat
  BY DEF Clear
<1>2. \A i \in 1..Len(r) : r[i] = IF i <= Len(s) THEN s[i] ELSE t[i - Len(s)]
  BY <1>1
<1> HIDE DEF r
<1>3. \A i \in 1..Len(r) : IF i <= Len(s) THEN i \in 1..Len(s) ELSE i - Len(s) \in 1..Len(t)
  BY <1>1
<1>4. Clear(r, U)
  BY <1>1, <1>2, <1>3 DEF Clear
<1> QED BY <1>4 DEF r

LEMMA ClearAhead ==
  ASSUME NEW U, NEW s, Clear(s, U)
  PROVE  Len(s) \in Nat /\ \A W : Ahead(s, U, W)
BY DEF Clear, Ahead

-----------------------------------------------------------------------------
(* An attribute that keeps a value is under it until it has been taken out. *)

AfterKinds == {"unvhash", "rlookup", "purge_end", "foreach", "destroy_keys", "destroy_values"}

LEMMA AfterIs ==
  ASSUME NEW a, NEW v, NEW t
  PROVE  /\ t \in After(a, v) =>
              \/ t \in {<<"unvhash", a, v>>, <<"rlookup", v>>, <<"purge_end", v>>}
              \/ t[1] = "foreach" /\ t[2] = v /\ a \notin ToSet(t[3])
              \/ t[1] \in {"destroy_keys", "destroy_values"}
         /\ t \in After(a, v) => t[1] \in AfterKinds
         /\ t \in Taking(a, v) =>
              \/ t = <<"unhash", a, v>>
              \/ t[1] = "destroy_attrs" /\ a \in t[2]
              \/ t[1] = "destroy_attr" /\ t[2] = a /\ v \in t[3]
<1>1. t \in After(a, v) =>
              \/ t \in {<<"unvhash", a, v>>, <<"rlookup", v>>, <<"purge_end", v>>}
              \/ t[1] = "foreach" /\ t[2] = v /\ a \notin ToSet(t[3])
              \/ t[1] \in {"destroy_keys", "destroy_values"}
  BY DEF After
<1>2. t \in {<<"unvhash", a, v>>, <<"rlookup", v>>, <<"purge_end", v>>} =>
         t[1] \in {"unvhash", "rlookup", "purge_end"}
  OBVIOUS
<1>3. t \in Taking(a, v) =>
              \/ t = <<"unhash", a, v>>
              \/ t[1] = "destroy_attrs" /\ a \in t[2]
              \/ t[1] = "destroy_attr" /\ t[2] = a /\ v \in t[3]
  BY DEF Taking
<1>4. t \in After(a, v) => t[1] \in AfterKinds
  BY <1>1, <1>2 DEF AfterKinds
<1> QED BY <1>1, <1>3, <1>4

\* What DESTROY sets off, and what it begins with.
DestroyKinds == Gathering \cup TakeDown

\* No task of these kinds in s.
Lacks(s, K) == Len(s) \in Nat /\ \A i \in 1..Len(s) : s[i][1] \notin K

LEMMA LacksOne ==
  ASSUME NEW K
  PROVE  /\ Lacks(<<>>, K)
         /\ \A x : x[1] \notin K => Lacks(<<x>>, K)
         /\ \A x, y : x[1] \notin K /\ y[1] \notin K => Lacks(<<x, y>>, K)
         /\ \A x, y, z : x[1] \notin K /\ y[1] \notin K /\ z[1] \notin K => Lacks(<<x, y, z>>, K)
<1>1. Lacks(<<>>, K)
  BY DEF Lacks
<1>2. ASSUME NEW x, x[1] \notin K PROVE Lacks(<<x>>, K)
  BY <1>2 DEF Lacks
<1>3. ASSUME NEW x, NEW y, x[1] \notin K, y[1] \notin K PROVE Lacks(<<x, y>>, K)
  <2> DEFINE s == <<x, y>>
  <2>1. Len(s) = 2 /\ s[1] = x /\ s[2] = y
    OBVIOUS
  <2> HIDE DEF s
  <2>2. Lacks(s, K)
    BY <1>3, <2>1 DEF Lacks
  <2> QED BY <2>2 DEF s
<1>4. ASSUME NEW x, NEW y, NEW z, x[1] \notin K, y[1] \notin K, z[1] \notin K
      PROVE  Lacks(<<x, y, z>>, K)
  <2> DEFINE s == <<x, y, z>>
  <2>1. Len(s) = 3 /\ s[1] = x /\ s[2] = y /\ s[3] = z
    OBVIOUS
  <2> HIDE DEF s
  <2>2. \A i \in 1..Len(s) : i = 1 \/ i = 2 \/ i = 3
    BY <2>1
  <2>3. Lacks(s, K)
    BY <1>4, <2>1, <2>2 DEF Lacks
  <2> QED BY <2>3 DEF s
<1> QED BY <1>1, <1>2, <1>3, <1>4

LEMMA LacksConcat ==
  ASSUME NEW K, NEW s, Lacks(s, K), NEW t, Lacks(t, K)
  PROVE  Lacks(s \o t, K)
<1> DEFINE r == s \o t
<1>1. Len(r) = Len(s) + Len(t) /\ Len(s) \in Nat /\ Len(t) \in Nat
  BY DEF Lacks
<1>2. \A i \in 1..Len(r) : r[i] = IF i <= Len(s) THEN s[i] ELSE t[i - Len(s)]
  BY <1>1
<1> HIDE DEF r
<1>3. \A i \in 1..Len(r) : IF i <= Len(s) THEN i \in 1..Len(s) ELSE i - Len(s) \in 1..Len(t)
  BY <1>1
<1>4. Lacks(r, K)
  BY <1>1, <1>2, <1>3 DEF Lacks
<1> QED BY <1>4 DEF r

\* What goes by no attribute's values, and is no part of DESTROY.
LoudKinds == AfterKinds \cup DestroyKinds
Silent(s) == Lacks(s, LoudKinds)

LEMMA SilentOne ==
  /\ Silent(<<>>)
  /\ \A x : x[1] \notin LoudKinds => Silent(<<x>>)
  /\ \A x, y : x[1] \notin LoudKinds /\ y[1] \notin LoudKinds => Silent(<<x, y>>)
BY LacksOne DEF Silent

LEMMA SilentConcat ==
  ASSUME NEW s, Silent(s), NEW t, Silent(t)
  PROVE  Silent(s \o t)
BY LacksConcat DEF Silent

LEMMA SilentKinds ==
  /\ "dec" \notin LoudKinds /\ "decall" \notin LoudKinds /\ "free" \notin LoudKinds
  /\ "ka_end" \notin LoudKinds /\ "slookup" \notin LoudKinds /\ "flookup" \notin LoudKinds
  /\ "k_encap_cleanup" \notin LoudKinds /\ "attr_destroy_trigger" \notin LoudKinds
  /\ "attr_lookup" \notin LoudKinds /\ "values" \notin LoudKinds /\ "vhash_check" \notin LoudKinds
  /\ "unhash" \notin LoudKinds /\ "purge" \notin LoudKinds
  /\ \A x : x \notin LoudKinds => x \notin AfterKinds
  /\ "push" \notin AfterKinds /\ "destroy_attr" \notin AfterKinds /\ "destroy_attrs" \notin AfterKinds
BY DEF LoudKinds, AfterKinds, DestroyKinds, Gathering, TakeDown

LEMMA SilentIf ==
  /\ \A mode, n : Silent(DecIf(mode, n))
  /\ \A b, s, t : Silent(s) /\ Silent(t) => Silent(IF b THEN s ELSE t)
<1>1. ASSUME NEW mode, NEW n PROVE Silent(DecIf(mode, n))
  <2> DEFINE x == <<"dec", n>>
  <2>1. Silent(<<x>>) /\ Silent(<<>>)
    BY SilentOne, SilentKinds
  <2> QED BY <2>1 DEF DecIf
<1> QED BY <1>1

\* Most steps set off nothing else.
Calm == \E s : Silent(s) /\ Then(s)

LEMMA StepCalm ==
  ASSUME \/ Dec \/ DecAll \/ Freed \/ DelSlookup \/ DelFlookup \/ DelRlookup \/ DelAttrhash
         \/ DelFromVhash \/ VhashCheck \/ EncapDestroyHook \/ EncapAttrDestroyHook
         \/ AttrDestroyTrigger \/ DelAttrLookup \/ DelFromAttrhash \/ KaEnd \/ PushValue
  PROVE  Calm \/ (\E what : Fault(what))
<1> USE SilentOne, SilentKinds
<1>1. CASE DecAll
  BY <1>1 DEF DecAll, Calm
<1>2. CASE DelSlookup
  BY <1>2 DEF DelSlookup, Calm
<1>3. CASE DelFlookup
  BY <1>3, SilentIf DEF DelFlookup, Calm
<1>4. CASE DelRlookup
  BY <1>4 DEF DelRlookup, Calm
<1>5. CASE DelAttrhash
  BY <1>5, SilentIf DEF DelAttrhash, Calm
<1>6. CASE DelFromVhash
  BY <1>6, SilentConcat, SilentIf DEF DelFromVhash, Calm
<1>7. CASE VhashCheck
  BY <1>7 DEF VhashCheck, Calm
<1>8. CASE EncapDestroyHook
  BY <1>8 DEF EncapDestroyHook, Calm
<1>9. CASE EncapAttrDestroyHook
  BY <1>9, SilentConcat, SilentIf DEF EncapAttrDestroyHook, Calm
<1>10. CASE AttrDestroyTrigger
  BY <1>10, SilentConcat, SilentIf DEF AttrDestroyTrigger, Calm
<1>11. CASE DelAttrLookup
  BY <1>11 DEF DelAttrLookup, Calm
<1>12. CASE DelFromAttrhash
  BY <1>12, SilentIf DEF DelFromAttrhash, Calm
<1>13. CASE Dec
  BY <1>13 DEF Dec, Die, Calm
<1>14. CASE Freed
  BY <1>14 DEF Freed, Calm
<1>15. CASE KaEnd
  BY <1>15 DEF KaEnd, Die, Calm
<1>16. CASE PushValue
  BY <1>16 DEF PushValue, Died, Calm
<1> QED BY <1>1, <1>2, <1>3, <1>4, <1>5, <1>6, <1>7, <1>8, <1>9, <1>10, <1>11, <1>12, <1>13, <1>14, <1>15, <1>16

\* What is set off stands before what waits.
LEMMA AheadThen ==
  ASSUME Shape, todo # <<>>, NEW a, NEW v, Ahead(todo, After(a, v), Taking(a, v)),
         NEW s, Len(s) \in Nat, Then(s), Ahead(s, After(a, v), Taking(a, v)),
         Top \in Taking(a, v) => \E i \in 1..Len(s) : s[i] \in Taking(a, v)
  PROVE  Ahead(todo', After(a, v), Taking(a, v))
<1>1. todo \in Seq(Task) /\ Len(Tail(todo)) \in Nat
  <2>1. todo \in Seq(Task) /\ Tail(todo) \in Seq(Task)
    BY TopIs DEF Shape, TodoShape
  <2> QED BY <2>1
<1>2. Top \in Taking(a, v) \/ Ahead(Tail(todo), After(a, v), Taking(a, v))
  BY <1>1, AheadSplit DEF Top
<1> QED BY <1>1, <1>2, AheadConcat DEF Then

LEMMA TopNotAfter ==
  ASSUME Shape, todo # <<>>, NEW a, NEW v, Ahead(todo, After(a, v), Taking(a, v))
  PROVE  Top \in Task /\ Top \notin After(a, v)
<1>1. todo \in Seq(Task)
  BY DEF Shape, TodoShape
<1> QED BY <1>1, AheadSplit, TopIs DEF Top, Shape

LEMMA SilentAhead ==
  ASSUME NEW s, Silent(s), NEW a, NEW v
  PROVE  Len(s) \in Nat /\ Ahead(s, After(a, v), Taking(a, v))
<1>1. \A i \in 1..Len(s) : s[i] \notin After(a, v)
  BY AfterIs, SilentKinds DEF Silent, Lacks
<1> QED BY <1>1 DEF Silent, Lacks, Ahead

LEMMA CalmAhead ==
  ASSUME Shape, todo # <<>>, NEW a \in Attr, NEW v \in Object, Ahead(todo, After(a, v), Taking(a, v)),
         Calm, Top \notin Taking(a, v)
  PROVE  Ahead(todo', After(a, v), Taking(a, v))
<1>1. PICK s : Silent(s) /\ Then(s)
  BY DEF Calm
<1> QED BY <1>1, SilentAhead, AheadThen

\* The two tasks that take a value and an attribute apart stand in the right order.
LEMMA PairAhead ==
  ASSUME NEW a \in Attr, NEW v \in Object, NEW b, NEW u
  PROVE  LET s == <<<<"unhash", b, u>>, <<"unvhash", b, u>>>>
         IN  Len(s) = 2 /\ Ahead(s, After(a, v), Taking(a, v))
             /\ (b = a /\ u = v => s[1] \in Taking(a, v))
<1> DEFINE x == <<"unhash", b, u>>
           y == <<"unvhash", b, u>>
           s == <<x, y>>
<1>1. Len(s) = 2 /\ s[1] = x /\ s[2] = y
  OBVIOUS
<1>2. x \notin After(a, v)
  BY AfterIs, SilentKinds
<1>3. y \in After(a, v) => b = a /\ u = v
  <2>1. y[1] = "unvhash"
    OBVIOUS
  <2>2. y \in {<<"unvhash", a, v>>, <<"rlookup", v>>, <<"purge_end", v>>} => b = a /\ u = v
    OBVIOUS
  <2> HIDE DEF y
  <2> QED BY <2>1, <2>2, AfterIs
<1>4. b = a /\ u = v => x \in Taking(a, v)
  BY OtherTasks DEF Taking
<1> HIDE DEF x, y, s
<1>5. Ahead(s, After(a, v), Taking(a, v))
  <2> SUFFICES ASSUME NEW p \in 1..Len(s), s[p] \in After(a, v)
               PROVE  \E r \in 1..(p - 1) : s[r] \in Taking(a, v)
    BY DEF Ahead
  <2>1. p = 2 /\ s[1] \in Taking(a, v)
    BY <1>1, <1>2, <1>3, <1>4
  <2> QED BY <2>1
<1> QED BY <1>1, <1>4, <1>5 DEF s, x, y

\* One task that does not go by it.
LEMMA OneAhead ==
  ASSUME NEW U, NEW W, NEW x, x \notin U
  PROVE  Len(<<x>>) = 1 /\ Ahead(<<x>>, U, W)
<1>1. Clear(<<x>>, U)
  BY ClearOne
<1> QED BY <1>1, ClearAhead

\* A pair, what may be set off between, and what goes on.
LEMMA AheadMore ==
  ASSUME NEW U, NEW W, NEW s, Len(s) \in Nat, Ahead(s, U, W), NEW t, Len(t) \in Nat, Ahead(t, U, W)
  PROVE  Len(s \o t) \in Nat /\ Ahead(s \o t, U, W)
         /\ ((\E i \in 1..Len(s) : s[i] \in W) \/ (\E i \in 1..Len(t) : t[i] \in W) =>
              \E i \in 1..Len(s \o t) : (s \o t)[i] \in W)
<1>1. Ahead(s \o t, U, W)
  BY AheadConcat
<1>2. Len(s \o t) = Len(s) + Len(t)
  OBVIOUS
<1>3. ASSUME NEW i \in 1..Len(s), s[i] \in W PROVE \E j \in 1..Len(s \o t) : (s \o t)[j] \in W
  <2>1. i \in 1..Len(s \o t) /\ (s \o t)[i] = s[i]
    BY <1>2
  <2> QED BY <1>3, <2>1
<1>4. ASSUME NEW i \in 1..Len(t), t[i] \in W PROVE \E j \in 1..Len(s \o t) : (s \o t)[j] \in W
  <2>1. i + Len(s) \in 1..Len(s \o t) /\ (s \o t)[i + Len(s)] = t[i]
    BY <1>2
  <2> QED BY <1>4, <2>1
<1> QED BY <1>1, <1>2, <1>3, <1>4

LEMMA OnlyOwn ==
  ASSUME NEW a, NEW v, NEW kind, kind \in {"rlookup", "purge_end"}, NEW m, m # v
  PROVE  <<kind, m>> \notin After(a, v)
<1> DEFINE y == <<kind, m>>
<1>1. y[1] = kind /\ y[2] = m
  OBVIOUS
<1>2. y # <<"unvhash", a, v>> /\ y # <<"rlookup", v>> /\ y # <<"purge_end", v>>
  BY <1>1
<1>3. kind # "foreach" /\ kind # "destroy_keys" /\ kind # "destroy_values"
  OBVIOUS
<1> HIDE DEF y
<1>4. y \notin After(a, v)
  BY <1>1, <1>2, <1>3, AfterIs
<1> QED BY <1>4 DEF y

LEMMA AheadRunAction ==
  ASSUME Shape, ObjectsCounted, IndexCounted, LifeCounted, WeakLive, NEW a \in Attr, NEW v \in Object,
         attrhash[a][v] \in Ref, Ahead(todo, After(a, v), Taking(a, v)), RunAction
  PROVE  Ahead(todo', After(a, v), Taking(a, v))
<1> DEFINE m == Top[2]
           x == Head(acts[m])
<1>1. /\ m \in Node /\ Top = <<"free", m>> /\ x \in ToSet(acts[m])
  BY FewerRunAction
<1>2. life[m] = "dying"
  <2>1. todo # <<>>
    BY DEF RunAction, Doing
  <2>2. Top \in ToSet(todo)
    BY <2>1, TopIs DEF Shape
  <2> QED BY <1>1, <2>2 DEF Shape, TodoShape, FreeOpen
<1>3. m # v
  <2>1. life[v] = "live"
    BY FoundLive
  <2> QED BY <1>2, <2>1
<1>4. x \in ActionsOf(m)
  BY <1>1 DEF Shape, DataShape, ActionsTyped
<1>5. x \notin After(a, v)
  <2>1. x[1] \in {"unvhash", "rlookup", "purge_end", "foreach", "destroy_keys", "destroy_values"} =>
          x = <<"rlookup", m>>
    BY <1>4 DEF ActionsOf
  <2>2. x \in After(a, v) => x = <<"rlookup", m>>
    BY <2>1, AfterIs DEF AfterKinds
  <2>3. <<"rlookup", m>> \notin After(a, v)
    BY <1>3, OnlyOwn
  <2> QED BY <2>2, <2>3
<1>6. todo' = <<x>> \o todo /\ Len(todo) \in Nat
  BY DEF RunAction, Shape, TodoShape
<1> HIDE DEF x, m
<1>7. Len(<<x>>) = 1 /\ Ahead(<<x>>, After(a, v), Taking(a, v))
  BY <1>5, OneAhead
<1> QED BY <1>6, <1>7, AheadConcat

LEMMA AheadKEncapCleanup ==
  ASSUME Shape, NEW a \in Attr, NEW v \in Object,
         Ahead(todo, After(a, v), Taking(a, v)), KEncapCleanup
  PROVE  Ahead(todo', After(a, v), Taking(a, v))
<1> DEFINE k == Top[2]
           d == DecIf(obj[k], TheObject(k))
           U == After(a, v)
           W == Taking(a, v)
<1>1. k \in Key /\ k # a /\ todo # <<>> /\ Top[1] = "k_encap_cleanup"
  BY TopIs, ActionIs, Apartness DEF KEncapCleanup, Doing, Shape, TaskIs, ActionKinds
<1>2. CASE \E what : Fault(what)
  BY <1>2 DEF Fault
<1>3. CASE Then(FromTable(k) \o d)
  <2>1. Silent(d)
    BY SilentIf
  <2>2. Clear(FromTable(k), U)
    <3> DEFINE x == <<"unvhash", k, flookup[k].value>>
               y == <<"slookup", k>>
               z == <<"flookup", k>>
    <3>1. x[1] = "unvhash" /\ y[1] = "slookup" /\ z[1] = "flookup" /\ x # <<"unvhash", a, v>>
          /\ x # <<"rlookup", v>> /\ x # <<"purge_end", v>>
      BY <1>1
    <3>2. FromTable(k) \in {<<>>, <<y, z>>, <<x, y, z>>}
      BY DEF FromTable
    <3> HIDE DEF x, y, z
    <3>3. x \notin U /\ y \notin U /\ z \notin U
      BY <3>1, AfterIs, SilentKinds
    <3> QED BY <3>2, <3>3, ClearOne
  <2>3. Len(FromTable(k)) \in Nat /\ Ahead(FromTable(k), U, W)
    BY <2>2, ClearAhead
  <2>4. Len(d) \in Nat /\ Ahead(d, U, W)
    BY <2>1, SilentAhead
  <2>5. Len(FromTable(k) \o d) \in Nat /\ Ahead(FromTable(k) \o d, U, W)
    BY <2>3, <2>4, AheadMore
  <2>6. Top \notin W
    BY <1>1, AfterIs
  <2> HIDE DEF d, U, W
  <2> DEFINE s == FromTable(k) \o d
  <2> HIDE DEF s
  <2>7. Then(s) /\ Len(s) \in Nat /\ Ahead(s, U, W)
    BY <1>3, <2>5 DEF s
  <2> QED BY <1>1, <2>6, <2>7, AheadThen DEF U, W
<1> QED BY <1>2, <1>3 DEF KEncapCleanup

LEMMA AheadPurgeEnd ==
  ASSUME Shape, NEW a \in Attr, NEW v \in Object,
         Ahead(todo, After(a, v), Taking(a, v)), PurgeEnd
  PROVE  Ahead(todo', After(a, v), Taking(a, v))
<1> DEFINE u == Top[2]
           x == <<"rlookup", u>>
           y == <<"dec", u>>
<1>1. todo # <<>> /\ Top[1] = "purge_end" /\ Top = <<"purge_end", u>> /\ Top \in Task
  BY TopIs DEF PurgeEnd, Doing, Shape, TaskIs
<1>2. u # v
  <2>1. Top \notin After(a, v)
    BY <1>1, TopNotAfter
  <2> QED BY <1>1, <2>1 DEF After
<1>3. /\ x[1] = "rlookup" /\ y[1] = "dec"
      /\ x \notin {<<"unvhash", a, v>>, <<"rlookup", v>>, <<"purge_end", v>>}
  BY <1>2
<1>4. Then(<<x, y>>)
  BY DEF PurgeEnd
<1> HIDE DEF x, y
<1>5. x \notin After(a, v) /\ y \notin After(a, v)
  BY <1>3, AfterIs, SilentKinds
<1>6. Clear(<<x, y>>, After(a, v))
  BY <1>5, ClearOne
<1>7. Top \notin Taking(a, v)
  BY <1>1, AfterIs
<1> QED BY <1>1, <1>4, <1>6, <1>7, ClearAhead, AheadThen

LEMMA AheadEachValue ==
  ASSUME Shape, NEW a \in Attr, NEW v \in Object,
         Ahead(todo, After(a, v), Taking(a, v)), EachValue
  PROVE  Ahead(todo', After(a, v), Taking(a, v))
<1> DEFINE U == After(a, v)
           W == Taking(a, v)
<1>1. todo # <<>> /\ Top[1] = "values" /\ Top \notin W /\ Len(todo) \in Nat
  <2>1. todo # <<>> /\ Top[1] = "values"
    BY DEF EachValue, Doing
  <2> QED BY <2>1, AfterIs DEF Shape, TodoShape
<1>2. CASE \E what : Fault(what)
  BY <1>2 DEF Fault
<1>3. CASE Then(<<>>)
  BY <1>1, <1>3, CalmAhead, SilentOne DEF Calm
<1>4. ASSUME NEW b, NEW u,
             todo' = <<<<"unhash", b, u>>, <<"unvhash", b, u>>>>
                         \o (IF u \in kept THEN <<>> ELSE <<<<"ka_end", u>>>>) \o todo
      PROVE  Ahead(todo', U, W)
  <2> DEFINE p == <<<<"unhash", b, u>>, <<"unvhash", b, u>>>>
             z == <<"ka_end", u>>
             e == IF u \in kept THEN <<>> ELSE <<z>>
  <2>1. Len(p) \in Nat /\ Ahead(p, U, W)
    BY PairAhead
  <2>2. Silent(e)
    BY SilentOne, SilentKinds, SilentIf
  <2>3. Len(e) \in Nat /\ Ahead(e, U, W)
    BY <2>2, SilentAhead
  <2>4. todo' = (p \o e) \o todo
    BY <1>4
  <2> HIDE DEF p, e, U, W
  <2>5. Len(p \o e) \in Nat /\ Ahead(p \o e, U, W)
    BY <2>1, <2>3, AheadMore
  <2>6. Ahead(todo, U, W)
    BY DEF U, W
  <2> DEFINE s == p \o e
  <2> HIDE DEF s
  <2>7. Len(s) \in Nat /\ Ahead(s, U, W) /\ todo' = s \o todo
    BY <2>4, <2>5 DEF s
  <2> QED BY <1>1, <2>6, <2>7, AheadConcat
<1> HIDE DEF U, W
<1> QED BY <1>2, <1>3, <1>4 DEF EachValue, U, W

\* An order goes through the whole set.
LEMMA OrderWhole ==
  ASSUME NEW S, IsFiniteSet(S), NEW s \in SetToSeqs(S)
  PROVE  ToSet(s) = S
<1> DEFINE n == Cardinality(S)
<1>1. n \in Nat /\ IsFiniteSet(1..n) /\ Cardinality(1..n) = n
  BY FS_CardinalityType, FS_Interval
<1>2. s \in [1..n -> S] /\ \A i, j \in 1..n : i # j => s[i] # s[j]
  BY DEF SetToSeqs
<1>3. s \in Injection(1..n, S)
  BY <1>2 DEF Injection, IsInjective
<1>4. s \in Surjection(1..n, S)
  BY <1>1, <1>3, FS_Injection
<1>5. \A x \in S : \E i \in 1..n : s[i] = x
  BY <1>4 DEF Surjection
<1>6. s \in Seq(S) /\ Len(s) = n
  BY OrderProps
<1>7. ToSet(s) = {s[i] : i \in 1..n}
  BY <1>2, <1>6 DEF ToSet
<1> QED BY <1>2, <1>5, <1>7

LEMMA AheadPurgeBegin ==
  ASSUME Shape, NEW a \in Attr, NEW v \in Object, a \in Under(v),
         Ahead(todo, After(a, v), Taking(a, v)), PurgeBegin
  PROVE  Ahead(todo', After(a, v), Taking(a, v))
<1> DEFINE u == Top[2]
<1>1. todo # <<>> /\ Top[1] = "purge" /\ u \in Object
  BY TopIs DEF PurgeBegin, Doing, Shape, TaskIs
<1>2. PICK s \in SetToSeqs(Under(u)) : Then(<<<<"foreach", u, s>>>>)
  BY DEF PurgeBegin
<1> DEFINE x == <<"foreach", u, s>>
<1>3. ToSet(s) = Under(u)
  <2>1. Under(u) \subseteq Index
    BY <1>1, UnderIs DEF Shape, DataShape
  <2>2. IsFiniteSet(Under(u))
    BY <2>1, Finite, FS_Subset
  <2> QED BY <1>2, <2>2, OrderWhole
<1>4. x \notin After(a, v)
  <2>1. x[1] = "foreach" /\ x[2] = u /\ x[3] = s
    OBVIOUS
  <2>2. x \notin {<<"unvhash", a, v>>, <<"rlookup", v>>, <<"purge_end", v>>}
    OBVIOUS
  <2> HIDE DEF x
  <2> QED BY <1>3, <2>1, <2>2 DEF After
<1>5. Then(<<x>>)
  BY <1>2
<1> HIDE DEF x
<1>6. Len(<<x>>) = 1 /\ Ahead(<<x>>, After(a, v), Taking(a, v))
  BY <1>4, OneAhead
<1>7. Top \notin Taking(a, v)
  BY <1>1, AfterIs
<1> QED BY <1>1, <1>5, <1>6, <1>7, AheadThen

LEMMA AheadForeach ==
  ASSUME Shape, NEW a \in Attr, NEW v \in Object,
         Ahead(todo, After(a, v), Taking(a, v)), Foreach
  PROVE  Ahead(todo', After(a, v), Taking(a, v))
<1> DEFINE u == Top[2]
           rest == Top[3]
           last == IF iter.gone THEN <<<<"dec", iter.cur>>>> ELSE <<>>
           U == After(a, v)
           W == Taking(a, v)
<1>1. /\ todo # <<>> /\ Top[1] = "foreach" /\ u \in Object /\ rest \in Seq(Index)
      /\ Top = <<"foreach", u, rest>> /\ Top \in Task
  BY TopIs DEF Foreach, Doing, Shape, TaskIs
<1>2. u = v => a \in ToSet(rest)
  <2>1. Top \notin After(a, v)
    BY <1>1, TopNotAfter
  <2> QED BY <1>1, <2>1 DEF After
<1>3. Top \notin W
  BY <1>1, AfterIs
<1>4. Len(last) \in Nat /\ Ahead(last, U, W)
  <2>1. Silent(last)
    BY SilentOne, SilentKinds, SilentIf
  <2> QED BY <2>1, SilentAhead
<1>5. CASE \E what : Fault(what)
  BY <1>5 DEF Fault
<1>6. CASE rest = <<>> /\ Then(last \o <<<<"purge_end", u>>>>)
  <2> DEFINE x == <<"purge_end", u>>
  <2>1. u # v
    BY <1>2, <1>6 DEF ToSet
  <2>2. x \notin U
    <3>1. x[1] = "purge_end" /\ x \notin {<<"unvhash", a, v>>, <<"rlookup", v>>, <<"purge_end", v>>}
      BY <2>1
    <3> HIDE DEF x
    <3> QED BY <3>1 DEF After
  <2>3. Then(last \o <<x>>)
    BY <1>6
  <2> HIDE DEF x, last, U, W
  <2>4. Len(<<x>>) = 1 /\ Ahead(<<x>>, U, W)
    BY <2>2, OneAhead
  <2> DEFINE s == last \o <<x>>
  <2>5. Len(s) \in Nat /\ Ahead(s, U, W)
    BY <1>4, <2>4, AheadMore
  <2>6. Then(s)
    BY <2>3
  <2> HIDE DEF s
  <2> QED BY <1>1, <1>3, <2>5, <2>6, AheadThen DEF U, W
<1>7. CASE /\ rest # <<>>
           /\ Then(last
                   \o (IF Head(rest) \in Attr
                         THEN <<<<"unhash", Head(rest), u>>, <<"unvhash", Head(rest), u>>>>
                         ELSE <<>>)
                   \o <<<<"foreach", u, Tail(rest)>>>>)
  <2> DEFINE i == Head(rest)
             p == <<<<"unhash", i, u>>, <<"unvhash", i, u>>>>
             e == IF i \in Attr THEN p ELSE <<>>
             x == <<"foreach", u, Tail(rest)>>
  <2>1. ToSet(rest) = {i} \cup ToSet(Tail(rest))
    BY <1>1, <1>7, Split
  <2>2. x \in U => u = v /\ a \notin ToSet(Tail(rest))
    <3>1. x[1] = "foreach" /\ x[2] = u /\ x[3] = Tail(rest)
      OBVIOUS
    <3>2. x \notin {<<"unvhash", a, v>>, <<"rlookup", v>>, <<"purge_end", v>>}
      OBVIOUS
    <3> HIDE DEF x
    <3> QED BY <3>1, <3>2 DEF After
  <2>3. Len(p) = 2 /\ Ahead(p, U, W) /\ (i = a /\ u = v => p[1] \in W)
    BY PairAhead
  <2>4. Len(<<>>) = 0 /\ Ahead(<<>>, U, W)
    BY DEF Ahead
  <2>5. Len(e) \in Nat /\ Ahead(e, U, W)
    <3> HIDE DEF p, U, W
    <3> QED BY <2>3, <2>4
  <2>6. x \in U => \E j \in 1..Len(e) : e[j] \in W
    <3>1. ASSUME x \in U PROVE i = a /\ u = v
      BY <1>2, <2>1, <2>2, <3>1
    <3>2. ASSUME i = a, u = v PROVE e = p /\ p[1] \in W /\ 1 \in 1..Len(p)
      <4> HIDE DEF p, W
      <4> QED BY <2>3, <3>2
    <3> HIDE DEF i, p, e, x, U, W
    <3>3. ASSUME i = a, u = v PROVE 1 \in 1..Len(e) /\ e[1] \in W
      BY <3>2, <3>3
    <3> QED BY <3>1, <3>3
  <2>7. Then((last \o e) \o <<x>>)
    BY <1>7
  <2> HIDE DEF i, p, e, x, U, W, last
  <2> DEFINE d == last \o e
  <2>8. /\ Len(d) \in Nat /\ Ahead(d, U, W)
        /\ x \in U => \E j \in 1..Len(d) : d[j] \in W
    BY <1>4, <2>5, <2>6, AheadMore
  <2> HIDE DEF d
  <2> DEFINE s == d \o <<x>>
  <2>9. Len(s) \in Nat /\ Ahead(s, U, W)
    <3>1. Len(<<x>>) = 1 /\ <<x>>[1] = x
      OBVIOUS
    <3>2. Len(s) = Len(d) + 1
      BY <2>8, <3>1
    <3>3. CASE x \notin U
      <4>1. Ahead(<<x>>, U, W)
        BY <3>3, OneAhead
      <4> QED BY <2>8, <3>1, <3>2, <4>1, AheadConcat
    <3>4. CASE \E j \in 1..Len(d) : d[j] \in W
      BY <2>8, <3>1, <3>2, <3>4, AheadConcat
    <3> QED BY <2>8, <3>3, <3>4
  <2>10. Then(s)
    BY <2>7 DEF d
  <2> HIDE DEF s
  <2> QED BY <1>1, <1>3, <2>9, <2>10, AheadThen DEF U, W
<1> QED BY <1>5, <1>6, <1>7 DEF Foreach

LEMMA AheadDestroyAttrs ==
  ASSUME Shape, NEW a \in Attr, NEW v \in Object, attrhash[a][v] # "none",
         Ahead(todo, After(a, v), Taking(a, v)), DestroyAttrs
  PROVE  Ahead(todo', After(a, v), Taking(a, v))
<1> DEFINE X == Top[2]
<1>1. todo # <<>> /\ Top[1] = "destroy_attrs" /\ X \in SUBSET Attr
  BY TopIs DEF DestroyAttrs, Doing, Shape, TaskIs
<1>2. Top \in Taking(a, v) => a \in X
  BY <1>1, AfterIs
<1>3. CASE \E what : Fault(what)
  BY <1>3 DEF Fault
<1>4. CASE X = {} /\ Then(<<>>)
  BY <1>1, <1>2, <1>4, CalmAhead, SilentOne DEF Calm
<1>5. ASSUME NEW b \in X,
             Then(<<<<"destroy_attr", b, {w \in Object : attrhash[b][w] # "none"}>>,
                    <<"destroy_attrs", X \ {b}>>>>)
      PROVE  Ahead(todo', After(a, v), Taking(a, v))
  <2> DEFINE V == {w \in Object : attrhash[b][w] # "none"}
             x == <<"destroy_attr", b, V>>
             y == <<"destroy_attrs", X \ {b}>>
             s == <<x, y>>
  <2>1. x \in Task /\ y \in Task
    <3>1. b \in Attr /\ V \in SUBSET Object /\ X \ {b} \in SUBSET Attr
      BY <1>1
    <3> HIDE DEF V, X
    <3> QED BY <3>1, PlainTasks DEF Plain
  <2>2. a \in X /\ b = a => x \in Taking(a, v)
    <3>1. x[1] = "destroy_attr" /\ x[2] = b /\ x[3] = V
      OBVIOUS
    <3>2. b = a => v \in V
      OBVIOUS
    <3> HIDE DEF x, V
    <3> QED BY <2>1, <3>1, <3>2 DEF Taking
  <2>3. a \in X /\ b # a => y \in Taking(a, v)
    <3>1. y[1] = "destroy_attrs" /\ y[2] = X \ {b}
      OBVIOUS
    <3> HIDE DEF y
    <3> QED BY <2>1, <3>1 DEF Taking
  <2>4. Clear(s, After(a, v))
    <3>1. x[1] = "destroy_attr" /\ y[1] = "destroy_attrs"
      OBVIOUS
    <3> HIDE DEF x, y
    <3>2. x \notin After(a, v) /\ y \notin After(a, v)
      BY <3>1, AfterIs, SilentKinds
    <3> QED BY <3>2, ClearOne
  <2>5. Len(s) = 2 /\ s[1] = x /\ s[2] = y
    OBVIOUS
  <2>6. Then(s)
    BY <1>5
  <2> HIDE DEF x, y, s
  <2>7. Len(s) \in Nat /\ Ahead(s, After(a, v), Taking(a, v))
    BY <2>4, ClearAhead
  <2>8. Top \in Taking(a, v) => \E i \in 1..Len(s) : s[i] \in Taking(a, v)
    BY <1>2, <2>2, <2>3, <2>5
  <2> QED BY <1>1, <2>6, <2>7, <2>8, AheadThen
<1> QED BY <1>3, <1>4, <1>5 DEF DestroyAttrs, Died

LEMMA AheadDestroyAttr ==
  ASSUME Shape, NEW a \in Attr, NEW v \in Object,
         Ahead(todo, After(a, v), Taking(a, v)), DestroyAttr
  PROVE  Ahead(todo', After(a, v), Taking(a, v))
<1> DEFINE b == Top[2]
           V == Top[3]
           U == After(a, v)
           W == Taking(a, v)
<1>1. todo # <<>> /\ Top[1] = "destroy_attr" /\ b \in Attr /\ V \in SUBSET Object
  BY TopIs DEF DestroyAttr, Doing, Shape, TaskIs
<1>2. Top \in W => b = a /\ v \in V
  BY <1>1, AfterIs
<1>3. CASE \E what : Fault(what)
  BY <1>3 DEF Fault
<1>4. CASE V = {} /\ Then(<<>>)
  BY <1>1, <1>2, <1>4, CalmAhead, SilentOne DEF Calm
<1>5. ASSUME NEW u \in V,
             Then(<<<<"unhash", b, u>>, <<"unvhash", b, u>>, <<"push", u>>>>
                           \o DecIf(attrhash[b][u], u) \o <<<<"destroy_attr", b, V \ {u}>>>>)
      PROVE  Ahead(todo', U, W)
  <2> DEFINE x == <<"unhash", b, u>>
             y == <<"unvhash", b, u>>
             z == <<"push", u>>
             p == <<x, y>>
             d == DecIf(attrhash[b][u], u)
             l == <<"destroy_attr", b, V \ {u}>>
  <2>1. Len(p) = 2 /\ Ahead(p, U, W) /\ (b = a /\ u = v => p[1] \in W)
    BY PairAhead
  <2>2. Silent(d)
    BY SilentIf
  <2>17. Clear(<<z>>, U) /\ Clear(<<l>>, U)
    <3>1. z[1] = "push" /\ l[1] = "destroy_attr"
      OBVIOUS
    <3> HIDE DEF z, l
    <3>2. z \notin U /\ l \notin U
      BY <3>1, AfterIs, SilentKinds
    <3> QED BY <3>2, ClearOne
  <2>3. /\ Len(<<z>>) \in Nat /\ Ahead(<<z>>, U, W)
        /\ Len(d) \in Nat /\ Ahead(d, U, W)
        /\ Len(<<l>>) \in Nat /\ Ahead(<<l>>, U, W)
    BY <2>2, <2>17, SilentAhead, ClearAhead
  <2>4. b = a /\ v \in V /\ u # v => l \in W
    <3>1. l \in Task
      <4>1. V \ {u} \in SUBSET Object
        BY <1>1
      <4> HIDE DEF V, b
      <4> QED BY <1>1, <4>1, PlainTasks DEF Plain
    <3>2. l[1] = "destroy_attr" /\ l[2] = b /\ l[3] = V \ {u}
      OBVIOUS
    <3> HIDE DEF l
    <3> QED BY <3>1, <3>2 DEF Taking
  <2>5. <<x, y, z>> = p \o <<z>>
    OBVIOUS
  <2>6. Then(((p \o <<z>>) \o d) \o <<l>>)
    BY <1>5, <2>5
  <2>7. Len(<<l>>) = 1 /\ <<l>>[1] = l
    OBVIOUS
  <2> HIDE DEF x, y, z, p, d, l, U, W, b, V
  <2>14. b = a /\ u = v => \E i \in 1..Len(p) : p[i] \in W
    BY <2>1
  <2>15. Len(p) \in Nat /\ Ahead(p, U, W)
    BY <2>1
  <2> DEFINE zz == <<z>>
             f == p \o zz
  <2>16. Len(zz) \in Nat /\ Ahead(zz, U, W)
    BY <2>3
  <2> HIDE DEF zz
  <2>8. Len(f) \in Nat /\ Ahead(f, U, W)
        /\ (b = a /\ u = v => \E i \in 1..Len(f) : f[i] \in W)
    BY <2>14, <2>15, <2>16, AheadMore
  <2> HIDE DEF f
  <2> DEFINE g == f \o d
  <2>9. Len(g) \in Nat /\ Ahead(g, U, W)
        /\ (b = a /\ u = v => \E i \in 1..Len(g) : g[i] \in W)
    BY <2>3, <2>8, AheadMore
  <2> HIDE DEF g
  <2> DEFINE s == g \o <<l>>
  <2>10. b = a /\ v \in V /\ u # v => \E i \in 1..Len(<<l>>) : <<l>>[i] \in W
    BY <2>4, <2>7
  <2>11. Len(s) \in Nat /\ Ahead(s, U, W)
         /\ (b = a /\ v \in V => \E i \in 1..Len(s) : s[i] \in W)
    BY <2>3, <2>9, <2>10, AheadMore
  <2>12. Then(s)
    BY <2>6 DEF f, g, zz
  <2> HIDE DEF s
  <2>13. Top \in W => \E i \in 1..Len(s) : s[i] \in W
    BY <1>2, <2>11
  <2> QED BY <1>1, <2>11, <2>12, <2>13, AheadThen DEF U, W
<1> QED BY <1>3, <1>4, <1>5 DEF DestroyAttr, Died

LEMMA AheadDelFromAttrhash ==
  ASSUME Shape, NEW a \in Attr, NEW v \in Object, attrhash'[a][v] # "none",
         Ahead(todo, After(a, v), Taking(a, v)), DelFromAttrhash
  PROVE  Ahead(todo', After(a, v), Taking(a, v))
<1>1. todo # <<>> /\ Top[1] = "unhash" /\ Top = <<"unhash", Top[2], Top[3]>>
  BY TopIs DEF DelFromAttrhash, Doing, Shape, TaskIs
<1>2. attrhash' = [attrhash EXCEPT ![Top[2]][Top[3]] = "none"]
  BY DEF DelFromAttrhash
<1>3. ~ (Top[2] = a /\ Top[3] = v)
  BY <1>2 DEF Shape, DataShape, Typed
<1>4. Top \notin Taking(a, v)
  BY <1>1, <1>3, AfterIs
<1>5. Calm
  BY SilentIf DEF Calm, DelFromAttrhash
<1> QED BY <1>1, <1>4, <1>5, CalmAhead

\* What goes by that the attribute is out still comes after what takes it out.
LEMMA AheadStep ==
  ASSUME Shape, ObjectsCounted, IndexCounted, LifeCounted, WeakLive, NEW a \in Attr, NEW v \in Object,
         attrhash[a][v] \in Ref, attrhash'[a][v] \in Ref, a \in Under(v),
         Ahead(todo, After(a, v), Taking(a, v)), Step
  PROVE  Ahead(todo', After(a, v), Taking(a, v))
<1>1. CASE \/ Dec \/ DecAll \/ Freed \/ DelSlookup \/ DelFlookup \/ DelRlookup \/ DelAttrhash
           \/ DelFromVhash \/ VhashCheck \/ EncapDestroyHook \/ EncapAttrDestroyHook
           \/ AttrDestroyTrigger \/ DelAttrLookup \/ KaEnd \/ PushValue
  <2>1. todo # <<>> /\ Top[1] \in {"dec", "decall", "free", "slookup", "flookup", "rlookup",
             "attrhash", "unvhash", "vhash_check", "encap_destroy_hook", "encap_attr_destroy_hook",
             "attr_destroy_trigger", "attr_lookup", "ka_end", "push"}
    BY <1>1 DEF Dec, DecAll, Freed, DelSlookup, DelFlookup, DelRlookup, DelAttrhash, DelFromVhash,
         VhashCheck, EncapDestroyHook, EncapAttrDestroyHook, AttrDestroyTrigger, DelAttrLookup, KaEnd,
         PushValue, Doing
  <2>2. Top \notin Taking(a, v)
    BY <2>1, AfterIs
  <2>3. CASE \E what : Fault(what)
    BY <2>3 DEF Fault
  <2>4. CASE Calm
    BY <2>1, <2>2, <2>4, CalmAhead
  <2> QED BY <1>1, <2>3, <2>4, StepCalm
<1>2. CASE RunAction
  BY <1>2, AheadRunAction
<1>3. CASE KEncapCleanup
  BY <1>3, AheadKEncapCleanup
<1>4. CASE EachValue
  BY <1>4, AheadEachValue
<1>5. CASE DelFromAttrhash
  BY <1>5, AheadDelFromAttrhash DEF Ref
<1>6. CASE PurgeBegin
  BY <1>6, AheadPurgeBegin
<1>7. CASE Foreach
  BY <1>7, AheadForeach
<1>8. CASE PurgeEnd
  BY <1>8, AheadPurgeEnd
<1>9. CASE DestroyAttrs
  BY <1>9, AheadDestroyAttrs DEF Ref
<1>10. CASE DestroyAttr
  BY <1>10, AheadDestroyAttr
<1>11. CASE DestroyKeys \/ DestroyValues
  <2>1. todo # <<>> /\ Top[1] \in {"destroy_keys", "destroy_values"}
    BY <1>11 DEF DestroyKeys, DestroyValues, Doing
  <2>2. Top \in Task /\ Top \notin After(a, v)
    BY <2>1, TopNotAfter
  <2> QED BY <2>1, <2>2 DEF After
<1> QED BY <1>1, <1>2, <1>3, <1>4, <1>5, <1>6, <1>7, <1>8, <1>9, <1>10, <1>11 DEF Step

\* As long as it comes after, the attribute stays under the value.
LEMMA UnderStill ==
  ASSUME Shape, NEW a \in Attr, NEW v \in Object, a \in Under(v),
         Ahead(todo, After(a, v), Taking(a, v)), Step
  PROVE  a \in Under(v)'
<1>1. rlookup \in [Object -> (SUBSET Index) \cup {Null}] /\ rlookup[v] # Null /\ a \in rlookup[v]
  BY DEF Under, Shape, DataShape, Typed
<1>2. todo # <<>> => Top \in Task /\ Top \notin After(a, v) /\ TaskIs(Top)
  BY TopNotAfter, TopIs DEF Shape
<1>3. CASE UNCHANGED rlookup
  BY <1>1, <1>3 DEF Under
<1>4. CASE DelRlookup
  <2>1. Top[1] = "rlookup" /\ todo # <<>> /\ rlookup' = [rlookup EXCEPT ![Top[2]] = Null]
    BY <1>4 DEF DelRlookup, Doing
  <2>2. Top = <<"rlookup", Top[2]>>
    BY <1>2, <2>1, ActionIs, TopIs DEF TaskIs, ActionKinds, Shape
  <2>3. Top[2] # v
    BY <1>2, <2>1, <2>2 DEF After
  <2>4. rlookup'[v] = rlookup[v]
    BY <1>1, <2>1, <2>3
  <2> QED BY <1>1, <2>4 DEF Under
<1>5. CASE DelFromVhash
  <2> DEFINE i == Top[2]
             u == Top[3]
  <2>1. Top[1] = "unvhash" /\ todo # <<>>
    BY <1>5 DEF DelFromVhash, Doing
  <2>2. Top = <<"unvhash", i, u>>
    BY <1>2, <2>1 DEF TaskIs
  <2>3. ~ (i = a /\ u = v)
    BY <1>2, <2>1, <2>2 DEF After
  <2>4. rlookup' = rlookup \/ rlookup' = [rlookup EXCEPT ![u] = @ \ {i}]
    BY <1>5 DEF DelFromVhash
  <2> HIDE DEF i, u
  <2>5. CASE rlookup' = [rlookup EXCEPT ![u] = @ \ {i}]
    <3>1. u # v => rlookup'[v] = rlookup[v]
      BY <1>1, <2>5
    <3>2. u = v => rlookup'[v] = rlookup[v] \ {i}
      BY <1>1, <2>5
    <3>3. u = v => a \in rlookup'[v]
      BY <1>1, <2>3, <3>2
    <3>4. a \in Index
      BY DEF Index
    <3>5. rlookup'[v] # Null
      <4>1. rlookup'[v] \in SUBSET Index
        BY <1>1, <3>1, <3>2
      <4> QED BY <4>1, RefStoreXSAssumption
    <3> QED BY <1>1, <3>1, <3>3, <3>5 DEF Under
  <2> QED BY <1>3, <2>4, <2>5
<1>6. CASE VhashCheck
  <2>1. rlookup' = rlookup \/ (rlookup[Top[2]] = {} /\ rlookup' = [rlookup EXCEPT ![Top[2]] = Null])
    BY <1>6 DEF VhashCheck
  <2>2. rlookup'[v] = rlookup[v]
    BY <1>1, <2>1
  <2> QED BY <1>1, <2>2 DEF Under
<1>7. CASE DestroyValues
  <2>1. todo # <<>> /\ Top[1] = "destroy_values"
    BY <1>7 DEF DestroyValues, Doing
  <2> QED BY <1>2, <2>1 DEF After
<1>8. CASE Dec \/ KaEnd
  BY <1>3, <1>8 DEF Dec, KaEnd, tables, Fault
<1>9. CASE DecAll \/ RunAction \/ Freed \/ DelSlookup \/ DelFlookup \/ DelAttrhash \/ EncapDestroyHook
           \/ KEncapCleanup \/ EncapAttrDestroyHook
  BY <1>3, <1>9 DEF DecAll, RunAction, Freed, DelSlookup, DelFlookup, DelAttrhash, EncapDestroyHook,
     KEncapCleanup, EncapAttrDestroyHook, tables, Fault
<1>10. CASE AttrDestroyTrigger \/ DelAttrLookup \/ EachValue \/ DelFromAttrhash
  BY <1>3, <1>10 DEF AttrDestroyTrigger, DelAttrLookup, EachValue, DelFromAttrhash, tables, Fault
<1>11. CASE PurgeBegin \/ Foreach \/ PurgeEnd \/ DestroyAttrs \/ DestroyAttr \/ PushValue \/ DestroyKeys
  BY <1>3, <1>11 DEF PurgeBegin, Foreach, PurgeEnd, DestroyAttrs, DestroyAttr, PushValue, DestroyKeys,
     tables, Fault, Died
<1> QED BY <1>4, <1>5, <1>6, <1>7, <1>8, <1>9, <1>10, <1>11 DEF Step

LEMMA RefUnderStep ==
  ASSUME Shape, ObjectsCounted, IndexCounted, LifeCounted, WeakLive, RefUnder, Step
  PROVE  RefUnder'
<1> SUFFICES ASSUME NEW a \in Attr, NEW v \in Object, attrhash'[a][v] \in Ref
             PROVE  a \in Under(v)' /\ Ahead(todo', After(a, v), Taking(a, v))
  BY DEF RefUnder
<1>1. attrhash[a][v] \in Ref
  BY StepHashes DEF Fades
<1>2. a \in Under(v) /\ Ahead(todo, After(a, v), Taking(a, v))
  BY <1>1 DEF RefUnder
<1> QED BY <1>1, <1>2, UnderStill, AheadStep

\* An operation begins with all that is to be done.
LEMMA SilentStart ==
  ASSUME todo = <<>>, UNCHANGED <<attrhash, rlookup>>, RefUnder, Silent(todo')
  PROVE  RefUnder'
<1> SUFFICES ASSUME NEW a \in Attr, NEW v \in Object, attrhash'[a][v] \in Ref
             PROVE  a \in Under(v)' /\ Ahead(todo', After(a, v), Taking(a, v))
  BY DEF RefUnder
<1> QED BY SilentAhead DEF RefUnder, Under

LEMMA SilentOrder ==
  ASSUME NEW s, Len(s) \in Nat, NEW y, y[1] \notin LoudKinds
  PROVE  Silent([i \in 1..Len(s) |-> <<"purge", s[i]>>] \o <<y>>)
<1> DEFINE p == [i \in 1..Len(s) |-> <<"purge", s[i]>>]
<1>1. Silent(p)
  <2>1. Len(p) = Len(s) /\ \A i \in 1..Len(p) : p[i] = <<"purge", s[i]>>
    OBVIOUS
  <2>2. \A i : <<"purge", s[i]>>[1] = "purge"
    OBVIOUS
  <2> HIDE DEF p
  <2> QED BY <2>1, <2>2, SilentKinds DEF Silent, Lacks
<1>2. Silent(<<y>>)
  BY SilentOne
<1> HIDE DEF p
<1>3. Silent(p \o <<y>>)
  BY <1>1, <1>2, SilentConcat
<1> QED BY <1>3 DEF p

LEMMA RefUnderPurgeByA ==
  ASSUME RefUnder, NEW a \in Attr, PurgeByA(a)
  PROVE  RefUnder'
<1> DEFINE V == {v \in Object : attrhash[a][v] \in Ref}
           y == <<"decall", V>>
<1>1. PICK s \in SetToSeqs(V) : todo' = [i \in 1..Len(s) |-> <<"purge", s[i]>>] \o <<y>>
  BY DEF PurgeByA
<1>2. s \in Seq(V)
  <2>1. IsFiniteSet(V)
    BY Finite, FS_Subset
  <2> QED BY <2>1, OrderProps
<1>3. Len(s) \in Nat /\ y[1] \notin LoudKinds
  BY <1>2, SilentKinds
<1>4. todo = <<>> /\ UNCHANGED <<attrhash, rlookup>>
  BY DEF PurgeByA, Idle, tables, blobs
<1> HIDE DEF y, V
<1>5. Silent(todo')
  BY <1>1, <1>3, SilentOrder
<1> QED BY <1>4, <1>5, SilentStart

\* The key that is taken out is no attribute.
LEMMA RefUnderUnlinkSk ==
  ASSUME RefUnder, NEW k \in Key, UnlinkSk(k)
  PROVE  RefUnder'
<1> DEFINE w == flookup[k].value
           x == <<"unvhash", k, w>>
           y == <<"dec", k>>
           z == <<"dec", w>>
<1>1. todo' = <<x, y, z>> /\ UNCHANGED <<attrhash, rlookup>>
  BY DEF UnlinkSk, tables, blobs
<1> SUFFICES ASSUME NEW a \in Attr, NEW v \in Object, attrhash'[a][v] \in Ref
             PROVE  a \in Under(v)' /\ Ahead(todo', After(a, v), Taking(a, v))
  BY DEF RefUnder
<1>2. k # a
  BY Apartness
<1>3. x \notin After(a, v)
  <2>1. x[1] = "unvhash" /\ x # <<"unvhash", a, v>> /\ x # <<"rlookup", v>> /\ x # <<"purge_end", v>>
    BY <1>2
  <2> HIDE DEF x
  <2> QED BY <2>1, AfterIs
<1>4. y[1] = "dec" /\ z[1] = "dec"
  OBVIOUS
<1> HIDE DEF x, y, z
<1>5. y \notin After(a, v) /\ z \notin After(a, v)
  BY <1>4, AfterIs, SilentKinds
<1>6. Clear(<<x, y, z>>, After(a, v))
  BY <1>3, <1>5, ClearOne
<1> QED BY <1>1, <1>6, ClearAhead DEF RefUnder, Under

LEMMA RefUnderDissocA ==
  ASSUME RefUnder, NEW b \in Attr, NEW u \in Object, DissocA(b, u)
  PROVE  RefUnder'
<1>1. todo' = <<<<"unhash", b, u>>, <<"unvhash", b, u>>>> /\ UNCHANGED <<attrhash, rlookup>>
  BY DEF DissocA, tables, blobs
<1> QED BY <1>1, PairAhead DEF RefUnder, Under

\* The table that goes takes the values out of every attribute it has before it lets go of
\* its keys.
LEMMA RefUnderDestroy ==
  ASSUME RefUnder, HashFound, Destroy
  PROVE  RefUnder'
<1> DEFINE X == {a \in Attr : attr_lookup[a] # "none"}
           x == <<"destroy_attrs", X>>
           y == <<"destroy_keys">>
           s == <<x, y>>
<1>1. todo' = s /\ todo = <<>> /\ UNCHANGED <<attrhash, rlookup>>
  BY DEF Destroy, Idle, tables, blobs
<1> SUFFICES ASSUME NEW a \in Attr, NEW v \in Object, attrhash'[a][v] \in Ref
             PROVE  a \in Under(v)' /\ Ahead(todo', After(a, v), Taking(a, v))
  BY DEF RefUnder
<1>2. a \in X
  <2>1. \A t : t \notin ToSet(todo)
    BY <1>1 DEF ToSet
  <2>2. attrhash[a][v] # "none"
    BY <1>1 DEF Ref
  <2> QED BY <2>1, <2>2 DEF HashFound
<1>3. x \in Taking(a, v)
  <2>1. x \in Task
    <3>1. X \in SUBSET Attr
      OBVIOUS
    <3> HIDE DEF X
    <3> QED BY <3>1, PlainTasks DEF Plain
  <2>2. x[1] = "destroy_attrs" /\ x[2] = X
    OBVIOUS
  <2> HIDE DEF x, X
  <2> QED BY <1>2, <2>1, <2>2 DEF Taking
<1>4. x \notin After(a, v)
  <2>1. x[1] = "destroy_attrs"
    OBVIOUS
  <2> HIDE DEF x
  <2> QED BY <2>1, AfterIs, SilentKinds
<1>5. Len(s) = 2 /\ s[1] = x
  OBVIOUS
<1> HIDE DEF x, y, s, X
<1>6. Ahead(s, After(a, v), Taking(a, v))
  <2> SUFFICES ASSUME NEW p \in 1..Len(s), s[p] \in After(a, v)
               PROVE  \E r \in 1..(p - 1) : s[r] \in Taking(a, v)
    BY DEF Ahead
  <2>1. p = 2
    BY <1>4, <1>5
  <2> QED BY <1>3, <1>5, <2>1
<1> QED BY <1>1, <1>6 DEF RefUnder, Under

LEMMA RefUnderStoreSk ==
  ASSUME Shape, RefUnder, NEW k \in Key, NEW v \in Object, NEW sv \in BOOLEAN, NEW sk \in BOOLEAN,
         StoreSk(k, v, sv, sk)
  PROVE  RefUnder'
<1>1. UNCHANGED <<attrhash, todo>> /\ rlookup' = WithVhash(v, k) /\ k \in Index
  BY Apartness DEF StoreSk
<1>2. \A u \in Object : Under(u)' = IF u = v THEN Under(u) \cup {k} ELSE Under(u)
  BY <1>1, VhashMade DEF Shape, DataShape
<1> QED BY <1>1, <1>2 DEF RefUnder

LEMMA RefUnderStoreA ==
  ASSUME Shape, RefUnder, NEW a \in Attr, NEW v \in Object, NEW sv \in BOOLEAN, NEW sa \in BOOLEAN,
         StoreA(a, v, sv, sa)
  PROVE  RefUnder'
<1>1. UNCHANGED todo /\ todo = <<>> /\ rlookup' = WithVhash(v, a) /\ a \in Index
  BY Apartness DEF StoreA, Idle
<1>2. \A u \in Object : Under(u)' = IF u = v THEN Under(u) \cup {a} ELSE Under(u)
  BY <1>1, VhashMade DEF Shape, DataShape
<1>3. \A b \in Attr, u \in Object : attrhash'[b][u] = attrhash[b][u] \/ (b = a /\ u = v)
  BY DEF StoreA, Shape, DataShape, Typed
<1>4. \A U, W : Ahead(todo', U, W)
  BY <1>1 DEF Ahead
<1> QED BY <1>2, <1>3, <1>4 DEF RefUnder

LEMMA RefUnderOperation ==
  ASSUME Shape, Shape', RefUnder, HashFound, Operation
  PROVE  RefUnder'
<1>1. todo = <<>>
  BY OperationTodo
<1> USE SilentOne, SilentKinds
<1>2. CASE \E o \in Object : New(o) \/ Drop(o) \/ Purge(o)
  <2>1. UNCHANGED <<attrhash, rlookup>> /\ Silent(todo')
    BY <1>1, <1>2 DEF New, Drop, Purge, tables, blobs
  <2> QED BY <1>1, <2>1, SilentStart
<1>3. CASE \E k \in Key : FetchSk(k) \/ PurgeBySk(k)
  <2>1. UNCHANGED <<attrhash, rlookup>> /\ Silent(todo')
    BY <1>1, <1>3 DEF FetchSk, Take, PurgeBySk, tables, blobs
  <2> QED BY <1>1, <2>1, SilentStart
<1>4. CASE \E a \in Attr : FetchA(a) \/ UnlinkA(a)
  <2>1. UNCHANGED <<attrhash, rlookup>> /\ Silent(todo')
    BY <1>1, <1>4 DEF FetchA, Take, UnlinkA, tables, blobs
  <2> QED BY <1>1, <2>1, SilentStart
<1> QED BY <1>2, <1>3, <1>4, RefUnderPurgeByA, RefUnderUnlinkSk, RefUnderDissocA, RefUnderDestroy,
           RefUnderStoreSk, RefUnderStoreA DEF Operation

LEMMA RefUnderInit ==
  ASSUME Init
  PROVE  RefUnder
BY DEF Init, RefUnder, Ref

LEMMA RefUnderNext ==
  ASSUME Shape, Shape', ObjectsCounted, IndexCounted, LifeCounted, WeakLive, RefUnder, HashFound, [Next]_vars
  PROVE  RefUnder'
<1>1. CASE UNCHANGED vars
  BY <1>1 DEF vars, tables, blobs, RefUnder, Under
<1> QED BY <1>1, RefUnderStep, RefUnderOperation DEF Next

-----------------------------------------------------------------------------
(* What DESTROY keeps it keeps to its end, and that is the last thing done.  *)

LEMMA Closing ==
  ASSUME NEW s, Lacks(s, TakeDown), NEW q, Len(q) \in Nat, Closed(q), Lacks(s, Gathering) \/ Ends(q)
  PROVE  Closed(s \o q) /\ (Ends(q) => Ends(s \o q))
<1> DEFINE r == s \o q
<1>1. Len(r) = Len(s) + Len(q) /\ Len(s) \in Nat
  BY DEF Lacks
<1>2. \A i \in 1..Len(r) : r[i] = IF i <= Len(s) THEN s[i] ELSE q[i - Len(s)]
  BY <1>1
<1> HIDE DEF r
<1>4. Ends(q) => Ends(r)
  <2> SUFFICES ASSUME Ends(q) PROVE Ends(r)
    OBVIOUS
  <2>1. Len(q) # 0
    BY DEF Ends
  <2>2. Len(r) \in 1..Len(r) /\ ~ (Len(r) <= Len(s)) /\ Len(r) - Len(s) = Len(q)
    BY <1>1, <2>1
  <2>3. r[Len(r)] = q[Len(q)]
    BY <1>2, <2>2
  <2> QED BY <1>1, <2>1, <2>3 DEF Ends
<1>5. \A p \in 1..Len(r) : p <= Len(s) => p \in 1..Len(s) /\ r[p] = s[p]
  BY <1>1, <1>2
<1>6. \A p \in 1..Len(r) : ~ (p <= Len(s)) => p - Len(s) \in 1..Len(q) /\ r[p] = q[p - Len(s)]
  BY <1>1, <1>2
<1>7. ASSUME NEW p \in 1..Len(r), r[p][1] \in TakeDown PROVE p = Len(r)
  <2>1. ~ (p <= Len(s))
    BY <1>5, <1>7 DEF Lacks
  <2>2. p - Len(s) = Len(q)
    BY <1>6, <1>7, <2>1 DEF Closed
  <2> QED BY <1>1, <2>2
<1>8. ASSUME NEW p \in 1..Len(r), r[p][1] \in Gathering PROVE Ends(r)
  <2>1. p <= Len(s) => Ends(q)
    BY <1>5, <1>8 DEF Lacks
  <2>2. ~ (p <= Len(s)) => Ends(q)
    BY <1>6, <1>8 DEF Closed
  <2> QED BY <1>4, <2>1, <2>2
<1>9. Closed(r)
  BY <1>7, <1>8 DEF Closed
<1> QED BY <1>4, <1>9 DEF r

LEMMA ClosedTail ==
  ASSUME NEW q \in Seq(Task), q # <<>>, Closed(q)
  PROVE  /\ Closed(Tail(q))
         /\ Head(q)[1] \in TakeDown => Len(Tail(q)) = 0
         /\ Head(q)[1] \in Gathering => Ends(q)
         /\ Ends(q) /\ Head(q)[1] \notin TakeDown => Ends(Tail(q))
<1> DEFINE t == Tail(q)
<1>1. /\ 1 \in 1..Len(q) /\ Head(q) = q[1] /\ Len(t) = Len(q) - 1 /\ Len(q) \in Nat
      /\ \A p \in 1..Len(t) : t[p] = q[p + 1]
  OBVIOUS
<1> HIDE DEF t
<1>2. Head(q)[1] \in TakeDown => Len(t) = 0
  BY <1>1 DEF Closed
<1>3. Head(q)[1] \in Gathering => Ends(q)
  BY <1>1 DEF Closed
<1>4. Ends(q) /\ Len(t) # 0 => Ends(t)
  <2> SUFFICES ASSUME Ends(q), Len(t) # 0 PROVE Ends(t)
    OBVIOUS
  <2>1. Len(t) \in 1..Len(t) /\ Len(t) + 1 = Len(q)
    BY <1>1
  <2>2. t[Len(t)] = q[Len(q)]
    BY <1>1, <2>1
  <2> QED BY <2>2 DEF Ends
<1>5. Ends(q) /\ Head(q)[1] \notin TakeDown => Len(t) # 0
  BY <1>1 DEF Ends
<1>6. Closed(t)
  <2> SUFFICES ASSUME NEW p \in 1..Len(t)
               PROVE  (t[p][1] \in TakeDown => p = Len(t)) /\ (t[p][1] \in Gathering => Ends(t))
    BY DEF Closed
  <2>1. p + 1 \in 1..Len(q) /\ t[p] = q[p + 1] /\ Len(t) # 0
    BY <1>1
  <2>2. t[p][1] \in TakeDown => p + 1 = Len(q)
    BY <2>1 DEF Closed
  <2>3. t[p][1] \in Gathering => Ends(q)
    BY <2>1 DEF Closed
  <2> QED BY <1>1, <1>4, <2>1, <2>2, <2>3
<1> QED BY <1>2, <1>3, <1>4, <1>5, <1>6 DEF t


\* What the program's operation, or a step that is none of DESTROY's, puts in front.
LEMMA OthersBelow ==
  ASSUME NEW s, Lacks(s, DestroyKinds)
  PROVE  Lacks(s, TakeDown) /\ Lacks(s, Gathering)
BY DEF Lacks, DestroyKinds

LEMMA ClosedOn ==
  ASSUME Shape, todo # <<>>, Closed(todo), NEW s, Lacks(s, TakeDown),
         Lacks(s, Gathering) \/ Top[1] \in Gathering,
         \/ Then(s) /\ Top[1] \notin TakeDown
         \/ todo' = s \o todo
  PROVE  Closed(todo') /\ (Ends(todo) => Ends(todo')) /\ (Top[1] \in Gathering => Ends(todo'))
<1> DEFINE t == Tail(todo)
<1>1. todo \in Seq(Task) /\ Len(todo) \in Nat /\ Len(t) \in Nat
  BY TopIs DEF Shape, TodoShape
<1>2. /\ Closed(t)
      /\ Top[1] \in Gathering => Ends(todo)
      /\ Ends(todo) /\ Top[1] \notin TakeDown => Ends(t)
  BY <1>1, ClosedTail DEF Top
<1>3. Top[1] \in Gathering => Top[1] \notin TakeDown
  BY DEF Gathering, TakeDown
<1>4. CASE todo' = s \o todo
  BY <1>1, <1>2, <1>4, Closing
<1>5. CASE Then(s) /\ Top[1] \notin TakeDown
  <2>1. todo' = s \o t
    BY <1>5 DEF Then
  <2> HIDE DEF t
  <2> QED BY <1>1, <1>2, <1>3, <1>5, <2>1, Closing
<1> QED BY <1>4, <1>5

\* What is set off by a step that is none of DESTROY's.
Plainly == \E s : Lacks(s, DestroyKinds) /\ (Then(s) \/ todo' = s \o todo)

LEMMA OtherKinds ==
  /\ "rlookup" \notin DestroyKinds /\ "unvhash" \notin DestroyKinds /\ "unhash" \notin DestroyKinds
  /\ "purge_end" \notin DestroyKinds /\ "foreach" \notin DestroyKinds
  /\ \A x : x \notin LoudKinds => x \notin DestroyKinds
  /\ \A x \in ActionKinds : x \notin DestroyKinds
BY DEF LoudKinds, DestroyKinds, Gathering, TakeDown, ActionKinds

LEMMA SilentLacks ==
  ASSUME NEW s, Silent(s)
  PROVE  Lacks(s, DestroyKinds)
BY OtherKinds DEF Silent, Lacks

LEMMA PlainlyCleanup ==
  ASSUME KEncapCleanup
  PROVE  Plainly \/ \E what : Fault(what)
<1> DEFINE k == Top[2]
           d == DecIf(obj[k], TheObject(k))
           x == <<"unvhash", k, flookup[k].value>>
           y == <<"slookup", k>>
           z == <<"flookup", k>>
<1>1. (\E what : Fault(what)) \/ Then(FromTable(k) \o d)
  BY DEF KEncapCleanup
<1>2. Lacks(FromTable(k), DestroyKinds)
  <2>1. x[1] = "unvhash" /\ y[1] = "slookup" /\ z[1] = "flookup"
    OBVIOUS
  <2>2. FromTable(k) \in {<<>>, <<y, z>>, <<x, y, z>>}
    BY DEF FromTable
  <2> HIDE DEF x, y, z
  <2>3. \A t \in {x, y, z} : t[1] \notin DestroyKinds
    BY <2>1, OtherKinds, SilentKinds
  <2> QED BY <2>2, <2>3, LacksOne
<1>3. Lacks(d, DestroyKinds)
  BY SilentIf, SilentLacks
<1> HIDE DEF d
<1>4. Lacks(FromTable(k) \o d, DestroyKinds)
  BY <1>2, <1>3, LacksConcat
<1> QED BY <1>1, <1>4 DEF Plainly

LEMMA PlainlyEachValue ==
  ASSUME EachValue
  PROVE  Plainly \/ \E what : Fault(what)
<1> DEFINE a == Top[2]
<1>1. ASSUME NEW v,
             todo' = <<<<"unhash", a, v>>, <<"unvhash", a, v>>>>
                         \o (IF v \in kept THEN <<>> ELSE <<<<"ka_end", v>>>>) \o todo
      PROVE  Plainly
  <2> DEFINE x == <<"unhash", a, v>>
             y == <<"unvhash", a, v>>
             z == <<"ka_end", v>>
             d == <<x, y>>
             e == IF v \in kept THEN <<>> ELSE <<z>>
  <2>1. x[1] = "unhash" /\ y[1] = "unvhash" /\ z[1] = "ka_end"
    OBVIOUS
  <2>2. todo' = (d \o e) \o todo
    BY <1>1
  <2> HIDE DEF x, y, z
  <2>3. Lacks(d, DestroyKinds) /\ Lacks(e, DestroyKinds)
    BY <2>1, OtherKinds, SilentKinds, LacksOne
  <2> HIDE DEF d, e
  <2>4. Lacks(d \o e, DestroyKinds)
    BY <2>3, LacksConcat
  <2> QED BY <2>2, <2>4 DEF Plainly
<1>2. Then(<<>>) => Plainly
  BY LacksOne DEF Plainly
<1> QED BY <1>1, <1>2 DEF EachValue

LEMMA PlainlyForeach ==
  ASSUME Foreach
  PROVE  Plainly \/ \E what : Fault(what)
<1> DEFINE u == Top[2]
           rest == Top[3]
           last == IF iter.gone THEN <<<<"dec", iter.cur>>>> ELSE <<>>
           i == Head(rest)
           x == <<"unhash", i, u>>
           y == <<"unvhash", i, u>>
           e == IF i \in Attr THEN <<x, y>> ELSE <<>>
           f == <<"foreach", u, Tail(rest)>>
           g == <<"purge_end", u>>
<1>1. \/ \E what : Fault(what)
      \/ Then(last \o <<g>>)
      \/ Then((last \o e) \o <<f>>)
  BY DEF Foreach
<1>2. x[1] = "unhash" /\ y[1] = "unvhash" /\ f[1] = "foreach" /\ g[1] = "purge_end"
  OBVIOUS
<1>3. Lacks(last, DestroyKinds)
  BY SilentOne, SilentKinds, SilentIf, SilentLacks
<1> HIDE DEF x, y, f, g
<1>4. Lacks(e, DestroyKinds) /\ Lacks(<<f>>, DestroyKinds) /\ Lacks(<<g>>, DestroyKinds)
  BY <1>2, OtherKinds, LacksOne
<1> HIDE DEF last, e
<1>5. Lacks(last \o e, DestroyKinds) /\ Lacks(last \o <<g>>, DestroyKinds)
  BY <1>3, <1>4, LacksConcat
<1>6. Lacks((last \o e) \o <<f>>, DestroyKinds)
  BY <1>4, <1>5, LacksConcat
<1> QED BY <1>1, <1>5, <1>6 DEF Plainly

LEMMA StepPlainly ==
  ASSUME Shape, Step, ~ DestroyAttrs, ~ DestroyAttr, ~ DestroyKeys, ~ DestroyValues
  PROVE  Plainly \/ \E what : Fault(what)
<1>1. ASSUME Calm PROVE Plainly
  BY <1>1, SilentLacks DEF Calm, Plainly
<1>2. CASE RunAction
  <2> DEFINE x == Head(acts[Top[2]])
  <2>1. x \in Action
    <3>1. Top[2] \in Node /\ x \in ToSet(acts[Top[2]])
      BY <1>2, FewerRunAction
    <3> QED BY <3>1 DEF Shape, DataShape, Typed, ToSet
  <2>2. x[1] \notin DestroyKinds
    BY <2>1, ActionIs, OtherKinds
  <2>3. todo' = <<x>> \o todo
    BY <1>2 DEF RunAction
  <2> HIDE DEF x
  <2> QED BY <2>2, <2>3, LacksOne DEF Plainly
<1>3. CASE PurgeBegin
  <2>1. PICK s : Then(<<<<"foreach", Top[2], s>>>>)
    BY <1>3 DEF PurgeBegin
  <2> DEFINE x == <<"foreach", Top[2], s>>
  <2>2. Lacks(<<x>>, DestroyKinds)
    BY OtherKinds, LacksOne
  <2> QED BY <2>1, <2>2 DEF Plainly
<1>4. CASE PurgeEnd
  <2> DEFINE x == <<"rlookup", Top[2]>>
             y == <<"dec", Top[2]>>
  <2>1. Lacks(<<x, y>>, DestroyKinds)
    BY OtherKinds, SilentKinds, LacksOne
  <2> QED BY <1>4, <2>1 DEF PurgeEnd, Plainly
<1> QED BY <1>1, <1>2, <1>3, <1>4, PlainlyCleanup, PlainlyEachValue, PlainlyForeach, StepCalm DEF Step

LEMMA StepTop ==
  ASSUME Step
  PROVE  /\ todo # <<>>
         /\ Top[1] = "push" => PushValue
         /\ Top[1] = "destroy_keys" => DestroyKeys
         /\ Top[1] = "destroy_values" => DestroyValues
         /\ DestroyAttrs => Top[1] = "destroy_attrs"
         /\ DestroyAttr => Top[1] = "destroy_attr"
         /\ PushValue => Top[1] = "push"
         /\ ~ PushValue /\ ~ DestroyKeys /\ ~ DestroyValues => UNCHANGED values
<1>1. /\ todo # <<>>
      /\ Top[1] = "push" => PushValue
      /\ Top[1] = "destroy_keys" => DestroyKeys
      /\ Top[1] = "destroy_values" => DestroyValues
      /\ DestroyAttrs => Top[1] = "destroy_attrs"
      /\ DestroyAttr => Top[1] = "destroy_attr"
      /\ PushValue => Top[1] = "push"
  BY DEF Step, Doing, DecAll, DelSlookup, DelFlookup, DelRlookup, DelAttrhash, DelFromVhash,
       VhashCheck, EncapDestroyHook, KEncapCleanup, EncapAttrDestroyHook, AttrDestroyTrigger,
       DelAttrLookup, DelFromAttrhash, PurgeBegin, Foreach, PurgeEnd, DestroyAttrs, DestroyAttr,
       PushValue, DestroyKeys, DestroyValues, Dec, Freed, KaEnd, RunAction, EachValue
<1>2. CASE Dec \/ KaEnd \/ DecAll \/ RunAction \/ Freed \/ DelSlookup \/ DelFlookup \/ DelRlookup
           \/ DelAttrhash \/ DelFromVhash \/ VhashCheck \/ EncapDestroyHook
  <2>1. UNCHANGED values
    BY <1>2 DEF Dec, KaEnd, DecAll, RunAction, Freed, DelSlookup, DelFlookup, DelRlookup, DelAttrhash,
       DelFromVhash, VhashCheck, EncapDestroyHook, loops, Fault
  <2> QED BY <1>1, <2>1
<1>3. CASE KEncapCleanup \/ EncapAttrDestroyHook \/ AttrDestroyTrigger \/ DelAttrLookup \/ EachValue
           \/ DelFromAttrhash \/ PurgeBegin \/ Foreach \/ PurgeEnd \/ DestroyAttrs \/ DestroyAttr
  <2>1. UNCHANGED values
    BY <1>3 DEF KEncapCleanup, EncapAttrDestroyHook, AttrDestroyTrigger, DelAttrLookup, EachValue,
       DelFromAttrhash, PurgeBegin, Foreach, PurgeEnd, DestroyAttrs, DestroyAttr, Died, loops, Fault
  <2> QED BY <1>1, <2>1
<1> QED BY <1>1, <1>2, <1>3 DEF Step

LEMMA KeptFault ==
  ASSUME ValuesKept, \E what : Fault(what)
  PROVE  ValuesKept'
BY DEF Fault, loops, ValuesKept, Closed, Ends

LEMMA KeptPlainly ==
  ASSUME Shape, ValuesKept, Step, ~ DestroyKeys, ~ DestroyValues, Plainly
  PROVE  ValuesKept'
<1>1. PICK s : Lacks(s, DestroyKinds) /\ (Then(s) \/ todo' = s \o todo)
  BY DEF Plainly
<1>2. todo # <<>> /\ Top[1] \notin TakeDown
  BY StepTop DEF TakeDown
<1>3. Closed(todo') /\ (Ends(todo) => Ends(todo')) /\ (Top[1] \in Gathering => Ends(todo'))
  BY <1>1, <1>2, OthersBelow, ClosedOn DEF ValuesKept
<1>4. values' # {} => values # {} \/ Top[1] \in Gathering
  BY StepTop DEF Gathering
<1> QED BY <1>3, <1>4 DEF ValuesKept, Closed, Ends

LEMMA KeptDestroyAttrs ==
  ASSUME Shape, ValuesKept, Step, DestroyAttrs
  PROVE  ValuesKept'
<1> DEFINE X == Top[2]
<1>1. todo # <<>> /\ Top[1] = "destroy_attrs" /\ UNCHANGED values
  BY StepTop DEF DestroyAttrs, loops, Died, Fault
<1>2. Top[1] \in Gathering /\ Top[1] \notin TakeDown
  BY <1>1 DEF Gathering, TakeDown
<1>3. ASSUME NEW s, Lacks(s, TakeDown), Then(s)
      PROVE  ValuesKept'
  <2>1. Closed(todo') /\ (Ends(todo) => Ends(todo'))
    BY <1>1, <1>2, <1>3, ClosedOn DEF ValuesKept
  <2> QED BY <1>1, <2>1 DEF ValuesKept, Closed, Ends
<1>4. Lacks(<<>>, TakeDown)
  BY LacksOne
<1>5. ASSUME NEW b, Then(<<<<"destroy_attr", b, {w \in Object : attrhash[b][w] # "none"}>>,
                    <<"destroy_attrs", X \ {b}>>>>)
      PROVE  ValuesKept'
  <2> DEFINE x == <<"destroy_attr", b, {w \in Object : attrhash[b][w] # "none"}>>
             y == <<"destroy_attrs", X \ {b}>>
  <2>1. x[1] \notin TakeDown /\ y[1] \notin TakeDown
    BY DEF TakeDown
  <2>2. Then(<<x, y>>)
    BY <1>5
  <2> HIDE DEF x, y
  <2>3. Lacks(<<x, y>>, TakeDown)
    BY <2>1, LacksOne
  <2> QED BY <1>3, <2>2, <2>3
<1> QED BY <1>3, <1>4, <1>5, KeptFault DEF DestroyAttrs, Died

LEMMA KeptDestroyAttr ==
  ASSUME Shape, ValuesKept, Step, DestroyAttr
  PROVE  ValuesKept'
<1> DEFINE b == Top[2]
           V == Top[3]
<1>1. todo # <<>> /\ Top[1] = "destroy_attr" /\ UNCHANGED values
  BY StepTop DEF DestroyAttr, loops, Died, Fault
<1>2. Top[1] \in Gathering /\ Top[1] \notin TakeDown
  BY <1>1 DEF Gathering, TakeDown
<1>3. ASSUME NEW s, Lacks(s, TakeDown), Then(s)
      PROVE  ValuesKept'
  <2>1. Closed(todo') /\ (Ends(todo) => Ends(todo'))
    BY <1>1, <1>2, <1>3, ClosedOn DEF ValuesKept
  <2> QED BY <1>1, <2>1 DEF ValuesKept, Closed, Ends
<1>4. Lacks(<<>>, TakeDown)
  BY LacksOne
<1>5. ASSUME NEW u,
             Then(<<<<"unhash", b, u>>, <<"unvhash", b, u>>, <<"push", u>>>>
                           \o DecIf(attrhash[b][u], u) \o <<<<"destroy_attr", b, V \ {u}>>>>)
      PROVE  ValuesKept'
  <2> DEFINE x == <<"unhash", b, u>>
             y == <<"unvhash", b, u>>
             z == <<"push", u>>
             f == <<x, y, z>>
             d == DecIf(attrhash[b][u], u)
             l == <<"destroy_attr", b, V \ {u}>>
             g == <<l>>
  <2>1. x[1] = "unhash" /\ y[1] = "unvhash" /\ z[1] = "push" /\ l[1] = "destroy_attr"
    OBVIOUS
  <2>2. Then((f \o d) \o g)
    BY <1>5
  <2> HIDE DEF x, y, z, l
  <2>3. Lacks(f, TakeDown) /\ Lacks(g, TakeDown)
    <3>1. \A t \in {x, y, z, l} : t[1] \notin TakeDown
      BY <2>1 DEF TakeDown
    <3> QED BY <3>1, LacksOne
  <2>4. Lacks(d, TakeDown)
    BY SilentIf, SilentLacks, OthersBelow
  <2> HIDE DEF f, g, d
  <2>5. Lacks(f \o d, TakeDown)
    BY <2>3, <2>4, LacksConcat
  <2>6. Lacks((f \o d) \o g, TakeDown)
    BY <2>3, <2>5, LacksConcat
  <2> QED BY <1>3, <2>2, <2>6
<1> QED BY <1>3, <1>4, <1>5, KeptFault DEF DestroyAttr, Died

\* The last task, and what it leaves.
LEMMA LastOne ==
  ASSUME Shape, todo # <<>>, Closed(todo), Top[1] \in TakeDown, NEW s, Then(s)
  PROVE  \A T : s \in Seq(T) => todo' = s
<1>1. todo \in Seq(Task) /\ Tail(todo) \in Seq(Task)
  BY TopIs DEF Shape, TodoShape
<1>2. Len(Tail(todo)) = 0
  BY <1>1, ClosedTail DEF Top
<1> DEFINE t == Tail(todo)
<1>3. todo' = s \o t /\ t \in Seq(Task) /\ Len(t) = 0
  BY <1>1, <1>2 DEF Then
<1> HIDE DEF t
<1>4. t = <<>>
  BY <1>3
<1> QED BY <1>3, <1>4

LEMMA KeptDestroyKeys ==
  ASSUME Shape, ValuesKept, Step, DestroyKeys
  PROVE  ValuesKept'
<1>1. todo # <<>> /\ Top[1] \in TakeDown
  BY StepTop DEF DestroyKeys, Doing, TakeDown
<1>2. CASE Then(<<<<"destroy_values", values'>>>>)
  <2> DEFINE x == <<"destroy_values", values'>>
             s == <<x>>
  <2>1. s \in Seq({x}) /\ Len(s) = 1 /\ s[1] = x /\ x[1] \in TakeDown
    BY DEF TakeDown
  <2>2. Then(s)
    BY <1>2
  <2> HIDE DEF s, x
  <2>3. todo' = s
    BY <1>1, <2>1, <2>2, LastOne DEF ValuesKept
  <2>4. Closed(s) /\ Ends(s)
    BY <2>1 DEF Closed, Ends
  <2>5. Closed(todo') /\ Ends(todo')
    BY <2>3, <2>4
  <2> QED BY <2>5 DEF ValuesKept, Closed, Ends
<1> QED BY <1>2, KeptFault DEF DestroyKeys, Died

LEMMA KeptDestroyValues ==
  ASSUME Shape, ValuesKept, Step, DestroyValues
  PROVE  ValuesKept'
<1>1. todo # <<>> /\ Top[1] \in TakeDown
  BY StepTop DEF DestroyValues, Doing, TakeDown
<1>2. CASE values' = {} /\ Then(<<<<"decall", values>>>>)
  <2> DEFINE x == <<"decall", values>>
             s == <<x>>
  <2>1. s \in Seq({x}) /\ Len(s) = 1 /\ s[1] = x /\ x[1] \notin DestroyKinds
    BY SilentKinds, OtherKinds
  <2>2. Then(s)
    BY <1>2
  <2> HIDE DEF s, x
  <2>3. todo' = s
    BY <1>1, <2>1, <2>2, LastOne DEF ValuesKept
  <2>4. Closed(s)
    BY <2>1 DEF Closed, DestroyKinds
  <2>5. Closed(todo')
    BY <2>3, <2>4
  <2> QED BY <1>2, <2>5 DEF ValuesKept, Closed, Ends
<1>3. ASSUME NEW v, Then(<<<<"decall", Under(v)>>, <<"destroy_values", Top[2] \ {v}>>>>)
      PROVE  ValuesKept'
  <2> DEFINE x == <<"decall", Under(v)>>
             y == <<"destroy_values", Top[2] \ {v}>>
             s == <<x, y>>
  <2>1. s \in Seq({x, y}) /\ Len(s) = 2 /\ s[1] = x /\ s[2] = y /\ x[1] = "decall" /\ y[1] = "destroy_values"
    OBVIOUS
  <2>2. Then(s)
    BY <1>3
  <2> HIDE DEF s, x, y
  <2>3. todo' = s
    BY <1>1, <2>1, <2>2, LastOne DEF ValuesKept
  <2>4. Ends(s)
    BY <2>1 DEF Ends, TakeDown
  <2>6. "decall" \notin TakeDown
    BY DEF TakeDown
  <2>7. \A p \in 1..Len(s) : p = 1 \/ p = 2
    BY <2>1
  <2>8. Closed(s)
    BY <2>1, <2>4, <2>6, <2>7 DEF Closed
  <2>5. Closed(todo') /\ Ends(todo')
    BY <2>3, <2>4, <2>8
  <2> QED BY <2>5 DEF ValuesKept, Closed, Ends
<1> QED BY <1>2, <1>3 DEF DestroyValues

LEMMA KeptStep ==
  ASSUME Shape, ValuesKept, Step
  PROVE  ValuesKept'
BY StepPlainly, KeptFault, KeptPlainly, KeptDestroyAttrs, KeptDestroyAttr, KeptDestroyKeys,
   KeptDestroyValues

LEMMA KeptStart ==
  ASSUME todo = <<>>, ValuesKept, UNCHANGED values, Lacks(todo', DestroyKinds) \/ (Ends(todo') /\ Closed(todo'))
  PROVE  ValuesKept'
<1>1. values' = {}
  BY DEF ValuesKept, Ends
<1>2. Closed(todo')
  BY DEF Closed, Lacks, DestroyKinds
<1> QED BY <1>1, <1>2 DEF ValuesKept, Closed, Ends

LEMMA KeptOperation ==
  ASSUME Shape, Shape', ValuesKept, Operation
  PROVE  ValuesKept'
<1>1. todo = <<>>
  BY OperationTodo
<1>2. CASE Silent(todo') /\ UNCHANGED values
  BY <1>1, <1>2, SilentLacks, KeptStart
<1> USE SilentOne, SilentKinds
<1>3. CASE \E o \in Object : New(o) \/ Drop(o) \/ Purge(o)
  BY <1>1, <1>2, <1>3 DEF New, Drop, Purge, loops
<1>4. CASE \E k \in Key : FetchSk(k) \/ PurgeBySk(k)
  BY <1>1, <1>2, <1>4 DEF FetchSk, Take, PurgeBySk, loops
<1>5. CASE \E a \in Attr : FetchA(a) \/ UnlinkA(a)
  BY <1>1, <1>2, <1>5 DEF FetchA, Take, UnlinkA, loops
<1>6. ASSUME NEW i, NEW v, NEW sv, NEW si, StoreSk(i, v, sv, si) \/ StoreA(i, v, sv, si)
      PROVE  ValuesKept'
  BY <1>1, <1>2, <1>6 DEF StoreSk, StoreA, loops
<1>7. ASSUME NEW a, PurgeByA(a) PROVE ValuesKept'
  <2> DEFINE V == {v \in Object : attrhash[a][v] \in Ref}
             y == <<"decall", V>>
  <2>1. PICK s \in SetToSeqs(V) : todo' = [i \in 1..Len(s) |-> <<"purge", s[i]>>] \o <<y>>
    BY <1>7 DEF PurgeByA
  <2>2. s \in Seq(V)
    <3>1. IsFiniteSet(V)
      BY Finite, FS_Subset
    <3> QED BY <3>1, OrderProps
  <2>3. Len(s) \in Nat /\ y[1] \notin LoudKinds /\ UNCHANGED values
    BY <1>7, <2>2 DEF PurgeByA, loops
  <2> HIDE DEF y, V
  <2>4. Silent(todo')
    BY <2>1, <2>3, SilentOrder
  <2> QED BY <1>2, <2>3, <2>4
<1>8. ASSUME NEW k, UnlinkSk(k) PROVE ValuesKept'
  <2> DEFINE w == flookup[k].value
             x == <<"unvhash", k, w>>
             y == <<"dec", k>>
             z == <<"dec", w>>
  <2>1. todo' = <<x, y, z>> /\ UNCHANGED values /\ x[1] = "unvhash" /\ y[1] = "dec" /\ z[1] = "dec"
    BY <1>8 DEF UnlinkSk, loops
  <2> HIDE DEF x, y, z
  <2>2. Lacks(<<x, y, z>>, DestroyKinds)
    BY <2>1, OtherKinds, LacksOne
  <2> QED BY <1>1, <2>1, <2>2, KeptStart
<1>9. ASSUME NEW a, NEW v, DissocA(a, v) PROVE ValuesKept'
  <2> DEFINE x == <<"unhash", a, v>>
             y == <<"unvhash", a, v>>
  <2>1. todo' = <<x, y>> /\ UNCHANGED values /\ x[1] = "unhash" /\ y[1] = "unvhash"
    BY <1>9 DEF DissocA, loops
  <2> HIDE DEF x, y
  <2>2. Lacks(<<x, y>>, DestroyKinds)
    BY <2>1, OtherKinds, LacksOne
  <2> QED BY <1>1, <2>1, <2>2, KeptStart
<1>10. CASE Destroy
  <2> DEFINE x == <<"destroy_attrs", {a \in Attr : attr_lookup[a] # "none"}>>
             y == <<"destroy_keys">>
             s == <<x, y>>
  <2>1. Len(s) = 2 /\ s[1] = x /\ s[2] = y /\ x[1] = "destroy_attrs" /\ y[1] = "destroy_keys"
    OBVIOUS
  <2>2. todo' = s /\ UNCHANGED values
    BY <1>10 DEF Destroy, loops
  <2> HIDE DEF s, x, y
  <2>3. Ends(s)
    BY <2>1 DEF Ends, TakeDown
  <2>4. \A p \in 1..Len(s) : p = 1 \/ p = 2
    BY <2>1
  <2>5. Closed(s)
    BY <2>1, <2>3, <2>4 DEF Closed, TakeDown
  <2> QED BY <1>1, <2>2, <2>3, <2>5, KeptStart
<1> QED BY <1>3, <1>4, <1>5, <1>6, <1>7, <1>8, <1>9, <1>10 DEF Operation

LEMMA KeptInit ==
  ASSUME Init
  PROVE  ValuesKept
BY DEF Init, ValuesKept, Closed, Ends

LEMMA KeptNext ==
  ASSUME Shape, Shape', ValuesKept, [Next]_vars
  PROVE  ValuesKept'
<1>1. CASE UNCHANGED vars
  BY <1>1 DEF vars, loops, ValuesKept, Closed, Ends
<1> QED BY <1>1, KeptStep, KeptOperation DEF Next

-----------------------------------------------------------------------------
(* The inductive invariant.                                                 *)

LEMMA IInvInit ==
  ASSUME Init
  PROVE  IInv
BY ShapeInit, CountsInit, LifeInit, WeakInit, UnderInit, VhashInit, FreeInit, RefUnderInit, FoundInit,
   ForwardInit, ObjectInit, KeptInit, OnceInit, HooksInit, RunsInit DEF IInv

LEMMA IInvNext ==
  ASSUME IInv, [Next]_vars
  PROVE  IInv'
<1> USE DEF IInv
<1>1. Shape'
  BY ShapeNext
<1>2. ObjectsCounted' /\ IndexCounted'
  BY <1>1, CountsStep, CountsOperation, CountsStutter DEF Next
<1>3. LifeCounted'
  BY <1>1, <1>2, LifeNext
<1>4. WeakLive' /\ UnderHas' /\ VhashHooked' /\ FreeClean'
  BY WeakNext, UnderNext, VhashNext, FreeNext
<1>5. RefUnder' /\ HashFound' /\ ForwardHooked' /\ ObjectHooked' /\ ValuesKept'
  BY <1>1, RefUnderNext, FoundNext, ForwardNext, ObjectNext, KeptNext
<1>6. ActsOnce' /\ AttrHooks' /\ HookRuns'
  BY <1>1, OnceNext, HooksNext, RunsNext
<1> QED BY <1>1, <1>2, <1>3, <1>4, <1>5, <1>6

\* In every state, in the middle of a cascade too, every reference is counted, a node
\* with references lives, a weak reference is cleared when its referent dies, what is
\* free has left nothing behind, and an attribute's hook on its object goes before it.
THEOREM InductiveInvariant == Spec => []IInv
BY IInvInit, IInvNext, PTL DEF Spec

\* The tables, the counts and the blobs keep their types; no count is ever negative.
THEOREM TypeCorrect == Spec => []TypeOK
<1>1. IInv => TypeOK
  <2> SUFFICES ASSUME IInv PROVE TypeOK
    OBVIOUS
  <2>1. \A n \in Node : rc[n] \in Nat
    BY CountsPositive DEF IInv
  <2> QED BY <2>1 DEF IInv, Shape, DataShape, Typed, TypeOK
<1> QED BY <1>1, InductiveInvariant, PTL

\* No entry of the table and no reference of the program or of DESTROY is to something
\* dead: whatever dies, in whatever order, has its entries cleared or undefined first.
THEOREM ReferencesAlwaysHold == Spec => []ReferencesHold
<1>1. IInv => ReferencesHold
  <2> SUFFICES ASSUME IInv PROVE ReferencesHold
    OBVIOUS
  <2> USE DEF IInv
  <2>1. \A o \in held \cup values : life[o] = "live"
    BY ReferredLive DEF Shape, DataShape, Typed
  <2>2. \A k \in Key : /\ slookup[k] \in Ref => life[k] = "live"
                       /\ flookup[k].mode \in Ref => life[flookup[k].value] = "live"
    BY FoundLive DEF WeakLive, Ref
  <2>3. \A a \in Attr : /\ attr_lookup[a] = "weak" => life[a] = "live"
                        /\ \A v \in Object : attrhash[a][v] \in Ref => life[v] = "live"
    BY FoundLive DEF WeakLive
  <2>4. \A i \in Index : obj[i] \in Ref => life[TheObject(i)] = "live"
    BY ReferredLive DEF WeakLive, Ref
  <2>5. \A v \in Object : \A i \in Under(v) : life[i] = "live"
    BY ReferredLive
  <2> QED BY <2>1, <2>2, <2>3, <2>4, <2>5 DEF ReferencesHold
<1> QED BY <1>1, InductiveInvariant, PTL

\* Only Dec can find a node without references when it takes one.
LEMMA OtherFaults ==
  ASSUME Next, ~ Dec
  PROVE  err' = err \/ err' # "decrement of a freed node"
<1>1. CASE DecAll \/ RunAction \/ Freed \/ DelSlookup \/ DelFlookup \/ DelRlookup \/ DelFromVhash
           \/ VhashCheck \/ DelFromAttrhash \/ KaEnd \/ PurgeBegin \/ PurgeEnd \/ DestroyValues
  BY <1>1 DEF DecAll, RunAction, Freed, DelSlookup, DelFlookup, DelRlookup, DelFromVhash, VhashCheck,
     DelFromAttrhash, KaEnd, PurgeBegin, PurgeEnd, DestroyValues
<1>2. CASE DelAttrhash \/ EncapDestroyHook \/ KEncapCleanup \/ EncapAttrDestroyHook
           \/ AttrDestroyTrigger \/ DelAttrLookup \/ EachValue
  BY <1>2 DEF DelAttrhash, EncapDestroyHook, KEncapCleanup, EncapAttrDestroyHook, AttrDestroyTrigger,
     DelAttrLookup, EachValue, Fault
<1>3. CASE Foreach \/ DestroyAttrs \/ DestroyAttr \/ PushValue \/ DestroyKeys
  BY <1>3 DEF Foreach, DestroyAttrs, DestroyAttr, PushValue, DestroyKeys, Died, Fault
<1>4. CASE Operation
  <2>1. CASE Destroy
    BY <2>1 DEF Destroy
  <2>2. CASE \E o \in Object : New(o) \/ Drop(o) \/ Purge(o)
    BY <2>2 DEF New, Drop, Purge
  <2>3. CASE \E k \in Key : FetchSk(k) \/ UnlinkSk(k) \/ PurgeBySk(k)
    BY <2>3 DEF FetchSk, Take, UnlinkSk, PurgeBySk
  <2>4. CASE \E a \in Attr : FetchA(a) \/ UnlinkA(a) \/ PurgeByA(a) \/ \E v \in Object : DissocA(a, v)
    BY <2>4 DEF FetchA, Take, UnlinkA, PurgeByA, DissocA
  <2>5. ASSUME NEW i, NEW v, NEW sv, NEW si, StoreSk(i, v, sv, si) \/ StoreA(i, v, sv, si)
        PROVE  err' = err
    BY <2>5 DEF StoreSk, StoreA
  <2> QED BY <1>4, <2>1, <2>2, <2>3, <2>4, <2>5 DEF Operation
<1> QED BY <1>1, <1>2, <1>3, <1>4 DEF Next, Step

\* A reference is given up once: whoever is about to call SvREFCNT_dec in the middle of
\* a cascade still has the reference it gives up, and so the node still lives.
THEOREM NeverFreedTwice == Spec => []NoDoubleFree
<1>1. Init => NoDoubleFree
  BY DEF Init, NoDoubleFree
<1>2. IInv /\ NoDoubleFree /\ [Next]_vars => NoDoubleFree'
  <2> SUFFICES ASSUME IInv, NoDoubleFree, [Next]_vars PROVE NoDoubleFree'
    OBVIOUS
  <2>1. CASE UNCHANGED vars
    BY <2>1 DEF vars, NoDoubleFree
  <2>2. CASE Dec
    <3>1. /\ Top \in ToSet(todo) /\ Top \in Task /\ Top[1] = "dec" /\ Top[2] \in Node
      BY <2>2, TopIs DEF Dec, Doing, IInv, Shape, TaskIs
    <3>2. life[Top[2]] = "live"
      BY <3>1, CountedLive DEF IInv, Holding
    <3> QED BY <2>2, <3>2 DEF Dec, NoDoubleFree
  <2>3. CASE Next /\ ~ Dec
    BY <2>3, OtherFaults DEF NoDoubleFree
  <2> QED BY <2>1, <2>2, <2>3
<1> QED BY <1>1, <1>2, InductiveInvariant, PTL DEF Spec

\* What is freed leaves nothing to the object that gets its address: no action that would
\* delete an entry of the newcomer, no vhash with its predecessor's keys.
THEOREM NothingLeftBehind == Spec => []NothingStale
<1>1. IInv => NothingStale
  <2>1. \A v \in Object : v \in Node
    BY Apartness
  <2> QED BY <2>1 DEF IInv, FreeClean, NothingStale
<1> QED BY <1>1, InductiveInvariant, PTL

\* When nothing is left to do, nothing is kept, and so what lives has a reference.
LEMMA LiveAtRest ==
  ASSUME IInv, todo = <<>>
  PROVE  /\ kept = {} /\ iter = Null
         /\ \A n \in Node : rc[n] \in Nat /\ life[n] = IF rc[n] > 0 THEN "live" ELSE "free"
<1>1. \A x : x \notin ToSet(todo)
  BY DEF ToSet
<1>2. kept = {} /\ iter = Null /\ \A n \in Node : life[n] # "dying"
  BY <1>1 DEF IInv, Shape, DataShape, Typed, TodoShape, KeptOpen, LoopOpen, FreeOpen
<1>3. \A n \in Node : rc[n] \in Nat
  BY CountsPositive DEF IInv
<1> QED BY <1>2, <1>3 DEF IInv, LifeCounted, Shape, DataShape, Typed

\* References, in the terms of the invariant.
LEMMA ReferencesIs ==
  ASSUME NEW o
  PROVE  References(o) = One(o \in held) + Cardinality(StrongKeys(o)) + Cardinality(StrongAttrs(o))
                           + Cardinality(StrongObjs(o))
<1>1. {o} \cap held = IF o \in held THEN {o} ELSE {}
  OBVIOUS
<1>2. Cardinality({o} \cap held) = One(o \in held)
  BY <1>1, FS_EmptySet, FS_Singleton DEF One
<1> QED BY <1>2 DEF References, StrongKeys, StrongAttrs, StrongObjs

LEMMA CountedAtRest ==
  ASSUME IInv, Idle
  PROVE  Counted
<1>1. /\ todo = <<>> /\ kept = {} /\ iter = Null
      /\ \A n \in Node : rc[n] \in Nat /\ life[n] = IF rc[n] > 0 THEN "live" ELSE "free"
  BY LiveAtRest DEF Idle
<1>2. values = {} /\ \A X : Occurs(todo, X) = 0
  BY <1>1, NothingWaits DEF IInv, ValuesKept, Ends
<1>3. ASSUME NEW i \in Index PROVE rc[i] = Cardinality(Vhashes(i))
  <2>1. Cardinality(Vhashes(i)) \in Nat /\ Gone(i) = 0
    BY <1>1, StrongFinite DEF Gone, One
  <2>2. rc[i] = Cardinality(Vhashes(i)) + Gone(i) + Occurs(todo, Holding(i))
    BY DEF IInv, IndexCounted
  <2> QED BY <1>2, <2>1, <2>2
<1>4. ASSUME NEW o \in Object PROVE rc[o] = References(o)
  <2>1. /\ Cardinality(StrongKeys(o)) \in Nat /\ Cardinality(StrongAttrs(o)) \in Nat
        /\ Cardinality(StrongObjs(o)) \in Nat
    BY StrongFinite
  <2>2. rc[o] = One(o \in held) + One(o \in values) + Cardinality(StrongKeys(o))
                 + Cardinality(StrongAttrs(o)) + Cardinality(StrongObjs(o)) + Occurs(todo, Holding(o))
    BY DEF IInv, ObjectsCounted
  <2>3. One(o \in values) = 0 /\ One(o \in held) \in Nat
    BY <1>2 DEF One
  <2> QED BY <1>2, <2>1, <2>2, <2>3, ReferencesIs, SMTT(40)
<1> QED BY <1>1, <1>3, <1>4 DEF Counted, Vhashes

\* Between operations every reference count is the number of references there are, and
\* what has none is gone: whatever the program stored under whatever, and in whatever
\* order the cascades of deaths went, nothing was freed early and nothing leaks.
THEOREM CountedBetweenOperations == Spec => []RefcountsExact
<1>1. IInv => RefcountsExact
  BY CountedAtRest DEF RefcountsExact
<1> QED BY <1>1, InductiveInvariant, PTL

\* Between operations a value's death finds its vhash, and the vhash no attribute that
\* does not have the value: the two halves of an entry are taken out together.
THEOREM HookedBetweenOperations == Spec => []VhashesAtRest
<1>1. IInv => VhashesAtRest
  <2> SUFFICES ASSUME IInv, Idle, NEW v \in Object, rlookup[v] # Null
               PROVE  /\ <<"rlookup", v>> \in ToSet(acts[v])
                      /\ \A a \in Attr : a \in rlookup[v] => attrhash[a][v] # "none"
    BY DEF VhashesAtRest
  <2>1. todo = <<>> /\ v \in Node /\ \A x : x \notin ToSet(todo)
    BY Apartness DEF Idle, ToSet
  <2>2. <<"rlookup", v>> \in ToSet(acts[v])
    BY <2>1 DEF IInv, VhashHooked
  <2>3. life[v] = "live"
    BY <2>1, LiveAtRest DEF IInv, FreeClean
  <2> QED BY <2>1, <2>2, <2>3 DEF IInv, UnderHas, Under
<1> QED BY <1>1, InductiveInvariant, PTL

=============================================================================
