-------------------------- MODULE ThreadCloneProofs --------------------------
(***************************************************************************)
(* A thread's copy of a table is whole when CLONE returns.  CloneInv is    *)
(* inductive: a table at rest is a copy in which nothing is left to mend,  *)
(* each step of CLONE mends what it takes off what is left and disturbs    *)
(* nothing that is mended, and a copy in which nothing is left to mend     *)
(* satisfies what RefStoreXSProofs and RefStoreXSTables ask of a table.    *)
(***************************************************************************)
EXTENDS ThreadCloneInvariant, RefStoreXSTables

-----------------------------------------------------------------------------
(* What waits in CLONE.                                                     *)

\* What is left in each part of CLONE.
LEMMA LeftIs ==
  /\ \A R, K, A, V, q : 
       q = <<<<"rename_reverse", R>>, <<"rename_keys", K>>, <<"rename_attrs", A>>, <<"rename_vhashes", V>>, <<"cloned">>>> =>
         /\ LeftIn(q, "rename_reverse") = R /\ LeftIn(q, "rename_keys") = K
         /\ LeftIn(q, "rename_attrs") = A /\ LeftIn(q, "rename_vhashes") = V
  /\ \A K, A, V, q : 
       q = <<<<"rename_keys", K>>, <<"rename_attrs", A>>, <<"rename_vhashes", V>>, <<"cloned">>>> =>
         /\ LeftIn(q, "rename_reverse") = {} /\ LeftIn(q, "rename_keys") = K
         /\ LeftIn(q, "rename_attrs") = A /\ LeftIn(q, "rename_vhashes") = V
  /\ \A A, V, q : 
       q = <<<<"rename_attrs", A>>, <<"rename_vhashes", V>>, <<"cloned">>>> =>
         /\ LeftIn(q, "rename_reverse") = {} /\ LeftIn(q, "rename_keys") = {}
         /\ LeftIn(q, "rename_attrs") = A /\ LeftIn(q, "rename_vhashes") = V
  /\ \A A, V, q : 
       q = <<<<"free_temps">>, <<"rename_attrs", A>>, <<"rename_vhashes", V>>, <<"cloned">>>> =>
         /\ LeftIn(q, "rename_reverse") = {} /\ LeftIn(q, "rename_keys") = {}
         /\ LeftIn(q, "rename_attrs") = A /\ LeftIn(q, "rename_vhashes") = V
  /\ \A V, q : 
       q = <<<<"rename_vhashes", V>>, <<"cloned">>>> =>
         /\ LeftIn(q, "rename_reverse") = {} /\ LeftIn(q, "rename_keys") = {}
         /\ LeftIn(q, "rename_attrs") = {} /\ LeftIn(q, "rename_vhashes") = V
  /\ \A q : 
       q = <<<<"cloned">>>> =>
         /\ LeftIn(q, "rename_reverse") = {} /\ LeftIn(q, "rename_keys") = {}
         /\ LeftIn(q, "rename_attrs") = {} /\ LeftIn(q, "rename_vhashes") = {}
  /\ \A q : 
       q = <<>> =>
         /\ LeftIn(q, "rename_reverse") = {} /\ LeftIn(q, "rename_keys") = {}
         /\ LeftIn(q, "rename_attrs") = {} /\ LeftIn(q, "rename_vhashes") = {}
<1>1. \A r, k, a, v, c, f :
        /\ ToSet(<<r, k, a, v, c>>) = {r, k, a, v, c} /\ ToSet(<<k, a, v, c>>) = {k, a, v, c}
        /\ ToSet(<<a, v, c>>) = {a, v, c} /\ ToSet(<<f, a, v, c>>) = {f, a, v, c}
        /\ ToSet(<<v, c>>) = {v, c} /\ ToSet(<<c>>) = {c} /\ ToSet(<<>>) = {}
  BY DEF ToSet
<1>2. ASSUME NEW R, NEW K, NEW A, NEW V, NEW q, q = <<<<"rename_reverse", R>>, <<"rename_keys", K>>, <<"rename_attrs", A>>, <<"rename_vhashes", V>>, <<"cloned">>>>
      PROVE  /\ LeftIn(q, "rename_reverse") = R /\ LeftIn(q, "rename_keys") = K
             /\ LeftIn(q, "rename_attrs") = A /\ LeftIn(q, "rename_vhashes") = V
  <2> DEFINE r == <<"rename_reverse", R>>
             k == <<"rename_keys", K>>
             a == <<"rename_attrs", A>>
             v == <<"rename_vhashes", V>>
             c == <<"cloned">>
  <2>1. r[1] = "rename_reverse" /\ k[1] = "rename_keys" /\ a[1] = "rename_attrs" /\ v[1] = "rename_vhashes" /\ c[1] = "cloned" /\ r[2] = R /\ k[2] = K /\ a[2] = A /\ v[2] = V
    OBVIOUS
  <2>2. q = <<r, k, a, v, c>>
    BY <1>2
  <2> HIDE DEF r, k, a, v, c
  <2>3. ToSet(q) = {r, k, a, v, c}
    BY <1>1, <2>2
  <2> QED BY <2>1, <2>3 DEF LeftIn
<1>3. ASSUME NEW K, NEW A, NEW V, NEW q, q = <<<<"rename_keys", K>>, <<"rename_attrs", A>>, <<"rename_vhashes", V>>, <<"cloned">>>>
      PROVE  /\ LeftIn(q, "rename_reverse") = {} /\ LeftIn(q, "rename_keys") = K
             /\ LeftIn(q, "rename_attrs") = A /\ LeftIn(q, "rename_vhashes") = V
  <2> DEFINE k == <<"rename_keys", K>>
             a == <<"rename_attrs", A>>
             v == <<"rename_vhashes", V>>
             c == <<"cloned">>
  <2>1. k[1] = "rename_keys" /\ a[1] = "rename_attrs" /\ v[1] = "rename_vhashes" /\ c[1] = "cloned" /\ k[2] = K /\ a[2] = A /\ v[2] = V
    OBVIOUS
  <2>2. q = <<k, a, v, c>>
    BY <1>3
  <2> HIDE DEF k, a, v, c
  <2>3. ToSet(q) = {k, a, v, c}
    BY <1>1, <2>2
  <2> QED BY <2>1, <2>3 DEF LeftIn
<1>4. ASSUME NEW A, NEW V, NEW q, q = <<<<"rename_attrs", A>>, <<"rename_vhashes", V>>, <<"cloned">>>>
      PROVE  /\ LeftIn(q, "rename_reverse") = {} /\ LeftIn(q, "rename_keys") = {}
             /\ LeftIn(q, "rename_attrs") = A /\ LeftIn(q, "rename_vhashes") = V
  <2> DEFINE a == <<"rename_attrs", A>>
             v == <<"rename_vhashes", V>>
             c == <<"cloned">>
  <2>1. a[1] = "rename_attrs" /\ v[1] = "rename_vhashes" /\ c[1] = "cloned" /\ a[2] = A /\ v[2] = V
    OBVIOUS
  <2>2. q = <<a, v, c>>
    BY <1>4
  <2> HIDE DEF a, v, c
  <2>3. ToSet(q) = {a, v, c}
    BY <1>1, <2>2
  <2> QED BY <2>1, <2>3 DEF LeftIn
<1>5. ASSUME NEW A, NEW V, NEW q, q = <<<<"free_temps">>, <<"rename_attrs", A>>, <<"rename_vhashes", V>>, <<"cloned">>>>
      PROVE  /\ LeftIn(q, "rename_reverse") = {} /\ LeftIn(q, "rename_keys") = {}
             /\ LeftIn(q, "rename_attrs") = A /\ LeftIn(q, "rename_vhashes") = V
  <2> DEFINE f == <<"free_temps">>
             a == <<"rename_attrs", A>>
             v == <<"rename_vhashes", V>>
             c == <<"cloned">>
  <2>1. f[1] = "free_temps" /\ a[1] = "rename_attrs" /\ v[1] = "rename_vhashes" /\ c[1] = "cloned" /\ a[2] = A /\ v[2] = V
    OBVIOUS
  <2>2. q = <<f, a, v, c>>
    BY <1>5
  <2> HIDE DEF f, a, v, c
  <2>3. ToSet(q) = {f, a, v, c}
    BY <1>1, <2>2
  <2> QED BY <2>1, <2>3 DEF LeftIn
<1>6. ASSUME NEW V, NEW q, q = <<<<"rename_vhashes", V>>, <<"cloned">>>>
      PROVE  /\ LeftIn(q, "rename_reverse") = {} /\ LeftIn(q, "rename_keys") = {}
             /\ LeftIn(q, "rename_attrs") = {} /\ LeftIn(q, "rename_vhashes") = V
  <2> DEFINE v == <<"rename_vhashes", V>>
             c == <<"cloned">>
  <2>1. v[1] = "rename_vhashes" /\ c[1] = "cloned" /\ v[2] = V
    OBVIOUS
  <2>2. q = <<v, c>>
    BY <1>6
  <2> HIDE DEF v, c
  <2>3. ToSet(q) = {v, c}
    BY <1>1, <2>2
  <2> QED BY <2>1, <2>3 DEF LeftIn
<1>7. ASSUME NEW q, q = <<<<"cloned">>>>
      PROVE  /\ LeftIn(q, "rename_reverse") = {} /\ LeftIn(q, "rename_keys") = {}
             /\ LeftIn(q, "rename_attrs") = {} /\ LeftIn(q, "rename_vhashes") = {}
  <2> DEFINE c == <<"cloned">>
  <2>1. c[1] = "cloned"
    OBVIOUS
  <2>2. q = <<c>>
    BY <1>7
  <2> HIDE DEF c
  <2>3. ToSet(q) = {c}
    BY <1>1, <2>2
  <2> QED BY <2>1, <2>3 DEF LeftIn
<1>8. ASSUME NEW q, q = <<>>
      PROVE  /\ LeftIn(q, "rename_reverse") = {} /\ LeftIn(q, "rename_keys") = {}
             /\ LeftIn(q, "rename_attrs") = {} /\ LeftIn(q, "rename_vhashes") = {}
  BY <1>1, <1>8 DEF LeftIn
<1> QED BY <1>2, <1>3, <1>4, <1>5, <1>6, <1>7, <1>8

CloneKinds == {"rename_reverse", "rename_keys", "rename_attrs", "free_temps", "rename_vhashes", "cloned"}

\* No task of the table is one of CLONE.
LEMMA TaskNotClone ==
  ASSUME NEW t \in Task
  PROVE  t[1] \notin CloneKinds
<1>1. t \in Action => t[1] \in ActionKinds
  BY ActionIs
<1> QED BY <1>1 DEF Task, ActionKinds, CloneKinds, NodeTask, NodesTask, ValueTask, AttrTask, Unvhash, Unhash,
              ForeachTask, DestroyAttrsTask, DestroyAttrTask, DestroyKeysTask, DestroyValuesTask

LEMMA NotCloning ==
  ASSUME todo \in Seq(Task)
  PROVE  ~ Cloning
<1> SUFFICES ASSUME todo # <<>> PROVE Last(todo) # <<"cloned">>
  BY DEF Cloning
<1>1. Last(todo) \in Task
  BY DEF Last
<1> QED BY <1>1, TaskNotClone DEF CloneKinds

\* No step of the table is taken by a task of CLONE.
LEMMA StepNotClone ==
  ASSUME Step
  PROVE  todo # <<>> /\ Top[1] \notin CloneKinds
<1>1. CASE Dec \/ DecAll \/ RunAction \/ Freed \/ DelSlookup \/ DelFlookup \/ DelRlookup \/ DelAttrhash
  BY <1>1 DEF Dec, DecAll, RunAction, Freed, DelSlookup, DelFlookup, DelRlookup, DelAttrhash, Doing, CloneKinds
<1>2. CASE \/ DelFromVhash \/ VhashCheck \/ EncapDestroyHook \/ KEncapCleanup \/ EncapAttrDestroyHook
           \/ AttrDestroyTrigger \/ DelAttrLookup \/ EachValue \/ DelFromAttrhash \/ KaEnd
  BY <1>2 DEF DelFromVhash, VhashCheck, EncapDestroyHook, KEncapCleanup, EncapAttrDestroyHook, AttrDestroyTrigger,
              DelAttrLookup, EachValue, DelFromAttrhash, KaEnd, Doing, CloneKinds
<1>3. CASE \/ PurgeBegin \/ Foreach \/ PurgeEnd \/ DestroyAttrs \/ DestroyAttr \/ PushValue \/ DestroyKeys
           \/ DestroyValues
  BY <1>3 DEF PurgeBegin, Foreach, PurgeEnd, DestroyAttrs, DestroyAttr, PushValue, DestroyKeys, DestroyValues,
              Doing, CloneKinds
<1> QED BY <1>1, <1>2, <1>3 DEF Step

LEMMA OperationIdle ==
  ASSUME Operation
  PROVE  Idle
<1>1. CASE Destroy
  BY <1>1 DEF Destroy
<1>2. ASSUME NEW o \in Object, New(o) \/ Drop(o) \/ Purge(o) PROVE Idle
  BY <1>2 DEF New, Drop, Purge
<1>3. ASSUME NEW k \in Key, FetchSk(k) \/ UnlinkSk(k) \/ PurgeBySk(k) PROVE Idle
  BY <1>3 DEF FetchSk, UnlinkSk, PurgeBySk
<1>4. ASSUME NEW k \in Key, NEW v \in Object, NEW sv \in BOOLEAN, NEW sk \in BOOLEAN, StoreSk(k, v, sv, sk)
      PROVE  Idle
  BY <1>4 DEF StoreSk
<1>5. ASSUME NEW a \in Attr, FetchA(a) \/ UnlinkA(a) \/ PurgeByA(a) PROVE Idle
  BY <1>5 DEF FetchA, UnlinkA, PurgeByA
<1>6. ASSUME NEW a \in Attr, NEW v \in Object, DissocA(a, v) PROVE Idle
  BY <1>6 DEF DissocA
<1>7. ASSUME NEW a \in Attr, NEW v \in Object, NEW sv \in BOOLEAN, NEW sa \in BOOLEAN, StoreA(a, v, sv, sa)
      PROVE  Idle
  BY <1>7 DEF StoreA
<1> QED BY <1>1, <1>2, <1>3, <1>4, <1>5, <1>6, <1>7 DEF Operation

\* While CLONE runs, the program does not.
LEMMA OnlyClone ==
  ASSUME RestOfClone
  PROVE  Cloning /\ ~ Next /\ ~ Idle /\ Top[1] \in CloneKinds
<1>1. PICK R \in SUBSET HasVhash, K \in SUBSET Live(Key), A \in SUBSET Live(Attr), V \in SUBSET HasVhash :
        todo \in Rests(R, K, A, V)
  BY DEF RestOfClone
<1> DEFINE r == <<"rename_reverse", R>>
           k == <<"rename_keys", K>>
           a == <<"rename_attrs", A>>
           v == <<"rename_vhashes", V>>
           f == <<"free_temps">>
           c == <<"cloned">>
<1>2. todo \in {<<r, k, a, v, c>>, <<k, a, v, c>>, <<a, v, c>>, <<f, a, v, c>>, <<v, c>>, <<c>>}
  BY <1>1 DEF Rests
<1>3. \A x \in {r, k, a, v, f, c} : x[1] \in CloneKinds
  BY DEF CloneKinds
<1> HIDE DEF r, k, a, v, f, c
<1>4. todo # <<>> /\ Last(todo) = c /\ Top \in {r, k, a, v, f, c}
  <2>1. CASE todo = <<r, k, a, v, c>>
    BY <2>1 DEF Last, Top
  <2>2. CASE todo = <<k, a, v, c>>
    BY <2>2 DEF Last, Top
  <2>3. CASE todo = <<a, v, c>>
    BY <2>3 DEF Last, Top
  <2>4. CASE todo = <<f, a, v, c>>
    BY <2>4 DEF Last, Top
  <2>5. CASE todo = <<v, c>>
    BY <2>5 DEF Last, Top
  <2>6. CASE todo = <<c>>
    BY <2>6 DEF Last, Top
  <2> QED BY <1>2, <2>1, <2>2, <2>3, <2>4, <2>5, <2>6
<1>5. Cloning
  BY <1>4 DEF Cloning, c
<1> QED BY <1>3, <1>4, <1>5, StepNotClone, OperationIdle DEF Next, Idle

-----------------------------------------------------------------------------
(* A table at rest is a copy in which nothing is left to mend.              *)

LEMMA OneAction ==
  ASSUME NEW S, NEW q \in Seq(S), NoDuplicate(q), NEW x, ToSet(q) = {x}
  PROVE  q = <<x>>
<1>1. \A i \in 1..Len(q) : q[i] = x
  BY DEF ToSet
<1>2. \A i, j \in 1..Len(q) : i = j
  BY <1>1 DEF NoDuplicate
<1>3. Len(q) # 0
  BY DEF ToSet
<1>4. Len(q) = 1
  <2>1. Len(q) \in Nat
    OBVIOUS
  <2>2. ASSUME Len(q) > 1 PROVE FALSE
    <3>1. 1 \in 1..Len(q) /\ 2 \in 1..Len(q)
      BY <2>1, <2>2
    <3>2. 1 = 2
      BY <1>2, <3>1
    <3> QED BY <3>2
  <2>3. ~ (Len(q) > 1)
    BY <2>2
  <2>4. \A n \in Nat : n # 0 /\ ~ (n > 1) => n = 1
    OBVIOUS
  <2> QED BY <1>3, <2>1, <2>3, <2>4
<1> QED BY <1>1, <1>4

LEMMA NothingLeft ==
  ASSUME todo = <<>>
  PROVE  (\A p : Left(p) = {}) /\ IndexLeft = {}
BY DEF Left, LeftIn, IndexLeft, ToSet

LEMMA RestReferred ==
  ASSUME IInv, TablesInv, ObjGone, Idle, OneType
  PROVE  CopyReferred /\ Meant = obj
<1>1. IndexLeft = {} /\ \A p : Left(p) = {}
  BY NothingLeft DEF Idle
<1>2. obj \in [Index -> Entry \cup {"dangling"}]
  BY DEF IInv, Shape, DataShape, Typed
<1>3. \A i \in Index : obj[i] # "parent"
  BY <1>2 DEF Entry, Ref
<1>4. Meant = obj
  BY <1>2, <1>3 DEF Meant
<1>5. ASSUME NEW k \in Key, life[k] = "live", IsEncap(k) PROVE obj[k] \in Ref
  <2>1. TheObject(k) \in Object /\ k \in Index
    BY <1>5, Encap, Apartness
  <2>2. <<"encap_destroy_hook", k>> \in ToSet(acts[TheObject(k)])
    BY <1>5, <2>1, ObjectHasActions
  <2>3. life[TheObject(k)] = "live"
    BY <2>1, <2>2, AtRest, Apartness
  <2> QED BY <1>5, <2>2, <2>3 DEF TablesInv, KeyHookLives
<1> QED BY <1>1, <1>3, <1>4, <1>5 DEF CopyReferred, ObjGone

LEMMA RestCounted ==
  ASSUME IInv, TablesInv, Idle
  PROVE  CopyCounted
<1>1. Counted
  BY CountedAtRest
<1>2. \A n \in Node : rc[n] \in Nat /\ life[n] = IF rc[n] > 0 THEN "live" ELSE "free"
  BY LiveAtRest DEF Idle
<1>3. \A n \in Node : (life[n] = "free" => rc[n] = 0) /\ (life[n] = "live" => rc[n] > 0)
  BY <1>2
<1> QED BY <1>1, <1>3 DEF Counted, CopyCounted, Vhashes

LEMMA RestOwns ==
  ASSUME IInv, TablesInv, Idle, OneType, NEW i \in Index
  PROVE  acts[i] = IF life[i] = "live" THEN OwnActions(i) ELSE <<>>
<1>1. i \in Node /\ life[i] \in {"live", "free"}
  BY AtRest, Apartness
<1>2. CASE life[i] = "free"
  BY <1>1, <1>2 DEF IInv, FreeClean
<1>3. acts[i] \in Seq(Action) /\ NoDuplicate(acts[i])
  BY <1>1 DEF IInv, ActsOnce, Shape, DataShape, Typed
<1>4. ASSUME life[i] = "live", NEW x, ToSet(acts[i]) = {x}, ToSet(OwnActions(i)) = {x}
      PROVE  acts[i] = OwnActions(i)
  <2>1. OwnActions(i) \in Seq(Action) /\ NoDuplicate(OwnActions(i))
    BY OwnActionsProps
  <2>2. acts[i] = <<x>>
    BY <1>3, <1>4, OneAction
  <2>3. OwnActions(i) = <<x>>
    BY <1>4, <2>1, OneAction
  <2> QED BY <2>2, <2>3
<1>5. CASE life[i] = "live" /\ i \in Attr
  <2>1. ToSet(acts[i]) = {<<"attr_destroy_trigger", i>>}
    BY <1>5, AttrHasActions
  <2>2. ToSet(OwnActions(i)) = {<<"attr_destroy_trigger", i>>}
    BY <1>5, OwnActionsProps
  <2> QED BY <1>4, <1>5, <2>1, <2>2
<1>6. CASE life[i] = "live" /\ i \in Key /\ IsEncap(i)
  <2>1. ToSet(acts[i]) = {<<"k_encap_cleanup", i>>}
    BY <1>6, KeyHasActions
  <2>2. ToSet(OwnActions(i)) = {<<"k_encap_cleanup", i>>}
    BY <1>6, KeyActions
  <2> QED BY <1>4, <1>6, <2>1, <2>2
<1>7. CASE life[i] = "live" /\ i \in Key /\ ~ IsEncap(i)
  <2>1. slookup[i] # "none"
    BY <1>7, KeysAgree
  <2> QED BY <1>7, <2>1 DEF TablesInv, KeyFound, Idle
<1> QED BY <1>1, <1>2, <1>5, <1>6, <1>7, Apartness

LEMMA RestHooked ==
  ASSUME IInv, TablesInv, Idle, OneType
  PROVE  CopyHooked
<1>1. IndexLeft = {} /\ \A p : Left(p) = {}
  BY NothingLeft DEF Idle
<1>2. ASSUME NEW o \in Object
      PROVE  ToSet(acts[o]) =
         {<<"rlookup", v>> : v \in {u \in {o} \ Left("rename_reverse") : rlookup[u] # Null}}
         \cup {<<"attrhash", a, o>> : a \in (Under(o) \cap Attr) \ IndexLeft}
         \cup {<<"encap_destroy_hook", k>> :
                 k \in {j \in Key \ IndexLeft : TheObject(j) = o /\ life[j] = "live"}}
         \cup {Hook(a) : a \in {b \in Attr \ IndexLeft : TheObject(b) = o /\ life[b] = "live"}}
  <2> DEFINE R == IF rlookup[o] = Null THEN {} ELSE {<<"rlookup", o>>}
             S == {<<"rlookup", v>> : v \in {u \in {o} \ Left("rename_reverse") : rlookup[u] # Null}}
             A == {<<"attrhash", a, o>> : a \in Under(o) \cap Attr}
             B == {<<"attrhash", a, o>> : a \in (Under(o) \cap Attr) \ IndexLeft}
             K == {<<"encap_destroy_hook", k>> : k \in {j \in Key : TheObject(j) = o /\ life[j] = "live"}}
             L == {<<"encap_destroy_hook", k>> :
                     k \in {j \in Key \ IndexLeft : TheObject(j) = o /\ life[j] = "live"}}
             H == {<<"encap_attr_destroy_hook", a>> :
                     a \in {b \in Attr : TheObject(b) = o /\ life[b] = "live"}}
             I == {Hook(a) : a \in {b \in Attr \ IndexLeft : TheObject(b) = o /\ life[b] = "live"}}
  <2>1. R = S
    BY <1>1
  <2>2. A = B
    BY <1>1
  <2>3. K = L
    BY <1>1
  <2>4. H = I
    BY <1>1 DEF Hook
  <2>5. ToSet(acts[o]) = R \cup A \cup K \cup H
    BY HookedAtRest DEF Hooked
  <2> HIDE DEF R, S, A, B, K, L, H, I
  <2>6. ToSet(acts[o]) = S \cup B \cup L \cup I
    BY <2>1, <2>2, <2>3, <2>4, <2>5
  <2> QED BY <2>6 DEF S, B, L, I
<1>3. \A i \in Index : acts[i] = IF life[i] = "live" /\ i \notin IndexLeft THEN OwnActions(i) ELSE <<>>
  BY <1>1, RestOwns
<1>4. ActsOnce
  BY DEF IInv
<1> QED BY <1>2, <1>3, <1>4 DEF CopyHooked

LEMMA RestIsCopy ==
  ASSUME IInv, TablesInv, ObjGone, Remembered, Idle, OneType
  PROVE  CopyInv
<1>1. CopyTyped
  <2>1. iter = Null /\ values = {}
    BY LiveAtRest DEF Idle, IInv, ValuesKept, Ends
  <2>2. life \in [Node -> {"free", "live"}]
    BY AtRest DEF IInv, Shape, DataShape, Typed
  <2>3. obj \in [Index -> Entry \cup {"dangling", "parent"}]
    BY DEF IInv, Shape, DataShape, Typed
  <2> QED BY <2>1, <2>2, <2>3 DEF CopyTyped, IInv, Shape, DataShape, Typed
<1>2. CopyAgreed
  <2>1. Agreed
    BY AgreedAtRest
  <2>2. ASSUME NEW a \in Attr, life[a] = "live", IsEncap(a) PROVE obj_paddr[a]
    BY <2>2, Encap, AttrObjects DEF IInv, AttrHooks
  <2> QED BY <2>1, <2>2 DEF CopyAgreed, IInv, FreeClean, TablesInv, KeyOwns
<1>3. CopyReferred /\ Meant = obj
  BY RestReferred
<1>4. CopyViewed
  <2>1. before = View
    BY DEF Remembered
  <2>2. View = ViewOf(obj)
    BY DEF View, ViewOf
  <2> QED BY <1>3, <2>1, <2>2 DEF CopyViewed
<1> QED BY <1>1, <1>2, <1>3, <1>4, RestCounted, RestHooked DEF CopyInv

-----------------------------------------------------------------------------
(* A copy in which nothing is left to mend is a table at rest.              *)

\* What the five tables say of each other, in a copy.
LEMMA CopyUnder ==
  ASSUME CopyTyped, CopyAgreed, CopyCounted
  PROVE  /\ \A v \in Object : \A i \in Under(v) : i \in Index /\ life[i] = "live" /\ life[v] = "live"
         /\ \A k \in Key, v \in Object : k \in Under(v) <=> flookup[k].value = v
         /\ \A k \in Key : flookup[k].mode # "none" <=> life[k] = "live"
         /\ \A k \in Key : slookup[k] # "none" <=> life[k] = "live"
         /\ \A a \in Attr : attr_lookup[a] # "none" <=> life[a] = "live"
         /\ \A a \in Attr, v \in Object : attrhash[a][v] # "none" <=> a \in Under(v)
<1>1. \A n \in Node : life[n] \in {"free", "live"}
  BY DEF CopyTyped
<1>2. ASSUME NEW v \in Object, NEW i \in Under(v) PROVE i \in Index /\ life[i] = "live" /\ life[v] = "live"
  <2>1. rlookup[v] # Null /\ rlookup[v] \in (SUBSET Index) \cup {Null}
    BY <1>2 DEF Under, CopyTyped
  <2>2. i \in Index /\ i \in Node /\ v \in Node
    BY <1>2, <2>1, Apartness DEF Under
  <2>3. life[v] = "live"
    BY <1>1, <2>1, <2>2 DEF CopyAgreed
  <2>4. v \in Vhashes(i)
    BY <1>2 DEF Vhashes
  <2>5. rc[i] # 0
    <3>1. IsFiniteSet(Vhashes(i)) /\ Cardinality(Vhashes(i)) \in Nat
      BY StrongFinite
    <3>2. Cardinality(Vhashes(i)) # 0
      BY <2>4, <3>1, FS_EmptySet
    <3> QED BY <2>2, <3>2 DEF CopyCounted
  <2>6. life[i] = "live"
    BY <1>1, <2>2, <2>5 DEF CopyCounted
  <2> QED BY <2>2, <2>3, <2>6
<1>3. ASSUME NEW k \in Key
      PROVE  (flookup[k].mode # "none" <=> life[k] = "live") /\ (slookup[k] # "none" <=> life[k] = "live")
  BY DEF CopyAgreed, Agreed, Ref
<1>4. ASSUME NEW a \in Attr PROVE attr_lookup[a] # "none" <=> life[a] = "live"
  BY DEF CopyAgreed, Agreed
<1>5. ASSUME NEW a \in Attr, NEW v \in Object PROVE attrhash[a][v] # "none" <=> a \in Under(v)
  BY DEF CopyAgreed, Agreed, Ref
<1> QED BY <1>2, <1>3, <1>4, <1>5 DEF CopyAgreed, Agreed

LEMMA CopyDone ==
  ASSUME CopyInv, todo = <<>>
  PROVE  /\ IndexLeft = {} /\ \A p : Left(p) = {}
         /\ \A i \in Index : obj[i] # "parent"
         /\ Meant = obj
         /\ obj \in [Index -> Entry \cup {"dangling"}]
         /\ \A n \in Node : rc[n] \in Int /\ life[n] \in {"free", "live"}
         /\ \A n \in Node : life[n] = "live" => rc[n] > 0
         /\ \A i \in Index : acts[i] = IF life[i] = "live" THEN OwnActions(i) ELSE <<>>
<1>1. IndexLeft = {} /\ \A p : Left(p) = {}
  BY NothingLeft
<1>2. \A i \in Index : obj[i] # "parent"
  BY <1>1 DEF CopyInv, CopyReferred
<1>3. obj \in [Index -> Entry \cup {"dangling", "parent"}]
  BY DEF CopyInv, CopyTyped
<1>4. Meant = obj
  BY <1>2, <1>3 DEF Meant
<1>5. obj \in [Index -> Entry \cup {"dangling"}]
  BY <1>2, <1>3
<1>6. \A n \in Node : rc[n] \in Int /\ life[n] \in {"free", "live"}
  BY DEF CopyInv, CopyTyped
<1>7. \A n \in Node : life[n] = "live" => rc[n] > 0
  BY <1>2 DEF CopyInv, CopyCounted
<1>8. \A i \in Index : acts[i] = IF life[i] = "live" THEN OwnActions(i) ELSE <<>>
  BY <1>1 DEF CopyInv, CopyHooked
<1> QED BY <1>1, <1>2, <1>4, <1>5, <1>6, <1>7, <1>8

\* The actions of an object, when nothing is left to mend.
LEMMA CopyActs ==
  ASSUME CopyInv, todo = <<>>, NEW o \in Object
  PROVE  /\ rlookup[o] # Null <=> <<"rlookup", o>> \in ToSet(acts[o])
         /\ \A a \in Attr : a \in Under(o) <=> <<"attrhash", a, o>> \in ToSet(acts[o])
         /\ \A k \in Key : TheObject(k) = o /\ life[k] = "live" <=>
              <<"encap_destroy_hook", k>> \in ToSet(acts[o])
         /\ \A a \in Attr : TheObject(a) = o /\ life[a] = "live" <=> Hook(a) \in ToSet(acts[o])
         /\ ToSet(acts[o]) \subseteq ActionsOf(o)
<1> DEFINE S == {<<"rlookup", v>> : v \in {u \in {o} : rlookup[u] # Null}}
           B == {<<"attrhash", a, o>> : a \in Under(o) \cap Attr}
           L == {<<"encap_destroy_hook", k>> : k \in {j \in Key : TheObject(j) = o /\ life[j] = "live"}}
           I == {Hook(a) : a \in {b \in Attr : TheObject(b) = o /\ life[b] = "live"}}
<1>1. ToSet(acts[o]) = S \cup B \cup L \cup I
  <2>1. IndexLeft = {} /\ Left("rename_reverse") = {}
    BY CopyDone
  <2>2. /\ {o} \ {} = {o} /\ (Under(o) \cap Attr) \ {} = Under(o) \cap Attr
        /\ Key \ {} = Key /\ Attr \ {} = Attr
    OBVIOUS
  <2> QED BY <2>1, <2>2 DEF CopyInv, CopyHooked
<1>2. \A x \in S : x[1] = "rlookup"
  OBVIOUS
<1>3. \A x \in B : x[1] = "attrhash"
  OBVIOUS
<1>4. \A x \in L : x[1] = "encap_destroy_hook"
  OBVIOUS
<1>5. \A x \in I : x[1] = "encap_attr_destroy_hook"
  BY DEF Hook
<1>6. rlookup[o] # Null <=> <<"rlookup", o>> \in S
  OBVIOUS
<1>7. \A a \in Attr : a \in Under(o) <=> <<"attrhash", a, o>> \in B
  OBVIOUS
<1>8. \A k \in Key : TheObject(k) = o /\ life[k] = "live" <=> <<"encap_destroy_hook", k>> \in L
  OBVIOUS
<1>9. \A a \in Attr : TheObject(a) = o /\ life[a] = "live" <=> Hook(a) \in I
  BY DEF Hook
<1>10. S \cup B \cup L \cup I \subseteq ActionsOf(o)
  BY DEF ActionsOf, Made, Hook
<1> HIDE DEF S, B, L, I
<1>11. rlookup[o] # Null <=> <<"rlookup", o>> \in ToSet(acts[o])
  BY <1>1, <1>2, <1>3, <1>4, <1>5, <1>6
<1>12. \A a \in Attr : a \in Under(o) <=> <<"attrhash", a, o>> \in ToSet(acts[o])
  BY <1>1, <1>2, <1>3, <1>4, <1>5, <1>7
<1>13. \A k \in Key : TheObject(k) = o /\ life[k] = "live" <=> <<"encap_destroy_hook", k>> \in ToSet(acts[o])
  BY <1>1, <1>2, <1>3, <1>4, <1>5, <1>8
<1>14. \A a \in Attr : TheObject(a) = o /\ life[a] = "live" <=> Hook(a) \in ToSet(acts[o])
  <2>1. \A a : Hook(a)[1] = "encap_attr_destroy_hook"
    BY DEF Hook
  <2> QED BY <1>1, <1>2, <1>3, <1>4, <1>5, <1>9, <2>1
<1> QED BY <1>1, <1>10, <1>11, <1>12, <1>13, <1>14

LEMMA CopyShape ==
  ASSUME CopyInv, todo = <<>>, kept = {}
  PROVE  Shape
<1>1. Typed
  <2>1. obj \in [Index -> Entry \cup {"dangling"}]
    BY CopyDone
  <2>2. life \in [Node -> {"free", "live", "dying"}]
    BY DEF CopyInv, CopyTyped
  <2> QED BY <2>1, <2>2 DEF CopyInv, CopyTyped, Typed
<1>2. ActionsTyped
  <2>1. ASSUME NEW i \in Index PROVE ToSet(acts[i]) \subseteq ActionsOf(i)
    <3>1. acts[i] = OwnActions(i) \/ acts[i] = <<>>
      BY CopyDone
    <3> QED BY <3>1, OwnActionsProps DEF ToSet
  <2> QED BY <2>1, CopyActs, Apartness DEF ActionsTyped
<1>3. TodoShape
  <2>1. todo \in Seq(Task) /\ AllGrounded
    BY NothingWaits DEF AllGrounded, GroundedIn
  <2>2. \A x : x \notin ToSet(todo)
    BY NothingToDo
  <2>3. LoopOpen
    BY <2>2 DEF LoopOpen, CopyInv, CopyTyped
  <2>4. KeptOpen
    BY DEF KeptOpen
  <2>5. \A n \in Node : life[n] # "dying"
    BY CopyDone
  <2>6. FreeOpen
    BY <2>2, <2>5 DEF FreeOpen
  <2> QED BY <2>1, <2>3, <2>4, <2>6 DEF TodoShape
<1> QED BY <1>1, <1>2, <1>3 DEF Shape, DataShape, CopyInv, CopyTyped

LEMMA CopyCounts ==
  ASSUME CopyInv, todo = <<>>
  PROVE  ObjectsCounted /\ IndexCounted /\ LifeCounted
<1>1. iter = Null /\ values = {} /\ \A X : Occurs(todo, X) = 0
  BY NothingWaits DEF CopyInv, CopyTyped
<1>2. ASSUME NEW o \in Object
      PROVE  rc[o] = One(o \in held) + One(o \in values)
               + Cardinality(StrongKeys(o)) + Cardinality(StrongAttrs(o)) + Cardinality(StrongObjs(o))
               + Occurs(todo, Holding(o))
  <2>1. /\ Cardinality(StrongKeys(o)) \in Nat /\ Cardinality(StrongAttrs(o)) \in Nat
        /\ Cardinality(StrongObjs(o)) \in Nat
    BY StrongFinite
  <2>2. rc[o] = References(o)
    BY DEF CopyInv, CopyCounted
  <2>3. One(o \in values) = 0 /\ One(o \in held) \in Nat /\ Occurs(todo, Holding(o)) = 0
    BY <1>1 DEF One
  <2> QED BY <2>1, <2>2, <2>3, ReferencesIs, SMTT(40)
<1>3. ASSUME NEW i \in Index
      PROVE  rc[i] = Cardinality(Vhashes(i)) + Gone(i) + Occurs(todo, Holding(i))
  <2>1. Gone(i) = 0 /\ Occurs(todo, Holding(i)) = 0 /\ Cardinality(Vhashes(i)) \in Nat
    BY <1>1, StrongFinite DEF Gone, One
  <2>2. rc[i] = Cardinality(Vhashes(i))
    BY DEF CopyInv, CopyCounted
  <2> QED BY <2>1, <2>2
<1>4. LifeCounted
  BY CopyDone DEF LifeCounted, CopyInv, CopyCounted
<1> QED BY <1>2, <1>3, <1>4 DEF ObjectsCounted, IndexCounted

LEMMA CopyEntries ==
  ASSUME CopyInv, todo = <<>>
  PROVE  /\ WeakLive /\ UnderHas /\ VhashHooked /\ FreeClean
         /\ RefUnder /\ HashFound /\ ForwardHooked /\ ObjectHooked /\ ValuesKept
         /\ ActsOnce /\ AttrHooks /\ HookRuns
<1> USE CopyUnder DEF CopyInv
<1>1. (\A x : x \notin ToSet(todo)) /\ (\A U, W : Ahead(todo, U, W))
  BY NothingToDo
<1>2. /\ \A n \in Node : life[n] \in {"free", "live"}
      /\ \A i \in Index : acts[i] = IF life[i] = "live" THEN OwnActions(i) ELSE <<>>
  BY CopyDone
<1>3. ASSUME NEW i \in Index, obj[i] \in Ref
      PROVE  life[i] = "live" /\ TheObject(i) \in Object /\ life[TheObject(i)] = "live"
  <2>1. TheObject(i) \in Object /\ i \in Node
    BY <1>3, Apartness DEF CopyTyped, EntriesTyped, Ref
  <2>2. life[i] = "live"
    BY <1>2, <1>3, <2>1 DEF CopyReferred, Ref
  <2>3. TheObject(i) \in ObjectsOf(i)
    BY <2>1, Encap DEF IsEncap, ObjectsOf, Store!ObjectsOf, TheObject
  <2> QED BY <2>1, <2>2, <2>3 DEF CopyAgreed, Agreed
<1>4. WeakLive
  <2>1. ASSUME NEW k \in Key
        PROVE  slookup[k] # "strong" /\ (slookup[k] = "weak" => life[k] = "live")
    BY DEF CopyAgreed, Agreed
  <2>2. ASSUME NEW a \in Attr
        PROVE  attr_lookup[a] # "strong" /\ (attr_lookup[a] = "weak" => life[a] = "live")
    BY DEF CopyAgreed, Agreed
  <2>3. ASSUME NEW k \in Key, flookup[k].mode = "weak" PROVE life[flookup[k].value] = "live"
    <3>1. flookup[k].value \in Object
      BY <2>3 DEF CopyTyped, EntriesTyped, Ref
    <3> QED BY <3>1
  <2>4. ASSUME NEW a \in Attr, NEW v \in Object, attrhash[a][v] = "weak" PROVE life[v] = "live"
    BY <2>4
  <2>5. ASSUME NEW i \in Index, obj[i] = "weak" PROVE life[TheObject(i)] = "live"
    BY <1>3, <2>5 DEF Ref
  <2> QED BY <2>1, <2>2, <2>3, <2>4, <2>5 DEF WeakLive
<1>5. UnderHas
  BY DEF UnderHas
<1>6. VhashHooked
  BY CopyActs DEF VhashHooked
<1>7. FreeClean
  <2>1. ASSUME NEW o \in Object, life[o] = "free" PROVE acts[o] = <<>>
    <3>1. rlookup[o] = Null /\ Under(o) = {}
      BY <2>1 DEF CopyAgreed, Under
    <3>2. \A i \in Index : TheObject(i) = o => life[i] # "live"
      <4> SUFFICES ASSUME NEW i \in Index, TheObject(i) = o, life[i] = "live" PROVE FALSE
        OBVIOUS
      <4>1. o \in ObjectsOf(i)
        BY Encap DEF IsEncap, ObjectsOf, Store!ObjectsOf, TheObject
      <4> QED BY <2>1, <4>1 DEF CopyAgreed, Agreed
    <3>3. ASSUME NEW x \in ToSet(acts[o]) PROVE FALSE
      <4>1. \/ x = <<"rlookup", o>>
            \/ \E a \in Attr : x = <<"attrhash", a, o>>
            \/ \E k \in Key : TheObject(k) = o /\ x = <<"encap_destroy_hook", k>>
            \/ \E a \in Attr : TheObject(a) = o /\ x = Hook(a)
        <5>1. x \in ActionsOf(o)
          BY <3>3, CopyActs
        <5> QED BY <5>1 DEF ActionsOf, Made, Hook
      <4>2. <<"rlookup", o>> \notin ToSet(acts[o])
        BY <3>1, CopyActs
      <4>3. \A a \in Attr : <<"attrhash", a, o>> \notin ToSet(acts[o])
        BY <3>1, CopyActs
      <4>4. \A k \in Key : TheObject(k) = o => <<"encap_destroy_hook", k>> \notin ToSet(acts[o])
        BY <3>2, CopyActs, Apartness
      <4>5. \A a \in Attr : TheObject(a) = o => Hook(a) \notin ToSet(acts[o])
        BY <3>2, CopyActs, Apartness
      <4> QED BY <3>3, <4>1, <4>2, <4>3, <4>4, <4>5
    <3>4. acts[o] \in Seq(Action)
      BY Apartness DEF CopyTyped
    <3>5. Len(acts[o]) = 0
      <4>1. Len(acts[o]) \in Nat
        BY <3>4
      <4>2. Len(acts[o]) # 0 => acts[o][1] \in ToSet(acts[o])
        BY <3>4 DEF ToSet
      <4> QED BY <3>3, <4>1, <4>2
    <3> QED BY <3>4, <3>5
  <2>2. ASSUME NEW a \in Attr, NEW v \in Object, life[a] = "free" PROVE attrhash[a][v] = "none"
    BY <2>2
  <2>3. \A n \in Node : life[n] = "free" => acts[n] = <<>>
    BY <1>2, <2>1, Apartness
  <2> QED BY <2>2, <2>3 DEF FreeClean, CopyAgreed
<1>8. RefUnder
  BY <1>1 DEF RefUnder, Ref
<1>9. HashFound
  BY DEF HashFound
<1>10. ForwardHooked
  <2> SUFFICES ASSUME NEW k \in Key, flookup[k].mode # "none" PROVE Cleanup(k) \cap ToSet(acts[k]) # {}
    BY DEF ForwardHooked
  <2>1. acts[k] = OwnActions(k)
    BY <1>2, Apartness
  <2> QED BY <2>1, KeyActions
<1>11. ObjectHooked
  <2> SUFFICES ASSUME NEW i \in Index, obj[i] = "strong" PROVE OwnAction(i) \in ToSet(acts[i])
    BY DEF ObjectHooked
  <2>1. acts[i] = OwnActions(i) /\ IsEncap(i)
    BY <1>2, <1>3, Encap DEF Ref
  <2> QED BY <2>1, KeyActions, OwnActionsProps, Apartness DEF OwnAction
<1>12. ValuesKept
  <2>1. Len(todo) = 0
    OBVIOUS
  <2> QED BY <2>1 DEF ValuesKept, Closed, CopyTyped
<1>13. ActsOnce
  BY DEF CopyHooked
<1>14. AttrHooks
  <2> SUFFICES ASSUME NEW a \in Attr, TheObject(a) \in Object, Hook(a) \in ToSet(acts[TheObject(a)])
               PROVE  obj_paddr[a] /\ life[a] = "live" /\ Trigger(a) \in ToSet(acts[a])
    BY DEF AttrHooks
  <2>1. life[a] = "live" /\ IsEncap(a) /\ a \in Index
    BY CopyActs, Encap, Apartness
  <2>2. acts[a] = OwnActions(a)
    BY <1>2, <2>1
  <2>3. Trigger(a) \in ToSet(acts[a])
    BY <2>1, <2>2, OwnActionsProps DEF Trigger
  <2> QED BY <2>1, <2>3 DEF CopyAgreed
<1>15. HookRuns
  BY DEF HookRuns
<1> QED BY <1>4, <1>5, <1>6, <1>7, <1>8, <1>9, <1>10, <1>11, <1>12, <1>13, <1>14, <1>15

LEMMA CopyTables ==
  ASSUME CopyInv, todo = <<>>
  PROVE  TablesInv
<1> USE CopyUnder DEF CopyInv
<1>1. (\A x : x \notin ToSet(todo)) /\ (\A U, W : Ahead(todo, U, W)) /\ (\A v : ~ Doomed(v))
  BY NothingToDo
<1>2. \A i \in Index : acts[i] = IF life[i] = "live" THEN OwnActions(i) ELSE <<>>
  BY CopyDone
<1>3. KeyUnder
  <2> SUFFICES ASSUME NEW k \in Key, NEW v \in Object, k \in Under(v)
               PROVE  slookup[k] = "weak" /\ flookup[k].mode \in Ref /\ flookup[k].value = v
    BY <1>1 DEF KeyUnder
  <2> QED BY DEF CopyAgreed, Agreed
<1>4. KeyFound
  <2> SUFFICES ASSUME NEW k \in Key, slookup[k] # "none"
               PROVE  /\ flookup[k].mode # "none"
                      /\ IF IsEncap(k) THEN <<"k_encap_cleanup", k>> \in ToSet(acts[k])
                                       ELSE acts[k] = OwnActions(k)
    BY <1>1 DEF KeyFound
  <2>1. acts[k] = OwnActions(k)
    BY <1>2, Apartness
  <2> QED BY <2>1, KeyActions
<1>5. KeyOwns
  <2> SUFFICES ASSUME NEW k \in Key PROVE ToSet(acts[k]) \subseteq ToSet(OwnActions(k))
    BY DEF KeyOwns, CopyAgreed
  <2>1. acts[k] = OwnActions(k) \/ acts[k] = <<>>
    BY <1>2, Apartness
  <2> QED BY <2>1 DEF ToSet
<1>6. EmptyChecked
  BY DEF EmptyChecked, CopyAgreed, Agreed
<1>7. VhashAction
  BY <1>1, CopyActs DEF VhashAction
<1>8. ValueHooked
  <2> SUFFICES ASSUME NEW a \in Attr, NEW v \in Object
               PROVE  /\ attrhash[a][v] # "none" <=> <<"attrhash", a, v>> \in ToSet(acts[v])
                      /\ attrhash[a][v] # "undef"
    BY DEF ValueHooked
  <2> QED BY CopyActs DEF CopyAgreed, Agreed, Ref
<1>9. AttrOwns
  <2> SUFFICES ASSUME NEW a \in Attr
               PROVE  /\ attr_lookup[a] # "none" => Trigger(a) \in ToSet(acts[a])
                      /\ attr_lookup[a] # "undef"
    BY DEF AttrOwns
  <2>1. attr_lookup[a] # "undef"
    BY DEF CopyAgreed, Agreed
  <2>2. ASSUME attr_lookup[a] # "none" PROVE Trigger(a) \in ToSet(acts[a])
    <3>1. acts[a] = OwnActions(a) /\ a \in Index
      BY <1>2, <2>2, Apartness
    <3> QED BY <3>1, OwnActionsProps DEF Trigger
  <2> QED BY <2>1, <2>2
<1>10. KeyHooked
  <2> SUFFICES ASSUME NEW k \in Key, NEW v \in Object, k \in Under(v), IsEncap(k)
               PROVE  <<"encap_destroy_hook", k>> \in ToSet(acts[TheObject(k)])
    BY DEF KeyHooked
  <2>1. TheObject(k) \in Object /\ life[k] = "live"
    BY Encap
  <2> QED BY <2>1, CopyActs
<1>11. KeyHookLives
  <2> SUFFICES ASSUME NEW k \in Key, IsEncap(k), <<"encap_destroy_hook", k>> \in ToSet(acts[TheObject(k)])
               PROVE  obj[k] \in Ref /\ <<"k_encap_cleanup", k>> \in ToSet(acts[k])
    BY DEF KeyHookLives
  <2>1. TheObject(k) \in Object /\ k \in Index
    BY Encap, Apartness
  <2>2. life[k] = "live"
    BY <2>1, CopyActs
  <2>3. acts[k] = OwnActions(k)
    BY <1>2, <2>1, <2>2
  <2>4. obj[k] \in Ref
    BY <2>1, <2>2, CopyDone DEF CopyReferred
  <2> QED BY <2>3, <2>4, KeyActions
<1>12. AttrHooked
  <2> SUFFICES ASSUME NEW a \in Attr, attr_lookup[a] # "none", IsEncap(a)
               PROVE  Hook(a) \in ToSet(acts[TheObject(a)])
    BY DEF AttrHooked
  <2> QED BY Encap, CopyActs
<1> QED BY <1>3, <1>4, <1>5, <1>6, <1>7, <1>8, <1>9, <1>10, <1>11, <1>12 DEF TablesInv

LEMMA CopyIsRest ==
  ASSUME CopyInv, todo = <<>>, kept = {}
  PROVE  IInv /\ TablesInv /\ ObjGone /\ Remembered
<1>1. IInv /\ TablesInv
  BY CopyShape, CopyCounts, CopyEntries, CopyTables DEF IInv
<1>2. ObjGone
  BY DEF ObjGone, CopyInv, CopyReferred
<1>3. View = ViewOf(obj)
  BY DEF View, ViewOf
<1>4. Remembered
  BY <1>3, CopyDone DEF Remembered, CopyInv, CopyViewed
<1> QED BY <1>1, <1>2, <1>4

-----------------------------------------------------------------------------
(* CLONE begins.                                                            *)

LEMMA OneKey ==
  ASSUME NEW k \in Key, NEW j \in Key, TheObject(k) = TheObject(j)
  PROVE  k = j
BY DEF Key, Store!Key, TheObject

LEMMA ReferencesIsNext ==
  ASSUME NEW o
  PROVE  References(o)' = One((o \in held)') + Cardinality(StrongKeys(o)') + Cardinality(StrongAttrs(o)')
                            + Cardinality(StrongObjs(o)')
<1>1. {o} \cap held' = IF o \in held' THEN {o} ELSE {}
  OBVIOUS
<1>2. Cardinality({o} \cap held') = One(o \in held')
  BY <1>1, FS_EmptySet, FS_Singleton DEF One
<1> QED BY <1>2 DEF References, StrongKeys, StrongAttrs, StrongObjs

\* What CLONE leaves as it is.
LEMMA AgreedSame ==
  ASSUME CopyAgreed, UNCHANGED <<life, tables, obj_paddr, attrhash>>
  PROVE  CopyAgreed'
BY DEF CopyAgreed, Agreed, Under, tables

LEMMA ViewSame ==
  ASSUME CopyViewed, UNCHANGED <<held, life, tables, attrhash, before>>, Meant' = Meant
  PROVE  CopyViewed'
BY DEF CopyViewed, ViewOf, tables

LEMMA TypedSame ==
  ASSUME CopyTyped, UNCHANGED <<held, life, tables, obj_paddr, attrhash, loops>>,
         rc' \in [Node -> Int], acts' \in [Node -> Seq(Action)],
         obj' \in [Index -> Entry \cup {"dangling", "parent"}],
         \A i \in Index : obj'[i] # "none" => TheObject(i) \in Object
  PROVE  CopyTyped'
BY DEF CopyTyped, EntriesTyped, tables, loops

LEMMA NotesTaken ==
  ASSUME OneType, CopyInv, Clone, NEW i \in Index, life[i] = "live", IsEncap(i)
  PROVE  Noted(i)' = obj[i] /\ Noted(i)' \in Ref \cup {"none"}
<1> DEFINE o == TheObject(i)
<1>1. o \in Object
  BY Encap
<1>2. CASE i \in Key
  <2>1. EncapOf(Key, o) = {i}
    BY <1>2, OneKey DEF EncapOf, Live
  <2>2. kinfo'[o] \in {obj[j] : j \in EncapOf(Key, o)} /\ kinfo'[o] \in {"none"} \cup Ref
    BY <1>1, <2>1 DEF Clone, KeyNotes, Notes
  <2> QED BY <1>2, <2>1, <2>2 DEF Noted
<1>3. CASE i \in Attr
  <2>1. EncapOf(Attr, o) = {i}
    BY <1>3 DEF EncapOf, Live, OneType
  <2>2. ainfo'[o] \in {obj[j] : j \in EncapOf(Attr, o)} /\ ainfo'[o] \in {"none"} \cup Ref
    BY <1>1, <2>1 DEF Clone, AttrNotes, Notes
  <2> QED BY <1>3, <2>1, <2>2, Apartness DEF Noted
<1> QED BY <1>2, <1>3, Apartness

\* What CLONE has to do when it begins.
LEMMA AllLeft ==
  ASSUME Clone
  PROVE  /\ Left("rename_reverse")' = HasVhash /\ Left("rename_keys")' = Live(Key)
         /\ Left("rename_attrs")' = Live(Attr) /\ Left("rename_vhashes")' = HasVhash
         /\ IndexLeft' = Live(Key) \cup Live(Attr)
         /\ RestOfClone'
<1>1. todo' = <<<<"rename_reverse", HasVhash>>, <<"rename_keys", Live(Key)>>,
                <<"rename_attrs", Live(Attr)>>, <<"rename_vhashes", HasVhash>>, <<"cloned">>>>
  BY DEF Clone
<1>2. /\ LeftIn(todo', "rename_reverse") = HasVhash /\ LeftIn(todo', "rename_keys") = Live(Key)
      /\ LeftIn(todo', "rename_attrs") = Live(Attr) /\ LeftIn(todo', "rename_vhashes") = HasVhash
  BY <1>1, LeftIs
<1>3. HasVhash' = HasVhash /\ Live(Key)' = Live(Key) /\ Live(Attr)' = Live(Attr)
  BY DEF Clone, HasVhash, Live, tables
<1>4. todo' \in Rests(HasVhash, Live(Key), Live(Attr), HasVhash)
  BY <1>1 DEF Rests
<1>5. RestOfClone'
  BY <1>3, <1>4 DEF RestOfClone
<1> QED BY <1>2, <1>5 DEF Left, IndexLeft

LEMMA CloneReferred ==
  ASSUME OneType, CopyInv, Clone
  PROVE  CopyReferred' /\ Meant' = Meant
<1> USE DEF CopyInv
<1>1. todo = <<>>
  BY DEF Clone, Idle
<1>2. Meant = obj /\ \A i \in Index : obj[i] # "parent"
  BY <1>1, CopyDone
<1>3. \A i \in Index : obj'[i] = IF obj[i] \in Ref THEN "parent" ELSE obj[i]
  BY DEF Clone
<1>4. \A i \in Index : life[i] \in {"free", "live"}
  BY Apartness DEF CopyTyped
<1>5. ASSUME NEW i \in Index, obj[i] \in Ref
      PROVE  /\ life[i] = "live" /\ IsEncap(i) /\ i \in IndexLeft'
             /\ Noted(i)' = obj[i]
  <2>1. life[i] = "live"
    BY <1>4, <1>5 DEF CopyReferred, Ref
  <2>2. IsEncap(i)
    BY <1>5, Encap DEF CopyTyped, EntriesTyped, Ref
  <2>3. i \in IndexLeft'
    BY <2>1, AllLeft, Apartness DEF Live
  <2> QED BY <2>1, <2>2, <2>3, NotesTaken
<1>6. Meant' = Meant
  <2>1. Meant' = [i \in Index |-> IF obj'[i] = "parent" THEN Noted(i)' ELSE obj'[i]]
    BY DEF Meant
  <2>2. \A i \in Index : (IF obj'[i] = "parent" THEN Noted(i)' ELSE obj'[i]) = obj[i]
    BY <1>2, <1>3, <1>5
  <2>3. obj = [i \in Index |-> obj[i]]
    BY DEF CopyTyped
  <2> QED BY <1>2, <2>1, <2>2, <2>3
<1>7. ASSUME NEW i \in Index
      PROVE  /\ life'[i] = "free" => obj'[i] = "none"
             /\ obj'[i] = "parent" => i \in IndexLeft'
             /\ i \in IndexLeft' /\ IsEncap(i) =>
                  /\ Noted(i)' \in Ref \cup {"none"}
                  /\ obj'[i] = IF Noted(i)' \in Ref THEN "parent" ELSE "none"
             /\ i \in Key /\ life'[i] = "live" /\ IsEncap(i) => Meant'[i] \in Ref
  <2>1. life' = life
    BY DEF Clone
  <2>2. life'[i] = "free" => obj'[i] = "none"
    BY <1>3, <2>1 DEF CopyReferred, Ref
  <2>3. obj'[i] = "parent" => i \in IndexLeft'
    BY <1>2, <1>3, <1>5
  <2>4. ASSUME i \in IndexLeft', IsEncap(i)
        PROVE  Noted(i)' \in Ref \cup {"none"} /\ obj'[i] = IF Noted(i)' \in Ref THEN "parent" ELSE "none"
    <3>1. life[i] = "live"
      BY <2>4, AllLeft DEF Live
    <3>2. Noted(i)' = obj[i] /\ Noted(i)' \in Ref \cup {"none"}
      BY <2>4, <3>1, NotesTaken
    <3> QED BY <1>3, <3>2
  <2>5. i \in Key /\ life'[i] = "live" /\ IsEncap(i) => Meant'[i] \in Ref
    BY <1>6, <2>1 DEF CopyReferred
  <2> QED BY <2>2, <2>3, <2>4, <2>5
<1>8. \A i \in Index : IsEncap(i)' <=> IsEncap(i)
  BY DEF IsEncap
<1> QED BY <1>6, <1>7 DEF CopyReferred

LEMMA CloneCounted ==
  ASSUME OneType, CopyInv, Clone
  PROVE  CopyCounted' /\ rc' \in [Node -> Int]
<1> USE DEF CopyInv
<1>1. todo = <<>>
  BY DEF Clone, Idle
<1>2. \A n \in Node : rc'[n] = IF n \in Object THEN rc[n] - Cardinality(StrongObjs(n)) ELSE rc[n]
  BY DEF Clone, StrongObjs
<1>3. /\ \A n \in Node : rc[n] \in Int /\ life[n] \in {"free", "live"}
      /\ \A n \in Node : life[n] = "live" => rc[n] > 0
      /\ \A i \in Index : obj[i] # "parent"
  BY <1>1, CopyDone
<1>4. \A o : Cardinality(StrongObjs(o)) \in Nat /\ IsFiniteSet(StrongObjs(o))
  BY StrongFinite
<1>5. rc' \in [Node -> Int]
  <2>1. rc' = [n \in Node |-> IF n \in Object THEN rc[n] - Cardinality(StrongObjs(n)) ELSE rc[n]]
    BY DEF Clone, StrongObjs
  <2>2. \A n \in Node : rc[n] - Cardinality(StrongObjs(n)) \in Int
    BY <1>3, <1>4
  <2> QED BY <1>3, <2>1, <2>2
<1>6. ASSUME NEW i \in Index PROVE rc'[i] = Cardinality(Vhashes(i)')
  <2>1. i \in Node /\ i \notin Object
    BY Apartness
  <2>2. Vhashes(i)' = Vhashes(i)
    BY DEF Clone, Vhashes, Under, tables
  <2> QED BY <1>2, <2>1, <2>2 DEF CopyCounted
<1>7. ASSUME NEW o \in Object
      PROVE  /\ rc'[o] = References(o)' /\ rc'[o] = rc[o] - Cardinality(StrongObjs(o))
             /\ rc[o] = 0 => rc'[o] = 0
  <2>1. rc[o] = One(o \in held) + Cardinality(StrongKeys(o)) + Cardinality(StrongAttrs(o))
                  + Cardinality(StrongObjs(o))
    BY ReferencesIs DEF CopyCounted
  <2>2. References(o)' = One((o \in held)') + Cardinality(StrongKeys(o)') + Cardinality(StrongAttrs(o)')
                          + Cardinality(StrongObjs(o)')
    BY ReferencesIsNext
  <2>3. StrongKeys(o)' = StrongKeys(o) /\ StrongAttrs(o)' = StrongAttrs(o) /\ held' = held
    BY DEF Clone, StrongKeys, StrongAttrs, tables
  <2>4. StrongObjs(o)' = {}
    <3>1. \A i \in Index : obj'[i] # "strong"
      BY DEF Clone, Ref
    <3> QED BY <3>1 DEF StrongObjs
  <2>5. Cardinality(StrongObjs(o)') = 0
    BY <2>4, FS_EmptySet
  <2>6. rc'[o] = rc[o] - Cardinality(StrongObjs(o))
    BY <1>2, Apartness
  <2>7. /\ One(o \in held) \in Nat /\ Cardinality(StrongKeys(o)) \in Nat
        /\ Cardinality(StrongAttrs(o)) \in Nat /\ Cardinality(StrongObjs(o)) \in Nat
    BY StrongFinite DEF One
  <2>8. References(o)' = One(o \in held) + Cardinality(StrongKeys(o)) + Cardinality(StrongAttrs(o))
    BY <2>2, <2>3, <2>5, <2>7
  <2>9. \A h, k, a, s \in Nat : (h + k + a + s) - s = h + k + a /\ (h + k + a + s = 0 => s = 0)
    OBVIOUS
  <2>10. /\ rc[o] - Cardinality(StrongObjs(o)) =
              One(o \in held) + Cardinality(StrongKeys(o)) + Cardinality(StrongAttrs(o))
         /\ rc[o] = 0 => Cardinality(StrongObjs(o)) = 0
    BY <2>1, <2>7, <2>9
  <2>11. rc'[o] = References(o)'
    BY <2>6, <2>8, <2>10
  <2>12. rc[o] = 0 => rc'[o] = 0
    BY <2>6, <2>10
  <2> QED BY <2>6, <2>11, <2>12
<1>8. ASSUME NEW n \in Node, life'[n] = "free" PROVE rc'[n] = 0
  <2>1. rc[n] = 0
    BY <1>8 DEF Clone, CopyCounted
  <2> QED BY <1>2, <1>7, <2>1
<1>9. ASSUME NEW n \in Node, life'[n] = "live"
      PROVE  rc'[n] > 0 \/ \E i \in Index : TheObject(i) = n /\ obj'[i] = "parent" /\ Noted(i)' = "strong"
  <2>1. life[n] = "live" /\ rc[n] > 0
    BY <1>3, <1>9 DEF Clone
  <2>2. CASE n \notin Object
    BY <1>2, <2>1, <2>2
  <2>3. CASE n \in Object /\ StrongObjs(n) = {}
    <3>1. Cardinality(StrongObjs(n)) = 0
      BY <2>3, FS_EmptySet
    <3>2. rc'[n] = rc[n]
      BY <1>3, <1>7, <2>3, <3>1
    <3> QED BY <2>1, <3>2
  <2>4. ASSUME n \in Object, NEW i \in StrongObjs(n)
        PROVE  i \in Index /\ TheObject(i) = n /\ obj'[i] = "parent" /\ Noted(i)' = "strong"
    <3>1. i \in Index /\ TheObject(i) = n /\ obj[i] = "strong"
      BY DEF StrongObjs
    <3>2. obj'[i] = "parent"
      BY <3>1 DEF Clone, Ref
    <3>3. life[i] = "live"
      BY <1>3, <3>1, Apartness DEF CopyReferred
    <3>4. Noted(i)' = obj[i]
      BY <2>4, <3>1, <3>3, Encap, NotesTaken
    <3> QED BY <3>1, <3>2, <3>4
  <2> QED BY <2>2, <2>3, <2>4
<1> QED BY <1>5, <1>6, <1>7, <1>8, <1>9 DEF CopyCounted

LEMMA CloneHooked ==
  ASSUME CopyInv, Clone
  PROVE  CopyHooked' /\ acts' \in [Node -> Seq(Action)]
<1>1. \A n \in Node : acts'[n] = <<>>
  BY DEF Clone, EmptyLists
<1>2. /\ Left("rename_reverse")' = HasVhash
      /\ IndexLeft' = Live(Key) \cup Live(Attr)
  BY AllLeft
<1>3. life' = life /\ rlookup' = rlookup /\ \A o : Under(o)' = Under(o)
  BY DEF Clone, tables, Under
<1>4. \A i \in Index : life'[i] = "live" => i \in IndexLeft'
  BY <1>2, <1>3, Apartness DEF Live
<1>5. \A i \in Index : acts'[i] = IF life'[i] = "live" /\ i \notin IndexLeft' THEN OwnActions(i) ELSE <<>>
  BY <1>1, <1>4, Apartness
<1>6. ASSUME NEW o \in Object
      PROVE  /\ ToSet(acts'[o]) = {}
             /\ {u \in {o} \ Left("rename_reverse")' : rlookup'[u] # Null} = {}
             /\ (Under(o)' \cap Attr) \ IndexLeft' = {}
             /\ {j \in Key \ IndexLeft' : TheObject(j) = o /\ life'[j] = "live"} = {}
             /\ {b \in Attr \ IndexLeft' : TheObject(b) = o /\ life'[b] = "live"} = {}
  <2>1. ToSet(acts'[o]) = {}
    BY <1>1, Apartness DEF ToSet
  <2>2. {u \in {o} \ Left("rename_reverse")' : rlookup'[u] # Null} = {}
    BY <1>2, <1>3 DEF HasVhash
  <2>3. (Under(o)' \cap Attr) \ IndexLeft' = {}
    BY <1>3, <1>4, CopyUnder DEF CopyInv
  <2>4. {j \in Key \ IndexLeft' : TheObject(j) = o /\ life'[j] = "live"} = {}
    BY <1>4, Apartness
  <2>5. {b \in Attr \ IndexLeft' : TheObject(b) = o /\ life'[b] = "live"} = {}
    BY <1>4, Apartness
  <2> QED BY <2>1, <2>2, <2>3, <2>4, <2>5
<1>7. ActsOnce'
  BY <1>1 DEF ActsOnce, NoDuplicate
<1>8. CopyHooked'
  BY <1>5, <1>6, <1>7 DEF CopyHooked
<1>9. acts' \in [Node -> Seq(Action)]
  BY DEF Clone, EmptyLists
<1> QED BY <1>8, <1>9

LEMMA CloneBegins ==
  ASSUME OneType, CopyInv, Clone, Record
  PROVE  CopyInv' /\ RestOfClone' /\ StaleLeft'
<1>1. /\ UNCHANGED <<held, life, tables, obj_paddr, attrhash, loops>>
      /\ todo' # <<>>
  BY DEF Clone
<1>2. before' = before
  BY <1>1 DEF Record
<1>3. CopyAgreed'
  BY <1>1, AgreedSame DEF CopyInv
<1>4. CopyReferred' /\ Meant' = Meant
  BY CloneReferred
<1>5. CopyCounted' /\ rc' \in [Node -> Int] /\ CopyHooked' /\ acts' \in [Node -> Seq(Action)]
  BY CloneCounted, CloneHooked
<1>6. CopyTyped'
  <2>1. obj' = [i \in Index |-> IF obj[i] \in Ref THEN "parent" ELSE obj[i]]
    BY DEF Clone
  <2>2. obj \in [Index -> Entry \cup {"dangling", "parent"}]
    BY DEF CopyInv, CopyTyped
  <2>3. obj' \in [Index -> Entry \cup {"dangling", "parent"}]
    BY <2>1, <2>2
  <2>4. \A i \in Index : obj'[i] # "none" => TheObject(i) \in Object
    BY <2>1 DEF CopyInv, CopyTyped, EntriesTyped, Ref
  <2> QED BY <1>1, <1>5, <2>3, <2>4, TypedSame DEF CopyInv
<1>7. CopyViewed'
  BY <1>1, <1>2, <1>4, ViewSame DEF CopyInv
<1>8. StaleLeft'
  <2>1. \A a \in Attr, v \in Object : attrhash[a][v] # "none" => a \in Live(Attr)
    BY CopyUnder DEF CopyInv, Live
  <2>2. /\ stale' \subseteq ({"rlookup"} \X HasVhash) \cup ({"slookup"} \X {k \in Live(Key) : IsEncap(k)})
                            \cup ({"attr_lookup"} \X Live(Attr)) \cup {x \in {"attrhash"} \X Live(Attr) \X Object : attrhash[x[2]][x[3]] # "none"}
                            \cup ({"vhash"} \X HasVhash)
    BY <2>1 DEF Clone, ByAddress
  <2>3. \A k : IsEncap(k)' <=> IsEncap(k)
    BY DEF IsEncap
  <2>4. attrhash' = attrhash
    BY DEF Clone
  <2> QED BY <2>2, <2>3, <2>4, AllLeft DEF StaleLeft
<1> QED BY <1>3, <1>4, <1>5, <1>6, <1>7, <1>8, AllLeft DEF CopyInv

-----------------------------------------------------------------------------
(* CLONE goes on from pass to pass.                                         *)

\* What waits is known from what is next.
LEMMA Waits ==
  ASSUME RestOfClone
  PROVE  \E R \in SUBSET HasVhash, K \in SUBSET Live(Key), A \in SUBSET Live(Attr), V \in SUBSET HasVhash :
           /\ todo \in Rests(R, K, A, V)
           /\ Top[1] = "rename_reverse" =>
                todo = <<<<"rename_reverse", R>>, <<"rename_keys", K>>, <<"rename_attrs", A>>,
                         <<"rename_vhashes", V>>, <<"cloned">>>>
           /\ Top[1] = "rename_keys" =>
                todo = <<<<"rename_keys", K>>, <<"rename_attrs", A>>, <<"rename_vhashes", V>>, <<"cloned">>>>
           /\ Top[1] = "rename_attrs" =>
                todo = <<<<"rename_attrs", A>>, <<"rename_vhashes", V>>, <<"cloned">>>>
           /\ Top[1] = "rename_vhashes" => todo = <<<<"rename_vhashes", V>>, <<"cloned">>>>
           /\ Top[1] = "cloned" => todo = <<<<"cloned">>>>
<1>1. PICK R \in SUBSET HasVhash, K \in SUBSET Live(Key), A \in SUBSET Live(Attr), V \in SUBSET HasVhash :
        todo \in Rests(R, K, A, V)
  BY DEF RestOfClone
<1> DEFINE r == <<"rename_reverse", R>>
           k == <<"rename_keys", K>>
           a == <<"rename_attrs", A>>
           v == <<"rename_vhashes", V>>
           f == <<"free_temps">>
           c == <<"cloned">>
<1>2. todo \in {<<r, k, a, v, c>>, <<k, a, v, c>>, <<a, v, c>>, <<f, a, v, c>>, <<v, c>>, <<c>>}
  BY <1>1 DEF Rests
<1>3. /\ r[1] = "rename_reverse" /\ k[1] = "rename_keys" /\ a[1] = "rename_attrs"
      /\ v[1] = "rename_vhashes" /\ c[1] = "cloned" /\ f[1] = "free_temps"
  OBVIOUS
<1> HIDE DEF r, k, a, v, f, c
<1>4. /\ todo = <<r, k, a, v, c>> => Top = r
      /\ todo = <<k, a, v, c>> => Top = k
      /\ todo = <<a, v, c>> => Top = a
      /\ todo = <<f, a, v, c>> => Top = f
      /\ todo = <<v, c>> => Top = v
      /\ todo = <<c>> => Top = c
  BY DEF Top
<1>5. /\ Top[1] = "rename_reverse" => todo = <<r, k, a, v, c>>
      /\ Top[1] = "rename_keys" => todo = <<k, a, v, c>>
      /\ Top[1] = "rename_attrs" => todo = <<a, v, c>>
      /\ Top[1] = "rename_vhashes" => todo = <<v, c>>
      /\ Top[1] = "cloned" => todo = <<c>>
  BY <1>2, <1>3, <1>4
<1> QED BY <1>1, <1>5 DEF r, k, a, v, c

\* What is next, taken off, and what may take its place.
LEMMA TakenOff ==
  ASSUME NEW r, NEW k, NEW a, NEW v, NEW c
  PROVE  /\ Head(<<r, k, a, v, c>>) = r /\ <<>> \o Tail(<<r, k, a, v, c>>) = <<k, a, v, c>>
         /\ Head(<<k, a, v, c>>) = k /\ <<>> \o Tail(<<k, a, v, c>>) = <<a, v, c>>
         /\ Head(<<a, v, c>>) = a /\ <<>> \o Tail(<<a, v, c>>) = <<v, c>>
         /\ Head(<<v, c>>) = v /\ <<>> \o Tail(<<v, c>>) = <<c>>
         /\ <<>> \o Tail(<<c>>) = <<>>
<1>1. Head(<<r, k, a, v, c>>) = r /\ Head(<<k, a, v, c>>) = k /\ Head(<<a, v, c>>) = a /\ Head(<<v, c>>) = v
  OBVIOUS
<1>2. Tail(<<r, k, a, v, c>>) = <<k, a, v, c>>
  OBVIOUS
<1>3. Tail(<<k, a, v, c>>) = <<a, v, c>>
  OBVIOUS
<1>4. Tail(<<a, v, c>>) = <<v, c>>
  OBVIOUS
<1>5. Tail(<<v, c>>) = <<c>>
  OBVIOUS
<1>6. Tail(<<c>>) = <<>>
  OBVIOUS
<1>7. <<>> \o <<k, a, v, c>> = <<k, a, v, c>>
  OBVIOUS
<1>8. <<>> \o <<a, v, c>> = <<a, v, c>>
  OBVIOUS
<1>9. <<>> \o <<v, c>> = <<v, c>>
  OBVIOUS
<1>10. <<>> \o <<c>> = <<c>>
  OBVIOUS
<1>11. <<>> \o <<>> = <<>>
  OBVIOUS
<1> QED BY <1>1, <1>2, <1>3, <1>4, <1>5, <1>6, <1>7, <1>8, <1>9, <1>10, <1>11

LEMMA PutBack ==
  ASSUME NEW x
  PROVE  /\ \A r, k, a, v, c : todo = <<r, k, a, v, c>> /\ Then(<<x>>) => todo' = <<x, k, a, v, c>>
         /\ \A k, a, v, c : todo = <<k, a, v, c>> /\ Then(<<x>>) => todo' = <<x, a, v, c>>
         /\ \A a, v, c : todo = <<a, v, c>> /\ Then(<<x>>) => todo' = <<x, v, c>>
         /\ \A v, c : todo = <<v, c>> /\ Then(<<x>>) => todo' = <<x, c>>
<1>1. ASSUME NEW r, NEW k, NEW a, NEW v, NEW c, todo = <<r, k, a, v, c>>, Then(<<x>>)
      PROVE  todo' = <<x, k, a, v, c>>
  <2> DEFINE p == <<x, k, a, v, c>>
             T == {x, k, a, v, c}
  <2>1. p \in Seq(T) /\ p # <<>> /\ Head(p) = x
    OBVIOUS
  <2>2. Tail(p) = <<k, a, v, c>> /\ Tail(<<r, k, a, v, c>>) = <<k, a, v, c>>
    OBVIOUS
  <2>3. todo' = <<x>> \o Tail(p)
    BY <1>1, <2>2 DEF Then
  <2> HIDE DEF p, T
  <2>4. p = <<x>> \o Tail(p)
    BY <2>1, Split
  <2> QED BY <2>3, <2>4 DEF p
<1>2. ASSUME NEW k, NEW a, NEW v, NEW c, todo = <<k, a, v, c>>, Then(<<x>>)
      PROVE  todo' = <<x, a, v, c>>
  <2> DEFINE p == <<x, a, v, c>>
             T == {x, a, v, c}
  <2>1. p \in Seq(T) /\ p # <<>> /\ Head(p) = x
    OBVIOUS
  <2>2. Tail(p) = <<a, v, c>> /\ Tail(<<k, a, v, c>>) = <<a, v, c>>
    OBVIOUS
  <2>3. todo' = <<x>> \o Tail(p)
    BY <1>2, <2>2 DEF Then
  <2> HIDE DEF p, T
  <2>4. p = <<x>> \o Tail(p)
    BY <2>1, Split
  <2> QED BY <2>3, <2>4 DEF p
<1>3. ASSUME NEW a, NEW v, NEW c, todo = <<a, v, c>>, Then(<<x>>)
      PROVE  todo' = <<x, v, c>>
  <2> DEFINE p == <<x, v, c>>
             T == {x, v, c}
  <2>1. p \in Seq(T) /\ p # <<>> /\ Head(p) = x
    OBVIOUS
  <2>2. Tail(p) = <<v, c>> /\ Tail(<<a, v, c>>) = <<v, c>>
    OBVIOUS
  <2>3. todo' = <<x>> \o Tail(p)
    BY <1>3, <2>2 DEF Then
  <2> HIDE DEF p, T
  <2>4. p = <<x>> \o Tail(p)
    BY <2>1, Split
  <2> QED BY <2>3, <2>4 DEF p
<1>4. ASSUME NEW v, NEW c, todo = <<v, c>>, Then(<<x>>)
      PROVE  todo' = <<x, c>>
  <2> DEFINE p == <<x, c>>
             T == {x, c}
  <2>1. p \in Seq(T) /\ p # <<>> /\ Head(p) = x
    OBVIOUS
  <2>2. Tail(p) = <<c>> /\ Tail(<<v, c>>) = <<c>>
    OBVIOUS
  <2>3. todo' = <<x>> \o Tail(p)
    BY <1>4, <2>2 DEF Then
  <2> HIDE DEF p, T
  <2>4. p = <<x>> \o Tail(p)
    BY <2>1, Split
  <2> QED BY <2>3, <2>4 DEF p
<1> QED BY <1>1, <1>2, <1>3, <1>4

LEMMA PutBackAfter ==
  ASSUME NEW x, NEW f, NEW a, NEW v, NEW c, todo = <<a, v, c>>, Then(<<f, x>>)
  PROVE  todo' = <<f, x, v, c>>
<1> DEFINE p == <<f, x, v, c>>
           r == <<x, v, c>>
           q == <<v, c>>
           T == {f, x, v, c}
<1>1. /\ p \in Seq(T) /\ p # <<>> /\ Head(p) = f /\ Tail(p) = r
  OBVIOUS
<1>2. r \in Seq(T) /\ r # <<>> /\ Head(r) = x /\ Tail(r) = q
  OBVIOUS
<1>3. q \in Seq(T) /\ <<f>> \in Seq(T) /\ <<x>> \in Seq(T) /\ f \in T /\ x \in T
  OBVIOUS
<1>4. Tail(<<a, v, c>>) = q
  OBVIOUS
<1> HIDE DEF q
<1>5. todo' = <<f, x>> \o q
  BY <1>4 DEF Then
<1> HIDE DEF p, r, T
<1>6. <<f, x>> = <<f>> \o <<x>>
  BY <1>3, PairConcat
<1>7. p = <<f>> \o r /\ r = <<x>> \o q
  BY <1>1, <1>2, Split
<1>8. (<<f>> \o <<x>>) \o q = <<f>> \o (<<x>> \o q)
  BY <1>3, ConcatAssoc
<1> QED BY <1>5, <1>6, <1>7, <1>8 DEF p

-----------------------------------------------------------------------------
(* What each pass takes off what is left.                                   *)

Passes == {"rename_reverse", "rename_keys", "rename_attrs", "rename_vhashes"}

\* What waits changes by this alone: pass no longer has x to mend.
Mends(pass, x) ==
  /\ x \in Left(pass)
  /\ \A p \in Passes : Left(p)' = IF p = pass THEN Left(p) \ {x} ELSE Left(p)
  /\ todo' # <<>>
  /\ RestOfClone'

\* Nothing more is mended.
MendsNothing ==
  /\ \A p \in Passes : Left(p)' = Left(p)
  /\ todo' # <<>>
  /\ RestOfClone'

LEMMA SameTables ==
  ASSUME UNCHANGED <<life, tables>>
  PROVE  HasVhash' = HasVhash /\ Live(Key)' = Live(Key) /\ Live(Attr)' = Live(Attr)
BY DEF HasVhash, Live, tables

LEMMA ReverseWaits ==
  ASSUME RestOfClone, RenameReverse
  PROVE  \/ MendsNothing /\ UNCHANGED <<acts, stale>>
         \/ \E v \in HasVhash :
              /\ Mends("rename_reverse", v)
              /\ acts' = Added(acts, v, <<"rlookup", v>>)
              /\ stale' = stale \ {<<"rlookup", v>>}
<1>1. PICK R \in SUBSET HasVhash, K \in SUBSET Live(Key), A \in SUBSET Live(Attr), V \in SUBSET HasVhash :
        todo = <<<<"rename_reverse", R>>, <<"rename_keys", K>>, <<"rename_attrs", A>>,
                 <<"rename_vhashes", V>>, <<"cloned">>>>
  BY Waits DEF RenameReverse, Doing
<1> DEFINE q(S) == <<<<"rename_reverse", S>>, <<"rename_keys", K>>, <<"rename_attrs", A>>,
                     <<"rename_vhashes", V>>, <<"cloned">>>>
           p == <<<<"rename_keys", K>>, <<"rename_attrs", A>>, <<"rename_vhashes", V>>, <<"cloned">>>>
<1>2. HasVhash' = HasVhash /\ Live(Key)' = Live(Key) /\ Live(Attr)' = Live(Attr)
  BY SameTables DEF RenameReverse
<1>3. Top[2] = R
  BY <1>1, TakenOff DEF Top
<1>4. /\ Left("rename_reverse") = R /\ Left("rename_keys") = K
      /\ Left("rename_attrs") = A /\ Left("rename_vhashes") = V
  BY <1>1, LeftIs DEF Left
<1>5. CASE R = {}
  <2>1. todo' = p /\ UNCHANGED <<acts, stale>>
    BY <1>1, <1>3, <1>5, TakenOff DEF RenameReverse, Then
  <2>2. /\ LeftIn(todo', "rename_reverse") = {} /\ LeftIn(todo', "rename_keys") = K
        /\ LeftIn(todo', "rename_attrs") = A /\ LeftIn(todo', "rename_vhashes") = V
    BY <2>1, LeftIs
  <2>3. /\ Left("rename_reverse")' = {} /\ Left("rename_keys")' = K
        /\ Left("rename_attrs")' = A /\ Left("rename_vhashes")' = V
    BY <2>2 DEF Left
  <2>4. RestOfClone'
    BY <1>2, <2>1 DEF RestOfClone, Rests
  <2>5. todo' # <<>>
    BY <2>1
  <2> QED BY <1>4, <1>5, <2>1, <2>3, <2>4, <2>5 DEF MendsNothing, Passes
<1>6. CASE R # {}
  <2>1. PICK v \in R : /\ acts' = Added(acts, v, <<"rlookup", v>>)
                       /\ stale' = stale \ {<<"rlookup", v>>}
                       /\ Then(<<<<"rename_reverse", R \ {v}>>>>)
    BY <1>3, <1>6 DEF RenameReverse
  <2>2. todo' = q(R \ {v})
    <3> DEFINE x == <<"rename_reverse", R \ {v}>>
               r == <<"rename_reverse", R>>
               k == <<"rename_keys", K>>
               a == <<"rename_attrs", A>>
               h == <<"rename_vhashes", V>>
               c == <<"cloned">>
    <3>1. todo = <<r, k, a, h, c>> /\ Then(<<x>>)
      BY <1>1, <2>1
    <3> HIDE DEF x, r, k, a, h, c
    <3>2. todo' = <<x, k, a, h, c>>
      BY <3>1, PutBack
    <3> QED BY <3>2 DEF x, k, a, h, c
  <2>3. /\ LeftIn(todo', "rename_reverse") = R \ {v} /\ LeftIn(todo', "rename_keys") = K
        /\ LeftIn(todo', "rename_attrs") = A /\ LeftIn(todo', "rename_vhashes") = V
    BY <2>2, LeftIs
  <2>4. /\ Left("rename_reverse")' = R \ {v} /\ Left("rename_keys")' = K
        /\ Left("rename_attrs")' = A /\ Left("rename_vhashes")' = V
    BY <2>3 DEF Left
  <2>5. RestOfClone'
    BY <1>2, <2>2 DEF RestOfClone, Rests
  <2>6. todo' # <<>>
    BY <2>2
  <2> QED BY <1>4, <2>1, <2>4, <2>5, <2>6 DEF Mends, Passes
<1> QED BY <1>5, <1>6

LEMMA KeysWait ==
  ASSUME RestOfClone, RenameKey
  PROVE  \/ MendsNothing /\ UNCHANGED <<acts, rc, obj, stale>>
         \/ \E k \in Live(Key) :
              /\ Mends("rename_keys", k)
              /\ IF IsEncap(k)
                   THEN /\ acts' = Added([acts EXCEPT ![k] = OwnActions(k)],
                                         TheObject(k), <<"encap_destroy_hook", k>>)
                        /\ Referred(k, kinfo[TheObject(k)])
                        /\ stale' = stale \ {<<"slookup", k>>}
                   ELSE /\ acts' = [acts EXCEPT ![k] = OwnActions(k)]
                        /\ UNCHANGED <<rc, obj, stale>>
<1>1. PICK R \in SUBSET HasVhash, K \in SUBSET Live(Key), A \in SUBSET Live(Attr), V \in SUBSET HasVhash :
        todo = <<<<"rename_keys", K>>, <<"rename_attrs", A>>, <<"rename_vhashes", V>>, <<"cloned">>>>
  BY Waits DEF RenameKey, Doing
<1> DEFINE q(S) == <<<<"rename_keys", S>>, <<"rename_attrs", A>>, <<"rename_vhashes", V>>, <<"cloned">>>>
           p == <<<<"rename_attrs", A>>, <<"rename_vhashes", V>>, <<"cloned">>>>
<1>2. HasVhash' = HasVhash /\ Live(Key)' = Live(Key) /\ Live(Attr)' = Live(Attr)
  BY SameTables DEF RenameKey
<1>3. Top[2] = K
  BY <1>1, TakenOff DEF Top
<1>4. /\ Left("rename_reverse") = {} /\ Left("rename_keys") = K
      /\ Left("rename_attrs") = A /\ Left("rename_vhashes") = V
  BY <1>1, LeftIs DEF Left
<1> DEFINE Mended(k) == /\ IF IsEncap(k)
                             THEN /\ acts' = Added([acts EXCEPT ![k] = OwnActions(k)],
                                                   TheObject(k), <<"encap_destroy_hook", k>>)
                                  /\ Referred(k, kinfo[TheObject(k)])
                                  /\ stale' = stale \ {<<"slookup", k>>}
                             ELSE /\ acts' = [acts EXCEPT ![k] = OwnActions(k)]
                                  /\ UNCHANGED <<rc, obj, stale>>
<1>5. \/ K = {} /\ Then(<<>>) /\ UNCHANGED <<acts, rc, obj, stale>>
      \/ \E k \in K : Mended(k) /\ Then(<<<<"rename_keys", K \ {k}>>>>)
  BY <1>3 DEF RenameKey
<1> HIDE DEF Mended
<1>6. CASE K = {} /\ Then(<<>>) /\ UNCHANGED <<acts, rc, obj, stale>>
  <2>1. todo' = p
    BY <1>1, <1>6, TakenOff DEF Then
  <2>2. /\ LeftIn(todo', "rename_reverse") = {} /\ LeftIn(todo', "rename_keys") = {}
        /\ LeftIn(todo', "rename_attrs") = A /\ LeftIn(todo', "rename_vhashes") = V
    BY <2>1, LeftIs
  <2>3. /\ Left("rename_reverse")' = {} /\ Left("rename_keys")' = {}
        /\ Left("rename_attrs")' = A /\ Left("rename_vhashes")' = V
    BY <2>2 DEF Left
  <2>4. RestOfClone'
    BY <1>2, <2>1 DEF RestOfClone, Rests
  <2>5. todo' # <<>>
    BY <2>1
  <2> QED BY <1>4, <1>6, <2>3, <2>4, <2>5 DEF MendsNothing, Passes
<1>7. ASSUME NEW k \in K, Mended(k), Then(<<<<"rename_keys", K \ {k}>>>>)
      PROVE  Mends("rename_keys", k)
  <2>1. todo' = q(K \ {k})
    <3> DEFINE x == <<"rename_keys", K \ {k}>>
               r == <<"rename_keys", K>>
               a == <<"rename_attrs", A>>
               h == <<"rename_vhashes", V>>
               c == <<"cloned">>
    <3>1. todo = <<r, a, h, c>> /\ Then(<<x>>)
      BY <1>1, <1>7
    <3> HIDE DEF x, r, a, h, c
    <3>2. todo' = <<x, a, h, c>>
      BY <3>1, PutBack
    <3> QED BY <3>2 DEF x, a, h, c
  <2>2. /\ LeftIn(todo', "rename_reverse") = {} /\ LeftIn(todo', "rename_keys") = K \ {k}
        /\ LeftIn(todo', "rename_attrs") = A /\ LeftIn(todo', "rename_vhashes") = V
    BY <2>1, LeftIs
  <2>3. /\ Left("rename_reverse")' = {} /\ Left("rename_keys")' = K \ {k}
        /\ Left("rename_attrs")' = A /\ Left("rename_vhashes")' = V
    BY <2>2 DEF Left
  <2>4. RestOfClone'
    BY <1>2, <2>1 DEF RestOfClone, Rests
  <2>5. todo' # <<>>
    BY <2>1
  <2> QED BY <1>4, <2>3, <2>4, <2>5 DEF Mends, Passes
<1>8. CASE \E k \in K : Mended(k) /\ Then(<<<<"rename_keys", K \ {k}>>>>)
  <2>1. PICK k \in K : Mended(k) /\ Then(<<<<"rename_keys", K \ {k}>>>>)
    BY <1>8
  <2>2. Mends("rename_keys", k) /\ k \in Live(Key)
    BY <1>7, <2>1
  <2> QED BY <2>1, <2>2 DEF Mended
<1> QED BY <1>5, <1>6, <1>8

Valued(a) == {v \in Object : attrhash[a][v] # "none"}

\* What mending an attribute does to the lists of actions.
OwnHooks(a) == [Hooks(acts, a, Valued(a)) EXCEPT ![a] = OwnActions(a)]

LEMMA AttrsWait ==
  ASSUME RestOfClone, RenameAttr
  PROVE  \/ MendsNothing /\ UNCHANGED <<acts, rc, obj, stale>>
         \/ \E a \in Live(Attr) :
              /\ Mends("rename_attrs", a)
              /\ stale' = stale \ ({<<"attrhash", a, v>> : v \in Valued(a)} \cup {<<"attr_lookup", a>>})
              /\ IF IsEncap(a)
                   THEN /\ acts' = Added(OwnHooks(a), TheObject(a), <<"encap_attr_destroy_hook", a>>)
                        /\ Referred(a, ainfo[TheObject(a)])
                   ELSE /\ acts' = OwnHooks(a)
                        /\ UNCHANGED <<rc, obj>>
<1>1. PICK R \in SUBSET HasVhash, K \in SUBSET Live(Key), A \in SUBSET Live(Attr), V \in SUBSET HasVhash :
        todo = <<<<"rename_attrs", A>>, <<"rename_vhashes", V>>, <<"cloned">>>>
  BY Waits DEF RenameAttr, Doing
<1> DEFINE q(S) == <<<<"rename_attrs", S>>, <<"rename_vhashes", V>>, <<"cloned">>>>
           w(S) == <<<<"free_temps">>, <<"rename_attrs", S>>, <<"rename_vhashes", V>>, <<"cloned">>>>
           p == <<<<"rename_vhashes", V>>, <<"cloned">>>>
<1>2. HasVhash' = HasVhash /\ Live(Key)' = Live(Key) /\ Live(Attr)' = Live(Attr)
  BY SameTables DEF RenameAttr
<1>3. Top[2] = A
  BY <1>1, TakenOff DEF Top
<1>4. /\ Left("rename_reverse") = {} /\ Left("rename_keys") = {}
      /\ Left("rename_attrs") = A /\ Left("rename_vhashes") = V
  BY <1>1, LeftIs DEF Left
<1> DEFINE Mended(a) ==
             /\ stale' = stale \ ({<<"attrhash", a, v>> : v \in Valued(a)} \cup {<<"attr_lookup", a>>})
             /\ IF IsEncap(a)
                  THEN /\ acts' = Added(OwnHooks(a), TheObject(a), <<"encap_attr_destroy_hook", a>>)
                       /\ Referred(a, ainfo[TheObject(a)])
                  ELSE /\ acts' = OwnHooks(a)
                       /\ UNCHANGED <<rc, obj>>
           Temps(a, W) == (IF W = Valued(a) THEN <<>> ELSE <<<<"free_temps">>>>)
                            \o <<<<"rename_attrs", A \ {a}>>>>
<1>5. \/ A = {} /\ Then(<<>>) /\ UNCHANGED <<acts, rc, obj, stale>>
      \/ \E a \in A : \E W : Mended(a) /\ Then(Temps(a, W))
  BY <1>3 DEF RenameAttr, Valued, OwnHooks
<1> HIDE DEF Mended
<1>6. CASE A = {} /\ Then(<<>>) /\ UNCHANGED <<acts, rc, obj, stale>>
  <2>1. todo' = p
    BY <1>1, <1>6, TakenOff DEF Then
  <2>2. /\ LeftIn(todo', "rename_reverse") = {} /\ LeftIn(todo', "rename_keys") = {}
        /\ LeftIn(todo', "rename_attrs") = {} /\ LeftIn(todo', "rename_vhashes") = V
    BY <2>1, LeftIs
  <2>3. /\ Left("rename_reverse")' = {} /\ Left("rename_keys")' = {}
        /\ Left("rename_attrs")' = {} /\ Left("rename_vhashes")' = V
    BY <2>2 DEF Left
  <2>4. RestOfClone'
    BY <1>2, <2>1 DEF RestOfClone, Rests
  <2>5. todo' # <<>>
    BY <2>1
  <2> QED BY <1>4, <1>6, <2>3, <2>4, <2>5 DEF MendsNothing, Passes
<1>7. ASSUME NEW a \in A, NEW W, Then(Temps(a, W))
      PROVE  Mends("rename_attrs", a)
  <2>1. todo' \in {q(A \ {a}), w(A \ {a})}
    <3> DEFINE x == <<"rename_attrs", A \ {a}>>
               r == <<"rename_attrs", A>>
               h == <<"rename_vhashes", V>>
               c == <<"cloned">>
               f == <<"free_temps">>
               e == IF W = Valued(a) THEN <<>> ELSE <<f>>
    <3>1. todo = <<r, h, c>> /\ Then(e \o <<x>>)
      BY <1>1, <1>7
    <3> HIDE DEF x, r, h, c, f
    <3>2. CASE W = Valued(a)
      <4>1. <<>> \o <<x>> = <<x>>
        OBVIOUS
      <4>2. Then(<<x>>)
        BY <3>1, <3>2, <4>1
      <4>3. todo' = <<x, h, c>>
        BY <3>1, <4>2, PutBack
      <4>4. todo' = q(A \ {a})
        BY <4>3 DEF x, h, c
      <4> QED BY <4>4
    <3>3. CASE W # Valued(a)
      <4> DEFINE T == {f, x}
      <4>1. f \in T /\ x \in T
        OBVIOUS
      <4> HIDE DEF T
      <4>2. <<f, x>> = <<f>> \o <<x>>
        BY <4>1, PairConcat
      <4>3. Then(<<f, x>>)
        BY <3>1, <3>3, <4>2
      <4>4. todo' = <<f, x, h, c>>
        BY <3>1, <4>3, PutBackAfter
      <4>5. todo' = w(A \ {a})
        BY <4>4 DEF f, x, h, c
      <4> QED BY <4>5
    <3> QED BY <3>2, <3>3
  <2>2. /\ LeftIn(todo', "rename_reverse") = {} /\ LeftIn(todo', "rename_keys") = {}
        /\ LeftIn(todo', "rename_attrs") = A \ {a} /\ LeftIn(todo', "rename_vhashes") = V
    BY <2>1, LeftIs
  <2>3. /\ Left("rename_reverse")' = {} /\ Left("rename_keys")' = {}
        /\ Left("rename_attrs")' = A \ {a} /\ Left("rename_vhashes")' = V
    BY <2>2 DEF Left
  <2>4. RestOfClone'
    BY <1>2, <2>1 DEF RestOfClone, Rests
  <2>5. todo' # <<>>
    BY <2>1
  <2> QED BY <1>4, <2>3, <2>4, <2>5 DEF Mends, Passes
<1>8. CASE \E a \in A : \E W : Mended(a) /\ Then(Temps(a, W))
  <2>0. PICK a \in A : \E W : Mended(a) /\ Then(Temps(a, W))
    BY <1>8
  <2>1. PICK W : Mended(a) /\ Then(Temps(a, W))
    BY <2>0
  <2>2. Mends("rename_attrs", a) /\ a \in Live(Attr)
    BY <1>7, <2>1
  <2> QED BY <2>1, <2>2 DEF Mended
<1> QED BY <1>5, <1>6, <1>8

LEMMA VhashesWait ==
  ASSUME RestOfClone, RenameVhash
  PROVE  \/ MendsNothing /\ UNCHANGED stale
         \/ \E v \in HasVhash : Mends("rename_vhashes", v) /\ stale' = stale \ {<<"vhash", v>>}
<1>1. PICK R \in SUBSET HasVhash, K \in SUBSET Live(Key), A \in SUBSET Live(Attr), V \in SUBSET HasVhash :
        todo = <<<<"rename_vhashes", V>>, <<"cloned">>>>
  BY Waits DEF RenameVhash, Doing
<1>2. HasVhash' = HasVhash /\ Live(Key)' = Live(Key) /\ Live(Attr)' = Live(Attr)
  BY SameTables DEF RenameVhash, heap
<1>3. Top[2] = V
  BY <1>1, TakenOff DEF Top
<1>4. /\ Left("rename_reverse") = {} /\ Left("rename_keys") = {}
      /\ Left("rename_attrs") = {} /\ Left("rename_vhashes") = V
  BY <1>1, LeftIs DEF Left
<1>5. CASE V = {}
  <2>1. todo' = <<<<"cloned">>>> /\ UNCHANGED stale
    BY <1>1, <1>3, <1>5, TakenOff DEF RenameVhash, Then
  <2>2. /\ LeftIn(todo', "rename_reverse") = {} /\ LeftIn(todo', "rename_keys") = {}
        /\ LeftIn(todo', "rename_attrs") = {} /\ LeftIn(todo', "rename_vhashes") = {}
    BY <2>1, LeftIs
  <2>3. /\ Left("rename_reverse")' = {} /\ Left("rename_keys")' = {}
        /\ Left("rename_attrs")' = {} /\ Left("rename_vhashes")' = {}
    BY <2>2 DEF Left
  <2>4. RestOfClone'
    BY <1>2, <2>1 DEF RestOfClone, Rests
  <2>5. todo' # <<>>
    BY <2>1
  <2> QED BY <1>4, <1>5, <2>1, <2>3, <2>4, <2>5 DEF MendsNothing, Passes
<1>6. CASE V # {}
  <2>1. PICK v \in V : /\ stale' = stale \ {<<"vhash", v>>}
                       /\ Then(<<<<"rename_vhashes", V \ {v}>>>>)
    BY <1>3, <1>6 DEF RenameVhash
  <2>2. todo' = <<<<"rename_vhashes", V \ {v}>>, <<"cloned">>>>
    <3> DEFINE x == <<"rename_vhashes", V \ {v}>>
               h == <<"rename_vhashes", V>>
               c == <<"cloned">>
    <3>1. todo = <<h, c>> /\ Then(<<x>>)
      BY <1>1, <2>1
    <3> HIDE DEF x, h, c
    <3>2. todo' = <<x, c>>
      BY <3>1, PutBack
    <3> QED BY <3>2 DEF x, c
  <2>3. /\ LeftIn(todo', "rename_reverse") = {} /\ LeftIn(todo', "rename_keys") = {}
        /\ LeftIn(todo', "rename_attrs") = {} /\ LeftIn(todo', "rename_vhashes") = V \ {v}
    BY <2>2, LeftIs
  <2>4. /\ Left("rename_reverse")' = {} /\ Left("rename_keys")' = {}
        /\ Left("rename_attrs")' = {} /\ Left("rename_vhashes")' = V \ {v}
    BY <2>3 DEF Left
  <2>5. RestOfClone'
    BY <1>2, <2>2 DEF RestOfClone, Rests
  <2>6. todo' # <<>>
    BY <2>2
  <2> QED BY <1>4, <2>1, <2>4, <2>5, <2>6 DEF Mends, Passes
<1> QED BY <1>5, <1>6

-----------------------------------------------------------------------------
(* What a step of CLONE mends, and leaves as it is.                         *)

\* A step of CLONE that mends no key, no attribute and no value's action.
LEMMA NothingMended ==
  ASSUME CopyInv, UNCHANGED <<held, life, rc, acts, tables, blobs, loops, notes>>, before' = before,
         Left("rename_reverse")' = Left("rename_reverse"), IndexLeft' = IndexLeft
  PROVE  CopyInv'
<1>1. UNCHANGED <<slookup, flookup, rlookup, attr_lookup, obj, obj_paddr, attrhash, iter, values, kinfo, ainfo>>
  BY DEF tables, blobs, loops, notes
<1>2. CopyAgreed'
  BY AgreedSame, <1>1 DEF CopyInv
<1>3. Meant' = Meant /\ \A i : Noted(i)' = Noted(i)
  BY <1>1 DEF Meant, Noted
<1>4. CopyViewed'
  BY <1>1, <1>3, ViewSame DEF CopyInv
<1>5. CopyReferred'
  BY <1>1, <1>3 DEF CopyReferred, CopyInv
<1>6. CopyTyped'
  BY <1>1 DEF CopyTyped, CopyInv, EntriesTyped
<1>7. \A o : Under(o)' = Under(o)
  BY <1>1 DEF Under
<1>8. CopyCounted'
  BY <1>1, <1>3, <1>7 DEF CopyCounted, CopyInv, References, Vhashes
<1>9. CopyHooked'
  BY <1>1, <1>7 DEF CopyHooked, CopyInv, ActsOnce
<1> QED BY <1>2, <1>4, <1>5, <1>6, <1>8, <1>9 DEF CopyInv

LEMMA MendedReferred ==
  ASSUME CopyInv, NEW i \in Index, life[i] = "live", i \in IndexLeft, IndexLeft' = IndexLeft \ {i},
         UNCHANGED <<held, life, tables, obj_paddr, attrhash, loops, notes>>,
         IF IsEncap(i) THEN Referred(i, Noted(i)) ELSE UNCHANGED <<rc, obj>>
  PROVE  /\ CopyReferred' /\ Meant' = Meant
         /\ \A j : Noted(j)' = Noted(j)
         /\ \A j \in Index : j # i => obj'[j] = obj[j]
         /\ obj[i] # "strong" /\ obj'[i] # "parent"
         /\ IsEncap(i) => obj'[i] = Noted(i)
         /\ obj' \in [Index -> Entry \cup {"dangling", "parent"}]
         /\ \A j \in Index : obj'[j] # "none" => TheObject(j) \in Object
<1> USE DEF CopyInv
<1>1. \A j : Noted(j)' = Noted(j)
  BY DEF Noted, notes
<1>2. obj \in [Index -> Entry \cup {"dangling", "parent"}]
  BY DEF CopyTyped
<1>3. IsEncap(i) => Noted(i) \in Ref \cup {"none"} /\ obj[i] = IF Noted(i) \in Ref THEN "parent" ELSE "none"
  BY DEF CopyReferred
<1>4. ~ IsEncap(i) => obj[i] = "none"
  BY Encap DEF CopyTyped, EntriesTyped
<1>5. /\ obj' \in [Index -> Entry \cup {"dangling", "parent"}]
      /\ \A j \in Index : j # i => obj'[j] = obj[j]
      /\ IsEncap(i) => obj'[i] = Noted(i)
      /\ ~ IsEncap(i) => obj'[i] = obj[i]
  <2>1. CASE IsEncap(i)
    BY <1>2, <1>3, <2>1 DEF Referred, Entry
  <2>2. CASE ~ IsEncap(i)
    BY <1>2, <2>2
  <2> QED BY <2>1, <2>2
<1>6. obj[i] # "strong" /\ obj'[i] # "parent"
  BY <1>3, <1>4, <1>5 DEF Ref
<1>7. ASSUME NEW j \in Index
      PROVE  (IF obj'[j] = "parent" THEN Noted(j)' ELSE obj'[j]) = IF obj[j] = "parent" THEN Noted(j) ELSE obj[j]
  <2>1. CASE j # i
    BY <1>1, <1>5, <2>1
  <2>2. CASE j = i
    BY <1>3, <1>4, <1>5, <1>6, <2>2
  <2> QED BY <2>1, <2>2
<1>8. Meant' = Meant
  BY <1>7 DEF Meant
<1>9. \A j \in Index : obj'[j] # "none" => TheObject(j) \in Object
  BY <1>4, <1>5, Encap DEF CopyTyped, EntriesTyped
<1>10. ASSUME NEW j \in Index
       PROVE  /\ life'[j] = "free" => obj'[j] = "none"
              /\ obj'[j] = "parent" => j \in IndexLeft'
              /\ j \in IndexLeft' /\ IsEncap(j) =>
                   /\ Noted(j)' \in Ref \cup {"none"}
                   /\ obj'[j] = IF Noted(j)' \in Ref THEN "parent" ELSE "none"
              /\ j \in Key /\ life'[j] = "live" /\ IsEncap(j) => Meant'[j] \in Ref
  <2>1. life' = life
    OBVIOUS
  <2>2. j \in Key /\ life'[j] = "live" /\ IsEncap(j) => Meant'[j] \in Ref
    BY <1>8, <2>1 DEF CopyReferred
  <2>3. CASE j # i
    BY <1>1, <1>5, <2>1, <2>2, <2>3 DEF CopyReferred
  <2>4. CASE j = i
    BY <1>6, <2>1, <2>2, <2>4
  <2> QED BY <2>3, <2>4
<1>11. \A j \in Index : IsEncap(j)' <=> IsEncap(j)
  BY DEF IsEncap
<1>12. CopyReferred'
  BY <1>10, <1>11 DEF CopyReferred
<1> QED BY <1>1, <1>5, <1>6, <1>8, <1>9, <1>12

LEMMA MendedCounted ==
  ASSUME CopyInv, NEW i \in Index, life[i] = "live", i \in IndexLeft, IndexLeft' = IndexLeft \ {i},
         UNCHANGED <<held, life, tables, obj_paddr, attrhash, loops, notes>>,
         IF IsEncap(i) THEN Referred(i, Noted(i)) ELSE UNCHANGED <<rc, obj>>
  PROVE  CopyCounted' /\ rc' \in [Node -> Int]
<1> USE DEF CopyInv
<1> DEFINE p == TheObject(i)
           gains == IsEncap(i) /\ Noted(i) = "strong"
<1>1. /\ \A j : Noted(j)' = Noted(j)
      /\ \A j \in Index : j # i => obj'[j] = obj[j]
      /\ obj[i] # "strong" /\ obj'[i] # "parent"
      /\ IsEncap(i) => obj'[i] = Noted(i)
  BY MendedReferred
<1>2. rc \in [Node -> Int] /\ \A n \in Node : life[n] \in {"free", "live"}
  BY DEF CopyTyped
<1>3. IsEncap(i) => p \in Object /\ p \in Node /\ p \notin Index /\ life[p] = "live"
  <2> SUFFICES ASSUME IsEncap(i) PROVE p \in Object /\ p \in Node /\ p \notin Index /\ life[p] = "live"
    OBVIOUS
  <2>1. p \in Object
    BY Encap
  <2>2. p \in ObjectsOf(i)
    BY <2>1, Encap DEF IsEncap, ObjectsOf, Store!ObjectsOf, TheObject
  <2>3. life[p] = "live"
    BY <2>2 DEF CopyAgreed, Agreed
  <2> QED BY <2>1, <2>3, Apartness
<1>4. \A n \in Node : rc'[n] = IF gains /\ n = p THEN rc[n] + 1 ELSE rc[n]
  <2>1. CASE gains
    <3>1. rc' = AddRef(rc, p)
      BY <2>1 DEF Referred
    <3> QED BY <1>2, <2>1, <3>1 DEF AddRef
  <2>2. CASE ~ gains
    <3>1. rc' = rc
      BY <2>2 DEF Referred
    <3> QED BY <2>2, <3>1
  <2> QED BY <2>1, <2>2
<1>5. rc' \in [Node -> Int]
  <2>1. CASE gains
    <3>1. rc' = AddRef(rc, p)
      BY <2>1 DEF Referred
    <3>2. rc' = [rc EXCEPT ![p] = rc[p] + 1]
      BY <3>1 DEF AddRef
    <3> QED BY <1>2, <1>3, <2>1, <3>2
  <2>2. CASE ~ gains
    <3>1. rc' = rc
      BY <2>2 DEF Referred
    <3> QED BY <1>2, <3>1
  <2> QED BY <2>1, <2>2
<1> HIDE DEF gains
<1>6. ASSUME NEW j \in Index PROVE rc'[j] = Cardinality(Vhashes(j)')
  <2>1. j \in Node /\ ~ (gains /\ j = p)
    BY <1>3, Apartness DEF gains
  <2>2. Vhashes(j)' = Vhashes(j)
    BY DEF Vhashes, Under, tables
  <2> QED BY <1>4, <2>1, <2>2 DEF CopyCounted
<1>7. ASSUME NEW o \in Object PROVE rc'[o] = References(o)' /\ rc[o] \in Nat
  <2>1. /\ rc[o] = One(o \in held) + Cardinality(StrongKeys(o)) + Cardinality(StrongAttrs(o))
                     + Cardinality(StrongObjs(o))
        /\ o \in Node
    BY ReferencesIs, Apartness DEF CopyCounted
  <2>2. References(o)' = One((o \in held)') + Cardinality(StrongKeys(o)') + Cardinality(StrongAttrs(o)')
                          + Cardinality(StrongObjs(o)')
    BY ReferencesIsNext
  <2>3. StrongKeys(o)' = StrongKeys(o) /\ StrongAttrs(o)' = StrongAttrs(o) /\ held' = held
    BY DEF StrongKeys, StrongAttrs, tables
  <2>4. /\ One(o \in held) \in Nat /\ Cardinality(StrongKeys(o)) \in Nat
        /\ Cardinality(StrongAttrs(o)) \in Nat /\ Cardinality(StrongObjs(o)) \in Nat
        /\ IsFiniteSet(StrongObjs(o))
    BY StrongFinite DEF One
  <2>5. CASE gains /\ o = p
    <3>1. obj'[i] = "strong" /\ i \notin StrongObjs(o)
      BY <1>1, <2>5 DEF gains, StrongObjs
    <3>2. StrongObjs(o)' = StrongObjs(o) \cup {i}
      BY <1>1, <2>5, <3>1 DEF StrongObjs
    <3>3. Cardinality(StrongObjs(o)') = Cardinality(StrongObjs(o)) + 1
      BY <2>4, <3>1, <3>2, FS_AddElement
    <3>4. rc'[o] = rc[o] + 1
      BY <1>4, <2>1, <2>5
    <3>5. \A h, k, a, s \in Nat : (h + k + a + s) + 1 = h + k + a + (s + 1) /\ h + k + a + s \in Nat
      OBVIOUS
    <3> QED BY <2>1, <2>2, <2>3, <2>4, <3>3, <3>4, <3>5
  <2>6. CASE ~ (gains /\ o = p)
    <3>1. TheObject(i) = o => obj'[i] # "strong"
      <4> SUFFICES ASSUME TheObject(i) = o, obj'[i] = "strong" PROVE FALSE
        OBVIOUS
      <4>1. IsEncap(i)
        BY Encap
      <4> QED BY <1>1, <2>6, <4>1 DEF gains
    <3>2. StrongObjs(o)' = StrongObjs(o)
      BY <1>1, <3>1 DEF StrongObjs
    <3>3. rc'[o] = rc[o]
      BY <1>4, <2>1, <2>6
    <3>4. \A h, k, a, s \in Nat : h + k + a + s \in Nat
      OBVIOUS
    <3> QED BY <2>1, <2>2, <2>3, <2>4, <3>2, <3>3, <3>4
  <2> QED BY <2>5, <2>6
<1>8. ASSUME NEW n \in Node, life'[n] = "free" PROVE rc'[n] = 0
  <2>1. rc[n] = 0 /\ life[n] = "free"
    BY <1>8 DEF CopyCounted
  <2>2. ~ (gains /\ n = p)
    BY <1>3, <2>1 DEF gains
  <2> QED BY <1>4, <2>1, <2>2
<1>9. ASSUME NEW n \in Node, life'[n] = "live"
      PROVE  rc'[n] > 0 \/ \E j \in Index : TheObject(j) = n /\ obj'[j] = "parent" /\ Noted(j)' = "strong"
  <2>1. rc[n] > 0 \/ \E j \in Index : TheObject(j) = n /\ obj[j] = "parent" /\ Noted(j) = "strong"
    BY <1>9 DEF CopyCounted
  <2>2. rc[n] \in Int
    BY <1>2
  <2>3. CASE rc[n] > 0
    BY <1>4, <2>2, <2>3
  <2>4. ASSUME NEW j \in Index, TheObject(j) = n, obj[j] = "parent", Noted(j) = "strong"
        PROVE  \/ rc'[n] > 0
               \/ TheObject(j) = n /\ obj'[j] = "parent" /\ Noted(j)' = "strong"
    <3>1. CASE j # i
      BY <1>1, <2>4, <3>1
    <3>2. CASE j = i
      <4>1. n \in Object /\ IsEncap(i)
        BY <2>4, <3>2, Encap DEF CopyTyped, EntriesTyped
      <4>2. gains /\ n = p
        BY <2>4, <3>2, <4>1 DEF gains
      <4>3. rc'[n] = rc[n] + 1 /\ rc[n] \in Nat
        BY <1>4, <1>7, <4>1, <4>2
      <4> QED BY <4>3
    <3> QED BY <3>1, <3>2
  <2> QED BY <2>1, <2>3, <2>4
<1> QED BY <1>5, <1>6, <1>7, <1>8, <1>9 DEF CopyCounted

\* The actions that an object of a copy has.
HasAction(o, x) ==
  \/ x = <<"rlookup", o>> /\ o \notin Left("rename_reverse") /\ rlookup[o] # Null
  \/ \E a \in Attr : x = <<"attrhash", a, o>> /\ a \in Under(o) /\ a \notin IndexLeft
  \/ \E k \in Key : /\ x = <<"encap_destroy_hook", k>>
                    /\ TheObject(k) = o /\ life[k] = "live" /\ k \notin IndexLeft
  \/ \E a \in Attr : x = Hook(a) /\ TheObject(a) = o /\ life[a] = "live" /\ a \notin IndexLeft

HasOwn(i) == acts[i] = IF life[i] = "live" /\ i \notin IndexLeft THEN OwnActions(i) ELSE <<>>

LEMMA HookedIs ==
  CopyHooked <=> /\ \A i \in Index : HasOwn(i)
                 /\ \A o \in Object : \A x : x \in ToSet(acts[o]) <=> HasAction(o, x)
                 /\ ActsOnce
<1>1. ASSUME NEW o \in Object
      PROVE  ToSet(acts[o]) =
               {<<"rlookup", v>> : v \in {u \in {o} \ Left("rename_reverse") : rlookup[u] # Null}}
               \cup {<<"attrhash", a, o>> : a \in (Under(o) \cap Attr) \ IndexLeft}
               \cup {<<"encap_destroy_hook", k>> :
                       k \in {j \in Key \ IndexLeft : TheObject(j) = o /\ life[j] = "live"}}
               \cup {Hook(a) : a \in {b \in Attr \ IndexLeft : TheObject(b) = o /\ life[b] = "live"}}
             <=> \A x : x \in ToSet(acts[o]) <=> HasAction(o, x)
  <2> DEFINE S == {<<"rlookup", v>> : v \in {u \in {o} \ Left("rename_reverse") : rlookup[u] # Null}}
             B == {<<"attrhash", a, o>> : a \in (Under(o) \cap Attr) \ IndexLeft}
             L == {<<"encap_destroy_hook", k>> :
                     k \in {j \in Key \ IndexLeft : TheObject(j) = o /\ life[j] = "live"}}
             H == {Hook(a) : a \in {b \in Attr \ IndexLeft : TheObject(b) = o /\ life[b] = "live"}}
  <2>1. \A x : x \in S <=> x = <<"rlookup", o>> /\ o \notin Left("rename_reverse") /\ rlookup[o] # Null
    OBVIOUS
  <2>2. \A x : x \in B <=> \E a \in Attr : x = <<"attrhash", a, o>> /\ a \in Under(o) /\ a \notin IndexLeft
    OBVIOUS
  <2>3. \A x : x \in L <=> \E k \in Key : /\ x = <<"encap_destroy_hook", k>>
                                         /\ TheObject(k) = o /\ life[k] = "live" /\ k \notin IndexLeft
    OBVIOUS
  <2>4. \A x : x \in H <=>
          \E a \in Attr : x = Hook(a) /\ TheObject(a) = o /\ life[a] = "live" /\ a \notin IndexLeft
    OBVIOUS
  <2>5. \A x : HasAction(o, x) <=> x \in S \/ x \in B \/ x \in L \/ x \in H
    BY <2>1, <2>2, <2>3, <2>4 DEF HasAction
  <2> HIDE DEF S, B, L, H
  <2>6. ToSet(acts[o]) = S \cup B \cup L \cup H <=> \A x : x \in ToSet(acts[o]) <=> HasAction(o, x)
    BY <2>5
  <2> QED BY <2>6 DEF S, B, L, H
<1> QED BY <1>1 DEF CopyHooked, HasOwn

LEMMA HookedReverse ==
  ASSUME CopyInv, NEW v \in HasVhash, v \in Left("rename_reverse"),
         Left("rename_reverse")' = Left("rename_reverse") \ {v}, IndexLeft' = IndexLeft,
         acts' = Added(acts, v, <<"rlookup", v>>), UNCHANGED <<life, tables>>
  PROVE  CopyHooked' /\ acts' \in [Node -> Seq(Action)]
<1>1. v \in Object /\ v \in Node /\ v \notin Index /\ rlookup[v] # Null
  BY Apartness DEF HasVhash
<1>2. acts \in [Node -> Seq(Action)] /\ <<"rlookup", v>> \in Action
  BY <1>1, ActionTasks DEF CopyInv, CopyTyped
<1>3. /\ acts' \in [Node -> Seq(Action)]
      /\ \A m \in Node : \A b : b \in ToSet(acts'[m]) <=> b \in ToSet(acts[m]) \/ (m = v /\ b = <<"rlookup", v>>)
      /\ \A m \in Node : NoDuplicate(acts[m]) => NoDuplicate(acts'[m])
      /\ \A m \in Node : m # v => acts'[m] = acts[m]
  <2> DEFINE b0 == <<"rlookup", v>>
             g == Added(acts, v, b0)
  <2>1. b0 \in Action /\ v \in Node /\ acts' = g
    BY <1>1, <1>2
  <2> HIDE DEF b0
  <2>2. /\ g \in [Node -> Seq(Action)]
        /\ \A m \in Node : \A b : b \in ToSet(g[m]) <=> b \in ToSet(acts[m]) \/ (m = v /\ b = b0)
        /\ \A m \in Node : NoDuplicate(acts[m]) => NoDuplicate(g[m])
    BY <1>2, <2>1, AddedHas
  <2>3. \A m \in Node : m # v => g[m] = acts[m]
    BY <1>2, <2>1, AddedProps
  <2> HIDE DEF g
  <2> QED BY <2>1, <2>2, <2>3 DEF b0
<1>4. /\ \A i \in Index : HasOwn(i)
      /\ \A o \in Object : \A x : x \in ToSet(acts[o]) <=> HasAction(o, x)
      /\ ActsOnce
  BY HookedIs DEF CopyInv
<1>5. \A i \in Index : HasOwn(i)'
  BY <1>1, <1>3, <1>4, Apartness DEF HasOwn
<1>6. ASSUME NEW o \in Object, NEW x PROVE x \in ToSet(acts'[o]) <=> HasAction(o, x)'
  <2>1. o \in Node /\ Under(o)' = Under(o) /\ rlookup' = rlookup
    BY Apartness DEF Under, tables
  <2>2. HasAction(o, x)' <=> HasAction(o, x) \/ (o = v /\ x = <<"rlookup", v>>)
    BY <1>1, <2>1 DEF HasAction
  <2> QED BY <1>3, <1>4, <2>1, <2>2
<1>7. ActsOnce'
  BY <1>3, <1>4 DEF ActsOnce
<1>8. (CopyHooked <=> /\ \A i \in Index : HasOwn(i)
                      /\ \A o \in Object : \A x : x \in ToSet(acts[o]) <=> HasAction(o, x)
                      /\ ActsOnce)'
  BY HookedIs, PTL
<1> QED BY <1>3, <1>5, <1>6, <1>7, <1>8

LEMMA HookedKey ==
  ASSUME CopyInv, NEW k \in Live(Key), k \in IndexLeft,
         Left("rename_reverse")' = Left("rename_reverse"), IndexLeft' = IndexLeft \ {k},
         acts' = IF IsEncap(k)
                   THEN Added([acts EXCEPT ![k] = OwnActions(k)], TheObject(k), <<"encap_destroy_hook", k>>)
                   ELSE [acts EXCEPT ![k] = OwnActions(k)],
         UNCHANGED <<life, tables>>
  PROVE  CopyHooked' /\ acts' \in [Node -> Seq(Action)]
<1> DEFINE p == TheObject(k)
           own == [acts EXCEPT ![k] = OwnActions(k)]
           hook == <<"encap_destroy_hook", k>>
<1>1. k \in Key /\ k \in Index /\ k \in Node /\ k \notin Object /\ k \notin Attr /\ life[k] = "live"
  BY Apartness DEF Live
<1>2. acts \in [Node -> Seq(Action)]
  BY DEF CopyInv, CopyTyped
<1>3. /\ own \in [Node -> Seq(Action)] /\ own[k] = OwnActions(k) /\ NoDuplicate(own[k])
      /\ \A m \in Node : m # k => own[m] = acts[m]
  BY <1>1, <1>2, OwnActionsProps
<1>4. IsEncap(k) <=> p \in Object
  BY Encap
<1>5. /\ acts' \in [Node -> Seq(Action)]
      /\ \A o \in Object : \A b : b \in ToSet(acts'[o]) <=> b \in ToSet(acts[o]) \/ (o = p /\ b = hook)
      /\ \A m \in Node : NoDuplicate(own[m]) => NoDuplicate(acts'[m])
      /\ \A i \in Index : acts'[i] = own[i]
  <2>1. CASE IsEncap(k)
    <3>1. hook \in Action /\ p \in Object /\ p \in Node
      BY <1>1, <1>4, <2>1, ActionTasks, Apartness
    <3>2. acts' = Added(own, p, hook)
      BY <2>1
    <3> DEFINE g == Added(own, p, hook)
    <3> HIDE DEF own, hook, p
    <3>3. /\ g \in [Node -> Seq(Action)]
          /\ \A m \in Node : \A b : b \in ToSet(g[m]) <=> b \in ToSet(own[m]) \/ (m = p /\ b = hook)
          /\ \A m \in Node : NoDuplicate(own[m]) => NoDuplicate(g[m])
      BY <1>3, <3>1, AddedHas
    <3>4. \A m \in Node : m # p => g[m] = own[m]
      BY <1>3, <3>1, AddedProps
    <3>5. acts' = g
      BY <3>2
    <3> HIDE DEF g
    <3>6. \A o \in Object : o \in Node /\ o # k
      BY <1>1, Apartness
    <3>7. \A i \in Index : i \in Node /\ i # p
      BY <3>1, Apartness
    <3>8. \A o \in Object : \A b : b \in ToSet(acts'[o]) <=> b \in ToSet(acts[o]) \/ (o = p /\ b = hook)
      BY <1>3, <3>3, <3>5, <3>6
    <3>9. \A i \in Index : acts'[i] = own[i]
      BY <3>4, <3>5, <3>7
    <3> QED BY <3>3, <3>5, <3>8, <3>9
  <2>2. CASE ~ IsEncap(k)
    <3>1. acts' = own
      BY <2>2
    <3> HIDE DEF own, hook
    <3> QED BY <1>1, <1>3, <1>4, <2>2, <3>1, Apartness
  <2> QED BY <2>1, <2>2
<1>6. /\ \A i \in Index : HasOwn(i)
      /\ \A o \in Object : \A x : x \in ToSet(acts[o]) <=> HasAction(o, x)
      /\ ActsOnce
  BY HookedIs DEF CopyInv
<1> HIDE DEF own, p
<1>7. \A i \in Index : HasOwn(i)'
  BY <1>1, <1>3, <1>5, <1>6, Apartness DEF HasOwn
<1>8. ASSUME NEW o \in Object, NEW x PROVE x \in ToSet(acts'[o]) <=> HasAction(o, x)'
  <2>1. Under(o)' = Under(o) /\ rlookup' = rlookup
    BY DEF Under, tables
  <2>2. HasAction(o, x)' <=> HasAction(o, x) \/ (o = p /\ x = hook)
    BY <1>1, <2>1 DEF HasAction, p
  <2> HIDE DEF hook
  <2> QED BY <1>5, <1>6, <2>2
<1>9. ActsOnce'
  BY <1>1, <1>3, <1>5, <1>6 DEF ActsOnce
<1>10. (CopyHooked <=> /\ \A i \in Index : HasOwn(i)
                       /\ \A o \in Object : \A x : x \in ToSet(acts[o]) <=> HasAction(o, x)
                       /\ ActsOnce)'
  BY HookedIs, PTL
<1> QED BY <1>5, <1>7, <1>8, <1>9, <1>10

\* An attribute that is mended has its own action, and its values theirs of it.
LEMMA OwnHooksProps ==
  ASSUME CopyInv, NEW a \in Live(Attr), a \in IndexLeft
  PROVE  /\ OwnHooks(a) \in [Node -> Seq(Action)]
         /\ OwnHooks(a)[a] = OwnActions(a)
         /\ \A i \in Index : i # a => OwnHooks(a)[i] = acts[i]
         /\ \A o \in Object : \A x : x \in ToSet(OwnHooks(a)[o]) <=>
              x \in ToSet(acts[o]) \/ (a \in Under(o) /\ x = <<"attrhash", a, o>>)
         /\ \A n \in Node : NoDuplicate(OwnHooks(a)[n])
<1> DEFINE V == Valued(a)
           h == Hooks(acts, a, V)
           own == OwnHooks(a)
<1>1. a \in Attr /\ a \in Index /\ a \in Node /\ a \notin Object
  BY Apartness DEF Live
<1>2. acts \in [Node -> Seq(Action)] /\ OwnActions(a) \in Seq(Action) /\ NoDuplicate(OwnActions(a))
  BY <1>1, OwnActionsProps DEF CopyInv, CopyTyped
<1>3. /\ \A o \in Object : \A x : x \in ToSet(acts[o]) <=> HasAction(o, x)
      /\ ActsOnce
  BY HookedIs DEF CopyInv
<1>4. \A o \in Object : o \in V <=> a \in Under(o)
  BY <1>1, CopyUnder DEF CopyInv, Valued
<1>5. ASSUME NEW o \in Object, o \in V
      PROVE  /\ h[o] \in Seq(Action) /\ NoDuplicate(h[o])
             /\ \A x : x \in ToSet(h[o]) <=> x \in ToSet(acts[o]) \/ x = <<"attrhash", a, o>>
  <2> DEFINE b == <<"attrhash", a, o>>
  <2>1. b \in Action /\ o \in Node /\ acts[o] \in Seq(Action)
    BY <1>1, <1>2, ActionTasks, Apartness
  <2>2. b \notin ToSet(acts[o])
    <3>1. ~ HasAction(o, b)
      BY <1>1 DEF HasAction, Hook
    <3> QED BY <1>3, <3>1
  <2>3. h[o] = Append(acts[o], b)
    BY <1>5, <2>1 DEF Hooks
  <2> HIDE DEF b, h, V
  <2>4. Added(acts, o, b)[o] = Append(acts[o], b)
    BY <1>2, <2>1, <2>2 DEF Added
  <2>5. Added(acts, o, b) \in [Node -> Seq(Action)] /\ NoDuplicate(Added(acts, o, b)[o])
    BY <1>2, <1>3, <2>1, AddedHas DEF ActsOnce
  <2>6. \A x : x \in ToSet(Added(acts, o, b)[o]) <=> x \in ToSet(acts[o]) \/ x = b
    BY <1>2, <2>1, AddedHas
  <2> QED BY <2>1, <2>3, <2>4, <2>5, <2>6 DEF b
<1>6. h \in [Node -> Seq(Action)]
  <2>1. \A n \in Node : (IF n \in V THEN Append(acts[n], <<"attrhash", a, n>>) ELSE acts[n]) \in Seq(Action)
    <3> SUFFICES ASSUME NEW n \in Node
                 PROVE  (IF n \in V THEN Append(acts[n], <<"attrhash", a, n>>) ELSE acts[n]) \in Seq(Action)
      OBVIOUS
    <3>1. CASE n \in V
      <4>1. n \in Object
        BY <3>1 DEF Valued
      <4> QED BY <1>5, <3>1, <4>1 DEF Hooks
    <3>2. CASE n \notin V
      BY <1>2, <3>2
    <3> QED BY <3>1, <3>2
  <2> QED BY <2>1 DEF Hooks
<1>7. \A n \in Node : n \notin V => h[n] = acts[n]
  BY DEF Hooks
<1>8. own = [h EXCEPT ![a] = OwnActions(a)]
  BY DEF OwnHooks
<1>9. V \subseteq Object
  BY DEF Valued
<1> HIDE DEF h, V, own
<1>10. own \in [Node -> Seq(Action)] /\ own[a] = OwnActions(a) /\ \A n \in Node : n # a => own[n] = h[n]
  BY <1>1, <1>2, <1>6, <1>8
<1>11. \A i \in Index : i # a => own[i] = acts[i]
  BY <1>7, <1>9, <1>10, Apartness
<1>12. ASSUME NEW o \in Object
       PROVE  /\ NoDuplicate(own[o])
              /\ \A x : x \in ToSet(own[o]) <=> x \in ToSet(acts[o]) \/ (a \in Under(o) /\ x = <<"attrhash", a, o>>)
  <2>1. own[o] = h[o] /\ o \in Node
    BY <1>1, <1>10, Apartness
  <2>2. CASE o \in V
    BY <1>4, <1>5, <2>1, <2>2
  <2>3. CASE o \notin V
    BY <1>3, <1>4, <1>7, <2>1, <2>3 DEF ActsOnce
  <2> QED BY <2>2, <2>3
<1>13. \A n \in Node : NoDuplicate(own[n])
  BY <1>2, <1>3, <1>10, <1>11, <1>12, Apartness DEF ActsOnce
<1> QED BY <1>10, <1>11, <1>12, <1>13 DEF own

LEMMA HookedAttr ==
  ASSUME CopyInv, NEW a \in Live(Attr), a \in IndexLeft,
         Left("rename_reverse")' = Left("rename_reverse"), IndexLeft' = IndexLeft \ {a},
         acts' = IF IsEncap(a) THEN Added(OwnHooks(a), TheObject(a), Hook(a)) ELSE OwnHooks(a),
         UNCHANGED <<life, tables>>
  PROVE  CopyHooked' /\ acts' \in [Node -> Seq(Action)]
<1> DEFINE p == TheObject(a)
           own == OwnHooks(a)
           hook == Hook(a)
<1>1. a \in Attr /\ a \in Index /\ a \in Node /\ a \notin Object /\ a \notin Key /\ life[a] = "live"
  BY Apartness DEF Live
<1>2. /\ own \in [Node -> Seq(Action)]
      /\ own[a] = OwnActions(a)
      /\ \A i \in Index : i # a => own[i] = acts[i]
      /\ \A o \in Object : \A x : x \in ToSet(own[o]) <=>
           x \in ToSet(acts[o]) \/ (a \in Under(o) /\ x = <<"attrhash", a, o>>)
      /\ \A n \in Node : NoDuplicate(own[n])
  BY OwnHooksProps
<1>3. IsEncap(a) <=> p \in Object
  BY Encap
<1>4. /\ acts' \in [Node -> Seq(Action)]
      /\ \A o \in Object : \A b : b \in ToSet(acts'[o]) <=> b \in ToSet(own[o]) \/ (o = p /\ b = hook)
      /\ \A m \in Node : NoDuplicate(own[m]) => NoDuplicate(acts'[m])
      /\ \A i \in Index : acts'[i] = own[i]
  <2>1. CASE IsEncap(a)
    <3>1. hook \in Action /\ p \in Object /\ p \in Node
      BY <1>1, <1>3, <2>1, ActionTasks, Apartness DEF Hook
    <3> DEFINE g == Added(own, p, hook)
    <3>2. acts' = g
      BY <2>1
    <3> HIDE DEF own, hook, p
    <3>3. /\ g \in [Node -> Seq(Action)]
          /\ \A m \in Node : \A b : b \in ToSet(g[m]) <=> b \in ToSet(own[m]) \/ (m = p /\ b = hook)
          /\ \A m \in Node : NoDuplicate(own[m]) => NoDuplicate(g[m])
      BY <1>2, <3>1, AddedHas
    <3>4. \A m \in Node : m # p => g[m] = own[m]
      BY <1>2, <3>1, AddedProps
    <3> HIDE DEF g
    <3>5. /\ \A o \in Object : o \in Node
          /\ \A i \in Index : i \in Node /\ i # p
      BY <3>1, Apartness
    <3> QED BY <3>2, <3>3, <3>4, <3>5
  <2>2. CASE ~ IsEncap(a)
    <3>1. acts' = own
      BY <2>2
    <3> HIDE DEF own, hook
    <3> QED BY <1>2, <1>3, <2>2, <3>1
  <2> QED BY <2>1, <2>2
<1>5. /\ \A i \in Index : HasOwn(i)
      /\ \A o \in Object : \A x : x \in ToSet(acts[o]) <=> HasAction(o, x)
  BY HookedIs DEF CopyInv
<1> HIDE DEF own, p
<1>6. \A i \in Index : HasOwn(i)'
  BY <1>1, <1>2, <1>4, <1>5, Apartness DEF HasOwn
<1>7. ASSUME NEW o \in Object, NEW x PROVE x \in ToSet(acts'[o]) <=> HasAction(o, x)'
  <2>1. Under(o)' = Under(o) /\ rlookup' = rlookup
    BY DEF Under, tables
  <2>2. HasAction(o, x)' <=>
          HasAction(o, x) \/ (a \in Under(o) /\ x = <<"attrhash", a, o>>) \/ (o = p /\ x = hook)
    BY <1>1, <2>1 DEF HasAction, p
  <2> HIDE DEF hook
  <2> QED BY <1>2, <1>4, <1>5, <2>2
<1>8. ActsOnce'
  BY <1>2, <1>4 DEF ActsOnce
<1>9. (CopyHooked <=> /\ \A i \in Index : HasOwn(i)
                      /\ \A o \in Object : \A x : x \in ToSet(acts[o]) <=> HasAction(o, x)
                      /\ ActsOnce)'
  BY HookedIs, PTL
<1> QED BY <1>4, <1>6, <1>7, <1>8, <1>9

\* What is to be mended is there.
LEMMA LeftThere ==
  ASSUME RestOfClone
  PROVE  /\ Left("rename_reverse") \subseteq HasVhash /\ Left("rename_keys") \subseteq Live(Key)
         /\ Left("rename_attrs") \subseteq Live(Attr) /\ Left("rename_vhashes") \subseteq HasVhash
<1>1. PICK R \in SUBSET HasVhash, K \in SUBSET Live(Key), A \in SUBSET Live(Attr), V \in SUBSET HasVhash :
        todo \in Rests(R, K, A, V)
  BY DEF RestOfClone
<1>2. /\ LeftIn(todo, "rename_reverse") \in {R, {}} /\ LeftIn(todo, "rename_keys") \in {K, {}}
      /\ LeftIn(todo, "rename_attrs") \in {A, {}} /\ LeftIn(todo, "rename_vhashes") \in {V, {}}
  BY <1>1, LeftIs DEF Rests
<1> QED BY <1>2 DEF Left

\* A step of CLONE that mends nothing, or no more than a value's action or a vhash.
LEMMA PassEnds ==
  ASSUME MendsNothing
  PROVE  RestOfClone' /\ todo' # <<>> /\ Left("rename_reverse")' = Left("rename_reverse")
         /\ IndexLeft' = IndexLeft /\ (StaleLeft /\ UNCHANGED <<stale, attrhash>> => StaleLeft')
<1>1. \A i : IsEncap(i)' <=> IsEncap(i)
  BY DEF IsEncap
<1> QED BY <1>1 DEF MendsNothing, Passes, IndexLeft, StaleLeft

LEMMA IndexMends ==
  ASSUME RestOfClone, NEW i,
         \/ i \in Live(Key) /\ Mends("rename_keys", i)
         \/ i \in Live(Attr) /\ Mends("rename_attrs", i)
  PROVE  /\ i \in Index /\ life[i] = "live" /\ i \in IndexLeft /\ IndexLeft' = IndexLeft \ {i}
         /\ Left("rename_reverse")' = Left("rename_reverse")
         /\ RestOfClone' /\ todo' # <<>>
<1>1. Left("rename_keys") \subseteq Key /\ Left("rename_attrs") \subseteq Attr
  BY LeftThere DEF Live
<1>2. CASE i \in Live(Key) /\ Mends("rename_keys", i)
  BY <1>1, <1>2, Apartness DEF Mends, Passes, IndexLeft, Live
<1>3. CASE i \in Live(Attr) /\ Mends("rename_attrs", i)
  BY <1>1, <1>3, Apartness DEF Mends, Passes, IndexLeft, Live
<1> QED BY <1>2, <1>3

\* While a pass is not the last, nothing new is remembered.
LEMMA NotRecorded ==
  ASSUME Record, todo' # <<>>
  PROVE  before' = before
BY DEF Record

LEMMA ReverseMended ==
  ASSUME CopyInv, RestOfClone, StaleLeft, RenameReverse, Record
  PROVE  CopyInv' /\ RestOfClone' /\ StaleLeft'
<1>1. UNCHANGED <<held, life, rc, kept, tables, blobs, loops, err, notes>>
  BY DEF RenameReverse
<1>2. CASE MendsNothing /\ UNCHANGED <<acts, stale>>
  BY <1>1, <1>2, PassEnds, NotRecorded, NothingMended DEF blobs
<1>3. ASSUME NEW v \in HasVhash, Mends("rename_reverse", v), acts' = Added(acts, v, <<"rlookup", v>>),
             stale' = stale \ {<<"rlookup", v>>}
      PROVE  CopyInv' /\ RestOfClone' /\ StaleLeft'
  <2>1. /\ Left("rename_reverse")' = Left("rename_reverse") \ {v} /\ v \in Left("rename_reverse")
        /\ IndexLeft' = IndexLeft /\ RestOfClone' /\ todo' # <<>>
        /\ Left("rename_keys")' = Left("rename_keys") /\ Left("rename_attrs")' = Left("rename_attrs")
        /\ Left("rename_vhashes")' = Left("rename_vhashes")
    BY <1>3 DEF Mends, Passes, IndexLeft
  <2>2. CopyHooked' /\ acts' \in [Node -> Seq(Action)]
    BY <1>1, <1>3, <2>1, HookedReverse
  <2>3. before' = before
    BY <2>1, NotRecorded
  <2>4. UNCHANGED <<obj, obj_paddr, attrhash, kinfo, ainfo, slookup, flookup, rlookup, attr_lookup>>
    BY <1>1 DEF blobs, notes, tables
  <2>5. Meant' = Meant /\ \A i : Noted(i)' = Noted(i)
    BY <2>4 DEF Meant, Noted
  <2>6. CopyAgreed' /\ CopyViewed'
    BY <1>1, <2>3, <2>4, <2>5, AgreedSame, ViewSame DEF CopyInv
  <2>7. CopyTyped'
    BY <1>1, <2>2, <2>4 DEF CopyInv, CopyTyped, EntriesTyped, loops
  <2>8. CopyReferred'
    BY <1>1, <2>1, <2>4, <2>5 DEF CopyInv, CopyReferred
  <2>9. CopyCounted'
    <3>1. \A i : Under(i)' = Under(i)
      BY <2>4 DEF Under
    <3> QED BY <1>1, <2>4, <2>5, <3>1 DEF CopyInv, CopyCounted, References, Vhashes
  <2>10. StaleLeft'
    <3>1. \A i : IsEncap(i)' <=> IsEncap(i)
      BY DEF IsEncap
    <3> QED BY <1>3, <2>1, <2>4, <3>1 DEF StaleLeft
  <2> QED BY <2>1, <2>2, <2>6, <2>7, <2>8, <2>9, <2>10 DEF CopyInv
<1> QED BY <1>2, <1>3, ReverseWaits

\* A key or an attribute is mended.
LEMMA IndexMended ==
  ASSUME CopyInv, RestOfClone, Record, NEW i,
         \/ i \in Live(Key) /\ Mends("rename_keys", i)
         \/ i \in Live(Attr) /\ Mends("rename_attrs", i),
         UNCHANGED <<held, life, tables, obj_paddr, attrhash, loops, notes>>,
         IF IsEncap(i) THEN Referred(i, Noted(i)) ELSE UNCHANGED <<rc, obj>>,
         CopyHooked', acts' \in [Node -> Seq(Action)]
  PROVE  CopyInv'
<1>1. /\ i \in Index /\ life[i] = "live" /\ i \in IndexLeft /\ IndexLeft' = IndexLeft \ {i} /\ todo' # <<>>
  BY IndexMends
<1>2. /\ CopyReferred' /\ Meant' = Meant
      /\ obj' \in [Index -> Entry \cup {"dangling", "parent"}]
      /\ \A j \in Index : obj'[j] # "none" => TheObject(j) \in Object
  BY <1>1, MendedReferred
<1>3. CopyCounted' /\ rc' \in [Node -> Int]
  BY <1>1, MendedCounted
<1>4. before' = before
  BY <1>1, NotRecorded
<1>5. CopyTyped' /\ CopyAgreed' /\ CopyViewed'
  BY <1>2, <1>3, <1>4, TypedSame, AgreedSame, ViewSame DEF CopyInv
<1> QED BY <1>2, <1>3, <1>5 DEF CopyInv

LEMMA KeyMended ==
  ASSUME CopyInv, RestOfClone, StaleLeft, RenameKey, Record
  PROVE  CopyInv' /\ RestOfClone' /\ StaleLeft'
<1>1. UNCHANGED <<held, life, kept, tables, obj_paddr, attrhash, loops, err, notes>>
  BY DEF RenameKey
<1>2. CASE MendsNothing /\ UNCHANGED <<acts, rc, obj, stale>>
  BY <1>1, <1>2, PassEnds, NotRecorded, NothingMended DEF blobs
<1>3. ASSUME NEW k \in Live(Key), Mends("rename_keys", k),
             IF IsEncap(k)
               THEN /\ acts' = Added([acts EXCEPT ![k] = OwnActions(k)],
                                     TheObject(k), <<"encap_destroy_hook", k>>)
                    /\ Referred(k, kinfo[TheObject(k)])
                    /\ stale' = stale \ {<<"slookup", k>>}
               ELSE /\ acts' = [acts EXCEPT ![k] = OwnActions(k)]
                    /\ UNCHANGED <<rc, obj, stale>>
      PROVE  CopyInv' /\ RestOfClone' /\ StaleLeft'
  <2>1. /\ k \in IndexLeft /\ IndexLeft' = IndexLeft \ {k}
        /\ Left("rename_reverse")' = Left("rename_reverse") /\ RestOfClone' /\ k \in Key
    BY <1>3, IndexMends DEF Live
  <2>2. CopyHooked' /\ acts' \in [Node -> Seq(Action)]
    BY <1>1, <1>3, <2>1, HookedKey
  <2>3. IF IsEncap(k) THEN Referred(k, Noted(k)) ELSE UNCHANGED <<rc, obj>>
    BY <1>3, <2>1 DEF Noted
  <2>4. CopyInv'
    BY <1>1, <1>3, <2>2, <2>3, IndexMended
  <2>5. StaleLeft'
    <3>1. /\ Left("rename_keys")' = Left("rename_keys") \ {k}
          /\ Left("rename_attrs")' = Left("rename_attrs")
          /\ Left("rename_vhashes")' = Left("rename_vhashes")
      BY <1>3 DEF Mends, Passes
    <3>2. stale' \subseteq stale /\ (IsEncap(k) => <<"slookup", k>> \notin stale')
      <4>1. CASE IsEncap(k)
        BY <1>3, <4>1
      <4>2. CASE ~ IsEncap(k)
        BY <1>3, <4>2
      <4> QED BY <4>1, <4>2
    <3>3. \A i : IsEncap(i)' <=> IsEncap(i)
      BY DEF IsEncap
    <3> QED BY <1>1, <2>1, <3>1, <3>2, <3>3 DEF StaleLeft
  <2> QED BY <2>1, <2>4, <2>5
<1> QED BY <1>2, <1>3, KeysWait

LEMMA AttrMended ==
  ASSUME CopyInv, RestOfClone, StaleLeft, RenameAttr, Record
  PROVE  CopyInv' /\ RestOfClone' /\ StaleLeft'
<1>1. UNCHANGED <<held, life, kept, tables, obj_paddr, attrhash, loops, err, notes>>
  BY DEF RenameAttr
<1>2. CASE MendsNothing /\ UNCHANGED <<acts, rc, obj, stale>>
  BY <1>1, <1>2, PassEnds, NotRecorded, NothingMended DEF blobs
<1>3. ASSUME NEW a \in Live(Attr), Mends("rename_attrs", a),
             stale' = stale \ ({<<"attrhash", a, v>> : v \in Valued(a)} \cup {<<"attr_lookup", a>>}),
             IF IsEncap(a)
               THEN /\ acts' = Added(OwnHooks(a), TheObject(a), <<"encap_attr_destroy_hook", a>>)
                    /\ Referred(a, ainfo[TheObject(a)])
               ELSE /\ acts' = OwnHooks(a)
                    /\ UNCHANGED <<rc, obj>>
      PROVE  CopyInv' /\ RestOfClone' /\ StaleLeft'
  <2>1. /\ a \in IndexLeft /\ IndexLeft' = IndexLeft \ {a}
        /\ Left("rename_reverse")' = Left("rename_reverse") /\ RestOfClone' /\ a \in Attr /\ a \notin Key
    BY <1>3, IndexMends, Apartness DEF Live
  <2>2. CopyHooked' /\ acts' \in [Node -> Seq(Action)]
    BY <1>1, <1>3, <2>1, HookedAttr DEF Hook
  <2>3. IF IsEncap(a) THEN Referred(a, Noted(a)) ELSE UNCHANGED <<rc, obj>>
    BY <1>3, <2>1 DEF Noted
  <2>4. CopyInv'
    BY <1>1, <1>3, <2>2, <2>3, IndexMended
  <2>5. StaleLeft'
    <3>1. /\ Left("rename_keys")' = Left("rename_keys")
          /\ Left("rename_attrs")' = Left("rename_attrs") \ {a}
          /\ Left("rename_vhashes")' = Left("rename_vhashes")
      BY <1>3 DEF Mends, Passes
    <3>2. stale' \subseteq stale /\ <<"attr_lookup", a>> \notin stale'
      BY <1>3
    <3>3. \A v \in Object : attrhash[a][v] # "none" => <<"attrhash", a, v>> \notin stale'
      BY <1>3 DEF Valued
    <3>4. \A i : IsEncap(i)' <=> IsEncap(i)
      BY DEF IsEncap
    <3> QED BY <1>1, <2>1, <3>1, <3>2, <3>3, <3>4 DEF StaleLeft
  <2> QED BY <2>1, <2>4, <2>5
<1> QED BY <1>2, <1>3, AttrsWait

LEMMA VhashMended ==
  ASSUME CopyInv, RestOfClone, StaleLeft, RenameVhash, Record
  PROVE  CopyInv' /\ RestOfClone' /\ StaleLeft'
<1>1. UNCHANGED <<held, heap, tables, blobs, loops, err, notes>> /\ UNCHANGED <<rc, life, acts>>
  BY DEF RenameVhash, heap
<1>2. CASE MendsNothing /\ UNCHANGED stale
  BY <1>1, <1>2, PassEnds, NotRecorded, NothingMended DEF blobs
<1>3. ASSUME NEW v \in HasVhash, Mends("rename_vhashes", v), stale' = stale \ {<<"vhash", v>>}
      PROVE  CopyInv' /\ RestOfClone' /\ StaleLeft'
  <2>1. /\ Left("rename_reverse")' = Left("rename_reverse") /\ IndexLeft' = IndexLeft
        /\ RestOfClone' /\ todo' # <<>>
        /\ Left("rename_keys")' = Left("rename_keys") /\ Left("rename_attrs")' = Left("rename_attrs")
        /\ Left("rename_vhashes")' = Left("rename_vhashes") \ {v}
    BY <1>3 DEF Mends, Passes, IndexLeft
  <2>2. CopyInv'
    BY <1>1, <2>1, NotRecorded, NothingMended
  <2>3. attrhash' = attrhash /\ \A i : IsEncap(i)' <=> IsEncap(i)
    BY <1>1 DEF blobs, IsEncap
  <2>4. StaleLeft'
    BY <1>3, <2>1, <2>3 DEF StaleLeft
  <2> QED BY <2>1, <2>2, <2>4
<1> QED BY <1>2, <1>3, VhashesWait

\* Nothing happens.
LEMMA CopySame ==
  ASSUME CopyInv, RestOfClone, StaleLeft,
         UNCHANGED <<held, life, rc, acts, tables, blobs, loops, todo, stale, notes, before>>
  PROVE  CopyInv' /\ RestOfClone' /\ StaleLeft'
<1>1. \A p : Left(p)' = Left(p)
  BY DEF Left
<1>2. IndexLeft' = IndexLeft
  BY <1>1 DEF IndexLeft
<1>3. CopyInv'
  BY <1>1, <1>2, NothingMended
<1>4. RestOfClone'
  BY SameTables DEF RestOfClone
<1>5. attrhash' = attrhash /\ \A i : IsEncap(i)' <=> IsEncap(i)
  BY DEF blobs, IsEncap
<1>6. StaleLeft'
  BY <1>1, <1>5 DEF StaleLeft
<1> QED BY <1>3, <1>4, <1>6

\* An entry freed in use ends the program in the middle of CLONE.
LEMMA TempsFreed ==
  ASSUME CopyInv, RestOfClone, StaleLeft, FreeTemps, Record
  PROVE  CopyInv' /\ RestOfClone' /\ StaleLeft'
<1>1. UNCHANGED <<held, life, rc, acts, tables, blobs, loops, todo, stale, notes>> /\ todo' # <<>>
  BY DEF FreeTemps, Fault, Doing, clonevars, notes, heap
<1> QED BY <1>1, NotRecorded, CopySame

\* CLONE returns, and leaves a table like any other.
LEMMA CloneReturns ==
  ASSUME CopyInv, RestOfClone, Cloned, Record
  PROVE  IInv' /\ TablesInv' /\ ObjGone' /\ Remembered' /\ ~ Cloning'
<1>1. todo = <<<<"cloned">>>>
  BY Waits DEF Cloned, Doing
<1>2. todo' = <<>> /\ kept' = {}
  BY <1>1, TakenOff DEF Cloned, Then
<1>3. /\ UNCHANGED <<held, life, rc, acts, tables, blobs, loops, err, stale>>
      /\ UNCHANGED <<slookup, flookup, rlookup, attr_lookup, obj, obj_paddr, attrhash, iter, values>>
      /\ err = "none"
  BY DEF Cloned, tables, blobs, loops, Doing
<1>4. Left("rename_reverse") = {} /\ IndexLeft = {}
  BY <1>1, LeftIs DEF Left, IndexLeft
<1>5. (\A p : Left(p)' = {}) /\ IndexLeft' = {}
  BY <1>2 DEF Left, LeftIn, IndexLeft, ToSet
<1>6. \A i \in Index : obj[i] # "parent"
  BY <1>4 DEF CopyInv, CopyReferred
<1>7. Meant = obj /\ Meant' = obj'
  <2>1. obj = [i \in Index |-> obj[i]]
    BY DEF CopyInv, CopyTyped
  <2> QED BY <1>3, <1>6, <2>1 DEF Meant
<1>8. CopyTyped'
  BY <1>3 DEF CopyInv, CopyTyped, EntriesTyped
<1>9. CopyAgreed'
  BY <1>3, AgreedSame DEF CopyInv
<1>10. CopyReferred'
  BY <1>3, <1>5, <1>6, <1>7 DEF CopyInv, CopyReferred
<1>11. CopyCounted'
  <2>1. \A i : Under(i)' = Under(i)
    BY <1>3 DEF Under
  <2> QED BY <1>3, <1>6, <2>1 DEF CopyInv, CopyCounted, References, Vhashes
<1>12. CopyHooked'
  <2>1. \A i : Under(i)' = Under(i)
    BY <1>3 DEF Under
  <2> QED BY <1>3, <1>4, <1>5, <2>1 DEF CopyInv, CopyHooked, ActsOnce
<1>13. CopyViewed'
  <2>1. before' = View'
    BY <1>2, <1>3 DEF Record
  <2> QED BY <1>7, <2>1 DEF CopyViewed, ViewOf, View
<1>14. CopyInv'
  BY <1>8, <1>9, <1>10, <1>11, <1>12, <1>13 DEF CopyInv
<1>15. (CopyInv /\ todo = <<>> /\ kept = {} => IInv /\ TablesInv /\ ObjGone /\ Remembered)'
  BY CopyIsRest, PTL
<1> QED BY <1>2, <1>14, <1>15 DEF Cloning

-----------------------------------------------------------------------------
(* Outside of CLONE.                                                        *)

LEMMA NextRecords ==
  ASSUME Next
  PROVE  Record
BY DEF Next, Step, Operation

\* A key or an attribute that is free has been made to refer to nothing.
LEMMA ObjGoneStep ==
  ASSUME IInv, ObjGone, Step
  PROVE  ObjGone'
<1>1. /\ life \in [Node -> {"free", "live", "dying"}] /\ obj \in [Index -> Entry \cup {"dangling"}]
  BY DEF IInv, Shape, DataShape, Typed
<1>2. \A i \in Index : i \in Node
  BY Apartness
<1>3. CASE Top[1] \in {"dec", "ka_end"}
  <2>1. Dec \/ KaEnd
    BY <1>3, StepIs
  <2>2. \/ UNCHANGED <<life, obj>>
        \/ \E n : /\ life' = [life EXCEPT ![n] = "dying"]
                  /\ obj' = [i \in Index |-> IF TheObject(i) = n THEN Cleared(obj[i]) ELSE obj[i]]
    BY <2>1 DEF Dec, KaEnd, Die, Fault, heap, blobs
  <2> QED BY <1>1, <1>2, <2>2 DEF ObjGone, Cleared
<1>4. CASE Top[1] = "free"
  <2>1. CASE RunAction
    BY <2>1 DEF RunAction, blobs, ObjGone
  <2>2. CASE Freed
    BY <1>1, <1>2, <2>2 DEF Freed, ObjGone
  <2> QED BY <1>4, <2>1, <2>2, StepIs
<1>5. CASE Top[1] \in {"k_encap_cleanup", "encap_attr_destroy_hook", "attr_destroy_trigger"}
  <2>1. /\ life' = life
        /\ \/ obj' = obj
           \/ obj' = [obj EXCEPT ![Top[2]] = "none"]
           \/ /\ life[Top[2]] # "free"
              /\ \E e : obj' = [obj EXCEPT ![Top[2]] = e]
    BY <1>5, StepIs DEF KEncapCleanup, EncapAttrDestroyHook, AttrDestroyTrigger, Fault, blobs, heap
  <2> QED BY <1>1, <1>2, <2>1 DEF ObjGone
<1>6. CASE Top[1] \notin {"dec", "ka_end", "free", "k_encap_cleanup", "encap_attr_destroy_hook",
                          "attr_destroy_trigger"}
  BY <1>6, StepTouches DEF ObjGone
<1> QED BY <1>3, <1>4, <1>5, <1>6

LEMMA ObjGoneOperation ==
  ASSUME IInv, ObjGone, Operation
  PROVE  ObjGone'
<1>1. /\ life \in [Node -> {"free", "live", "dying"}] /\ obj \in [Index -> Entry \cup {"dangling"}]
  BY DEF IInv, Shape, DataShape, Typed
<1>2. \A i \in Index : i \in Node
  BY Apartness
<1>3. ASSUME NEW o \in Object, New(o) PROVE ObjGone'
  BY <1>1, <1>2, <1>3, Apartness DEF New, blobs, ObjGone
<1>4. ASSUME NEW k \in Key, NEW v \in Object, NEW sv \in BOOLEAN, NEW sk \in BOOLEAN, StoreSk(k, v, sv, sk)
      PROVE  ObjGone'
  <2>1. life' = [life EXCEPT ![k] = "live"] /\ (obj' = obj \/ obj' = [obj EXCEPT ![k] = Mode(sk)])
    BY <1>4 DEF StoreSk
  <2> QED BY <1>1, <1>2, <2>1 DEF ObjGone
<1>5. ASSUME NEW a \in Attr, NEW v \in Object, NEW sv \in BOOLEAN, NEW sa \in BOOLEAN, StoreA(a, v, sv, sa)
      PROVE  ObjGone'
  <2>1. life' = [life EXCEPT ![a] = "live"] /\ (obj' = obj \/ obj' = [obj EXCEPT ![a] = Mode(sa)])
    BY <1>5 DEF StoreA
  <2> QED BY <1>1, <1>2, <2>1 DEF ObjGone
<1>6. CASE UNCHANGED <<life, acts, tables, blobs>>
  BY <1>6 DEF blobs, ObjGone
<1> QED BY <1>3, <1>4, <1>5, <1>6, OperationStarts

\* The program's own steps, when CLONE does not run.
LEMMA ProgramSteps ==
  ASSUME IInv, TablesInv, ObjGone, Remembered, [Next]_vars
  PROVE  IInv' /\ TablesInv' /\ ObjGone' /\ Remembered' /\ ~ Cloning'
<1>1. IInv' /\ TablesInv'
  BY IInvNext, TablesNext
<1>2. ObjGone'
  <2>1. CASE UNCHANGED vars
    BY <2>1 DEF vars, heap, blobs, ObjGone
  <2> QED BY <2>1, ObjGoneStep, ObjGoneOperation DEF Next
<1>3. Remembered'
  <2>1. CASE UNCHANGED vars
    <3>1. UNCHANGED <<held, life, slookup, flookup, attr_lookup, obj, attrhash, todo, err, before>>
      BY <2>1 DEF vars, heap, tables, blobs
    <3>2. View' = View
      BY <3>1 DEF View
    <3> QED BY <3>1, <3>2 DEF Remembered, Idle
  <2>2. CASE Next
    BY <2>2, NextRecords DEF Record, Remembered, Idle
  <2> QED BY <2>1, <2>2
<1>4. (todo \in Seq(Task) => ~ Cloning)'
  BY NotCloning, PTL
<1>5. todo' \in Seq(Task)
  BY <1>1 DEF IInv, Shape, TodoShape
<1> QED BY <1>1, <1>2, <1>3, <1>4, <1>5

LEMMA CloneStepTop ==
  ASSUME CloneStep
  PROVE  todo # <<>> /\ Top[1] \in CloneKinds
BY DEF CloneStep, RenameReverse, RenameKey, RenameAttr, FreeTemps, RenameVhash, Cloned, Doing, CloneKinds

LEMMA CloneInvInit ==
  ASSUME CloneInit
  PROVE  CloneInv
<1>1. IInv /\ TablesInv /\ todo = <<>>
  BY IInvInit, TablesInit DEF CloneInit, Init
<1>2. ObjGone
  BY DEF CloneInit, Init, ObjGone
<1>3. before = View
  <2>1. /\ \A o \in Object : life[o] # "live"
        /\ \A k \in Key : flookup[k].mode \notin Ref
        /\ \A a \in Attr : attr_lookup[a] # "weak"
        /\ held = {} /\ before = [live |-> {}, held |-> {}, entries |-> {}]
    BY Apartness DEF CloneInit, Init, NoValue, Ref
  <2>2. /\ {o \in Object : life[o] = "live"} = {}
        /\ {j \in Key : flookup[j].mode \in Ref} = {}
        /\ {q \in Attr \X Object : attr_lookup[q[1]] = "weak" /\ attrhash[q[1]][q[2]] \in Ref} = {}
    BY <2>1
  <2> QED BY <2>1, <2>2 DEF View
<1> QED BY <1>1, <1>2, <1>3 DEF CloneInv, Cloning, Remembered

LEMMA CloneInvNext ==
  ASSUME OneType, CloneInv, [CloneNext]_<<vars, clonevars>>
  PROVE  CloneInv'
<1>1. CASE Cloning
  <2>1. CopyInv /\ RestOfClone /\ StaleLeft /\ ~ Next /\ ~ Idle
    BY <1>1, OnlyClone DEF CloneInv
  <2>2. (RestOfClone => Cloning)'
    BY OnlyClone, PTL
  <2>3. CASE UNCHANGED <<vars, clonevars>>
    <3>1. UNCHANGED <<held, life, rc, acts, tables, blobs, loops, todo, stale, notes, before>>
      BY <2>3 DEF vars, heap, clonevars, notes
    <3> QED BY <2>1, <2>2, <3>1, CopySame DEF CloneInv
  <2>4. CASE Cloned /\ Record
    BY <2>1, <2>4, CloneReturns DEF CloneInv
  <2>5. CASE (RenameReverse \/ RenameKey \/ RenameAttr \/ FreeTemps \/ RenameVhash) /\ Record
    BY <2>1, <2>2, <2>5, ReverseMended, KeyMended, AttrMended, TempsFreed, VhashMended DEF CloneInv
  <2>6. ~ Clone
    BY <2>1 DEF Clone
  <2> QED BY <2>1, <2>3, <2>4, <2>5, <2>6 DEF CloneNext, CloneStep
<1>2. CASE ~ Cloning
  <2>1. IInv /\ TablesInv /\ ObjGone /\ Remembered
    BY <1>2 DEF CloneInv
  <2>2. CASE [Next]_vars
    BY <2>1, <2>2, ProgramSteps DEF CloneInv
  <2>3. CASE Clone /\ Record
    <3>1. CopyInv
      BY <2>1, <2>3, RestIsCopy DEF Clone
    <3>2. CopyInv' /\ RestOfClone' /\ StaleLeft'
      BY <2>3, <3>1, CloneBegins
    <3>3. (RestOfClone => Cloning)'
      BY OnlyClone, PTL
    <3> QED BY <3>2, <3>3 DEF CloneInv
  <2>4. ~ CloneStep
    <3>1. todo \in Seq(Task)
      BY <2>1 DEF IInv, Shape, TodoShape
    <3>2. todo # <<>> => Top \in Task
      BY <3>1 DEF Top
    <3> QED BY <3>2, TaskNotClone, CloneStepTop
  <2> QED BY <2>2, <2>3, <2>4 DEF CloneNext
<1> QED BY <1>1, <1>2

-----------------------------------------------------------------------------
(* What follows.                                                            *)

\* For every program that uses no object as an attribute under two types, and however many
\* threads it starts one from the other: CLONE finds a whole table, each of its steps leaves
\* less to mend, and what is mended is whole.
THEOREM ClonesInductive == OneType => (CloneSpec => []CloneInv)
<1> SUFFICES ASSUME OneType PROVE CloneSpec => []CloneInv
  OBVIOUS
<1>1. CloneInit => CloneInv
  BY CloneInvInit
<1>2. CloneInv /\ [CloneNext]_<<vars, clonevars>> => CloneInv'
  BY CloneInvNext
<1> QED BY <1>1, <1>2, PTL DEF CloneSpec

LEMMA AtRestNotCloning ==
  ASSUME CloneInv, Idle
  PROVE  IInv /\ TablesInv
BY OnlyClone DEF CloneInv

LEMMA CopiedAtEnd ==
  ASSUME CloneInv, Doing("cloned")
  PROVE  Counted /\ Agreed /\ Hooked /\ stale = {} /\ View = before
<1>1. CopyInv /\ RestOfClone /\ StaleLeft
  <2>1. CASE ~ Cloning
    <3>1. todo \in Seq(Task) /\ todo # <<>>
      BY <2>1 DEF CloneInv, IInv, Shape, TodoShape, Doing
    <3>2. Top \in Task
      BY <3>1 DEF Top
    <3> QED BY <3>2, TaskNotClone DEF Doing, CloneKinds
  <2> QED BY <2>1 DEF CloneInv
<1>2. todo = <<<<"cloned">>>>
  BY <1>1, Waits DEF Doing
<1>3. /\ Left("rename_reverse") = {} /\ Left("rename_keys") = {}
      /\ Left("rename_attrs") = {} /\ Left("rename_vhashes") = {} /\ IndexLeft = {}
  BY <1>2, LeftIs DEF Left, IndexLeft
<1>4. \A i \in Index : obj[i] # "parent"
  BY <1>1, <1>3 DEF CopyInv, CopyReferred
<1>5. Counted
  <2>1. \A n \in Node : rc[n] \in Int /\ life[n] \in {"free", "live"}
    BY <1>1 DEF CopyInv, CopyTyped
  <2>2. \A n \in Node : life[n] = IF rc[n] > 0 THEN "live" ELSE "free"
    BY <1>1, <1>4, <2>1 DEF CopyInv, CopyCounted
  <2> QED BY <1>1, <2>2 DEF CopyInv, CopyCounted, Counted, Vhashes
<1>6. Agreed
  BY <1>1 DEF CopyInv, CopyAgreed
<1>7. Hooked
  <2>1. \A i \in Index : /\ acts[i] = IF life[i] = "live" THEN OwnActions(i) ELSE <<>>
                         /\ life[i] = "live" <=> life[i] # "free"
    BY <1>1, <1>3, Apartness DEF CopyInv, CopyHooked, CopyTyped
  <2>2. \A k \in Key : ToSet(acts[k]) = IF life[k] = "free" THEN {}
                                        ELSE IF IsEncap(k) THEN {<<"k_encap_cleanup", k>>}
                                        ELSE {<<"slookup", k>>, <<"flookup", k>>}
    <3> SUFFICES ASSUME NEW k \in Key
                 PROVE  ToSet(acts[k]) = IF life[k] = "free" THEN {}
                                         ELSE IF IsEncap(k) THEN {<<"k_encap_cleanup", k>>}
                                         ELSE {<<"slookup", k>>, <<"flookup", k>>}
      OBVIOUS
    <3>1. k \in Index /\ k \notin Attr
      BY Apartness
    <3>2. acts[k] = IF life[k] = "free" THEN <<>>
                    ELSE IF IsEncap(k) THEN <<<<"k_encap_cleanup", k>>>>
                    ELSE <<<<"slookup", k>>, <<"flookup", k>>>>
      BY <2>1, <3>1 DEF OwnActions
    <3>3. /\ ToSet(<<>>) = {} /\ \A x : ToSet(<<x>>) = {x}
          /\ \A x, y : ToSet(<<x, y>>) = {x, y}
      BY DEF ToSet
    <3> QED BY <3>2, <3>3
  <2>3. \A a \in Attr : ToSet(acts[a]) = IF life[a] = "free" THEN {} ELSE {<<"attr_destroy_trigger", a>>}
    BY <2>1, OwnActionsProps, Apartness DEF ToSet
  <2>4. ASSUME NEW o \in Object
        PROVE  ToSet(acts[o]) =
                 (IF rlookup[o] = Null THEN {} ELSE {<<"rlookup", o>>})
                 \cup {<<"attrhash", a, o>> : a \in Under(o) \cap Attr}
                 \cup {<<"encap_destroy_hook", k>> : k \in {j \in Key : TheObject(j) = o /\ life[j] = "live"}}
                 \cup {<<"encap_attr_destroy_hook", a>> :
                         a \in {b \in Attr : TheObject(b) = o /\ life[b] = "live"}}
    <3>1. ToSet(acts[o]) =
            {<<"rlookup", v>> : v \in {u \in {o} : rlookup[u] # Null}}
            \cup {<<"attrhash", a, o>> : a \in Under(o) \cap Attr}
            \cup {<<"encap_destroy_hook", k>> : k \in {j \in Key : TheObject(j) = o /\ life[j] = "live"}}
            \cup {Hook(a) : a \in {b \in Attr : TheObject(b) = o /\ life[b] = "live"}}
      BY <1>1, <1>3 DEF CopyInv, CopyHooked
    <3>2. {<<"rlookup", v>> : v \in {u \in {o} : rlookup[u] # Null}} =
            IF rlookup[o] = Null THEN {} ELSE {<<"rlookup", o>>}
      OBVIOUS
    <3> QED BY <3>1, <3>2 DEF Hook
  <2> QED BY <2>2, <2>3, <2>4 DEF Hooked
<1>8. stale = {}
  BY <1>1, <1>3 DEF StaleLeft
<1>9. View = before
  <2>1. Meant = obj
    <3>1. obj = [i \in Index |-> obj[i]]
      BY <1>1 DEF CopyInv, CopyTyped
    <3> QED BY <1>4, <3>1 DEF Meant
  <2> QED BY <1>1, <2>1 DEF CopyInv, CopyViewed, ViewOf, View
<1> QED BY <1>5, <1>6, <1>7, <1>8, <1>9

\* When CLONE returns, the child's table is whole and has what the parent's had.
THEOREM CloneCopies == OneType => (CloneSpec => []CloneIsACopy)
<1> SUFFICES ASSUME OneType PROVE CloneSpec => []CloneIsACopy
  OBVIOUS
<1>1. CloneInv => CloneIsACopy
  BY CopiedAtEnd DEF CloneIsACopy
<1> QED BY <1>1, ClonesInductive, PTL

\* As far as CLONE has come, a key and an attribute refer to their object in the child as
\* they did in the parent.
THEOREM CloneKeepsStrength == OneType => (CloneSpec => []StrengthKept)
<1> SUFFICES ASSUME OneType PROVE CloneSpec => []StrengthKept
  OBVIOUS
<1>1. CloneInv => StrengthKept
  <2> SUFFICES ASSUME CloneInv, Cloning, NEW e \in before.entries, obj[e.index] # "parent"
               PROVE  (obj[e.index] = "strong") = e.si
    BY DEF StrengthKept
  <2>1. e \in ViewOf(Meant).entries
    BY DEF CloneInv, CopyInv, CopyViewed
  <2>2. e.index \in Index /\ e.si = (Meant[e.index] = "strong")
    <3> DEFINE m == Meant
               E(i, v, sv) == [index |-> i, value |-> v, sv |-> sv, si |-> m[i] = "strong"]
    <3> HIDE DEF m
    <3>1. \A i, v, sv : E(i, v, sv).index = i /\ E(i, v, sv).si = (m[i] = "strong")
      OBVIOUS
    <3>2. ViewOf(m).entries =
            {E(k, flookup[k].value, flookup[k].mode = "strong") : k \in {j \in Key : flookup[j].mode \in Ref}}
            \cup {E(p[1], p[2], attrhash[p[1]][p[2]] = "strong") :
                    p \in {q \in Attr \X Object : attr_lookup[q[1]] = "weak" /\ attrhash[q[1]][q[2]] \in Ref}}
      BY DEF ViewOf
    <3> HIDE DEF E
    <3>3. \E i \in Index : \E v, sv : e = E(i, v, sv)
      BY <2>1, <3>2 DEF m, Index
    <3> QED BY <3>1, <3>3 DEF m
  <2> QED BY <2>2 DEF Meant
<1> QED BY <1>1, ClonesInductive, PTL

\* In a thread too every count is exact between operations,
THEOREM CountedInThreads == OneType => (CloneSpec => []RefcountsExact)
<1> SUFFICES ASSUME OneType PROVE CloneSpec => []RefcountsExact
  OBVIOUS
<1>1. CloneInv => RefcountsExact
  BY AtRestNotCloning, CountedAtRest DEF RefcountsExact
<1> QED BY <1>1, ClonesInductive, PTL

\* the tables agree,
THEOREM TablesAgreeInThreads == OneType => (CloneSpec => []TablesAgree)
<1> SUFFICES ASSUME OneType PROVE CloneSpec => []TablesAgree
  OBVIOUS
<1>1. CloneInv => TablesAgree
  BY AtRestNotCloning, AgreedAtRest DEF TablesAgree
<1> QED BY <1>1, ClonesInductive, PTL

\* and every node has the actions its entries call for.
THEOREM HooksAgreeInThreads == OneType => (CloneSpec => []HooksAgree)
<1> SUFFICES ASSUME OneType PROVE CloneSpec => []HooksAgree
  OBVIOUS
<1>1. CloneInv => HooksAgree
  BY AtRestNotCloning, HookedAtRest DEF HooksAgree
<1> QED BY <1>1, ClonesInductive, PTL
=============================================================================
