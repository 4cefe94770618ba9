------------------------- MODULE RefStoreXSInvariant -------------------------
(***************************************************************************)
(* What is true of RefStoreXS in every state, in the middle of a cascade   *)
(* of deaths as much as between operations, and for every program: those   *)
(* that bring the table down by its faults included.                       *)
(***************************************************************************)
EXTENDS RefStoreXS

-----------------------------------------------------------------------------
(* The shape of the actions and of what waits.                              *)

Made(K, o) == {i \in K : TheObject(i) = o}

\* What can be on the action list of a node.
ActionsOf(n) ==
  IF n \in Object
    THEN {<<"rlookup", n>>}
         \cup {<<"attrhash", a, n>> : a \in Attr}
         \cup {<<"encap_destroy_hook", k>> : k \in Made(Key, n)}
         \cup {<<"encap_attr_destroy_hook", a>> : a \in Made(Attr, n)}
    ELSE IF n \in Key
           THEN {<<"slookup", n>>, <<"flookup", n>>, <<"k_encap_cleanup", n>>}
           ELSE {<<"attr_destroy_trigger", n>>}

Action == UNION {ActionsOf(n) : n \in Node}

NodeTask == {"dec", "free", "ka_end"} \X Node
NodesTask == {"decall"} \X SUBSET Node
ValueTask == {"vhash_check", "purge", "purge_end", "push"} \X Object
AttrTask == {"attr_lookup", "values"} \X Attr
Unvhash == {"unvhash"} \X Index \X Object
Unhash == {"unhash"} \X Attr \X Object
ForeachTask == {"foreach"} \X Object \X Seq(Index)
DestroyAttrsTask == {"destroy_attrs"} \X SUBSET Attr
DestroyAttrTask == {"destroy_attr"} \X Attr \X SUBSET Object
DestroyKeysTask == {<<"destroy_keys">>}
DestroyValuesTask == {"destroy_values"} \X SUBSET Object

Task ==
  Action \cup NodeTask \cup NodesTask \cup ValueTask \cup AttrTask \cup Unvhash \cup Unhash
  \cup ForeachTask \cup DestroyAttrsTask \cup DestroyAttrTask \cup DestroyKeysTask
  \cup DestroyValuesTask

\* The tasks that still have to give up a reference to n.
Holding(n) ==
  {t \in Task : \/ t[1] \in {"dec", "foreach", "purge_end"} /\ t[2] = n
                \/ t[1] = "decall" /\ n \in t[2]}

\* What t can count on of the tasks below it in todo, when the program holds H.
Grounded(t, below, H) ==
  /\ \A b \in below : b[1] # "encap_attr_destroy_hook"
  /\ t[1] = "free" => t \notin below
  /\ t[1] = "unhash" => <<"unvhash", t[2], t[3]>> \in below
  /\ t[1] = "attrhash" => <<"free", t[3]>> \in below
  /\ t[1] \in {"purge", "foreach"} => \A b \in below : b[1] # "foreach"
  /\ t[1] = "purge" => t[2] \in H \/ \E b \in below : b \in Holding(t[2])

GroundedIn(q, H) == \A p \in 1..Len(q) : Grounded(q[p], {q[r] : r \in (p + 1)..Len(q)}, H)
AllGrounded == GroundedIn(todo, held)

Typed ==
  /\ held \in SUBSET Object
  /\ life \in [Node -> {"free", "live", "dying"}]
  /\ rc \in [Node -> Int]
  /\ kept \in SUBSET Node
  /\ acts \in [Node -> Seq(Action)]
  /\ slookup \in [Key -> Entry]
  /\ flookup \in [Key -> [mode : Entry, value : Object \cup {Null}]]
  /\ rlookup \in [Object -> (SUBSET Index) \cup {Null}]
  /\ attr_lookup \in [Attr -> Entry]
  /\ obj \in [Index -> Entry \cup {"dangling"}]
  /\ obj_paddr \in [Attr -> BOOLEAN]
  /\ attrhash \in [Attr -> [Object -> Entry]]
  /\ iter \in Loop \cup {Null}
  /\ values \in SUBSET Object

\* An entry has a value, and only an object's key or attribute a reference to it.
EntriesTyped ==
  /\ \A k \in Key : flookup[k].mode \in Ref => flookup[k].value \in Object
  /\ \A i \in Index : obj[i] # "none" => TheObject(i) \in Object
  /\ \A a \in Attr : obj_paddr[a] => TheObject(a) \in Object

ActionsTyped == \A n \in Node : ToSet(acts[n]) \subseteq ActionsOf(n)

LoopOpen ==
  /\ iter # Null <=> \E t \in ToSet(todo) : t[1] = "foreach"
  /\ iter # Null /\ iter.gone => iter.cur \in Index /\ iter.cur \notin Under(iter.value)

KeptOpen == \A n \in kept : <<"ka_end", n>> \in ToSet(todo)

FreeOpen == \A n \in Node : life[n] = "dying" <=> <<"free", n>> \in ToSet(todo)

DataShape == Typed /\ EntriesTyped /\ ActionsTyped

TodoShape == todo \in Seq(Task) /\ AllGrounded /\ LoopOpen /\ KeptOpen /\ FreeOpen

Shape == DataShape /\ TodoShape

-----------------------------------------------------------------------------
(* The references, counted.                                                 *)

\* In how many places of q, counted from its end, is an element of X?
Places(q, X) == {d \in 1..Len(q) : q[Len(q) + 1 - d] \in X}
Occurs(q, X) == Cardinality(Places(q, X))

StrongKeys(o) == {k \in Key : flookup[k] = [mode |-> "strong", value |-> o]}
StrongAttrs(o) == {a \in Attr : attrhash[a][o] = "strong"}
StrongObjs(o) == {i \in Index : TheObject(i) = o /\ obj[i] = "strong"}
Vhashes(i) == {v \in Object : i \in Under(v)}

One(b) == IF b THEN 1 ELSE 0

\* The element purge is at when it has left the vhash.
Gone(i) == One(iter # Null /\ iter.gone /\ iter.cur = i)

\* The references to an object are exactly counted.
ObjectsCounted ==
  \A o \in Object :
    rc[o] = One(o \in held) + One(o \in values)
      + Cardinality(StrongKeys(o)) + Cardinality(StrongAttrs(o)) + Cardinality(StrongObjs(o))
      + Occurs(todo, Holding(o))

\* The references to a key object, an attribute object are exactly counted.
IndexCounted ==
  \A i \in Index : rc[i] = Cardinality(Vhashes(i)) + Gone(i) + Occurs(todo, Holding(i))

LifeCounted ==
  \A n \in Node :
    /\ life[n] # "live" => rc[n] = 0
    /\ life[n] = "live" => rc[n] > 0 \/ n \in kept

-----------------------------------------------------------------------------
(* Which entries and actions there are.                                     *)

\* A reference that was weak is undef when its referent has gone, and the lookups
\* by name are weak.
WeakLive ==
  /\ \A k \in Key : slookup[k] # "strong"
  /\ \A a \in Attr : attr_lookup[a] # "strong"
  /\ \A k \in Key : slookup[k] = "weak" => life[k] = "live"
  /\ \A k \in Key : flookup[k].mode = "weak" => life[flookup[k].value] = "live"
  /\ \A a \in Attr : attr_lookup[a] = "weak" => life[a] = "live"
  /\ \A i \in Index : obj[i] = "weak" => life[TheObject(i)] = "live"
  /\ \A a \in Attr, v \in Object : attrhash[a][v] = "weak" => life[v] = "live"

\* An attribute has each value it is under, but for the moment between taking
\* the one out and taking the other out.
UnderHas ==
  \A a \in Attr, v \in Object :
    a \in Under(v) =>
      attrhash[a][v] # "none" \/ life[v] # "live" \/ <<"unvhash", a, v>> \in ToSet(todo)

\* In q a task of W comes before each task of U.
Ahead(q, U, W) == \A p \in 1..Len(q) : q[p] \in U => \E r \in 1..(p - 1) : q[r] \in W

\* The tasks that go by that an attribute has lost a value: they take one of the two out
\* of the other's vhash, or what is left of the value's vhash, or what the program's
\* reference to the table kept.
After(a, v) ==
  {t \in Task : \/ t \in {<<"unvhash", a, v>>, <<"rlookup", v>>, <<"purge_end", v>>}
                \/ t[1] = "foreach" /\ t[2] = v /\ a \notin ToSet(t[3])
                \/ t[1] \in {"destroy_keys", "destroy_values"}}

\* The tasks that make it lose it.
Taking(a, v) ==
  {t \in Task : \/ t = <<"unhash", a, v>>
                \/ t[1] = "destroy_attrs" /\ a \in t[2]
                \/ t[1] = "destroy_attr" /\ t[2] = a /\ v \in t[3]}

\* An attribute that keeps a value is under it, and is taken out before anything goes
\* by that it is out.
RefUnder ==
  \A a \in Attr, v \in Object : attrhash[a][v] \in Ref =>
    /\ a \in Under(v)
    /\ Ahead(todo, After(a, v), Taking(a, v))

\* An attribute that has values is found, or is taking them out.
HashFound ==
  \A a \in Attr, v \in Object :
    attrhash[a][v] # "none" => attr_lookup[a] # "none" \/ <<"values", a>> \in ToSet(todo)

\* What a key keeps is let go of when the key goes, by its own action or by the one that
\* takes an object's key out of the table.
Cleanup(k) == {<<"flookup", k>>, <<"k_encap_cleanup", k>>}
ForwardHooked ==
  \A k \in Key : flookup[k].mode # "none" =>
    Cleanup(k) \cap (ToSet(acts[k]) \cup ToSet(todo)) # {}

\* What a key or an attribute was made from is let go of by the action that it has.
OwnAction(i) == IF i \in Attr THEN <<"attr_destroy_trigger", i>> ELSE <<"k_encap_cleanup", i>>
ObjectHooked ==
  \A i \in Index : obj[i] = "strong" =>
    OwnAction(i) \in ToSet(acts[i]) \/ (todo # <<>> /\ Top = OwnAction(i))

\* DESTROY keeps what it found until it has taken the table down, and that is the last
\* thing to be done: nothing is pushed to its @values after it.
TakeDown == {"destroy_keys", "destroy_values"}
Gathering == {"push", "destroy_attr", "destroy_attrs"}
Ends(q) == Len(q) > 0 /\ q[Len(q)][1] \in TakeDown
Closed(q) ==
  \A p \in 1..Len(q) : /\ q[p][1] \in TakeDown => p = Len(q)
                       /\ q[p][1] \in Gathering => Ends(q)
ValuesKept == Closed(todo) /\ (values # {} => Ends(todo))

\* A vhash goes with its value.
VhashHooked ==
  \A v \in Object :
    rlookup[v] # Null =>
      <<"rlookup", v>> \in ToSet(acts[v]) \/ (todo # <<>> /\ Top = <<"rlookup", v>>)

\* Nothing is left of what is free.
FreeClean ==
  /\ \A n \in Node : life[n] = "free" => acts[n] = <<>>
  /\ \A v \in Object : life[v] = "free" => rlookup[v] = Null
  /\ \A a \in Attr, v \in Object : life[a] = "free" => attrhash[a][v] = "none"

NoDuplicate(q) == \A i, j \in 1..Len(q) : q[i] = q[j] => i = j
ActsOnce == \A n \in Node : NoDuplicate(acts[n])

\* A hook on an object names an attribute that will take it away before it goes.
Trigger(a) == <<"attr_destroy_trigger", a>>
Hook(a) == <<"encap_attr_destroy_hook", a>>
AttrHooks ==
  \A a \in Attr : TheObject(a) \in Object /\ Hook(a) \in ToSet(acts[TheObject(a)]) =>
    /\ obj_paddr[a]
    /\ \/ life[a] = "live" /\ Trigger(a) \in ToSet(acts[a])
       \/ todo # <<>> /\ Top = <<"free", a>> /\ Trigger(a) \in ToSet(acts[a])
       \/ todo # <<>> /\ Top = Trigger(a)

\* When the hook runs its attribute lives.
HookRuns ==
  \A a \in Attr : todo # <<>> /\ Top = Hook(a) =>
    /\ life[a] = "live"
    /\ TheObject(a) \in Object => Hook(a) \notin ToSet(acts[TheObject(a)])

\* All of it, in every state: what a step of a cascade may count on.
IInv ==
  /\ Shape
  /\ ObjectsCounted /\ IndexCounted /\ LifeCounted
  /\ WeakLive /\ UnderHas /\ VhashHooked /\ FreeClean
  /\ RefUnder /\ HashFound /\ ForwardHooked /\ ObjectHooked /\ ValuesKept
  /\ ActsOnce /\ AttrHooks /\ HookRuns

-----------------------------------------------------------------------------
(* The tables and the back-deletes, entry by entry.                         *)

\* What DESTROY is still to take down.
Doomed(v) == \E t \in ToSet(todo) : t[1] = "destroy_values" /\ v \in t[2]

\* A key under a value that lives is in scalar_lookup and in forward, under that value,
\* and goes from the vhash before it goes from either.
KeyUnder ==
  \A k \in Key, v \in Object : k \in Under(v) =>
    \/ life[v] # "live" \/ Doomed(v)
    \/ /\ slookup[k] = "weak" /\ flookup[k].mode \in Ref /\ flookup[k].value = v
       /\ Ahead(todo, {<<"slookup", k>>, <<"flookup", k>>}, {<<"unvhash", k, v>>})

\* A key in scalar_lookup is in forward, leaves that one last, and its own actions, or
\* what is left of them, take it from both.
KeyFound ==
  \A k \in Key : slookup[k] # "none" =>
    /\ flookup[k].mode # "none"
    /\ Ahead(todo, {<<"flookup", k>>}, {<<"slookup", k>>})
    /\ IF IsEncap(k)
         THEN {<<"slookup", k>>, <<"k_encap_cleanup", k>>} \cap (ToSet(acts[k]) \cup ToSet(todo)) # {}
         ELSE acts[k] = OwnActions(k) \/ (todo # <<>> /\ Top = <<"slookup", k>>)

\* A key has no other actions, and without an entry in forward it has no value.
KeyOwns ==
  \A k \in Key :
    /\ ToSet(acts[k]) \subseteq ToSet(OwnActions(k))
    /\ flookup[k].mode = "none" => flookup[k] = NoValue

\* An empty vhash is looked at before anything else is done.
EmptyChecked == \A v \in Object : rlookup[v] = {} => <<"vhash_check", v>> \in ToSet(todo)

\* The action that deletes a vhash is for one that there is, and is not run twice.
VhashAction ==
  \A v \in Object : <<"rlookup", v>> \in ToSet(acts[v]) =>
    rlookup[v] # Null /\ <<"rlookup", v>> \notin ToSet(todo)

\* An attribute's entry for a value goes with the value, by the action that is there as
\* long as the entry.
ValueHooked ==
  \A a \in Attr, v \in Object :
    /\ attrhash[a][v] # "none" => <<"attrhash", a, v>> \in ToSet(acts[v]) \cup ToSet(todo)
    /\ <<"attrhash", a, v>> \in ToSet(acts[v]) /\ life[v] = "live" => attrhash[a][v] # "none"
    /\ attrhash[a][v] = "undef" => life[v] # "live"

\* An attribute's entry in attr_lookup goes with the attribute.
AttrOwns ==
  \A a \in Attr :
    /\ attr_lookup[a] # "none" =>
         \/ Trigger(a) \in ToSet(acts[a]) \cup ToSet(todo) \/ <<"attr_lookup", a>> \in ToSet(todo)
    /\ attr_lookup[a] = "undef" => life[a] # "live"

\* A key made from an object goes with the object.
KeyHooked ==
  \A k \in Key, v \in Object : k \in Under(v) /\ IsEncap(k) =>
    \/ life[v] # "live" \/ Doomed(v)
    \/ <<"encap_destroy_hook", k>> \in ToSet(acts[TheObject(k)]) \cup ToSet(todo)
    \/ {<<"k_encap_cleanup", k>>, <<"unvhash", k, v>>} \cap ToSet(todo) # {}

\* The hook on a key's object is there no longer than the key.
KeyHookLives ==
  \A k \in Key : IsEncap(k) /\ <<"encap_destroy_hook", k>> \in ToSet(acts[TheObject(k)]) =>
    \/ life[TheObject(k)] # "live"
    \/ /\ obj[k] \in Ref
       /\ <<"k_encap_cleanup", k>> \in ToSet(acts[k]) \/ (todo # <<>> /\ Top = <<"k_encap_cleanup", k>>)

\* No object is an attribute under two types: attr_destroy_trigger of the one would
\* delete the hook of the other.
OneType == \A a, b \in Attr : IsEncap(a) /\ TheObject(a) = TheObject(b) => a = b

\* An attribute made from an object goes with the object.
AttrHooked ==
  OneType => \A a \in Attr : attr_lookup[a] # "none" /\ IsEncap(a) =>
    \/ Hook(a) \in ToSet(acts[TheObject(a)]) \cup ToSet(todo)
    \/ {Trigger(a), <<"attr_lookup", a>>} \cap ToSet(todo) # {}

\* What each entry of a table and each back-delete may count on of the others.
TablesInv ==
  /\ KeyUnder /\ KeyFound /\ KeyOwns /\ EmptyChecked /\ VhashAction
  /\ ValueHooked /\ AttrOwns /\ KeyHooked /\ KeyHookLives /\ AttrHooked

-----------------------------------------------------------------------------
(* What follows, in the terms of the program.                               *)

\* No entry of the table and no reference of the program, of a vhash or of DESTROY is
\* to something dead, in the middle of a cascade neither: what dies had no strong
\* reference left, wherever the C functions under way had taken or dropped one, and
\* every weak one to it is undef before its first action runs.
ReferencesHold ==
  /\ \A o \in held \cup values : life[o] = "live"
  /\ \A k \in Key :
       /\ slookup[k] \in Ref => life[k] = "live"
       /\ flookup[k].mode \in Ref => life[flookup[k].value] = "live"
  /\ \A a \in Attr :
       /\ attr_lookup[a] = "weak" => life[a] = "live"
       /\ \A v \in Object : attrhash[a][v] \in Ref => life[v] = "live"
  /\ \A i \in Index : obj[i] \in Ref => life[TheObject(i)] = "live"
  /\ \A v \in Object : \A i \in Under(v) : life[i] = "live"

\* No SvREFCNT_dec that waits for its turn in a cascade finds its scalar freed by what
\* ran before it: encap_attr_destroy_hook, unlink_sk, purge and DESTROY each still have
\* the reference they give up at their end.
NoDoubleFree == err # "decrement of a freed node"

\* What is freed leaves no action and no vhash at its address, where the next object
\* would find them.
NothingStale == \A v \in Object : life[v] = "free" => acts[v] = <<>> /\ rlookup[v] = Null

\* Between operations a vhash is hooked to its value's death, and an attribute it names
\* has the value.
VhashesAtRest == Idle => \A v \in Object : rlookup[v] # Null =>
  /\ <<"rlookup", v>> \in ToSet(acts[v])
  /\ \A a \in Attr : a \in rlookup[v] => attrhash[a][v] # "none"

\* Between operations the tables agree, whatever the program's attributes are made from:
\* all of Agreed but that an attribute's object lives, which the hook of a second type's
\* attribute on the same object can break.
EntriesAgree == Idle =>
  /\ \A k \in Key :
       /\ slookup[k] = IF life[k] = "live" THEN "weak" ELSE "none"
       /\ flookup[k].mode \in (IF life[k] = "live" THEN Ref ELSE {"none"})
       /\ \A v \in Object : k \in Under(v) <=> flookup[k].value = v
       /\ life[k] = "live" => \A o \in ObjectsOf(k) : life[o] = "live"
  /\ \A a \in Attr :
       /\ attr_lookup[a] = IF life[a] = "live" THEN "weak" ELSE "none"
       /\ \A v \in Object : attrhash[a][v] \in (IF a \in Under(v) THEN Ref ELSE {"none"})
  /\ \A v \in Object : rlookup[v] # {}
=============================================================================
