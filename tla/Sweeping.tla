------------------------------ MODULE Sweeping ------------------------------
(***************************************************************************)
(* The Sweeping backend: the Perl code of Ref::Store without magic.        *)
(* Nothing happens when an object dies but that perl clears the weak       *)
(* references to it; entries of dead objects stay until sweep, which the   *)
(* table's functions call once in SweepInterval calls, goes through the    *)
(* hashes.  Meanwhile a new object may have the address of a dead one.     *)
(*                                                                         *)
(* Entries are as in RefStoreXS: "none", a "strong" or a "weak" reference, *)
(* or "undef", a weak reference that perl has cleared.  A key or attribute *)
(* object exists as long as it is in a vhash.  The backend's documentation *)
(* rules out objects that are both looked up and looked up by.             *)
(***************************************************************************)
EXTENDS Naturals, Sequences

CONSTANTS
  Object, KeyName, AttrName,
  Null,
  Lookup          \* the <<index, value>> pairs the program stores

VARIABLES
  t,              \* the table, and the objects there are
  bound,          \* history: what was stored and not removed by the program
  doomed,         \* history: what of it was stored under an orphan
  phase,          \* what sweep is at: "idle", "keys", "attrs" or "values"
  left            \* what it has still to visit there

vars == <<t, bound, doomed, phase, left>>

Key == {<<"key", x>> : x \in KeyName}
Attr == {<<"attr", a[1], a[2]>> : a \in AttrName}
Index == Key \cup Attr
ObjectsOf(i) == {i[Len(i)]} \cap Object

Ref == {"strong", "weak"}
Entry == {"none", "undef"} \cup Ref
NoValue == [mode |-> "none", value |-> Null]

ASSUME SweepingAssumption ==
  /\ Null \notin Object
  /\ \A I \in SUBSET Index : Null # I
  /\ \A a \in AttrName : Len(a) = 2

\* ref is HR_KFLD_REFSCALAR, "text" for a string; vaddr is HR_KFLD_VADDR.
Init ==
  /\ t = [live |-> {}, held |-> {},
          slookup |-> [k \in Key |-> "none"],
          forward |-> [k \in Key |-> NoValue],
          reverse |-> [v \in Object |-> Null],
          attr_lookup |-> [a \in Attr |-> "none"],
          attrhash |-> [a \in Attr |-> [v \in Object |-> "none"]],
          ref |-> [i \in Index |-> "none"],
          vaddr |-> [k \in Key |-> Null]]
  /\ bound = {}
  /\ doomed = {}
  /\ phase = "idle"
  /\ left = {}

-----------------------------------------------------------------------------
Under(v) == IF t.reverse[v] = Null THEN {} ELSE t.reverse[v]

\* A vhash without what is in S; whoever empties it deletes it.
Less(v, S) == IF Under(v) \subseteq S THEN Null ELSE Under(v) \ S

Cleared(mode) == IF mode = "weak" THEN "undef" ELSE mode

\* Key and attribute objects that are in no vhash go, with what they hold.
Gone(s) == {i \in Index : \A v \in Object : s.reverse[v] = Null \/ i \notin s.reverse[v]}

Unreferenced(s) ==
  [s EXCEPT
     !.slookup = [k \in Key |-> IF k \in Gone(s) THEN Cleared(@[k]) ELSE @[k]],
     !.attr_lookup = [a \in Attr |-> IF a \in Gone(s) THEN Cleared(@[a]) ELSE @[a]],
     !.ref = [i \in Index |-> IF i \in Gone(s) THEN "none" ELSE @[i]],
     !.vaddr = [k \in Key |-> IF k \in Gone(s) THEN Null ELSE @[k]],
     !.attrhash = [a \in Attr |-> [v \in Object |-> IF a \in Gone(s) THEN "none" ELSE @[a][v]]]]

\* So do objects that nothing refers to any more.
Kept(s, o) ==
  \/ o \in s.held
  \/ \E k \in Key : s.forward[k] = [mode |-> "strong", value |-> o]
  \/ \E a \in Attr : s.attrhash[a][o] = "strong"
  \/ \E i \in Index : s.ref[i] = "strong" /\ o \in ObjectsOf(i)

Dead(s) == {o \in s.live : ~Kept(s, o)}

WithoutDead(s) ==
  [s EXCEPT
     !.live = @ \ Dead(s),
     !.forward = [k \in Key |-> IF @[k].value \in Dead(s)
                                  THEN [mode |-> Cleared(@[k].mode), value |-> @[k].value]
                                  ELSE @[k]],
     !.attrhash = [a \in Attr |-> [v \in Object |->
                     IF v \in Dead(s) THEN Cleared(@[a][v]) ELSE @[a][v]]],
     !.ref = [i \in Index |-> IF ObjectsOf(i) \cap Dead(s) # {} THEN Cleared(@[i]) ELSE @[i]]]

Settled(s) == WithoutDead(Unreferenced(s))

Becomes(s, b, d) ==
  /\ t' = Settled(s)
  /\ bound' = {e \in b : {e.value} \cup ObjectsOf(e.index) \subseteq t'.live}
  /\ doomed' = d \cap bound'

Idle == phase = "idle"
Nameable(i) == ObjectsOf(i) \subseteq t.held

Operation(s, b) == Idle /\ Becomes(s, b, doomed) /\ UNCHANGED <<phase, left>>

Of(i, v) == [index |-> i, value |-> v]

\* A key or attribute object whose own object has died, or was let go with the last
\* value.  Whatever is at the object's address now is looked up through it.
Orphan(i) == t.ref[i] = "undef"

Store(s, e, b) ==
  /\ Idle
  /\ Becomes(s, b \cup {e}, IF Orphan(e.index) THEN doomed \cup {e} ELSE doomed \ {e})
  /\ UNCHANGED <<phase, left>>

Mode(strong) == IF strong THEN "strong" ELSE "weak"
RefScalar(i, strong) == IF ObjectsOf(i) = {} THEN "text" ELSE Mode(strong)

-----------------------------------------------------------------------------
New(o) ==
  /\ Idle
  /\ o \notin t.live
  /\ t' = [t EXCEPT !.live = @ \cup {o}, !.held = @ \cup {o}]
  /\ UNCHANGED <<bound, doomed, phase, left>>

Drop(o) == o \in t.held /\ Operation([t EXCEPT !.held = @ \ {o}], bound)

Ukey2ikey(k) == t.slookup[k] = "weak"
AttrGet(a) == t.attr_lookup[a] = "weak"

\* A key that has another value makes the call die; one whose value is dead does
\* not, and its key object goes under the new value too.
StoreSk(k, v, sv, sk) ==
  /\ Nameable(k) /\ v \in t.held /\ <<k, v>> \in Lookup
  /\ Ukey2ikey(k) /\ t.forward[k].mode \in Ref => t.forward[k].value = v
  /\ Store([t EXCEPT
       !.slookup[k] = "weak",
       !.ref[k] = IF Ukey2ikey(k) THEN @ ELSE RefScalar(k, sk),
       !.reverse[v] = Under(v) \cup {k},
       !.forward[k] = [mode |-> Mode(sv), value |-> v],
       !.vaddr[k] = v],
       Of(k, v), {e \in bound : e.index # k})

\* Mutant: the entry of a value that has died is not seen to be undef.
FetchSkUnchecked(k) ==
  /\ Nameable(k)
  /\ Ukey2ikey(k) /\ t.forward[k].mode # "none"
  /\ Operation([t EXCEPT !.held = @ \cup {t.forward[k].value}], bound)

FetchSk(k) ==
  /\ Nameable(k)
  /\ Ukey2ikey(k) /\ t.forward[k].mode \in Ref
  /\ Operation([t EXCEPT !.held = @ \cup {t.forward[k].value}], bound)

\* The key object goes if this was the last vhash it was in; forward is left to
\* back-deletes, which this backend does not have.
UnlinkSk(k) ==
  /\ Nameable(k)
  /\ Ukey2ikey(k) /\ t.forward[k].mode \in Ref
  /\ LET v == t.forward[k].value IN
       /\ t.reverse[v] # Null
       /\ Operation([t EXCEPT !.reverse[v] = Less(v, {k})], {e \in bound : e.index # k})

StoreA(a, v, sv, sa) ==
  /\ Nameable(a) /\ v \in t.held /\ <<a, v>> \in Lookup
  /\ Store([t EXCEPT
       !.attr_lookup[a] = "weak",
       !.ref[a] = IF AttrGet(a) THEN @ ELSE RefScalar(a, sa),
       !.reverse[v] = Under(v) \cup {a},
       !.attrhash[a][v] = Mode(sv)],
       Of(a, v), bound)

FetchA(a) ==
  /\ Nameable(a) /\ AttrGet(a)
  /\ Operation([t EXCEPT !.held = @ \cup {v \in Object : t.attrhash[a][v] \in Ref}], bound)

\* Mutant: the object is let go with the first value.
WithoutValuesAtOnce(a, V) ==
  [hash |-> [v \in Object |-> IF v \in V THEN "none" ELSE t.attrhash[a][v]],
   ref |-> IF t.ref[a] \in Ref THEN "undef" ELSE t.ref[a]]

\* unlink_value of an attribute: one without values lets its object go.
WithoutValues(a, V) ==
  LET hash == [v \in Object |-> IF v \in V THEN "none" ELSE t.attrhash[a][v]] IN
  [hash |-> hash,
   ref |-> IF t.ref[a] \in Ref /\ \A v \in Object : hash[v] = "none" THEN "undef" ELSE t.ref[a]]

DissocA(a, v) ==
  /\ Nameable(a) /\ AttrGet(a) /\ v \in t.held
  /\ LET w == WithoutValues(a, {v}) IN
       Operation([t EXCEPT !.attrhash[a] = w.hash, !.ref[a] = w.ref, !.reverse[v] = Less(v, {a})],
                 bound \ {Of(a, v)})

\* A value that has died is taken out of the hash and not out of its vhash, which
\* is looked for at address 0.
UnlinkA(a) ==
  /\ Nameable(a) /\ AttrGet(a)
  /\ LET V == {v \in Object : t.attrhash[a][v] # "none"}
         w == WithoutValues(a, V)
     IN Operation([t EXCEPT
          !.attrhash[a] = w.hash,
          !.ref[a] = IF V = {} THEN @ ELSE w.ref,
          !.reverse = [v \in Object |-> IF t.attrhash[a][v] \in Ref THEN Less(v, {a}) ELSE @[v]]],
          {e \in bound : e.index # a})

\* purge of each value in V.  Mutant: attributes are not told.
PurgedKeysOnly(V) == [t EXCEPT !.reverse = [v \in Object |-> IF v \in V THEN Null ELSE @[v]]]

Purged(V) ==
  LET From(a) == {v \in V : a \in Under(v)} IN
  [t EXCEPT
     !.reverse = [v \in Object |-> IF v \in V THEN Null ELSE @[v]],
     !.attrhash = [a \in Attr |-> IF From(a) = {} THEN @[a] ELSE WithoutValues(a, From(a)).hash],
     !.ref = [i \in Index |-> IF i \in Attr /\ From(i) # {} THEN WithoutValues(i, From(i)).ref
                                                            ELSE @[i]]]

PurgeAll(V) == Operation(Purged(V), {e \in bound : e.value \notin V})

Purge(v) == v \in t.held /\ PurgeAll({v})

PurgeBySk(k) ==
  /\ Nameable(k) /\ Ukey2ikey(k) /\ t.forward[k].mode \in Ref
  /\ PurgeAll({t.forward[k].value})

PurgeByA(a) ==
  /\ Nameable(a) /\ AttrGet(a)
  /\ PurgeAll({v \in Object : t.attrhash[a][v] \in Ref})

-----------------------------------------------------------------------------
StartSweep ==
  /\ Idle
  /\ phase' = "keys"
  /\ left' = {k \in Key : t.slookup[k] # "none"}
  /\ UNCHANGED <<t, bound, doomed>>

Visit(p, x) == phase = p /\ x \in left /\ left' = left \ {x} /\ UNCHANGED phase

\* del_key.
DelKey(k) ==
  LET v == t.vaddr[k] IN
  [t EXCEPT
     !.forward[k] = NoValue, !.slookup[k] = "none",
     !.reverse = [w \in Object |-> IF w = v /\ @[w] # Null THEN @[w] \ {k} ELSE @[w]]]

SweepKey(k) ==
  /\ Visit("keys", k)
  /\ LET v == t.vaddr[k]
         stale == \/ v = Null \/ k \notin Under(v)
                  \/ t.forward[k].mode \notin Ref
                  \/ t.ref[k] = "undef"
     IN Becomes(IF t.slookup[k] = "undef" THEN [t EXCEPT !.slookup[k] = "none"]
                ELSE IF stale THEN DelKey(k) ELSE t,
                bound, doomed)

\* Mutant: a dead object does not matter.
SweepAttrByValues(a) ==
  /\ Visit("attrs", a)
  /\ LET hash == [v \in Object |->
                    IF t.attrhash[a][v] \in Ref /\ a \in Under(v) THEN t.attrhash[a][v] ELSE "none"]
         values == {v \in Object : hash[v] # "none"}
         swept == [t EXCEPT !.attrhash[a] = hash]
         deleted == [swept EXCEPT
                       !.attr_lookup[a] = "none",
                       !.reverse = [v \in Object |-> IF v \in values THEN Less(v, {a}) ELSE @[v]]]
     IN Becomes(IF t.attr_lookup[a] = "undef" THEN [t EXCEPT !.attr_lookup[a] = "none"]
                ELSE IF values = {} THEN deleted ELSE swept,
                bound, doomed)

\* An attribute's dead values go, then the attribute if it has none or its object
\* is dead (del_attr).
SweepAttr(a) ==
  /\ Visit("attrs", a)
  /\ LET hash == [v \in Object |->
                    IF t.attrhash[a][v] \in Ref /\ a \in Under(v) THEN t.attrhash[a][v] ELSE "none"]
         values == {v \in Object : hash[v] # "none"}
         swept == [t EXCEPT !.attrhash[a] = hash]
         deleted == [swept EXCEPT
                       !.attr_lookup[a] = "none",
                       !.reverse = [v \in Object |-> IF v \in values THEN Less(v, {a}) ELSE @[v]]]
     IN Becomes(IF t.attr_lookup[a] = "undef" THEN [t EXCEPT !.attr_lookup[a] = "none"]
                ELSE IF values = {} \/ t.ref[a] = "undef" THEN deleted ELSE swept,
                bound, doomed)

\* is_valid.
Valid(i) == IF i \in Key THEN t.forward[i].mode # "none" ELSE t.attr_lookup[i] # "none"

\* Mutant: what is no longer valid stays.
SweepValueEmpty(v) ==
  /\ Visit("values", v)
  /\ Becomes([t EXCEPT !.reverse[v] = Less(v, {})], bound, doomed)

SweepValue(v) ==
  /\ Visit("values", v)
  /\ Becomes([t EXCEPT !.reverse[v] = Less(v, {i \in Under(v) : ~Valid(i)})], bound, doomed)

\* The next loop, or the end of sweep.
NextLoop ==
  /\ left = {}
  /\ \/ /\ phase = "keys"
        /\ phase' = "attrs" /\ left' = {a \in Attr : t.attr_lookup[a] # "none"}
     \/ /\ phase = "attrs"
        /\ phase' = "values" /\ left' = {v \in Object : t.reverse[v] # Null}
     \/ /\ phase = "values"
        /\ phase' = "idle" /\ left' = {}
  /\ UNCHANGED <<t, bound, doomed>>

Sweep ==
  \/ StartSweep
  \/ NextLoop
  \/ \E k \in Key : SweepKey(k)
  \/ \E a \in Attr : SweepAttr(a)
  \/ \E v \in Object : SweepValue(v)

Program ==
  \/ \E o \in Object : New(o) \/ Drop(o) \/ Purge(o)
  \/ \E k \in Key : FetchSk(k) \/ UnlinkSk(k) \/ PurgeBySk(k)
  \/ \E a \in Attr : FetchA(a) \/ UnlinkA(a) \/ PurgeByA(a)
  \/ \E v \in Object, strong, own \in BOOLEAN :
       \/ \E k \in Key : StoreSk(k, v, strong, own)
       \/ \E a \in Attr : StoreA(a, v, strong, own)
  \/ \E a \in Attr, v \in Object : DissocA(a, v)

Next == Program \/ Sweep

Spec == Init /\ [][Next]_vars

\* A program that goes on calling the table's functions makes it sweep again and
\* again, and a sweep runs to its end.
FairSpec == Spec /\ WF_vars(Sweep)

-----------------------------------------------------------------------------
Lookups == {"none", "undef", "weak"}

Table ==
  [live : SUBSET Object, held : SUBSET Object,
   slookup : [Key -> Lookups],
   forward : [Key -> [mode : Entry, value : Object \cup {Null}]],
   reverse : [Object -> (SUBSET Index) \cup {Null}],
   attr_lookup : [Attr -> Lookups],
   attrhash : [Attr -> [Object -> Entry]],
   ref : [Index -> Entry \cup {"text"}],
   vaddr : [Key -> Object \cup {Null}]]

TypeOK ==
  /\ t \in Table
  /\ t.held \subseteq t.live
  /\ bound \subseteq [index : Index, value : Object] /\ doomed \subseteq bound
  /\ phase \in {"idle", "keys", "attrs", "values"}

Present(e) ==
  /\ e.index \in Under(e.value)
  /\ e.index \in Key => /\ Ukey2ikey(e.index)
                        /\ t.forward[e.index].value = e.value
                        /\ t.forward[e.index].mode \in Ref
  /\ e.index \in Attr => AttrGet(e.index) /\ t.attrhash[e.index][e.value] \in Ref

\* Sweeping takes nothing that is still wanted: an entry whose value and object
\* are there, and that the program did not remove, is found from both sides, at
\* addresses too that values and key objects had which died before.  The exception
\* is what was stored under an orphan, before a sweep could take that out.
EntriesKept == Idle => \A e \in bound \ doomed : Present(e)

\* fetch_a returns nothing that was removed, whatever has died and been stored
\* since, at the same address even, unless it asks an orphan.
AttrAnswers ==
  Idle => \A a \in Attr, v \in Object :
    AttrGet(a) /\ ~Orphan(a) /\ t.attrhash[a][v] \in Ref => Of(a, v) \in bound

\* Between operations a key or an attribute has one object: one that sweep took
\* out of its lookup is in no vhash any more, or the next store would make a second.
OneObjectEach ==
  Idle => \A i \in Index :
    (\E v \in Object : i \in Under(v)) <=> IF i \in Key THEN Ukey2ikey(i) ELSE AttrGet(i)

\* What the hashes lead to is there.
Clean ==
  /\ \A k \in Key : t.slookup[k] # "none" =>
       /\ Ukey2ikey(k) /\ t.forward[k].mode \in Ref
       /\ ObjectsOf(k) \subseteq t.live
  /\ \A a \in Attr : t.attr_lookup[a] # "none" =>
       /\ AttrGet(a) /\ ObjectsOf(a) \subseteq t.live
       /\ \E v \in Object : t.attrhash[a][v] \in Ref
       /\ \A v \in Object : t.attrhash[a][v] # "undef"
  /\ \A v \in Object : t.reverse[v] # {}

\* When the program leaves the table alone sweeps take out everything dead,
\* however many it takes for what they free to die in its turn.
SweepsClean == <>[][Sweep]_vars => <>[]Clean

\* What is removed is removed: sweeps leave no value in the table that the program
\* has unlinked or purged, however strongly it was stored (Store.pm:1084-1086).
Forgotten ==
  <>[][Sweep]_vars =>
    <>[](\A k \in Key : t.forward[k].mode = "strong" => Of(k, t.forward[k].value) \in bound)
=============================================================================
