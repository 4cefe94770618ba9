----------------------------- MODULE RefStoreXS -----------------------------
(***************************************************************************)
(* The XS backend of Ref::Store: the table's hashes, the key and attribute *)
(* objects, the reference counts of everything, and the actions that run   *)
(* when something is freed.                                                *)
(*                                                                         *)
(* The program is one thread.  It performs an operation when nothing is    *)
(* left to do; the operation, and every death it causes, then runs to its  *)
(* end.  Freeing one thing frees others in the middle of the C function    *)
(* that did it, so the rest of that function waits on the sequence todo:   *)
(* each element is a step still to be taken, the next one first, and what  *)
(* a step sets off is put in front of what was waiting.                    *)
(*                                                                         *)
(* A brace of hashes is modelled by what an entry can be: "none", a        *)
(* "strong" or a "weak" reference, or "undef", a weak reference whose      *)
(* referent is gone.  The actions of a node are a sequence, as ActionList  *)
(* keeps them; reference counts inside refcnt_ka_begin and refcnt_ka_end   *)
(* are the true counts, and nothing is freed there, as KeepAlive shows.    *)
(***************************************************************************)
EXTENDS Naturals, Integers, Sequences, FiniteSets, SequencesExt

CONSTANTS
  Object, KeyName, AttrName,
  Null,
  Programs     \* of each program, its calls to store and store_a: the key or attribute,
               \* the value, StrongValue, and StrongKey or StrongAttr

VARIABLES
  held,         \* the objects the program has a reference to
  life,         \* of each object, key object and attribute object
  rc,           \* its reference count
  kept,         \* the nodes between refcnt_ka_begin and refcnt_ka_end
  acts,         \* its HR_Action list
  slookup,      \* scalar_lookup: the weak reference to each key's object
  flookup,      \* forward: each key's value
  rlookup,      \* reverse: each value's vhash, the keys and attributes it is under
  attr_lookup,  \* the weak reference to each attribute's object
  obj,          \* obj_ptr of a key object, obj_rv of an attribute object
  obj_paddr,    \* is the attribute object's obj_paddr set?
  attrhash,     \* each attribute object's values
  iter,         \* purge's foreach: the value and the element it is at
  values,       \* DESTROY's @values: what it keeps until it has taken the tables down
  todo,         \* what is left to do
  err,          \* "none", or what went wrong
  before,       \* history: what the table held when nothing was left to do
  calls         \* the program that runs

Store == INSTANCE Store WITH live <- before.live, held <- before.held, entries <- before.entries

Key == Store!Key
Attr == Store!Attr
Index == Key \cup Attr
Node == Object \cup Index
ObjectsOf(i) == Store!ObjectsOf(i)
TheObject(i) == i[Len(i)]
IsEncap(i) == ObjectsOf(i) # {}

Ref == {"strong", "weak"}
Entry == {"none", "undef"} \cup Ref

tables == <<slookup, flookup, rlookup, attr_lookup>>
blobs == <<obj, obj_paddr, attrhash>>
heap == <<life, rc, kept, acts>>
loops == <<iter, values>>
vars == <<held, heap, tables, blobs, loops, todo, err, before, calls>>

Call == Index \X Object \X BOOLEAN \X BOOLEAN

\* A foreach of purge: the value, the element it is at, and has that left the vhash?
Loop == [value : Object, cur : Index \cup {Null}, gone : BOOLEAN]

\* A process has finitely many addresses and strings, and an index is none of the
\* objects; Null is nothing else.
ASSUME RefStoreXSAssumption ==
  /\ IsFiniteSet(Object) /\ IsFiniteSet(KeyName) /\ IsFiniteSet(AttrName)
  /\ Object \cap Index = {}
  /\ Null \notin Object
  /\ \A I \in SUBSET Index : Null # I
  /\ \A l \in Loop : Null # l
  /\ \A a \in AttrName : Len(a) = 2
  /\ \A p \in Programs : p \subseteq Call

NoValue == [mode |-> "none", value |-> Null]

Init ==
  /\ held = {}
  /\ life = [n \in Node |-> "free"]
  /\ rc = [n \in Node |-> 0]
  /\ kept = {}
  /\ acts = [n \in Node |-> <<>>]
  /\ slookup = [k \in Key |-> "none"]
  /\ flookup = [k \in Key |-> NoValue]
  /\ rlookup = [v \in Object |-> Null]
  /\ attr_lookup = [a \in Attr |-> "none"]
  /\ obj = [i \in Index |-> "none"]
  /\ obj_paddr = [a \in Attr |-> FALSE]
  /\ attrhash = [a \in Attr |-> [v \in Object |-> "none"]]
  /\ iter = Null
  /\ values = {}
  /\ todo = <<>>
  /\ err = "none"
  /\ before = [live |-> {}, held |-> {}, entries |-> {}]
  /\ calls \in Programs

-----------------------------------------------------------------------------
(* Helpers on action lists.  HR_add_action appends unless it finds the      *)
(* action; deleting by container deletes every action with that container.  *)

\* Mutant: only the head is looked at.
WithoutHead(f, n, a) == [f EXCEPT ![n] = IF @ # <<>> /\ Head(@) = a THEN Tail(@) ELSE @]

\* Mutant: nobody looks whether the action is there.
AddedAgain(f, n, a) == [f EXCEPT ![n] = Append(@, a)]

Added(f, n, a) == IF a \in ToSet(f[n]) THEN f ELSE [f EXCEPT ![n] = Append(@, a)]
\* What is left of the list q without the actions in A.
Deleted(q, A) ==
  LET left[n \in 0..Len(q)] ==
        IF n = 0 THEN <<>>
        ELSE IF q[n] \in A THEN left[n - 1] ELSE Append(left[n - 1], q[n])
  IN left[Len(q)]

Without(f, n, a) == [f EXCEPT ![n] = Deleted(f[n], {a})]
WithoutKind(f, n, kind) == [f EXCEPT ![n] = Deleted(f[n], {b \in ToSet(f[n]) : b[1] = kind})]

\* The keys and attributes a value is under.
Under(v) == IF rlookup[v] = Null THEN {} ELSE rlookup[v]

AddRef(f, n) == [f EXCEPT ![n] = @ + 1]

\* Mutant: a weak reference is given up too.
DecAlways(mode, n) == IF mode \in Ref THEN <<<<"dec", n>>>> ELSE <<>>

\* Mutant: the reference is forgotten.
DecNever(mode, n) == <<>>

\* SvREFCNT_dec of what a reference held.
DecIf(mode, n) == IF mode = "strong" THEN <<<<"dec", n>>>> ELSE <<>>

Fault(what) == err' = what /\ UNCHANGED <<held, heap, tables, blobs, loops, todo>>

Top == Head(todo)
Doing(op) == todo # <<>> /\ err = "none" /\ Top[1] = op
Then(s) == todo' = s \o Tail(todo)

\* The referent of a weak reference is gone: perl clears the reference.
Cleared(mode) == IF mode = "weak" THEN "undef" ELSE mode

\* sv_clear on n: weak references first, then our free hook.
Die(n) ==
  /\ life' = [life EXCEPT ![n] = "dying"]
  /\ rc' = [rc EXCEPT ![n] = 0]
  /\ slookup' = [k \in Key |-> IF k = n THEN Cleared(slookup[k]) ELSE slookup[k]]
  /\ attr_lookup' = [a \in Attr |-> IF a = n THEN Cleared(attr_lookup[a]) ELSE attr_lookup[a]]
  /\ flookup' = [k \in Key |-> IF flookup[k].value = n
                                 THEN [flookup[k] EXCEPT !.mode = Cleared(@)] ELSE flookup[k]]
  /\ obj' = [i \in Index |-> IF TheObject(i) = n THEN Cleared(obj[i]) ELSE obj[i]]
  /\ attrhash' = [a \in Attr |-> [v \in Object |->
                    IF v = n THEN Cleared(attrhash[a][v]) ELSE attrhash[a][v]]]
  /\ Then(<<<<"free", n>>>>)

-----------------------------------------------------------------------------
\* SvREFCNT_dec.
Dec ==
  /\ Doing("dec")
  /\ LET n == Top[2] IN
       \/ /\ life[n] = "live" /\ rc[n] = 1 /\ n \notin kept
          /\ Die(n)
          /\ UNCHANGED <<held, kept, acts, rlookup, obj_paddr, loops, err>>
       \/ /\ life[n] = "live" /\ (rc[n] > 1 \/ n \in kept)
          /\ rc' = [rc EXCEPT ![n] = @ - 1]
          /\ Then(<<>>)
          /\ UNCHANGED <<held, life, kept, acts, tables, blobs, loops, err>>
       \/ /\ life[n] # "live"
          /\ Fault("decrement of a freed node")

\* The elements of a freed vhash go in the order of its buckets.
DecAll ==
  /\ Doing("decall")
  /\ IF Top[2] = {}
       THEN Then(<<>>)
       ELSE \E n \in Top[2] : Then(<<<<"dec", n>>, <<"decall", Top[2] \ {n}>>>>)
  /\ UNCHANGED <<held, heap, tables, blobs, loops, err>>

\* hr_freehook: run the actions of a dying node in order, then let it go.
RunAction ==
  /\ Doing("free")
  /\ acts[Top[2]] # <<>>
  /\ acts' = [acts EXCEPT ![Top[2]] = Tail(@)]
  /\ todo' = <<Head(acts[Top[2]])>> \o todo
  /\ UNCHANGED <<held, life, rc, kept, tables, blobs, loops, err>>

Freed ==
  /\ Doing("free")
  /\ LET n == Top[2] IN
       /\ acts[n] = <<>>
       /\ life' = [life EXCEPT ![n] = "free"]
       /\ obj' = [i \in Index |-> IF i = n THEN "none" ELSE obj[i]]
       /\ obj_paddr' = [a \in Attr |-> a # n /\ obj_paddr[a]]
       /\ attrhash' = [a \in Attr |-> IF a = n THEN [v \in Object |-> "none"] ELSE attrhash[a]]
  /\ Then(<<>>)
  /\ UNCHANGED <<held, rc, kept, acts, tables, loops, err>>

\* HR_ACTION_TYPE_DEL_HV on the table's hashes and on an attribute's hash.
DelSlookup ==
  /\ Doing("slookup")
  /\ slookup' = [slookup EXCEPT ![Top[2]] = "none"]
  /\ Then(<<>>)
  /\ UNCHANGED <<held, heap, flookup, rlookup, attr_lookup, blobs, loops, err>>

DelFlookup ==
  /\ Doing("flookup")
  /\ LET k == Top[2] IN
       /\ flookup' = [flookup EXCEPT ![k] = NoValue]
       /\ Then(DecIf(flookup[k].mode, flookup[k].value))
  /\ UNCHANGED <<held, heap, slookup, rlookup, attr_lookup, blobs, loops, err>>

DelRlookup ==
  /\ Doing("rlookup")
  /\ LET v == Top[2] IN
       /\ rlookup' = [rlookup EXCEPT ![v] = Null]
       /\ Then(IF rlookup[v] = Null THEN <<>> ELSE <<<<"decall", rlookup[v]>>>>)
  /\ UNCHANGED <<held, heap, slookup, flookup, attr_lookup, blobs, loops, err>>

DelAttrhash ==
  /\ Doing("attrhash")
  /\ LET a == Top[2] v == Top[3] IN
       IF life[a] = "free"
         THEN Fault("use of a freed attribute hash")
         ELSE /\ attrhash' = [attrhash EXCEPT ![a][v] = "none"]
              /\ Then(DecIf(attrhash[a][v], v))
              /\ UNCHANGED <<held, heap, tables, obj, obj_paddr, loops, err>>

-----------------------------------------------------------------------------
\* Mutant: nobody looks whether the vhash is empty.
DelFromVhashUnchecked ==
  /\ Doing("unvhash")
  /\ LET i == Top[2] v == Top[3] IN
       /\ rlookup' = IF rlookup[v] = Null THEN rlookup ELSE [rlookup EXCEPT ![v] = @ \ {i}]
       /\ Then(IF i \in Under(v) THEN <<<<"dec", i>>>> ELSE <<>>)
  /\ UNCHANGED <<held, heap, slookup, flookup, attr_lookup, blobs, loops, err>>

(* hv_delete of one element of a vhash.  The reference purge's foreach is   *)
(* at stays until the loop goes on.                                         *)
DelFromVhash ==
  /\ Doing("unvhash")
  /\ LET i == Top[2] v == Top[3] IN
       \/ /\ rlookup[v] = Null
          /\ Then(<<>>)
          /\ UNCHANGED <<rlookup, iter>>
       \/ /\ rlookup[v] # Null
          /\ rlookup' = [rlookup EXCEPT ![v] = @ \ {i}]
          /\ IF iter # Null /\ i \in Under(v) /\ iter.value = v /\ iter.cur = i
               THEN /\ iter' = [iter EXCEPT !.gone = TRUE]
                    /\ Then(<<<<"vhash_check", v>>>>)
               ELSE /\ Then((IF i \in Under(v) THEN <<<<"dec", i>>>> ELSE <<>>)
                              \o <<<<"vhash_check", v>>>>)
                    /\ UNCHANGED iter
  /\ UNCHANGED <<held, heap, slookup, flookup, attr_lookup, blobs, values, err>>

\* Mutant: the vhash goes and the action stays.
VhashCheckKeepsAction ==
  /\ Doing("vhash_check")
  /\ rlookup' = [rlookup EXCEPT ![Top[2]] = IF @ = {} THEN Null ELSE @]
  /\ Then(<<>>)
  /\ UNCHANGED <<held, heap, slookup, flookup, attr_lookup, blobs, loops, err>>

\* Mutant: the action goes also when the vhash stays.
VhashCheckDropsAction ==
  /\ Doing("vhash_check")
  /\ LET v == Top[2] IN
       /\ acts' = WithoutKind(acts, v, "rlookup")
       /\ rlookup' = [rlookup EXCEPT ![v] = IF @ = {} THEN Null ELSE @]
  /\ Then(<<>>)
  /\ UNCHANGED <<held, life, rc, kept, slookup, flookup, attr_lookup, blobs, loops, err>>

\* Common value deletion: an empty vhash goes, with the action that would delete it.
VhashCheck ==
  /\ Doing("vhash_check")
  /\ LET v == Top[2] IN
       IF rlookup[v] = {}
         THEN /\ acts' = WithoutKind(acts, v, "rlookup")
              /\ rlookup' = [rlookup EXCEPT ![v] = Null]
         ELSE UNCHANGED <<acts, rlookup>>
  /\ Then(<<>>)
  /\ UNCHANGED <<held, life, rc, kept, slookup, flookup, attr_lookup, blobs, loops, err>>

\* Mutant: the hook forgets to clean up.
EncapDestroyHookIdle ==
  /\ Doing("encap_destroy_hook")
  /\ Then(<<>>)
  /\ UNCHANGED <<held, heap, tables, blobs, loops, err>>

\* encap_destroy_hook: the object of a key dies.
EncapDestroyHook ==
  /\ Doing("encap_destroy_hook")
  /\ LET k == Top[2] IN
       IF life[k] = "free"
         THEN Fault("use of a freed key")
         ELSE /\ acts' = WithoutKind(acts, k, "k_encap_cleanup")
              /\ Then(<<<<"k_encap_cleanup", k>>>>)
              /\ UNCHANGED <<held, life, rc, kept, tables, blobs, loops, err>>

\* What k_encap_cleanup deletes from the table.
FromTable(k) ==
  CASE flookup[k].mode = "none" -> <<>>
    [] flookup[k].mode = "undef" -> <<<<"slookup", k>>, <<"flookup", k>>>>
    [] OTHER -> <<<<"unvhash", k, flookup[k].value>>, <<"slookup", k>>, <<"flookup", k>>>>

\* k_encap_cleanup: take an object's key out of the table.
KEncapCleanup ==
  /\ Doing("k_encap_cleanup")
  /\ LET k == Top[2] o == TheObject(k) IN
       IF life[k] = "free"
         THEN Fault("use of a freed key")
         ELSE /\ obj' = [obj EXCEPT ![k] = "none"]
              /\ acts' = IF obj[k] \in Ref
                           THEN Without(acts, o, <<"encap_destroy_hook", k>>) ELSE acts
              /\ Then(FromTable(k) \o DecIf(obj[k], o))
              /\ UNCHANGED <<held, life, rc, kept, tables, obj_paddr, attrhash, loops, err>>

-----------------------------------------------------------------------------
\* Mutant: the attribute is not destroyed.
EncapAttrDestroyHookIdle ==
  /\ Doing("encap_attr_destroy_hook")
  /\ LET a == Top[2] IN
       /\ obj_paddr' = [obj_paddr EXCEPT ![a] = FALSE]
       /\ obj' = [obj EXCEPT ![a] = "none"]
       /\ Then(DecIf(obj[a], TheObject(a)))
  /\ UNCHANGED <<held, heap, tables, attrhash, loops, err>>

\* encap_attr_destroy_hook: the object of an attribute dies.
EncapAttrDestroyHook ==
  /\ Doing("encap_attr_destroy_hook")
  /\ LET a == Top[2] IN
       IF life[a] = "free"
         THEN Fault("use of a freed attribute")
         ELSE /\ obj_paddr' = [obj_paddr EXCEPT ![a] = FALSE]
              /\ obj' = [obj EXCEPT ![a] = "none"]
              /\ rc' = AddRef(rc, a)
              /\ Then(DecIf(obj[a], TheObject(a)) \o <<<<"attr_destroy_trigger", a>>, <<"dec", a>>>>)
              /\ UNCHANGED <<held, life, kept, acts, tables, attrhash, loops, err>>

(* attr_destroy_trigger, up to the loop: delete our own action, every       *)
(* encap_attr_destroy_hook of our object if it is still there, and our      *)
(* reference to it.  The freed obj_rv is not set to NULL.                   *)
AttrDestroyTrigger ==
  /\ Doing("attr_destroy_trigger")
  /\ LET a == Top[2] o == TheObject(a) own == WithoutKind(acts, a, "attr_destroy_trigger") IN
       IF \/ life[a] = "free"
          \/ obj[a] = "dangling"
          \/ obj_paddr[a] /\ life[o] = "free"
         THEN Fault("use of a freed attribute or object")
         ELSE /\ acts' = IF obj_paddr[a]
                           THEN WithoutKind(own, o, "encap_attr_destroy_hook") ELSE own
              /\ obj' = [obj EXCEPT ![a] = IF obj[a] = "none" THEN "none" ELSE "dangling"]
              /\ Then(DecIf(obj[a], o) \o <<<<"attr_lookup", a>>>>)
              /\ UNCHANGED <<held, life, rc, kept, tables, obj_paddr, attrhash, loops, err>>

\* Mutant: the attribute is not kept.
DelAttrLookupUnkept ==
  /\ Doing("attr_lookup")
  /\ attr_lookup' = [attr_lookup EXCEPT ![Top[2]] = "none"]
  /\ Then(<<<<"values", Top[2]>>>>)
  /\ UNCHANGED <<held, heap, slookup, flookup, rlookup, blobs, loops, err>>

DelAttrLookup ==
  /\ Doing("attr_lookup")
  /\ LET a == Top[2] IN
       IF life[a] = "free"
         THEN Fault("use of a freed attribute")
         ELSE /\ attr_lookup' = [attr_lookup EXCEPT ![a] = "none"]
              /\ kept' = kept \cup {a}
              /\ Then(<<<<"values", a>>, <<"ka_end", a>>>>)
              /\ UNCHANGED <<held, life, rc, acts, slookup, flookup, rlookup, blobs, loops, err>>

\* attr_destroy_trigger's loop over the values, each kept while it is taken out
\* (of nested brackets only the end of the outermost one can free).
EachValue ==
  /\ Doing("values")
  /\ LET a == Top[2] IN
       \/ /\ life[a] = "free"
          /\ Fault("use of a freed attribute")
       \/ \E v \in Object :
            /\ life[a] # "free"
            /\ attrhash[a][v] # "none"
            /\ IF life[v] = "free"
                 THEN Fault("use of a freed value")
                 ELSE /\ kept' = kept \cup {v}
                      /\ todo' = <<<<"unhash", a, v>>, <<"unvhash", a, v>>>>
                                  \o (IF v \in kept THEN <<>> ELSE <<<<"ka_end", v>>>>) \o todo
                      /\ UNCHANGED <<held, life, rc, acts, tables, blobs, loops, err>>
       \/ /\ life[a] # "free"
          /\ \A v \in Object : attrhash[a][v] = "none"
          /\ Then(<<>>)
          /\ UNCHANGED <<held, heap, tables, blobs, loops, err>>

\* attr_delete_value_from_attrhash.
DelFromAttrhash ==
  /\ Doing("unhash")
  /\ LET a == Top[2] v == Top[3] IN
       /\ acts' = Without(acts, v, <<"attrhash", a, v>>)
       /\ attrhash' = [attrhash EXCEPT ![a][v] = "none"]
       /\ Then(DecIf(attrhash[a][v], v))
  /\ UNCHANGED <<held, life, rc, kept, tables, obj, obj_paddr, loops, err>>

\* refcnt_ka_end: a node that lost its last reference in between dies now.
KaEnd ==
  /\ Doing("ka_end")
  /\ kept' = kept \ {Top[2]}
  /\ IF life[Top[2]] = "live" /\ rc[Top[2]] <= 0
       THEN /\ Die(Top[2])
            /\ UNCHANGED <<held, acts, rlookup, obj_paddr, loops, err>>
       ELSE /\ Then(<<>>)
            /\ UNCHANGED <<held, life, rc, acts, tables, blobs, loops, err>>

-----------------------------------------------------------------------------
(* Ref::Store::purge.  The elements of values(%$vhash) are on perl's stack, *)
(* which holds no references; foreach holds one to the element it is at and *)
(* gives it up only when it has taken the next.                             *)
PurgeBegin ==
  /\ Doing("purge")
  /\ LET v == Top[2] IN
       /\ rc' = AddRef(rc, v)
       /\ iter' = [value |-> v, cur |-> Null, gone |-> FALSE]
       /\ \E s \in SetToSeqs(Under(v)) :
            Then(<<<<"foreach", v, s>>>>)
  /\ UNCHANGED <<held, life, kept, acts, tables, blobs, values, err>>

\* Mutant: the loop does not go on.
ForeachAgain ==
  /\ Doing("foreach")
  /\ iter' = [iter EXCEPT !.cur = IF Top[3] = <<>> THEN Null ELSE Head(Top[3])]
  /\ UNCHANGED <<held, heap, tables, blobs, values, todo, err>>

Foreach ==
  /\ Doing("foreach")
  /\ LET v == Top[2] rest == Top[3]
         last == IF iter.gone THEN <<<<"dec", iter.cur>>>> ELSE <<>>
     IN
       \/ /\ rest = <<>>
          /\ iter' = Null
          /\ Then(last \o <<<<"purge_end", v>>>>)
          /\ UNCHANGED <<held, heap, tables, blobs, values, err>>
       \/ /\ rest # <<>>
          /\ LET i == Head(rest) IN
               IF i \notin Under(v)
                 THEN Fault("use of freed value in iteration")
                 ELSE /\ iter' = [iter EXCEPT !.cur = i, !.gone = FALSE]
                      /\ Then(last
                              \o (IF i \in Attr THEN <<<<"unhash", i, v>>, <<"unvhash", i, v>>>>
                                  ELSE <<>>)
                              \o <<<<"foreach", v, Tail(rest)>>>>)
                      /\ UNCHANGED <<held, heap, tables, blobs, values, err>>

PurgeEnd ==
  /\ Doing("purge_end")
  /\ LET v == Top[2] IN
       /\ acts' = WithoutKind(acts, v, "rlookup")
       /\ Then(<<<<"rlookup", v>>, <<"dec", v>>>>)
  /\ UNCHANGED <<held, life, rc, kept, tables, blobs, loops, err>>

-----------------------------------------------------------------------------
(* Ref::Store::DESTROY.  Its loops too have the elements of a hash on       *)
(* perl's stack, and die when they come to one that is gone.                *)
Died == Fault("DESTROY died")

\* foreach my $attr (values %{$self->attr_lookup})
DestroyAttrs ==
  /\ Doing("destroy_attrs")
  /\ \/ /\ Top[2] = {}
        /\ Then(<<>>)
        /\ UNCHANGED <<held, heap, tables, blobs, loops, err>>
     \/ \E a \in Top[2] :
          IF attr_lookup[a] # "weak"
            THEN Died
            ELSE LET V == {v \in Object : attrhash[a][v] # "none"} IN
                 /\ Then(<<<<"destroy_attr", a, V>>, <<"destroy_attrs", Top[2] \ {a}>>>>)
                 /\ UNCHANGED <<held, heap, tables, blobs, loops, err>>

(* foreach my $v (values %$attrhash): the element foreach is at, and with   *)
(* it a strong value, stays until the next.                                 *)
DestroyAttr ==
  /\ Doing("destroy_attr")
  /\ LET a == Top[2] V == Top[3] IN
       \/ /\ V = {}
          /\ Then(<<>>)
          /\ UNCHANGED <<held, heap, tables, blobs, loops, err>>
       \/ \E v \in V :
            IF attrhash[a][v] \notin Ref
              THEN Died
              ELSE /\ rc' = IF attrhash[a][v] = "strong" THEN AddRef(rc, v) ELSE rc
                   /\ Then(<<<<"unhash", a, v>>, <<"unvhash", a, v>>, <<"push", v>>>>
                           \o DecIf(attrhash[a][v], v) \o <<<<"destroy_attr", a, V \ {v}>>>>)
                   /\ UNCHANGED <<held, life, kept, acts, tables, blobs, loops, err>>

\* push @values, $v (a value that is there twice is held once here)
PushValue ==
  /\ Doing("push")
  /\ LET v == Top[2] IN
       IF life[v] # "live"
         THEN Died
         ELSE /\ values' = values \cup {v}
              /\ rc' = IF v \in values THEN rc ELSE AddRef(rc, v)
              /\ Then(<<>>)
              /\ UNCHANGED <<held, life, kept, acts, tables, blobs, iter, err>>

(* foreach my $kobj (values %{$self->scalar_lookup}): every key object is   *)
(* in a vhash and every value in @values, so nothing is freed here.         *)
DestroyKeys ==
  /\ Doing("destroy_keys")
  /\ LET K == {k \in Key : slookup[k] # "none"}
         V == {flookup[k].value : k \in K}
         Strong(v) == {k \in K : flookup[k] = [mode |-> "strong", value |-> v]}
     IN
       IF \E k \in K : slookup[k] # "weak" \/ flookup[k].mode \notin Ref
         THEN Died
         ELSE /\ slookup' = [k \in Key |-> "none"]
              /\ flookup' = [k \in Key |-> IF k \in K THEN NoValue ELSE flookup[k]]
              /\ values' = values \cup V
              /\ rc' = [n \in Node |-> IF n \in V
                          THEN rc[n] + (IF n \in values THEN 0 ELSE 1) - Cardinality(Strong(n))
                          ELSE rc[n]]
              /\ Then(<<<<"destroy_values", values'>>>>)
              /\ UNCHANGED <<held, life, kept, acts, rlookup, attr_lookup, blobs, iter, err>>

\* Mutant: dref_del_ptr is forgotten.
DestroyValuesKeepsAction ==
  /\ Doing("destroy_values")
  /\ \/ /\ Top[2] = {}
        /\ values' = {}
        /\ Then(<<<<"decall", values>>>>)
        /\ UNCHANGED <<acts, rlookup>>
     \/ \E v \in Top[2] :
          /\ rlookup' = [rlookup EXCEPT ![v] = Null]
          /\ Then(<<<<"decall", Under(v)>>, <<"destroy_values", Top[2] \ {v}>>>>)
          /\ UNCHANGED <<acts, values>>
  /\ UNCHANGED <<held, life, rc, kept, slookup, flookup, attr_lookup, blobs, iter, err>>

\* foreach my $value (@values), and undef @values after it
DestroyValues ==
  /\ Doing("destroy_values")
  /\ \/ /\ Top[2] = {}
        /\ values' = {}
        /\ Then(<<<<"decall", values>>>>)
        /\ UNCHANGED <<acts, rlookup>>
     \/ \E v \in Top[2] :
          /\ rlookup' = [rlookup EXCEPT ![v] = Null]
          /\ acts' = Without(acts, v, <<"rlookup", v>>)
          /\ Then(<<<<"decall", Under(v)>>, <<"destroy_values", Top[2] \ {v}>>>>)
          /\ UNCHANGED values
  /\ UNCHANGED <<held, life, rc, kept, slookup, flookup, attr_lookup, blobs, iter, err>>

-----------------------------------------------------------------------------
(* The program's operations.  It can name a key or an attribute made from   *)
(* an object only while it has the object.                                  *)
Idle == todo = <<>> /\ err = "none"
Nameable(i) == ObjectsOf(i) \subseteq held

\* ukey2ikey and attr_get: is the key, the attribute in the table?
Ukey2ikey(k) == slookup[k] = "weak"
AttrGet(a) == attr_lookup[a] = "weak"

\* The actions that take a new key object, a new attribute object out of the table.
OwnActions(i) ==
  CASE i \in Attr -> <<<<"attr_destroy_trigger", i>>>>
    [] i \in Key /\ IsEncap(i) -> <<<<"k_encap_cleanup", i>>>>
    [] OTHER -> <<<<"slookup", i>>, <<"flookup", i>>>>

\* perl gives an object that is new the address of one that is gone.
New(o) ==
  /\ Idle
  /\ life[o] = "free"
  /\ life' = [life EXCEPT ![o] = "live"]
  /\ rc' = [rc EXCEPT ![o] = 1]
  /\ held' = held \cup {o}
  /\ UNCHANGED <<kept, acts, tables, blobs, loops, todo, err>>

Drop(o) ==
  /\ Idle
  /\ o \in held
  /\ held' = held \ {o}
  /\ todo' = <<<<"dec", o>>>>
  /\ UNCHANGED <<heap, tables, blobs, loops, err>>

\* The program keeps a value it looked up.
Take(v) ==
  /\ v \notin held
  /\ held' = held \cup {v}
  /\ rc' = AddRef(rc, v)
  /\ UNCHANGED <<life, kept, acts, tables, blobs, loops, todo, err>>

\* Mutant: the forward entry is taken to be there.
FetchSkUnchecked(k) == Idle /\ Nameable(k) /\ Take(flookup[k].value)

\* HRA_fetch_sk
FetchSk(k) ==
  /\ Idle /\ Nameable(k)
  /\ Ukey2ikey(k)
  /\ flookup[k].mode \in Ref
  /\ Take(flookup[k].value)

\* HRA_fetch_a
FetchA(a) ==
  /\ Idle /\ Nameable(a)
  /\ AttrGet(a)
  /\ \E v \in Object : attrhash[a][v] \in Ref /\ Take(v)

\* get_vhash_from_rlookup(.., VHASH_INIT_FULL) and the insertion of i.
WithVhash(v, i) == [rlookup EXCEPT ![v] = IF @ = Null THEN {i} ELSE @ \cup {i}]

Mode(strong) == IF strong THEN "strong" ELSE "weak"

(* HRA_store_sk of a key that is not stored.  A stored key either has this  *)
(* value, and nothing happens, or another, and the call dies before it      *)
(* changes anything.                                                        *)
StoreSk(k, v, sv, sk) ==
  /\ Idle /\ Nameable(k) /\ v \in held
  /\ <<k, v, sv, sk>> \in calls
  /\ ~ Ukey2ikey(k)
  /\ life[k] = "free"
  /\ life' = [life EXCEPT ![k] = "live"]
  /\ slookup' = [slookup EXCEPT ![k] = "weak"]
  /\ flookup' = [flookup EXCEPT ![k] = [mode |-> Mode(sv), value |-> v]]
  /\ rlookup' = WithVhash(v, k)
  /\ LET keyed == [acts EXCEPT ![k] = OwnActions(k)]
         hooked == IF IsEncap(k) THEN Added(keyed, TheObject(k), <<"encap_destroy_hook", k>>)
                                 ELSE keyed
         counted == [rc EXCEPT ![k] = 1]
         keyheld == IF IsEncap(k) /\ sk THEN AddRef(counted, TheObject(k)) ELSE counted
     IN
       /\ acts' = Added(hooked, v, <<"rlookup", v>>)
       /\ obj' = IF IsEncap(k) THEN [obj EXCEPT ![k] = Mode(sk)] ELSE obj
       /\ rc' = IF sv THEN AddRef(keyheld, v) ELSE keyheld
  /\ UNCHANGED <<held, kept, attr_lookup, obj_paddr, attrhash, loops, todo, err>>

\* Mutant: the initial reference is never given up.
FirstNever(a) == FALSE

\* !HvKEYS(aptr->attrhash)
FirstValue(a) == \A v \in Object : attrhash[a][v] = "none"

(* HRA_store_a.  A new attribute object starts with a reference that        *)
(* nothing holds; it is given up when the first value has gone in.          *)
StoreA(a, v, sv, sa) ==
  /\ Idle /\ Nameable(a) /\ v \in held
  /\ <<a, v, sv, sa>> \in calls
  /\ a \notin Under(v)
  /\ LET new == attr_lookup[a] = "none"
         o == TheObject(a)
         own == IF new THEN [acts EXCEPT ![a] = OwnActions(a)] ELSE acts
         hooked == IF new /\ IsEncap(a)
                     THEN Added(own, o, <<"encap_attr_destroy_hook", a>>) ELSE own
         reversed == IF rlookup[v] = Null THEN Added(hooked, v, <<"rlookup", v>>) ELSE hooked
         made == IF new THEN [rc EXCEPT ![a] = 1] ELSE rc
         objheld == IF new /\ IsEncap(a) /\ sa THEN AddRef(made, o) ELSE made
         inserted == IF FirstValue(a) THEN objheld ELSE AddRef(objheld, a)
     IN
       /\ attr_lookup[a] # "undef"
       /\ new => life[a] = "free"
       /\ life' = [life EXCEPT ![a] = "live"]
       /\ attr_lookup' = [attr_lookup EXCEPT ![a] = "weak"]
       /\ obj' = IF new /\ IsEncap(a) THEN [obj EXCEPT ![a] = Mode(sa)] ELSE obj
       /\ obj_paddr' = IF new /\ IsEncap(a) THEN [obj_paddr EXCEPT ![a] = TRUE] ELSE obj_paddr
       /\ rlookup' = WithVhash(v, a)
       /\ attrhash' = [attrhash EXCEPT ![a][v] = Mode(sv)]
       /\ acts' = Added(reversed, v, <<"attrhash", a, v>>)
       /\ rc' = IF sv THEN AddRef(inserted, v) ELSE inserted
  /\ UNCHANGED <<held, kept, slookup, flookup, loops, todo, err>>

\* unlink_sk: the key object and the value are in lexicals until it returns.
UnlinkSk(k) ==
  /\ Idle /\ Nameable(k)
  /\ Ukey2ikey(k)
  /\ flookup[k].mode \in Ref
  /\ LET v == flookup[k].value IN
       /\ rc' = AddRef(AddRef(rc, k), v)
       /\ todo' = <<<<"unvhash", k, v>>, <<"dec", k>>, <<"dec", v>>>>
  /\ UNCHANGED <<held, life, kept, acts, tables, blobs, loops, err>>

\* Mutant: the attribute stays in the value's vhash.
DissocAHalf(a, v) ==
  /\ Idle /\ Nameable(a) /\ v \in held
  /\ AttrGet(a)
  /\ todo' = <<<<"unhash", a, v>>>>
  /\ UNCHANGED <<held, heap, tables, blobs, loops, err>>

\* HRA_dissoc_a
DissocA(a, v) ==
  /\ Idle /\ Nameable(a) /\ v \in held
  /\ AttrGet(a)
  /\ todo' = <<<<"unhash", a, v>>, <<"unvhash", a, v>>>>
  /\ UNCHANGED <<held, heap, tables, blobs, loops, err>>

\* HRA_unlink_a
UnlinkA(a) ==
  /\ Idle /\ Nameable(a)
  /\ AttrGet(a)
  /\ todo' = <<<<"attr_destroy_trigger", a>>>>
  /\ UNCHANGED <<held, heap, tables, blobs, loops, err>>

Purge(v) ==
  /\ Idle
  /\ v \in held
  /\ todo' = <<<<"purge", v>>>>
  /\ UNCHANGED <<held, heap, tables, blobs, loops, err>>

PurgeBySk(k) ==
  /\ Idle /\ Nameable(k)
  /\ Ukey2ikey(k)
  /\ flookup[k].mode \in Ref
  /\ LET v == flookup[k].value IN
       /\ rc' = AddRef(rc, v)
       /\ todo' = <<<<"purge", v>>, <<"dec", v>>>>
  /\ UNCHANGED <<held, life, kept, acts, tables, blobs, loops, err>>

\* purgeby_a: @values holds every value of the attribute until the end.
PurgeByA(a) ==
  /\ Idle /\ Nameable(a)
  /\ AttrGet(a)
  /\ LET V == {v \in Object : attrhash[a][v] \in Ref} IN
       /\ rc' = [n \in Node |-> IF n \in V THEN rc[n] + 1 ELSE rc[n]]
       /\ \E s \in SetToSeqs(V) :
            todo' = [i \in 1..Len(s) |-> <<"purge", s[i]>>] \o <<<<"decall", V>>>>
  /\ UNCHANGED <<held, life, kept, acts, tables, blobs, loops, err>>

(* The program lets go of its table and makes another.  The other's hashes  *)
(* are empty: what DESTROY leaves in these, perl would free.                *)
Destroy ==
  /\ Idle
  /\ todo' = <<<<"destroy_attrs", {a \in Attr : attr_lookup[a] # "none"}>>, <<"destroy_keys">>>>
  /\ UNCHANGED <<held, heap, tables, blobs, loops, err>>

-----------------------------------------------------------------------------
\* The lookups as the program sees them.
View ==
  [live |-> {o \in Object : life[o] = "live"},
   held |-> held,
   entries |->
     {[index |-> k, value |-> flookup[k].value, sv |-> flookup[k].mode = "strong",
       si |-> obj[k] = "strong"] : k \in {j \in Key : flookup[j].mode \in Ref}}
     \cup
     {[index |-> p[1], value |-> p[2], sv |-> attrhash[p[1]][p[2]] = "strong",
       si |-> obj[p[1]] = "strong"] :
         p \in {q \in Attr \X Object : attr_lookup[q[1]] = "weak" /\ attrhash[q[1]][q[2]] \in Ref}}]

\* When nothing is left to do, what the table holds is the operation's result.
Record ==
  /\ before' = IF todo' = <<>> /\ err' = "none" THEN View' ELSE before
  /\ UNCHANGED calls

Step ==
  \/ Dec /\ Record
  \/ DecAll /\ Record
  \/ RunAction /\ Record
  \/ Freed /\ Record
  \/ DelSlookup /\ Record
  \/ DelFlookup /\ Record
  \/ DelRlookup /\ Record
  \/ DelAttrhash /\ Record
  \/ DelFromVhash /\ Record
  \/ VhashCheck /\ Record
  \/ EncapDestroyHook /\ Record
  \/ KEncapCleanup /\ Record
  \/ EncapAttrDestroyHook /\ Record
  \/ AttrDestroyTrigger /\ Record
  \/ DelAttrLookup /\ Record
  \/ EachValue /\ Record
  \/ DelFromAttrhash /\ Record
  \/ KaEnd /\ Record
  \/ PurgeBegin /\ Record
  \/ Foreach /\ Record
  \/ PurgeEnd /\ Record
  \/ DestroyAttrs /\ Record
  \/ DestroyAttr /\ Record
  \/ PushValue /\ Record
  \/ DestroyKeys /\ Record
  \/ DestroyValues /\ Record

Operation ==
  \/ Destroy /\ Record
  \/ \E o \in Object :
       \/ New(o) /\ Record
       \/ Drop(o) /\ Record
       \/ Purge(o) /\ Record
  \/ \E k \in Key :
       \/ FetchSk(k) /\ Record
       \/ UnlinkSk(k) /\ Record
       \/ PurgeBySk(k) /\ Record
       \/ \E v \in Object, sv, sk \in BOOLEAN : StoreSk(k, v, sv, sk) /\ Record
  \/ \E a \in Attr :
       \/ FetchA(a) /\ Record
       \/ UnlinkA(a) /\ Record
       \/ PurgeByA(a) /\ Record
       \/ \E v \in Object : DissocA(a, v) /\ Record
       \/ \E v \in Object, sv, sa \in BOOLEAN : StoreA(a, v, sv, sa) /\ Record

Next == Step \/ Operation

Spec == Init /\ [][Next]_vars

-----------------------------------------------------------------------------
TypeOK ==
  /\ held \in SUBSET Object
  /\ life \in [Node -> {"free", "live", "dying"}]
  /\ rc \in [Node -> Nat]
  /\ kept \in SUBSET Node
  /\ slookup \in [Key -> Entry]
  /\ flookup \in [Key -> [mode : Entry, value : Object \cup {Null}]]
  /\ rlookup \in [Object -> (SUBSET Index) \cup {Null}]
  /\ attr_lookup \in [Attr -> Entry]
  /\ obj \in [Index -> Entry \cup {"dangling"}]
  /\ obj_paddr \in [Attr -> BOOLEAN]
  /\ attrhash \in [Attr -> [Object -> Entry]]

\* No C function goes on with a node that was freed under it, and none gives up
\* a reference twice, however deaths nest (the keepalive brackets and the
\* deletion of each hook before the thing it names goes).
NoFault == err = "none"

References(o) ==
  Cardinality({o} \cap held)
  + Cardinality({k \in Key : flookup[k] = [mode |-> "strong", value |-> o]})
  + Cardinality({a \in Attr : attrhash[a][o] = "strong"})
  + Cardinality({i \in Index : TheObject(i) = o /\ obj[i] = "strong"})

\* Every reference count is the number of references there are.
Counted ==
  /\ \A i \in Index : rc[i] = Cardinality({v \in Object : i \in Under(v)})
  /\ \A o \in Object : rc[o] = References(o)
  /\ \A n \in Node : life[n] = IF rc[n] > 0 THEN "live" ELSE "free"

\* Between operations every count is exact and nothing without references is
\* left, so nothing leaks: not the reference a new attribute starts with, nor
\* what a key or an attribute held, nor anything of a table that is gone.
RefcountsExact == Idle => Counted

\* The five tables tell one story.
Agreed ==
  /\ \A k \in Key :
       /\ slookup[k] = IF life[k] = "live" THEN "weak" ELSE "none"
       /\ flookup[k].mode \in (IF life[k] = "live" THEN Ref ELSE {"none"})
       /\ \A v \in Object : k \in Under(v) <=> flookup[k].value = v
  /\ \A a \in Attr :
       /\ attr_lookup[a] = IF life[a] = "live" THEN "weak" ELSE "none"
       /\ \A v \in Object : attrhash[a][v] \in (IF a \in Under(v) THEN Ref ELSE {"none"})
  /\ \A v \in Object : rlookup[v] # {}
  /\ \A i \in Index : life[i] = "live" => \A o \in ObjectsOf(i) : life[o] = "live"

\* Between operations a key is in scalar_lookup, in forward and in the vhash of
\* its value or in none of them, an attribute is in attr_lookup and under each
\* of its values or nowhere, no vhash is empty and no entry is a reference to
\* something that is gone.
TablesAgree == Idle => Agreed

\* Every node has the actions its entries call for and no other.
Hooked ==
  /\ \A k \in Key :
       ToSet(acts[k]) = IF life[k] = "free" THEN {}
                        ELSE IF IsEncap(k) THEN {<<"k_encap_cleanup", k>>}
                        ELSE {<<"slookup", k>>, <<"flookup", k>>}
  /\ \A a \in Attr :
       ToSet(acts[a]) = IF life[a] = "free" THEN {} ELSE {<<"attr_destroy_trigger", a>>}
  /\ \A o \in Object :
       ToSet(acts[o]) =
         (IF rlookup[o] = Null THEN {} ELSE {<<"rlookup", o>>})
         \cup {<<"attrhash", a, o>> : a \in Under(o) \cap Attr}
         \cup {<<"encap_destroy_hook", k>> : k \in {j \in Key : TheObject(j) = o /\ life[j] = "live"}}
         \cup {<<"encap_attr_destroy_hook", a>> :
                 a \in {b \in Attr : TheObject(b) = o /\ life[b] = "live"}}

\* Between operations the back-deletes are exactly those: one too few leaves a
\* stale entry behind at a death, one too many deletes an entry of whatever has
\* the address next, or of the table that is there next.
HooksAgree == Idle => Hooked

\* What the program sees of the table changes as Store says, whatever the order
\* in which a cascade of deaths goes through the hashes: each operation leaves
\* the lookups and the objects that Store's least set of garbage leaves.
ImplementsStore == Store!Spec

\* An attribute made from an object goes when the object goes, also when the
\* object is an attribute of another type (Store.pm:1114-1116, 1302-1303).
AttrGoesWithObject ==
  Idle => \A a \in Attr : attr_lookup[a] = "weak" => \A o \in ObjectsOf(a) : life[o] = "live"

\* purge gets through all of a value's lookups (Store.pm:1084-1086).
PurgeCompletes == err # "use of freed value in iteration"

\* A table that goes lets go of everything it held: DESTROY gets to its end
\* (Store.pm:792-793, 1590-1592).
DestroyCompletes == err # "DESTROY died"
=============================================================================
