----------------------------- MODULE ThreadClone -----------------------------
(***************************************************************************)
(* A table in a thread that the program starts.  Perl copies the whole     *)
(* interpreter; Ref::Store's CLONE_SKIP first notes in the parent what the *)
(* C structures point to, and its CLONE mends the copy in the child.  Then *)
(* the child goes on like any program, and it is the child that is         *)
(* followed: the parent is only read.                                      *)
(*                                                                         *)
(* A copy is named like what it is a copy of.  What is wrong with it until *)
(* CLONE has mended it is kept apart: the entries that are still under an  *)
(* address of the parent (stale), the C pointers that still point into the *)
(* parent (obj = "parent"), and the action lists, which hr_duphook makes   *)
(* empty.                                                                  *)
(***************************************************************************)
EXTENDS RefStoreXS

VARIABLES
  stale,        \* the entries of the copy whose key is an address of the parent
  kinfo,        \* predup's note on each key's object: how the key refers to it
  ainfo,        \* predup's note on each attribute's object
  shared        \* the entries of attributes that the thread's temporaries own too

clonevars == <<stale, kinfo, ainfo, shared>>
notes == <<kinfo, ainfo>>

CloneInit ==
  /\ Init
  /\ stale = {}
  /\ kinfo = [o \in Object |-> "none"]
  /\ ainfo = [o \in Object |-> "none"]
  /\ shared = {}

-----------------------------------------------------------------------------
Live(S) == {i \in S : life[i] = "live"}
EncapOf(S, o) == {i \in Live(S) : IsEncap(i) /\ TheObject(i) = o}
HasVhash == {v \in Object : rlookup[v] # Null}

\* A note has one place for an object: of two it is the last that predup made.
Notes(S) ==
  {f \in [Object -> {"none"} \cup Ref] :
     \A o \in Object :
       f[o] \in (IF EncapOf(S, o) = {} THEN {"none"} ELSE {obj[i] : i \in EncapOf(S, o)})}

\* What the predup methods of the keys and of the attributes note.
KeyNotes == Notes(Key)
AttrNotes == Notes(Attr)

\* hr_duphook: the copy of every magic has an empty list.
EmptyLists == [n \in Node |-> <<>>]

\* The entries under an address, or under a string that an address is part of.
ByAddress ==
  {<<"rlookup", v>> : v \in HasVhash}
  \cup {<<"slookup", k>> : k \in {j \in Live(Key) : IsEncap(j)}}
  \cup {<<"attr_lookup", a>> : a \in {b \in Live(Attr) : IsEncap(b)}}
  \cup {<<"attrhash", p[1], p[2]>> : p \in {q \in Attr \X Object : attrhash[q[1]][q[2]] # "none"}}
  \cup {<<"vhash", v>> : v \in HasVhash}

(* CLONE_SKIP and perl_clone.  Perl counts the references it copied, which  *)
(* those in C structures are not: what nothing else refers to is kept by    *)
(* perl's list of the unreferenced until CLONE has returned.                *)
Clone ==
  LET Lost(n) == Cardinality({i \in Index : TheObject(i) = n /\ obj[i] = "strong"})
  IN
    /\ Idle
    /\ kinfo' \in KeyNotes
    /\ ainfo' \in AttrNotes
    /\ stale' = ByAddress
    /\ acts' = EmptyLists
    /\ rc' = [n \in Node |-> IF n \in Object THEN rc[n] - Lost(n) ELSE rc[n]]
    /\ kept' = {n \in Live(Node) : rc'[n] = 0}
    /\ obj' = [i \in Index |-> IF obj[i] \in Ref THEN "parent" ELSE obj[i]]
    /\ todo' = <<<<"rename_reverse", HasVhash>>, <<"rename_keys", Live(Key)>>,
                 <<"rename_attrs", Live(Attr)>>, <<"rename_vhashes", HasVhash>>, <<"cloned">>>>
    /\ UNCHANGED <<held, life, tables, obj_paddr, attrhash, loops, err, shared>>

-----------------------------------------------------------------------------
\* Mutant: the value's action is not put back.
RenameReverseUnhooked ==
  /\ Doing("rename_reverse")
  /\ IF Top[2] = {}
       THEN Then(<<>>) /\ UNCHANGED stale
       ELSE \E v \in Top[2] :
              /\ stale' = stale \ {<<"rlookup", v>>}
              /\ Then(<<<<"rename_reverse", Top[2] \ {v}>>>>)
  /\ UNCHANGED <<held, heap, tables, blobs, loops, err, notes, shared>>

\* ithread_postdup's foreach over the addresses in reverse
RenameReverse ==
  /\ Doing("rename_reverse")
  /\ IF Top[2] = {}
       THEN Then(<<>>) /\ UNCHANGED <<acts, stale>>
       ELSE \E v \in Top[2] :
              /\ acts' = Added(acts, v, <<"rlookup", v>>)
              /\ stale' = stale \ {<<"rlookup", v>>}
              /\ Then(<<<<"rename_reverse", Top[2] \ {v}>>>>)
  /\ UNCHANGED <<held, life, rc, kept, tables, blobs, loops, err, notes, shared>>

\* How a key or an attribute made from an object comes to refer to the copy of it.
Referred(i, mode) ==
  /\ obj' = [obj EXCEPT ![i] = mode]
  /\ rc' = IF mode = "strong" THEN AddRef(rc, TheObject(i)) ELSE rc

\* Mutant: every key's object is referred to as a new key's is, strongly.
RenameKeyStrong ==
  /\ Doing("rename_keys")
  /\ \/ /\ Top[2] = {}
        /\ Then(<<>>)
        /\ UNCHANGED <<acts, rc, obj, stale>>
     \/ \E k \in Top[2] :
          /\ IF IsEncap(k)
               THEN /\ acts' = Added([acts EXCEPT ![k] = OwnActions(k)],
                                     TheObject(k), <<"encap_destroy_hook", k>>)
                    /\ Referred(k, "strong")
                    /\ stale' = stale \ {<<"slookup", k>>}
               ELSE /\ acts' = [acts EXCEPT ![k] = OwnActions(k)]
                    /\ UNCHANGED <<rc, obj, stale>>
          /\ Then(<<<<"rename_keys", Top[2] \ {k}>>>>)
  /\ UNCHANGED <<held, life, kept, tables, obj_paddr, attrhash, loops, err, notes, shared>>

(* its foreach over the strings in scalar_lookup, with the postdup method   *)
(* of each key: HRXSK_encap_ithread_postdup or HRXSK_ithread_postdup        *)
RenameKey ==
  /\ Doing("rename_keys")
  /\ \/ /\ Top[2] = {}
        /\ Then(<<>>)
        /\ UNCHANGED <<acts, rc, obj, stale>>
     \/ \E k \in Top[2] :
          /\ IF IsEncap(k)
               THEN /\ acts' = Added([acts EXCEPT ![k] = OwnActions(k)],
                                     TheObject(k), <<"encap_destroy_hook", k>>)
                    /\ Referred(k, kinfo[TheObject(k)])
                    /\ stale' = stale \ {<<"slookup", k>>}
               ELSE /\ acts' = [acts EXCEPT ![k] = OwnActions(k)]
                    /\ UNCHANGED <<rc, obj, stale>>
          /\ Then(<<<<"rename_keys", Top[2] \ {k}>>>>)
  /\ UNCHANGED <<held, life, kept, tables, obj_paddr, attrhash, loops, err, notes, shared>>

\* The values of an attribute, in the order of its buckets, each get their action.
Hooks(f, a, V) ==
  [n \in Node |-> IF n \in V THEN Append(f[n], <<"attrhash", a, n>>) ELSE f[n]]

(* its foreach over the strings in attr_lookup, with the postdup method of  *)
(* each attribute.  That deletes and stores every entry of the attribute's  *)
(* hash; hv_delete leaves the entry's reference to a temporary, and         *)
(* hv_store takes the entry without one of its own.  A weak entry may be on *)
(* perl's list of the unreferenced, when perl_clone came to it by way of    *)
(* its referent: then it has the list's reference, which becomes that of a  *)
(* temporary when CLONE has returned.                                       *)
RenameAttr ==
  /\ Doing("rename_attrs")
  /\ \/ /\ Top[2] = {}
        /\ Then(<<>>)
        /\ UNCHANGED <<acts, rc, obj, stale, shared>>
     \/ \E a \in Top[2] :
          LET V == {v \in Object : attrhash[a][v] # "none"}
              Entries(W) == {<<"attrhash", a, v>> : v \in W}
              own == [Hooks(acts, a, V) EXCEPT ![a] = OwnActions(a)]
          IN
            /\ \E W \in SUBSET {v \in V : attrhash[a][v] = "weak"} :
                 /\ shared' = shared \cup Entries(W)
                 /\ Then((IF W = V THEN <<>> ELSE <<<<"free_temps">>>>)
                         \o <<<<"rename_attrs", Top[2] \ {a}>>>>)
            /\ stale' = stale \ (Entries(V) \cup {<<"attr_lookup", a>>})
            /\ IF IsEncap(a)
                 THEN /\ acts' = Added(own, TheObject(a), <<"encap_attr_destroy_hook", a>>)
                      /\ Referred(a, ainfo[TheObject(a)])
                 ELSE /\ acts' = own
                      /\ UNCHANGED <<rc, obj>>
  /\ UNCHANGED <<held, life, kept, tables, obj_paddr, attrhash, loops, err, notes>>

\* The next statement frees the temporaries, and with them entries in use.
FreeTemps ==
  /\ Doing("free_temps")
  /\ Fault("attribute entry freed in use")
  /\ UNCHANGED clonevars

\* its foreach over the vhashes
RenameVhash ==
  /\ Doing("rename_vhashes")
  /\ IF Top[2] = {}
       THEN Then(<<>>) /\ UNCHANGED stale
       ELSE \E v \in Top[2] :
              /\ stale' = stale \ {<<"vhash", v>>}
              /\ Then(<<<<"rename_vhashes", Top[2] \ {v}>>>>)
  /\ UNCHANGED <<held, heap, tables, blobs, loops, err, notes, shared>>

(* CLONE has returned.  A thread that shares an entry with a temporary is   *)
(* followed no further: whichever of the two gives up the reference second  *)
(* frees a scalar that is free, or another's.                               *)
Cloned ==
  /\ Doing("cloned")
  /\ shared = {}
  /\ kinfo' = [o \in Object |-> "none"]
  /\ ainfo' = [o \in Object |-> "none"]
  /\ kept' = {}
  /\ Then(<<>>)
  /\ UNCHANGED <<held, life, rc, acts, tables, blobs, loops, err, stale, shared>>

CloneStep ==
  \/ RenameReverse /\ Record
  \/ RenameKey /\ Record
  \/ RenameAttr /\ Record
  \/ FreeTemps /\ Record
  \/ RenameVhash /\ Record
  \/ Cloned /\ Record

CloneNext ==
  \/ Next /\ UNCHANGED clonevars
  \/ Clone /\ Record
  \/ CloneStep

CloneSpec == CloneInit /\ [][CloneNext]_<<vars, clonevars>>

\* Once begun, an operation and what it sets off runs to its end, and so does CLONE.
CloneFairSpec ==
  CloneSpec /\ WF_<<vars, clonevars>>((Step /\ UNCHANGED clonevars) \/ CloneStep)

-----------------------------------------------------------------------------
Cloning == todo # <<>> /\ Last(todo) = <<"cloned">>

\* When CLONE returns, the child's table has what the parent's had, and all of
\* it is whole: counts, tables and back-deletes are exact again although perl
\* copied none of what the C structures hold, nothing is under an address of
\* the parent, and nothing perl kept for CLONE is without a reference.
CloneIsACopy ==
  Doing("cloned") =>
    /\ Counted /\ Agreed /\ Hooked
    /\ stale = {}
    /\ View = before

\* A key or an attribute refers to its object in the child as it did in the
\* parent (the notes of hr_duputil.h, Store.pm:1302-1303).
StrengthKept ==
  Cloning => \A e \in before.entries :
    obj[e.index] # "parent" => (obj[e.index] = "strong") = e.si

\* Every entry of an attribute has one owner, in a thread too: "Ref::Store is
\* tested as being threadsafe" with the XS backend (Store.pm:1527).
OwnedOnce == shared = {} /\ err # "attribute entry freed in use"

\* Nothing but the entries of an attribute is freed under the C code, in CLONE
\* or after it.
CloneNoFault == OwnedOnce => NoFault

\* Every operation, and CLONE, comes to its end, unless such an entry ends it.
CloneEnds == (todo # <<>>) ~> (todo = <<>> \/ ~OwnedOnce)
=============================================================================
