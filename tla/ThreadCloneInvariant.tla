------------------------ MODULE ThreadCloneInvariant ------------------------
(***************************************************************************)
(* What is true of a thread's copy of a table, of a program that uses no   *)
(* object as an attribute under two types: while CLONE mends the copy, it  *)
(* is whole but for what CLONE has still to mend, and before and after it  *)
(* is what RefStoreXSInvariant says of any table.                          *)
(***************************************************************************)
EXTENDS ThreadClone, RefStoreXSInvariant

\* What a pass of ithread_postdup has still to mend.
LeftIn(q, pass) == UNION {t[2] : t \in {x \in ToSet(q) : x[1] = pass}}
Left(pass) == LeftIn(todo, pass)
IndexLeft == Left("rename_keys") \cup Left("rename_attrs")

\* What waits in CLONE is the rest of the pass it is in, and the passes after that.
Rests(R, K, A, V) ==
  {<<<<"rename_reverse", R>>, <<"rename_keys", K>>, <<"rename_attrs", A>>, <<"rename_vhashes", V>>,
     <<"cloned">>>>,
   <<<<"rename_keys", K>>, <<"rename_attrs", A>>, <<"rename_vhashes", V>>, <<"cloned">>>>,
   <<<<"rename_attrs", A>>, <<"rename_vhashes", V>>, <<"cloned">>>>,
   <<<<"free_temps">>, <<"rename_attrs", A>>, <<"rename_vhashes", V>>, <<"cloned">>>>,
   <<<<"rename_vhashes", V>>, <<"cloned">>>>,
   <<<<"cloned">>>>}

RestOfClone ==
  \E R \in SUBSET HasVhash, K \in SUBSET Live(Key), A \in SUBSET Live(Attr), V \in SUBSET HasVhash :
    todo \in Rests(R, K, A, V)

-----------------------------------------------------------------------------
\* How a key or an attribute refers to its object, or will when it is mended.
Noted(i) == IF i \in Key THEN kinfo[TheObject(i)] ELSE ainfo[TheObject(i)]
Meant == [i \in Index |-> IF obj[i] = "parent" THEN Noted(i) ELSE obj[i]]

CopyTyped ==
  /\ held \in SUBSET Object
  /\ life \in [Node -> {"free", "live"}]
  /\ rc \in [Node -> Int]
  /\ acts \in [Node -> Seq(Action)]
  /\ slookup \in [Key -> Entry]
  /\ flookup \in [Key -> [mode : Entry, value : Object \cup {Null}]]
  /\ rlookup \in [Object -> (SUBSET Index) \cup {Null}]
  /\ attr_lookup \in [Attr -> Entry]
  /\ obj \in [Index -> Entry \cup {"dangling", "parent"}]
  /\ obj_paddr \in [Attr -> BOOLEAN]
  /\ attrhash \in [Attr -> [Object -> Entry]]
  /\ iter = Null
  /\ values = {}
  /\ EntriesTyped

\* CLONE changes nothing in the tables.
CopyAgreed ==
  /\ Agreed
  /\ \A k \in Key : flookup[k].mode = "none" => flookup[k] = NoValue
  /\ \A v \in Object : life[v] = "free" => rlookup[v] = Null
  /\ \A a \in Attr : life[a] = "live" /\ IsEncap(a) => obj_paddr[a]

\* What is still to be mended points into the parent, if it points to anything, and
\* there is a note of how.
CopyReferred ==
  \A i \in Index :
    /\ life[i] = "free" => obj[i] = "none"
    /\ obj[i] = "parent" => i \in IndexLeft
    /\ i \in IndexLeft /\ IsEncap(i) =>
         /\ Noted(i) \in Ref \cup {"none"}
         /\ obj[i] = IF Noted(i) \in Ref THEN "parent" ELSE "none"
    /\ i \in Key /\ life[i] = "live" /\ IsEncap(i) => Meant[i] \in Ref

\* The references there are in the copy are exactly counted.
CopyCounted ==
  /\ \A i \in Index : rc[i] = Cardinality(Vhashes(i))
  /\ \A o \in Object : rc[o] = References(o)
  /\ \A n \in Node : life[n] = "free" => rc[n] = 0
  /\ \A n \in Node : life[n] = "live" =>
       rc[n] > 0 \/ \E i \in Index : TheObject(i) = n /\ obj[i] = "parent" /\ Noted(i) = "strong"

\* What is mended has its actions, what is not has none.
CopyHooked ==
  /\ \A i \in Index : acts[i] = IF life[i] = "live" /\ i \notin IndexLeft THEN OwnActions(i) ELSE <<>>
  /\ \A o \in Object :
       ToSet(acts[o]) =
         {<<"rlookup", v>> : v \in {u \in {o} \ Left("rename_reverse") : rlookup[u] # Null}}
         \cup {<<"attrhash", a, o>> : a \in (Under(o) \cap Attr) \ IndexLeft}
         \cup {<<"encap_destroy_hook", k>> :
                 k \in {j \in Key \ IndexLeft : TheObject(j) = o /\ life[j] = "live"}}
         \cup {Hook(a) : a \in {b \in Attr \ IndexLeft : TheObject(b) = o /\ life[b] = "live"}}
  /\ ActsOnce

\* What the program sees of the table when obj is refs.
ViewOf(refs) ==
  [live |-> {o \in Object : life[o] = "live"},
   held |-> held,
   entries |->
     {[index |-> k, value |-> flookup[k].value, sv |-> flookup[k].mode = "strong",
       si |-> refs[k] = "strong"] : k \in {j \in Key : flookup[j].mode \in Ref}}
     \cup
     {[index |-> p[1], value |-> p[2], sv |-> attrhash[p[1]][p[2]] = "strong",
       si |-> refs[p[1]] = "strong"] :
         p \in {q \in Attr \X Object : attr_lookup[q[1]] = "weak" /\ attrhash[q[1]][q[2]] \in Ref}}]

\* The program will see in the copy what it saw in the parent when the thread was started.
CopyViewed == before = ViewOf(Meant)

CopyInv == CopyTyped /\ CopyAgreed /\ CopyReferred /\ CopyCounted /\ CopyHooked /\ CopyViewed

\* Only what is still to be mended is under an address of the parent.
StaleLeft ==
  stale \subseteq
    ({"rlookup"} \X Left("rename_reverse"))
    \cup ({"slookup"} \X {k \in Left("rename_keys") : IsEncap(k)})
    \cup ({"attr_lookup"} \X Left("rename_attrs"))
    \cup {x \in {"attrhash"} \X Left("rename_attrs") \X Object : attrhash[x[2]][x[3]] # "none"}
    \cup ({"vhash"} \X Left("rename_vhashes"))

\* Nothing is left of the reference of a key or an attribute that is free.
ObjGone == \A i \in Index : life[i] = "free" => obj[i] = "none"

\* What the table held is remembered.
Remembered == Idle => before = View

CloneInv ==
  IF Cloning THEN CopyInv /\ RestOfClone /\ StaleLeft
  ELSE IInv /\ TablesInv /\ ObjGone /\ Remembered
=============================================================================
