---------------------------- MODULE MCRefStoreXS ----------------------------
(* Instances of RefStoreXS: which objects and strings are keys, under which  *)
(* types they are attributes, what is stored under what, with which options. *)
EXTENDS RefStoreXSInvariant, TLC

CONSTANTS o1, o2, o3, s1, s2, ta, tb

NoAttr == {}
AttrS == {<<ta, s1>>}
Attr3 == {<<ta, o3>>}
AttrS3 == {<<ta, s1>>, <<ta, o3>>}
Attr33 == {<<ta, o3>>, <<tb, o3>>}
AttrS3b == {<<ta, o3>>, <<tb, s1>>}

\* Everything but an object under itself.
Others == {p \in Index \X Object : p[2] \notin ObjectsOf(p[1])}

\* o3 is only looked up by, the others only looked up.
Apart == {p \in Index \X (Object \ {o3}) : ObjectsOf(p[1]) \subseteq {o3}}

\* The calls with these lookups: is the value held strongly, is the key or attribute?
Calls(Lookups, SV, SI) ==
  {<<p[1], p[2], sv, si>> : p \in Lookups, sv \in SV, si \in SI}

OfKeys(P) == {p \in P : p[1] \in Key}
OfAttrs(P) == {p \in P : p[1] \in Attr}

AttrsApart == Calls(OfAttrs(Apart), BOOLEAN, BOOLEAN)

\* Objects look up each other, and what they look up may keep them.
Tangled ==
  Calls(OfKeys(Others), BOOLEAN, {FALSE})
  \cup Calls({p \in Others : p[1] = <<ta, o3>>}, {FALSE}, {FALSE})

\* An object is looked up by as a key or as an attribute, not as both.
ObjectKey == Calls({p \in Apart : p[1] # <<"attr", ta, o3>>}, BOOLEAN, BOOLEAN)
ObjectAttr == Calls({p \in Apart : p[1] = <<"attr", ta, o3>>}, {FALSE}, BOOLEAN)

ProgramsKeys == {ObjectKey, ObjectAttr}
ProgramWeak == {Calls(Apart, {FALSE}, {FALSE})}
ProgramStrongIndex == {Calls(Others, {FALSE}, BOOLEAN)}
ProgramStrongAttr == {Calls(OfKeys(Apart), {FALSE}, {FALSE}) \cup Calls(OfAttrs(Apart), {FALSE}, BOOLEAN)}
ProgramStrongAttrOthers == {Calls(OfAttrs(Others), {FALSE}, BOOLEAN)}
ProgramsAttrs == {AttrsApart, Tangled}
=============================================================================
