------------------------------ MODULE KeepAlive ------------------------------
(***************************************************************************)
(* refcnt_ka_begin and refcnt_ka_end: keeping one SV alive through a       *)
(* stretch of C code that may drop any of the references to it.  begin     *)
(* saves the count in a local variable and sets it to FAKE_REFCOUNT, which *)
(* is never counted down to 0; end puts back the saved count and what      *)
(* happened to it in between, and frees the SV there if nothing is left.   *)
(* Brackets nest: the loop of attr_destroy_trigger may keep a value that a *)
(* loop further down the stack keeps, and the free hook of an SV that is   *)
(* dying (count 0) keeps it too.  A reference to a dying SV may outlast    *)
(* the brackets: invoke_coderef takes a mortal one before it begins its    *)
(* own, and what it calls may keep a copy.                                 *)
(***************************************************************************)
EXTENDS Integers, Sequences

CONSTANTS
  FAKE_REFCOUNT,   \* 65536 in the code
  MaxRefs,         \* bound: the references there are at one time
  MaxDepth         \* bound: the brackets around one SV

ASSUME KeepAliveAssumption ==
  /\ FAKE_REFCOUNT \in Nat /\ MaxRefs \in Nat \ {0} /\ MaxDepth \in Nat
  /\ MaxRefs < FAKE_REFCOUNT

VARIABLES
  life,     \* "free", "live", "dying" (in sv_clear), "gone" (cleared, but still
            \* referred to) or "twice" (in sv_clear again)
  refs,     \* the references there really are
  count,    \* SvREFCNT
  saved,    \* old_refcount of each bracket the SV is in
  at,       \* history: refs when each of them began
  stray     \* history: dying, it was referred to from outside every bracket

vars == <<life, refs, count, saved, at, stray>>

Inside == saved # <<>>
Top(s) == s[Len(s)]
Pop(s) == SubSeq(s, 1, Len(s) - 1)

Init ==
  /\ life = "free" /\ refs = 0 /\ count = 0 /\ saved = <<>> /\ at = <<>>
  /\ stray = FALSE

New ==
  /\ life = "free"
  /\ life' = "live" /\ refs' = 1 /\ count' = 1 /\ stray' = FALSE
  /\ UNCHANGED <<saved, at>>

Strays(s, r) == stray' = (stray \/ (life = "dying" /\ s = <<>> /\ r > 0))

\* In a bracket or, as invoke_coderef does, before it, whether or not the SV is dying.
Inc ==
  /\ life \in {"live", "dying", "gone"}
  /\ refs < MaxRefs
  /\ refs' = refs + 1 /\ count' = count + 1
  /\ Strays(saved, refs')
  /\ UNCHANGED <<life, saved, at>>

\* perl frees what is counted down to 0, an SV too that it is in or was in already.
Cleared == IF life = "live" THEN "dying" ELSE "twice"

Dec ==
  /\ refs > 0
  /\ refs' = refs - 1 /\ count' = count - 1
  /\ life' = IF count = 1 THEN Cleared ELSE life
  /\ UNCHANGED <<saved, at, stray>>

\* Mutant: an ordinary reference is taken.
BeginAddsOne ==
  /\ life \in {"live", "dying"}
  /\ Len(saved) < MaxDepth
  /\ saved' = Append(saved, count)
  /\ at' = Append(at, refs)
  /\ count' = count + 1
  /\ UNCHANGED <<life, refs, stray>>

refcnt_ka_begin ==
  /\ life \in {"live", "dying"}
  /\ Len(saved) < MaxDepth
  /\ saved' = Append(saved, count)
  /\ at' = Append(at, refs)
  /\ count' = FAKE_REFCOUNT
  /\ UNCHANGED <<life, refs, stray>>

\* Mutants: the saved count is put back as it was; an SV that came in with no
\* reference is freed as well.
EndRestores ==
  /\ Inside
  /\ count' = Top(saved)
  /\ saved' = Pop(saved)
  /\ at' = Pop(at)
  /\ Strays(saved', refs)
  /\ UNCHANGED <<life, refs>>

EndFreesDying ==
  /\ Inside
  /\ LET effective_refcount == Top(saved) + (count - FAKE_REFCOUNT) IN
       /\ count' = effective_refcount
       /\ life' = IF effective_refcount <= 0 THEN Cleared ELSE life
  /\ saved' = Pop(saved)
  /\ at' = Pop(at)
  /\ Strays(saved', refs)
  /\ UNCHANGED refs

refcnt_ka_end ==
  /\ Inside
  /\ LET effective_refcount == Top(saved) + (count - FAKE_REFCOUNT) IN
       \/ /\ effective_refcount <= 0 /\ Top(saved) > 0
          /\ count' = 0
          /\ life' = Cleared
       \/ /\ effective_refcount > 0 \/ Top(saved) = 0
          /\ count' = effective_refcount
          /\ UNCHANGED life
  /\ saved' = Pop(saved)
  /\ at' = Pop(at)
  /\ Strays(saved', refs)
  /\ UNCHANGED refs

\* The free hook has returned: sv_clear frees the body, and the head unless there
\* are references.
Free ==
  /\ life \in {"dying", "twice"} /\ ~Inside
  /\ life' = IF refs = 0 THEN "free" ELSE "gone"
  /\ UNCHANGED <<refs, count, saved, at, stray>>

Next == New \/ Inc \/ Dec \/ refcnt_ka_begin \/ refcnt_ka_end \/ Free

Spec == Init /\ [][Next]_vars

-----------------------------------------------------------------------------
TypeOK ==
  /\ life \in {"free", "live", "dying", "gone", "twice"}
  /\ refs \in 0..MaxRefs
  /\ count \in Int
  /\ saved \in Seq(Int)
  /\ at \in Seq(0..MaxRefs)
  /\ stray \in BOOLEAN

\* A live SV outside every bracket has a reference, and its count is the number
\* of them: whatever was dropped in a bracket was accounted for at its end.
CountExact == life = "live" /\ ~Inside => refs > 0 /\ count = refs

\* Brackets on a dying SV, however they nest and whatever is taken and dropped in
\* them, do not make perl clear it again: that takes a reference from outside them,
\* which outlives the free hook as invoke_coderef's mortal one does.
ClearedOnce == life = "twice" => stray

\* An SV goes only when its last reference has gone, and never inside a bracket
\* but as the outermost one ends.
KeptAlive ==
  [][life = "live" /\ life' # "live" => refs' = 0 /\ saved' = <<>>]_vars

\* The count says what happened in the innermost bracket.
Bookkeeping == count = IF Inside THEN FAKE_REFCOUNT + refs - Top(at) ELSE refs

\* What nested brackets saved: the outermost the true count, the others
\* FAKE_REFCOUNT and what happened in the bracket around them.
Nesting ==
  /\ Len(saved) = Len(at)
  /\ \A i \in 1..Len(saved) :
       saved[i] = IF i = 1 THEN at[1] ELSE FAKE_REFCOUNT + at[i] - at[i - 1]

\* What the stages of the SV's life add: live ones had references when their
\* brackets began, dying ones had none but stray ones.
Lifetime ==
  /\ life \in {"free", "twice"} => refs = 0 /\ ~Inside
  /\ life = "gone" => stray /\ refs > 0 /\ ~Inside
  /\ life = "live" => (IF Inside THEN at[1] > 0 ELSE refs > 0)
  /\ life = "dying" /\ ~stray => (IF Inside THEN at[1] = 0 ELSE refs = 0)

IInv == TypeOK /\ ClearedOnce /\ Bookkeeping /\ Nesting /\ Lifetime
=============================================================================
