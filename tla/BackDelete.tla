----------------------------- MODULE BackDelete -----------------------------
(***************************************************************************)
(* What the back-delete layer of hreg.c and hr_pl.c promises to the rest   *)
(* of Ref::Store about one object: an action registered on the object runs *)
(* exactly once, when the object is freed, unless it was deleted before.   *)
(* Nothing runs while the object lives, nothing deleted ever runs, and an  *)
(* object is gone only when it owes no action any more.                    *)
(***************************************************************************)
EXTENDS Sequences

CONSTANT Action       \* the actions that can be registered on the object

VARIABLES life,       \* "alive", "dying" or "gone"
          pending,    \* the registered actions that still have to run
          log         \* the actions that have run, in order

bdvars == <<life, pending, log>>

Init ==
  /\ life = "alive"
  /\ pending = {}
  /\ log = <<>>

Register(a) ==
  /\ life # "gone"
  /\ pending' = pending \cup {a}
  /\ UNCHANGED <<life, log>>

Cancel(a) ==
  /\ a \in pending
  /\ pending' = pending \ {a}
  /\ UNCHANGED <<life, log>>

Die ==
  /\ life = "alive"
  /\ life' = "dying"
  /\ UNCHANGED <<pending, log>>

Trigger(a) ==
  /\ life = "dying"
  /\ a \in pending
  /\ pending' = pending \ {a}
  /\ log' = Append(log, a)
  /\ UNCHANGED life

Vanish ==
  /\ life = "dying"
  /\ pending = {}
  /\ life' = "gone"
  /\ UNCHANGED <<pending, log>>

Next ==
  \/ \E a \in Action : Register(a) \/ Cancel(a) \/ Trigger(a)
  \/ Die
  \/ Vanish

Spec == Init /\ [][Next]_bdvars
=============================================================================
