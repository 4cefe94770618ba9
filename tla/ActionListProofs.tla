-------------------------- MODULE ActionListProofs --------------------------
(***************************************************************************)
(* What ActionList promises for every set of actions and containers.  The  *)
(* first part is about well-formed lists, whatever the callbacks do; the   *)
(* second, DeletedNeverRuns and the refinement of BackDelete, about what   *)
(* runs until a callback registers something on the dying object, which    *)
(* Ref::Store's own callbacks never do.                                    *)
(***************************************************************************)
EXTENDS ActionList, TLAPS

\* What relates the trigger loop, the deletion loop and the list.
Phase ==
  /\ running => magic = "infree"
  /\ magic = "infree" /\ ~running => crit = {}
  /\ magic = "infree" /\ attached => walk = list

IInv == TypeOK /\ Unique /\ NoHoleWhileLive /\ Phase

-----------------------------------------------------------------------------
(* Unlinking a node keeps the others, in order: what iter_prev->next = next *)
(* (or, for the head, the copy of the next node over it) does to the list.  *)
LEMMA WithoutNodeType ==
  ASSUME NEW S, NEW s \in Seq(S), NEW i \in 1..Len(s)
  PROVE  /\ WithoutNode(s, i) \in Seq(S)
         /\ Len(WithoutNode(s, i)) = Len(s) - 1
         /\ \A j \in 1..(Len(s) - 1) :
              WithoutNode(s, i)[j] = IF j < i THEN s[j] ELSE s[j + 1]
<1>1. Len(s) - 1 \in Nat
  OBVIOUS
<1>2. \A j \in 1..(Len(s) - 1) : s[j] \in S /\ s[j + 1] \in S
  OBVIOUS
<1>3. WithoutNode(s, i) \in [1..(Len(s) - 1) -> S]
  BY <1>2 DEF WithoutNode
<1>4. WithoutNode(s, i) \in Seq(S)
  BY <1>1, <1>3
<1> QED
  BY <1>1, <1>3, <1>4 DEF WithoutNode

\* Clearing a node's body leaves every other node as it was.
LEMMA SanitizedType ==
  ASSUME NEW s \in Seq(Slot), NEW i
  PROVE  /\ Sanitized(s, i) \in Seq(Slot)
         /\ Len(Sanitized(s, i)) = Len(s)
         /\ \A j \in 1..Len(s) : Sanitized(s, i)[j] = IF j = i THEN Null ELSE s[j]
<1>1. Null \in Slot /\ s \in [1..Len(s) -> Slot] /\ Len(s) \in Nat
  BY DEF Slot
<1>2. Sanitized(s, i) \in [1..Len(s) -> Slot]
  BY <1>1 DEF Sanitized
<1>3. Sanitized(s, i) \in Seq(Slot)
  BY <1>1, <1>2
<1>4. Len(Sanitized(s, i)) = Len(s)
  BY <1>1, <1>2, <1>3
<1> QED
  BY <1>1, <1>3, <1>4 DEF Sanitized

\* Type correctness, the facts about the phases, and two of the invariants
\* hold together, with late registrations or without.
LEMMA InitIInv == Init => IInv
<1> SUFFICES ASSUME Init PROVE IInv
  OBVIOUS
<1>1. TypeOK
  <2>1. <<>> \in Seq(Slot) /\ <<>> \in Seq(Action)
    OBVIOUS
  <2>2. attached \in BOOLEAN /\ running \in BOOLEAN /\ late \in BOOLEAN
    BY Zenon DEF Init
  <2> QED
    BY <2>1, <2>2 DEF Init, TypeOK
<1>2. Unique /\ NoHoleWhileLive /\ Phase
  BY DEF Init, Unique, NoHoleWhileLive, Phase
<1> QED
  BY <1>1, <1>2 DEF IInv

LEMMA NextIInv == IInv /\ [Next]_vars => IInv'
<1> SUFFICES ASSUME IInv, [Next]_vars PROVE IInv'
  OBVIOUS
<1> USE ActionListAssumption
<1>1. ASSUME NEW a \in Action, AddAction(a) PROVE IInv'
  <2>1. a \in Slot /\ a # Null
    BY DEF Slot
  <2>2. list' \in Seq(Slot)
    BY <1>1, <2>1 DEF AddAction, IInv, TypeOK
  <2>3. TypeOK'
    BY <1>1, <2>2 DEF AddAction, IInv, TypeOK
  <2>4. Unique' /\ NoHoleWhileLive'
    <3>1. CASE a \in Actions(list)
      BY <1>1, <3>1 DEF AddAction, IInv, Unique, NoHoleWhileLive
    <3>2. CASE a \notin Actions(list)
      <4>1. list' = Append(list, a)
        BY <1>1, <3>2 DEF AddAction
      <4>2. \A i \in 1..Len(list) : list[i] # a
        BY <2>1, <3>2 DEF Actions
      <4> QED
        BY <1>1, <2>1, <4>1, <4>2 DEF AddAction, IInv, TypeOK, Unique, NoHoleWhileLive
    <3> QED
      BY <3>1, <3>2
  <2>5. Phase'
    BY <1>1 DEF AddAction, IInv, Phase
  <2> QED
    BY <2>3, <2>4, <2>5 DEF IInv
<1>2. ASSUME NEW a \in Action, AddWhileFreed(a) PROVE IInv'
  <2>1. a \in Slot /\ a # Null
    BY DEF Slot
  <2>2. <<a>> \in Seq(Slot) /\ Append(list, a) \in Seq(Slot)
    BY <2>1 DEF IInv, TypeOK
  <2>3. list' \in Seq(Slot) /\ walk' \in Seq(Slot)
    BY <1>2, <2>2 DEF AddWhileFreed, IInv, TypeOK
  <2>4. TypeOK'
    BY <1>2, <2>3 DEF AddWhileFreed, IInv, TypeOK
  <2>5. Unique'
    <3>1. CASE list' = <<a>>
      BY <3>1 DEF Unique
    <3>2. CASE list' = list
      BY <3>2 DEF Unique, IInv
    <3>3. CASE list' = Append(list, a) /\ a \notin Actions(list)
      <4>1. \A i \in 1..Len(list) : list[i] # a
        BY <2>1, <3>3 DEF Actions
      <4> QED
        BY <3>3, <4>1 DEF IInv, TypeOK, Unique
    <3> QED
      BY <1>2, <3>1, <3>2, <3>3 DEF AddWhileFreed
  <2>6. NoHoleWhileLive' /\ Phase'
    BY <1>2 DEF AddWhileFreed, IInv, NoHoleWhileLive, Phase
  <2> QED
    BY <2>4, <2>5, <2>6 DEF IInv
<1>3. ASSUME NEW C \in Criteria, BeginDelete(C) PROVE IInv'
  <2>1. C \in SUBSET Action
    BY DEF Criteria
  <2> QED
    BY <1>3, <2>1 DEF BeginDelete, Reachable, IInv, TypeOK, Unique, NoHoleWhileLive, Phase
<1>4. ASSUME DeleteNode PROVE IInv'
  <2>1. PICK i \in 1..Len(list) : list' = WithoutNode(list, i)
    BY <1>4 DEF DeleteNode
  <2>2. /\ list' \in Seq(Slot)
        /\ Len(list') = Len(list) - 1
        /\ \A j \in 1..(Len(list) - 1) : list'[j] = IF j < i THEN list[j] ELSE list[j + 1]
    BY <2>1, WithoutNodeType DEF IInv, TypeOK
  <2>3. TypeOK'
    BY <1>4, <2>2 DEF DeleteNode, IInv, TypeOK
  <2>4. Unique'
    <3>1. Len(list) \in Nat /\ Unique
      BY DEF IInv, TypeOK
    <3> QED
      BY <2>2, <3>1 DEF Unique
  <2>5. NoHoleWhileLive'
    BY <1>4, <2>2 DEF DeleteNode, IInv, TypeOK, NoHoleWhileLive
  <2>6. Phase'
    BY <1>4 DEF DeleteNode, IInv, Phase
  <2> QED
    BY <2>3, <2>4, <2>5, <2>6 DEF IInv
<1>5. ASSUME NullifyNode PROVE IInv'
  <2>1. PICK i \in 1..Len(list) : list' = Sanitized(list, i)
    BY <1>5 DEF NullifyNode
  <2>2. /\ list' \in Seq(Slot)
        /\ Len(list') = Len(list)
        /\ \A j \in 1..Len(list) : list'[j] = IF j = i THEN Null ELSE list[j]
    BY <2>1, SanitizedType DEF IInv, TypeOK
  <2>3. TypeOK'
    BY <1>5, <2>2 DEF NullifyNode, IInv, TypeOK
  <2>4. Unique'
    BY <2>2 DEF IInv, Unique
  <2>5. NoHoleWhileLive' /\ Phase'
    BY <1>5 DEF NullifyNode, IInv, NoHoleWhileLive, Phase
  <2> QED
    BY <2>3, <2>4, <2>5 DEF IInv
<1>6. ASSUME EndDelete PROVE IInv'
  BY <1>6 DEF EndDelete, IInv, TypeOK, Unique, NoHoleWhileLive, Phase
<1>7. ASSUME BeginFree PROVE IInv'
  BY <1>7 DEF BeginFree, IInv, TypeOK, Unique, NoHoleWhileLive, Phase
<1>8. ASSUME Trigger PROVE IInv'
  <2>1. walk[cur] \in Action
    BY <1>8 DEF Trigger, IInv, TypeOK, Slot
  <2>2. TypeOK'
    BY <1>8, <2>1 DEF Trigger, IInv, TypeOK
  <2> QED
    BY <1>8, <2>2 DEF Trigger, IInv, Unique, NoHoleWhileLive, Phase
<1>9. ASSUME Return PROVE IInv'
  <2>1. /\ walk' \in Seq(Slot)
        /\ list' \in Seq(Slot)
    BY <1>9, SanitizedType DEF Return, IInv, TypeOK
  <2>2. TypeOK'
    <3>1. running' \in BOOLEAN /\ attached' \in BOOLEAN
      BY <1>9, Zenon DEF Return, IInv, TypeOK
    <3>2. cur' \in Nat \ {0}
      BY <1>9 DEF Return, IInv, TypeOK
    <3> QED
      BY <1>9, <2>1, <3>1, <3>2 DEF Return, IInv, TypeOK
  <2>3. magic = "infree" /\ magic' = "infree"
    BY <1>9 DEF Return, IInv, Phase
  <2>4. Unique'
    <3>1. CASE attached
      <4>1. /\ Len(list') = Len(list)
            /\ \A j \in 1..Len(list) : list'[j] = IF j = cur THEN Null ELSE list[j]
        BY <1>9, <2>3, <3>1, SanitizedType DEF Return, IInv, TypeOK, Phase
      <4> QED
        BY <4>1 DEF IInv, Unique
    <3>2. CASE ~attached
      BY <1>9, <3>2 DEF Return, IInv, Unique
    <3> QED
      BY <3>1, <3>2
  <2>5. NoHoleWhileLive' /\ Phase'
    BY <1>9, <2>3 DEF Return, IInv, NoHoleWhileLive, Phase
  <2> QED
    BY <2>2, <2>4, <2>5 DEF IInv
<1>10. ASSUME Skip PROVE IInv'
  BY <1>10 DEF Skip, IInv, TypeOK, Unique, NoHoleWhileLive, Phase
<1>11. ASSUME FreeList PROVE IInv'
  <2>1. list' = <<>> /\ walk' = <<>> /\ <<>> \in Seq(Slot)
    BY <1>11 DEF FreeList
  <2> QED
    BY <1>11, <2>1 DEF FreeList, IInv, TypeOK, Unique, NoHoleWhileLive, Phase
<1>12. ASSUME UNCHANGED vars PROVE IInv'
  BY <1>12 DEF vars, IInv, TypeOK, Unique, NoHoleWhileLive, Phase
<1> QED
  BY <1>1, <1>2, <1>3, <1>4, <1>5, <1>6, <1>7, <1>8, <1>9, <1>10, <1>11, <1>12
     DEF Next, Caller, Loop

LEMMA SpecIInv == Spec => []IInv
  BY InitIInv, NextIInv, PTL DEF Spec

\* The list is well formed whatever is added, deleted and freed.
THEOREM TypeCorrect == Spec => []TypeOK
  BY SpecIInv, PTL DEF IInv

\* No action is ever registered twice on one object.
THEOREM NeverTwice == Spec => []Unique
  BY SpecIInv, PTL DEF IInv

\* A live object's list never holds a cleared node.
THEOREM NoHole == Spec => []NoHoleWhileLive
  BY SpecIInv, PTL DEF IInv

\* A deletion that returns has left nothing it matches.
THEOREM DeletionComplete == Spec => DeleteComplete
<1>1. ASSUME IInv, [Next]_vars, crit # {}, crit' = {}
      PROVE  Actions(list') \cap crit = {}
  <2>1. CASE EndDelete
    BY <2>1 DEF EndDelete
  <2>2. CASE DeleteNode
    <3>1. PICK i \in 1..Len(list) : list' = WithoutNode(list, i)
      BY <2>2 DEF DeleteNode
    <3>2. Len(list) = 1
      BY <1>1, <2>2 DEF DeleteNode
    <3>3. Len(list') = 0
      <4>1. list \in Seq(Slot)
        BY <1>1 DEF IInv, TypeOK
      <4>2. Len(list') = Len(list) - 1
        BY <3>1, <4>1, WithoutNodeType
      <4> QED
        BY <3>2, <4>2
    <3> QED
      BY <3>3 DEF Actions
  <2> QED
    BY <1>1, <2>1, <2>2
       DEF Next, Caller, Loop, AddAction, AddWhileFreed, BeginDelete, Reachable, NullifyNode,
           BeginFree, Trigger, Return, Skip, FreeList, vars
<1> QED
  BY <1>1, SpecIInv, PTL DEF Spec, DeleteComplete

-----------------------------------------------------------------------------
(* The walk and the list stay the same nodes, what the walk has passed is   *)
(* cleared, and what was deleted is in the list only while the loop that    *)
(* deletes it has not come to it.                                           *)
Tidy ==
  /\ magic = "infree" => attached
  /\ magic = "infree" => \A j \in 1..Len(walk) : j < cur => walk[j] = Null
  /\ \A i \in 1..Len(list) : list[i] \in deleted => list[i] \in crit

\* All this until a callback registers an action on the dying object.
Settled == ~late => Tidy

LEMMA InitSettled == Init => Settled
  BY DEF Init, Settled, Tidy

\* What was registered late stays registered late.
LEMMA LateStays ==
  ASSUME [Next]_vars, ~late'
  PROVE  ~late
BY DEF Next, Caller, Loop, AddAction, AddWhileFreed, BeginDelete, DeleteNode, NullifyNode,
       EndDelete, BeginFree, Trigger, Return, Skip, FreeList, vars

LEMMA NextSettled ==
  ASSUME IInv, IInv', Settled, [Next]_vars
  PROVE  Settled'
<1> SUFFICES ASSUME ~late' PROVE Tidy'
  BY DEF Settled
<1> USE ActionListAssumption
<1>0. list \in Seq(Slot) /\ walk \in Seq(Slot) /\ cur \in Nat \ {0}
  BY DEF IInv, TypeOK
<1>a. Tidy
  BY LateStays DEF Settled
<1>1. ASSUME NEW a \in Action, AddAction(a) PROVE Tidy'
  <2>1. crit = {} /\ crit' = {} /\ magic' = "live"
    BY <1>1 DEF AddAction, Reachable
  <2>2. \A i \in 1..Len(list') : list'[i] = a \/ (i \in 1..Len(list) /\ list'[i] = list[i])
    BY <1>0, <1>1 DEF AddAction
  <2> QED
    BY <1>a, <1>1, <2>1, <2>2 DEF AddAction, Tidy
<1>2. ASSUME NEW a \in Action, AddWhileFreed(a) PROVE Tidy'
  BY <1>2 DEF AddWhileFreed
<1>3. ASSUME NEW C \in Criteria, BeginDelete(C) PROVE Tidy'
  BY <1>a, <1>3 DEF BeginDelete, Reachable, Tidy
<1>4. ASSUME DeleteNode PROVE Tidy'
  <2>1. PICK i \in 1..Len(list) : list' = WithoutNode(list, i)
    BY <1>4 DEF DeleteNode
  <2>2. /\ Len(list') = Len(list) - 1
        /\ \A j \in 1..(Len(list) - 1) : list'[j] = IF j < i THEN list[j] ELSE list[j + 1]
    BY <1>0, <2>1, WithoutNodeType
  <2>3. magic' # "infree" /\ deleted' = deleted
    BY <1>4 DEF DeleteNode
  <2>4. crit' = crit \/ Len(list) = 1
    BY <1>4 DEF DeleteNode
  <2>5. \A j \in 1..Len(list') : \E k \in 1..Len(list) : list'[j] = list[k]
    BY <1>0, <2>2
  <2>6. CASE crit' = crit
    BY <1>a, <2>3, <2>5, <2>6 DEF Tidy
  <2>7. CASE Len(list) = 1
    BY <1>a, <2>2, <2>3, <2>7 DEF Tidy
  <2> QED
    BY <2>4, <2>6, <2>7
<1>5. ASSUME NullifyNode PROVE Tidy'
  <2>1. PICK i \in 1..Len(list) : list' = Sanitized(list, i)
    BY <1>5 DEF NullifyNode
  <2>2. /\ Len(list') = Len(list)
        /\ \A j \in 1..Len(list) : list'[j] = IF j = i THEN Null ELSE list[j]
    BY <1>0, <2>1, SanitizedType
  <2>3. attached /\ walk = list /\ walk' = list'
    BY <1>a, <1>5 DEF NullifyNode, Tidy, IInv, Phase
  <2>4. Null \notin deleted
    BY DEF IInv, TypeOK
  <2> QED
    BY <1>a, <1>5, <2>2, <2>3, <2>4 DEF NullifyNode, Tidy
<1>6. ASSUME EndDelete PROVE Tidy'
  <2>1. \A i \in 1..Len(list) : list[i] \notin crit
    <3>1. Null \notin crit
      BY DEF IInv, TypeOK
    <3> QED
      BY <1>6, <3>1 DEF EndDelete, Actions
  <2> QED
    BY <1>a, <1>6, <2>1 DEF EndDelete, Tidy
<1>7. ASSUME BeginFree PROVE Tidy'
  BY <1>a, <1>0, <1>7 DEF BeginFree, Tidy
<1>8. ASSUME Trigger PROVE Tidy'
  BY <1>a, <1>8 DEF Trigger, Tidy
<1>9. ASSUME Return PROVE Tidy'
  <2>1. magic = "infree" /\ attached /\ walk = list /\ list' = walk'
    BY <1>a, <1>9 DEF Return, Tidy, IInv, Phase
  <2>2. /\ Len(walk') = Len(walk)
        /\ \A j \in 1..Len(walk) : walk'[j] = IF j = cur THEN Null ELSE walk[j]
    BY <1>0, <1>9, SanitizedType DEF Return
  <2>3. Null \notin deleted
    BY DEF IInv, TypeOK
  <2>4. \A j \in 1..Len(walk') : j < cur' => walk'[j] = Null
    BY <1>a, <1>0, <1>9, <2>1, <2>2 DEF Return, Tidy
  <2>5. \A j \in 1..Len(list') : list'[j] \in deleted' => list'[j] \in crit'
    BY <1>a, <1>0, <1>9, <2>1, <2>2, <2>3 DEF Return, Tidy
  <2> QED
    BY <1>a, <1>9, <2>1, <2>4, <2>5 DEF Return, Tidy
<1>10. ASSUME Skip PROVE Tidy'
  BY <1>a, <1>0, <1>10 DEF Skip, Tidy
<1>11. ASSUME FreeList PROVE Tidy'
  BY <1>a, <1>11 DEF FreeList, Tidy
<1>12. ASSUME UNCHANGED vars PROVE Tidy'
  BY <1>a, <1>12 DEF vars, Tidy
<1> QED
  BY <1>1, <1>2, <1>3, <1>4, <1>5, <1>6, <1>7, <1>8, <1>9, <1>10, <1>11, <1>12
     DEF Next, Caller, Loop

LEMMA SpecSettled == Spec => [](IInv /\ Settled)
<1>1. IInv /\ Settled /\ [Next]_vars => (IInv /\ Settled)'
  BY NextIInv, NextSettled
<1> QED
  BY <1>1, InitIInv, InitSettled, PTL DEF Spec

(* A deleted action never runs unless it is registered again, also when the *)
(* deletion comes from a callback of the walk that is about to reach it:    *)
(* what HR_nullify_action is for (hreg.c:288-290).                          *)
THEOREM DeletedStaysDeleted == Spec => DeletedNeverRuns
<1>1. ASSUME IInv, Settled, [Next]_vars, ~late, ~running, running'
      PROVE  walk[cur] \notin deleted
  <2>1. Trigger
    BY <1>1
       DEF Next, Caller, Loop, AddAction, AddWhileFreed, BeginDelete, Reachable, DeleteNode,
           NullifyNode, EndDelete, BeginFree, Return, Skip, FreeList, vars
  <2>2. crit = {} /\ walk = list /\ cur \in 1..Len(walk)
    BY <1>1, <2>1 DEF Trigger, IInv, TypeOK, Phase, Settled, Tidy
  <2> QED
    BY <1>1, <2>2 DEF Settled, Tidy
<1> QED
  BY <1>1, SpecSettled, PTL DEF Spec, DeletedNeverRuns

-----------------------------------------------------------------------------
LEMMA InitRefines == Init => BD!Init
  BY DEF Init, BD!Init, Life, Owed, Actions

LEMMA NextRefines ==
  ASSUME IInv, IInv', Settled, Settled', [Next]_vars
  PROVE  [late' \/ BD!Next]_(BD!bdvars)
<1> SUFFICES ASSUME ~late' PROVE [BD!Next]_(BD!bdvars)
  OBVIOUS
<1> USE ActionListAssumption
<1>0. list \in Seq(Slot) /\ walk \in Seq(Slot) /\ cur \in Nat \ {0}
  BY DEF IInv, TypeOK
<1>a. Tidy
  BY LateStays DEF Settled
<1>1. ASSUME NEW a \in Action, AddAction(a) PROVE BD!Register(a)
  <2>1. a # Null
    OBVIOUS
  <2>2. Actions(list') = Actions(list) \cup {a}
    BY <1>0, <1>1, <2>1 DEF AddAction, Actions
  <2>3. Owed = Actions(list) /\ Owed' = Actions(list')
    BY <1>1 DEF AddAction, Owed
  <2> QED
    BY <1>1, <2>2, <2>3 DEF AddAction, BD!Register, Life
<1>2. ASSUME NEW a \in Action, AddWhileFreed(a) PROVE FALSE
  BY <1>2 DEF AddWhileFreed
<1>3. ASSUME NEW C \in Criteria, BeginDelete(C) PROVE UNCHANGED BD!bdvars
  BY <1>3 DEF BeginDelete, BD!bdvars, Life, Owed, Actions
<1>4. ASSUME DeleteNode PROVE \E a \in Action : BD!Cancel(a)
  <2>1. PICK i \in 1..Len(list) : IsFirst(list, crit, i) /\ list' = WithoutNode(list, i)
    BY <1>4 DEF DeleteNode
  <2>2. /\ Len(list') = Len(list) - 1
        /\ \A j \in 1..(Len(list) - 1) : list'[j] = IF j < i THEN list[j] ELSE list[j + 1]
    BY <1>0, <2>1, WithoutNodeType
  <2>3. list[i] \in Action
    BY <2>1 DEF IsFirst, IInv, TypeOK
  <2>4. Actions(list') = Actions(list) \ {list[i]}
    <3>1. ASSUME NEW x \in Actions(list') PROVE x \in Actions(list) /\ x # list[i]
      <4>1. PICK j \in 1..Len(list') : x = list'[j] /\ x # Null
        BY DEF Actions
      <4>2. PICK k \in 1..Len(list) : k # i /\ x = list[k]
        BY <1>0, <2>2, <4>1
      <4> QED
        BY <2>1, <4>1, <4>2 DEF Actions, IInv, Unique
    <3>2. ASSUME NEW x \in Actions(list), x # list[i] PROVE x \in Actions(list')
      <4>1. PICK k \in 1..Len(list) : x = list[k] /\ x # Null /\ k # i
        BY <3>2 DEF Actions
      <4>2. CASE k < i
        BY <1>0, <2>1, <2>2, <4>1, <4>2 DEF Actions
      <4>3. CASE k > i
        <5>1. k - 1 \in 1..Len(list') /\ list'[k - 1] = x
          BY <1>0, <2>1, <2>2, <4>1, <4>3
        <5> QED
          BY <4>1, <5>1 DEF Actions
      <4> QED
        BY <1>0, <4>1, <4>2, <4>3
    <3> QED
      BY <3>1, <3>2
  <2>5. Owed = Actions(list) /\ Owed' = Actions(list') /\ Life = "alive" /\ Life' = "alive"
    BY <1>4 DEF DeleteNode, Owed, Life
  <2>6. list[i] \in Owed
    BY <2>3, <2>5 DEF Actions
  <2> QED
    BY <1>4, <2>3, <2>4, <2>5, <2>6 DEF DeleteNode, BD!Cancel
<1>5. ASSUME NullifyNode PROVE (\E a \in Action : BD!Cancel(a)) \/ UNCHANGED BD!bdvars
  <2>1. PICK i \in 1..Len(list) : IsFirst(list, crit, i) /\ list' = Sanitized(list, i)
    BY <1>5 DEF NullifyNode
  <2>2. /\ Len(list') = Len(list)
        /\ \A j \in 1..Len(list) : list'[j] = IF j = i THEN Null ELSE list[j]
    BY <1>0, <2>1, SanitizedType
  <2>3. attached /\ walk = list /\ walk' = list'
    BY <1>a, <1>5 DEF NullifyNode, Tidy, IInv, Phase
  <2>4. running
    BY <1>5 DEF NullifyNode, IInv, Phase
  <2>5. list[i] \in Action
    BY <2>1 DEF IsFirst, IInv, TypeOK
  <2>6. i >= cur
    BY <1>a, <1>0, <1>5, <2>3, <2>5 DEF NullifyNode, Tidy
  <2>7. UNCHANGED <<Life, log>> /\ Life = "dying"
    BY <1>5 DEF NullifyNode, Life
  <2>8. /\ Owed = {walk[j] : j \in {k \in 1..Len(walk) : k > cur}} \ {Null}
        /\ Owed' = {walk'[j] : j \in {k \in 1..Len(walk) : k > cur}} \ {Null}
    BY <1>0, <1>5, <2>2, <2>3, <2>4 DEF NullifyNode, Owed
  <2>9. CASE i = cur
    <3>1. Owed' = Owed
      BY <1>0, <2>2, <2>3, <2>8, <2>9
    <3> QED
      BY <2>7, <3>1 DEF BD!bdvars
  <2>10. CASE i > cur
    <3>1. list[i] \in Owed
      BY <2>3, <2>5, <2>8, <2>10
    <3>2. Owed' = Owed \ {list[i]}
      <4>1. ASSUME NEW x \in Owed' PROVE x \in Owed /\ x # list[i]
        <5>1. PICK j \in 1..Len(walk) : j > cur /\ x = walk'[j] /\ x # Null
          BY <2>8
        <5>2. j # i /\ x = walk[j]
          BY <2>2, <2>3, <5>1
        <5> QED
          BY <2>3, <2>8, <5>1, <5>2 DEF IInv, Unique
      <4>2. ASSUME NEW x \in Owed, x # list[i] PROVE x \in Owed'
        <5>1. PICK j \in 1..Len(walk) : j > cur /\ x = walk[j] /\ x # Null
          BY <2>8
        <5>2. x = walk'[j]
          BY <2>2, <2>3, <4>2, <5>1
        <5> QED
          BY <2>8, <5>1, <5>2
      <4> QED
        BY <4>1, <4>2
    <3> QED
      BY <2>5, <2>7, <3>1, <3>2 DEF BD!Cancel
  <2> QED
    BY <1>0, <2>6, <2>9, <2>10
<1>6. ASSUME EndDelete PROVE UNCHANGED BD!bdvars
  BY <1>6 DEF EndDelete, BD!bdvars, Life, Owed, Actions
<1>7. ASSUME BeginFree PROVE BD!Die
  <2>1. ~running /\ ~running' /\ walk' = list /\ cur' = 1 /\ magic' = "infree"
    BY <1>7 DEF BeginFree, IInv, Phase
  <2>2. Owed' = {list[i] : i \in 1..Len(list)} \ {Null}
    BY <1>0, <2>1 DEF Owed
  <2>3. Owed = {list[i] : i \in 1..Len(list)} \ {Null}
    BY <1>7 DEF BeginFree, Owed, Actions
  <2> QED
    BY <1>7, <2>2, <2>3 DEF BeginFree, BD!Die, Life
<1>8. ASSUME Trigger PROVE \E a \in Action : BD!Trigger(a)
  <2>1. walk[cur] \in Action /\ cur \in 1..Len(walk)
    BY <1>0, <1>8 DEF Trigger, Slot
  <2>2. Owed = {walk[j] : j \in {k \in 1..Len(walk) : k >= cur}} \ {Null}
    BY <1>0, <1>8 DEF Trigger, Owed
  <2>3. Owed' = {walk[j] : j \in {k \in 1..Len(walk) : k > cur}} \ {Null}
    BY <1>0, <1>8 DEF Trigger, Owed
  <2>4. walk = list
    BY <1>a, <1>8 DEF Trigger, IInv, Phase, Tidy
  <2>5. walk[cur] \in Owed
    BY <1>0, <2>1, <2>2
  <2>6. Owed' = Owed \ {walk[cur]}
    <3>1. ASSUME NEW x \in Owed' PROVE x \in Owed /\ x # walk[cur]
      <4>1. PICK j \in 1..Len(walk) : j > cur /\ x = walk[j] /\ x # Null
        BY <2>3
      <4> QED
        BY <1>0, <2>1, <2>2, <2>4, <4>1 DEF IInv, Unique
    <3>2. ASSUME NEW x \in Owed, x # walk[cur] PROVE x \in Owed'
      <4>1. PICK j \in 1..Len(walk) : j >= cur /\ x = walk[j] /\ x # Null
        BY <2>2
      <4> QED
        BY <1>0, <2>3, <3>2, <4>1
    <3> QED
      BY <3>1, <3>2
  <2> QED
    BY <1>8, <2>1, <2>5, <2>6 DEF Trigger, BD!Trigger, Life
<1>9. ASSUME Return PROVE UNCHANGED BD!bdvars
  <2>1. magic = "infree" /\ magic' = "infree"
    BY <1>9 DEF Return, IInv, Phase
  <2>2. /\ Len(walk') = Len(walk)
        /\ \A j \in 1..Len(walk) : walk'[j] = IF j = cur THEN Null ELSE walk[j]
    BY <1>0, <1>9, SanitizedType DEF Return
  <2>3. Owed = {walk[j] : j \in {k \in 1..Len(walk) : k > cur}} \ {Null}
    BY <1>0, <1>9, <2>1 DEF Return, Owed
  <2>4. Owed' = {walk'[j] : j \in {k \in 1..Len(walk) : k > cur}} \ {Null}
    BY <1>0, <1>9, <2>1, <2>2 DEF Return, Owed
  <2>5. Owed' = Owed
    BY <1>0, <2>2, <2>3, <2>4
  <2> QED
    BY <1>9, <2>1, <2>5 DEF Return, BD!bdvars, Life
<1>10. ASSUME Skip PROVE UNCHANGED BD!bdvars
  <2>1. Owed = {walk[j] : j \in {k \in 1..Len(walk) : k >= cur}} \ {Null}
    BY <1>0, <1>10 DEF Skip, Owed
  <2>2. Owed' = {walk[j] : j \in {k \in 1..Len(walk) : k > cur}} \ {Null}
    BY <1>0, <1>10 DEF Skip, Owed
  <2>3. Owed' = Owed
    BY <1>0, <1>10, <2>1, <2>2 DEF Skip
  <2> QED
    BY <1>10, <2>3 DEF Skip, BD!bdvars, Life
<1>11. ASSUME FreeList PROVE BD!Vanish
  <2>1. Owed = {} /\ Owed' = {}
    BY <1>0, <1>11 DEF FreeList, Owed, Actions
  <2> QED
    BY <1>11, <2>1 DEF FreeList, BD!Vanish, Life
<1>12. ASSUME UNCHANGED vars PROVE UNCHANGED BD!bdvars
  BY <1>12 DEF vars, BD!bdvars, Life, Owed, Actions
<1> QED
  BY <1>1, <1>2, <1>3, <1>4, <1>5, <1>6, <1>7, <1>8, <1>9, <1>10, <1>11, <1>12
     DEF Next, Caller, Loop, BD!Next

(* The list keeps the promise of BackDelete: an action registered and not   *)
(* deleted runs exactly once, when the object dies, and the object is gone  *)
(* only when none is left.                                                  *)
THEOREM Implementation == Spec => ImplementsBackDelete
<1>1. IInv /\ Settled /\ IInv' /\ Settled' /\ [Next]_vars => [late' \/ BD!Next]_(BD!bdvars)
  BY NextRefines
<1> QED
  BY <1>1, SpecSettled, InitRefines, PTL DEF Spec, ImplementsBackDelete
=============================================================================
