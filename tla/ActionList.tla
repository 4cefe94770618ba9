----------------------------- MODULE ActionList -----------------------------
(***************************************************************************)
(* The list of HR_Action records that hangs off one scalar by extension    *)
(* magic (hreg.c, hr_pl.c).                                                *)
(*                                                                         *)
(* The list is a sequence: its first element is the head node that the     *)
(* magic points to and that is never freed on its own.  A slot holds an    *)
(* action or Null, the zeroed body action_sanitize leaves behind.  While   *)
(* the object is being freed the trigger loop walks the nodes and the      *)
(* callbacks it runs may come back and delete actions of the same object.  *)
(* They may also add some, which the Perl-facing HR_PL_add_action_ext      *)
(* together with HR_ACTION_TYPE_CALL_CV allows and Ref::Store's own        *)
(* callbacks never do; LateNodes bounds how often.                         *)
(***************************************************************************)
EXTENDS Naturals, Sequences

CONSTANTS Action,       \* actions: a container with a key, as the code compares them
          Container,    \* containers (hashes, C functions, code references)
          ContainerOf,  \* the container of each action
          Null,         \* the body of a sanitized node
          LateNodes     \* callbacks register actions on the dying object up to this many nodes

ASSUME ActionListAssumption ==
  /\ Null \notin Action
  /\ ContainerOf \in [Action -> Container]
  /\ LateNodes \in Nat

VARIABLES
  magic,     \* "none", "live", "infree" (OURMAGIC_infree set) or "gone"
  list,      \* the nodes reachable from the head
  walk,      \* in free: the nodes the trigger loop walks
  attached,  \* in free: are walk and list still the same nodes?
  cur,       \* in free: the node trigger_and_free_action is at
  running,   \* in free: is its callback executing?
  crit,      \* the actions the deletion loop in progress matches, {} if none
  deleted,   \* history: the actions deleted since they were last registered
  log,       \* history: the actions that were triggered, in order
  late       \* history: has a callback registered an action on the dying object?

vars == <<magic, list, walk, attached, cur, running, crit, deleted, log, late>>

Slot == Action \cup {Null}

Actions(s) == {s[i] : i \in 1..Len(s)} \ {Null}

\* The single action a key deletion names, or all those of a container.
Criteria ==
  {{a} : a \in Action} \cup
  ({{a \in Action : ContainerOf[a] = c} : c \in Container} \ {{}})

Init ==
  /\ magic = "none"
  /\ list = <<>>
  /\ walk = <<>>
  /\ attached = TRUE
  /\ cur = 1
  /\ running = FALSE
  /\ crit = {}
  /\ deleted = {}
  /\ log = <<>>
  /\ late = FALSE

-----------------------------------------------------------------------------
\* action_find_similar: i is the first node of s whose body is in C.
IsFirst(s, C, i) ==
  /\ s[i] \in C
  /\ \A j \in 1..(i - 1) : s[j] \notin C

WithoutNode(s, i) ==
  [j \in 1..(Len(s) - 1) |-> IF j < i THEN s[j] ELSE s[j + 1]]

Sanitized(s, i) == [s EXCEPT ![i] = Null]

\* Perl code can reach the object: it is alive, or a callback of its own runs.
Reachable == crit = {} /\ (magic \in {"none", "live"} \/ running)

\* Mutant: HR_add_action does not search.
AddActionAgain(a) ==
  /\ Reachable
  /\ magic \in {"none", "live"}
  /\ magic' = "live"
  /\ list' = Append(list, a)
  /\ deleted' = deleted \ {a}
  /\ UNCHANGED <<walk, attached, cur, running, crit, log, late>>

\* HR_add_action on a live object: create the magic, then append unless found.
AddAction(a) ==
  /\ Reachable
  /\ magic \in {"none", "live"}
  /\ magic' = "live"
  /\ list' = IF a \in Actions(list) THEN list ELSE Append(list, a)
  /\ deleted' = deleted \ {a}
  /\ UNCHANGED <<walk, attached, cur, running, crit, log, late>>

(* HR_add_action on a dying object.  A head that was already sanitized     *)
(* looks like an empty list: the new body is copied over it and its next   *)
(* pointer cleared, so the nodes behind it are reachable only for a loop   *)
(* that is already past the head.                                          *)
AddWhileFreed(a) ==
  /\ Reachable
  /\ magic = "infree"
  /\ Len(list) < LateNodes
  /\ list # <<>>
  /\ IF list[1] = Null
       THEN /\ list' = <<a>>
            /\ walk' = IF attached /\ cur = 1 THEN <<a>> ELSE walk
            /\ attached' = (attached /\ cur = 1)
       ELSE /\ list' = IF a \in Actions(list) THEN list ELSE Append(list, a)
            /\ walk' = IF attached THEN list' ELSE walk
            /\ UNCHANGED attached
  /\ late' = TRUE
  /\ deleted' = deleted \ {a}
  /\ UNCHANGED <<magic, cur, running, crit, log>>

\* pl_del_action_common: the caller names what to delete ...
BeginDelete(C) ==
  /\ Reachable
  /\ magic \in {"live", "infree"}
  /\ crit' = C
  /\ deleted' = deleted \cup C
  /\ UNCHANGED <<magic, list, walk, attached, cur, running, log, late>>

\* Mutant: a live object's node is cleared in place.
DeleteNodeInPlace ==
  /\ magic = "live"
  /\ crit # {}
  /\ \E i \in 1..Len(list) : IsFirst(list, crit, i) /\ list' = Sanitized(list, i)
  /\ UNCHANGED <<magic, walk, attached, cur, running, crit, deleted, log, late>>

\* ... HR_del_action unlinks one node per round; an only node takes the magic along.
DeleteNode ==
  /\ magic = "live"
  /\ crit # {}
  /\ \E i \in 1..Len(list) :
       /\ IsFirst(list, crit, i)
       /\ list' = WithoutNode(list, i)
       /\ IF Len(list) = 1
            THEN magic' = "none" /\ crit' = {}
            ELSE UNCHANGED <<magic, crit>>
  /\ UNCHANGED <<walk, attached, cur, running, deleted, log, late>>

\* Mutant: in free, the node is unlinked under the trigger loop.
NullifyNodeUnlinks ==
  /\ magic = "infree"
  /\ crit # {}
  /\ \E i \in 1..Len(list) : IsFirst(list, crit, i) /\ list' = WithoutNode(list, i)
  /\ attached' = FALSE
  /\ UNCHANGED <<magic, walk, cur, running, crit, deleted, log, late>>

\* ... in free, HR_nullify_action keeps the node and clears its body.
NullifyNode ==
  /\ magic = "infree"
  /\ crit # {}
  /\ \E i \in 1..Len(list) :
       /\ IsFirst(list, crit, i)
       /\ list' = Sanitized(list, i)
  /\ walk' = IF attached THEN list' ELSE walk
  /\ UNCHANGED <<magic, attached, cur, running, crit, deleted, log, late>>

\* Mutant: the loop may end before HR_ACTION_NOT_FOUND.
EndDeleteEarly ==
  /\ crit # {}
  /\ crit' = {}
  /\ UNCHANGED <<magic, list, walk, attached, cur, running, deleted, log, late>>

\* ... until HR_ACTION_NOT_FOUND ends the loop.
EndDelete ==
  /\ crit # {}
  /\ Actions(list) \cap crit = {}
  /\ crit' = {}
  /\ UNCHANGED <<magic, list, walk, attached, cur, running, deleted, log, late>>

-----------------------------------------------------------------------------
\* Mutant: the walk starts before the head.
BeginFreeAtZero ==
  /\ magic \in {"none", "live"}
  /\ crit = {}
  /\ magic' = "infree"
  /\ walk' = list
  /\ attached' = TRUE
  /\ cur' = 0
  /\ UNCHANGED <<list, running, crit, deleted, log, late>>

\* hr_freehook: the last reference is gone.
BeginFree ==
  /\ magic \in {"none", "live"}
  /\ crit = {}
  /\ magic' = "infree"
  /\ walk' = list
  /\ attached' = TRUE
  /\ cur' = 1
  /\ UNCHANGED <<list, running, crit, deleted, log, late>>

\* trigger_and_free_action: run the node's callback ...
Trigger ==
  /\ magic = "infree"
  /\ ~running
  /\ cur <= Len(walk)
  /\ walk[cur] # Null
  /\ running' = TRUE
  /\ log' = Append(log, walk[cur])
  /\ UNCHANGED <<magic, list, walk, attached, cur, crit, deleted, late>>

\* ... sanitize the node when the callback has returned and go to the next ...
Return ==
  /\ running
  /\ crit = {}
  /\ running' = FALSE
  /\ walk' = Sanitized(walk, cur)
  /\ list' = IF attached THEN walk' ELSE list
  /\ cur' = cur + 1
  /\ UNCHANGED <<magic, attached, crit, deleted, log, late>>

\* Mutant: the walk stays at a nullified node.
SkipNever ==
  /\ magic = "infree"
  /\ ~running
  /\ cur <= Len(walk)
  /\ walk[cur] = Null
  /\ UNCHANGED vars

\* ... or pass over a node that was nullified.
Skip ==
  /\ magic = "infree"
  /\ ~running
  /\ cur <= Len(walk)
  /\ walk[cur] = Null
  /\ cur' = cur + 1
  /\ UNCHANGED <<magic, list, walk, attached, running, crit, deleted, log, late>>

\* Mutant: the walk ends at the last node, not after it.
FreeListEarly ==
  /\ magic = "infree"
  /\ ~running
  /\ cur >= Len(walk)
  /\ magic' = "gone"
  /\ list' = <<>>
  /\ walk' = <<>>
  /\ UNCHANGED <<attached, cur, running, crit, deleted, log, late>>

\* HR_trigger_and_free_actions frees the nodes at the end of the walk.
FreeList ==
  /\ magic = "infree"
  /\ ~running
  /\ cur > Len(walk)
  /\ magic' = "gone"
  /\ list' = <<>>
  /\ walk' = <<>>
  /\ UNCHANGED <<attached, cur, running, crit, deleted, log, late>>

Caller ==
  \/ \E a \in Action : AddAction(a) \/ AddWhileFreed(a)
  \/ \E C \in Criteria : BeginDelete(C)
  \/ BeginFree

Loop == DeleteNode \/ NullifyNode \/ EndDelete \/ Trigger \/ Skip \/ FreeList

Next == Caller \/ Loop \/ Return

Spec == Init /\ [][Next]_vars

(* Loops run to their end once entered; a callback returns however often   *)
(* it calls back into the list first.                                      *)
FairSpec == Spec /\ WF_vars(Loop) /\ SF_vars(Return)

-----------------------------------------------------------------------------
TypeOK ==
  /\ magic \in {"none", "live", "infree", "gone"}
  /\ list \in Seq(Slot)
  /\ walk \in Seq(Slot)
  /\ attached \in BOOLEAN
  /\ cur \in Nat \ {0}
  /\ running \in BOOLEAN
  /\ crit \in SUBSET Action
  /\ deleted \in SUBSET Action
  /\ log \in Seq(Action)
  /\ late \in BOOLEAN

\* No action is registered twice on an object, whatever was added, deleted and
\* nullified in between (HR_add_action's search before it appends).
Unique ==
  \A i, j \in 1..Len(list) : list[i] = list[j] /\ list[i] # Null => i = j

\* A live object's list holds no cleared node: only a dying object's nodes are
\* nullified, a live object's are unlinked, so HR_add_action can take a cleared
\* head for an empty list.
NoHoleWhileLive == magic \in {"none", "live"} => \A i \in 1..Len(list) : list[i] # Null

\* When a deletion returns, nothing it matched is registered any more: the
\* loops of pl_del_action_common do not stop at the first match, nor when the
\* head node is the one that goes.
DeleteComplete ==
  [][crit # {} /\ crit' = {} => Actions(list') \cap crit = {}]_vars

\* What the object still owes its registrants.
Owed ==
  IF magic = "infree"
    THEN {walk[i] : i \in {j \in 1..Len(walk) : j > cur \/ (j = cur /\ ~running)}} \ {Null}
    ELSE Actions(list)

Life == IF magic = "gone" THEN "gone" ELSE IF magic = "infree" THEN "dying" ELSE "alive"

BD == INSTANCE BackDelete WITH life <- Life, pending <- Owed

\* The list implements the promise of BackDelete for as long as the callbacks
\* register nothing on the dying object, as Ref::Store's own callbacks do not.
ImplementsBackDelete == BD!Init /\ [][late' \/ BD!Next]_(BD!bdvars)

\* An action that was deleted, and not registered again since, never runs, even
\* when the deletion comes from a callback of the walk that is about to reach
\* it: the reason hreg.c:288-290 gives for nullifying nodes in place.  (After a
\* late registration over a cleared head the walk may hold nodes that no
\* deletion can reach.)
DeletedNeverRuns == [][~late /\ ~running /\ running' => walk[cur] \notin deleted]_vars

\* An object whose freeing has begun is eventually gone.
FreeEnds == (magic = "infree") ~> (magic = "gone")
=============================================================================
