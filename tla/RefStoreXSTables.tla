--------------------------- MODULE RefStoreXSTables ---------------------------
(***************************************************************************)
(* The five tables and the back-deletes agree.  TablesInv says what an     *)
(* entry of the one may count on of the others in every state, also in the *)
(* middle of a cascade of deaths; beside IInv it is inductive, and when    *)
(* nothing is left to do it is TablesAgree and HooksAgree.                 *)
(***************************************************************************)
EXTENDS RefStoreXSProofs

\* What each step is for, and what it does not touch.
LEMMA StepTouches ==
  ASSUME Step
  PROVE  /\ todo # <<>> /\ err = "none"
         /\ Top[1] \notin {"dec", "ka_end", "free"} => UNCHANGED life
         /\ Top[1] \notin {"dec", "ka_end", "slookup", "destroy_keys"} => UNCHANGED slookup
         /\ Top[1] \notin {"dec", "ka_end", "flookup", "destroy_keys"} => UNCHANGED flookup
         /\ Top[1] \notin {"dec", "ka_end", "attr_lookup"} => UNCHANGED attr_lookup
         /\ Top[1] \notin {"rlookup", "unvhash", "vhash_check", "destroy_values"} => UNCHANGED rlookup
         /\ Top[1] \notin {"dec", "ka_end", "free", "attrhash", "unhash"} => UNCHANGED attrhash
         /\ Top[1] \notin {"dec", "ka_end", "free", "k_encap_cleanup", "encap_attr_destroy_hook",
                           "attr_destroy_trigger"} => UNCHANGED obj
         /\ Top[1] \notin {"free", "vhash_check", "encap_destroy_hook", "k_encap_cleanup",
                           "attr_destroy_trigger", "unhash", "purge_end", "destroy_values"} =>
              UNCHANGED acts
<1> USE DEF Doing, Fault, Died, heap, tables, blobs
<1>1. CASE Dec
  BY <1>1 DEF Dec, Die
<1>2. CASE DecAll
  BY <1>2 DEF DecAll
<1>3. CASE RunAction
  BY <1>3 DEF RunAction
<1>4. CASE Freed
  BY <1>4 DEF Freed
<1>5. CASE DelSlookup
  BY <1>5 DEF DelSlookup
<1>6. CASE DelFlookup
  BY <1>6 DEF DelFlookup
<1>7. CASE DelRlookup
  BY <1>7 DEF DelRlookup
<1>8. CASE DelAttrhash
  BY <1>8 DEF DelAttrhash
<1>9. CASE DelFromVhash
  BY <1>9 DEF DelFromVhash
<1>10. CASE VhashCheck
  BY <1>10 DEF VhashCheck
<1>11. CASE EncapDestroyHook
  BY <1>11 DEF EncapDestroyHook
<1>12. CASE KEncapCleanup
  BY <1>12 DEF KEncapCleanup
<1>13. CASE EncapAttrDestroyHook
  BY <1>13 DEF EncapAttrDestroyHook
<1>14. CASE AttrDestroyTrigger
  BY <1>14 DEF AttrDestroyTrigger
<1>15. CASE DelAttrLookup
  BY <1>15 DEF DelAttrLookup
<1>16. CASE EachValue
  BY <1>16 DEF EachValue
<1>17. CASE DelFromAttrhash
  BY <1>17 DEF DelFromAttrhash
<1>18. CASE KaEnd
  BY <1>18 DEF KaEnd, Die
<1>19. CASE PurgeBegin
  BY <1>19 DEF PurgeBegin
<1>20. CASE Foreach
  BY <1>20 DEF Foreach
<1>21. CASE PurgeEnd
  BY <1>21 DEF PurgeEnd
<1>22. CASE DestroyAttrs
  BY <1>22 DEF DestroyAttrs
<1>23. CASE DestroyAttr
  BY <1>23 DEF DestroyAttr
<1>24. CASE PushValue
  BY <1>24 DEF PushValue
<1>25. CASE DestroyKeys
  BY <1>25 DEF DestroyKeys
<1>26. CASE DestroyValues
  BY <1>26 DEF DestroyValues
<1> QED BY <1>1, <1>2, <1>3, <1>4, <1>5, <1>6, <1>7, <1>8, <1>9, <1>10, <1>11, <1>12, <1>13, <1>14,
           <1>15, <1>16, <1>17, <1>18, <1>19, <1>20, <1>21, <1>22, <1>23, <1>24, <1>25, <1>26 DEF Step

\* A step does what is at the top.
LEMMA StepIs ==
  ASSUME Step
  PROVE  /\ Top[1] \in {"dec", "ka_end"} => Dec \/ KaEnd
         /\ Top[1] = "free" => RunAction \/ Freed
         /\ Top[1] = "slookup" => DelSlookup
         /\ Top[1] = "flookup" => DelFlookup
         /\ Top[1] = "rlookup" => DelRlookup
         /\ Top[1] = "attrhash" => DelAttrhash
         /\ Top[1] = "unvhash" => DelFromVhash
         /\ Top[1] = "vhash_check" => VhashCheck
         /\ Top[1] = "encap_destroy_hook" => EncapDestroyHook
         /\ Top[1] = "k_encap_cleanup" => KEncapCleanup
         /\ Top[1] = "encap_attr_destroy_hook" => EncapAttrDestroyHook
         /\ Top[1] = "attr_destroy_trigger" => AttrDestroyTrigger
         /\ Top[1] = "attr_lookup" => DelAttrLookup
         /\ Top[1] = "unhash" => DelFromAttrhash
         /\ Top[1] = "purge_end" => PurgeEnd
         /\ Top[1] = "destroy_keys" => DestroyKeys
         /\ Top[1] = "destroy_values" => DestroyValues
<1>1. /\ Dec => Top[1] = "dec" 
      /\ DecAll => Top[1] = "decall"
      /\ RunAction \/ Freed => Top[1] = "free"
      /\ DelSlookup => Top[1] = "slookup"
      /\ DelFlookup => Top[1] = "flookup"
      /\ DelRlookup => Top[1] = "rlookup"
      /\ DelAttrhash => Top[1] = "attrhash"
  BY DEF Dec, DecAll, RunAction, Freed, DelSlookup, DelFlookup, DelRlookup, DelAttrhash, Doing
<1>2. /\ DelFromVhash => Top[1] = "unvhash"
      /\ VhashCheck => Top[1] = "vhash_check"
      /\ EncapDestroyHook => Top[1] = "encap_destroy_hook"
      /\ KEncapCleanup => Top[1] = "k_encap_cleanup"
      /\ EncapAttrDestroyHook => Top[1] = "encap_attr_destroy_hook"
      /\ AttrDestroyTrigger => Top[1] = "attr_destroy_trigger"
      /\ DelAttrLookup => Top[1] = "attr_lookup"
      /\ EachValue => Top[1] = "values"
      /\ DelFromAttrhash => Top[1] = "unhash"
      /\ KaEnd => Top[1] = "ka_end"
  BY DEF DelFromVhash, VhashCheck, EncapDestroyHook, KEncapCleanup, EncapAttrDestroyHook,
     AttrDestroyTrigger, DelAttrLookup, EachValue, DelFromAttrhash, KaEnd, Doing
<1>3. /\ PurgeBegin => Top[1] = "purge"
      /\ Foreach => Top[1] = "foreach"
      /\ PurgeEnd => Top[1] = "purge_end"
      /\ DestroyAttrs => Top[1] = "destroy_attrs"
      /\ DestroyAttr => Top[1] = "destroy_attr"
      /\ PushValue => Top[1] = "push"
      /\ DestroyKeys => Top[1] = "destroy_keys"
      /\ DestroyValues => Top[1] = "destroy_values"
  BY DEF PurgeBegin, Foreach, PurgeEnd, DestroyAttrs, DestroyAttr, PushValue, DestroyKeys, DestroyValues,
     Doing
<1> QED BY <1>1, <1>2, <1>3 DEF Step

\* A weak reference to n is undef now that n is gone.
Cleaned(now, then, n) == then = "weak" /\ now = "undef" /\ life'[n] # "live"

LEMMA DieCleans ==
  ASSUME Shape, NEW n \in Node, Die(n)
  PROVE  /\ \A m \in Node : life'[m] = "live" => life[m] = "live"
         /\ \A k \in Key : slookup'[k] = slookup[k] \/ Cleaned(slookup'[k], slookup[k], k)
         /\ \A a \in Attr : attr_lookup'[a] = attr_lookup[a] \/ Cleaned(attr_lookup'[a], attr_lookup[a], a)
         /\ \A k \in Key : flookup'[k] = flookup[k]
              \/ (Undone(flookup'[k], flookup[k]) /\ life'[flookup[k].value] # "live")
         /\ \A i \in Index : obj'[i] = obj[i] \/ Cleaned(obj'[i], obj[i], TheObject(i))
         /\ \A a \in Attr, v \in Object :
              attrhash'[a][v] = attrhash[a][v] \/ Cleaned(attrhash'[a][v], attrhash[a][v], v)
<1>1. life' = [life EXCEPT ![n] = "dying"] /\ life \in [Node -> {"free", "live", "dying"}]
  BY DEF Die, Shape, DataShape, Typed
<1>2. life'[n] # "live" /\ \A m \in Node : life'[m] = "live" => life[m] = "live"
  BY <1>1
<1>3. \A mode : Cleared(mode) = mode \/ (mode = "weak" /\ Cleared(mode) = "undef")
  BY DEF Cleared
<1>4. \A k \in Key : slookup'[k] = slookup[k] \/ Cleaned(slookup'[k], slookup[k], k)
  BY <1>2, <1>3 DEF Die, Cleaned
<1>5. \A a \in Attr : attr_lookup'[a] = attr_lookup[a] \/ Cleaned(attr_lookup'[a], attr_lookup[a], a)
  BY <1>2, <1>3 DEF Die, Cleaned
<1>6. \A k \in Key : flookup'[k] = flookup[k]
              \/ (Undone(flookup'[k], flookup[k]) /\ life'[flookup[k].value] # "live")
  <2>1. \A k \in Key : flookup'[k] = flookup[k] \/ Undone(flookup'[k], flookup[k])
    BY FadesDie
  <2>2. \A k \in Key : flookup[k].value # n => flookup'[k] = flookup[k]
    BY DEF Die
  <2> QED BY <1>2, <2>1, <2>2
<1>7. \A i \in Index : obj'[i] = obj[i] \/ Cleaned(obj'[i], obj[i], TheObject(i))
  BY <1>2, <1>3 DEF Die, Cleaned
<1>8. \A a \in Attr, v \in Object :
        attrhash'[a][v] = attrhash[a][v] \/ Cleaned(attrhash'[a][v], attrhash[a][v], v)
  <2>1. \A a \in Attr, v \in Object : 
          attrhash'[a][v] = IF v = n THEN Cleared(attrhash[a][v]) ELSE attrhash[a][v]
    BY DEF Die
  <2> QED BY <1>2, <1>3, <2>1 DEF Cleaned
<1> QED BY <1>2, <1>4, <1>5, <1>6, <1>7, <1>8

LEMMA DeadlySteps ==
  ASSUME Shape, Step, Top[1] \in {"dec", "ka_end"}
  PROVE  \/ \E n \in Node : Die(n)
         \/ UNCHANGED <<life, slookup, flookup, attr_lookup, obj, attrhash>>
<1>1. Dec \/ KaEnd
  BY StepIs
<1>2. Top[2] \in Node
  BY <1>1, TopIs DEF Dec, KaEnd, Doing, Shape, TaskIs
<1> QED BY <1>1, <1>2 DEF Dec, KaEnd, Fault, heap, tables, blobs

\* What a step does to each entry: nothing, or the reference in it is cleared, or it is
\* the one the step deletes.
LEMMA StepEntries ==
  ASSUME Shape, Step
  PROVE  /\ \A n \in Node : life'[n] = "live" => life[n] = "live"
         /\ \A k \in Key : \/ slookup'[k] = slookup[k] \/ Cleaned(slookup'[k], slookup[k], k)
                           \/ slookup'[k] = "none" /\ (Top = <<"slookup", k>> \/ Top[1] = "destroy_keys")
         /\ \A k \in Key : \/ flookup'[k] = flookup[k]
                           \/ Undone(flookup'[k], flookup[k]) /\ life'[flookup[k].value] # "live"
                           \/ flookup'[k] = NoValue /\ (Top = <<"flookup", k>> \/ Top[1] = "destroy_keys")
         /\ \A a \in Attr : \/ attr_lookup'[a] = attr_lookup[a]
                            \/ Cleaned(attr_lookup'[a], attr_lookup[a], a)
                            \/ attr_lookup'[a] = "none" /\ Top = <<"attr_lookup", a>>
         /\ \A a \in Attr, v \in Object :
              \/ attrhash'[a][v] = attrhash[a][v] \/ Cleaned(attrhash'[a][v], attrhash[a][v], v)
              \/ attrhash'[a][v] = "none" /\ Top \in {<<"attrhash", a, v>>, <<"unhash", a, v>>, <<"free", a>>}
         /\ \A k \in Key : \/ obj'[k] = obj[k] \/ Cleaned(obj'[k], obj[k], TheObject(k))
                           \/ Top = <<"k_encap_cleanup", k>> \/ (Top = <<"free", k>> /\ Freed)
<1>1. DataShape /\ Typed /\ todo # <<>> /\ Top \in Task /\ TaskIs(Top)
  BY StepTouches, TopIs DEF Shape, DataShape
<1>2. Top[1] \in ActionKinds => Top \in Action
  BY <1>1 DEF TaskIs
<1>3. \A n \in Node : life'[n] = "live" => life[n] = "live"
  <2>1. CASE Top[1] = "free"
    <3>1. life' = life \/ \E m : life' = [life EXCEPT ![m] = "free"]
      BY <2>1, StepIs DEF RunAction, Freed
    <3> QED BY <1>1, <3>1 DEF Typed
  <2>2. CASE Top[1] \in {"dec", "ka_end"}
    BY <2>2, DeadlySteps, DieCleans
  <2> QED BY <2>1, <2>2, StepTouches
<1>4. \A k \in Key : \/ slookup'[k] = slookup[k] \/ Cleaned(slookup'[k], slookup[k], k)
                     \/ slookup'[k] = "none" /\ (Top = <<"slookup", k>> \/ Top[1] = "destroy_keys")
  <2>1. CASE Top[1] = "slookup"
    <3>1. Top = <<"slookup", Top[2]>> /\ slookup' = [slookup EXCEPT ![Top[2]] = "none"]
      BY <1>2, <2>1, StepIs, ActionIs DEF DelSlookup, ActionKinds
    <3> QED BY <1>1, <3>1 DEF Typed
  <2>2. CASE Top[1] \in {"dec", "ka_end"}
    BY <2>2, DeadlySteps, DieCleans
  <2>3. CASE Top[1] = "destroy_keys"
    <3>1. slookup' = slookup \/ slookup' = [k \in Key |-> "none"]
      BY <2>3, StepIs DEF DestroyKeys, Died, Fault, tables
    <3> QED BY <2>3, <3>1
  <2> QED BY <2>1, <2>2, <2>3, StepTouches
<1>5. \A k \in Key : \/ flookup'[k] = flookup[k]
                     \/ Undone(flookup'[k], flookup[k]) /\ life'[flookup[k].value] # "live"
                     \/ flookup'[k] = NoValue /\ (Top = <<"flookup", k>> \/ Top[1] = "destroy_keys")
  <2>1. CASE Top[1] = "flookup"
    <3>1. Top = <<"flookup", Top[2]>> /\ flookup' = [flookup EXCEPT ![Top[2]] = NoValue]
      BY <1>2, <2>1, StepIs, ActionIs DEF DelFlookup, ActionKinds
    <3> QED BY <1>1, <3>1 DEF Typed
  <2>2. CASE Top[1] \in {"dec", "ka_end"}
    BY <2>2, DeadlySteps, DieCleans
  <2>3. CASE Top[1] = "destroy_keys"
    <3>1. DestroyKeys => flookup' = flookup \/ \A k \in Key : flookup'[k] \in {flookup[k], NoValue}
      BY DEF DestroyKeys, Died, Fault, tables
    <3> QED BY <2>3, <3>1, StepIs
  <2> QED BY <2>1, <2>2, <2>3, StepTouches
<1>6. \A a \in Attr : \/ attr_lookup'[a] = attr_lookup[a]
                      \/ Cleaned(attr_lookup'[a], attr_lookup[a], a)
                      \/ attr_lookup'[a] = "none" /\ Top = <<"attr_lookup", a>>
  <2>1. CASE Top[1] = "attr_lookup"
    <3>1. Top = <<"attr_lookup", Top[2]>>
      BY <1>1, <2>1 DEF TaskIs
    <3>2. attr_lookup' = attr_lookup \/ attr_lookup' = [attr_lookup EXCEPT ![Top[2]] = "none"]
      BY <2>1, StepIs DEF DelAttrLookup, Fault, tables
    <3> QED BY <1>1, <3>1, <3>2 DEF Typed
  <2>2. CASE Top[1] \in {"dec", "ka_end"}
    BY <2>2, DeadlySteps, DieCleans
  <2> QED BY <2>1, <2>2, StepTouches
<1>7. \A a \in Attr, v \in Object :
              \/ attrhash'[a][v] = attrhash[a][v] \/ Cleaned(attrhash'[a][v], attrhash[a][v], v)
              \/ attrhash'[a][v] = "none" /\ Top \in {<<"attrhash", a, v>>, <<"unhash", a, v>>, <<"free", a>>}
  <2>1. CASE Top[1] \in {"attrhash", "unhash"}
    <3>1. Top = <<Top[1], Top[2], Top[3]>>
      BY <1>1, <1>2, <2>1, ActionIs DEF TaskIs, ActionKinds
    <3>2. attrhash' = attrhash \/ attrhash' = [attrhash EXCEPT ![Top[2]][Top[3]] = "none"]
      BY <2>1, StepIs DEF DelAttrhash, DelFromAttrhash, Fault, blobs
    <3>3. ASSUME NEW a \in Attr, NEW v \in Object
          PROVE  attrhash'[a][v] = attrhash[a][v] \/ (attrhash'[a][v] = "none" /\ a = Top[2] /\ v = Top[3])
      BY <1>1, <3>2 DEF Typed
    <3>4. Top = <<"attrhash", Top[2], Top[3]>> \/ Top = <<"unhash", Top[2], Top[3]>>
      BY <2>1, <3>1
    <3> QED BY <3>3, <3>4
  <2>2. CASE Top[1] \in {"dec", "ka_end"}
    BY <2>2, DeadlySteps, DieCleans
  <2>3. CASE Top[1] = "free"
    <3>1. Top = <<"free", Top[2]>>
      BY <1>1, <2>3 DEF TaskIs
    <3>2. attrhash' = attrhash
          \/ attrhash' = [a \in Attr |-> IF a = Top[2] THEN [v \in Object |-> "none"] ELSE attrhash[a]]
      BY <2>3, StepIs DEF RunAction, Freed, blobs
    <3> QED BY <3>1, <3>2
  <2> QED BY <2>1, <2>2, <2>3, StepTouches
<1>8. \A k \in Key : \/ obj'[k] = obj[k] \/ Cleaned(obj'[k], obj[k], TheObject(k))
                     \/ Top = <<"k_encap_cleanup", k>> \/ (Top = <<"free", k>> /\ Freed)
  <2>1. CASE Top[1] \in {"k_encap_cleanup", "encap_attr_destroy_hook", "attr_destroy_trigger"}
    <3>1. /\ Top = <<Top[1], Top[2]>>
          /\ Top[1] # "k_encap_cleanup" => Top[2] \in Attr
      BY <1>1, <1>2, <2>1, ActionIs DEF ActionKinds
    <3>2. obj' = obj \/ \E e : obj' = [obj EXCEPT ![Top[2]] = e]
      BY <2>1, StepIs DEF KEncapCleanup, EncapAttrDestroyHook, AttrDestroyTrigger, Fault, blobs
    <3>3. \A i \in Index : i # Top[2] => obj'[i] = obj[i]
      BY <1>1, <3>2 DEF Typed
    <3> QED BY <2>1, <3>1, <3>3, Apartness
  <2>2. CASE Top[1] \in {"dec", "ka_end"}
    BY <2>2, DeadlySteps, DieCleans, Apartness
  <2>3. CASE Top[1] = "free"
    <3>1. Top = <<"free", Top[2]>>
      BY <1>1, <2>3 DEF TaskIs
    <3>2. CASE RunAction
      BY <3>2 DEF RunAction, blobs
    <3>3. CASE Freed
      <4>1. \A i \in Index : i # Top[2] => obj'[i] = obj[i]
        BY <3>3 DEF Freed
      <4> QED BY <3>1, <3>3, <4>1, Apartness
    <3> QED BY <2>3, <3>2, <3>3, StepIs
  <2> QED BY <2>1, <2>2, <2>3, StepTouches
<1> QED BY <1>3, <1>4, <1>5, <1>6, <1>7, <1>8

-----------------------------------------------------------------------------
LEMMA UnderStep ==
  ASSUME Shape, Step
  PROVE  /\ \A v \in Object : Under(v)' \subseteq Under(v)
         /\ \A v \in Object : rlookup'[v] # Null => rlookup[v] # Null
         /\ \A v \in Object : rlookup'[v] = {} => rlookup[v] = {} \/ (Top[1] = "unvhash" /\ Top[3] = v)
         /\ \A i, v : v \in Object /\ Top = <<"unvhash", i, v>> => i \notin Under(v)'
<1>1. Typed /\ todo # <<>> /\ Top \in Task /\ TaskIs(Top)
  BY StepTouches, TopIs DEF Shape, DataShape
<1>2. ASSUME Top[1] # "unvhash", \A v \in Object : rlookup'[v] = rlookup[v] \/ rlookup'[v] = Null
      PROVE  /\ \A v \in Object : Under(v)' \subseteq Under(v)
             /\ \A v \in Object : rlookup'[v] # Null => rlookup[v] # Null
             /\ \A v \in Object : rlookup'[v] = {} => rlookup[v] = {}
             /\ \A i, v : Top # <<"unvhash", i, v>>
  <2>1. ASSUME NEW v \in Object
        PROVE  /\ Under(v)' \subseteq Under(v)
               /\ rlookup'[v] # Null => rlookup[v] # Null
               /\ rlookup'[v] = {} => rlookup[v] = {}
    BY <1>2, Apartness DEF Under
  <2> QED BY <1>2, <2>1
<1>3. CASE Top[1] = "unvhash"
  <2>1. PICK i, u : Top = <<"unvhash", i, u>> /\ u \in Object
    BY <1>1, <1>3 DEF TaskIs
  <2>2. \/ rlookup[u] = Null /\ rlookup' = rlookup
        \/ rlookup[u] # Null /\ rlookup' = [rlookup EXCEPT ![u] = @ \ {i}]
    BY <1>3, <2>1, StepIs DEF DelFromVhash
  <2>3. ASSUME NEW v \in Object, v # u
        PROVE  Under(v)' = Under(v) /\ rlookup'[v] = rlookup[v]
    BY <1>1, <2>1, <2>2, <2>3 DEF Typed, Under
  <2>4. \/ rlookup[u] = Null /\ rlookup'[u] = Null
        \/ rlookup[u] # Null /\ rlookup'[u] = rlookup[u] \ {i}
    BY <1>1, <2>1, <2>2 DEF Typed
  <2>5. rlookup[u] # Null => rlookup'[u] # Null /\ rlookup[u] \in SUBSET Index
    BY <1>1, <2>1, <2>4, Apartness DEF Typed
  <2>6. Under(u)' \subseteq Under(u) /\ i \notin Under(u)' /\ (rlookup'[u] # Null => rlookup[u] # Null)
    BY <2>4, <2>5 DEF Under
  <2>7. \A j, v : v \in Object /\ Top = <<"unvhash", j, v>> => j = i /\ v = u
    BY <2>1
  <2>8. Top[3] = u
    BY <2>1
  <2> QED BY <1>3, <2>3, <2>6, <2>7, <2>8
<1>4. CASE Top[1] = "rlookup"
  <2>1. rlookup' = [rlookup EXCEPT ![Top[2]] = Null]
    BY <1>4, StepIs DEF DelRlookup
  <2>2. \A v \in Object : rlookup'[v] = rlookup[v] \/ rlookup'[v] = Null
    BY <1>1, <2>1 DEF Typed
  <2> QED BY <1>2, <1>4, <2>2
<1>5. CASE Top[1] = "vhash_check"
  <2>1. rlookup' = rlookup \/ rlookup' = [rlookup EXCEPT ![Top[2]] = Null]
    BY <1>5, StepIs DEF VhashCheck
  <2>2. \A v \in Object : rlookup'[v] = rlookup[v] \/ rlookup'[v] = Null
    BY <1>1, <2>1 DEF Typed
  <2> QED BY <1>2, <1>5, <2>2
<1>6. CASE Top[1] = "destroy_values"
  <2>1. rlookup' = rlookup \/ \E u : rlookup' = [rlookup EXCEPT ![u] = Null]
    BY <1>6, StepIs DEF DestroyValues
  <2>2. \A v \in Object : rlookup'[v] = rlookup[v] \/ rlookup'[v] = Null
    BY <1>1, <2>1 DEF Typed
  <2> QED BY <1>2, <1>6, <2>2
<1>7. CASE Top[1] \notin {"unvhash", "rlookup", "vhash_check", "destroy_values"}
  BY <1>2, <1>7, StepTouches
<1> QED BY <1>3, <1>4, <1>5, <1>6, <1>7

\* A vhash goes by its own action, or the action goes with it.
LEMMA VhashGone ==
  ASSUME Shape, Step, NEW v \in Object, rlookup[v] # Null, rlookup'[v] = Null
  PROVE  Top = <<"rlookup", v>> \/ <<"rlookup", v>> \notin ToSet(acts'[v])
<1>1. Typed /\ todo # <<>> /\ Top \in Task /\ TaskIs(Top) /\ v \in Node
  BY StepTouches, TopIs, Apartness DEF Shape, DataShape
<1>2. acts \in [Node -> Seq(Action)]
  BY <1>1 DEF Typed
<1>3. CASE Top[1] = "rlookup"
  <2>1. Top = <<"rlookup", Top[2]>> /\ rlookup' = [rlookup EXCEPT ![Top[2]] = Null]
    BY <1>1, <1>3, StepIs, ActionIs DEF DelRlookup, TaskIs, ActionKinds
  <2> QED BY <1>1, <2>1 DEF Typed
<1>4. CASE Top[1] = "vhash_check"
  <2> DEFINE u == Top[2]
  <2>1. \/ rlookup' = rlookup
        \/ rlookup' = [rlookup EXCEPT ![u] = Null] /\ acts' = WithoutKind(acts, u, "rlookup")
    BY <1>4, StepIs DEF VhashCheck
  <2> HIDE DEF u
  <2>2. v = u /\ acts' = WithoutKind(acts, v, "rlookup")
    BY <1>1, <2>1 DEF Typed
  <2> QED BY <1>1, <1>2, <2>2, WithoutKindProps
<1>5. CASE Top[1] = "destroy_values"
  <2>1. \/ rlookup' = rlookup
        \/ \E u : rlookup' = [rlookup EXCEPT ![u] = Null] /\ acts' = Without(acts, u, <<"rlookup", u>>)
    BY <1>5, StepIs DEF DestroyValues
  <2> DEFINE t == <<"rlookup", v>>
  <2>2. acts' = Without(acts, v, t)
    BY <1>1, <2>1 DEF Typed
  <2> HIDE DEF t
  <2>3. ToSet(Without(acts, v, t)[v]) = ToSet(acts[v]) \ {t}
    BY <1>1, <1>2, WithoutProps
  <2>4. t \notin ToSet(acts'[v])
    BY <2>2, <2>3
  <2> QED BY <2>4 DEF t
<1>6. CASE Top[1] = "unvhash"
  <2>1. rlookup' = rlookup \/ rlookup' = [rlookup EXCEPT ![Top[3]] = @ \ {Top[2]}]
    BY <1>6, StepIs DEF DelFromVhash
  <2>2. rlookup[v] \in SUBSET Index
    BY <1>1 DEF Typed
  <2>3. rlookup'[v] \in SUBSET Index
    BY <1>1, <2>1, <2>2 DEF Typed
  <2> QED BY <2>3, Apartness
<1> QED BY <1>3, <1>4, <1>5, <1>6, StepTouches

-----------------------------------------------------------------------------
(* The actions on an object that the tables need.                           *)

LEMMA ObjectHookStep ==
  ASSUME Shape, Step, NEW o \in Object
  PROVE  /\ \A a \in Attr : <<"attrhash", a, o>> \in ToSet(acts[o]) =>
              \/ <<"attrhash", a, o>> \in ToSet(acts'[o])
              \/ <<"attrhash", a, o>> \in ToSet(todo') \/ Top = <<"unhash", a, o>>
         /\ \A k : <<"encap_destroy_hook", k>> \in ToSet(acts[o]) =>
              \/ <<"encap_destroy_hook", k>> \in ToSet(acts'[o])
              \/ <<"encap_destroy_hook", k>> \in ToSet(todo') \/ Top = <<"k_encap_cleanup", k>>
         /\ \A a : Hook(a) \in ToSet(acts[o]) =>
              \/ Hook(a) \in ToSet(acts'[o])
              \/ Hook(a) \in ToSet(todo') \/ \E b \in Attr : Top = Trigger(b) /\ TheObject(b) = o
<1>1. Typed /\ todo # <<>> /\ Top \in Task /\ TaskIs(Top) /\ o \in Node
  BY StepTouches, TopIs, Apartness DEF Shape, DataShape
<1>2. acts \in [Node -> Seq(Action)]
  BY <1>1 DEF Typed
<1>3. CASE ToSet(acts[o]) \subseteq ToSet(acts'[o])
  BY <1>3
<1>4. CASE Top[1] = "free"
  <2>1. CASE RunAction
    <3>1. \A b : b \in ToSet(acts[o]) => b \in ToSet(acts'[o]) \/ b = Head(acts[Top[2]])
      BY <1>1, <2>1, FewerRunAction
    <3>2. Head(acts[Top[2]]) \in ToSet(todo')
      BY <2>1, RunTodo
    <3> QED BY <3>1, <3>2
  <2>2. CASE Freed
    BY <1>3, <2>2, ActsQuiet
  <2> QED BY <1>4, <2>1, <2>2, StepIs
<1>5. ASSUME NEW kind, kind \notin {"attrhash", "encap_destroy_hook", "encap_attr_destroy_hook"}, Spares({kind})
      PROVE  \A t : t \in ToSet(acts[o]) /\ t[1] # kind => t \in ToSet(acts'[o])
  BY <1>1, <1>5 DEF Spares
<1>6. CASE Top[1] \in {"vhash_check", "purge_end", "destroy_values", "encap_destroy_hook"}
  <2>1. Spares({"rlookup"}) \/ Spares({"k_encap_cleanup"})
    BY <1>6, StepIs, FewerVhashCheck, FewerPurgeEnd, FewerDestroyValues, FewerEncapDestroyHook
  <2>2. \A t : t \in ToSet(acts[o]) /\ t[1] # "rlookup" /\ t[1] # "k_encap_cleanup" => t \in ToSet(acts'[o])
    BY <1>5, <2>1
  <2> QED BY <2>2 DEF Hook
<1>7. CASE Top[1] = "k_encap_cleanup"
  <2>1. Top = <<"k_encap_cleanup", Top[2]>> /\ KEncapCleanup
    BY <1>1, <1>7, StepIs, ActionIs DEF TaskIs, ActionKinds
  <2>2. acts' = acts \/ \E n : acts' = Without(acts, n, <<"encap_destroy_hook", Top[2]>>)
    BY <2>1 DEF KEncapCleanup, Fault, heap
  <2>3. \A n : n \notin Node => \A t : Without(acts, n, t) = acts
    BY <1>2 DEF Without
  <2>4. \A t : t \in ToSet(acts[o]) /\ t # <<"encap_destroy_hook", Top[2]>> => t \in ToSet(acts'[o])
    BY <1>1, <1>2, <2>2, <2>3, SparesProps
  <2>5. \A k : <<"encap_destroy_hook", k>> = <<"encap_destroy_hook", Top[2]>> => Top = <<"k_encap_cleanup", k>>
    BY <2>1
  <2>6. \A a : Hook(a) # <<"encap_destroy_hook", Top[2]>> /\ <<"attrhash", a, o>> # <<"encap_destroy_hook", Top[2]>>
    BY DEF Hook
  <2> QED BY <2>4, <2>5, <2>6
<1>8. CASE Top[1] = "unhash"
  <2>1. Top = <<"unhash", Top[2], Top[3]>> /\ DelFromAttrhash /\ Top[3] \in Node
    BY <1>1, <1>8, StepIs, Apartness DEF TaskIs
  <2>2. acts' = Without(acts, Top[3], <<"attrhash", Top[2], Top[3]>>)
    BY <2>1 DEF DelFromAttrhash
  <2>4. \A t : t \in ToSet(acts[o]) /\ t # <<"attrhash", Top[2], Top[3]>> => t \in ToSet(acts'[o])
    BY <1>1, <1>2, <2>1, <2>2, SparesProps
  <2>5. \A a : <<"attrhash", a, o>> = <<"attrhash", Top[2], Top[3]>> => Top = <<"unhash", a, o>>
    BY <2>1
  <2>6. \A a : Hook(a) # <<"attrhash", Top[2], Top[3]>> /\ <<"encap_destroy_hook", a>> # <<"attrhash", Top[2], Top[3]>>
    BY DEF Hook
  <2> QED BY <2>4, <2>5, <2>6
<1>9. CASE Top[1] = "attr_destroy_trigger"
  <2> DEFINE b == Top[2]
  <2>1. Top = Trigger(b) /\ b \in Attr /\ AttrDestroyTrigger
    BY <1>1, <1>9, StepIs, ActionIs DEF TaskIs, ActionKinds, Trigger
  <2>2. \A t : t \in ToSet(acts[o]) /\ t[1] \notin {"attr_destroy_trigger", "encap_attr_destroy_hook"} =>
          t \in ToSet(acts'[o])
    BY <1>1, <2>1, FewerAttrDestroyTrigger DEF Spares
  <2>3. TheObject(b) # o => acts'[o] = acts[o]
    <3> DEFINE own == WithoutKind(acts, b, "attr_destroy_trigger")
    <3>1. \/ acts' = acts \/ acts' = own
          \/ obj_paddr[b] /\ acts' = WithoutKind(own, TheObject(b), "encap_attr_destroy_hook")
      BY <2>1 DEF AttrDestroyTrigger, Fault, heap
    <3>2. b \in Node /\ b # o /\ (obj_paddr[b] => TheObject(b) \in Node)
      BY <2>1, Apartness DEF Shape, DataShape, EntriesTyped
    <3>3. own \in [Node -> Seq(Action)] /\ own[o] = acts[o]
      BY <1>1, <1>2, <3>2, WithoutKindProps
    <3> HIDE DEF own
    <3> QED BY <1>1, <3>1, <3>2, <3>3, WithoutKindProps
  <2> HIDE DEF b
  <2>4. \A a : <<"attrhash", a, o>>[1] = "attrhash" /\ <<"encap_destroy_hook", a>>[1] = "encap_destroy_hook"
    OBVIOUS
  <2>5. \A a : /\ <<"attrhash", a, o>> \in ToSet(acts[o]) => <<"attrhash", a, o>> \in ToSet(acts'[o])
               /\ <<"encap_destroy_hook", a>> \in ToSet(acts[o]) => <<"encap_destroy_hook", a>> \in ToSet(acts'[o])
    BY <2>2, <2>4
  <2> QED BY <2>1, <2>3, <2>5
<1> QED BY <1>3, <1>4, <1>6, <1>7, <1>8, <1>9, StepTouches

-----------------------------------------------------------------------------
(* What is pushed on what waits.                                            *)

\* The kinds of task that take an entry out of a table of the whole.
EntryKinds == {"slookup", "flookup", "rlookup"}

LEMMA EntryOne ==
  /\ Lacks(<<>>, EntryKinds)
  /\ \A x : x[1] \notin EntryKinds => Lacks(<<x>>, EntryKinds)
  /\ \A x, y : x[1] \notin EntryKinds /\ y[1] \notin EntryKinds => Lacks(<<x, y>>, EntryKinds)
  /\ \A x, y, z : x[1] \notin EntryKinds /\ y[1] \notin EntryKinds /\ z[1] \notin EntryKinds =>
       Lacks(<<x, y, z>>, EntryKinds)
BY LacksOne

LEMMA EntryConcat ==
  ASSUME NEW s, Lacks(s, EntryKinds), NEW t, Lacks(t, EntryKinds)
  PROVE  Lacks(s \o t, EntryKinds)
BY LacksConcat

LEMMA EntryIf ==
  /\ \A mode, n : Lacks(DecIf(mode, n), EntryKinds)
  /\ \A b, s, t : Lacks(s, EntryKinds) /\ Lacks(t, EntryKinds) => Lacks(IF b THEN s ELSE t, EntryKinds)
<1>1. ASSUME NEW mode, NEW n PROVE Lacks(DecIf(mode, n), EntryKinds)
  <2> DEFINE x == <<"dec", n>>
  <2>1. Lacks(<<x>>, EntryKinds) /\ Lacks(<<>>, EntryKinds)
    BY EntryOne DEF EntryKinds
  <2> QED BY <2>1 DEF DecIf
<1> QED BY <1>1

\* The others are pushed, before what is there, and instead of the top of it or not.
Pushes(K) == \E s : Lacks(s, K) /\ (Then(s) \/ todo' = s \o todo)

LEMMA StepPushes ==
  ASSUME Step, ~ RunAction, ~ KEncapCleanup, ~ PurgeEnd
  PROVE  Pushes(EntryKinds) \/ (\E what : Fault(what))
<1> USE EntryOne, EntryConcat, EntryIf DEF EntryKinds
<1>1. CASE DecAll
  BY <1>1 DEF DecAll, Pushes
<1>2. CASE DelSlookup
  BY <1>2 DEF DelSlookup, Pushes
<1>3. CASE DelFlookup
  BY <1>3 DEF DelFlookup, Pushes
<1>4. CASE DelRlookup
  BY <1>4 DEF DelRlookup, Pushes
<1>5. CASE DelAttrhash
  BY <1>5 DEF DelAttrhash, Pushes
<1>6. CASE DelFromVhash
  BY <1>6 DEF DelFromVhash, Pushes
<1>7. CASE VhashCheck
  BY <1>7 DEF VhashCheck, Pushes
<1>8. CASE EncapDestroyHook
  BY <1>8 DEF EncapDestroyHook, Pushes
<1>10. CASE EncapAttrDestroyHook
  BY <1>10 DEF EncapAttrDestroyHook, Pushes
<1>11. CASE AttrDestroyTrigger
  BY <1>11 DEF AttrDestroyTrigger, Pushes
<1>12. CASE DelAttrLookup
  BY <1>12 DEF DelAttrLookup, Pushes
<1>13. CASE DelFromAttrhash
  BY <1>13 DEF DelFromAttrhash, Pushes
<1>14. CASE PurgeBegin
  BY <1>14 DEF PurgeBegin, Pushes
<1>15. CASE Foreach
  BY <1>15 DEF Foreach, Pushes
<1>17. CASE DestroyAttrs
  BY <1>17 DEF DestroyAttrs, Died, Pushes
<1>18. CASE DestroyAttr
  BY <1>18 DEF DestroyAttr, Died, Pushes
<1>19. CASE PushValue
  BY <1>19 DEF PushValue, Died, Pushes
<1>20. CASE DestroyKeys
  BY <1>20 DEF DestroyKeys, Died, Pushes
<1>21. CASE DestroyValues
  BY <1>21 DEF DestroyValues, Pushes
<1>22. CASE Dec
  BY <1>22 DEF Dec, Die, Pushes
<1>23. CASE Freed
  BY <1>23 DEF Freed, Pushes
<1>24. CASE KaEnd
  BY <1>24 DEF KaEnd, Die, Pushes
<1>25. CASE EachValue
  BY <1>25 DEF EachValue, Pushes
<1> QED BY <1>1, <1>2, <1>3, <1>4, <1>5, <1>6, <1>7, <1>8, <1>10, <1>11, <1>12, <1>13, <1>14, <1>15, <1>17,
           <1>18, <1>19, <1>20, <1>21, <1>22, <1>23, <1>24, <1>25 DEF Step

\* What is pushed on q, with nothing of U in it before it has something of W, keeps W before U.
LEMMA AheadOn ==
  ASSUME Shape, todo # <<>>, NEW U, NEW W, Ahead(todo, U, W),
         NEW s, Len(s) \in Nat, Ahead(s, U, W),
         \/ Then(s) /\ (Top \notin W \/ \E i \in 1..Len(s) : s[i] \in W)
         \/ todo' = s \o todo
  PROVE  Ahead(todo', U, W)
<1>1. todo \in Seq(Task)
  BY DEF Shape, TodoShape
<1>2. CASE todo' = s \o todo
  BY <1>1, <1>2, AheadConcat
<1>3. CASE Then(s) /\ (Top \notin W \/ \E i \in 1..Len(s) : s[i] \in W)
  <2>1. Tail(todo) \in Seq(Task) /\ (Top \in W \/ Ahead(Tail(todo), U, W))
    BY <1>1, AheadSplit, Split DEF Top
  <2> DEFINE q == Tail(todo)
  <2>2. Len(q) \in Nat
    BY <2>1
  <2>3. todo' = s \o q
    BY <1>3 DEF Then
  <2> HIDE DEF q
  <2>4. (\E i \in 1..Len(s) : s[i] \in W) \/ Ahead(q, U, W)
    BY <1>3, <2>1 DEF q
  <2> QED BY <2>2, <2>3, <2>4, AheadConcat
<1> QED BY <1>2, <1>3

LEMMA LacksClear ==
  ASSUME NEW K, NEW s, Lacks(s, K), NEW U, \A u \in U : u[1] \in K
  PROVE  Len(s) \in Nat /\ \A W : Ahead(s, U, W)
<1>1. Clear(s, U)
  BY DEF Lacks, Clear
<1> QED BY <1>1, ClearAhead

\* Nothing of these kinds is pushed.
LEMMA PushedLacks ==
  ASSUME Shape, todo # <<>>, NEW K, Pushes(K)
  PROVE  \A t \in ToSet(todo') : t[1] \in K => t \in ToSet(todo)
<1>1. PICK s : Lacks(s, K) /\ (Then(s) \/ todo' = s \o todo)
  BY DEF Pushes
<1>2. todo \in Seq(Task) /\ Tail(todo) \in Seq(Task) /\ ToSet(Tail(todo)) \subseteq ToSet(todo)
  BY TopIs DEF Shape, TodoShape
<1>3. PICK q \in Seq(Task) : todo' = s \o q /\ ToSet(q) \subseteq ToSet(todo)
  BY <1>1, <1>2 DEF Then
<1> DEFINE r == s \o q
<1>4. /\ Len(r) = Len(s) + Len(q) /\ Len(s) \in Nat /\ Len(q) \in Nat
      /\ DOMAIN r = 1..Len(r) /\ DOMAIN q = 1..Len(q)
      /\ \A p \in 1..Len(r) : r[p] = IF p <= Len(s) THEN s[p] ELSE q[p - Len(s)]
  BY <1>1, <1>3 DEF Lacks
<1> HIDE DEF r
<1>5. \A p \in 1..Len(r) : IF p <= Len(s) THEN p \in 1..Len(s) ELSE p - Len(s) \in 1..Len(q)
  BY <1>4
<1>6. \A p \in 1..Len(r) : r[p][1] \in K => r[p] \in ToSet(q)
  BY <1>1, <1>4, <1>5 DEF Lacks, ToSet
<1>7. todo' = r
  BY <1>3 DEF r
<1>8. ToSet(todo') = {r[p] : p \in 1..Len(r)}
  BY <1>4, <1>7 DEF ToSet
<1> QED BY <1>3, <1>6, <1>8

LEMMA TableSet ==
  ASSUME NEW k \in Key
  PROVE  \/ flookup[k].mode = "none" /\ FromTable(k) = <<>>
         \/ /\ flookup[k].mode = "undef"
            /\ FromTable(k) = <<<<"slookup", k>>, <<"flookup", k>>>>
         \/ /\ flookup[k].mode \notin {"none", "undef"}
            /\ FromTable(k) = <<<<"unvhash", k, flookup[k].value>>, <<"slookup", k>>, <<"flookup", k>>>>
BY DEF FromTable

\* What k_encap_cleanup sets off: the vhash first, then scalar_lookup, then forward.
LEMMA CleanupPushes ==
  ASSUME Shape, KEncapCleanup, NEW k \in Key, Top = <<"k_encap_cleanup", k>>, ~ \E what : Fault(what)
  PROVE  /\ flookup[k].mode # "none" =>
              <<"slookup", k>> \in ToSet(todo') /\ <<"flookup", k>> \in ToSet(todo')
         /\ flookup[k].mode \in Ref => <<"unvhash", k, flookup[k].value>> \in ToSet(todo')
         /\ obj[k] \in Ref =>
              acts' = Without(acts, TheObject(k), <<"encap_destroy_hook", k>>)
         /\ Ahead(todo, {<<"flookup", k>>}, {<<"slookup", k>>}) =>
              Ahead(todo', {<<"flookup", k>>}, {<<"slookup", k>>})
         /\ \A v : /\ flookup[k].mode \in Ref /\ flookup[k].value = v
                   /\ Ahead(todo, {<<"slookup", k>>, <<"flookup", k>>}, {<<"unvhash", k, v>>})
                   => Ahead(todo', {<<"slookup", k>>, <<"flookup", k>>}, {<<"unvhash", k, v>>})
<1> DEFINE u == flookup[k].value
           o == TheObject(k)
           x == <<"unvhash", k, u>>
           y == <<"slookup", k>>
           z == <<"flookup", k>>
           d == DecIf(obj[k], o)
           q == FromTable(k)
<1>1. todo # <<>> /\ todo \in Seq(Task) /\ Tail(todo) \in Seq(Task) /\ Top[2] = k
  BY TopIs DEF KEncapCleanup, Doing, Shape, TodoShape
<1>2. /\ Then(q \o d)
      /\ obj[k] \in Ref => acts' = Without(acts, o, <<"encap_destroy_hook", k>>)
  BY <1>1 DEF KEncapCleanup
<1>3. d = <<>> \/ d = <<<<"dec", o>>>>
  BY DEF DecIf
<1>4. /\ x[1] = "unvhash" /\ y[1] = "slookup" /\ z[1] = "flookup" /\ x # y /\ x # z /\ y # z
      /\ <<"dec", o>> \notin {x, y, z} /\ Top \notin {x, y, z}
  OBVIOUS
<1>5. \/ flookup[k].mode = "none" /\ q = <<>>
      \/ flookup[k].mode = "undef" /\ q = <<y, z>>
      \/ flookup[k].mode \notin {"none", "undef"} /\ q = <<x, y, z>>
  BY TableSet
<1>6. Len(d) \in Nat /\ DOMAIN d = 1..Len(d) /\ \A i \in 1..Len(d) : d[i] \notin {x, y, z}
  BY <1>3, <1>4
<1>7. \A v : <<"unvhash", k, v>> = x <=> v = u
  OBVIOUS
<1>8. "none" \notin Ref /\ "undef" \notin Ref
  BY DEF Ref
<1> HIDE DEF x, y, z, d, q
<1>9. /\ Len(q) \in Nat /\ DOMAIN q = 1..Len(q)
      /\ flookup[k].mode # "none" => \E i, j \in 1..Len(q) : q[i] = y /\ q[j] = z
      /\ flookup[k].mode \in Ref => \E i \in 1..Len(q) : q[i] = x
      /\ Ahead(q, {z}, {y})
      /\ flookup[k].mode \in Ref => Ahead(q, {y, z}, {x})
  <2>1. CASE q = <<>>
    BY <1>5, <1>8, <2>1 DEF Ahead
  <2>2. CASE q = <<y, z>>
    <3>1. Len(q) = 2 /\ q[1] = y /\ q[2] = z /\ DOMAIN q = 1..2
      BY <2>2
    <3>2. Ahead(q, {z}, {y})
      <4>1. \A p \in 1..2 : q[p] = z => 1 \in 1..(p - 1)
        BY <1>4, <3>1
      <4> QED BY <3>1, <4>1 DEF Ahead
    <3>3. flookup[k].mode = "undef"
      BY <1>5, <2>2
    <3> QED BY <1>8, <3>1, <3>2, <3>3
  <2>3. CASE q = <<x, y, z>>
    <3>1. Len(q) = 3 /\ q[1] = x /\ q[2] = y /\ q[3] = z /\ DOMAIN q = 1..3
      BY <2>3
    <3>2. Ahead(q, {z}, {y})
      <4>1. \A p \in 1..3 : q[p] = z => 2 \in 1..(p - 1)
        BY <1>4, <3>1
      <4> QED BY <3>1, <4>1 DEF Ahead
    <3>3. Ahead(q, {y, z}, {x})
      <4>1. \A p \in 1..3 : q[p] \in {y, z} => 1 \in 1..(p - 1)
        BY <1>4, <3>1
      <4> QED BY <3>1, <4>1 DEF Ahead
    <3> QED BY <3>1, <3>2, <3>3
  <2> QED BY <1>5, <2>1, <2>2, <2>3
<1>10. \A U, W : U \subseteq {x, y, z} => Ahead(d, U, W)
  BY <1>6 DEF Ahead
<1> DEFINE s == q \o d
           r == s \o Tail(todo)
<1>11. todo' = r /\ Then(s)
  BY <1>2 DEF Then
<1>12. /\ Len(s) \in Nat /\ Ahead(s, {z}, {y}) /\ (flookup[k].mode \in Ref => Ahead(s, {y, z}, {x}))
  BY <1>6, <1>9, <1>10, AheadMore
<1>13. \A i \in 1..Len(q) : s[i] = q[i] /\ i \in 1..Len(s)
  BY <1>6, <1>9
<1>14. \A i \in 1..Len(s) : r[i] = s[i] /\ i \in DOMAIN r
  <2>1. Len(Tail(todo)) \in Nat
    BY <1>1
  <2> HIDE DEF s
  <2> QED BY <1>12, <2>1
<1> HIDE DEF s, r
<1>15. \A i \in 1..Len(q) : q[i] \in ToSet(todo')
  BY <1>11, <1>13, <1>14 DEF ToSet
<1>16. Ahead(todo, {z}, {y}) => Ahead(todo', {z}, {y})
  BY <1>1, <1>4, <1>11, <1>12, AheadOn
<1>17. flookup[k].mode \in Ref /\ Ahead(todo, {y, z}, {x}) => Ahead(todo', {y, z}, {x})
  BY <1>1, <1>4, <1>11, <1>12, AheadOn
<1>18. \A v : flookup[k].value = v => x = <<"unvhash", k, v>>
  BY DEF x
<1> QED BY <1>2, <1>9, <1>15, <1>16, <1>17, <1>18 DEF x, y, z

\* A key's entries stay in their order as long as nothing but its own actions, or what
\* cleans up an object's key, takes them out.
LEMMA EntryAhead ==
  ASSUME Shape, Step, NEW k \in Key, NEW U, U \subseteq {<<"slookup", k>>, <<"flookup", k>>},
         NEW W, Ahead(todo, U, W), Top \notin W,
         RunAction => Head(acts[Top[2]]) \notin U,
         Top # <<"k_encap_cleanup", k>>
  PROVE  Ahead(todo', U, W)
<1>1. todo # <<>> /\ Top \in Task /\ TaskIs(Top) /\ todo \in Seq(Task)
  BY StepTodo, TopIs DEF Shape, TodoShape
<1>2. \A u \in U : u[1] \in EntryKinds
  BY DEF EntryKinds
<1>3. CASE \E what : Fault(what)
  BY <1>3 DEF Fault
<1>4. CASE RunAction
  <2> DEFINE x == Head(acts[Top[2]])
  <2>1. x \notin U /\ todo' = <<x>> \o todo
    BY <1>4 DEF RunAction
  <2> HIDE DEF x
  <2>2. Len(<<x>>) = 1 /\ Ahead(<<x>>, U, W)
    BY <2>1, OneAhead
  <2> QED BY <1>1, <2>1, <2>2, AheadOn
<1>5. CASE KEncapCleanup /\ ~ \E what : Fault(what)
  <2> DEFINE j == Top[2]
             s == FromTable(j) \o DecIf(obj[j], TheObject(j))
  <2>1. Then(s) /\ Top = <<"k_encap_cleanup", j>> /\ j \in Key /\ j # k
    BY <1>1, <1>5, ActionIs DEF KEncapCleanup, Doing, TaskIs, ActionKinds
  <2>2. Clear(FromTable(j), U)
    <3> DEFINE x == <<"unvhash", j, flookup[j].value>>
               y == <<"slookup", j>>
               z == <<"flookup", j>>
    <3>1. x \notin U /\ y \notin U /\ z \notin U
      BY <2>1
    <3>2. FromTable(j) \in {<<>>, <<y, z>>, <<x, y, z>>}
      BY DEF FromTable
    <3> HIDE DEF x, y, z
    <3> QED BY <3>1, <3>2, ClearOne
  <2>3. Clear(DecIf(obj[j], TheObject(j)), U)
    <3> DEFINE x == <<"dec", TheObject(j)>>
    <3>1. x \notin U
      OBVIOUS
    <3>2. DecIf(obj[j], TheObject(j)) \in {<<>>, <<x>>}
      BY DEF DecIf
    <3> HIDE DEF x
    <3> QED BY <3>1, <3>2, ClearOne
  <2>4. Clear(s, U)
    BY <2>2, <2>3, ClearConcat
  <2> HIDE DEF s
  <2> QED BY <1>1, <2>1, <2>4, ClearAhead, AheadOn
<1>6. CASE PurgeEnd
  <2> DEFINE x == <<"rlookup", Top[2]>>
             y == <<"dec", Top[2]>>
  <2>1. Then(<<x, y>>)
    BY <1>6 DEF PurgeEnd
  <2>2. x \notin U /\ y \notin U
    OBVIOUS
  <2> HIDE DEF x, y
  <2>3. Clear(<<x, y>>, U)
    BY <2>2, ClearOne
  <2> DEFINE s == <<x, y>>
  <2> HIDE DEF s
  <2>4. Clear(s, U) /\ Then(s)
    BY <2>1, <2>3 DEF s
  <2> QED BY <1>1, <2>4, ClearAhead, AheadOn
<1>7. CASE Pushes(EntryKinds)
  <2>1. PICK s : Lacks(s, EntryKinds) /\ (Then(s) \/ todo' = s \o todo)
    BY <1>7 DEF Pushes
  <2>2. Len(s) \in Nat /\ Ahead(s, U, W)
    BY <1>2, <2>1, LacksClear
  <2> QED BY <1>1, <2>1, <2>2, AheadOn
<1> QED BY <1>3, <1>4, <1>5, <1>6, <1>7, StepPushes

\* A vhash's own deletion is set off by its action and by purge, no more.
LEMMA NewRlookup ==
  ASSUME Shape, Step, NEW v \in Object, <<"rlookup", v>> \in ToSet(todo'), <<"rlookup", v>> \notin ToSet(todo)
  PROVE  \/ RunAction /\ <<"rlookup", v>> = Head(acts[Top[2]])
         \/ PurgeEnd /\ Top[2] = v
<1> DEFINE t == <<"rlookup", v>>
<1>1. todo # <<>> /\ Top \in Task /\ TaskIs(Top) /\ todo \in Seq(Task) /\ Tail(todo) \in Seq(Task)
      /\ ToSet(Tail(todo)) \subseteq ToSet(todo)
  BY StepTodo, TopIs DEF Shape, TodoShape
<1>2. t[1] = "rlookup" /\ t[1] \in EntryKinds
  BY DEF EntryKinds
<1>3. CASE RunAction
  BY <1>3, RunTodo
<1>4. CASE KEncapCleanup /\ ~ \E what : Fault(what)
  <2> DEFINE j == Top[2]
             K == {"rlookup"}
             x == <<"unvhash", j, flookup[j].value>>
             y == <<"slookup", j>>
             z == <<"flookup", j>>
             d == <<"dec", TheObject(j)>>
  <2>1. Then(FromTable(j) \o DecIf(obj[j], TheObject(j)))
    BY <1>4 DEF KEncapCleanup
  <2>2. FromTable(j) \in {<<>>, <<y, z>>, <<x, y, z>>} /\ DecIf(obj[j], TheObject(j)) \in {<<>>, <<d>>}
    BY DEF FromTable, DecIf
  <2>3. x[1] \notin K /\ y[1] \notin K /\ z[1] \notin K /\ d[1] \notin K
    OBVIOUS
  <2> HIDE DEF x, y, z, d
  <2>4. Lacks(FromTable(j), K) /\ Lacks(DecIf(obj[j], TheObject(j)), K)
    BY <2>2, <2>3, LacksOne
  <2>5. Pushes(K)
    BY <2>1, <2>4, LacksConcat DEF Pushes
  <2> QED BY <1>1, <1>2, <2>5, PushedLacks
<1>5. CASE PurgeEnd
  <2> DEFINE u == Top[2]
             x == <<"rlookup", u>>
             y == <<"dec", u>>
  <2>1. todo' = <<x, y>> \o Tail(todo) /\ Top[1] = "purge_end"
    BY <1>5 DEF PurgeEnd, Then, Doing
  <2>2. u \in Object /\ x \in Task /\ y \in Task
    BY <1>1, <2>1, ActionTasks, OtherTasks, SubTasks DEF TaskIs, NodeTask, Node
  <2>3. t # y
    OBVIOUS
  <2>4. t = x => u = v
    OBVIOUS
  <2> DEFINE q == Tail(todo)
  <2> HIDE DEF x, y, u, t, q
  <2>5. q \in Seq(Task) /\ todo' = <<x, y>> \o q /\ ToSet(q) \subseteq ToSet(todo)
    BY <1>1, <2>1 DEF q
  <2>6. ToSet(todo') = {x, y} \cup ToSet(q)
    BY <2>2, <2>5, PushTwo
  <2> QED BY <1>5, <2>3, <2>4, <2>5, <2>6 DEF u, t
<1>6. CASE \E what : Fault(what)
  BY <1>6 DEF Fault
<1>7. CASE Pushes(EntryKinds)
  BY <1>1, <1>2, <1>7, PushedLacks
<1> QED BY <1>3, <1>4, <1>5, <1>6, <1>7, StepPushes

\* The actions of a key change when it dies, and when its object dies.
LEMMA KeyActs ==
  ASSUME Shape, Step, NEW k \in Key
  PROVE  \/ acts'[k] = acts[k]
         \/ RunAction /\ Top = <<"free", k>>
         \/ EncapDestroyHook /\ Top = <<"encap_destroy_hook", k>>
<1>1. Typed /\ todo # <<>> /\ Top \in Task /\ TaskIs(Top) /\ k \in Node /\ k \notin Object /\ k \notin Attr
  BY StepTouches, TopIs, Apartness DEF Shape, DataShape
<1>2. acts \in [Node -> Seq(Action)]
  BY <1>1 DEF Typed
<1>3. CASE Top[1] = "free"
  <2>1. CASE RunAction
    <3>1. Top = <<"free", Top[2]>> /\ acts' = [acts EXCEPT ![Top[2]] = Tail(@)]
      BY <2>1, FewerRunAction DEF RunAction
    <3> QED BY <1>1, <1>2, <2>1, <3>1
  <2>2. CASE Freed
    BY <2>2, ActsQuiet
  <2> QED BY <1>3, <2>1, <2>2, StepIs
<1>4. CASE Top[1] \in {"vhash_check", "purge_end"}
  <2>1. acts' = acts \/ acts' = WithoutKind(acts, Top[2], "rlookup")
    BY <1>4, StepIs DEF VhashCheck, PurgeEnd
  <2>2. Top[2] \in Object /\ Top[2] \in Node /\ Top[2] # k
    BY <1>1, <1>4, Apartness DEF TaskIs
  <2> QED BY <1>1, <1>2, <2>1, <2>2, WithoutKindProps
<1>5. CASE Top[1] = "destroy_values"
  <2>1. acts' = acts \/ \E u \in Top[2] : acts' = Without(acts, u, <<"rlookup", u>>)
    BY <1>5, StepIs DEF DestroyValues
  <2>2. CASE acts' = acts
    BY <2>2
  <2>3. ASSUME NEW u \in Top[2], acts' = Without(acts, u, <<"rlookup", u>>) PROVE acts'[k] = acts[k]
    <3>1. u \in Object /\ u \in Node /\ u # k
      BY <1>1, <1>5, Apartness DEF TaskIs
    <3> DEFINE t == <<"rlookup", u>>
    <3> HIDE DEF t
    <3>2. acts' = Without(acts, u, t)
      BY <2>3 DEF t
    <3> QED BY <1>1, <1>2, <3>1, <3>2, WithoutProps
  <2> QED BY <2>1, <2>2, <2>3
<1>6. CASE Top[1] = "k_encap_cleanup"
  <2> DEFINE j == Top[2]
             o == TheObject(j)
             t == <<"encap_destroy_hook", j>>
  <2>1. j \in Key /\ KEncapCleanup
    BY <1>1, <1>6, StepIs, ActionIs DEF TaskIs, ActionKinds
  <2>2. acts' = acts \/ (obj[j] \in Ref /\ acts' = Without(acts, o, t))
    BY <2>1 DEF KEncapCleanup, Fault, heap
  <2>3. obj[j] \in Ref => o \in Object
    BY <2>1, Apartness DEF Shape, DataShape, EntriesTyped, Ref
  <2> HIDE DEF o, t
  <2>4. obj[j] \in Ref => o \in Node /\ o # k
    BY <1>1, <2>3, Apartness
  <2> QED BY <1>1, <1>2, <2>2, <2>4, WithoutProps
<1>7. CASE Top[1] = "unhash"
  <2>1. DelFromAttrhash /\ Top[3] \in Node /\ Top[3] # k
    BY <1>1, <1>7, StepIs, Apartness DEF TaskIs
  <2> DEFINE t == <<"attrhash", Top[2], Top[3]>>
  <2>2. acts' = Without(acts, Top[3], t)
    BY <2>1 DEF DelFromAttrhash
  <2> HIDE DEF t
  <2> QED BY <1>1, <1>2, <2>1, <2>2, WithoutProps
<1>8. CASE Top[1] = "attr_destroy_trigger"
  <2> DEFINE b == Top[2]
             own == WithoutKind(acts, b, "attr_destroy_trigger")
  <2>1. b \in Attr /\ AttrDestroyTrigger
    BY <1>1, <1>8, StepIs, ActionIs DEF TaskIs, ActionKinds
  <2>2. \/ acts' = acts \/ acts' = own
        \/ obj_paddr[b] /\ acts' = WithoutKind(own, TheObject(b), "encap_attr_destroy_hook")
    BY <2>1 DEF AttrDestroyTrigger, Fault, heap
  <2>3. b \in Node /\ b # k /\ (obj_paddr[b] => TheObject(b) \in Node /\ TheObject(b) # k)
    BY <1>1, <2>1, Apartness DEF Shape, DataShape, EntriesTyped
  <2> HIDE DEF b
  <2>4. own \in [Node -> Seq(Action)] /\ own[k] = acts[k]
    BY <1>1, <1>2, <2>3, WithoutKindProps
  <2> HIDE DEF own
  <2> QED BY <1>1, <2>2, <2>3, <2>4, WithoutKindProps
<1>9. CASE Top[1] = "encap_destroy_hook"
  <2> DEFINE j == Top[2]
  <2>1. j \in Key /\ EncapDestroyHook /\ Top = <<"encap_destroy_hook", j>> /\ j \in Node
    BY <1>1, <1>9, StepIs, ActionIs, Apartness DEF TaskIs, ActionKinds
  <2>2. acts' = acts \/ acts' = WithoutKind(acts, j, "k_encap_cleanup")
    BY <2>1 DEF EncapDestroyHook, Fault, heap
  <2> HIDE DEF j
  <2>3. j # k => acts'[k] = acts[k]
    BY <1>1, <1>2, <2>1, <2>2, WithoutKindProps
  <2> QED BY <2>1, <2>3
<1> QED BY <1>3, <1>4, <1>5, <1>6, <1>7, <1>8, <1>9, StepTouches

\* A fault changes nothing.
LEMMA TablesSame ==
  ASSUME TablesInv, UNCHANGED <<life, acts, tables, blobs, todo>>
  PROVE  TablesInv'
<1> USE DEF tables, blobs
<1>1. Top' = Top /\ \A v : Under(v)' = Under(v)
  BY DEF Top, Under
<1>2. \A v : Doomed(v)' <=> Doomed(v)
  BY DEF Doomed
<1>3. KeyUnder'
  BY <1>1, <1>2 DEF TablesInv, KeyUnder
<1>4. KeyFound'
  BY <1>1 DEF TablesInv, KeyFound
<1>5. KeyOwns' /\ EmptyChecked' /\ VhashAction'
  BY DEF TablesInv, KeyOwns, EmptyChecked, VhashAction
<1>6. ValueHooked' /\ AttrOwns'
  BY DEF TablesInv, ValueHooked, AttrOwns
<1>7. KeyHooked'
  BY <1>1, <1>2 DEF TablesInv, KeyHooked
<1>8. KeyHookLives'
  BY <1>1 DEF TablesInv, KeyHookLives
<1>9. AttrHooked'
  BY DEF TablesInv, AttrHooked
<1> QED BY <1>3, <1>4, <1>5, <1>6, <1>7, <1>8, <1>9 DEF TablesInv

LEMMA TablesFault ==
  ASSUME TablesInv, \E what : Fault(what)
  PROVE  TablesInv'
BY TablesSame DEF Fault, heap

\* A step that is not a fault.
Goes == Step /\ ~ \E what : Fault(what)

\* What is pushed is there.
LEMMA PushedThere ==
  ASSUME NEW q \in Seq(Task), NEW e \in Seq(Task), NEW y \in Task, NEW z \in Task
  PROVE  /\ y \in ToSet(<<y>> \o q)
         /\ y \in ToSet((e \o <<y>>) \o q)
         /\ y \in ToSet((e \o <<y, z>>) \o q)
<1> DEFINE o == <<y>>
           p == <<y, z>>
<1>1. o \in Seq(Task) /\ ToSet(o) = {y}
  BY SetOne
<1>2. p \in Seq(Task) /\ y \in ToSet(p)
  <2>1. p \in Seq(Task) /\ p[1] = y /\ 1 \in DOMAIN p
    OBVIOUS
  <2> QED BY <2>1 DEF ToSet
<1> HIDE DEF o, p
<1>3. ToSet(o \o q) = ToSet(o) \cup ToSet(q)
  BY <1>1, SetConcat
<1>4. e \o o \in Seq(Task) /\ ToSet(e \o o) = ToSet(e) \cup ToSet(o)
  BY <1>1, SetConcat
<1>5. e \o p \in Seq(Task) /\ ToSet(e \o p) = ToSet(e) \cup ToSet(p)
  BY <1>2, SetConcat
<1> DEFINE r == e \o o
           s == e \o p
<1>8. r \in Seq(Task) /\ s \in Seq(Task)
  BY <1>4, <1>5
<1> HIDE DEF r, s
<1>6. ToSet(r \o q) = ToSet(r) \cup ToSet(q) /\ ToSet(s \o q) = ToSet(s) \cup ToSet(q)
  BY <1>8, SetConcat
<1>7. y \in ToSet(o \o q) /\ y \in ToSet(r \o q) /\ y \in ToSet(s \o q)
  BY <1>1, <1>2, <1>3, <1>4, <1>5, <1>6 DEF r, s
<1> QED BY <1>7 DEF r, s, o, p

\* What the next step of some tasks is sure to leave to do.
LEMMA GoesOn ==
  ASSUME Shape, Goes
  PROVE  /\ \A v : v \in Object /\ Top[1] = "unvhash" /\ Top[3] = v /\ rlookup[v] # Null =>
              <<"vhash_check", v>> \in ToSet(todo')
         /\ \A k : Top = <<"encap_destroy_hook", k>> => <<"k_encap_cleanup", k>> \in ToSet(todo')
         /\ \A a : Top = Trigger(a) => <<"attr_lookup", a>> \in ToSet(todo')
         /\ \A a : Top = Hook(a) => Trigger(a) \in ToSet(todo')
         /\ \A v : v \in Object /\ Top[1] = "destroy_values" /\ v \in Top[2] /\ rlookup'[v] # Null =>
              \E t \in ToSet(todo') : t[1] = "destroy_values" /\ v \in t[2]
<1> DEFINE q == Tail(todo)
<1>1. todo # <<>> /\ Top \in Task /\ TaskIs(Top) /\ q \in Seq(Task) /\ Typed
  BY StepTodo, TopIs DEF Goes, Shape, TodoShape, DataShape
<1> HIDE DEF q
<1>2. \A s : Then(s) <=> todo' = s \o q
  BY DEF Then, q
<1>3. ASSUME NEW v \in Object, Top[1] = "unvhash", Top[3] = v, rlookup[v] # Null
      PROVE  <<"vhash_check", v>> \in ToSet(todo')
  <2> DEFINE x == <<"dec", Top[2]>>
             y == <<"vhash_check", v>>
             e == IF Top[2] \in Under(v) THEN <<x>> ELSE <<>>
  <2>1. DelFromVhash
    BY <1>3, StepIs DEF Goes
  <2>2. Then(<<y>>) \/ Then(e \o <<y>>)
    BY <1>3, <2>1 DEF DelFromVhash
  <2>3. x \in Task /\ y \in Task
    BY <1>1, <1>3, SubTasks DEF TaskIs, NodeTask, ValueTask, Node
  <2>4. e = <<>> \/ e = <<x>>
    OBVIOUS
  <2> HIDE DEF x, y
  <2>5. e \in Seq(Task)
    BY <2>3, <2>4
  <2> HIDE DEF e
  <2>6. todo' = <<y>> \o q \/ todo' = (e \o <<y>>) \o q
    BY <1>2, <2>2
  <2>7. y \in ToSet(todo')
    BY <1>1, <2>3, <2>5, <2>6, PushedThere
  <2> QED BY <2>7 DEF y
<1>4. ASSUME NEW k, Top = <<"encap_destroy_hook", k>>
      PROVE  <<"k_encap_cleanup", k>> \in ToSet(todo')
  <2> DEFINE x == <<"k_encap_cleanup", k>>
  <2>1. Then(<<x>>)
    BY <1>4, StepIs DEF Goes, EncapDestroyHook
  <2>2. k \in Key
    BY <1>1, <1>4, ActionIs DEF TaskIs, ActionKinds
  <2>3. x \in Task
    BY <2>2, ActionTasks, SubTasks
  <2> HIDE DEF x
  <2>4. todo' = <<x>> \o q
    BY <1>2, <2>1
  <2>5. x \in ToSet(todo')
    BY <1>1, <2>3, <2>4, PushedThere
  <2> QED BY <2>5 DEF x
<1>5. ASSUME NEW a, Top = Trigger(a)
      PROVE  <<"attr_lookup", a>> \in ToSet(todo')
  <2> DEFINE y == <<"attr_lookup", a>>
             x == <<"dec", TheObject(a)>>
             e == DecIf(obj[a], TheObject(a))
  <2>1. Then(e \o <<y>>) /\ a \in Attr
    BY <1>1, <1>5, StepIs, ActionIs DEF Goes, AttrDestroyTrigger, Trigger, TaskIs, ActionKinds
  <2>2. e \in Seq(Task)
    <3>1. obj[a] = "strong" => TheObject(a) \in Object
      BY <2>1, Apartness DEF Shape, DataShape, EntriesTyped
    <3>2. e \in Seq(Plain)
      BY <3>1, DecIfPlain, Apartness
    <3>3. Plain \subseteq Task
      BY DEF Plain
    <3> HIDE DEF e
    <3> QED BY <3>2, <3>3
  <2>3. y \in Task
    BY <2>1, SubTasks DEF AttrTask
  <2> HIDE DEF y, e
  <2>4. todo' = (e \o <<y>>) \o q
    BY <1>2, <2>1
  <2>5. y \in ToSet(todo')
    BY <1>1, <2>2, <2>3, <2>4, PushedThere
  <2> QED BY <2>5 DEF y
<1>6. ASSUME NEW a, Top = Hook(a)
      PROVE  Trigger(a) \in ToSet(todo')
  <2> DEFINE y == <<"attr_destroy_trigger", a>>
             z == <<"dec", a>>
             e == DecIf(obj[a], TheObject(a))
  <2>1. Then(e \o <<y, z>>) /\ a \in Attr
    BY <1>1, <1>6, StepIs, ActionIs DEF Goes, EncapAttrDestroyHook, Hook, TaskIs, ActionKinds
  <2>2. e \in Seq(Task)
    <3>1. obj[a] = "strong" => TheObject(a) \in Object
      BY <2>1, Apartness DEF Shape, DataShape, EntriesTyped
    <3>2. e \in Seq(Plain)
      BY <3>1, DecIfPlain, Apartness
    <3>3. Plain \subseteq Task
      BY DEF Plain
    <3> HIDE DEF e
    <3> QED BY <3>2, <3>3
  <2>3. y \in Task /\ z \in Task
    BY <2>1, SubTasks, ActionTasks, Apartness DEF NodeTask
  <2> HIDE DEF y, e, z
  <2>4. todo' = (e \o <<y, z>>) \o q
    BY <1>2, <2>1
  <2>5. y \in ToSet(todo')
    BY <1>1, <2>2, <2>3, <2>4, PushedThere
  <2> QED BY <2>5 DEF y, Trigger
<1>7. ASSUME NEW v \in Object, Top[1] = "destroy_values", v \in Top[2], rlookup'[v] # Null
      PROVE  \E t \in ToSet(todo') : t[1] = "destroy_values" /\ v \in t[2]
  <2>1. DestroyValues
    BY <1>7, StepIs DEF Goes
  <2>2. PICK u \in Top[2] : /\ rlookup' = [rlookup EXCEPT ![u] = Null]
                            /\ Then(<<<<"decall", Under(u)>>, <<"destroy_values", Top[2] \ {u}>>>>)
    BY <1>7, <2>1 DEF DestroyValues
  <2> DEFINE x == <<"decall", Under(u)>>
             y == <<"destroy_values", Top[2] \ {u}>>
  <2>3. Top[2] \in SUBSET Object
    BY <1>1, <1>7 DEF TaskIs
  <2>4. u # v
    BY <1>1, <1>7, <2>2 DEF Typed
  <2>5. x \in Task
    <3>1. Under(u) \subseteq Index
      BY <1>1, <2>2, <2>3 DEF Under, Typed
    <3> QED BY <3>1, SubTasks DEF NodesTask, Node
  <2>6. y \in Task
    BY <2>3, SubTasks DEF DestroyValuesTask
  <2>7. y[1] = "destroy_values" /\ v \in y[2]
    BY <1>7, <2>4
  <2>8. todo' = <<x, y>> \o q
    BY <1>2, <2>2
  <2> HIDE DEF x, y
  <2>9. y \in ToSet(todo')
    BY <1>1, <2>5, <2>6, <2>8, PushTwo
  <2> QED BY <2>7, <2>9
<1> QED BY <1>3, <1>4, <1>5, <1>6, <1>7

LEMMA EmptyStep ==
  ASSUME Shape, EmptyChecked, Goes
  PROVE  EmptyChecked'
<1> SUFFICES ASSUME NEW v \in Object, rlookup'[v] = {}
             PROVE  <<"vhash_check", v>> \in ToSet(todo')
  BY DEF EmptyChecked
<1> DEFINE t == <<"vhash_check", v>>
<1>1. Step /\ Typed /\ todo # <<>> /\ {} # Null
  BY StepTodo, Apartness DEF Goes, Shape, DataShape
<1>2. CASE rlookup[v] = {}
  <2>1. t \in ToSet(todo)
    BY <1>2 DEF EmptyChecked
  <2>2. Top = t => rlookup'[v] = Null
    <3> SUFFICES ASSUME Top = t PROVE rlookup'[v] = Null
      OBVIOUS
    <3>1. Top[1] = "vhash_check" /\ Top[2] = v
      OBVIOUS
    <3>2. rlookup' = [rlookup EXCEPT ![v] = Null]
      BY <1>1, <1>2, <3>1, StepIs DEF VhashCheck
    <3> QED BY <1>1, <3>2 DEF Typed
  <2> HIDE DEF t
  <2>3. t \in ToSet(todo')
    BY <1>1, <2>1, <2>2, StepTodo
  <2> QED BY <2>3 DEF t
<1>3. CASE rlookup[v] # {}
  <2>1. Top[1] = "unvhash" /\ Top[3] = v /\ rlookup[v] # Null
    BY <1>1, <1>3, UnderStep
  <2> QED BY <2>1, GoesOn
<1> QED BY <1>2, <1>3

LEMMA VhashActionStep ==
  ASSUME Shape, ActsOnce, VhashAction, Goes
  PROVE  VhashAction'
<1> SUFFICES ASSUME NEW v \in Object, <<"rlookup", v>> \in ToSet(acts'[v])
             PROVE  rlookup'[v] # Null /\ <<"rlookup", v>> \notin ToSet(todo')
  BY DEF VhashAction
<1> DEFINE t == <<"rlookup", v>>
<1>1. Step /\ v \in Node /\ todo # <<>> /\ Top \in ToSet(todo) /\ acts \in [Node -> Seq(Action)]
  BY StepTodo, TopIs, Apartness DEF Goes, Shape, DataShape, Typed
<1>2. t \in ToSet(acts[v])
  BY <1>1, StepFewer DEF Fewer
<1>3. rlookup[v] # Null /\ t \notin ToSet(todo)
  BY <1>2 DEF VhashAction
<1>4. rlookup'[v] # Null
  BY <1>1, <1>3, VhashGone
<1>5. ASSUME t \in ToSet(todo') PROVE FALSE
  <2>1. CASE RunAction /\ t = Head(acts[Top[2]])
    <3>1. t \in ToSet(acts[Top[2]]) /\ Top[2] \in Node
      BY <2>1, FewerRunAction
    <3>2. Top[2] = v
      <4>1. t \in ActionsOf(Top[2])
        BY <3>1 DEF Shape, DataShape, ActionsTyped
      <4> QED BY <4>1, Apartness DEF ActionsOf
    <3>3. NoDuplicate(acts[Top[2]])
      BY <3>1 DEF ActsOnce
    <3> QED BY <2>1, <3>2, <3>3, FewerRunAction
  <2>2. CASE PurgeEnd /\ Top[2] = v
    <3>1. acts' = WithoutKind(acts, v, "rlookup")
      BY <2>2 DEF PurgeEnd
    <3>2. t \notin ToSet(acts'[v])
      BY <1>1, <3>1, WithoutKindProps
    <3> QED BY <3>2
  <2> QED BY <1>1, <1>3, <1>5, <2>1, <2>2, NewRlookup
<1> QED BY <1>4, <1>5

LEMMA ValueStep ==
  ASSUME Shape, ObjectsCounted, IndexCounted, LifeCounted, FreeClean, RefUnder, ValueHooked, Goes
  PROVE  ValueHooked'
<1> SUFFICES ASSUME NEW a \in Attr, NEW v \in Object
             PROVE  /\ attrhash'[a][v] # "none" => <<"attrhash", a, v>> \in ToSet(acts'[v]) \cup ToSet(todo')
                    /\ <<"attrhash", a, v>> \in ToSet(acts'[v]) /\ life'[v] = "live" => attrhash'[a][v] # "none"
                    /\ attrhash'[a][v] = "undef" => life'[v] # "live"
  BY DEF ValueHooked
<1> DEFINE t == <<"attrhash", a, v>>
           u == <<"unhash", a, v>>
<1>1. /\ Step /\ v \in Node /\ a \in Node /\ todo # <<>> /\ Top \in ToSet(todo) /\ Typed
      /\ Grounded(Top, ToSet(Tail(todo)), held) /\ ToSet(Tail(todo)) \subseteq ToSet(todo)
      /\ FreeOpen
  BY StepTodo, TopIs, Apartness DEF Goes, Shape, DataShape, TodoShape
<1>2. /\ acts \in [Node -> Seq(Action)] /\ life \in [Node -> {"free", "live", "dying"}]
      /\ attrhash[a][v] \in Entry
  BY <1>1 DEF Typed
<1>3. life'[v] = "live" => life[v] = "live"
  BY <1>1, StepEntries
<1>4. \/ attrhash'[a][v] = attrhash[a][v]
      \/ attrhash[a][v] = "weak" /\ attrhash'[a][v] = "undef" /\ life'[v] # "live"
      \/ attrhash'[a][v] = "none" /\ Top \in {t, u, <<"free", a>>}
  BY <1>1, StepEntries DEF Cleaned
<1>5. Top = t => attrhash'[a][v] = "none"
  <2> SUFFICES ASSUME Top = t PROVE attrhash'[a][v] = "none"
    OBVIOUS
  <2>1. Top[1] = "attrhash" /\ Top[2] = a /\ Top[3] = v
    OBVIOUS
  <2>2. attrhash' = [attrhash EXCEPT ![a][v] = "none"]
    BY <1>1, <2>1, StepIs DEF DelAttrhash, Goes
  <2> QED BY <1>1, <2>2 DEF Typed
<1>6. Top = u => attrhash'[a][v] = "none" /\ t \notin ToSet(acts'[v])
  <2> SUFFICES ASSUME Top = u PROVE attrhash'[a][v] = "none" /\ t \notin ToSet(acts'[v])
    OBVIOUS
  <2>1. Top[1] = "unhash" /\ Top[2] = a /\ Top[3] = v
    OBVIOUS
  <2>2. attrhash' = [attrhash EXCEPT ![a][v] = "none"] /\ acts' = Without(acts, v, t)
    BY <1>1, <2>1, StepIs DEF DelFromAttrhash
  <2> HIDE DEF t
  <2>3. t \notin ToSet(acts'[v])
    <3>1. \A x : x \notin ToSet(Without(acts, v, x)[v])
      BY <1>1, <1>2, WithoutHas
    <3> QED BY <2>2, <3>1
  <2> QED BY <1>1, <2>2, <2>3 DEF Typed
<1>7. attrhash'[a][v] # "none" => t \in ToSet(acts'[v]) \cup ToSet(todo')
  <2> SUFFICES ASSUME attrhash'[a][v] # "none" PROVE t \in ToSet(acts'[v]) \cup ToSet(todo')
    OBVIOUS
  <2>1. t \in ToSet(acts[v]) \cup ToSet(todo)
    BY <1>4 DEF ValueHooked
  <2>2. Top # t /\ Top # u
    BY <1>5, <1>6
  <2> HIDE DEF t, u
  <2>3. CASE t \in ToSet(todo)
    BY <1>1, <2>2, <2>3, StepTodo
  <2>4. CASE t \in ToSet(acts[v])
    BY <1>1, <2>2, <2>4, ObjectHookStep DEF t, u
  <2> QED BY <2>1, <2>3, <2>4
<1>8. ASSUME t \in ToSet(acts'[v]), life'[v] = "live", attrhash'[a][v] = "none" PROVE FALSE
  <2>1. attrhash[a][v] # "none" /\ life[v] = "live" /\ attrhash[a][v] # "undef"
    <3>1. t \in ToSet(acts[v])
      BY <1>1, <1>8, StepFewer DEF Fewer
    <3> QED BY <1>3, <1>8, <3>1 DEF ValueHooked
  <2>2. Top = t \/ Top = <<"free", a>>
    BY <1>4, <1>6, <1>8, <2>1
  <2>3. CASE Top = t
    <3>1. Top[1] = "attrhash" /\ Top[3] = v
      BY <2>3
    <3>2. <<"free", v>> \in ToSet(todo)
      BY <1>1, <3>1 DEF Grounded
    <3> QED BY <1>1, <2>1, <3>2 DEF FreeOpen
  <2>4. CASE Top = <<"free", a>>
    <3>1. life[a] = "dying"
      BY <1>1, <2>4 DEF FreeOpen
    <3>2. attrhash[a][v] \in Ref
      BY <1>2, <2>1 DEF Entry
    <3>3. a \in Under(v)
      BY <3>2 DEF RefUnder
    <3> QED BY <3>1, <3>3, ReferredLive
  <2> QED BY <2>2, <2>3, <2>4
<1>9. attrhash'[a][v] = "undef" => life'[v] # "live"
  BY <1>3, <1>4 DEF ValueHooked
<1> QED BY <1>7, <1>8, <1>9

LEMMA AttrOwnsStep ==
  ASSUME Shape, AttrOwns, Goes
  PROVE  AttrOwns'
<1> SUFFICES ASSUME NEW a \in Attr
             PROVE  /\ attr_lookup'[a] # "none" =>
                         \/ Trigger(a) \in ToSet(acts'[a]) \cup ToSet(todo') \/ <<"attr_lookup", a>> \in ToSet(todo')
                    /\ attr_lookup'[a] = "undef" => life'[a] # "live"
  BY DEF AttrOwns, Trigger
<1> DEFINE t == Trigger(a)
           u == <<"attr_lookup", a>>
<1>1. Step /\ a \in Node /\ a \in Index /\ Typed /\ todo # <<>> /\ Shape'
  BY StepTodo, Apartness, ShapeStep DEF Goes, Shape, DataShape
<1>2. \/ attr_lookup'[a] = attr_lookup[a]
      \/ attr_lookup[a] = "weak" /\ attr_lookup'[a] = "undef" /\ life'[a] # "live"
      \/ attr_lookup'[a] = "none"
  BY <1>1, StepEntries DEF Cleaned
<1>3. life'[a] = "live" => life[a] = "live"
  BY <1>1, StepEntries
<1>4. Top = u => attr_lookup'[a] = "none"
  <2> SUFFICES ASSUME Top = u PROVE attr_lookup'[a] = "none"
    OBVIOUS
  <2>1. Top[1] = "attr_lookup" /\ Top[2] = a
    OBVIOUS
  <2>2. attr_lookup' = [attr_lookup EXCEPT ![a] = "none"]
    BY <1>1, <2>1, StepIs DEF DelAttrLookup, Goes
  <2> QED BY <1>1, <2>2 DEF Typed
<1>5. ASSUME attr_lookup'[a] # "none" PROVE t \in ToSet(acts'[a]) \cup ToSet(todo') \/ u \in ToSet(todo')
  <2>1. attr_lookup[a] # "none" /\ Top # u
    BY <1>2, <1>4, <1>5
  <2>2. t \in ToSet(acts[a]) \cup ToSet(todo) \/ u \in ToSet(todo)
    BY <2>1 DEF AttrOwns
  <2>3. Top = t => u \in ToSet(todo')
    BY GoesOn
  <2> HIDE DEF t, u
  <2>4. Top' = t /\ todo' # <<>> => t \in ToSet(todo')
    <3>1. todo' # <<>> /\ todo' \in Seq(Task) => Head(todo') \in ToSet(todo')
      BY Split
    <3> QED BY <1>1, <3>1 DEF Shape, TodoShape, Top
  <2>5. t \in ToSet(acts[a]) /\ Top # t => t \in ToSet(acts'[a]) \/ t \in ToSet(todo')
    BY <1>1, <2>4, OwnKept
  <2>6. \A x : x \in ToSet(todo) /\ x # Top => x \in ToSet(todo')
    BY <1>1, StepTodo
  <2> QED BY <2>1, <2>2, <2>3, <2>5, <2>6
<1>6. attr_lookup'[a] = "undef" => life'[a] # "live"
  BY <1>2, <1>3 DEF AttrOwns
<1> QED BY <1>5, <1>6

LEMMA KeyOwnsStep ==
  ASSUME Shape, KeyOwns, Goes
  PROVE  KeyOwns'
<1> SUFFICES ASSUME NEW k \in Key
             PROVE  /\ ToSet(acts'[k]) \subseteq ToSet(OwnActions(k))
                    /\ flookup'[k].mode = "none" => flookup'[k] = NoValue
  BY DEF KeyOwns
<1>1. Step /\ k \in Node
  BY Apartness DEF Goes
<1>2. ToSet(acts'[k]) \subseteq ToSet(acts[k])
  BY <1>1, StepFewer DEF Fewer
<1>3. \/ flookup'[k] = flookup[k] \/ flookup'[k].mode = "undef" \/ flookup'[k] = NoValue
  BY <1>1, StepEntries DEF Undone
<1> QED BY <1>2, <1>3 DEF KeyOwns

\* What is at the top is not in U when something of W has to come first.
LEMMA TopNotIn ==
  ASSUME Shape, todo # <<>>, NEW U, NEW W, Ahead(todo, U, W)
  PROVE  Top \notin U
<1>1. todo \in Seq(Task)
  BY DEF Shape, TodoShape
<1> QED BY <1>1, AheadSplit DEF Top

\* What waits still does, or it was next; an action of a key or an attribute that was not
\* next is still there, or is next.
LEMMA StillThere ==
  ASSUME Shape, Step
  PROVE  /\ \A t : t \in ToSet(todo) /\ t # Top => t \in ToSet(todo')
         /\ \A i \in Index : \A t : t \in ToSet(acts[i]) /\ t # Top =>
              t \in ToSet(acts'[i]) \/ (t \in ToSet(todo') /\ todo' # <<>> /\ Top' = t)
<1>1. Shape' /\ (todo' # <<>> /\ todo' \in Seq(Task) => Head(todo') \in ToSet(todo'))
  BY ShapeStep, Split
<1>2. todo' # <<>> => Top' \in ToSet(todo')
  BY <1>1 DEF Shape, TodoShape, Top
<1>3. ASSUME NEW i \in Index, NEW t, t \in ToSet(acts[i]), t # Top
      PROVE  t \in ToSet(acts'[i]) \/ (t \in ToSet(todo') /\ todo' # <<>> /\ Top' = t)
  BY <1>2, <1>3, OwnKept
<1> QED BY <1>3, StepTodo

\* DESTROY goes through scalar_lookup: it is empty now, and every value is one that
\* destroy_values is to take down.
LEMMA KeysGo ==
  ASSUME Shape, Goes, Top[1] = "destroy_keys"
  PROVE  /\ \A k \in Key : slookup'[k] = "none"
         /\ \A k \in Key : slookup[k] # "none" =>
              \E t \in ToSet(todo') : t[1] = "destroy_values" /\ flookup[k].value \in t[2]
<1> DEFINE q == Tail(todo)
           K == {k \in Key : slookup[k] # "none"}
           V == {flookup[k].value : k \in K}
           x == <<"destroy_values", values'>>
<1>1. DestroyKeys /\ todo # <<>> /\ q \in Seq(Task) /\ Typed
  BY StepTodo, StepIs, TopIs DEF Goes, Shape, DataShape
<1>2. /\ slookup' = [k \in Key |-> "none"] /\ values' = values \cup V /\ Then(<<x>>)
  BY <1>1 DEF DestroyKeys, Died, Goes
<1>3. x \in Task
  <2>1. Shape'
    BY ShapeStep DEF Goes
  <2>2. values' \in SUBSET Object
    BY <2>1 DEF Shape, DataShape, Typed
  <2> QED BY <2>2, SubTasks DEF DestroyValuesTask
<1>4. todo' = <<x>> \o q
  BY <1>2 DEF Then
<1>5. x[1] = "destroy_values" /\ x[2] = values'
  OBVIOUS
<1>6. \A k \in Key : slookup[k] # "none" => flookup[k].value \in values'
  BY <1>2
<1> HIDE DEF x, q
<1>7. x \in ToSet(todo')
  BY <1>1, <1>3, <1>4, PushedThere
<1> QED BY <1>2, <1>5, <1>6, <1>7

LEMMA DoomedStays ==
  ASSUME Shape, Goes, NEW v \in Object, Doomed(v), rlookup'[v] # Null
  PROVE  Doomed(v)'
<1>1. PICK t \in ToSet(todo) : t[1] = "destroy_values" /\ v \in t[2]
  BY DEF Doomed
<1>2. CASE t = Top
  <2>1. \E u \in ToSet(todo') : u[1] = "destroy_values" /\ v \in u[2]
    BY <1>1, <1>2, GoesOn
  <2> QED BY <2>1 DEF Doomed
<1>3. CASE t # Top
  BY <1>1, <1>3, StillThere DEF Goes, Doomed
<1> QED BY <1>2, <1>3

\* A vhash keeps what it names alive, before a step as well as after it.
LiveUnder == \A v \in Object : \A i \in Under(v) : life[i] = "live"

LEMMA UnderLives == IInv => LiveUnder
BY ReferredLive DEF IInv, LiveUnder

LEMMA UnderLivesNext == IInv' => LiveUnder'
BY UnderLives, PTL

\* A key that stays under a value that lives and that DESTROY has not found.
LEMMA KeyStill ==
  ASSUME Shape, Goes, KeyUnder, NEW k \in Key, NEW v \in Object,
         k \in Under(v)', life'[v] = "live", ~ Doomed(v)'
  PROVE  /\ k \in Under(v) /\ life[v] = "live" /\ ~ Doomed(v)
         /\ slookup[k] = "weak" /\ flookup[k].mode \in Ref /\ flookup[k].value = v
         /\ Ahead(todo, {<<"slookup", k>>, <<"flookup", k>>}, {<<"unvhash", k, v>>})
         /\ Top # <<"slookup", k>> /\ Top # <<"flookup", k>> /\ Top # <<"unvhash", k, v>>
<1> DEFINE U == {<<"slookup", k>>, <<"flookup", k>>}
           W == {<<"unvhash", k, v>>}
<1>1. Step /\ todo # <<>>
  BY StepTodo DEF Goes
<1>2. k \in Under(v) /\ life[v] = "live"
  BY <1>1, UnderStep, StepEntries, Apartness
<1>3. ~ Doomed(v)
  <2>1. rlookup'[v] # Null
    BY DEF Under
  <2> QED BY <2>1, DoomedStays
<1>4. /\ slookup[k] = "weak" /\ flookup[k].mode \in Ref /\ flookup[k].value = v
      /\ Ahead(todo, U, W)
  BY <1>2, <1>3 DEF KeyUnder
<1>5. Top # <<"unvhash", k, v>>
  BY <1>1, UnderStep
<1>6. Top \notin U
  <2> HIDE DEF U, W
  <2> QED BY <1>1, <1>4, TopNotIn
<1> QED BY <1>2, <1>3, <1>4, <1>5, <1>6

LEMMA KeyUnderStep ==
  ASSUME Shape, LiveUnder', KeyUnder, Goes
  PROVE  KeyUnder'
<1> SUFFICES ASSUME NEW k \in Key, NEW v \in Object, k \in Under(v)', life'[v] = "live", ~ Doomed(v)'
             PROVE  /\ slookup'[k] = "weak" /\ flookup'[k].mode \in Ref /\ flookup'[k].value = v
                    /\ Ahead(todo', {<<"slookup", k>>, <<"flookup", k>>}, {<<"unvhash", k, v>>})
  BY DEF KeyUnder
<1> DEFINE U == {<<"slookup", k>>, <<"flookup", k>>}
           W == {<<"unvhash", k, v>>}
<1>1. Step /\ todo # <<>> /\ k \in Node /\ k \in Index /\ FreeOpen /\ Top \in ToSet(todo)
  BY StepTodo, TopIs, Apartness DEF Goes, Shape, TodoShape
<1>2. /\ k \in Under(v) /\ life[v] = "live"
      /\ slookup[k] = "weak" /\ flookup[k].mode \in Ref /\ flookup[k].value = v
      /\ Ahead(todo, U, W) /\ Top # <<"slookup", k>> /\ Top # <<"flookup", k>> /\ Top # <<"unvhash", k, v>>
  BY KeyStill
<1>3. life'[k] = "live"
  BY DEF LiveUnder
<1>4. life[k] = "live" /\ Top # <<"free", k>>
  <2>1. life[k] = "live"
    BY <1>1, <1>3, StepEntries
  <2> QED BY <1>1, <2>1 DEF FreeOpen
<1>5. Top[1] # "destroy_keys"
  BY <1>2, KeysGo DEF Doomed
<1>6. slookup'[k] = "weak"
  BY <1>1, <1>2, <1>3, <1>5, StepEntries DEF Cleaned
<1>7. flookup'[k] = flookup[k]
  BY <1>1, <1>2, <1>5, StepEntries
<1>8. Ahead(todo', U, W)
  <2>1. CASE Top = <<"k_encap_cleanup", k>>
    <3>1. KEncapCleanup
      BY <1>1, <2>1, StepIs
    <3> QED BY <1>2, <2>1, <3>1, CleanupPushes DEF Goes
  <2>2. CASE Top # <<"k_encap_cleanup", k>>
    <3>1. ASSUME RunAction PROVE Head(acts[Top[2]]) \notin U
      <4>1. /\ Top[2] \in Node /\ Top = <<"free", Top[2]>>
            /\ Head(acts[Top[2]]) \in ToSet(acts[Top[2]])
        BY <3>1, FewerRunAction
      <4>2. Top[2] # k
        BY <1>4, <4>1
      <4>3. Head(acts[Top[2]]) \in ActionsOf(Top[2])
        BY <4>1 DEF Shape, DataShape, ActionsTyped
      <4> QED BY <4>1, <4>2, <4>3, Apartness DEF ActionsOf
    <3>2. Top \notin W
      BY <1>2
    <3> QED BY <1>1, <1>2, <2>2, <3>1, <3>2, EntryAhead
  <2> QED BY <2>1, <2>2
<1> QED BY <1>2, <1>6, <1>7, <1>8

LEMMA KeyFoundStep ==
  ASSUME Shape, Shape', KeyOwns, KeyFound, Goes
  PROVE  KeyFound'
<1> SUFFICES ASSUME NEW k \in Key, slookup'[k] # "none"
             PROVE  /\ flookup'[k].mode # "none"
                    /\ Ahead(todo', {<<"flookup", k>>}, {<<"slookup", k>>})
                    /\ IF IsEncap(k)
                         THEN {<<"slookup", k>>, <<"k_encap_cleanup", k>>}
                                \cap (ToSet(acts'[k]) \cup ToSet(todo')) # {}
                         ELSE acts'[k] = OwnActions(k) \/ (todo' # <<>> /\ Top' = <<"slookup", k>>)
  BY DEF KeyFound
<1> DEFINE x == <<"slookup", k>>
           y == <<"flookup", k>>
           z == <<"k_encap_cleanup", k>>
<1>1. Step /\ todo # <<>> /\ Typed /\ k \in Node /\ k \in Index
  BY StepTodo, Apartness DEF Goes, Shape, DataShape
<1>2. Top # x
  <2> SUFFICES ASSUME Top = x PROVE FALSE
    OBVIOUS
  <2>1. Top[1] = "slookup" /\ Top[2] = k
    OBVIOUS
  <2>2. slookup' = [slookup EXCEPT ![k] = "none"]
    BY <1>1, <2>1, StepIs DEF DelSlookup
  <2> QED BY <1>1, <2>2 DEF Typed
<1>3. slookup[k] # "none" /\ Top[1] # "destroy_keys"
  <2>1. Top[1] # "destroy_keys"
    BY KeysGo
  <2> QED BY <1>1, <2>1, StepEntries DEF Cleaned
<1>4. /\ flookup[k].mode # "none"
      /\ Ahead(todo, {y}, {x})
      /\ IsEncap(k) => {x, z} \cap (ToSet(acts[k]) \cup ToSet(todo)) # {}
      /\ ~ IsEncap(k) => acts[k] = OwnActions(k)
  BY <1>2, <1>3 DEF KeyFound
<1>5. Top # y
  <2> HIDE DEF x, y
  <2>1. Top \notin {y}
    BY <1>1, <1>4, TopNotIn
  <2> QED BY <2>1
<1>6. flookup'[k].mode # "none"
  BY <1>1, <1>3, <1>4, <1>5, StepEntries DEF Undone
<1>7. CASE Top = z
  <2>1. KEncapCleanup /\ Top[1] = "k_encap_cleanup"
    BY <1>1, <1>7, StepIs
  <2>2. x \in ToSet(todo') /\ Ahead(todo', {y}, {x})
    BY <1>4, <1>7, <2>1, CleanupPushes DEF Goes
  <2>3. ~ IsEncap(k) => acts'[k] = acts[k]
    BY <1>1, <1>7, KeyActs
  <2> QED BY <1>4, <1>6, <2>2, <2>3
<1>8. CASE Top # z
  <2>1. ~ IsEncap(k) => acts[k] # <<>> /\ Head(acts[k]) = x
    <3> SUFFICES ASSUME ~ IsEncap(k) PROVE acts[k] # <<>> /\ Head(acts[k]) = x
      OBVIOUS
    <3>1. OwnActions(k) = <<x, y>>
      BY Apartness DEF OwnActions
    <3> QED BY <1>4, <3>1
  <2>2. ASSUME RunAction PROVE Head(acts[Top[2]]) \notin {y}
    <3> SUFFICES ASSUME Head(acts[Top[2]]) = y PROVE FALSE
      OBVIOUS
    <3>1. Top[2] \in Node /\ y \in ToSet(acts[Top[2]])
      BY <2>2, FewerRunAction
    <3>2. Top[2] = k
      <4>1. y \in ActionsOf(Top[2])
        BY <3>1 DEF Shape, DataShape, ActionsTyped
      <4> QED BY <3>1, <4>1, Apartness DEF ActionsOf
    <3>3. IsEncap(k)
      BY <2>1, <3>2
    <3>4. y \in {z}
      BY <3>1, <3>2, <3>3, KeyActions DEF KeyOwns
    <3> QED BY <3>4
  <2>3. Ahead(todo', {y}, {x})
    <3>1. {y} \subseteq {x, y} /\ Top \notin {x}
      BY <1>2
    <3> QED BY <1>1, <1>4, <1>8, <2>2, <3>1, EntryAhead
  <2>4. ASSUME IsEncap(k) PROVE {x, z} \cap (ToSet(acts'[k]) \cup ToSet(todo')) # {}
    <3>1. PICK t \in {x, z} : t \in ToSet(acts[k]) \cup ToSet(todo)
      BY <1>4, <2>4
    <3>2. t # Top
      BY <1>2, <1>8, <3>1
    <3>3. t \in ToSet(acts'[k]) \cup ToSet(todo')
      BY <1>1, <3>1, <3>2, StillThere
    <3> QED BY <3>1, <3>3
  <2>5. ASSUME ~ IsEncap(k) PROVE acts'[k] = OwnActions(k) \/ (todo' # <<>> /\ Top' = x)
    <3>1. CASE acts'[k] = acts[k]
      BY <1>4, <2>5, <3>1
    <3>2. CASE RunAction /\ Top = <<"free", k>>
      <4>1. Top[2] = k
        BY <3>2
      <4> QED BY <2>1, <2>5, <3>2, <4>1, RunTodo
    <3>3. CASE EncapDestroyHook /\ Top = <<"encap_destroy_hook", k>>
      <4>1. TaskIs(Top) /\ Top[1] = "encap_destroy_hook" /\ Top[2] = k
        BY <1>1, <3>3, TopIs DEF Shape
      <4>2. TheObject(k) \in Object
        BY <4>1, ActionIs DEF TaskIs, ActionKinds
      <4> QED BY <2>5, <4>2, Encap
    <3> QED BY <1>1, <3>1, <3>2, <3>3, KeyActs
  <2> QED BY <1>6, <2>3, <2>4, <2>5
<1> QED BY <1>7, <1>8

LEMMA KeyHookedStep ==
  ASSUME Shape, KeyUnder, KeyHooked, Goes
  PROVE  KeyHooked'
<1> SUFFICES ASSUME NEW k \in Key, NEW v \in Object, k \in Under(v)', IsEncap(k),
                    life'[v] = "live", ~ Doomed(v)'
             PROVE  \/ <<"encap_destroy_hook", k>> \in ToSet(acts'[TheObject(k)]) \cup ToSet(todo')
                    \/ {<<"k_encap_cleanup", k>>, <<"unvhash", k, v>>} \cap ToSet(todo') # {}
  BY DEF KeyHooked
<1> DEFINE x == <<"encap_destroy_hook", k>>
           y == <<"k_encap_cleanup", k>>
           z == <<"unvhash", k, v>>
<1>1. Step /\ todo # <<>> /\ TheObject(k) \in Object
  BY StepTodo, Encap DEF Goes
<1>2. /\ k \in Under(v) /\ life[v] = "live" /\ ~ Doomed(v)
      /\ flookup[k].mode \in Ref /\ flookup[k].value = v /\ Top # z
  BY KeyStill
<1>3. \/ x \in ToSet(acts[TheObject(k)]) \/ x \in ToSet(todo)
      \/ y \in ToSet(todo) \/ z \in ToSet(todo)
  BY <1>2 DEF KeyHooked
<1>4. Top = y => z \in ToSet(todo')
  <2> SUFFICES ASSUME Top = y PROVE z \in ToSet(todo')
    OBVIOUS
  <2>1. Top[1] = "k_encap_cleanup"
    OBVIOUS
  <2>2. KEncapCleanup
    BY <1>1, <2>1, StepIs
  <2> QED BY <1>2, <2>2, CleanupPushes DEF Goes
<1>5. Top = x => y \in ToSet(todo')
  BY GoesOn
<1>6. x \in ToSet(acts[TheObject(k)]) => \/ x \in ToSet(acts'[TheObject(k)])
                                          \/ x \in ToSet(todo') \/ Top = y
  BY <1>1, ObjectHookStep
<1> HIDE DEF x, y, z
<1>7. \A t : t \in ToSet(todo) /\ t # Top => t \in ToSet(todo')
  BY <1>1, StillThere
<1>8. \/ x \in ToSet(acts'[TheObject(k)]) \cup ToSet(todo')
      \/ y \in ToSet(todo') \/ z \in ToSet(todo')
  BY <1>2, <1>3, <1>4, <1>5, <1>6, <1>7
<1> QED BY <1>8 DEF x, y, z

LEMMA KeyHookLivesStep ==
  ASSUME Shape, KeyHookLives, Goes
  PROVE  KeyHookLives'
<1> SUFFICES ASSUME NEW k \in Key, IsEncap(k),
                    <<"encap_destroy_hook", k>> \in ToSet(acts'[TheObject(k)]),
                    life'[TheObject(k)] = "live"
             PROVE  /\ obj'[k] \in Ref
                    /\ \/ <<"k_encap_cleanup", k>> \in ToSet(acts'[k])
                       \/ todo' # <<>> /\ Top' = <<"k_encap_cleanup", k>>
  BY DEF KeyHookLives
<1> DEFINE o == TheObject(k)
           x == <<"encap_destroy_hook", k>>
           y == <<"k_encap_cleanup", k>>
<1>1. /\ Step /\ todo # <<>> /\ o \in Object /\ o \in Node /\ k \in Index
      /\ acts \in [Node -> Seq(Action)]
  BY StepTodo, Encap, Apartness DEF Goes, Shape, DataShape, Typed
<1>2. life[o] = "live" /\ x \in ToSet(acts[o])
  BY <1>1, StepEntries, StepFewer DEF Fewer
<1>3. obj[k] \in Ref /\ (y \in ToSet(acts[k]) \/ Top = y)
  BY <1>2 DEF KeyHookLives
<1>4. Top # y
  <2> SUFFICES ASSUME Top = y PROVE FALSE
    OBVIOUS
  <2>1. Top[1] = "k_encap_cleanup"
    OBVIOUS
  <2>2. KEncapCleanup
    BY <1>1, <2>1, StepIs
  <2>3. acts' = Without(acts, o, x)
    BY <1>3, <2>2, CleanupPushes DEF Goes
  <2> HIDE DEF x, y, o
  <2>4. x \notin ToSet(Without(acts, o, x)[o])
    BY <1>1, WithoutHas
  <2> QED BY <2>3, <2>4 DEF x, o
<1>5. y \in ToSet(acts[k])
  BY <1>3, <1>4
<1>6. y \in ToSet(acts'[k]) \/ (todo' # <<>> /\ Top' = y)
  <2> HIDE DEF y
  <2> QED BY <1>1, <1>4, <1>5, StillThere
<1>7. ~ (Top = <<"free", k>> /\ Freed)
  <2> SUFFICES ASSUME Top = <<"free", k>>, Freed PROVE FALSE
    OBVIOUS
  <2>1. Top[2] = k
    OBVIOUS
  <2>2. acts[k] = <<>>
    BY <2>1 DEF Freed
  <2> QED BY <1>5, <2>2, SetOne
<1>8. obj'[k] = obj[k] \/ Cleaned(obj'[k], obj[k], TheObject(k))
  BY <1>1, <1>4, <1>7, StepEntries
<1>9. obj'[k] \in Ref
  BY <1>3, <1>8 DEF Cleaned
<1> QED BY <1>6, <1>9

LEMMA AttrHookedStep ==
  ASSUME Shape, AttrHooked, Goes
  PROVE  AttrHooked'
<1> SUFFICES ASSUME OneType, NEW a \in Attr, attr_lookup'[a] # "none", IsEncap(a)
             PROVE  \/ Hook(a) \in ToSet(acts'[TheObject(a)]) \cup ToSet(todo')
                    \/ {Trigger(a), <<"attr_lookup", a>>} \cap ToSet(todo') # {}
  <2>1. OneType' <=> OneType
    BY DEF OneType
  <2>2. AttrHooked' <=>
          (OneType => \A a \in Attr : attr_lookup'[a] # "none" /\ IsEncap(a) =>
             \/ Hook(a) \in ToSet(acts'[TheObject(a)]) \cup ToSet(todo')
             \/ {Trigger(a), <<"attr_lookup", a>>} \cap ToSet(todo') # {})
    BY <2>1 DEF AttrHooked
  <2> QED BY <2>2
<1> DEFINE o == TheObject(a)
           x == Hook(a)
           y == Trigger(a)
           z == <<"attr_lookup", a>>
<1>1. Step /\ todo # <<>> /\ o \in Object /\ Typed
  BY StepTodo, Encap DEF Goes, Shape, DataShape
<1>2. Top # z
  <2> SUFFICES ASSUME Top = z PROVE FALSE
    OBVIOUS
  <2>1. Top[1] = "attr_lookup" /\ Top[2] = a
    OBVIOUS
  <2>2. attr_lookup' = [attr_lookup EXCEPT ![a] = "none"]
    BY <1>1, <2>1, StepIs DEF DelAttrLookup, Goes
  <2> QED BY <1>1, <2>2 DEF Typed
<1>3. attr_lookup[a] # "none"
  BY <1>1, StepEntries DEF Cleaned
<1>4. \/ x \in ToSet(acts[o]) \/ x \in ToSet(todo) \/ y \in ToSet(todo) \/ z \in ToSet(todo)
  BY <1>3 DEF AttrHooked
<1>5. Top = y => z \in ToSet(todo')
  BY GoesOn
<1>6. Top = x => y \in ToSet(todo')
  BY GoesOn
<1>7. x \in ToSet(acts[o]) => x \in ToSet(acts'[o]) \/ x \in ToSet(todo') \/ Top = y
  <2>1. x \in ToSet(acts[o]) => \/ x \in ToSet(acts'[o]) \/ x \in ToSet(todo')
                                \/ \E b \in Attr : Top = Trigger(b) /\ TheObject(b) = o
    BY <1>1, ObjectHookStep
  <2>2. \A b \in Attr : TheObject(b) = o => b = a
    BY DEF OneType
  <2> QED BY <2>1, <2>2
<1> HIDE DEF x, y, z
<1>8. \A t : t \in ToSet(todo) /\ t # Top => t \in ToSet(todo')
  BY <1>1, StillThere
<1>9. \/ x \in ToSet(acts'[o]) \cup ToSet(todo')
      \/ y \in ToSet(todo') \/ z \in ToSet(todo')
  BY <1>2, <1>4, <1>5, <1>6, <1>7, <1>8
<1> QED BY <1>9 DEF x, y, z

LEMMA TablesStep ==
  ASSUME IInv, IInv', TablesInv, Step
  PROVE  TablesInv'
<1>1. CASE \E what : Fault(what)
  BY <1>1, TablesFault
<1>2. CASE Goes
  <2>1. LiveUnder'
    BY UnderLivesNext
  <2> QED BY <1>2, <2>1, KeyUnderStep, KeyFoundStep, KeyOwnsStep, EmptyStep, VhashActionStep, ValueStep,
             AttrOwnsStep, KeyHookedStep, KeyHookLivesStep, AttrHookedStep DEF IInv, TablesInv
<1> QED BY <1>1, <1>2 DEF Goes

-----------------------------------------------------------------------------
(* Operations.                                                              *)

LEMMA NothingToDo ==
  ASSUME todo = <<>>
  PROVE  (\A x : x \notin ToSet(todo)) /\ (\A U, W : Ahead(todo, U, W)) /\ (\A v : ~ Doomed(v))
<1>1. \A x : x \notin ToSet(todo)
  BY DEF ToSet
<1> QED BY <1>1 DEF Ahead, Doomed

\* An operation that only sets something going.
LEMMA TablesStart ==
  ASSUME TablesInv, todo = <<>>, UNCHANGED <<life, acts, tables, blobs>>, Lacks(todo', EntryKinds)
  PROVE  TablesInv'
<1>1. /\ UNCHANGED life /\ UNCHANGED acts /\ UNCHANGED slookup /\ UNCHANGED flookup
      /\ UNCHANGED rlookup /\ UNCHANGED attr_lookup /\ UNCHANGED obj /\ UNCHANGED attrhash
  BY DEF tables, blobs
<1>2. (\A x : x \notin ToSet(todo)) /\ \A v : ~ Doomed(v)
  BY NothingToDo
<1>3. \A k \in Key : \A U \in SUBSET {<<"slookup", k>>, <<"flookup", k>>} : \A W : Ahead(todo', U, W)
  BY LacksClear DEF EntryKinds
<1>4. \A v : <<"rlookup", v>> \notin ToSet(todo')
  BY DEF Lacks, ToSet, EntryKinds
<1>5. \A v \in Object : Under(v)' = Under(v)
  BY <1>1 DEF Under
<1>6. KeyUnder'
  BY <1>1, <1>2, <1>3, <1>5 DEF TablesInv, KeyUnder
<1>7. KeyFound'
  <2> SUFFICES ASSUME NEW k \in Key, slookup'[k] # "none"
               PROVE  /\ flookup'[k].mode # "none"
                      /\ Ahead(todo', {<<"flookup", k>>}, {<<"slookup", k>>})
                      /\ IF IsEncap(k)
                           THEN {<<"slookup", k>>, <<"k_encap_cleanup", k>>} \cap (ToSet(acts'[k]) \cup ToSet(todo')) # {}
                           ELSE acts'[k] = OwnActions(k) \/ (todo' # <<>> /\ Top' = <<"slookup", k>>)
    BY DEF KeyFound, OwnActions
  <2>1. Ahead(todo', {<<"flookup", k>>}, {<<"slookup", k>>})
    BY <1>3
  <2> QED BY <1>1, <1>2, <2>1 DEF TablesInv, KeyFound
<1>8. KeyOwns'
  BY <1>1 DEF TablesInv, KeyOwns
<1>9. EmptyChecked' /\ VhashAction'
  BY <1>1, <1>2, <1>4 DEF TablesInv, EmptyChecked, VhashAction
<1>10. ValueHooked' /\ AttrOwns'
  BY <1>1, <1>2 DEF TablesInv, ValueHooked, AttrOwns
<1>11. KeyHooked'
  BY <1>1, <1>2, <1>5 DEF TablesInv, KeyHooked
<1>12. KeyHookLives'
  BY <1>1 DEF TablesInv, KeyHookLives
<1>13. AttrHooked'
  BY <1>1, <1>2 DEF TablesInv, AttrHooked, OneType
<1> QED BY <1>6, <1>7, <1>8, <1>9, <1>10, <1>11, <1>12, <1>13 DEF TablesInv

\* What an operation that does not make a node sets going deletes no entry of a key or value
\* at once.
LEMMA OperationStarts ==
  ASSUME Operation
  PROVE  \/ \E o \in Object : New(o)
         \/ \E k \in Key, v \in Object, sv, sk \in BOOLEAN : StoreSk(k, v, sv, sk)
         \/ \E a \in Attr, v \in Object, sv, sa \in BOOLEAN : StoreA(a, v, sv, sa)
         \/ todo = <<>> /\ UNCHANGED <<life, acts, tables, blobs>> /\ Lacks(todo', EntryKinds)
<1>1. CASE \E o \in Object : Drop(o) \/ Purge(o)
  BY <1>1, EntryOne DEF Idle, Drop, Purge, heap, EntryKinds
<1>2. CASE Destroy
  BY <1>2, EntryOne DEF Idle, Destroy, heap, EntryKinds
<1>3. CASE \E k \in Key : FetchSk(k) \/ UnlinkSk(k) \/ PurgeBySk(k)
  BY <1>3, EntryOne DEF Idle, FetchSk, Take, UnlinkSk, PurgeBySk, EntryKinds
<1>4. CASE \E a \in Attr : FetchA(a) \/ UnlinkA(a) \/ \E v \in Object : DissocA(a, v)
  BY <1>4, EntryOne DEF Idle, FetchA, Take, UnlinkA, DissocA, heap, EntryKinds
<1>5. ASSUME NEW a \in Attr, PurgeByA(a)
      PROVE  todo = <<>> /\ UNCHANGED <<life, acts, tables, blobs>> /\ Lacks(todo', EntryKinds)
  <2> DEFINE V == {v \in Object : attrhash[a][v] \in Ref}
             y == <<"decall", V>>
  <2>1. PICK s \in SetToSeqs(V) : todo' = [i \in 1..Len(s) |-> <<"purge", s[i]>>] \o <<y>>
    BY <1>5 DEF PurgeByA
  <2>2. s \in Seq(V)
    <3>1. IsFiniteSet(V)
      BY Finite, FS_Subset
    <3> QED BY <3>1, OrderProps
  <2> DEFINE p == [i \in 1..Len(s) |-> <<"purge", s[i]>>]
  <2>3. Lacks(p, EntryKinds) /\ Lacks(<<y>>, EntryKinds)
    <3>1. Len(p) = Len(s) /\ Len(s) \in Nat /\ \A i \in 1..Len(p) : p[i][1] = "purge"
      BY <2>2
    <3>2. y[1] \notin EntryKinds
      BY DEF EntryKinds
    <3> HIDE DEF p, y
    <3> QED BY <3>1, <3>2, EntryOne DEF Lacks, EntryKinds
  <2> HIDE DEF p, y
  <2>4. Lacks(p \o <<y>>, EntryKinds)
    BY <2>3, EntryConcat
  <2> QED BY <1>5, <2>1, <2>4 DEF p, PurgeByA, Idle
<1> QED BY <1>1, <1>2, <1>3, <1>4, <1>5 DEF Operation

\* What a new object finds at its address.
LEMMA TablesNew ==
  ASSUME Shape, FreeClean, TablesInv, NEW o \in Object, New(o)
  PROVE  TablesInv'
<1>1. /\ UNCHANGED acts /\ UNCHANGED slookup /\ UNCHANGED flookup /\ UNCHANGED todo
      /\ UNCHANGED rlookup /\ UNCHANGED attr_lookup /\ UNCHANGED obj /\ UNCHANGED attrhash
      /\ todo = <<>> /\ life[o] = "free" /\ o \in Node
      /\ \A n \in Node : n # o => life'[n] = life[n]
  BY Apartness DEF New, Idle, tables, blobs, Shape, DataShape, Typed
<1>2. /\ \A x : x \notin ToSet(todo)
      /\ \A x : x \notin ToSet(acts[o])
      /\ rlookup[o] = Null
  <2>1. acts[o] = <<>> /\ rlookup[o] = Null
    BY <1>1 DEF FreeClean
  <2> QED BY <1>1, <2>1, NothingToDo DEF ToSet
<1>3. \A v \in Object : Under(v)' = Under(v)
  BY <1>1 DEF Under
<1>4. Under(o) = {}
  BY <1>2 DEF Under
<1>5. Doomed(o)' <=> Doomed(o)
  BY <1>1 DEF Doomed
<1>6. KeyUnder'
  <2> SUFFICES ASSUME NEW k \in Key, NEW v \in Object, k \in Under(v)'
               PROVE  \/ life'[v] # "live" \/ Doomed(v)'
                      \/ /\ slookup'[k] = "weak" /\ flookup'[k].mode \in Ref /\ flookup'[k].value = v
                         /\ Ahead(todo', {<<"slookup", k>>, <<"flookup", k>>}, {<<"unvhash", k, v>>})
    BY DEF KeyUnder
  <2>1. v # o /\ k \in Under(v) /\ v \in Node
    BY <1>3, <1>4, Apartness
  <2> QED BY <1>1, <2>1 DEF TablesInv, KeyUnder, Doomed
<1>7. KeyFound'
  BY <1>1 DEF TablesInv, KeyFound, Top
<1>8. KeyOwns'
  BY <1>1 DEF TablesInv, KeyOwns
<1>9. EmptyChecked' /\ VhashAction'
  BY <1>1 DEF TablesInv, EmptyChecked, VhashAction
<1>10. ValueHooked'
  <2> SUFFICES ASSUME NEW a \in Attr, NEW v \in Object
               PROVE  /\ attrhash'[a][v] # "none" => <<"attrhash", a, v>> \in ToSet(acts'[v]) \cup ToSet(todo')
                      /\ <<"attrhash", a, v>> \in ToSet(acts'[v]) /\ life'[v] = "live" => attrhash'[a][v] # "none"
                      /\ attrhash'[a][v] = "undef" => life'[v] # "live"
    BY DEF ValueHooked
  <2>1. CASE v = o
    BY <1>1, <1>2, <2>1 DEF TablesInv, ValueHooked
  <2>2. CASE v # o
    BY <1>1, <2>2, Apartness DEF TablesInv, ValueHooked
  <2> QED BY <2>1, <2>2
<1>11. AttrOwns'
  <2>1. \A a \in Attr : life'[a] = life[a]
    BY <1>1, Apartness
  <2> QED BY <1>1, <2>1 DEF TablesInv, AttrOwns
<1>12. KeyHooked'
  <2> SUFFICES ASSUME NEW k \in Key, NEW v \in Object, k \in Under(v)', IsEncap(k)
               PROVE  \/ life'[v] # "live" \/ Doomed(v)'
                      \/ <<"encap_destroy_hook", k>> \in ToSet(acts'[TheObject(k)]) \cup ToSet(todo')
                      \/ {<<"k_encap_cleanup", k>>, <<"unvhash", k, v>>} \cap ToSet(todo') # {}
    BY DEF KeyHooked
  <2>1. v # o /\ k \in Under(v) /\ v \in Node
    BY <1>3, <1>4, Apartness
  <2> QED BY <1>1, <2>1 DEF TablesInv, KeyHooked, Doomed
<1>13. KeyHookLives'
  <2> SUFFICES ASSUME NEW k \in Key, IsEncap(k), <<"encap_destroy_hook", k>> \in ToSet(acts'[TheObject(k)])
               PROVE  \/ life'[TheObject(k)] # "live"
                      \/ /\ obj'[k] \in Ref
                         /\ <<"k_encap_cleanup", k>> \in ToSet(acts'[k]) \/ (todo' # <<>> /\ Top' = <<"k_encap_cleanup", k>>)
    BY DEF KeyHookLives
  <2>1. TheObject(k) # o /\ TheObject(k) \in Node
    BY <1>1, <1>2, Encap, Apartness
  <2> QED BY <1>1, <2>1 DEF TablesInv, KeyHookLives, Top
<1>14. AttrHooked'
  BY <1>1 DEF TablesInv, AttrHooked, OneType
<1> QED BY <1>6, <1>7, <1>8, <1>9, <1>10, <1>11, <1>12, <1>13, <1>14 DEF TablesInv

\* A key that is stored hooks its object.
LEMMA ObjectHookedSk ==
  ASSUME Shape, NEW k \in Key, NEW v \in Object, NEW sv \in BOOLEAN, NEW sk \in BOOLEAN,
         StoreSk(k, v, sv, sk), IsEncap(k)
  PROVE  <<"encap_destroy_hook", k>> \in ToSet(acts'[TheObject(k)])
<1> DEFINE o == TheObject(k)
           x == <<"rlookup", v>>
           y == <<"encap_destroy_hook", k>>
           keyed == [acts EXCEPT ![k] = OwnActions(k)]
           hooked == Added(keyed, o, y)
<1>1. k \in Index /\ k \in Node /\ v \in Node /\ x \in Action /\ o \in Node /\ y \in Action
  BY Apartness, ActionTasks, Encap
<1>2. acts' = Added(hooked, v, x) /\ acts \in [Node -> Seq(Action)]
  BY DEF StoreSk, Shape, DataShape, Typed
<1>3. keyed \in [Node -> Seq(Action)]
  BY <1>1, <1>2, OwnActionsProps
<1> HIDE DEF x, y, o, keyed
<1>4. hooked \in [Node -> Seq(Action)] /\ y \in ToSet(hooked[o])
  BY <1>1, <1>3, AddedHas
<1> HIDE DEF hooked
<1>5. y \in ToSet(acts'[o])
  BY <1>1, <1>2, <1>4, AddedHas
<1> QED BY <1>5 DEF y, o

\* A value that is stored under an attribute has the action that takes it out, and an
\* attribute that is made hooks its object.
LEMMA ObjectHookedA ==
  ASSUME Shape, NEW a \in Attr, NEW v \in Object, NEW sv \in BOOLEAN, NEW sa \in BOOLEAN,
         StoreA(a, v, sv, sa)
  PROVE  /\ <<"attrhash", a, v>> \in ToSet(acts'[v])
         /\ IsEncap(a) /\ attr_lookup[a] = "none" => Hook(a) \in ToSet(acts'[TheObject(a)])
<1> DEFINE new == attr_lookup[a] = "none"
           o == TheObject(a)
           x == <<"rlookup", v>>
           y == Hook(a)
           z == <<"attrhash", a, v>>
           own == IF new THEN [acts EXCEPT ![a] = OwnActions(a)] ELSE acts
           hooked == IF new /\ IsEncap(a) THEN Added(own, o, y) ELSE own
           reversed == IF rlookup[v] = Null THEN Added(hooked, v, x) ELSE hooked
<1>1. /\ a \in Index /\ a \in Node /\ v \in Node /\ z \in Action
      /\ x \in Action /\ (IsEncap(a) => o \in Node /\ y \in Action)
  BY Apartness, ActionTasks, Encap DEF Hook
<1>2. acts' = Added(reversed, v, z) /\ acts \in [Node -> Seq(Action)]
  BY DEF StoreA, Shape, DataShape, Typed, Hook
<1>3. own \in [Node -> Seq(Action)]
  BY <1>1, <1>2, OwnActionsProps
<1> HIDE DEF x, y, z, o, own
<1>4. /\ hooked \in [Node -> Seq(Action)]
      /\ new /\ IsEncap(a) => y \in ToSet(hooked[o])
  <2>1. CASE new /\ IsEncap(a)
    <3>1. hooked = Added(own, o, y) /\ o \in Node /\ y \in Action
      BY <1>1, <2>1
    <3> HIDE DEF hooked
    <3> QED BY <1>3, <3>1, AddedHas
  <2>2. CASE ~ (new /\ IsEncap(a))
    BY <1>3, <2>2
  <2> QED BY <2>1, <2>2
<1> HIDE DEF hooked, new
<1>5. /\ reversed \in [Node -> Seq(Action)]
      /\ \A n \in Node : \A b : b \in ToSet(hooked[n]) => b \in ToSet(reversed[n])
  <2>1. CASE rlookup[v] = Null
    <3>1. reversed = Added(hooked, v, x)
      BY <2>1
    <3> HIDE DEF reversed
    <3> QED BY <1>1, <1>4, <3>1, AddedHas
  <2>2. CASE rlookup[v] # Null
    BY <1>4, <2>2
  <2> QED BY <2>1, <2>2
<1> HIDE DEF reversed
<1>6. \A n \in Node : \A b : b \in ToSet(acts'[n]) <=> b \in ToSet(reversed[n]) \/ (n = v /\ b = z)
  BY <1>1, <1>2, <1>5, AddedHas
<1>7. z \in ToSet(acts'[v])
  BY <1>1, <1>6
<1>8. new /\ IsEncap(a) => y \in ToSet(acts'[o])
  BY <1>1, <1>4, <1>5, <1>6
<1> QED BY <1>7, <1>8 DEF x, y, z, o, new

\* The entries of a key that is stored.
LEMMA EntriesSk ==
  ASSUME Shape, NEW k \in Key, NEW v \in Object, NEW sv \in BOOLEAN, NEW sk \in BOOLEAN,
         StoreSk(k, v, sv, sk)
  PROVE  /\ todo = <<>> /\ UNCHANGED todo /\ UNCHANGED attr_lookup /\ UNCHANGED attrhash
         /\ life[k] = "free"
         /\ \A n \in Node : n # k => life'[n] = life[n]
         /\ \A j \in Key : j # k => slookup'[j] = slookup[j] /\ flookup'[j] = flookup[j] /\ obj'[j] = obj[j]
         /\ slookup'[k] = "weak" /\ flookup'[k].mode \in Ref /\ flookup'[k].value = v
         /\ IsEncap(k) => obj'[k] \in Ref
         /\ \A u \in Object : u # v => Under(u)' = Under(u) /\ rlookup'[u] = rlookup[u]
         /\ Under(v)' = Under(v) \cup {k} /\ k \in rlookup'[v] /\ rlookup'[v] # Null
         /\ \A n \in Index : n # k => acts'[n] = acts[n]
         /\ acts'[k] = OwnActions(k)
<1>1. /\ todo = <<>> /\ UNCHANGED todo /\ UNCHANGED attr_lookup /\ UNCHANGED attrhash
      /\ life[k] = "free"
  BY DEF StoreSk, Idle
<1>2. k \in Node /\ k \in Index /\ v # k
  BY Apartness
<1>3. \A n \in Node : n # k => life'[n] = life[n]
  BY DEF StoreSk, Shape, DataShape, Typed
<1>4. \A j \in Key : j # k => slookup'[j] = slookup[j] /\ flookup'[j] = flookup[j] /\ obj'[j] = obj[j]
  BY DEF StoreSk, Shape, DataShape, Typed
<1>5. /\ slookup'[k] = "weak" /\ flookup'[k].mode \in Ref /\ flookup'[k].value = v
      /\ IsEncap(k) => obj'[k] \in Ref
  BY <1>2 DEF StoreSk, Shape, DataShape, Typed, Mode, Ref
<1>6. /\ \A u \in Object : u # v => rlookup'[u] = rlookup[u]
      /\ rlookup'[v] = Under(v) \cup {k} /\ Under(v) \subseteq Index
  BY DEF StoreSk, WithVhash, Shape, DataShape, Typed, Under
<1>7. rlookup'[v] # Null
  <2>1. Under(v) \cup {k} \in SUBSET Index
    BY <1>2, <1>6
  <2> QED BY <1>6, <2>1, Apartness
<1>8. /\ \A u \in Object : u # v => Under(u)' = Under(u)
      /\ Under(v)' = Under(v) \cup {k}
  BY <1>6, <1>7 DEF Under
<1>9. \A n \in Index : n # k => acts'[n] = acts[n]
  <2> SUFFICES ASSUME NEW n \in Index, n # k PROVE acts'[n] = acts[n]
    OBVIOUS
  <2>1. n \in Node /\ n # v /\ ~ (IsEncap(k) /\ n = TheObject(k))
    BY Apartness, Encap
  <2> QED BY <2>1, StoredSk
<1>10. acts'[k] = OwnActions(k)
  BY OwnStored
<1> QED BY <1>1, <1>3, <1>4, <1>5, <1>6, <1>7, <1>8, <1>9, <1>10

\* What is on the lists of objects when a key has been stored.
LEMMA ObjectsSk ==
  ASSUME Shape, NEW k \in Key, NEW v \in Object, NEW sv \in BOOLEAN, NEW sk \in BOOLEAN,
         StoreSk(k, v, sv, sk), NEW o \in Object
  PROVE  /\ \A b : b \in ToSet(acts[o]) => b \in ToSet(acts'[o])
         /\ \A b : b \in ToSet(acts'[o]) =>
              b \in ToSet(acts[o]) \/ b = <<"rlookup", v>> \/ b = <<"encap_destroy_hook", k>>
<1>1. o \in Node /\ o # k
  BY Apartness
<1> QED BY <1>1, StoredSk

LEMMA TablesStoreSk ==
  ASSUME Shape, LiveUnder, TablesInv, NEW k \in Key, NEW v \in Object, NEW sv \in BOOLEAN, NEW sk \in BOOLEAN,
         StoreSk(k, v, sv, sk)
  PROVE  TablesInv'
<1>1. /\ todo = <<>> /\ UNCHANGED todo /\ UNCHANGED attr_lookup /\ UNCHANGED attrhash
      /\ life[k] = "free"
      /\ \A n \in Node : n # k => life'[n] = life[n]
      /\ \A j \in Key : j # k => slookup'[j] = slookup[j] /\ flookup'[j] = flookup[j] /\ obj'[j] = obj[j]
      /\ slookup'[k] = "weak" /\ flookup'[k].mode \in Ref /\ flookup'[k].value = v
      /\ IsEncap(k) => obj'[k] \in Ref
      /\ \A u \in Object : u # v => Under(u)' = Under(u) /\ rlookup'[u] = rlookup[u]
      /\ Under(v)' = Under(v) \cup {k} /\ k \in rlookup'[v] /\ rlookup'[v] # Null
      /\ \A n \in Index : n # k => acts'[n] = acts[n]
      /\ acts'[k] = OwnActions(k)
  BY EntriesSk
<1>2. \A o \in Object : o \in Node /\ o # k /\ life'[o] = life[o]
  BY <1>1, Apartness
<1>3. \A u \in Object : k \notin Under(u)
  BY <1>1 DEF LiveUnder
<1>4. /\ \A x : x \notin ToSet(todo) /\ x \notin ToSet(todo')
      /\ \A U, W : Ahead(todo', U, W)
      /\ \A u : ~ Doomed(u)
  BY <1>1, NothingToDo
<1>5. Ref \subseteq {"strong", "weak"} /\ "none" \notin Ref
  BY DEF Ref
<1>6. KeyUnder'
  <2> SUFFICES ASSUME NEW j \in Key, NEW u \in Object, j \in Under(u)', life'[u] = "live"
               PROVE  /\ slookup'[j] = "weak" /\ flookup'[j].mode \in Ref /\ flookup'[j].value = u
                      /\ Ahead(todo', {<<"slookup", j>>, <<"flookup", j>>}, {<<"unvhash", j, u>>})
    BY DEF KeyUnder
  <2>1. CASE j = k
    BY <1>1, <1>3, <1>4, <2>1
  <2>2. CASE j # k
    <3>1. j \in Under(u)
      BY <1>1, <2>2
    <3> QED BY <1>1, <1>2, <1>4, <2>2, <3>1 DEF TablesInv, KeyUnder
  <2> QED BY <2>1, <2>2
<1>7. KeyFound'
  <2> SUFFICES ASSUME NEW j \in Key, slookup'[j] # "none"
               PROVE  /\ flookup'[j].mode # "none"
                      /\ Ahead(todo', {<<"flookup", j>>}, {<<"slookup", j>>})
                      /\ IF IsEncap(j)
                           THEN {<<"slookup", j>>, <<"k_encap_cleanup", j>>} \cap (ToSet(acts'[j]) \cup ToSet(todo')) # {}
                           ELSE acts'[j] = OwnActions(j) \/ (todo' # <<>> /\ Top' = <<"slookup", j>>)
    BY DEF KeyFound, OwnActions
  <2>1. CASE j = k
    <3>1. IsEncap(k) => <<"k_encap_cleanup", k>> \in ToSet(acts'[k])
      BY <1>1, KeyActions
    <3> QED BY <1>1, <1>4, <1>5, <2>1, <3>1
  <2>2. CASE j # k
    <3>1. j \in Index
      BY DEF Index
    <3> QED BY <1>1, <1>4, <2>2, <3>1 DEF TablesInv, KeyFound
  <2> QED BY <2>1, <2>2
<1>8. KeyOwns'
  <2> SUFFICES ASSUME NEW j \in Key
               PROVE  /\ ToSet(acts'[j]) \subseteq ToSet(OwnActions(j))
                      /\ flookup'[j].mode = "none" => flookup'[j] = NoValue
    BY DEF KeyOwns, OwnActions, NoValue
  <2>1. j \in Index
    BY DEF Index
  <2> QED BY <1>1, <1>5, <2>1 DEF TablesInv, KeyOwns
<1>9. EmptyChecked'
  BY <1>1, <1>4 DEF TablesInv, EmptyChecked
<1>10. VhashAction'
  <2> SUFFICES ASSUME NEW u \in Object, <<"rlookup", u>> \in ToSet(acts'[u])
               PROVE  rlookup'[u] # Null
    BY <1>4 DEF VhashAction
  <2>1. CASE u = v
    BY <1>1, <2>1
  <2>2. CASE u # v
    <3>1. <<"rlookup", u>> # <<"rlookup", v>> /\ <<"rlookup", u>> # <<"encap_destroy_hook", k>>
      BY <2>2
    <3>2. <<"rlookup", u>> \in ToSet(acts[u])
      BY <3>1, ObjectsSk
    <3> QED BY <1>1, <2>2, <3>2 DEF TablesInv, VhashAction
  <2> QED BY <2>1, <2>2
<1>11. ValueHooked'
  <2> SUFFICES ASSUME NEW a \in Attr, NEW u \in Object
               PROVE  /\ attrhash'[a][u] # "none" => <<"attrhash", a, u>> \in ToSet(acts'[u]) \cup ToSet(todo')
                      /\ <<"attrhash", a, u>> \in ToSet(acts'[u]) /\ life'[u] = "live" => attrhash'[a][u] # "none"
                      /\ attrhash'[a][u] = "undef" => life'[u] # "live"
    BY DEF ValueHooked
  <2>1. <<"attrhash", a, u>> # <<"rlookup", v>> /\ <<"attrhash", a, u>> # <<"encap_destroy_hook", k>>
    OBVIOUS
  <2>2. <<"attrhash", a, u>> \in ToSet(acts'[u]) <=> <<"attrhash", a, u>> \in ToSet(acts[u])
    BY <2>1, ObjectsSk
  <2> QED BY <1>1, <1>2, <1>4, <2>2 DEF TablesInv, ValueHooked
<1>12. AttrOwns'
  <2>1. \A a \in Attr : a \in Index /\ a # k /\ a \in Node
    BY Apartness
  <2> QED BY <1>1, <1>4, <2>1 DEF TablesInv, AttrOwns
<1>13. KeyHooked'
  <2> SUFFICES ASSUME NEW j \in Key, NEW u \in Object, j \in Under(u)', IsEncap(j), life'[u] = "live"
               PROVE  <<"encap_destroy_hook", j>> \in ToSet(acts'[TheObject(j)])
    BY DEF KeyHooked
  <2>1. CASE j = k
    BY <2>1, ObjectHookedSk
  <2>2. CASE j # k
    <3>1. j \in Under(u) /\ TheObject(j) \in Object
      BY <1>1, <2>2, Encap
    <3>2. <<"encap_destroy_hook", j>> \in ToSet(acts[TheObject(j)])
      BY <1>2, <1>4, <3>1 DEF TablesInv, KeyHooked
    <3> QED BY <3>1, <3>2, ObjectsSk
  <2> QED BY <2>1, <2>2
<1>14. KeyHookLives'
  <2> SUFFICES ASSUME NEW j \in Key, IsEncap(j), <<"encap_destroy_hook", j>> \in ToSet(acts'[TheObject(j)])
               PROVE  \/ life'[TheObject(j)] # "live"
                      \/ obj'[j] \in Ref /\ <<"k_encap_cleanup", j>> \in ToSet(acts'[j])
    BY DEF KeyHookLives
  <2>1. CASE j = k
    BY <1>1, <2>1, KeyActions
  <2>2. CASE j # k
    <3>1. TheObject(j) \in Object /\ j \in Index
      BY Encap DEF Index
    <3>2. <<"encap_destroy_hook", j>> # <<"rlookup", v>> /\ <<"encap_destroy_hook", j>> # <<"encap_destroy_hook", k>>
      BY <2>2
    <3>3. <<"encap_destroy_hook", j>> \in ToSet(acts[TheObject(j)])
      BY <3>1, <3>2, ObjectsSk
    <3> QED BY <1>1, <1>2, <2>2, <3>1, <3>3 DEF TablesInv, KeyHookLives
  <2> QED BY <2>1, <2>2
<1>15. AttrHooked'
  <2> SUFFICES ASSUME OneType, NEW a \in Attr, attr_lookup'[a] # "none", IsEncap(a)
               PROVE  \/ Hook(a) \in ToSet(acts'[TheObject(a)]) \cup ToSet(todo')
                      \/ {Trigger(a), <<"attr_lookup", a>>} \cap ToSet(todo') # {}
    BY DEF AttrHooked, OneType
  <2>1. TheObject(a) \in Object
    BY Encap
  <2>2. Hook(a) \in ToSet(acts[TheObject(a)])
    BY <1>1, <1>4 DEF TablesInv, AttrHooked
  <2> QED BY <2>1, <2>2, ObjectsSk
<1> QED BY <1>6, <1>7, <1>8, <1>9, <1>10, <1>11, <1>12, <1>13, <1>14, <1>15 DEF TablesInv

\* The entries of an attribute that is given a value.
LEMMA EntriesA ==
  ASSUME Shape, WeakLive, NEW a \in Attr, NEW v \in Object, NEW sv \in BOOLEAN, NEW sa \in BOOLEAN,
         StoreA(a, v, sv, sa)
  PROVE  /\ todo = <<>> /\ UNCHANGED todo /\ UNCHANGED slookup /\ UNCHANGED flookup
         /\ attr_lookup[a] = "none" => life[a] = "free"
         /\ attr_lookup[a] # "none" => life[a] = "live"
         /\ life'[a] = "live" /\ attr_lookup'[a] = "weak"
         /\ \A n \in Node : n # a => life'[n] = life[n]
         /\ \A b \in Attr : b # a => attr_lookup'[b] = attr_lookup[b]
         /\ \A k \in Key : obj'[k] = obj[k]
         /\ attrhash'[a][v] \in Ref
         /\ \A b \in Attr, u \in Object : b # a \/ u # v => attrhash'[b][u] = attrhash[b][u]
         /\ \A u \in Object : u # v => Under(u)' = Under(u) /\ rlookup'[u] = rlookup[u]
         /\ Under(v)' = Under(v) \cup {a} /\ a \in rlookup'[v] /\ rlookup'[v] # Null
         /\ \A n \in Index : n # a => acts'[n] = acts[n]
<1>1. /\ todo = <<>> /\ UNCHANGED todo /\ UNCHANGED slookup /\ UNCHANGED flookup
      /\ attr_lookup[a] # "undef" /\ (attr_lookup[a] = "none" => life[a] = "free")
  BY DEF StoreA, Idle
<1>2. a \in Node /\ a \in Index /\ v # a
  BY Apartness
<1>3. attr_lookup[a] # "none" => life[a] = "live"
  BY <1>1 DEF WeakLive, Shape, DataShape, Typed, Entry, Ref
<1>4. /\ life'[a] = "live" /\ attr_lookup'[a] = "weak"
      /\ \A n \in Node : n # a => life'[n] = life[n]
      /\ \A b \in Attr : b # a => attr_lookup'[b] = attr_lookup[b]
  BY <1>2 DEF StoreA, Shape, DataShape, Typed
<1>5. \A k \in Key : obj'[k] = obj[k]
  <2>1. \A k \in Key : k # a
    BY Apartness
  <2>2. obj' = obj \/ obj' = [obj EXCEPT ![a] = Mode(sa)]
    BY DEF StoreA
  <2> QED BY <2>1, <2>2 DEF Shape, DataShape, Typed, Index
<1>6. /\ attrhash'[a][v] \in Ref
      /\ \A b \in Attr, u \in Object : b # a \/ u # v => attrhash'[b][u] = attrhash[b][u]
  <2>1. attrhash' = [attrhash EXCEPT ![a][v] = Mode(sv)] /\ Mode(sv) \in Ref
    BY DEF StoreA, Mode, Ref
  <2> QED BY <2>1 DEF Shape, DataShape, Typed
<1>7. /\ \A u \in Object : u # v => rlookup'[u] = rlookup[u]
      /\ rlookup'[v] = Under(v) \cup {a} /\ Under(v) \subseteq Index
  <2>1. rlookup' = WithVhash(v, a)
    BY DEF StoreA
  <2> QED BY <2>1 DEF WithVhash, Shape, DataShape, Typed, Under
<1>8. rlookup'[v] # Null
  <2>1. Under(v) \cup {a} \in SUBSET Index
    BY <1>2, <1>7
  <2> QED BY <1>7, <2>1, Apartness
<1>9. /\ \A u \in Object : u # v => Under(u)' = Under(u)
      /\ Under(v)' = Under(v) \cup {a}
  BY <1>7, <1>8 DEF Under
<1>10. \A n \in Index : n # a => acts'[n] = acts[n]
  <2> SUFFICES ASSUME NEW n \in Index, n # a PROVE acts'[n] = acts[n]
    OBVIOUS
  <2>1. n \in Node /\ n # v /\ ~ (IsEncap(a) /\ n = TheObject(a))
    BY Apartness, Encap
  <2> QED BY <2>1, StoredElsewhere
<1> QED BY <1>1, <1>3, <1>4, <1>5, <1>6, <1>7, <1>8, <1>9, <1>10

\* What is on the lists of objects when an attribute has been given a value.
LEMMA ObjectsA ==
  ASSUME Shape, NEW a \in Attr, NEW v \in Object, NEW sv \in BOOLEAN, NEW sa \in BOOLEAN,
         StoreA(a, v, sv, sa), NEW o \in Object
  PROVE  /\ \A b : b \in ToSet(acts[o]) => b \in ToSet(acts'[o])
         /\ \A b : b \in ToSet(acts'[o]) =>
              b \in ToSet(acts[o]) \/ b = <<"rlookup", v>> \/ b = <<"attrhash", a, v>> \/ b = Hook(a)
<1>1. o \in Node /\ o # a
  BY Apartness
<1>2. /\ \A n \in Node : \A b : n # a /\ b \in ToSet(acts[n]) => b \in ToSet(acts'[n])
      /\ rlookup[v] = Null => <<"rlookup", v>> \in ToSet(acts'[v])
      /\ Trigger(a) \in ToSet(acts'[a]) \/ (attr_lookup[a] # "none" /\ acts'[a] = acts[a])
      /\ \A n \in Node : \A b : n # a /\ b \in ToSet(acts'[n]) =>
           \/ b \in ToSet(acts[n]) \/ b = <<"rlookup", v>> \/ b = <<"attrhash", a, v>>
           \/ b = Hook(a) /\ attr_lookup[a] = "none" /\ IsEncap(a)
      /\ \A n \in Node : n # a /\ n # v /\ ~ (IsEncap(a) /\ n = TheObject(a)) => acts'[n] = acts[n]
      /\ (\A n \in Node : NoDuplicate(acts[n])) => \A n \in Node : NoDuplicate(acts'[n])
  BY StoredA, Zenon
<1> QED BY <1>1, <1>2

LEMMA TablesStoreA ==
  ASSUME Shape, WeakLive, TablesInv, NEW a \in Attr, NEW v \in Object, NEW sv \in BOOLEAN, NEW sa \in BOOLEAN,
         StoreA(a, v, sv, sa)
  PROVE  TablesInv'
<1>1. /\ todo = <<>> /\ UNCHANGED todo /\ UNCHANGED slookup /\ UNCHANGED flookup
      /\ attr_lookup[a] = "none" => life[a] = "free"
      /\ attr_lookup[a] # "none" => life[a] = "live"
      /\ life'[a] = "live" /\ attr_lookup'[a] = "weak"
      /\ \A n \in Node : n # a => life'[n] = life[n]
      /\ \A b \in Attr : b # a => attr_lookup'[b] = attr_lookup[b]
      /\ \A k \in Key : obj'[k] = obj[k]
      /\ attrhash'[a][v] \in Ref
      /\ \A b \in Attr, u \in Object : b # a \/ u # v => attrhash'[b][u] = attrhash[b][u]
      /\ \A u \in Object : u # v => Under(u)' = Under(u) /\ rlookup'[u] = rlookup[u]
      /\ Under(v)' = Under(v) \cup {a} /\ a \in rlookup'[v] /\ rlookup'[v] # Null
      /\ \A n \in Index : n # a => acts'[n] = acts[n]
  BY EntriesA
<1>2. /\ \A o \in Object : life'[o] = life[o]
      /\ \A k \in Key : k # a /\ k \in Index /\ acts'[k] = acts[k]
  BY <1>1, Apartness
<1>3. \A k \in Key, u \in Object : k \in Under(u)' => k \in Under(u)
  BY <1>1, <1>2
<1>4. /\ \A x : x \notin ToSet(todo) /\ x \notin ToSet(todo')
      /\ \A U, W : Ahead(todo', U, W)
      /\ \A u : ~ Doomed(u)
  BY <1>1, NothingToDo
<1>5. Ref \subseteq {"strong", "weak"} /\ "none" \notin Ref /\ "undef" \notin Ref
  BY DEF Ref
<1>6. KeyUnder'
  <2> SUFFICES ASSUME NEW j \in Key, NEW u \in Object, j \in Under(u)', life'[u] = "live"
               PROVE  /\ slookup'[j] = "weak" /\ flookup'[j].mode \in Ref /\ flookup'[j].value = u
                      /\ Ahead(todo', {<<"slookup", j>>, <<"flookup", j>>}, {<<"unvhash", j, u>>})
    BY DEF KeyUnder
  <2> QED BY <1>1, <1>2, <1>3, <1>4 DEF TablesInv, KeyUnder
<1>7. KeyFound'
  <2> SUFFICES ASSUME NEW j \in Key, slookup'[j] # "none"
               PROVE  /\ flookup'[j].mode # "none"
                      /\ Ahead(todo', {<<"flookup", j>>}, {<<"slookup", j>>})
                      /\ IF IsEncap(j)
                           THEN {<<"slookup", j>>, <<"k_encap_cleanup", j>>} \cap (ToSet(acts'[j]) \cup ToSet(todo')) # {}
                           ELSE acts'[j] = OwnActions(j) \/ (todo' # <<>> /\ Top' = <<"slookup", j>>)
    BY DEF KeyFound, OwnActions
  <2> QED BY <1>1, <1>2, <1>4 DEF TablesInv, KeyFound
<1>8. KeyOwns'
  <2> SUFFICES ASSUME NEW j \in Key
               PROVE  /\ ToSet(acts'[j]) \subseteq ToSet(OwnActions(j))
                      /\ flookup'[j].mode = "none" => flookup'[j] = NoValue
    BY DEF KeyOwns, OwnActions, NoValue
  <2> QED BY <1>1, <1>2 DEF TablesInv, KeyOwns
<1>9. EmptyChecked'
  BY <1>1, <1>4 DEF TablesInv, EmptyChecked
<1>10. VhashAction'
  <2> SUFFICES ASSUME NEW u \in Object, <<"rlookup", u>> \in ToSet(acts'[u])
               PROVE  rlookup'[u] # Null
    BY <1>4 DEF VhashAction
  <2>1. CASE u = v
    BY <1>1, <2>1
  <2>2. CASE u # v
    <3>1. <<"rlookup", u>> # <<"rlookup", v>> /\ <<"rlookup", u>> # <<"attrhash", a, v>> /\ <<"rlookup", u>> # Hook(a)
      BY <2>2 DEF Hook
    <3>2. <<"rlookup", u>> \in ToSet(acts[u])
      BY <3>1, ObjectsA
    <3> QED BY <1>1, <2>2, <3>2 DEF TablesInv, VhashAction
  <2> QED BY <2>1, <2>2
<1>11. ValueHooked'
  <2> SUFFICES ASSUME NEW b \in Attr, NEW u \in Object
               PROVE  /\ attrhash'[b][u] # "none" => <<"attrhash", b, u>> \in ToSet(acts'[u]) \cup ToSet(todo')
                      /\ <<"attrhash", b, u>> \in ToSet(acts'[u]) /\ life'[u] = "live" => attrhash'[b][u] # "none"
                      /\ attrhash'[b][u] = "undef" => life'[u] # "live"
    BY DEF ValueHooked
  <2>1. CASE b = a /\ u = v
    BY <1>1, <1>5, <2>1, ObjectHookedA
  <2>2. CASE b # a \/ u # v
    <3>1. <<"attrhash", b, u>> # <<"rlookup", v>> /\ <<"attrhash", b, u>> # <<"attrhash", a, v>> /\ <<"attrhash", b, u>> # Hook(a)
      BY <2>2 DEF Hook
    <3>2. <<"attrhash", b, u>> \in ToSet(acts'[u]) <=> <<"attrhash", b, u>> \in ToSet(acts[u])
      BY <3>1, ObjectsA
    <3> QED BY <1>1, <1>2, <1>4, <2>2, <3>2 DEF TablesInv, ValueHooked
  <2> QED BY <2>1, <2>2
<1>12. AttrOwns'
  <2> SUFFICES ASSUME NEW b \in Attr
               PROVE  /\ attr_lookup'[b] # "none" => Trigger(b) \in ToSet(acts'[b])
                      /\ attr_lookup'[b] = "undef" => life'[b] # "live"
    BY DEF AttrOwns, Trigger
  <2>1. CASE b = a
    <3>1. Trigger(a) \in ToSet(acts'[a]) \/ (attr_lookup[a] # "none" /\ acts'[a] = acts[a])
      BY StoredElsewhere
    <3> QED BY <1>1, <1>4, <2>1, <3>1 DEF TablesInv, AttrOwns
  <2>2. CASE b # a
    <3>1. b \in Index /\ b \in Node
      BY Apartness
    <3> QED BY <1>1, <1>4, <2>2, <3>1 DEF TablesInv, AttrOwns
  <2> QED BY <2>1, <2>2
<1>13. KeyHooked'
  <2> SUFFICES ASSUME NEW j \in Key, NEW u \in Object, j \in Under(u)', IsEncap(j), life'[u] = "live"
               PROVE  <<"encap_destroy_hook", j>> \in ToSet(acts'[TheObject(j)])
    BY DEF KeyHooked
  <2>1. j \in Under(u) /\ TheObject(j) \in Object
    BY <1>3, Encap
  <2>2. <<"encap_destroy_hook", j>> \in ToSet(acts[TheObject(j)])
    BY <1>2, <1>4, <2>1 DEF TablesInv, KeyHooked
  <2> QED BY <2>1, <2>2, ObjectsA
<1>14. KeyHookLives'
  <2> SUFFICES ASSUME NEW j \in Key, IsEncap(j), <<"encap_destroy_hook", j>> \in ToSet(acts'[TheObject(j)])
               PROVE  \/ life'[TheObject(j)] # "live"
                      \/ obj'[j] \in Ref /\ <<"k_encap_cleanup", j>> \in ToSet(acts'[j])
    BY DEF KeyHookLives
  <2>1. TheObject(j) \in Object
    BY Encap
  <2>2. /\ <<"encap_destroy_hook", j>> # <<"rlookup", v>> /\ <<"encap_destroy_hook", j>> # <<"attrhash", a, v>>
        /\ <<"encap_destroy_hook", j>> # Hook(a)
    BY DEF Hook
  <2>3. <<"encap_destroy_hook", j>> \in ToSet(acts[TheObject(j)])
    BY <2>1, <2>2, ObjectsA
  <2> QED BY <1>1, <1>2, <2>1, <2>3 DEF TablesInv, KeyHookLives
<1>15. AttrHooked'
  <2> SUFFICES ASSUME OneType, NEW b \in Attr, attr_lookup'[b] # "none", IsEncap(b)
               PROVE  Hook(b) \in ToSet(acts'[TheObject(b)])
    BY DEF AttrHooked, OneType
  <2>1. TheObject(b) \in Object
    BY Encap
  <2>2. CASE b = a /\ attr_lookup[a] = "none"
    BY <2>2, ObjectHookedA
  <2>3. CASE b # a \/ attr_lookup[a] # "none"
    <3>1. attr_lookup[b] # "none"
      BY <1>1, <2>3
    <3>2. Hook(b) \in ToSet(acts[TheObject(b)])
      BY <1>4, <3>1 DEF TablesInv, AttrHooked
    <3> QED BY <2>1, <3>2, ObjectsA
  <2> QED BY <2>2, <2>3
<1> QED BY <1>6, <1>7, <1>8, <1>9, <1>10, <1>11, <1>12, <1>13, <1>14, <1>15 DEF TablesInv

LEMMA TablesInit ==
  ASSUME Init
  PROVE  TablesInv
<1>1. /\ \A k \in Key : slookup[k] = "none" /\ flookup[k] = NoValue
      /\ \A v \in Object : rlookup[v] = Null
      /\ \A a \in Attr : attr_lookup[a] = "none" /\ \A v \in Object : attrhash[a][v] = "none"
      /\ todo = <<>>
  BY DEF Init
<1>2. /\ \A n \in Node : \A x : x \notin ToSet(acts[n])
      /\ \A x : x \notin ToSet(todo)
  <2>1. \A n \in Node : acts[n] = <<>>
    BY DEF Init
  <2> QED BY <1>1, <2>1 DEF ToSet
<1>3. \A v \in Object : Under(v) = {}
  BY <1>1 DEF Under
<1>4. \A v \in Object : rlookup[v] # {}
  <2>1. {} \in SUBSET Index
    OBVIOUS
  <2> QED BY <1>1, <2>1, Apartness
<1>5. \A k \in Key : k \in Node
  BY Apartness
<1>6. KeyUnder /\ KeyFound /\ KeyHooked
  BY <1>1, <1>3 DEF KeyUnder, KeyFound, KeyHooked
<1>7. KeyOwns
  BY <1>1, <1>2, <1>5 DEF KeyOwns, NoValue
<1>8. EmptyChecked
  BY <1>4 DEF EmptyChecked
<1>9. VhashAction /\ ValueHooked
  BY <1>1, <1>2, Apartness DEF VhashAction, ValueHooked
<1>10. AttrOwns /\ AttrHooked
  BY <1>1 DEF AttrOwns, AttrHooked
<1>11. KeyHookLives
  <2>1. \A k \in Key : IsEncap(k) => TheObject(k) \in Node
    BY Encap, Apartness
  <2> QED BY <1>2, <2>1 DEF KeyHookLives
<1> QED BY <1>6, <1>7, <1>8, <1>9, <1>10, <1>11 DEF TablesInv

LEMMA TablesOperation ==
  ASSUME IInv, TablesInv, Operation
  PROVE  TablesInv'
<1>1. Shape /\ FreeClean /\ WeakLive /\ LiveUnder
  BY UnderLives DEF IInv
<1>2. ASSUME NEW o \in Object, New(o) PROVE TablesInv'
  BY <1>1, <1>2, TablesNew
<1>3. ASSUME NEW k \in Key, NEW v \in Object, NEW sv \in BOOLEAN, NEW sk \in BOOLEAN, StoreSk(k, v, sv, sk)
      PROVE  TablesInv'
  BY <1>1, <1>3, TablesStoreSk
<1>4. ASSUME NEW a \in Attr, NEW v \in Object, NEW sv \in BOOLEAN, NEW sa \in BOOLEAN, StoreA(a, v, sv, sa)
      PROVE  TablesInv'
  BY <1>1, <1>4, TablesStoreA
<1>5. CASE todo = <<>> /\ UNCHANGED <<life, acts, tables, blobs>> /\ Lacks(todo', EntryKinds)
  BY <1>5, TablesStart
<1> QED BY <1>2, <1>3, <1>4, <1>5, OperationStarts

LEMMA TablesNext ==
  ASSUME IInv, TablesInv, [Next]_vars
  PROVE  TablesInv'
<1>1. CASE Step
  BY <1>1, IInvNext, TablesStep
<1>2. CASE Operation
  BY <1>2, TablesOperation
<1>3. CASE UNCHANGED vars
  <2>1. UNCHANGED <<life, acts, tables, blobs, todo>>
    BY <1>3 DEF vars, heap
  <2> QED BY <2>1, TablesSame
<1> QED BY <1>1, <1>2, <1>3 DEF Next

\* The five tables and the back-deletes count on each other in every state, for every
\* program: what each entry and each action finds when a cascade of deaths comes to it.
THEOREM TablesInductive == Spec => []TablesInv
<1>1. Init => TablesInv
  BY TablesInit
<1>2. IInv /\ TablesInv /\ [Next]_vars => TablesInv'
  BY TablesNext
<1> QED BY <1>1, <1>2, InductiveInvariant, PTL DEF Spec

-----------------------------------------------------------------------------
(* When nothing is left to do.                                              *)

\* What is on a list, in a vhash, or under.
LEMMA AtRest ==
  ASSUME IInv, Idle
  PROVE  /\ \A x : x \notin ToSet(todo)
         /\ \A n \in Node : life[n] \in {"live", "free"}
         /\ \A n \in Node : \A x : x \in ToSet(acts[n]) => life[n] = "live"
         /\ \A v \in Object : \A i \in Under(v) : life[i] = "live" /\ life[v] = "live"
         /\ \A i \in Index : life[i] = "live" => \E v \in Object : i \in Under(v)
         /\ \A v : ~ Doomed(v)
<1>1. /\ todo = <<>> /\ iter = Null
      /\ \A n \in Node : rc[n] \in Nat /\ life[n] = IF rc[n] > 0 THEN "live" ELSE "free"
  BY LiveAtRest DEF Idle
<1>2. \A n \in Node : life[n] \in {"live", "free"}
  BY <1>1
<1>3. ASSUME NEW n \in Node, NEW x, x \in ToSet(acts[n]) PROVE life[n] = "live"
  <2>1. acts[n] # <<>>
    BY <1>3 DEF ToSet
  <2> QED BY <1>2, <2>1 DEF IInv, FreeClean
<1>4. ASSUME NEW v \in Object, NEW i \in Under(v) PROVE life[i] = "live" /\ life[v] = "live"
  <2>1. rlookup[v] # Null /\ v \in Node
    BY <1>4, Apartness DEF Under
  <2> QED BY <1>2, <2>1, UnderLives DEF IInv, FreeClean, LiveUnder
<1>5. ASSUME NEW i \in Index, life[i] = "live" PROVE \E v \in Object : i \in Under(v)
  <2>1. rc[i] = Cardinality(Vhashes(i)) + Gone(i) + Occurs(todo, Holding(i))
    BY DEF IInv, IndexCounted
  <2>2. Gone(i) = 0 /\ Occurs(todo, Holding(i)) = 0 /\ Cardinality(Vhashes(i)) \in Nat
    BY <1>1, NothingWaits, StrongFinite DEF Gone, One
  <2>3. rc[i] > 0
    BY <1>1, <1>5 DEF Node
  <2>4. Cardinality(Vhashes(i)) # 0
    BY <2>1, <2>2, <2>3
  <2>5. Vhashes(i) # {}
    BY <2>4, FS_EmptySet
  <2> QED BY <2>5 DEF Vhashes
<1> QED BY <1>1, <1>2, <1>3, <1>4, <1>5, NothingToDo

LEMMA KeysAgree ==
  ASSUME IInv, TablesInv, Idle, NEW k \in Key
  PROVE  /\ slookup[k] = IF life[k] = "live" THEN "weak" ELSE "none"
         /\ flookup[k].mode \in (IF life[k] = "live" THEN Ref ELSE {"none"})
         /\ \A v \in Object : k \in Under(v) <=> flookup[k].value = v
         /\ life[k] = "live" => \A o \in ObjectsOf(k) : life[o] = "live"
<1>1. k \in Index /\ k \in Node
  BY Apartness
<1>2. CASE life[k] = "live"
  <2>1. PICK v \in Object : k \in Under(v)
    BY <1>1, <1>2, AtRest
  <2>2. ASSUME NEW u \in Object, k \in Under(u)
        PROVE  slookup[k] = "weak" /\ flookup[k].mode \in Ref /\ flookup[k].value = u
    BY <2>2, AtRest DEF TablesInv, KeyUnder
  <2>3. ASSUME NEW o \in ObjectsOf(k) PROVE life[o] = "live"
    <3>1. IsEncap(k) /\ o = TheObject(k) /\ o \in Node
      BY Encap DEF ObjectsOf, Store!ObjectsOf, TheObject, IsEncap, Node
    <3>2. <<"encap_destroy_hook", k>> \in ToSet(acts[o])
      BY <2>1, <3>1, AtRest DEF TablesInv, KeyHooked
    <3> QED BY <3>1, <3>2, AtRest
  <2> QED BY <1>2, <2>1, <2>2, <2>3
<1>3. CASE life[k] # "live"
  <2>1. \A x : x \notin ToSet(acts[k]) \cup ToSet(todo)
    BY <1>1, <1>3, AtRest
  <2>2. slookup[k] = "none"
    <3>1. IsEncap(k) => slookup[k] = "none"
      BY <2>1 DEF TablesInv, KeyFound
    <3>2. acts[k] # OwnActions(k)
      BY <2>1, KeyActions
    <3> QED BY <3>1, <3>2 DEF TablesInv, KeyFound, Idle
  <2>3. flookup[k].mode = "none"
    BY <2>1 DEF IInv, ForwardHooked
  <2>4. flookup[k].value = Null
    BY <2>3 DEF TablesInv, KeyOwns, NoValue
  <2>5. \A v \in Object : k \notin Under(v)
    BY <1>3, AtRest
  <2> QED BY <1>3, <2>2, <2>3, <2>4, <2>5, Apartness
<1> QED BY <1>2, <1>3

LEMMA AttrsAgree ==
  ASSUME IInv, TablesInv, Idle, NEW a \in Attr
  PROVE  /\ attr_lookup[a] = IF life[a] = "live" THEN "weak" ELSE "none"
         /\ \A v \in Object : attrhash[a][v] \in (IF a \in Under(v) THEN Ref ELSE {"none"})
<1>1. a \in Index /\ a \in Node
  BY Apartness
<1>2. /\ attr_lookup[a] \in Entry /\ attr_lookup[a] # "strong"
      /\ \A v \in Object : attrhash[a][v] \in Entry
  BY DEF IInv, WeakLive, Shape, DataShape, Typed
<1>3. ASSUME NEW v \in Object, a \in Under(v) PROVE attrhash[a][v] \in Ref
  <2>1. life[v] = "live" /\ <<"unvhash", a, v>> \notin ToSet(todo)
    BY <1>3, AtRest
  <2>2. attrhash[a][v] # "none"
    BY <1>3, <2>1 DEF IInv, UnderHas
  <2>3. attrhash[a][v] # "undef"
    BY <2>1 DEF TablesInv, ValueHooked
  <2> QED BY <1>2, <2>2, <2>3 DEF Entry
<1>4. ASSUME NEW v \in Object, a \notin Under(v) PROVE attrhash[a][v] = "none"
  <2>1. attrhash[a][v] \notin Ref
    BY <1>4 DEF IInv, RefUnder
  <2>2. v \in Node
    BY Apartness
  <2>3. attrhash[a][v] # "undef"
    <3>1. attrhash[a][v] = "undef" => <<"attrhash", a, v>> \in ToSet(acts[v]) /\ life[v] # "live"
      BY AtRest DEF TablesInv, ValueHooked
    <3> QED BY <2>2, <3>1, AtRest
  <2> QED BY <1>2, <2>1, <2>3 DEF Entry
<1>5. CASE life[a] = "live"
  <2>1. PICK v \in Object : a \in Under(v)
    BY <1>1, <1>5, AtRest
  <2>2. attrhash[a][v] # "none" /\ <<"values", a>> \notin ToSet(todo)
    BY <1>3, <2>1, AtRest DEF Ref
  <2>3. attr_lookup[a] # "none"
    BY <2>2 DEF IInv, HashFound
  <2>4. attr_lookup[a] # "undef"
    BY <1>5 DEF TablesInv, AttrOwns
  <2>5. attr_lookup[a] = "weak"
    BY <1>2, <2>3, <2>4 DEF Entry, Ref
  <2> QED BY <1>3, <1>4, <1>5, <2>5
<1>6. CASE life[a] # "live"
  <2>1. \A x : x \notin ToSet(acts[a]) \cup ToSet(todo)
    BY <1>1, <1>6, AtRest
  <2>2. attr_lookup[a] = "none"
    BY <2>1 DEF TablesInv, AttrOwns
  <2> QED BY <1>3, <1>4, <1>6, <2>2
<1> QED BY <1>5, <1>6

\* Between operations the five tables tell one story of each key and of each attribute,
\* whatever the program stored under whatever and in whatever order its objects died.
THEOREM EntriesAgreeBetweenOperations == Spec => []EntriesAgree
<1>1. IInv /\ TablesInv => EntriesAgree
  <2>1. ASSUME IInv, TablesInv, Idle, NEW v \in Object PROVE rlookup[v] # {}
    BY <2>1, AtRest DEF TablesInv, EmptyChecked
  <2> QED BY <2>1, KeysAgree, AttrsAgree DEF EntriesAgree
<1> QED BY <1>1, InductiveInvariant, TablesInductive, PTL

\* An attribute's object has the attribute's hook, as long as no other type's is made from it.
LEMMA AttrObjects ==
  ASSUME IInv, TablesInv, Idle, OneType, NEW a \in Attr, life[a] = "live", IsEncap(a)
  PROVE  Hook(a) \in ToSet(acts[TheObject(a)])
<1>1. attr_lookup[a] # "none"
  BY AttrsAgree
<1> QED BY <1>1, AtRest DEF TablesInv, AttrHooked

LEMMA AgreedAtRest ==
  ASSUME IInv, TablesInv, Idle, OneType
  PROVE  Agreed
<1>1. ASSUME NEW v \in Object PROVE rlookup[v] # {}
  BY AtRest DEF TablesInv, EmptyChecked
<1>2. ASSUME NEW a \in Attr, life[a] = "live", NEW o \in ObjectsOf(a) PROVE life[o] = "live"
  <2>1. IsEncap(a) /\ o = TheObject(a) /\ o \in Node
    BY <1>2, Encap DEF ObjectsOf, Store!ObjectsOf, TheObject, IsEncap, Node
  <2>2. Hook(a) \in ToSet(acts[o])
    BY <1>2, <2>1, AttrObjects
  <2> QED BY <2>1, <2>2, AtRest
<1>3. \A i \in Index : life[i] = "live" => \A o \in ObjectsOf(i) : life[o] = "live"
  BY <1>2, KeysAgree DEF Index
<1>4. \A k \in Key :
        /\ slookup[k] = IF life[k] = "live" THEN "weak" ELSE "none"
        /\ flookup[k].mode \in (IF life[k] = "live" THEN Ref ELSE {"none"})
        /\ \A v \in Object : k \in Under(v) <=> flookup[k].value = v
  BY KeysAgree
<1>5. \A a \in Attr :
        /\ attr_lookup[a] = IF life[a] = "live" THEN "weak" ELSE "none"
        /\ \A v \in Object : attrhash[a][v] \in (IF a \in Under(v) THEN Ref ELSE {"none"})
  BY AttrsAgree
<1> QED BY <1>1, <1>3, <1>4, <1>5 DEF Agreed

\* Between operations the tables agree and nothing in them is made from what is gone,
\* when no object is an attribute of two types.
THEOREM TablesAgreeBetweenOperations == OneType => (Spec => []TablesAgree)
<1> SUFFICES ASSUME OneType PROVE Spec => []TablesAgree
  OBVIOUS
<1>1. IInv /\ TablesInv => TablesAgree
  BY AgreedAtRest DEF TablesAgree
<1> QED BY <1>1, InductiveInvariant, TablesInductive, PTL

-----------------------------------------------------------------------------
(* The back-deletes when nothing is left to do.                             *)

LEMMA KeyHasActions ==
  ASSUME IInv, TablesInv, Idle, NEW k \in Key
  PROVE  ToSet(acts[k]) = IF life[k] = "free" THEN {}
                          ELSE IF IsEncap(k) THEN {<<"k_encap_cleanup", k>>}
                          ELSE {<<"slookup", k>>, <<"flookup", k>>}
<1>1. k \in Index /\ k \in Node
  BY Apartness
<1>2. CASE life[k] = "free"
  BY <1>1, <1>2, AtRest
<1>3. CASE life[k] # "free"
  <2>1. life[k] = "live"
    BY <1>1, <1>3, AtRest
  <2>2. slookup[k] # "none"
    BY <2>1, KeysAgree
  <2>3. CASE IsEncap(k)
    <3> DEFINE x == <<"slookup", k>>
               y == <<"k_encap_cleanup", k>>
    <3>1. {x, y} \cap (ToSet(acts[k]) \cup ToSet(todo)) # {}
      BY <2>2, <2>3 DEF TablesInv, KeyFound
    <3>2. ToSet(acts[k]) \subseteq {y}
      BY <2>3, KeyActions DEF TablesInv, KeyOwns
    <3>3. x # y /\ x \notin ToSet(todo) /\ y \notin ToSet(todo)
      BY AtRest
    <3> HIDE DEF x, y
    <3>4. ToSet(acts[k]) = {y}
      BY <3>1, <3>2, <3>3
    <3> QED BY <1>3, <2>3, <3>4 DEF y
  <2>4. CASE ~ IsEncap(k)
    <3>1. acts[k] = OwnActions(k)
      BY <2>2, <2>4 DEF TablesInv, KeyFound, Idle
    <3> QED BY <1>3, <2>4, <3>1, KeyActions
  <2> QED BY <2>3, <2>4
<1> QED BY <1>2, <1>3

LEMMA AttrHasActions ==
  ASSUME IInv, TablesInv, Idle, NEW a \in Attr
  PROVE  ToSet(acts[a]) = IF life[a] = "free" THEN {} ELSE {<<"attr_destroy_trigger", a>>}
<1>1. a \in Index /\ a \in Node /\ a \notin Object /\ a \notin Key
  BY Apartness
<1>2. CASE life[a] = "free"
  BY <1>1, <1>2, AtRest
<1>3. CASE life[a] # "free"
  <2>1. attr_lookup[a] # "none"
    BY <1>1, <1>3, AtRest, AttrsAgree
  <2>2. <<"attr_destroy_trigger", a>> \in ToSet(acts[a])
    BY <2>1, AtRest DEF TablesInv, AttrOwns, Trigger
  <2>3. ToSet(acts[a]) \subseteq {<<"attr_destroy_trigger", a>>}
    BY <1>1 DEF IInv, Shape, DataShape, ActionsTyped, ActionsOf
  <2> QED BY <1>3, <2>2, <2>3
<1> QED BY <1>2, <1>3

\* An object has no action that its entries do not call for.
LEMMA ObjectHasNoOther ==
  ASSUME IInv, TablesInv, Idle, NEW o \in Object, NEW x \in ToSet(acts[o])
  PROVE  \/ rlookup[o] # Null /\ x = <<"rlookup", o>>
         \/ \E a \in Under(o) \cap Attr : x = <<"attrhash", a, o>>
         \/ \E k \in Key : TheObject(k) = o /\ life[k] = "live" /\ x = <<"encap_destroy_hook", k>>
         \/ \E a \in Attr : TheObject(a) = o /\ life[a] = "live" /\ x = <<"encap_attr_destroy_hook", a>>
<1>1. o \in Node /\ life[o] = "live"
  BY AtRest, Apartness
<1>2. \/ x = <<"rlookup", o>>
      \/ \E a \in Attr : x = <<"attrhash", a, o>>
      \/ \E k \in Made(Key, o) : x = <<"encap_destroy_hook", k>>
      \/ \E a \in Made(Attr, o) : x = <<"encap_attr_destroy_hook", a>>
  BY <1>1 DEF IInv, Shape, DataShape, ActionsTyped, ActionsOf
<1>3. CASE x = <<"rlookup", o>>
  BY <1>3 DEF TablesInv, VhashAction
<1>4. ASSUME NEW a \in Attr, x = <<"attrhash", a, o>> PROVE a \in Under(o)
  <2>1. attrhash[a][o] # "none"
    BY <1>1, <1>4 DEF TablesInv, ValueHooked
  <2> QED BY <2>1, AttrsAgree
<1>5. ASSUME NEW k \in Made(Key, o), x = <<"encap_destroy_hook", k>>
      PROVE  k \in Key /\ TheObject(k) = o /\ life[k] = "live"
  <2>1. k \in Key /\ TheObject(k) = o /\ IsEncap(k) /\ k \in Node
    BY Encap, Apartness DEF Made
  <2>2. <<"k_encap_cleanup", k>> \in ToSet(acts[k])
    BY <1>1, <1>5, <2>1 DEF TablesInv, KeyHookLives, Idle
  <2> QED BY <2>1, <2>2, AtRest
<1>6. ASSUME NEW a \in Made(Attr, o), x = <<"encap_attr_destroy_hook", a>>
      PROVE  a \in Attr /\ TheObject(a) = o /\ life[a] = "live"
  <2>1. a \in Attr /\ TheObject(a) = o /\ Hook(a) \in ToSet(acts[TheObject(a)])
    BY <1>6 DEF Made, Hook
  <2> QED BY <2>1 DEF IInv, AttrHooks, Idle
<1> QED BY <1>2, <1>3, <1>4, <1>5, <1>6

\* An object has the actions that its entries call for.
LEMMA ObjectHasActions ==
  ASSUME IInv, TablesInv, Idle, NEW o \in Object
  PROVE  /\ rlookup[o] # Null => <<"rlookup", o>> \in ToSet(acts[o])
         /\ \A a \in Under(o) \cap Attr : <<"attrhash", a, o>> \in ToSet(acts[o])
         /\ \A k \in Key : TheObject(k) = o /\ life[k] = "live" =>
              <<"encap_destroy_hook", k>> \in ToSet(acts[o])
         /\ OneType => \A a \in Attr : TheObject(a) = o /\ life[a] = "live" =>
              <<"encap_attr_destroy_hook", a>> \in ToSet(acts[o])
<1>1. rlookup[o] # Null => <<"rlookup", o>> \in ToSet(acts[o])
  BY DEF IInv, VhashHooked, Idle
<1>2. ASSUME NEW a \in Under(o) \cap Attr PROVE <<"attrhash", a, o>> \in ToSet(acts[o])
  <2>1. attrhash[a][o] # "none"
    BY AttrsAgree DEF Ref
  <2> QED BY <2>1, AtRest DEF TablesInv, ValueHooked
<1>3. ASSUME NEW k \in Key, TheObject(k) = o, life[k] = "live"
      PROVE  <<"encap_destroy_hook", k>> \in ToSet(acts[o])
  <2>1. k \in Index /\ IsEncap(k)
    BY <1>3, Encap DEF Index
  <2>2. PICK v \in Object : k \in Under(v)
    BY <1>3, <2>1, AtRest
  <2> QED BY <1>3, <2>1, <2>2, AtRest DEF TablesInv, KeyHooked
<1>4. ASSUME OneType, NEW a \in Attr, TheObject(a) = o, life[a] = "live"
      PROVE  <<"encap_attr_destroy_hook", a>> \in ToSet(acts[o])
  BY <1>4, Encap, AttrObjects DEF Hook
<1> QED BY <1>1, <1>2, <1>3, <1>4

LEMMA HookedAtRest ==
  ASSUME IInv, TablesInv, Idle, OneType
  PROVE  Hooked
<1>1. ASSUME NEW o \in Object
      PROVE  ToSet(acts[o]) =
               (IF rlookup[o] = Null THEN {} ELSE {<<"rlookup", o>>})
               \cup {<<"attrhash", a, o>> : a \in Under(o) \cap Attr}
               \cup {<<"encap_destroy_hook", k>> : k \in {j \in Key : TheObject(j) = o /\ life[j] = "live"}}
               \cup {<<"encap_attr_destroy_hook", a>> :
                       a \in {b \in Attr : TheObject(b) = o /\ life[b] = "live"}}
  <2> DEFINE R == IF rlookup[o] = Null THEN {} ELSE {<<"rlookup", o>>}
             A == {<<"attrhash", a, o>> : a \in Under(o) \cap Attr}
             K == {<<"encap_destroy_hook", k>> : k \in {j \in Key : TheObject(j) = o /\ life[j] = "live"}}
             B == {<<"encap_attr_destroy_hook", a>> :
                     a \in {b \in Attr : TheObject(b) = o /\ life[b] = "live"}}
  <2>1. ToSet(acts[o]) \subseteq R \cup A \cup K \cup B
    BY ObjectHasNoOther
  <2>2. R \subseteq ToSet(acts[o]) /\ A \subseteq ToSet(acts[o])
    BY ObjectHasActions
  <2>3. K \subseteq ToSet(acts[o]) /\ B \subseteq ToSet(acts[o])
    BY ObjectHasActions
  <2> QED BY <2>1, <2>2, <2>3
<1>2. \A k \in Key :
        ToSet(acts[k]) = IF life[k] = "free" THEN {}
                         ELSE IF IsEncap(k) THEN {<<"k_encap_cleanup", k>>}
                         ELSE {<<"slookup", k>>, <<"flookup", k>>}
  BY KeyHasActions
<1>3. \A a \in Attr :
        ToSet(acts[a]) = IF life[a] = "free" THEN {} ELSE {<<"attr_destroy_trigger", a>>}
  BY AttrHasActions
<1> QED BY <1>1, <1>2, <1>3 DEF Hooked

\* Between operations every node has the back-deletes that its entries call for and no
\* other, when no object is an attribute of two types: a death leaves no entry behind,
\* and deletes none of what has the address next.
THEOREM HooksAgreeBetweenOperations == OneType => (Spec => []HooksAgree)
<1> SUFFICES ASSUME OneType PROVE Spec => []HooksAgree
  OBVIOUS
<1>1. IInv /\ TablesInv => HooksAgree
  BY HookedAtRest DEF HooksAgree
<1> QED BY <1>1, InductiveInvariant, TablesInductive, PTL
=============================================================================
