------------------------------- MODULE Registry -------------------------------
(***************************************************************************)
(* The promise of the method registry: a partial function from names to    *)
(* values, changed one name at a time or emptied.  A set may take time;    *)
(* until it is done nothing else changes.                                  *)
(***************************************************************************)
CONSTANTS Keys, Vals,
          None   \* the value of a name that is not registered

VARIABLES map,
          setting   \* the set under way: [key, val], or None

vars == <<map, setting>>

Init == map = [k \in Keys |-> None] /\ setting = None

Set(k, v) == /\ setting = None
             /\ map' = [map EXCEPT ![k] = v]
             /\ UNCHANGED setting

SetBegins(k, v) == /\ setting = None
                   /\ setting' = [key |-> k, val |-> v]
                   /\ UNCHANGED map

SetIsDone == /\ setting # None
             /\ map' = [map EXCEPT ![setting.key] = setting.val]
             /\ setting' = None

Del(k) == /\ setting = None
          /\ map' = [map EXCEPT ![k] = None]
          /\ UNCHANGED setting

Clear == /\ setting = None
         /\ map' = [k \in Keys |-> None]
         /\ UNCHANGED setting

Next == \/ \E k \in Keys : \/ Del(k)
                           \/ \E v \in Vals : Set(k, v) \/ SetBegins(k, v)
        \/ SetIsDone
        \/ Clear

Spec == Init /\ [][Next]_vars
==============================================================================
