----------------------------- MODULE AnimLibrary -----------------------------
(***************************************************************************)
(* What a badge promises its owner about the animations it holds: they are *)
(* collected and unlocked, an unlocked animation stays unlocked, and none  *)
(* goes away unless the controller asked for it by name; the animations    *)
(* that ship with the firmware never do.                                   *)
(***************************************************************************)
CONSTANTS Name, NoName, SystemName

VARIABLES
  held,   \* for every name: "none", "locked" or "unlocked"
  order   \* the name the controller is asking to delete, or NoName

vars == <<held, order>>

Holding == {"none", "locked", "unlocked"}

Init == held \in [Name -> Holding] /\ order = NoName

Collect(n) == held[n] = "none" /\ held' \in {[held EXCEPT ![n] = h] : h \in {"locked", "unlocked"}}

Unlock(n) == held[n] = "locked" /\ held' = [held EXCEPT ![n] = "unlocked"]

Remove(n) ==
  /\ held[n] # "none" /\ order = n /\ n \notin SystemName
  /\ held' = [held EXCEPT ![n] = "none"]

(* Orders come and go as the controller likes.                             *)
Next ==
  /\ order' \in Name \cup {NoName}
  /\ \/ UNCHANGED held
     \/ \E n \in Name : Collect(n) \/ Unlock(n) \/ Remove(n)

Spec == Init /\ [][Next]_vars
=============================================================================
