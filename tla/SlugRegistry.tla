---------------------------- MODULE SlugRegistry ----------------------------
(* What the tenant registry promises about slugs, whatever the commands do: *)
(* a slug has one workspace at a time, and once retired it is bound again   *)
(* only in the place of a workspace that was being replaced before it was   *)
(* retired (tenant/tombstone.go: "permanently unavailable").                *)
CONSTANTS Slugs, Ids, Free

VARIABLES
  holder,      \* slug -> the workspace that has it
  retired,     \* slugs that are gone for good
  doomed       \* workspaces that a replacement under way found live

vars == <<holder, retired, doomed>>

Init ==
  /\ holder \in [Slugs -> Ids \cup {Free}]
  /\ \A s, t \in Slugs : holder[s] = holder[t] => s = t \/ holder[s] = Free
  /\ retired = {} /\ doomed = {}

Unheld(id) == \A s \in Slugs : holder[s] # id

(* A slug gets a workspace, or a new one in the place of the old.           *)
Bind(s, id) ==
  /\ s \in retired => holder[s] \in doomed
  /\ Unheld(id)
  /\ holder' = [holder EXCEPT ![s] = id]
  /\ retired' = retired \ {s}
  /\ doomed' \subseteq doomed

Retire(s) ==
  /\ s \notin retired /\ holder[s] # Free
  /\ retired' = retired \cup {s}
  /\ UNCHANGED <<holder, doomed>>

(* A replacement begins on a live workspace; it may also come to nothing.   *)
Doom(s) ==
  /\ s \notin retired /\ holder[s] # Free
  /\ doomed' = doomed \cup {holder[s]}
  /\ UNCHANGED <<holder, retired>>
Spare ==
  /\ doomed' \subseteq doomed
  /\ UNCHANGED <<holder, retired>>

Next == Spare \/ \E s \in Slugs : Retire(s) \/ Doom(s) \/ \E id \in Ids : Bind(s, id)
Spec == Init /\ [][Next]_vars
=============================================================================
