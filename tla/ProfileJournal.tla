---------------------------- MODULE ProfileJournal ----------------------------
(***************************************************************************)
(* What a profile promises for the changes of a website: the browser keeps *)
(* every committed change until the cloud has it, and the cloud gets each  *)
(* change once, in the order in which the website made them.               *)
(***************************************************************************)
EXTENDS Naturals

CONSTANT Groups

VARIABLES
  made,   \* number of changes each website has committed
  saved,  \* the changes the cloud has
  kept    \* the changes the browser still holds

vars == <<made, saved, kept>>

Init ==
  /\ made = [g \in Groups |-> 0]
  /\ saved = [g \in Groups |-> {}]
  /\ kept = [g \in Groups |-> {}]

Make(g) ==
  /\ made' = [made EXCEPT ![g] = @ + 1]
  /\ kept' = [kept EXCEPT ![g] = @ \cup {made[g] + 1}]
  /\ UNCHANGED saved

Save(g) == \E n \in 1..made[g] :
  /\ saved[g] = 1..(n - 1)
  /\ saved' = [saved EXCEPT ![g] = 1..n]
  /\ UNCHANGED <<made, kept>>

Forget(g) == \E n \in kept[g] \cap saved[g] :
  /\ \A m \in kept[g] : n <= m
  /\ kept' = [kept EXCEPT ![g] = @ \ {n}]
  /\ UNCHANGED <<made, saved>>

Next == \E g \in Groups : Make(g) \/ Save(g) \/ Forget(g)

Spec == Init /\ [][Next]_vars

(* No change is lost: what the browser no longer holds is in the cloud. *)
NothingLost == \A g \in Groups : 1..made[g] \subseteq kept[g] \cup saved[g]

=============================================================================
