----------------------------- MODULE BackupChain -----------------------------
(***************************************************************************)
(* What the backup of one website namespace promises.  The website goes    *)
(* through a sequence of committed states; the cloud holds the state of    *)
(* one moment, whole, and a later backup holds a later moment.  Restoring  *)
(* can lose the newest changes, never mix two moments and never go back.   *)
(***************************************************************************)
EXTENDS Naturals, Sequences

CONSTANTS States, Empty

VARIABLES
  past,    \* the committed states of the website, oldest first
  moment,  \* position of the state the cloud holds; 0 before any backup
  cloud    \* what a restore would write

vars == <<past, moment, cloud>>

TypeOK ==
  /\ past \in Seq(States)
  /\ moment \in 0..Len(past)
  /\ cloud \in States

Init ==
  /\ past \in {<<s>> : s \in States}
  /\ moment = 0
  /\ cloud = Empty

Commit ==
  /\ \E s \in States : past' = Append(past, s)
  /\ UNCHANGED <<moment, cloud>>

Publish ==
  /\ \E i \in moment + 1..Len(past) :
       /\ moment' = i
       /\ cloud' = past[i]
  /\ UNCHANGED past

Next == Commit \/ Publish

Spec == Init /\ [][Next]_vars

(* The cloud holds the website's state of its moment. *)
OneMoment == moment > 0 => cloud = past[moment]

=============================================================================
