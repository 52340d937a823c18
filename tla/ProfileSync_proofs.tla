-------------------------- MODULE ProfileSync_proofs --------------------------
(***************************************************************************)
(* The safety of the synchronisation of profiles, for every set of         *)
(* websites, every batch and every number of changes and faults.           *)
(***************************************************************************)
EXTENDS ProfileSync, FiniteSetTheorems, TLAPS

-----------------------------------------------------------------------------
(* The scheduler. *)

SchedulerInv ==
  /\ dirty \in BOOLEAN /\ newer \in BOOLEAN /\ due \in BOOLEAN
  /\ timer \in BOOLEAN /\ paused \in BOOLEAN
  /\ flight \in {"none", "run", "settle"}
  /\ (dirty /\ flight # "run") => due
  /\ (newer /\ flight = "run") => due
  /\ NeverIdle

(* What any action does to the scheduler. *)
SchedulerStep ==
  \/ UNCHANGED scheduler \/ SchedulerRestarts
  \/ \E b \in BOOLEAN : Changed(b)
  \/ ReconcileDirty \/ TimerFires \/ FlushNow \/ Settle
  \/ flight = "run" /\ (Succeeded \/ \E b \in BOOLEAN : Failed(b))

LEMMA SchedulerStepKeepsInv == SchedulerInv /\ SchedulerStep => SchedulerInv'
<1> SUFFICES ASSUME SchedulerInv, SchedulerStep PROVE SchedulerInv'
  OBVIOUS
<1> USE DEF SchedulerInv, NeverIdle
<1>1. CASE UNCHANGED scheduler BY <1>1 DEF scheduler
<1>2. CASE SchedulerRestarts BY <1>2 DEF SchedulerRestarts
<1>3. CASE \E b \in BOOLEAN : Changed(b) BY <1>3 DEF Changed, Arm
<1>4. CASE ReconcileDirty
  <2>1. CASE ~dirty /\ Changed(FALSE) BY <2>1 DEF Changed, Arm
  <2>2. CASE dirty /\ UNCHANGED <<dirty, newer, due, paused, flight>> /\ Arm
    <3>1. /\ dirty' = dirty /\ newer' = newer /\ due' = due
          /\ paused' = paused /\ flight' = flight
      BY <2>2
    <3>2. timer' = (~paused /\ dirty /\ due /\ flight = "none")
      BY <2>2, <3>1 DEF Arm
    <3> QED BY <3>1, <3>2
  <2> QED BY <1>4, <2>1, <2>2 DEF ReconcileDirty
<1>5. CASE TimerFires BY <1>5 DEF TimerFires, Start
<1>6. CASE FlushNow BY <1>6 DEF FlushNow, Start
<1>7. CASE Settle BY <1>7 DEF Settle, Arm
<1>8. CASE flight = "run" /\ Succeeded BY <1>8 DEF Succeeded
<1>9. CASE flight = "run" /\ \E b \in BOOLEAN : Failed(b) BY <1>9 DEF Failed
<1> QED BY <1>1, <1>2, <1>3, <1>4, <1>5, <1>6, <1>7, <1>8, <1>9 DEF SchedulerStep

-----------------------------------------------------------------------------
(* Notices: what was told of is dirty, and what was told of after a drain  *)
(* listed an empty outbox is newer than the drain.                         *)

DrainType == drain \in [at : {"off", "sites", "listed"}, empty : BOOLEAN,
                        failed : SUBSET (Groups \cup {"*"}), temporary : BOOLEAN]

NewsInv ==
  /\ DrainType /\ failureGroups \subseteq Groups \cup {"*"}
  /\ outbox \in [Groups -> SUBSET Nat] /\ made \in [Groups -> Nat]
  /\ news \in [Groups -> {"none", "coming", "told"}]
  /\ drain.at # "off" => flight = "run"
  /\ NothingStranded
  /\ (drain.at = "listed" /\ drain.empty) =>
       \A g \in Groups : news[g] = "told" /\ outbox[g] # {} => newer

LEMMA SchedulerSteps ==
  ASSUME SchedulerInv, NewsInv, [Next]_vars PROVE SchedulerStep
<1> USE DEF SchedulerStep
<1>1. \A failed \in SUBSET (Groups \cup {"*"}), temporary \in BOOLEAN :
        Retryable(failed, temporary) \in BOOLEAN
  BY DEF Retryable
<1>2. CASE Timer BY <1>2 DEF Timer
<1>3. CASE BeginDrain
  BY <1>3, <1>1 DEF BeginDrain, DrainFails, NewsInv
<1>4. CASE EndSites
  BY <1>4, <1>1 DEF EndSites, DrainFails, NewsInv, DrainType
<1>5. CASE Conclude
  BY <1>5, <1>1 DEF Conclude, DrainFails, NewsInv, DrainType
<1>6. CASE Settled BY <1>6 DEF Settled
<1>7. ASSUME NEW g \in Groups, JobStep(g) \/ TimeOut(g) \/ TimeOutEarly(g) \/ Unreachable(g)
      PROVE UNCHANGED scheduler
  BY <1>7 DEF JobStep, Turn, Look, Receipt, Stream, Send, PublishHead, Acknowledge,
    TimeOut, TimeOutEarly, Unreachable, InJob
<1>8. ASSUME NEW r \in wire, Arrive(r) \/ Quota(r) \/ Lose(r) PROVE UNCHANGED scheduler
  BY <1>8 DEF Arrive, Quota, Lose, InJob
<1>9. CASE Probe BY <1>9 DEF Probe
<1>10. CASE Flush BY <1>10 DEF Flush
<1>11. CASE RetryBackup BY <1>11 DEF RetryBackup
<1>12. CASE Restart BY <1>12 DEF Restart
<1>13. ASSUME NEW g \in Groups, Make(g) \/ Takeover(g) \/ WriterLapses(g)
       PROVE UNCHANGED scheduler
  BY <1>13 DEF Make, Takeover, WriterLapses
<1>14. ASSUME NEW g \in Groups, Notify(g) PROVE \E b \in BOOLEAN : Changed(b)
  <2>1. Independent(g) \in BOOLEAN BY DEF Independent
  <2> QED BY <1>14, <2>1 DEF Notify
<1>15. CASE UNCHANGED vars BY <1>15 DEF vars
<1> QED BY <1>2, <1>3, <1>4, <1>5, <1>6, <1>7, <1>8, <1>9, <1>10, <1>11, <1>12, <1>13,
           <1>14, <1>15 DEF Next, System

LEMMA NewsStep ==
  ASSUME SchedulerInv, NewsInv, \A r \in wire : r.group \in Groups, [Next]_vars
  PROVE  NewsInv'
<1> USE DEF NewsInv, DrainType, NothingStranded
<1>1. CASE Timer
  BY <1>1 DEF Timer, TimerFires, Start, journal, cloud
<1>2. CASE BeginDrain
  <2>1. CASE "*" \in failureGroups
    <3>1. DrainFails({"*"}, FALSE) /\ UNCHANGED <<outbox, made, news>>
      BY <1>2, <2>1 DEF BeginDrain, journal
    <3> QED BY <3>1 DEF DrainFails, Failed, NoDrain
  <2>2. CASE "*" \notin failureGroups
    <3>1. drain' = [at |-> "sites", empty |-> FALSE, failed |-> failureGroups, temporary |-> FALSE]
      BY <1>2, <2>2 DEF BeginDrain, NoDrain
    <3>2. UNCHANGED <<scheduler, failureGroups, outbox, made, news>> /\ flight = "run"
      BY <1>2, <2>2 DEF BeginDrain, journal
    <3> QED BY <3>1, <3>2 DEF scheduler
  <2> QED BY <2>1, <2>2
<1>3. CASE EndSites
  <2>1. CASE DrainFails(drain.failed, drain.temporary)
    BY <1>3, <2>1 DEF EndSites, DrainFails, Failed, NoDrain, journal
  <2>2. CASE drain' = [drain EXCEPT !.at = "listed", !.empty = \A g \in Groups : outbox[g] = {}]
             /\ UNCHANGED <<scheduler, failureGroups>>
    <3>1. drain' \in [at : {"off", "sites", "listed"}, empty : BOOLEAN,
                      failed : SUBSET (Groups \cup {"*"}), temporary : BOOLEAN]
      <4>1. (\A g \in Groups : outbox[g] = {}) \in BOOLEAN OBVIOUS
      <4> QED BY <2>2, <4>1
    <3>2. drain'.at = "listed" /\ (drain'.empty <=> \A g \in Groups : outbox[g] = {})
      BY <2>2
    <3>3. UNCHANGED <<outbox, made, news, scheduler, failureGroups>>
      BY <1>3, <2>2 DEF EndSites, journal
    <3>4. flight = "run" BY <1>3 DEF EndSites
    <3> QED BY <3>1, <3>2, <3>3, <3>4 DEF scheduler
  <2> QED BY <1>3, <2>1, <2>2 DEF EndSites
<1>4. CASE Conclude
  <2>1. CASE drain.empty /\ Succeeded
    <3>1. /\ drain' = [at |-> "off", empty |-> FALSE, failed |-> {}, temporary |-> FALSE]
          /\ failureGroups' = {}
      BY <1>4, <2>1 DEF Conclude, DrainFails, NoDrain
    <3>2. UNCHANGED <<outbox, made, news>> BY <1>4 DEF Conclude, journal
    <3>3. \A g \in Groups : news[g] = "told" /\ outbox[g] # {} => newer
      BY <1>4, <2>1 DEF Conclude
    <3>4. (dirty' <=> newer) /\ drain'.at = "off" BY <2>1, <3>1 DEF Succeeded
    <3>5. NothingStranded' BY <3>2, <3>3, <3>4
    <3> QED BY <3>1, <3>2, <3>4, <3>5
  <2>2. CASE DrainFails({}, FALSE)
    BY <1>4, <2>2 DEF Conclude, DrainFails, Failed, NoDrain, journal
  <2> QED BY <1>4, <2>1, <2>2 DEF Conclude
<1>5. CASE Settled BY <1>5 DEF Settled, Settle, journal
<1>6. CASE Probe
  BY <1>6 DEF Probe, ReconcileDirty, Changed, journal
<1>7. CASE Flush BY <1>7 DEF Flush, FlushNow, Start, journal
<1>8. CASE RetryBackup BY <1>8 DEF RetryBackup, FlushNow, Start, journal, scheduler
<1>9. CASE Restart BY <1>9 DEF Restart, SchedulerRestarts, NoDrain, journal
<1>10. ASSUME NEW g \in Groups, Make(g) PROVE NewsInv'
  BY <1>10 DEF Make, scheduler
<1>11. ASSUME NEW g \in Groups, Notify(g) PROVE NewsInv'
  BY <1>11 DEF Notify, Changed, journal
<1>12. ASSUME NEW g \in Groups, Takeover(g) \/ WriterLapses(g) PROVE NewsInv'
  BY <1>12 DEF Takeover, WriterLapses, journal, scheduler
<1>13. ASSUME NEW g \in Groups, NEW who \in SUBSET (Groups \cup {"*"}), NEW temporary \in BOOLEAN,
              Failing(g, who, temporary), UNCHANGED <<outbox, made>>, InJob
       PROVE NewsInv'
  BY <1>13 DEF Failing, InJob, scheduler
<1>14. ASSUME UNCHANGED <<drain, outbox, made>>, InJob PROVE NewsInv'
  BY <1>14 DEF InJob, scheduler
<1>15. ASSUME NEW g \in Groups, JobStep(g) PROVE NewsInv'
  <2>1. CASE Acknowledge(g) BY <2>1 DEF Acknowledge, InJob, scheduler
  <2>2. CASE Turn(g) \/ Look(g) \/ PublishHead(g)
    BY <2>2, <1>14 DEF Turn, Look, PublishHead, journal
  <2>3. CASE Receipt(g)
    BY <2>3, <1>13, <1>14 DEF Receipt, journal
  <2>4. CASE Stream(g) BY <2>4, <1>13, <1>14 DEF Stream, journal
  <2>5. CASE Send(g) BY <2>5, <1>13, <1>14 DEF Send
  <2> QED BY <1>15, <2>1, <2>2, <2>3, <2>4, <2>5 DEF JobStep
<1>16. ASSUME NEW g \in Groups, TimeOut(g) \/ TimeOutEarly(g) \/ Unreachable(g) PROVE NewsInv'
  BY <1>16, <1>13 DEF TimeOut, TimeOutEarly, Unreachable, journal
<1>17. ASSUME NEW r \in wire, Arrive(r) PROVE NewsInv'
  <2>1. (Failing(r.group, {r.group}, FALSE) \/ UNCHANGED drain) /\ InJob /\ UNCHANGED <<outbox, made>>
    BY <1>17 DEF Arrive, Answer, journal
  <2> QED BY <1>17, <2>1, <1>13, <1>14
<1>18. ASSUME NEW r \in wire, Quota(r) \/ Lose(r) PROVE NewsInv'
  BY <1>18, <1>13, <1>14 DEF Quota, Lose, journal
<1>19. CASE UNCHANGED vars BY <1>19 DEF vars, scheduler, journal
<1> QED BY <1>1, <1>2, <1>3, <1>4, <1>5, <1>6, <1>7, <1>8, <1>9, <1>10, <1>11, <1>12,
           <1>15, <1>16, <1>17, <1>18, <1>19 DEF Next, System

-----------------------------------------------------------------------------
(* The journal and the cloud. *)

Base == [revision : Nat, epoch : Nat]

Handling(g) == job[g].at \in {"receipt", "stream", "send", "commit", "ack", "published"}

JobType == job \in [Groups -> [at : {"off", "turn", "look", "receipt", "stream", "send", "commit",
                                     "ack", "published"},
                              left : Int, batch : SUBSET Nat, entry : Nat, fresh : BOOLEAN,
                              known : Base, ack : Base]]

CloudType ==
  /\ head \in [Groups -> Base]
  /\ DOMAIN prepared = Groups /\ \A g \in Groups : prepared[g] \in [Ids(g) -> Base]
  /\ DOMAIN receipts = Groups /\ \A g \in Groups : receipts[g] \in [Ids(g) -> Nat]
  /\ revision \in [Groups -> Nat] /\ fence \in [Groups -> Nat \ {0}]
  /\ writer \in [Groups -> Nat]
  /\ wire \subseteq [group : Groups, id : Nat, base : Nat, epoch : Nat \ {0}]

(* The outbox holds what the cloud lacks, and the cloud lacks no change    *)
(* before one that it has.                                                 *)
KeptInv == \A g \in Groups :
  /\ made[g] <= MaxMade[g] /\ outbox[g] \subseteq 1..made[g]
  /\ \A n \in 1..made[g] : n \in outbox[g] \/ receipts[g][n] # 0
  /\ \A n \in Ids(g) : receipts[g][n] # 0 =>
       n <= made[g] /\ \A m \in 1..(n - 1) : receipts[g][m] # 0

(* A commit is sent after those before it were acknowledged, and on the    *)
(* base its entry is prepared for as long as the outbox has the entry.     *)
WireInv == \A r \in wire :
  /\ r.id \in 1..made[r.group]
  /\ \A m \in 1..(r.id - 1) : receipts[r.group][m] # 0
  /\ r.id \in outbox[r.group] =>
       prepared[r.group][r.id] = [revision |-> r.base, epoch |-> r.epoch]

(* A turn is a first part of the outbox, and its least entry comes first. *)
JobInv == \A g \in Groups :
  /\ job[g].at = "look" \/ Handling(g) =>
       /\ job[g].batch \subseteq outbox[g]
       /\ \A b \in job[g].batch, m \in outbox[g] : m < b => m \in job[g].batch
  /\ Handling(g) =>
       /\ job[g].entry \in job[g].batch
       /\ \A b \in job[g].batch : job[g].entry <= b
  /\ job[g].at \in {"ack", "published"} => receipts[g][job[g].entry] # 0

JournalInv == JobType /\ CloudType /\ KeptInv /\ WireInv /\ JobInv /\ LostAnswerExplained

JournalTypes == outbox \in [Groups -> SUBSET Nat] /\ made \in [Groups -> Nat]

LEMMA EntryIsFirst ==
  ASSUME JournalTypes, JournalInv, NEW g \in Groups, Handling(g)
  PROVE  /\ job[g].entry \in outbox[g] /\ job[g].entry \in 1..made[g] /\ job[g].entry \in Ids(g)
         /\ \A m \in outbox[g] : job[g].entry <= m
         /\ \A m \in 1..(job[g].entry - 1) : receipts[g][m] # 0
<1> USE ConstantsAssumption DEF ConstantsAssumption, JournalTypes, JournalInv
<1>1. job[g].entry \in outbox[g] /\ job[g].entry \in 1..made[g] /\ made[g] <= MaxMade[g]
  BY DEF JobInv, KeptInv
<1>2. \A m \in outbox[g] : job[g].entry <= m
  BY <1>1 DEF JobInv, KeptInv
<1>3. \A m \in 1..(job[g].entry - 1) : receipts[g][m] # 0
  BY <1>1, <1>2 DEF KeptInv
<1> QED BY <1>1, <1>2, <1>3 DEF Ids

(* A step of the system that leaves the journal, the cloud and the jobs. *)
LEMMA FramePreserves ==
  ASSUME JournalInv, UNCHANGED <<journal, cloud, job>>, writer' \in [Groups -> Nat]
  PROVE  JournalInv'
<1>1. UNCHANGED <<made, outbox, head, prepared, receipts, revision, fence, wire, job>>
  BY DEF journal, cloud
<1>2. JobType' /\ CloudType' BY <1>1 DEF JournalInv, JobType, CloudType
<1>3. KeptInv' BY <1>1 DEF JournalInv, KeptInv
<1>4. WireInv' BY <1>1 DEF JournalInv, WireInv
<1>5. JobInv' BY <1>1 DEF JournalInv, JobInv, Handling
<1>6. LostAnswerExplained' BY <1>1 DEF JournalInv, LostAnswerExplained
<1> QED BY <1>2, <1>3, <1>4, <1>5, <1>6 DEF JournalInv

LEMMA EndedJobType ==
  ASSUME JobType, NEW g \in Groups, job' = [job EXCEPT ![g] = Off] PROVE JobType'
BY DEF JobType, Off, Job, NoBase, Base

LEMMA FailingPreserves ==
  ASSUME JournalInv, JournalTypes, UNCHANGED <<journal, receipts, revision, fence, writer>>,
         wire' \subseteq wire,
         NEW g \in Groups, job' = [job EXCEPT ![g] = Off]
  PROVE  JournalInv'
<1>1. JobType' BY EndedJobType DEF JournalInv
<1>2. JobInv' BY DEF JournalInv, JobInv, JobType, Handling, journal, Off, Job
<1> QED BY <1>1, <1>2 DEF JournalInv, CloudType, KeptInv, WireInv, LostAnswerExplained, journal

LEMMA MakePreserves ==
  ASSUME JournalInv, JournalTypes, NEW g \in Groups, Make(g) PROVE JournalInv'
<1> USE ConstantsAssumption DEF ConstantsAssumption, JournalTypes
<1>1. /\ made[g] < MaxMade[g] /\ made' = [made EXCEPT ![g] = @ + 1]
      /\ outbox' = [outbox EXCEPT ![g] = @ \cup {made[g] + 1}]
      /\ UNCHANGED <<head, prepared, receipts, revision, fence, wire, job, writer>>
  BY DEF Make, cloud
<1>2. made[g] + 1 \in Ids(g) /\ receipts[g][made[g] + 1] = 0
  <2>1. made[g] \in Nat /\ MaxMade[g] \in Nat OBVIOUS
  <2>2. made[g] + 1 \in Ids(g) BY <1>1, <2>1 DEF Ids
  <2>3. ~(made[g] + 1 <= made[g]) BY <2>1
  <2> QED BY <2>2, <2>3 DEF JournalInv, KeptInv
<1>3. KeptInv'
  <2> SUFFICES ASSUME NEW h \in Groups
      PROVE  /\ made'[h] <= MaxMade[h] /\ outbox'[h] \subseteq 1..made'[h]
             /\ \A n \in 1..made'[h] : n \in outbox'[h] \/ receipts[h][n] # 0
             /\ \A n \in Ids(h) : receipts[h][n] # 0 =>
                  n <= made'[h] /\ \A m \in 1..(n - 1) : receipts[h][m] # 0
    BY <1>1 DEF KeptInv
  <2>1. /\ made[h] \in Nat /\ MaxMade[h] \in Nat
        /\ made[h] <= MaxMade[h] /\ outbox[h] \subseteq 1..made[h]
        /\ \A n \in 1..made[h] : n \in outbox[h] \/ receipts[h][n] # 0
        /\ \A n \in Ids(h) : receipts[h][n] # 0 =>
             n <= made[h] /\ \A m \in 1..(n - 1) : receipts[h][m] # 0
    BY DEF JournalInv, KeptInv
  <2>2. CASE h = g
    <3>1. made'[g] = made[g] + 1 /\ outbox'[g] = outbox[g] \cup {made[g] + 1} BY <1>1
    <3> QED BY <1>1, <2>1, <2>2, <3>1 DEF Ids
  <2>3. CASE h # g
    <3>1. made'[h] = made[h] /\ outbox'[h] = outbox[h] BY <1>1, <2>3
    <3> QED BY <2>1, <3>1
  <2> QED BY <2>2, <2>3
<1>4. WireInv'
  <2>1. SUFFICES ASSUME NEW r \in wire
        PROVE  /\ r.id \in 1..made'[r.group]
               /\ r.id \in outbox'[r.group] => r.id \in outbox[r.group]
    BY <1>1 DEF JournalInv, WireInv
  <2>2. r.group \in Groups /\ r.id \in 1..made[r.group] /\ made[r.group] \in Nat
    BY DEF JournalInv, WireInv, CloudType
  <2>3. CASE r.group = g
    <3>1. made'[g] = made[g] + 1 /\ outbox'[g] = outbox[g] \cup {made[g] + 1} BY <1>1
    <3> QED BY <2>2, <2>3, <3>1
  <2>4. CASE r.group # g
    <3>1. made'[r.group] = made[r.group] /\ outbox'[r.group] = outbox[r.group] BY <1>1, <2>2, <2>4
    <3> QED BY <2>2, <3>1
  <2> QED BY <2>3, <2>4
<1>5. JobInv' BY <1>1 DEF JournalInv, JobInv, Handling, JobType, KeptInv
<1>6. LostAnswerExplained' BY <1>1, <1>2 DEF JournalInv, LostAnswerExplained
<1> QED BY <1>1, <1>3, <1>4, <1>5, <1>6 DEF JournalInv, JobType, CloudType

LEMMA BeginPreserves ==
  ASSUME JournalInv, JournalTypes, BeginDrain PROVE JournalInv'
<1>1. UNCHANGED <<journal, cloud, writer>> BY DEF BeginDrain
<1>2. CASE UNCHANGED job BY <1>1, <1>2, FramePreserves DEF JournalInv, CloudType
<1>3. CASE job' = [g \in Groups |->
             IF g \notin failureGroups /\ outbox[g] # {}
               THEN Job("turn", Cardinality(outbox[g]), {}, NoBase)
               ELSE Off]
  <2>1. ASSUME NEW g \in Groups PROVE Cardinality(outbox[g]) \in Nat
    <3>1. made[g] \in Nat /\ outbox[g] \subseteq 1..made[g] BY DEF JournalInv, KeptInv, JournalTypes
    <3>2. IsFiniteSet(1..made[g]) BY <3>1, FS_Interval
    <3> QED BY <3>1, <3>2, FS_Subset, FS_CardinalityType
  <2>2. ASSUME NEW g \in Groups
        PROVE  job'[g].at \in {"off", "turn"} /\ job'[g] \in
          [at : {"off", "turn"}, left : Int, batch : SUBSET Nat, entry : Nat, fresh : BOOLEAN,
           known : Base, ack : Base]
    <3>1. job'[g] = IF g \notin failureGroups /\ outbox[g] # {}
            THEN Job("turn", Cardinality(outbox[g]), {}, NoBase) ELSE Off
      BY <1>3
    <3>3. NoBase \in Base BY DEF NoBase, Base
    <3>4. CASE job'[g] = Off BY <3>3, <3>4 DEF Off, Job
    <3>5. CASE job'[g] = Job("turn", Cardinality(outbox[g]), {}, NoBase)
      BY <2>1, <3>3, <3>5 DEF Job
    <3> QED BY <3>1, <3>4, <3>5
  <2>3. JobType'
    <3>1. job' = [g \in Groups |-> job'[g]] BY <1>3
    <3> QED BY <3>1, <2>2 DEF JobType
  <2>4. JobInv' BY <2>2 DEF JobInv, Handling
  <2> QED BY <1>1, <2>3, <2>4 DEF JournalInv, CloudType, KeptInv, WireInv, LostAnswerExplained, journal, cloud
<1> QED BY <1>2, <1>3 DEF BeginDrain

LEMMA TurnPreserves ==
  ASSUME JournalInv, JournalTypes, NEW g \in Groups, Turn(g) PROVE JournalInv'
<1> DEFINE first == FirstOf(outbox[g], LeastOf(Batch, job[g].left))
<1>1. UNCHANGED <<journal, cloud, writer>> /\ job[g].at = "turn" BY DEF Turn
<1>2. job' = [job EXCEPT ![g] = Off] \/
      job' = [job EXCEPT ![g] = Job("look", job[g].left, first, NoBase)]
  BY DEF Turn
<1>3. CASE job' = [job EXCEPT ![g] = Off]
  BY <1>1, <1>3, FailingPreserves DEF cloud
<1>4. CASE job' = [job EXCEPT ![g] = Job("look", job[g].left, first, NoBase)]
  <2>2. first \subseteq outbox[g] /\ outbox[g] \subseteq 1..made[g] /\ made[g] \in Nat
    BY DEF FirstOf, JournalInv, KeptInv, JournalTypes
  <2>3. ASSUME NEW b \in first, NEW m \in outbox[g], m < b PROVE m \in first
    <3> DEFINE upTo(n) == {x \in outbox[g] : x <= n}
    <3>1. upTo(m) \subseteq upTo(b) BY <2>2, <2>3
    <3>2. IsFiniteSet(upTo(b))
      <4>1. IsFiniteSet(1..made[g])
        <5>1. made[g] \in Int BY <2>2
        <5> QED BY <5>1, FS_Interval
      <4>2. upTo(b) \subseteq 1..made[g] BY <2>2
      <4> QED BY <4>1, <4>2, FS_Subset
    <3>3. /\ Cardinality(upTo(m)) <= Cardinality(upTo(b))
          /\ Cardinality(upTo(m)) \in Nat /\ Cardinality(upTo(b)) \in Nat
      BY <3>1, <3>2, FS_Subset, FS_CardinalityType
    <3>4. Cardinality(upTo(b)) <= LeastOf(Batch, job[g].left) BY DEF FirstOf
    <3>5. LeastOf(Batch, job[g].left) \in Int
      BY ConstantsAssumption DEF ConstantsAssumption, LeastOf, JournalInv, JobType
    <3>6. Cardinality(upTo(m)) <= LeastOf(Batch, job[g].left) BY <3>3, <3>4, <3>5
    <3> QED BY <3>6 DEF FirstOf
  <2> HIDE DEF first
  <2>4. JobType'
    <3>1. job[g].left \in Int BY DEF JournalInv, JobType
    <3>2. first \subseteq Nat /\ NoBase \in Base BY <2>2 DEF NoBase, Base
    <3> QED BY <1>4, <3>1, <3>2 DEF JournalInv, JobType, Job
  <2>5. JobInv'
    <3>1. job'[g].at = "look" /\ job'[g].batch = first
      BY <1>4 DEF JournalInv, JobType, Job
    <3>2. \A h \in Groups \ {g} : job'[h] = job[h] BY <1>4
    <3>3. UNCHANGED <<outbox, receipts>> BY <1>1 DEF journal, cloud
    <3> QED BY <2>2, <2>3, <3>1, <3>2, <3>3 DEF JournalInv, JobInv, Handling
  <2>6. UNCHANGED <<made, outbox, head, prepared, receipts, revision, fence, wire, writer>>
    BY <1>1 DEF journal, cloud
  <2>7. CloudType' /\ KeptInv' BY <2>6 DEF JournalInv, CloudType, KeptInv
  <2>8. WireInv' /\ LostAnswerExplained' BY <2>6 DEF JournalInv, WireInv, LostAnswerExplained
  <2> QED BY <2>4, <2>5, <2>7, <2>8 DEF JournalInv
<1> QED BY <1>2, <1>3, <1>4

(* A step of a job that only goes on to another place.                     *)
LEMMA GoPreserves ==
  ASSUME JournalInv, JournalTypes, NEW g \in Groups, UNCHANGED <<journal, cloud>>,
         writer' \in [Groups -> Nat],
         NEW j \in [at : {"receipt", "stream", "send", "commit", "ack", "published"}, left : Int,
                    batch : {job[g].batch}, entry : job[g].batch, fresh : BOOLEAN,
                    known : Base, ack : Base],
         job[g].at = "look" \/ Handling(g),
         \A b \in job[g].batch : j.entry <= b,
         j.at \in {"ack", "published"} => receipts[g][j.entry] # 0,
         job' = [job EXCEPT ![g] = j]
  PROVE  JournalInv'
<1>1. JobType' BY DEF JournalInv, JobType
<1>2. job'[g] = j /\ \A h \in Groups \ {g} : job'[h] = job[h] BY DEF JournalInv, JobType
<1>3. UNCHANGED <<made, outbox, head, prepared, receipts, revision, fence, wire>>
  BY DEF journal, cloud
<1>4. JobInv' BY <1>2, <1>3 DEF JournalInv, JobInv, Handling
<1> QED BY <1>1, <1>3, <1>4 DEF JournalInv, CloudType, KeptInv, WireInv, LostAnswerExplained

LEMMA LookPreserves ==
  ASSUME JournalInv, JournalTypes, NEW g \in Groups, Look(g) PROVE JournalInv'
<1>1. PICK n \in job[g].batch :
        /\ \A m \in job[g].batch : n <= m
        /\ \E fresh \in BOOLEAN, reuse \in BOOLEAN : job' = [job EXCEPT ![g] =
               [at |-> IF reuse THEN "send" ELSE IF fresh THEN "stream" ELSE "receipt",
                left |-> job[g].left, batch |-> job[g].batch, ack |-> NoBase,
                entry |-> n, fresh |-> fresh, known |-> IF reuse THEN head[g] ELSE NoBase]]
  <2>1. PICK n \in job[g].batch :
        /\ \A m \in job[g].batch : n <= m
        /\ LET fresh == prepared[g][n] = NoBase
               reuse == fresh /\ job[g].known # NoBase /\ job[g].known = head[g]
           IN  job' = [job EXCEPT ![g] =
               [at |-> IF reuse THEN "send" ELSE IF fresh THEN "stream" ELSE "receipt",
                left |-> job[g].left, batch |-> job[g].batch, ack |-> NoBase,
                entry |-> n, fresh |-> fresh, known |-> IF reuse THEN head[g] ELSE NoBase]]
    BY DEF Look
  <2>2. (prepared[g][n] = NoBase) \in BOOLEAN
        /\ (prepared[g][n] = NoBase /\ job[g].known # NoBase /\ job[g].known = head[g]) \in BOOLEAN
    OBVIOUS
  <2> QED BY <2>1, <2>2
<1>2. PICK fresh \in BOOLEAN, reuse \in BOOLEAN : job' = [job EXCEPT ![g] =
               [at |-> IF reuse THEN "send" ELSE IF fresh THEN "stream" ELSE "receipt",
                left |-> job[g].left, batch |-> job[g].batch, ack |-> NoBase,
                entry |-> n, fresh |-> fresh, known |-> IF reuse THEN head[g] ELSE NoBase]]
  BY <1>1
<1> DEFINE j == [at |-> IF reuse THEN "send" ELSE IF fresh THEN "stream" ELSE "receipt",
                left |-> job[g].left, batch |-> job[g].batch, ack |-> NoBase,
                entry |-> n, fresh |-> fresh, known |-> IF reuse THEN head[g] ELSE NoBase]
<1>3. job[g].left \in Int /\ head[g] \in Base /\ NoBase \in Base
  BY DEF JournalInv, JobType, CloudType, NoBase, Base
<1>4. j \in [at : {"receipt", "stream", "send", "commit", "ack", "published"}, left : Int,
              batch : {job[g].batch}, entry : job[g].batch, fresh : BOOLEAN,
              known : Base, ack : Base]
  BY <1>3
<1>5. j.entry = n /\ j.at \notin {"ack", "published"} OBVIOUS
<1>6. UNCHANGED <<journal, cloud, writer>> /\ job[g].at = "look" BY DEF Look
<1>7. job' = [job EXCEPT ![g] = j] BY <1>2
<1>8. writer' \in [Groups -> Nat] BY <1>6 DEF JournalInv, CloudType
<1> HIDE DEF j
<1> QED BY <1>1, <1>4, <1>5, <1>6, <1>7, <1>8, GoPreserves

(* The same place with another step, for an entry in hand. *)
LEMMA AdvancePreserves ==
  ASSUME JournalInv, JournalTypes, NEW g \in Groups, UNCHANGED <<journal, cloud, writer>>,
         Handling(g), NEW at \in {"receipt", "stream", "send"},
         job' = [job EXCEPT ![g].at = at]
  PROVE  JournalInv'
<1> DEFINE j == [job[g] EXCEPT !.at = at]
<1>1. /\ j \in [at : {"receipt", "stream", "send", "commit", "ack", "published"}, left : Int,
                 batch : {job[g].batch}, entry : job[g].batch, fresh : BOOLEAN,
                 known : Base, ack : Base]
      /\ j.entry = job[g].entry /\ j.at = at
  BY DEF JournalInv, JobType, JobInv
<1>2. \A b \in job[g].batch : j.entry <= b BY <1>1 DEF JournalInv, JobInv
<1>3. job' = [job EXCEPT ![g] = j] OBVIOUS
<1>4. writer' \in [Groups -> Nat] BY DEF JournalInv, CloudType
<1> HIDE DEF j
<1> QED BY <1>1, <1>2, <1>3, <1>4, GoPreserves

LEMMA ReceiptPreserves ==
  ASSUME JournalInv, JournalTypes, NEW g \in Groups, Receipt(g) PROVE JournalInv'
<1> DEFINE got == receipts[g][job[g].entry]
           prior == prepared[g][job[g].entry]
<1>1. UNCHANGED <<journal, cloud, writer>> /\ job[g].at = "receipt" /\ Handling(g)
  BY DEF Receipt, Handling
<1>2. CASE job' = [job EXCEPT ![g].at = "stream"]
  BY <1>1, <1>2, AdvancePreserves
<1>3. CASE job' = [job EXCEPT ![g] = Off] BY <1>1, <1>3, FailingPreserves DEF cloud
<1>4. CASE got # 0 /\ job' = [job EXCEPT ![g] = Acked(@, got, prior.epoch)]
  <2> DEFINE j == Acked(job[g], got, prior.epoch)
  <2>1. job[g].entry \in Ids(g) BY <1>1, EntryIsFirst
  <2>2. got \in Nat /\ prior.epoch \in Nat BY <2>1 DEF JournalInv, CloudType, Base
  <2>3. [revision |-> got, epoch |-> prior.epoch] \in Base BY <2>2 DEF Base
  <2>4. /\ j \in [at : {"receipt", "stream", "send", "commit", "ack", "published"}, left : Int,
                   batch : {job[g].batch}, entry : job[g].batch, fresh : BOOLEAN,
                   known : Base, ack : Base]
        /\ j.entry = job[g].entry
    BY <1>1, <2>3 DEF JournalInv, JobType, JobInv, Acked
  <2>5. \A b \in job[g].batch : j.entry <= b BY <1>1, <2>4 DEF JournalInv, JobInv
  <2>6. job' = [job EXCEPT ![g] = j] BY <1>4
  <2>7. writer' \in [Groups -> Nat] BY <1>1 DEF JournalInv, CloudType
  <2>8. receipts[g][j.entry] # 0 BY <1>4, <2>4
  <2> HIDE DEF j
  <2> QED BY <1>1, <2>4, <2>5, <2>6, <2>7, <2>8, GoPreserves
<1> QED BY <1>2, <1>3, <1>4 DEF Receipt, Failing

LEMMA StreamPreserves ==
  ASSUME JournalInv, JournalTypes, NEW g \in Groups, Stream(g) PROVE JournalInv'
<1>1. UNCHANGED <<journal, cloud, writer>> /\ job[g].at = "stream" /\ Handling(g)
  BY DEF Stream, Handling
<1>2. CASE job' = [job EXCEPT ![g].at = "send"] BY <1>1, <1>2, AdvancePreserves
<1>3. CASE job' = [job EXCEPT ![g] = Off] BY <1>1, <1>3, FailingPreserves DEF cloud
<1> QED BY <1>2, <1>3 DEF Stream, Failing

LEMMA SendPreserves ==
  ASSUME JournalInv, JournalTypes, NEW g \in Groups, Send(g) PROVE JournalInv'
<1> DEFINE e == job[g].entry
           base == [revision |-> head[g].revision, epoch |-> Epoch(g)]
           r0 == [group |-> g, id |-> e, base |-> head[g].revision, epoch |-> Epoch(g)]
<1>1. job[g].at = "send" /\ Handling(g) /\ writer' = [writer EXCEPT ![g] = Epoch(g)]
      /\ UNCHANGED <<made, outbox, head, receipts, revision, fence>>
  BY DEF Send, Handling
<1>2. Epoch(g) \in Nat /\ Epoch(g) # 0 /\ head[g].revision \in Nat
  BY DEF Epoch, JournalInv, CloudType, Base
<1>3. writer' \in [Groups -> Nat] BY <1>1, <1>2 DEF JournalInv, CloudType
<1>4. CASE Refenced(g) /\ job' = [job EXCEPT ![g] = Off] /\ UNCHANGED <<prepared, wire>>
  <2>1. JobType' BY <1>4, EndedJobType DEF JournalInv
  <2>2. JobInv' BY <1>1, <1>4 DEF JournalInv, JobInv, JobType, Handling, Off, Job
  <2>3. CloudType' BY <1>1, <1>3, <1>4 DEF JournalInv, CloudType
  <2> QED BY <1>1, <1>4, <2>1, <2>2, <2>3 DEF JournalInv, KeptInv, WireInv, LostAnswerExplained
<1>5. CASE /\ ~Refenced(g)
           /\ prepared' = [prepared EXCEPT ![g][e] = base]
           /\ wire' = wire \cup {r0}
           /\ job' = [job EXCEPT ![g].at = "commit"]
  <2>1. /\ e \in outbox[g] /\ e \in 1..made[g] /\ e \in Ids(g)
        /\ \A m \in 1..(e - 1) : receipts[g][m] # 0
    BY <1>1, EntryIsFirst
  <2>2. prepared[g][e] # NoBase => prepared[g][e] = base BY <1>5 DEF Refenced
  <2>3. base \in Base /\ base # NoBase BY <1>2 DEF Base, NoBase
  <2>4. /\ DOMAIN prepared' = Groups /\ \A h \in Groups : prepared'[h] \in [Ids(h) -> Base]
        /\ prepared'[g][e] = base
        /\ \A h \in Groups : \A n \in Ids(h) :
             h # g \/ n # e => prepared'[h][n] = prepared[h][n]
    BY <1>5, <2>1, <2>3 DEF JournalInv, CloudType
  <2>5. ASSUME NEW h \in Groups, NEW n \in Ids(h), prepared[h][n] # NoBase
        PROVE  prepared'[h][n] = prepared[h][n]
    BY <2>2, <2>4, <2>5
  <2>6. r0 \in [group : Groups, id : Nat, base : Nat, epoch : Nat \ {0}]
    BY <1>2, <2>1
  <2>7. CloudType' BY <1>1, <1>3, <1>5, <2>4, <2>6 DEF JournalInv, CloudType
  <2>8. KeptInv' BY <1>1 DEF JournalInv, KeptInv
  <2>9. WireInv'
    <3> SUFFICES ASSUME NEW r \in wire'
        PROVE /\ r.id \in 1..made[r.group]
              /\ \A m \in 1..(r.id - 1) : receipts[r.group][m] # 0
              /\ r.id \in outbox[r.group] =>
                   prepared'[r.group][r.id] = [revision |-> r.base, epoch |-> r.epoch]
      BY <1>1 DEF WireInv
    <3>1. CASE r = r0 BY <2>1, <2>4, <3>1
    <3>2. CASE r \in wire
      <4>1. /\ r.id \in 1..made[r.group] /\ r.group \in Groups /\ r.epoch # 0
            /\ \A m \in 1..(r.id - 1) : receipts[r.group][m] # 0
            /\ r.id \in outbox[r.group] =>
                 prepared[r.group][r.id] = [revision |-> r.base, epoch |-> r.epoch]
        BY <3>2 DEF JournalInv, WireInv, CloudType
      <4>2. r.id \in Ids(r.group)
        <5>1. made[r.group] <= MaxMade[r.group] /\ made[r.group] \in Nat /\ MaxMade[r.group] \in Nat
          BY <4>1, ConstantsAssumption DEF ConstantsAssumption, JournalInv, KeptInv, JournalTypes
        <5> QED BY <4>1, <5>1 DEF Ids
      <4>3. [revision |-> r.base, epoch |-> r.epoch] # NoBase BY <4>1 DEF NoBase
      <4> QED BY <4>1, <4>2, <4>3, <2>5
    <3> QED BY <1>5, <3>1, <3>2
  <2>10. job'[g].at = "commit" /\ job'[g].batch = job[g].batch /\ job'[g].entry = e
         /\ \A h \in Groups \ {g} : job'[h] = job[h]
    BY <1>5 DEF JournalInv, JobType
  <2>11. JobInv' BY <1>1, <2>10 DEF JournalInv, JobInv, Handling
  <2>12. JobType' BY <1>5 DEF JournalInv, JobType
  <2>13. LostAnswerExplained'
    <3> SUFFICES ASSUME NEW h \in Groups, NEW n \in outbox[h], receipts[h][n] # 0
        PROVE prepared'[h][n].epoch # 0 /\ receipts[h][n] = prepared'[h][n].revision + 1
      BY <1>1 DEF LostAnswerExplained
    <3>1. prepared[h][n].epoch # 0 /\ receipts[h][n] = prepared[h][n].revision + 1
      BY DEF JournalInv, LostAnswerExplained
    <3>2. n \in Ids(h)
      <4>1. made[h] <= MaxMade[h] /\ made[h] \in Nat /\ MaxMade[h] \in Nat /\ n \in 1..made[h]
        BY ConstantsAssumption DEF ConstantsAssumption, JournalInv, KeptInv, JournalTypes
      <4> QED BY <4>1 DEF Ids
    <3>3. prepared[h][n] # NoBase BY <3>1 DEF NoBase
    <3> QED BY <2>5, <3>1, <3>2, <3>3
  <2> QED BY <2>7, <2>8, <2>9, <2>11, <2>12, <2>13 DEF JournalInv
<1> QED BY <1>4, <1>5 DEF Send, Failing

LEMMA PublishHeadPreserves ==
  ASSUME JournalInv, JournalTypes, NEW g \in Groups, PublishHead(g) PROVE JournalInv'
<1>1. /\ job[g].at = "ack" /\ head' = [head EXCEPT ![g] = job[g].ack]
      /\ job' = [job EXCEPT ![g].at = "published"]
      /\ UNCHANGED <<made, outbox, prepared, receipts, revision, fence, wire, writer>>
  BY DEF PublishHead, cloud
<1>2. JobType' BY <1>1 DEF JournalInv, JobType
<1>3. /\ job'[g].at = "published" /\ job'[g].batch = job[g].batch /\ job'[g].entry = job[g].entry
      /\ \A h \in Groups \ {g} : job'[h] = job[h]
  BY <1>1 DEF JournalInv, JobType
<1>4. JobInv' BY <1>1, <1>3 DEF JournalInv, JobInv, Handling
<1>5. CloudType' BY <1>1 DEF JournalInv, CloudType, JobType
<1> QED BY <1>1, <1>2, <1>4, <1>5 DEF JournalInv, KeptInv, WireInv, LostAnswerExplained

LEMMA AcknowledgePreserves ==
  ASSUME JournalInv, JournalTypes, NEW g \in Groups, Acknowledge(g) PROVE JournalInv'
<1> DEFINE e == job[g].entry
           rest == job[g].batch \ {e}
<1>1. /\ job[g].at \in {"ack", "published"} /\ Handling(g)
      /\ outbox' = [outbox EXCEPT ![g] = @ \ {e}]
      /\ head' = [head EXCEPT ![g] = job[g].ack]
      /\ prepared' = [prepared EXCEPT ![g][e] = NoBase]
      /\ UNCHANGED <<made, receipts, revision, fence, wire, writer>>
  BY DEF Acknowledge, cloud, Handling
<1>2. PICK at \in {"turn", "look"}, known \in Base :
        job' = [job EXCEPT ![g] = Job(at, job[g].left - 1, rest, known)]
  <2>1. (IF rest = {} THEN "turn" ELSE "look") \in {"turn", "look"}
        /\ (IF job[g].fresh THEN job[g].ack ELSE NoBase) \in Base
    BY DEF JournalInv, JobType, NoBase, Base
  <2> QED BY <2>1 DEF Acknowledge
<1>3. /\ e \in outbox[g] /\ e \in 1..made[g] /\ e \in Ids(g) /\ receipts[g][e] # 0
  BY <1>1, EntryIsFirst DEF JournalInv, JobInv
<1>4. JobType'
  <2>1. job[g].left - 1 \in Int /\ rest \subseteq Nat BY DEF JournalInv, JobType
  <2>2. NoBase \in Base BY DEF NoBase, Base
  <2> QED BY <1>2, <2>1, <2>2 DEF JournalInv, JobType, Job
<1>5. CloudType'
  <2>1. NoBase \in Base BY DEF NoBase, Base
  <2> QED BY <1>1, <1>3, <2>1 DEF JournalInv, CloudType, JobType
<1>6. /\ outbox'[g] = outbox[g] \ {e} /\ \A h \in Groups \ {g} : outbox'[h] = outbox[h]
  BY <1>1 DEF JournalTypes
<1>7. \A h \in Groups : \A n \in outbox'[h] :
        n \in outbox[h] /\ prepared'[h][n] = prepared[h][n]
  <2> SUFFICES ASSUME NEW h \in Groups, NEW n \in outbox'[h]
      PROVE n \in outbox[h] /\ prepared'[h][n] = prepared[h][n]
    OBVIOUS
  <2>1. n \in outbox[h] /\ (h # g \/ n # e) BY <1>6
  <2> QED BY <1>1, <2>1 DEF JournalInv, CloudType
<1>8. KeptInv'
  <2> SUFFICES ASSUME NEW h \in Groups
      PROVE  outbox'[h] \subseteq 1..made[h]
             /\ \A n \in 1..made[h] : n \in outbox'[h] \/ receipts[h][n] # 0
    BY <1>1 DEF JournalInv, KeptInv
  <2>1. /\ outbox[h] \subseteq 1..made[h]
        /\ \A n \in 1..made[h] : n \in outbox[h] \/ receipts[h][n] # 0
    BY DEF JournalInv, KeptInv
  <2> QED BY <1>3, <1>6, <2>1
<1>9. WireInv'
  <2> SUFFICES ASSUME NEW r \in wire, r.id \in outbox'[r.group]
      PROVE prepared'[r.group][r.id] = [revision |-> r.base, epoch |-> r.epoch]
    BY <1>1 DEF JournalInv, WireInv
  <2>1. r.group \in Groups BY DEF JournalInv, CloudType
  <2> QED BY <1>7, <2>1 DEF JournalInv, WireInv
<1>10. JobInv'
  <2>1. /\ job'[g].at \in {"turn", "look"} /\ job'[g].batch = rest
        /\ \A h \in Groups \ {g} : job'[h] = job[h]
    BY <1>2 DEF JournalInv, JobType, Job
  <2>2. job[g].batch \subseteq outbox[g]
        /\ \A b \in job[g].batch, m \in outbox[g] : m < b => m \in job[g].batch
    BY <1>1 DEF JournalInv, JobInv
  <2>3. rest \subseteq outbox'[g] /\ \A b \in rest, m \in outbox'[g] : m < b => m \in rest
    BY <1>6, <2>2
  <2> QED BY <1>1, <1>6, <2>1, <2>3 DEF JournalInv, JobInv, Handling
<1>11. LostAnswerExplained' BY <1>1, <1>7 DEF JournalInv, LostAnswerExplained
<1> QED BY <1>4, <1>5, <1>8, <1>9, <1>10, <1>11 DEF JournalInv

(* What an answer does to the job that waits for it. *)
LEMMA AnswerPreserves ==
  ASSUME JournalInv, JournalTypes, NEW r \in wire, NEW got \in Nat, Answer(r, got),
         UNCHANGED outbox,
         \A h \in Groups : \A n \in Ids(h) : receipts[h][n] # 0 => receipts'[h][n] # 0,
         got # 0 => receipts'[r.group][r.id] # 0
  PROVE  JobType' /\ JobInv'
<1> DEFINE g == r.group
<1>1. g \in Groups /\ r.base \in Nat /\ r.epoch \in Nat BY DEF JournalInv, CloudType
<1>2. \A h \in Groups : job[h].at \in {"ack", "published"} => receipts'[h][job[h].entry] # 0
  BY EntryIsFirst DEF JournalInv, JobInv, Handling
<1>3. CASE UNCHANGED job BY <1>2, <1>3 DEF JournalInv, JobType, JobInv, Handling
<1>4. CASE job' = [job EXCEPT ![g] = Off]
  <2>1. JobType' BY <1>1, <1>4, EndedJobType DEF JournalInv
  <2>2. job'[g].at = "off" /\ \A h \in Groups \ {g} : job'[h] = job[h]
    BY <1>1, <1>4 DEF JournalInv, JobType, Off, Job
  <2>3. JobInv' BY <1>2, <2>2 DEF JournalInv, JobInv, Handling
  <2> QED BY <2>1, <2>3
<1>5. CASE Waits(r) /\ got = r.base + 1 /\ job' = [job EXCEPT ![g] = Acked(@, got, r.epoch)]
  <2>1. [revision |-> got, epoch |-> r.epoch] \in Base BY <1>1 DEF Base
  <2>2. JobType' BY <1>1, <1>5, <2>1 DEF JournalInv, JobType, Acked
  <2>3. /\ job'[g].at = "ack" /\ job'[g].batch = job[g].batch /\ job'[g].entry = job[g].entry
        /\ \A h \in Groups \ {g} : job'[h] = job[h]
    BY <1>1, <1>5 DEF JournalInv, JobType, Acked
  <2>4. job[g].entry = r.id /\ Handling(g) BY <1>5 DEF Waits, Handling
  <2>5. receipts'[g][job[g].entry] # 0 BY <1>1, <1>5, <2>4
  <2>6. JobInv' BY <1>2, <2>3, <2>4, <2>5 DEF JournalInv, JobInv, Handling
  <2> QED BY <2>2, <2>6
<1> QED BY <1>3, <1>4, <1>5 DEF Answer, Failing

LEMMA ArrivePreserves ==
  ASSUME JournalInv, JournalTypes, NEW r \in wire, Arrive(r) PROVE JournalInv'
<1> DEFINE g == r.group
<1>1. /\ wire' = wire \ {r}
      /\ UNCHANGED <<made, outbox, head, prepared, fence, writer>>
  BY DEF Arrive, journal
<1>2. /\ g \in Groups /\ r.base \in Nat /\ r.epoch # 0
      /\ r.id \in 1..made[g] /\ \A m \in 1..(r.id - 1) : receipts[g][m] # 0
      /\ r.id \in outbox[g] => prepared[g][r.id] = [revision |-> r.base, epoch |-> r.epoch]
  BY DEF JournalInv, CloudType, WireInv
<1>3. r.id \in Ids(g)
  <2>1. made[g] <= MaxMade[g] /\ made[g] \in Nat /\ MaxMade[g] \in Nat
    BY <1>2, ConstantsAssumption DEF ConstantsAssumption, JournalInv, KeptInv, JournalTypes
  <2> QED BY <1>2, <2>1 DEF Ids
<1>4. CASE UNCHANGED <<receipts, revision>> /\ \E got \in {0, receipts[g][r.id]} : Answer(r, got)
  <2>1. receipts[g][r.id] \in Nat BY <1>2, <1>3 DEF JournalInv, CloudType
  <2>2. JobType' /\ JobInv' BY <1>1, <1>4, <2>1, AnswerPreserves
  <2>3. CloudType' /\ KeptInv' BY <1>1, <1>4 DEF JournalInv, CloudType, KeptInv
  <2>4. WireInv' /\ LostAnswerExplained' BY <1>1, <1>4 DEF JournalInv, WireInv, LostAnswerExplained
  <2> QED BY <2>2, <2>3, <2>4 DEF JournalInv
<1>5. CASE /\ receipts[g][r.id] = 0
           /\ receipts' = [receipts EXCEPT ![g][r.id] = r.base + 1]
           /\ revision' = [revision EXCEPT ![g] = r.base + 1]
           /\ Answer(r, r.base + 1)
  <2>1. r.base + 1 \in Nat /\ r.base + 1 # 0 BY <1>2
  <2>2. /\ DOMAIN receipts' = Groups /\ \A h \in Groups : receipts'[h] \in [Ids(h) -> Nat]
        /\ receipts'[g][r.id] = r.base + 1
        /\ \A h \in Groups : \A n \in Ids(h) :
             h # g \/ n # r.id => receipts'[h][n] = receipts[h][n]
    BY <1>2, <1>3, <1>5, <2>1 DEF JournalInv, CloudType
  <2>3. \A h \in Groups : \A n \in Ids(h) : receipts[h][n] # 0 => receipts'[h][n] # 0
    BY <2>1, <2>2
  <2>4. JobType' /\ JobInv' BY <1>1, <1>5, <2>1, <2>2, <2>3, AnswerPreserves
  <2>5. CloudType' BY <1>1, <1>5, <2>1, <2>2 DEF JournalInv, CloudType
  <2>6. ASSUME NEW h \in Groups PROVE 1..made[h] \subseteq Ids(h)
    <3>1. made[h] <= MaxMade[h] /\ made[h] \in Nat /\ MaxMade[h] \in Nat
      BY ConstantsAssumption DEF ConstantsAssumption, JournalInv, KeptInv, JournalTypes
    <3> QED BY <3>1 DEF Ids
  <2>7. KeptInv'
    <3> SUFFICES ASSUME NEW h \in Groups
        PROVE  /\ \A n \in 1..made[h] : n \in outbox[h] \/ receipts'[h][n] # 0
               /\ \A n \in Ids(h) : receipts'[h][n] # 0 =>
                    n <= made[h] /\ \A m \in 1..(n - 1) : receipts'[h][m] # 0
      BY <1>1 DEF JournalInv, KeptInv
    <3>1. \A n \in 1..made[h] : n \in outbox[h] \/ receipts'[h][n] # 0
      BY <2>3, <2>6 DEF JournalInv, KeptInv
    <3>2. ASSUME NEW n \in Ids(h), receipts'[h][n] # 0
          PROVE  n <= made[h] /\ \A m \in 1..(n - 1) : receipts[h][m] # 0
      <4>1. CASE receipts[h][n] # 0 BY <4>1 DEF JournalInv, KeptInv
      <4>2. CASE receipts[h][n] = 0
        <5>1. h = g /\ n = r.id BY <2>2, <3>2, <4>2
        <5> QED BY <1>2, <5>1 DEF JournalTypes
      <4> QED BY <4>1, <4>2
    <3>3. \A n \in Ids(h) : 1..(n - 1) \subseteq Ids(h)
      BY ConstantsAssumption DEF ConstantsAssumption, Ids
    <3> QED BY <2>3, <3>1, <3>2, <3>3
  <2>8. WireInv'
    <3> SUFFICES ASSUME NEW q \in wire, NEW m \in 1..(q.id - 1) PROVE receipts'[q.group][m] # 0
      BY <1>1 DEF JournalInv, WireInv
    <3>1. q.group \in Groups /\ q.id \in 1..made[q.group] /\ receipts[q.group][m] # 0
          /\ made[q.group] \in Nat
      BY DEF JournalInv, CloudType, WireInv, JournalTypes
    <3>2. m \in 1..made[q.group] BY <3>1
    <3> QED BY <2>3, <2>6, <3>1, <3>2
  <2>9. LostAnswerExplained'
    <3> SUFFICES ASSUME NEW h \in Groups, NEW n \in outbox[h], receipts'[h][n] # 0
        PROVE prepared[h][n].epoch # 0 /\ receipts'[h][n] = prepared[h][n].revision + 1
      BY <1>1 DEF LostAnswerExplained
    <3>1. n \in Ids(h) BY <2>6 DEF JournalInv, KeptInv
    <3>2. CASE h = g /\ n = r.id BY <1>2, <2>2, <3>2
    <3>3. CASE h # g \/ n # r.id BY <2>2, <3>1, <3>3 DEF JournalInv, LostAnswerExplained
    <3> QED BY <3>2, <3>3
  <2> QED BY <2>4, <2>5, <2>7, <2>8, <2>9 DEF JournalInv
<1> QED BY <1>4, <1>5 DEF Arrive

LEMMA RestPreserves ==
  ASSUME JournalInv, JournalTypes,
         \/ \E r \in wire : Quota(r) \/ Lose(r)
         \/ \E g \in Groups : TimeOut(g) \/ TimeOutEarly(g) \/ Unreachable(g) \/ Takeover(g)
                             \/ WriterLapses(g)
         \/ Restart \/ UNCHANGED <<journal, cloud, job, writer>>
  PROVE  JournalInv'
<1>1. ASSUME UNCHANGED <<journal, receipts, revision, fence, writer, job>>, wire' \subseteq wire
      PROVE  JournalInv'
  BY <1>1 DEF JournalInv, JobType, CloudType, KeptInv, WireInv, JobInv, LostAnswerExplained,
    Handling, journal
<1>2. ASSUME NEW r \in wire, Quota(r) \/ Lose(r) PROVE JournalInv'
  <2>1. UNCHANGED <<journal, receipts, revision, fence, writer>> /\ wire' \subseteq wire
    BY <1>2 DEF Quota, Lose
  <2>2. UNCHANGED job \/ job' = [job EXCEPT ![r.group] = Off]
    BY <1>2 DEF Quota, Lose, Failing
  <2>3. r.group \in Groups BY DEF JournalInv, CloudType
  <2> QED BY <2>1, <2>2, <2>3, <1>1, FailingPreserves
<1>3. ASSUME NEW g \in Groups, TimeOut(g) \/ TimeOutEarly(g) \/ Unreachable(g) PROVE JournalInv'
  BY <1>3, FailingPreserves DEF TimeOut, TimeOutEarly, Unreachable, Failing, cloud
<1>4. ASSUME NEW g \in Groups, Takeover(g) PROVE JournalInv'
  <2>1. UNCHANGED <<made, outbox, head, prepared, receipts, wire, job, writer>>
    BY <1>4 DEF Takeover, journal
  <2>2. CloudType' BY <1>4, <2>1 DEF Takeover, JournalInv, CloudType
  <2> QED BY <2>1, <2>2 DEF JournalInv, JobType, KeptInv, WireInv, JobInv, LostAnswerExplained,
        Handling
<1>5. ASSUME NEW g \in Groups, WriterLapses(g) PROVE JournalInv'
  <2>1. writer' \in [Groups -> Nat] BY <1>5 DEF WriterLapses, JournalInv, CloudType
  <2> QED BY <1>5, <2>1, FramePreserves DEF WriterLapses
<1>6. CASE Restart
  <2>1. UNCHANGED <<made, outbox, head, prepared, receipts, revision, fence, wire>>
        /\ job' = [g \in Groups |-> Off] /\ writer' = [g \in Groups |-> 0]
    BY <1>6 DEF Restart, journal, cloud
  <2>2. JobType'
    <3>1. NoBase \in Base BY DEF NoBase, Base
    <3> QED BY <2>1, <3>1 DEF JobType, Off, Job
  <2>3. JobInv' BY <2>1 DEF JobInv, Handling, Off, Job
  <2>4. CloudType' /\ KeptInv' BY <2>1 DEF JournalInv, CloudType, KeptInv
  <2>5. WireInv' /\ LostAnswerExplained' BY <2>1 DEF JournalInv, WireInv, LostAnswerExplained
  <2> QED BY <2>2, <2>3, <2>4, <2>5 DEF JournalInv
<1>7. CASE UNCHANGED <<journal, cloud, job, writer>>
  <2>1. writer' \in [Groups -> Nat] BY <1>7 DEF JournalInv, CloudType
  <2> QED BY <1>7, <2>1, FramePreserves
<1> QED BY <1>2, <1>3, <1>4, <1>5, <1>6, <1>7

LEMMA JournalStep ==
  ASSUME JournalInv, JournalTypes, [Next]_vars PROVE JournalInv'
<1>1. ASSUME NEW g \in Groups, JobStep(g) PROVE JournalInv'
  BY <1>1, TurnPreserves, LookPreserves, ReceiptPreserves, StreamPreserves, SendPreserves,
     PublishHeadPreserves, AcknowledgePreserves DEF JobStep
<1>2. CASE Timer \/ EndSites \/ Conclude \/ Settled \/ Probe \/ Flush \/ RetryBackup
  <2>1. UNCHANGED <<journal, cloud, job, writer>>
    BY <1>2 DEF Timer, EndSites, Conclude, Settled, Probe, Flush, RetryBackup
  <2> QED BY <2>1, RestPreserves
<1>3. ASSUME NEW g \in Groups, Notify(g) PROVE JournalInv'
  <2>1. UNCHANGED <<journal, cloud, job, writer>> BY <1>3 DEF Notify
  <2> QED BY <2>1, RestPreserves
<1>4. CASE UNCHANGED vars BY <1>4, RestPreserves DEF vars
<1>5. CASE System
  BY <1>5, <1>1, <1>2, BeginPreserves, ArrivePreserves, RestPreserves DEF System
<1> QED BY <1>2, <1>3, <1>4, <1>5, MakePreserves, RestPreserves DEF Next

-----------------------------------------------------------------------------
(* The theorems. *)

IInv == SchedulerInv /\ NewsInv /\ JournalInv

LEMMA InitInv == Init => IInv
<1> SUFFICES ASSUME Init PROVE IInv
  OBVIOUS
<1> USE ConstantsAssumption DEF ConstantsAssumption, Init
<1>1. SchedulerInv BY DEF SchedulerInit, SchedulerInv, NeverIdle
<1>2. NewsInv BY DEF SchedulerInit, NewsInv, DrainType, NoDrain, NothingStranded
<1>3. NoBase \in Base BY DEF NoBase, Base
<1>4. JobType /\ JobInv BY <1>3 DEF JobType, JobInv, Handling, Off, Job
<1>5. CloudType BY <1>3 DEF CloudType
<1>6. KeptInv BY DEF KeptInv
<1>7. WireInv /\ LostAnswerExplained BY DEF WireInv, LostAnswerExplained
<1> QED BY <1>1, <1>2, <1>4, <1>5, <1>6, <1>7 DEF IInv, JournalInv

LEMMA StepInv == IInv /\ [Next]_vars => IInv'
<1> SUFFICES ASSUME IInv, [Next]_vars PROVE IInv'
  OBVIOUS
<1> USE DEF IInv
<1>1. SchedulerInv' BY SchedulerSteps, SchedulerStepKeepsInv
<1>2. NewsInv'
  <2>1. \A r \in wire : r.group \in Groups BY DEF JournalInv, CloudType
  <2> QED BY <2>1, NewsStep
<1>3. JournalInv' BY JournalStep DEF NewsInv, JournalTypes
<1> QED BY <1>1, <1>2, <1>3

THEOREM Invariance == Spec => []IInv
BY InitInv, StepInv, PTL DEF Spec

(* However failures, pauses, flushes, retries and restarts interleave with *)
(* the changes a scheduler hears of, one of them is always on its way.     *)
THEOREM SchedulerNeverIdle == Spec => []NeverIdle
<1>1. IInv => NeverIdle BY DEF IInv, SchedulerInv
<1> QED BY <1>1, Invariance, PTL

(* No drain takes a change for saved that came after the drain began.      *)
THEOREM NothingIsStranded == Spec => []NothingStranded
<1>1. IInv => NothingStranded BY DEF IInv, NewsInv
<1> QED BY <1>1, Invariance, PTL

(* A lost answer is told from a conflict, for every number of faults.      *)
THEOREM LostAnswersExplained == Spec => []LostAnswerExplained
<1>1. IInv => LostAnswerExplained BY DEF IInv, JournalInv
<1> QED BY <1>1, Invariance, PTL

-----------------------------------------------------------------------------
(* The refinement: an accepted commit saves, the acknowledgement of the    *)
(* outbox forgets, every other step of the protocol is invisible.          *)

LEMMA SavedStep ==
  ASSUME JournalInv, JournalTypes, NEW r \in wire, receipts[r.group][r.id] = 0,
         receipts' = [receipts EXCEPT ![r.group][r.id] = r.base + 1]
  PROVE  /\ r.group \in Groups /\ r.id \in 1..made[r.group]
         /\ Saved[r.group] = 1..(r.id - 1)
         /\ Saved' = [Saved EXCEPT ![r.group] = 1..(r.id)]
<1> DEFINE g == r.group
<1>1. /\ g \in Groups /\ r.base \in Nat /\ r.id \in 1..made[g]
      /\ \A m \in 1..(r.id - 1) : receipts[g][m] # 0
      /\ made[g] \in Nat /\ MaxMade[g] \in Nat /\ made[g] <= MaxMade[g]
  BY ConstantsAssumption DEF ConstantsAssumption, JournalInv, CloudType, WireInv, KeptInv, JournalTypes
<1>2. 1..(r.id) \subseteq Ids(g) BY <1>1 DEF Ids
<1>3. \A n \in Ids(g) : receipts[g][n] # 0 => n < r.id
  <2> SUFFICES ASSUME NEW n \in Ids(g), receipts[g][n] # 0, ~(n < r.id) PROVE FALSE
    OBVIOUS
  <2>1. n \in Int /\ n # r.id BY DEF Ids
  <2>2. r.id \in 1..(n - 1) BY <1>1, <2>1
  <2> QED BY <1>1, <2>2 DEF JournalInv, KeptInv
<1>4. Saved[g] = 1..(r.id - 1)
  <2>1. Saved[g] = {n \in Ids(g) : receipts[g][n] # 0} BY <1>1 DEF Saved
  <2>2. \A n \in Ids(g) : n \in Int /\ n >= 1 BY DEF Ids
  <2>3. \A n \in Ids(g) : receipts[g][n] # 0 => n \in 1..(r.id - 1) BY <1>1, <1>3, <2>2
  <2>4. \A n \in 1..(r.id - 1) : n \in Ids(g) /\ receipts[g][n] # 0 BY <1>1, <1>2
  <2> QED BY <2>1, <2>3, <2>4
<1>5. /\ receipts'[g][r.id] # 0
      /\ \A h \in Groups : \A n \in Ids(h) : h # g \/ n # r.id => receipts'[h][n] = receipts[h][n]
  BY <1>1, <1>2 DEF JournalInv, CloudType
<1>6. {n \in Ids(g) : receipts'[g][n] # 0} = 1..(r.id)
  <2>1. {n \in Ids(g) : receipts[g][n] # 0} = 1..(r.id - 1) BY <1>1, <1>4 DEF Saved
  <2>2. {n \in Ids(g) : receipts'[g][n] # 0} = {n \in Ids(g) : receipts[g][n] # 0} \cup {r.id}
    BY <1>1, <1>2, <1>5
  <2>3. (1..(r.id - 1)) \cup {r.id} = 1..(r.id) BY <1>1
  <2> QED BY <2>1, <2>2, <2>3
<1>7. \A h \in Groups \ {g} :
        {n \in Ids(h) : receipts'[h][n] # 0} = {n \in Ids(h) : receipts[h][n] # 0}
  BY <1>5
<1>8. Saved' = [Saved EXCEPT ![g] = 1..(r.id)]
  <2>1. Saved' = [h \in Groups |-> {n \in Ids(h) : receipts'[h][n] # 0}] BY DEF Saved, Ids
  <2>2. [Saved EXCEPT ![g] = 1..(r.id)] =
          [h \in Groups |-> IF h = g THEN 1..(r.id) ELSE {n \in Ids(h) : receipts[h][n] # 0}]
    BY <1>1 DEF Saved
  <2>3. \A h \in Groups : {n \in Ids(h) : receipts'[h][n] # 0} =
          IF h = g THEN 1..(r.id) ELSE {n \in Ids(h) : receipts[h][n] # 0}
    BY <1>6, <1>7
  <2> DEFINE next(h) == {n \in Ids(h) : receipts'[h][n] # 0}
             mapped(h) == IF h = g THEN 1..(r.id) ELSE {n \in Ids(h) : receipts[h][n] # 0}
  <2>4. \A h \in Groups : next(h) = mapped(h) BY <2>3
  <2> HIDE DEF next, mapped
  <2>5. [h \in Groups |-> next(h)] = [h \in Groups |-> mapped(h)] BY <2>4
  <2> QED BY <2>1, <2>2, <2>5 DEF next, mapped
<1> QED BY <1>1, <1>4, <1>8

LEMMA RefinesStep ==
  ASSUME JournalInv, JournalTypes, [Next]_vars PROVE [Journal!Next]_(Journal!vars)
<1>1. ASSUME UNCHANGED <<made, outbox, receipts>> PROVE UNCHANGED Journal!vars
  BY <1>1 DEF Journal!vars, Saved
<1>2. ASSUME NEW g \in Groups, Make(g) PROVE Journal!Next
  <2>1. UNCHANGED Saved BY <1>2 DEF Make, cloud, Saved
  <2>2. Journal!Make(g) BY <1>2, <2>1 DEF Make, Journal!Make
  <2> QED BY <2>2 DEF Journal!Next
<1>3. ASSUME NEW g \in Groups, Acknowledge(g) PROVE Journal!Next
  <2> DEFINE e == job[g].entry
  <2>1. Handling(g) /\ job[g].at \in {"ack", "published"} BY <1>3 DEF Acknowledge, Handling
  <2>2. /\ e \in outbox[g] /\ e \in Ids(g) /\ receipts[g][e] # 0 /\ \A m \in outbox[g] : e <= m
    BY <2>1, EntryIsFirst DEF JournalInv, JobInv
  <2>3. e \in outbox[g] \cap Saved[g] BY <2>2 DEF Saved
  <2>4. UNCHANGED <<made, Saved>> /\ outbox' = [outbox EXCEPT ![g] = @ \ {e}]
    BY <1>3 DEF Acknowledge, cloud, Saved
  <2>5. Journal!Forget(g) BY <2>2, <2>3, <2>4 DEF Journal!Forget
  <2> QED BY <2>5 DEF Journal!Next
<1>4. ASSUME NEW r \in wire, Arrive(r) PROVE [Journal!Next]_(Journal!vars)
  <2>1. UNCHANGED <<made, outbox>> BY <1>4 DEF Arrive, journal
  <2>2. CASE UNCHANGED receipts BY <2>1, <2>2, <1>1
  <2>3. CASE receipts[r.group][r.id] = 0 /\ receipts' = [receipts EXCEPT ![r.group][r.id] = r.base + 1]
    <3>1. Journal!Save(r.group) BY <2>1, <2>3, SavedStep DEF Journal!Save
    <3> QED BY <2>3, <3>1, SavedStep DEF Journal!Next
  <2> QED BY <1>4, <2>2, <2>3 DEF Arrive
<1>5. ASSUME NEW g \in Groups, JobStep(g) PROVE [Journal!Next]_(Journal!vars)
  <2>1. CASE Turn(g) \/ Look(g) \/ Receipt(g) \/ Stream(g) \/ Send(g) \/ PublishHead(g)
    BY <2>1, <1>1 DEF Turn, Look, Receipt, Stream, Send, PublishHead, journal, cloud
  <2> QED BY <1>3, <1>5, <2>1 DEF JobStep
<1>6. CASE \/ Timer \/ BeginDrain \/ EndSites \/ Conclude \/ Settled \/ Probe \/ Flush
           \/ RetryBackup \/ Restart \/ UNCHANGED vars
  BY <1>6, <1>1 DEF Timer, BeginDrain, EndSites, Conclude, Settled, Probe, Flush, RetryBackup,
    Restart, vars, journal, cloud
<1>7. ASSUME NEW g \in Groups, \/ Notify(g) \/ TimeOut(g) \/ TimeOutEarly(g) \/ Unreachable(g)
                              \/ Takeover(g) \/ WriterLapses(g)
      PROVE UNCHANGED Journal!vars
  BY <1>7, <1>1 DEF Notify, TimeOut, TimeOutEarly, Unreachable, Takeover, WriterLapses,
    journal, cloud
<1>8. ASSUME NEW r \in wire, Quota(r) \/ Lose(r) PROVE UNCHANGED Journal!vars
  BY <1>8, <1>1 DEF Quota, Lose, journal, cloud
<1> QED BY <1>2, <1>4, <1>5, <1>6, <1>7, <1>8 DEF Next, System

(* The protocol implements the journal: nothing is lost, and the cloud has *)
(* each change once and in order, for all numbers of websites and faults.  *)
THEOREM Refinement == Spec => ImplementsProfileJournal
<1>1. Init => Journal!Init
  <2> SUFFICES ASSUME Init PROVE Journal!Init
    OBVIOUS
  <2>1. Saved = [g \in Groups |-> {}] BY DEF Init, Saved
  <2> QED BY <2>1 DEF Init, Journal!Init
<1>2. IInv /\ [Next]_vars => [Journal!Next]_(Journal!vars)
  BY RefinesStep DEF IInv, NewsInv, JournalTypes
<1> QED BY <1>1, <1>2, Invariance, PTL DEF Spec, ImplementsProfileJournal, Journal!Spec

=============================================================================
