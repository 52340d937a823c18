---------------------------- MODULE BackupPublish ----------------------------
(***************************************************************************)
(* web/src/backup-v2-service.ts with runtime/backup-v2-spool.ts: the actor *)
(* that captures a namespace, publishes it as a checkpoint and then        *)
(* acknowledges the website's ledger.  The actor may stop anywhere; what   *)
(* it must not forget is in the spool.  A request may be lost, its reply   *)
(* may be lost, and a request to publish may arrive after its sender is    *)
(* gone.  One actor runs at a time (a Web Lock).                           *)
(*                                                                         *)
(* A checkpoint of this model holds one namespace and is named by its      *)
(* version.  The server is external: a staged checkpoint is published once *)
(* and only on top of the head it was prepared for, a cancelled one never. *)
(***************************************************************************)
EXTENDS BackupCapture

CONSTANTS
  MaxSequence,  \* bound on checkpoint sequences
  Faults        \* what goes wrong, a subset of {"stop", "reject"}

VARIABLES
  actor,     \* the running flush: its step and the source it opened
  head,      \* spool: the local view of the published head
  prepared,  \* spool: the checkpoint to be resolved before any other
  invalid,   \* spool: versions of abandoned checkpoints
  cloud,     \* server: head sequence, checkpoint, and what it restores to
  staged,    \* server: a checkpoint with all its parts
  wire       \* a request to publish that may still arrive

spool == <<job, head, prepared, invalid>>
server == <<cloud, staged>>
vars == <<site, spool, server, actor, wire>>

Nothing == [version |-> None]
Off == [step |-> "off", inc |-> 0]

Init ==
  /\ SiteInit
  /\ job = NoJob
  /\ actor = Off
  /\ head = [sequence |-> 0, checkpoint |-> None, inc |-> 0, cancelled |-> Nothing]
  /\ prepared = Nothing /\ invalid = {}
  /\ cloud = [sequence |-> 0, checkpoint |-> None, rows |-> NoRows, moment |-> 0]
  /\ staged = Nothing /\ wire = None

Goto(s) == actor' = IF s = "off" THEN Off ELSE [actor EXCEPT !.step = s]
Go(from, to) == actor.step = from /\ Goto(to)

(* The sources of a run were opened at its start; when the database is     *)
(* replaced, they fail and the run ends.                                   *)
SourceOpen == Current.inc = actor.inc

(* namespaceHeads and namespaceIncarnations. *)
Parent == IF head.inc = Current.inc THEN head.checkpoint ELSE None

(* crypto.randomUUID(): an identity that nothing refers to. *)
Referred == {job.version, head.checkpoint, prepared.version, cloud.checkpoint,
             staged.version, wire} \cup invalid
FreshVersion == CHOOSE v \in Versions \ Referred : TRUE

Published == prepared # Nothing /\ cloud.checkpoint = prepared.version

-----------------------------------------------------------------------------
(* run() up to prepare(): whatever is pending is resolved first. *)
MutBegin ==
  /\ actor.step = "off"
  /\ actor' = [inc |-> Current.inc, step |-> "prepare"]
  /\ UNCHANGED <<site, spool, server, wire>>

Begin ==
  /\ actor.step = "off"
  /\ actor' = [inc |-> Current.inc,
               step |-> IF head.cancelled # Nothing THEN "adopt"
                        ELSE IF prepared = Nothing  THEN "prepare"
                        ELSE IF prepared.cancelled  THEN "cancel"
                        ELSE "post"]
  /\ UNCHANGED <<site, spool, server, wire>>

(* clearUnprepared() *)
ClearUnprepared ==
  /\ Go("prepare", "turn")
  /\ job' = IF job.version \in invalid THEN NoJob ELSE job
  /\ invalid' = {}
  /\ UNCHANGED <<site, head, prepared, server, wire>>

(* A clean source is not visited; a capture that was already published is  *)
(* dropped.                                                                *)
SkipClean ==
  /\ Go("turn", "off") /\ SourceOpen
  /\ Current.generation <= Current.acknowledged
  /\ job' = IF job.version = head.checkpoint THEN NoJob ELSE job
  /\ UNCHANGED <<site, head, prepared, invalid, server, wire>>

Visit ==
  /\ Go("turn", "visit") /\ SourceOpen
  /\ Current.generation > Current.acknowledged
  /\ Versions \ Referred # {}
  /\ Resumed(FreshVersion, Parent)
  /\ UNCHANGED <<site, head, prepared, invalid, server, wire>>

(* A slice; the visit goes on or yields to another one. *)
CaptureSlice ==
  /\ actor.step = "visit" /\ SourceOpen
  /\ Slices
  /\ \E s \in {"visit", "turn"} : Goto(s)
  /\ UNCHANGED <<site, head, prepared, invalid, server, wire>>

GiveUp ==
  /\ Go("visit", "off") /\ SourceOpen
  /\ GivenUp
  /\ job' = NoJob
  /\ UNCHANGED <<site, head, prepared, invalid, server, wire>>

(* evictPartial(): another namespace needs the room. *)
Evict ==
  /\ Go("turn", "turn")
  /\ job # NoJob /\ job.phase # "done" /\ job.version # prepared.version
  /\ job' = NoJob
  /\ UNCHANGED <<site, head, prepared, invalid, server, wire>>

(* The rest of prepare(): the identity is durable before any request. *)
Prepare ==
  /\ Go("visit", "post")
  /\ job.phase = "done"
  /\ head.sequence < MaxSequence
  /\ prepared' = [version |-> job.version, sequence |-> head.sequence + 1,
                  parent |-> head.checkpoint,
                  base |-> IF job.baseline THEN None ELSE job.parent,
                  cut |-> job.target, epoch |-> job.initial[3],
                  inc |-> job.initial[1], cancelled |-> FALSE]
  /\ UNCHANGED <<site, job, head, invalid, server, wire>>

-----------------------------------------------------------------------------
(* publish(): the server answers the manifest with a receipt, if it has     *)
(* published the checkpoint, or with the parts it misses.                  *)
PostManifest ==
  /\ \/ Published /\ Go("post", "acknowledge") /\ UNCHANGED <<staged, wire>>
     \/ /\ ~Published /\ staged.version = prepared.version
        /\ Go("post", "wait") /\ wire' = prepared.version
        /\ UNCHANGED staged
     \/ /\ ~Published /\ staged.version # prepared.version
        /\ Go("post", "upload") /\ staged' = Nothing
        /\ UNCHANGED wire
  /\ UNCHANGED <<site, spool, cloud>>

(* The missing parts come from the spool; without them there is no         *)
(* checkpoint.  Then the request to publish.                               *)
Upload ==
  /\ Go("upload", "wait")
  /\ job.version = prepared.version
  /\ staged' = [version |-> prepared.version, sequence |-> prepared.sequence,
                parent |-> prepared.parent, base |-> prepared.base,
                cut |-> prepared.cut, inc |-> prepared.inc,
                records |-> job.records]
  /\ wire' = prepared.version
  /\ UNCHANGED <<site, spool, cloud>>

(* The server: a delta is applied to the namespace version it names. *)
Accepts(c) ==
  /\ c.sequence = cloud.sequence + 1 /\ c.parent = cloud.checkpoint
  /\ c.base \in {None, cloud.checkpoint}

Restored(c) ==
  [k \in Keys |-> IF c.records[k] # Unread THEN c.records[k]
                  ELSE IF c.base = None THEN 0 ELSE cloud.rows[k]]

MomentOf(inc, generation) ==
  CHOOSE i \in DOMAIN past : past[i].inc = inc /\ past[i].generation = generation

ServerPublish ==
  /\ wire # None /\ wire' = None
  /\ IF staged.version = wire /\ Accepts(staged)
     THEN /\ cloud' = [sequence |-> staged.sequence, checkpoint |-> wire,
                       rows |-> Restored(staged),
                       moment |-> MomentOf(staged.inc, staged.cut)]
          /\ staged' = Nothing
     ELSE UNCHANGED server
  /\ UNCHANGED <<site, spool, actor>>

Receipt ==
  /\ Published /\ Go("wait", "acknowledge")
  /\ UNCHANGED <<site, spool, server, wire>>

(* catalogueRejection(): the intent to cancel is durable first. *)
Reject ==
  /\ actor.step \in {"post", "wait"} /\ Goto("cancel")
  /\ "reject" \in Faults
  /\ cloud.checkpoint = None
  /\ prepared' = [prepared EXCEPT !.cancelled = TRUE]
  /\ UNCHANGED <<site, job, head, invalid, server, wire>>

(* cancelRejectedPreparation(): a receipt wins. *)
CheckStaging ==
  /\ Go("cancel", IF Published THEN "acknowledge" ELSE "delete")
  /\ UNCHANGED <<site, spool, server, wire>>

MutDeleteStaging ==
  /\ Go("delete", "abandon") /\ staged' = Nothing
  /\ UNCHANGED <<site, spool, cloud, wire>>

DeleteStaging ==
  /\ IF Published
     THEN Go("delete", "off") /\ UNCHANGED staged
     ELSE Go("delete", "abandon") /\ staged' = Nothing
  /\ UNCHANGED <<site, spool, cloud, wire>>

AbandonPrepared ==
  /\ Go("abandon", "adopt")
  /\ job' = IF job.version = prepared.version
            THEN [job EXCEPT !.invalidated = TRUE] ELSE job
  /\ invalid' = invalid \cup {prepared.version}
  /\ head' = [head EXCEPT !.cancelled =
                [version |-> prepared.version, sequence |-> prepared.sequence,
                 parent |-> prepared.parent]]
  /\ prepared' = Nothing
  /\ UNCHANGED <<site, server, wire>>

(* adoptCancellation(): the sequence is used up on both sides. *)
AdoptCancellation ==
  /\ Go("adopt", "adopted")
  /\ cloud' = [cloud EXCEPT !.sequence = head.cancelled.sequence]
  /\ UNCHANGED <<site, spool, staged, wire>>

MutSaveAdoption ==
  /\ Go("adopted", "off") \/ Go("adopted", "prepare")
  /\ head' = [head EXCEPT !.cancelled = Nothing]
  /\ UNCHANGED <<site, job, prepared, invalid, server, wire>>

SaveAdoption ==
  /\ Go("adopted", "off") \/ Go("adopted", "prepare")
  /\ head' = [head EXCEPT !.sequence = head.cancelled.sequence,
                          !.checkpoint = head.cancelled.parent,
                          !.cancelled = Nothing]
  /\ UNCHANGED <<site, job, prepared, invalid, server, wire>>

-----------------------------------------------------------------------------
(* The end of run(): the ledger first, then the head. *)
Acknowledge ==
  /\ Go("acknowledge", IF prepared.inc = Current.inc THEN "sweep" ELSE "finish")
  /\ SourceOpen
  /\ ledger' = IF prepared.inc = Current.inc
               THEN [ledger EXCEPT ![place] =
                       Acknowledged(@, prepared.cut, prepared.epoch)]
               ELSE ledger
  /\ UNCHANGED <<rows, place, past, spool, server, wire>>

Sweep ==
  /\ Go("sweep", "finish") /\ SourceOpen
  /\ ledger' = [ledger EXCEPT ![place] = Collected(@)]
  /\ UNCHANGED <<rows, place, past, spool, server, wire>>

Finish ==
  /\ Go("finish", "discard")
  /\ head' = [head EXCEPT !.sequence = prepared.sequence,
                          !.checkpoint = prepared.version, !.inc = prepared.inc]
  /\ prepared' = Nothing
  /\ UNCHANGED <<site, job, invalid, server, wire>>

Discard ==
  /\ Go("discard", "off")
  /\ job' = IF job.version = head.checkpoint THEN NoJob ELSE job
  /\ UNCHANGED <<site, head, prepared, invalid, server, wire>>

(* The worker ends, a request or its reply is lost, a read is aborted. *)
Stop ==
  /\ "stop" \in Faults \/ ~SourceOpen
  /\ actor.step # "off" /\ Goto("off")
  /\ UNCHANGED <<site, spool, server, wire>>

Website ==
  /\ SiteNext
  /\ UNCHANGED <<spool, server, actor, wire>>

Next ==
  \/ Website \/ Begin \/ ClearUnprepared \/ SkipClean \/ Visit \/ CaptureSlice
  \/ GiveUp \/ Evict \/ Prepare \/ PostManifest \/ Upload \/ ServerPublish
  \/ Receipt \/ Reject \/ CheckStaging \/ DeleteStaging
  \/ AbandonPrepared \/ AdoptCancellation \/ SaveAdoption \/ Acknowledge
  \/ Sweep \/ Finish \/ Discard \/ Stop

Spec == Init /\ [][Next]_vars

-----------------------------------------------------------------------------
(* A restore finds the website as it was at one committed moment, and a    *)
(* later checkpoint a later one: pages read while the website writes,      *)
(* catch-up passes, deltas on the published version, crashes and requests  *)
(* that arrive late never mix two moments (prepare, resumeBackupNamespace, *)
(* publish).                                                               *)
Chain == INSTANCE BackupChain WITH
  States <- Rows, Empty <- NoRows,
  past <- [i \in DOMAIN past |-> past[i].rows],
  moment <- cloud.moment, cloud <- cloud.rows

ImplementsBackupChain == Chain!Spec

(* What differs from the published version is marked, or a baseline is due: *)
(* acknowledging a cut while newer changes arrive, and collecting markers  *)
(* slice by slice, forget no change (acknowledgeLocalDirty,                *)
(* collectLocalDirtyGarbage).                                              *)
Live(l) == {m \in l.dirty : m.epoch = l.epoch /\ m.generation > l.acknowledged}

NothingForgotten ==
  \/ Current.inc # head.inc \/ head.checkpoint = None \/ Current.baseline
  \/ \A k \in Keys : rows[k] # cloud.rows[k] => \E m \in Live(Current) : m.key = k

(* A prepared checkpoint that is not published fits on the server's head:  *)
(* its sequence is the next one and it changes the version the server has. *)
(* Otherwise it would be refused for ever, and no backup could follow it   *)
(* (prepare, finish, adoptCancellation).                                   *)
NeverInConflict ==
  (prepared # Nothing /\ ~Published) =>
    /\ prepared.sequence = cloud.sequence + 1
    /\ prepared.parent = cloud.checkpoint
    /\ prepared.base \in {None, cloud.checkpoint}

(* While a checkpoint is pending, the spool has its sealed parts: it is    *)
(* neither evicted nor replaced by a new capture (prepare, evictPartial).  *)
PreparedIsKept ==
  prepared # Nothing => job.version = prepared.version /\ job.phase = "done"

(* With nothing pending, the spool's head is the server's, although every  *)
(* reply may be lost and a cancelled publication may still be on its way   *)
(* (finish, cancelRejectedPreparation, adoptCancellation).                 *)
HeadsAgree ==
  (prepared = Nothing /\ head.cancelled = Nothing) =>
    head.sequence = cloud.sequence /\ head.checkpoint = cloud.checkpoint

(* Every row has a size record of the store's epoch: without one, a        *)
(* capture would give the whole namespace up (pump, readBaselinePage).     *)
RowsCapturable ==
  place = "database" =>
    \A k \in Keys : rows[k] # 0 => Sized(k, Or1(Current.storeEpoch))

(* A collection that says it is done has left nothing behind, although its *)
(* goal may have moved while its cursors were halfway                      *)
(* (collectLocalDirtyGarbage).                                             *)
SweepLeavesNothing ==
  \A p \in DOMAIN ledger :
    LET l == ledger[p]
    IN  (l.gc.goal = Goal(l) /\ l.gc.dirtyDone /\ l.gc.sizeDone) =>
          /\ \A m \in l.dirty : ~GarbageMarker(l, m)
          /\ \A s \in l.sizes : ~GarbageSize(l, s)

=============================================================================
