----------------------------- MODULE ProfileSync -----------------------------
(***************************************************************************)
(* web/src/profile-client.ts with runtime/profile-sync.ts: the changes of  *)
(* the websites of a profile wait in durable outboxes, and drains send     *)
(* them to the cloud, one stream per website, two websites at a time.      *)
(*                                                                         *)
(* A change commits with its outbox entry, and a notice of it follows or   *)
(* is missed.  Requests may be lost or arrive late, the browser may        *)
(* restart at any step, and another browser may own a website in between.  *)
(* The cloud is external: it accepts a commit once, on top of the revision *)
(* and under the fencing epoch it was made for.                            *)
(***************************************************************************)
EXTENDS ProfileScheduler, Integers, FiniteSets

CONSTANTS
  Groups,       \* site groups with a queue
  Directories,  \* those whose head is in the catalog, not beside the outbox
  Batch,        \* entries of one turn (8 in the source)
  MaxMade,      \* bound on the changes of each website
  MaxFaults,    \* bound on faults
  Faults        \* subset of {"restart", "offline", "late", "lost", "takeover", "quota"}

ASSUME ConstantsAssumption ==
  /\ Directories \subseteq Groups
  /\ Batch \in Nat \ {0} /\ MaxMade \in [Groups -> Nat] /\ MaxFaults \in Nat
  /\ "*" \notin Groups

VARIABLES
  made, outbox,       \* committed changes, and those the outbox still has
  head, prepared,     \* durable: last acknowledged head, base of a sent entry
  receipts,           \* cloud: revision of each change, 0 if it has none
  revision, fence,    \* cloud: head of each stream and its fencing epoch
  wire,               \* commits on their way
  drain, job,         \* the running drain and its work for each website
  failureGroups,      \* backupFailureGroups
  writer,             \* epoch of the cached writer, 0 if there is none
  news,               \* "coming" before the notice of a change, "told" after
  faults              \* faults so far

journal == <<made, outbox, head, prepared>>
cloud == <<receipts, revision, fence, wire>>
vars == <<scheduler, journal, cloud, drain, job, failureGroups, writer, news, faults>>

Ids(g) == 1..MaxMade[g]
NoBase == [revision |-> 0, epoch |-> 0]
Job(at, left, batch, known) ==
  [at |-> at, left |-> left, batch |-> batch, known |-> known,
   entry |-> 0, fresh |-> FALSE, ack |-> NoBase]
Off == Job("off", 0, {}, NoBase)
NoDrain == [at |-> "off", empty |-> FALSE, failed |-> {}, temporary |-> FALSE]

Init ==
  /\ SchedulerInit
  /\ drain = NoDrain /\ job = [g \in Groups |-> Off]
  /\ failureGroups = {} /\ writer = [g \in Groups |-> 0]
  /\ news = [g \in Groups |-> "none"]
  /\ made = [g \in Groups |-> 0] /\ outbox = [g \in Groups |-> {}]
  /\ head = [g \in Groups |-> NoBase]
  /\ prepared = [g \in Groups |-> [n \in Ids(g) |-> NoBase]]
  /\ receipts = [g \in Groups |-> [n \in Ids(g) |-> 0]]
  /\ revision = [g \in Groups |-> 0] /\ fence = [g \in Groups |-> 1]
  /\ wire = {} /\ faults = 0

Fault(f) == f \in Faults /\ faults < MaxFaults /\ faults' = faults + 1

-----------------------------------------------------------------------------
(* Changes and notices. *)

(* appendProfileJournal(), in the transaction of the change itself. *)
Make(g) ==
  /\ made[g] < MaxMade[g]
  /\ made' = [made EXCEPT ![g] = @ + 1]
  /\ outbox' = [outbox EXCEPT ![g] = @ \cup {made[g] + 1}]
  /\ news' = [news EXCEPT ![g] = "coming"]
  /\ UNCHANGED <<scheduler, head, prepared, cloud, drain, job, failureGroups, writer, faults>>

Independent(g) == failureGroups # {} /\ failureGroups \cap {g, "*"} = {}

Notify(g) ==
  /\ news[g] = "coming"
  /\ news' = [news EXCEPT ![g] = "told"]
  /\ Changed(Independent(g))
  /\ UNCHANGED <<journal, cloud, drain, job, failureGroups, writer, faults>>

(* checkPendingBackups().  A list that is old when it is answered would   *)
(* only add a drain with nothing to do, as Flush does.                     *)
Probe ==
  /\ \E g \in Groups : outbox[g] # {}
  /\ ReconcileDirty
  /\ UNCHANGED <<journal, cloud, drain, job, failureGroups, writer, news, faults>>

-----------------------------------------------------------------------------
(* One drain. *)

Timer ==
  /\ TimerFires
  /\ UNCHANGED <<journal, cloud, drain, job, failureGroups, writer, news, faults>>

(* flush(), when the page is hidden or comes online or someone asks. *)
Flush ==
  /\ FlushNow
  /\ UNCHANGED <<journal, cloud, drain, job, failureGroups, writer, news, faults>>

RetryBackup ==
  /\ failureGroups' = {}
  /\ \/ FlushNow
     \/ flight # "none" /\ UNCHANGED scheduler
  /\ UNCHANGED <<journal, cloud, drain, job, writer, news, faults>>

(* The error a drain ends with: a profile-wide failure first, then an      *)
(* outage that may be retried, then the failures of single websites.       *)
Retryable(failed, temporary) == "*" \notin failed /\ (temporary \/ failed = {})

DrainFails(failed, temporary) ==
  /\ Failed(Retryable(failed, temporary))
  /\ failureGroups' = IF "*" \in failed THEN {"*"} ELSE failed
  /\ drain' = NoDrain

(* drain(true): websites that failed for good are left out, and it fails   *)
(* at once after a profile-wide failure.                                   *)
BeginDrain ==
  /\ flight = "run" /\ drain.at = "off"
  /\ \/ /\ "*" \in failureGroups
        /\ DrainFails({"*"}, FALSE)
        /\ UNCHANGED job
     \/ /\ "*" \notin failureGroups
        /\ drain' = [NoDrain EXCEPT !.at = "sites", !.failed = failureGroups]
        /\ job' = [g \in Groups |->
             IF g \notin failureGroups /\ outbox[g] # {}
               THEN Job("turn", Cardinality(outbox[g]), {}, NoBase)
               ELSE Off]
        /\ UNCHANGED <<scheduler, failureGroups>>
  /\ UNCHANGED <<journal, cloud, writer, news, faults>>

EndSites ==
  /\ drain.at = "sites" /\ \A g \in Groups : job[g].at = "off"
  /\ \/ /\ drain.failed # {} \/ drain.temporary
        /\ DrainFails(drain.failed, drain.temporary)
     \/ /\ drain.failed = {} /\ ~drain.temporary
        /\ drain' = [drain EXCEPT !.at = "listed",
                                  !.empty = \A g \in Groups : outbox[g] = {}]
        /\ UNCHANGED <<scheduler, failureGroups>>
  /\ UNCHANGED <<journal, cloud, job, writer, news, faults>>

(* What the drain lists last may be old when it is answered. *)
Conclude ==
  /\ drain.at = "listed"
  /\ \/ drain.empty /\ Succeeded /\ failureGroups' = {} /\ drain' = NoDrain
     \/ ~drain.empty /\ DrainFails({}, FALSE)
  /\ UNCHANGED <<journal, cloud, job, writer, news, faults>>

Settled ==
  /\ Settle
  /\ UNCHANGED <<journal, cloud, drain, job, failureGroups, writer, news, faults>>

-----------------------------------------------------------------------------
(* The work for one website: turns of entries, each entry step by step. *)

InJob == UNCHANGED <<scheduler, failureGroups, news>>

Failing(g, who, temporary) ==
  /\ job' = [job EXCEPT ![g] = Off]
  /\ drain' = [drain EXCEPT !.failed = @ \cup who, !.temporary = @ \/ temporary]

Acked(j, got, epoch) ==
  [at |-> "ack", left |-> j.left, batch |-> j.batch, known |-> j.known, entry |-> j.entry,
   fresh |-> j.fresh, ack |-> [revision |-> got, epoch |-> epoch]]

FirstOf(S, k) == {n \in S : Cardinality({m \in S : m <= n}) <= k}
LeastOf(a, b) == IF a <= b THEN a ELSE b

Turn(g) ==
  /\ job[g].at = "turn"
  /\ LET left == job[g].left IN
     job' = [job EXCEPT ![g] =
       IF left = 0 \/ outbox[g] = {} THEN Off
       ELSE Job("look", left, FirstOf(outbox[g], LeastOf(Batch, left)), NoBase)]
  /\ UNCHANGED <<journal, cloud, drain, writer, faults>> /\ InJob

(* An entry without a prepared base was never sent.  Then the head of an   *)
(* acknowledgement just before stands in for the answer of the cloud.      *)
Look(g) ==
  /\ job[g].at = "look"
  /\ \E n \in job[g].batch :
       /\ \A m \in job[g].batch : n <= m
       /\ LET fresh == prepared[g][n] = NoBase
              reuse == fresh /\ job[g].known # NoBase /\ job[g].known = head[g]
          IN job' = [job EXCEPT ![g] =
               [at |-> IF reuse THEN "send" ELSE IF fresh THEN "stream" ELSE "receipt",
                left |-> job[g].left, batch |-> job[g].batch, ack |-> NoBase,
                entry |-> n, fresh |-> fresh, known |-> IF reuse THEN head[g] ELSE NoBase]]
  /\ UNCHANGED <<journal, cloud, drain, writer, faults>> /\ InJob

(* A lost acknowledgement is found again, even after a change of owner. *)
Receipt(g) ==
  /\ job[g].at = "receipt"
  /\ LET got == receipts[g][job[g].entry]
         prior == prepared[g][job[g].entry]
     IN \/ /\ got = 0
           /\ job' = [job EXCEPT ![g].at = "stream"]
           /\ UNCHANGED drain
        \/ /\ got # 0
           /\ IF got = prior.revision + 1
                THEN /\ job' = [job EXCEPT ![g] = Acked(@, got, prior.epoch)]
                     /\ UNCHANGED drain
                ELSE Failing(g, {g}, FALSE)
  /\ UNCHANGED <<journal, cloud, writer, faults>> /\ InJob

Stream(g) ==
  /\ job[g].at = "stream"
  /\ \/ /\ revision[g] = head[g].revision
        /\ job' = [job EXCEPT ![g].at = "send"]
        /\ UNCHANGED drain
     \/ /\ revision[g] # head[g].revision
        /\ Failing(g, {g}, FALSE)
  /\ UNCHANGED <<journal, cloud, writer, faults>> /\ InJob

Epoch(g) == IF writer[g] # 0 THEN writer[g] ELSE fence[g]

Refenced(g) ==
  \/ head[g] # NoBase /\ head[g].epoch # Epoch(g)
  \/ /\ prepared[g][job[g].entry] # NoBase
     /\ prepared[g][job[g].entry] # [revision |-> head[g].revision, epoch |-> Epoch(g)]

(* The writer is asked for, the base is made durable, the commit is sent. *)
Send(g) ==
  /\ job[g].at = "send"
  /\ writer' = [writer EXCEPT ![g] = Epoch(g)]
  /\ \/ /\ Refenced(g)
        /\ Failing(g, {g}, FALSE)
        /\ UNCHANGED <<prepared, wire>>
     \/ /\ ~Refenced(g)
        /\ prepared' = [prepared EXCEPT ![g][job[g].entry] =
             [revision |-> head[g].revision, epoch |-> Epoch(g)]]
        /\ wire' = wire \cup {[group |-> g, id |-> job[g].entry,
                               base |-> head[g].revision, epoch |-> Epoch(g)]}
        /\ job' = [job EXCEPT ![g].at = "commit"]
        /\ UNCHANGED drain
  /\ UNCHANGED <<made, outbox, head, receipts, revision, fence, faults>> /\ InJob

(* acknowledge(), in two transactions if the head is in the catalog. *)
MutPublishHead(g) ==
  /\ g \in Directories /\ job[g].at = "ack"
  /\ head' = [head EXCEPT ![g] = job[g].ack]
  /\ prepared' = [prepared EXCEPT ![g][job[g].entry] = NoBase]
  /\ job' = [job EXCEPT ![g].at = "published"]
  /\ UNCHANGED <<made, outbox, cloud, drain, writer, faults>> /\ InJob

PublishHead(g) ==
  /\ g \in Directories /\ job[g].at = "ack"
  /\ head' = [head EXCEPT ![g] = job[g].ack]
  /\ job' = [job EXCEPT ![g].at = "published"]
  /\ UNCHANGED <<made, outbox, prepared, cloud, drain, writer, faults>> /\ InJob

MutAcknowledge(g) ==
  /\ job[g].at = IF g \in Directories THEN "published" ELSE "ack"
  /\ outbox' = [outbox EXCEPT ![g] = @ \ job[g].batch]
  /\ head' = [head EXCEPT ![g] = job[g].ack]
  /\ prepared' = [prepared EXCEPT ![g][job[g].entry] = NoBase]
  /\ job' = [job EXCEPT ![g] = Off]
  /\ UNCHANGED <<made, cloud, drain, writer, faults>> /\ InJob

Acknowledge(g) ==
  /\ job[g].at = IF g \in Directories THEN "published" ELSE "ack"
  /\ outbox' = [outbox EXCEPT ![g] = @ \ {job[g].entry}]
  /\ head' = [head EXCEPT ![g] = job[g].ack]
  /\ prepared' = [prepared EXCEPT ![g][job[g].entry] = NoBase]
  /\ LET rest == job[g].batch \ {job[g].entry} IN
     job' = [job EXCEPT ![g] = Job(IF rest = {} THEN "turn" ELSE "look",
       job[g].left - 1, rest, IF job[g].fresh THEN job[g].ack ELSE NoBase)]
  /\ UNCHANGED <<made, cloud, drain, writer, faults>> /\ InJob

-----------------------------------------------------------------------------
(* The cloud and the network. *)

Waits(r) == job[r.group].at = "commit" /\ job[r.group].entry = r.id

Answer(r, got) ==
  \/ ~Waits(r) /\ UNCHANGED <<job, drain>>
  \/ /\ Waits(r) /\ got = r.base + 1
     /\ job' = [job EXCEPT ![r.group] = Acked(@, got, r.epoch)]
     /\ UNCHANGED drain
  \/ Waits(r) /\ got # r.base + 1 /\ Failing(r.group, {r.group}, FALSE)

Accepts(r) == r.epoch = fence[r.group] /\ r.base = revision[r.group]

Arrive(r) ==
  /\ r \in wire /\ wire' = wire \ {r}
  /\ \/ /\ receipts[r.group][r.id] # 0
        /\ Answer(r, receipts[r.group][r.id])
        /\ UNCHANGED <<receipts, revision>>
     \/ /\ receipts[r.group][r.id] = 0 /\ Accepts(r)
        /\ receipts' = [receipts EXCEPT ![r.group][r.id] = r.base + 1]
        /\ revision' = [revision EXCEPT ![r.group] = r.base + 1]
        /\ Answer(r, r.base + 1)
     \/ /\ receipts[r.group][r.id] = 0 /\ ~Accepts(r)
        /\ Answer(r, 0)
        /\ UNCHANGED <<receipts, revision>>
  /\ UNCHANGED <<journal, fence, writer, faults>> /\ InJob

(* The quota of the profile is used up: a failure of every website. *)
Quota(r) ==
  /\ r \in wire /\ wire' = wire \ {r} /\ receipts[r.group][r.id] = 0
  /\ Fault("quota")
  /\ \/ Waits(r) /\ Failing(r.group, {"*"}, FALSE)
     \/ ~Waits(r) /\ UNCHANGED <<job, drain>>
  /\ UNCHANGED <<journal, receipts, revision, fence, writer>> /\ InJob

Lose(r) ==
  /\ r \in wire /\ wire' = wire \ {r} /\ Fault("lost")
  /\ UNCHANGED <<journal, receipts, revision, fence, writer, job, drain>> /\ InJob

OnWire(g) == \E r \in wire : r.group = g /\ r.id = job[g].entry

(* A request that was lost gets no answer. *)
TimeOut(g) ==
  /\ job[g].at = "commit" /\ ~OnWire(g) /\ Failing(g, {}, TRUE)
  /\ UNCHANGED <<journal, cloud, writer, faults>> /\ InJob

(* The commit of a request that was given up may still arrive. *)
TimeOutEarly(g) ==
  /\ job[g].at = "commit" /\ OnWire(g) /\ Failing(g, {}, TRUE)
  /\ Fault("late")
  /\ UNCHANGED <<journal, cloud, writer>> /\ InJob

Unreachable(g) ==
  /\ job[g].at \in {"look", "receipt", "stream", "send"} /\ Failing(g, {}, TRUE)
  /\ Fault("offline")
  /\ UNCHANGED <<journal, cloud, writer>> /\ InJob

(* Another browser owned the website for a while and may have saved there. *)
Takeover(g) ==
  /\ Fault("takeover")
  /\ fence' = [fence EXCEPT ![g] = @ + 1]
  /\ \E more \in {0, 1} : revision' = [revision EXCEPT ![g] = @ + more]
  /\ UNCHANGED <<scheduler, journal, receipts, wire, drain, job, failureGroups, writer, news>>

(* The cached writer expires, or its ownership was reported lost; it makes *)
(* a difference only after a takeover.                                     *)
WriterLapses(g) ==
  /\ writer[g] \notin {0, fence[g]} /\ writer' = [writer EXCEPT ![g] = 0]
  /\ UNCHANGED <<scheduler, journal, cloud, drain, job, failureGroups, news, faults>>

(* The browser closes at any step; only what is durable survives. *)
Restart ==
  /\ Fault("restart")
  /\ SchedulerRestarts
  /\ drain' = NoDrain /\ job' = [g \in Groups |-> Off]
  /\ failureGroups' = {} /\ writer' = [g \in Groups |-> 0]
  /\ news' = [g \in Groups |-> "none"]
  /\ UNCHANGED <<journal, cloud>>

JobStep(g) ==
  \/ Turn(g) \/ Look(g) \/ Receipt(g) \/ Stream(g) \/ Send(g)
  \/ PublishHead(g) \/ Acknowledge(g)

(* What goes on by itself: the event loop, and a request that arrives, or  *)
(* is lost and times out.                                                  *)
System ==
  \/ Timer \/ BeginDrain \/ EndSites \/ Conclude \/ Settled
  \/ \E g \in Groups : JobStep(g) \/ TimeOut(g)
  \/ \E r \in wire : Arrive(r)

Next ==
  \/ System \/ Probe \/ Flush \/ RetryBackup \/ Restart
  \/ \E g \in Groups : Make(g) \/ Notify(g) \/ TimeOutEarly(g) \/ Unreachable(g)
                         \/ Takeover(g) \/ WriterLapses(g)
  \/ \E r \in wire : Quota(r) \/ Lose(r)

Spec == Init /\ [][Next]_vars

(* The system goes on, in whatever order, and a probe comes with every     *)
(* tick.  Notices, flushes and retries may never come.                     *)
FairSpec == Spec /\ WF_vars(System) /\ WF_vars(Probe)

-----------------------------------------------------------------------------
Saved == [g \in Groups |-> {n \in Ids(g) : receipts[g][n] # 0}]

Journal == INSTANCE ProfileJournal WITH
  Groups <- Groups, made <- made, saved <- Saved, kept <- outbox

(* Whatever is lost, late or restarted between the durable outbox, the     *)
(* commit and its two acknowledgements: the cloud gets every change once,  *)
(* in order, and the outbox forgets only what the cloud has.               *)
ImplementsProfileJournal == Journal!Spec

(* A change the cloud has while the outbox still holds it was prepared on  *)
(* the base it got its revision from: the retry can tell its own receipt   *)
(* from a conflict, whoever owns the website by then.                      *)
LostAnswerExplained == \A g \in Groups : \A n \in outbox[g] :
  receipts[g][n] # 0 =>
    /\ prepared[g][n].epoch # 0
    /\ receipts[g][n] = prepared[g][n].revision + 1

(* After the notice of a website's last change, the scheduler knows of     *)
(* work as long as the outbox has some: a drain that began before the      *)
(* change does not count as its save.                                      *)
NothingStranded == \A g \in Groups :
  news[g] = "told" /\ outbox[g] # {} => dirty

(* Missed notices, restarts, outages and lost answers delay a change, but  *)
(* it is saved and forgotten in the end, unless background work is paused  *)
(* for a website, or for all, that failed for good.                        *)
EveryChangeSaved == \A g \in Groups :
  outbox[g] # {} ~> (outbox[g] = {} \/ paused)
=============================================================================
