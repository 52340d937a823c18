---------------------------- MODULE BackupCapture ----------------------------
(***************************************************************************)
(* runtime/backup-v2-resume.ts with runtime/backup-v2-indexeddb-source.ts: *)
(* one namespace is captured while the website keeps writing.  A capture   *)
(* reads rows page by page, each page in a transaction of its own, then    *)
(* reads what changed meanwhile, and is sealed when a last look finds      *)
(* nothing newer.  The job and its records are durable: each slice commits *)
(* both to the spool, and a worker that stops is resumed at its cursor.    *)
(*                                                                         *)
(* A read of the website and the commit of its slice are one step here:    *)
(* website and spool share no state, so the order of what happens between  *)
(* them can be exchanged, and a crash between them leaves no trace.        *)
(* Building parts from the sealed records is one step.                     *)
(***************************************************************************)
EXTENDS LocalDirty

CONSTANTS
  Passes,     \* catch-up passes before a busy capture is given up
  Versions    \* identities for namespace versions, 1..n

ASSUME CaptureAssumption == Passes \in Nat /\ Versions \subseteq Nat \ {0}

None == 0
NoJob == [version |-> None]

VARIABLE job

(* What proof() compares. *)
Proof(l) == <<l.inc, l.schemaEpoch, l.epoch, l.deleted, l.storeEpoch>>
Sealed == job.phase \in {"parts", "done"}

(* A new job; records map a key to its value, 0 for a deletion, and to     *)
(* Unread when the capture has no record of it.                            *)
Unread == MaxPast + 1

MutNeedsBaseline(parent) == parent = None

NeedsBaseline(parent) == parent = None \/ Current.baseline

Started(version, parent) ==
  [version |-> version, parent |-> parent, initial |-> Proof(Current),
   baseline |-> NeedsBaseline(parent),
   kind |-> IF NeedsBaseline(parent) THEN "baseline" ELSE "changes",
   phase |-> "schema", after |-> Current.acknowledged,
   target |-> Current.generation, pass |-> 0, cursor |-> 0,
   records |-> [k \in Keys |-> Unread], invalidated |-> FALSE]

(* The check at the head of resumeBackupNamespace(). *)
Usable(parent) ==
  /\ job # NoJob
  /\ ~job.invalidated
  /\ job.version # parent /\ job.parent = parent
  /\ job.initial[1] = Current.inc
  /\ Sealed \/ job.initial = Proof(Current)

NothingToCapture(parent) ==
  parent # None /\ Current.generation <= Current.acknowledged

(* Resuming keeps a usable job and replaces any other. *)
Resumed(version, parent) ==
  IF Usable(parent)
  THEN job' = job
  ELSE ~NothingToCapture(parent) /\ job' = Started(version, parent)

-----------------------------------------------------------------------------
SchemaSlice ==
  /\ job.phase = "schema"
  /\ job' = [job EXCEPT !.phase = IF job.initial[4] THEN "catchup" ELSE "scan"]

(* One page: rows in key order for a baseline, markers in the order of     *)
(* epoch and generation for changes, from the cursor on.  A budget may end *)
(* the page early, also right after the last row.                          *)
IndexAt(epoch, generation, k) ==
  (epoch * (MaxPast + 1) + generation) * (LastKey + 1) + k
MarkerIndex(m) == IndexAt(m.epoch, m.generation, m.key)

BaselineLeft == {k \in Keys : rows[k] # 0 /\ k > job.cursor}
ChangesLeft ==
  LET from == IF job.cursor = 0
              THEN IndexAt(Current.epoch, job.after, LastKey) ELSE job.cursor
      to   == IndexAt(Current.epoch, job.target, LastKey)
  IN  {m \in Current.dirty : MarkerIndex(m) > from /\ MarkerIndex(m) <= to}

(* Rows whose size is unknown are not read: the namespace is given up. *)
Sized(k, store) == <<store, k>> \in Current.sizes

Key(k) == k

Page(read, left, values, furthest) ==
  /\ \E done \in {read = left, FALSE} :
       /\ left = {} => done
       /\ job' = [job EXCEPT
            !.records = [k \in Keys |->
                           IF k \in DOMAIN values THEN values[k] ELSE @[k]],
            !.cursor = IF done THEN 0 ELSE furthest,
            !.phase = IF done THEN "catchup" ELSE @]

BaselinePage(n) ==
  LET left == BaselineLeft
      read == FirstOf(left, n, Key)
  IN  /\ job.phase = "scan" /\ job.kind = "baseline"
      /\ \A k \in read : Sized(k, Or1(Current.storeEpoch))
      /\ Page(read, left, [k \in read |-> rows[k]],
              Furthest(read, job.cursor, Key))

ChangesPage(n) ==
  LET left == ChangesLeft
      read == FirstOf(left, n, MarkerIndex)
  IN  /\ job.phase = "scan" /\ job.kind = "changes"
      /\ \A m \in read : m.action = "upsert" => Sized(m.key, m.store)
      /\ Page(read, left,
              [k \in {m.key : m \in read} |->
                 IF \E m \in read : m.key = k /\ m.action = "upsert"
                 THEN rows[k] ELSE 0],
              Furthest(read, job.cursor, MarkerIndex))

(* The generation moved on: read what changed, at most Passes times. *)
CatchUp ==
  /\ job.phase = "catchup" /\ job.initial = Proof(Current)
  /\ IF Current.generation = job.target
     THEN job' = [job EXCEPT !.phase = "seal"]
     ELSE /\ job.pass < Passes
          /\ job' = [job EXCEPT !.phase = "scan", !.kind = "changes",
                       !.pass = @ + 1, !.after = job.target,
                       !.target = Current.generation, !.cursor = 0]

(* seal(): the last look, in one transaction. *)
Unchanged ==
  /\ Current.generation = job.target
  /\ Current.schemaEpoch = job.initial[2] /\ Current.epoch = job.initial[3]

Seal ==
  /\ job.phase = "seal"
  /\ \/ Unchanged /\ job' = [job EXCEPT !.phase = "parts"]
     \/ /\ ~Unchanged /\ job.pass < Passes
        /\ job' = [job EXCEPT !.phase = "catchup", !.pass = @ + 1]

BuildParts ==
  /\ job.phase = "parts"
  /\ job' = [job EXCEPT !.phase = "done"]

Slices ==
  \/ SchemaSlice
  \/ \E n \in 1..LastKey : BaselinePage(n) \/ ChangesPage(n)
  \/ CatchUp \/ Seal \/ BuildParts

(* The capture cannot go on: the ledger moved to another epoch, the site   *)
(* stayed busy, or a record is not eligible.  Its records are discarded.   *)
GivenUp ==
  \/ job.phase = "catchup" /\ job.initial # Proof(Current)
  \/ job.phase = "catchup" /\ Current.generation > job.target /\ job.pass >= Passes
  \/ job.phase = "seal" /\ ~Unchanged /\ job.pass >= Passes
  \/ job.phase = "scan" /\ job.kind = "baseline"
     /\ \E k \in BaselineLeft : ~Sized(k, Or1(Current.storeEpoch))
  \/ job.phase = "scan" /\ job.kind = "changes"
     /\ \E m \in ChangesLeft : m.action = "upsert" /\ ~Sized(m.key, m.store)

=============================================================================
