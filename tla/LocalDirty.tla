------------------------------ MODULE LocalDirty ------------------------------
(***************************************************************************)
(* runtime/local-dirty-v2.ts: which rows of a website namespace changed    *)
(* since the last backup.  The ledger is written in the native transaction *)
(* of the change itself.  It keeps a marker for each changed key; a change *)
(* that markers cannot describe, or one marker too many, moves the ledger  *)
(* to a new tracking epoch and asks for a baseline instead.                *)
(*                                                                         *)
(* The rows of a database and their ledger share a database.  Deleting it  *)
(* deletes both; the deletion is recorded on the ledger of the profile's   *)
(* catalog (local-idb-catalog.ts), and a database created again has a      *)
(* ledger of a new incarnation.                                            *)
(***************************************************************************)
EXTENDS Naturals, Sequences, FiniteSets

CONSTANTS
  LastKey,       \* keys are 1..LastKey, in key order
  MaxKeys,       \* markers a ledger may hold in one epoch
  Slice,         \* rows a garbage collection visits in one transaction
  Transactions,  \* what a native transaction does: a sequence of operations
  MaxPast,       \* bound on committed transactions
  MaxIncarnation \* bound on databases

Keys == 1..LastKey

(* The operations a native transaction of a website records. *)
Operation ==
  [action : {"upsert", "delete"}, key : Keys] \cup [action : {"schema", "clear"}]

ASSUME LocalDirtyAssumption ==
  /\ LastKey \in Nat \ {0} /\ MaxKeys \in Nat /\ Slice \in Nat \ {0}
  /\ MaxPast \in Nat \ {0} /\ MaxIncarnation \in Nat
  /\ Transactions \subseteq Seq(Operation)

Rows == [Keys -> 0..MaxPast]      \* a value names its transaction; 0 is no row
NoRows == [k \in Keys |-> 0]

VARIABLES
  rows,    \* the website's data
  place,   \* the ledger that speaks for it: its database's, or the catalog's
  ledger,  \* the ledgers
  past     \* every committed state, with the ledger position that names it

site == <<rows, place, ledger, past>>

Current == ledger[place]

-----------------------------------------------------------------------------
NoProgress == [goal |-> <<>>, dirtyAt |-> 0, sizeAt |-> 0, dirtyDone |-> FALSE,
               sizeDone |-> FALSE, rescan |-> FALSE]

(* emptyLocalDirtyControl(): storeEpochs has no entry (0) before a write. *)
Fresh(inc) ==
  [inc |-> inc, generation |-> 0, acknowledged |-> 0, schemaEpoch |-> 1,
   epoch |-> 1, storeEpoch |-> 0, baseline |-> FALSE, deleted |-> FALSE,
   count |-> 0, dirty |-> {}, sizes |-> {}, gc |-> NoProgress]

Or1(n) == IF n = 0 THEN 1 ELSE n

(* baseline() *)
Baselined(l) == [l EXCEPT !.baseline = TRUE, !.epoch = @ + 1, !.count = 0]

(* The body of pump() for an upsert or a delete. *)
Marked(l, k, action) ==
  LET store == Or1(l.storeEpoch)
      sized == [l EXCEPT !.deleted = FALSE, !.storeEpoch = store,
                         !.sizes = IF action = "upsert"
                                   THEN @ \cup {<<store, k>>}
                                   ELSE @ \ {<<store, k>>}]
      old   == {m \in l.dirty : m.epoch = l.epoch /\ m.store = store /\ m.key = k}
      new   == [epoch |-> l.epoch, store |-> store, key |-> k,
                generation |-> l.generation, action |-> action]
      count == IF old = {} THEN l.count + 1 ELSE l.count
  IN  IF count > MaxKeys
      THEN Baselined(sized)
      ELSE [sized EXCEPT !.dirty = (@ \ old) \cup {new}, !.count = count]

(* pump(): one operation of a transaction.  "schema" also stands for the   *)
(* removal of a key range, which is recorded that way.                     *)
Recorded(l, o) ==
  CASE o.action \in {"upsert", "delete"} -> Marked(l, o.key, o.action)
    [] o.action = "schema" -> Baselined([l EXCEPT !.schemaEpoch = @ + 1])
    [] o.action = "clear" ->
         Baselined([l EXCEPT !.storeEpoch = Or1(@) + 1])
    [] o.action = "database-delete" -> Baselined([l EXCEPT !.deleted = TRUE])

(* appendLocalDirty(): one generation for the whole transaction. *)
Appended(l, ops) ==
  LET after[n \in 0..Len(ops)] ==
        IF n = 0 THEN [l EXCEPT !.generation = @ + 1]
        ELSE Recorded(after[n - 1], ops[n])
  IN  after[Len(ops)]

(* The data half of the same transaction. *)
Changed(d, o, value) ==
  CASE o.action = "upsert" -> [d EXCEPT ![o.key] = value]
    [] o.action = "delete" -> [d EXCEPT ![o.key] = 0]
    [] OTHER               -> NoRows

Applied(d, ops, value) ==
  LET after[n \in 0..Len(ops)] ==
        IF n = 0 THEN d ELSE Changed(after[n - 1], ops[n], value)
  IN  after[Len(ops)]

Entry(l, d) == [inc |-> l.inc, generation |-> l.generation, rows |-> d]

(* A native transaction commits data and ledger together. *)
Committed(p, l, d) ==
  /\ Len(past) < MaxPast
  /\ rows' = d
  /\ place' = p
  /\ past' = Append(past, Entry(l, d))

-----------------------------------------------------------------------------
Created(inc) == Appended(Fresh(inc), <<[action |-> "schema"]>>)

SiteInit ==
  /\ rows = NoRows
  /\ place = "database"
  /\ ledger = [database |-> Created(1), catalog |-> Fresh(0)]
  /\ past = <<Entry(Created(1), NoRows)>>

Write(ops) ==
  LET l == Appended(Current, ops)
      d == Applied(rows, ops, Len(past) + 1)
  IN  /\ place = "database"
      /\ Committed("database", l, d)
      /\ ledger' = [ledger EXCEPT !.database = l]

(* deleteProfileDatabase(): the database is gone, then the catalog says so *)
(* on the ledger it keeps; the catalog's own row is held while between.    *)
DeleteDatabase ==
  LET l == Appended(ledger.catalog, <<[action |-> "database-delete"]>>)
  IN  /\ place = "database"
      /\ Committed("catalog", l, NoRows)
      /\ ledger' = [ledger EXCEPT !.catalog = l]

CreateDatabase ==
  LET l == Created(ledger.database.inc + 1)
  IN  /\ place = "catalog"
      /\ ledger.database.inc < MaxIncarnation
      /\ Committed("database", l, NoRows)
      /\ ledger' = [ledger EXCEPT !.database = l]

-----------------------------------------------------------------------------
(* acknowledgeLocalDirty(): up to the cut; a baseline is only served if    *)
(* nothing changed since.                                                  *)
MutAcknowledged(l, cut, epoch) ==
  [l EXCEPT !.acknowledged = l.generation, !.baseline = FALSE]

Acknowledged(l, cut, epoch) ==
  [l EXCEPT !.acknowledged = IF cut > @ THEN cut ELSE @,
            !.baseline = @ /\ ~(l.epoch = epoch /\ cut = l.generation)]

(* collectLocalDirtyGarbage(): one slice.  Marker rows are visited in the  *)
(* order of epoch and key, size rows in that of store epoch and key; the   *)
(* markers take at most half of the slice.  A change of the goal while a   *)
(* pass is under way keeps its cursors and asks for another pass.          *)
Goal(l) == <<l.epoch, l.schemaEpoch, l.acknowledged, l.storeEpoch, l.deleted>>

Position(epoch, k) == epoch * (LastKey + 1) + k
MarkerAt(m) == Position(m.epoch, m.key)
SizeAt(s) == Position(s[1], s[2])

FirstOf(left, n, At(_)) ==
  {x \in left : Cardinality({y \in left : At(y) < At(x)}) < n}
Furthest(seen, from, At(_)) ==
  IF seen = {} THEN from ELSE At(CHOOSE x \in seen : \A y \in seen : At(y) <= At(x))

GarbageMarker(l, m) == m.epoch < l.epoch \/ m.generation <= l.acknowledged
MutGarbageSize(l, s) == l.deleted \/ s[1] <= Or1(l.storeEpoch)

GarbageSize(l, s) == l.deleted \/ s[1] < Or1(l.storeEpoch)

Half == IF Slice = 1 THEN 1 ELSE Slice \div 2

MutRetargeted(l) ==
  IF l.gc.goal = Goal(l) THEN l.gc
  ELSE [l.gc EXCEPT !.goal = Goal(l), !.dirtyDone = FALSE, !.sizeDone = FALSE]

Retargeted(l) ==
  IF l.gc.goal = Goal(l) THEN l.gc
  ELSE [l.gc EXCEPT !.goal = Goal(l), !.rescan = l.gc.goal # <<>>,
                    !.dirtyDone = FALSE, !.sizeDone = FALSE]

(* Of the collected markers, only those of the epoch were counted. *)
Uncounted(l, gone) == Cardinality({m \in gone : m.epoch = l.epoch})

Collected(l) ==
  LET p == Retargeted(l)
      dirtyLeft == IF p.dirtyDone THEN {}
                   ELSE {m \in l.dirty : MarkerAt(m) > p.dirtyAt}
      dirtySeen == FirstOf(dirtyLeft, Half, MarkerAt)
      dirtyEnd  == dirtySeen = dirtyLeft
      sizeLeft  == IF p.sizeDone THEN {}
                   ELSE {s \in l.sizes : SizeAt(s) > p.sizeAt}
      sizeSeen  == FirstOf(sizeLeft, Slice - Cardinality(dirtySeen), SizeAt)
      sizeEnd   == sizeSeen = sizeLeft
      gone      == {m \in dirtySeen : GarbageMarker(l, m)}
      again     == dirtyEnd /\ sizeEnd /\ p.rescan
  IN  [l EXCEPT
         !.dirty = @ \ gone,
         !.sizes = @ \ {s \in sizeSeen : GarbageSize(l, s)},
         !.count = @ - Uncounted(l, gone),
         !.gc = [goal |-> p.goal,
                 dirtyAt |-> IF dirtyEnd THEN 0
                             ELSE Furthest(dirtySeen, p.dirtyAt, MarkerAt),
                 sizeAt |-> IF sizeEnd THEN 0
                            ELSE Furthest(sizeSeen, p.sizeAt, SizeAt),
                 dirtyDone |-> dirtyEnd /\ ~again,
                 sizeDone |-> sizeEnd /\ ~again,
                 rescan |-> p.rescan /\ ~again]]

(* The maintenance timer of a busy ledger and source.maintain(). *)
Collect ==
  /\ ledger' = [ledger EXCEPT ![place] = Collected(@)]
  /\ ledger' # ledger
  /\ UNCHANGED <<rows, place, past>>

SiteNext ==
  \/ \E ops \in Transactions : Write(ops)
  \/ DeleteDatabase
  \/ CreateDatabase
  \/ Collect

=============================================================================
