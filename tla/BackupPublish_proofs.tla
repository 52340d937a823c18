------------------------ MODULE BackupPublish_proofs ------------------------
(***************************************************************************)
(* The safety of backups, for every number of keys, every bound on markers *)
(* and slices, every set of transactions, and any number of stops, lost    *)
(* replies and late requests.                                              *)
(*                                                                         *)
(* The invariant has four parts.  SiteInv: each ledger describes its rows, *)
(* and no collection has left garbage behind its cursors.  SpoolInv: what  *)
(* the actor may find in the spool and at the server at each of its steps. *)
(* JobInv: for every key, the capture has the row the website has, or the  *)
(* ledger still marks the key for a later pass; therefore a sealed capture *)
(* is the website at one moment, newer than the cloud's.  CloudInv: for    *)
(* every key, the cloud has the row the website has, or the ledger marks   *)
(* the key, or a baseline is due.                                          *)
(*                                                                         *)
(* What a transaction does to ledger and rows is a recursive function over *)
(* its operations; induction over them goes by the least counterexample.   *)
(***************************************************************************)
EXTENDS BackupPublish, Integers, FiniteSetTheorems, TLAPS

-----------------------------------------------------------------------------
(* One ledger.                                                             *)
Marker ==
  [epoch : Nat, store : Nat, key : Keys, generation : Nat,
   action : {"upsert", "delete"}]

Goals == Nat \X Nat \X Nat \X Nat \X BOOLEAN

Progress ==
  [goal : {<<>>} \cup Goals, dirtyAt : Nat, sizeAt : Nat,
   dirtyDone : BOOLEAN, sizeDone : BOOLEAN, rescan : BOOLEAN]

Ledgers ==
  [inc : Nat, generation : Nat, acknowledged : Nat, schemaEpoch : Nat,
   epoch : Nat, storeEpoch : Nat, baseline : BOOLEAN, deleted : BOOLEAN,
   count : Int, dirty : SUBSET Marker, sizes : SUBSET (Nat \X Keys),
   gc : Progress]

(* A collection under way has left behind its cursors no garbage of the    *)
(* goal it started with, unless it is going to start again.                *)
Swept(p, dirty, sizes) ==
  /\ \A m \in dirty :
       m.epoch < p.goal[1] \/ m.generation <= p.goal[3]
         => ~p.dirtyDone /\ MarkerAt(m) > p.dirtyAt
  /\ \A s \in sizes :
       s[1] < Or1(p.goal[4]) => ~p.sizeDone /\ SizeAt(s) > p.sizeAt

SweepInv(l) ==
  /\ l.gc.goal = <<>> => l.gc = NoProgress
  /\ l.gc.rescan => ~(l.gc.dirtyDone /\ l.gc.sizeDone)
  /\ l.gc.goal # <<>> =>
       /\ l.gc.goal[1] <= l.epoch /\ l.gc.goal[3] <= l.acknowledged
       /\ l.gc.goal[4] <= l.storeEpoch
       /\ ~l.gc.rescan => Swept(l.gc, l.dirty, l.sizes)

(* In the current epoch a key has at most one marker.                      *)
MarkersInv(l) ==
  /\ \A m \in l.dirty :
       /\ m.epoch <= l.epoch /\ m.generation <= l.generation
       /\ m.epoch = l.epoch => m.store = Or1(l.storeEpoch)
  /\ \A m, n \in l.dirty :
       m.epoch = l.epoch /\ n.epoch = l.epoch /\ m.key = n.key => m = n

LedgerInv(l) ==
  /\ l \in Ledgers
  /\ IsFiniteSet(l.dirty) /\ IsFiniteSet(l.sizes)
  /\ l.acknowledged <= l.generation
  /\ MarkersInv(l) /\ SweepInv(l)
  /\ l.deleted => l.sizes = {}

(* What the ledger of a database says of its rows.                         *)
Describes(l, d) ==
  /\ \A m \in l.dirty :
       m.epoch = l.epoch => (m.action = "upsert" <=> d[m.key] # 0)
  /\ \A k \in Keys : d[k] # 0 => <<Or1(l.storeEpoch), k>> \in l.sizes

(* The website and its two ledgers.                                        *)
Entries == [inc : Nat, generation : Nat, rows : Rows]

PastInv ==
  /\ past \in Seq(Entries)
  /\ Len(past) \in 1..MaxPast
  /\ past[Len(past)] = Entry(Current, rows)
  /\ \A i, j \in 1..Len(past) :
       i < j /\ past[i].inc = past[j].inc => past[i].generation < past[j].generation
  /\ \A i \in 1..Len(past) :
       /\ past[i].inc <= ledger.database.inc
       /\ \A p \in {"database", "catalog"} :
            past[i].inc = ledger[p].inc => past[i].generation <= ledger[p].generation

SiteInv ==
  /\ place \in {"database", "catalog"}
  /\ ledger \in [database : Ledgers, catalog : Ledgers]
  /\ LedgerInv(ledger.database) /\ LedgerInv(ledger.catalog)
  /\ ledger.database.inc > 0 /\ ~ledger.database.deleted
  /\ ledger.database.generation <= Len(past)
  /\ ledger.catalog.inc = 0 /\ ledger.catalog.generation <= Len(past)
  /\ ledger.catalog.dirty = {} /\ ledger.catalog.sizes = {}
  /\ ledger.catalog.baseline \/ ledger.catalog.generation = ledger.catalog.acknowledged
  /\ rows \in Rows
  /\ place = "catalog" => rows = NoRows
  /\ place = "database" => Describes(ledger.database, rows)
  /\ PastInv

-----------------------------------------------------------------------------
(* The actor, the spool and the server.                                    *)
Names == Versions \cup {None}
Phases == {"schema", "scan", "catchup", "seal", "parts", "done"}

Jobs ==
  [version : Versions, parent : Names,
   initial : Nat \X Nat \X Nat \X BOOLEAN \X Nat, baseline : BOOLEAN,
   kind : {"baseline", "changes"}, phase : Phases, after : Nat, target : Nat,
   pass : Nat, cursor : Nat, records : [Keys -> 0..Unread], invalidated : BOOLEAN]

Cancelled == [version : Versions, sequence : Nat, parent : Names]
Heads ==
  [sequence : Nat, checkpoint : Names, inc : Nat, cancelled : {Nothing} \cup Cancelled]
Prepared ==
  [version : Versions, sequence : Nat, parent : Names, base : Names, cut : Nat,
   epoch : Nat, inc : Nat, cancelled : BOOLEAN]
Staged ==
  [version : Versions, sequence : Nat, parent : Names, base : Names, cut : Nat,
   inc : Nat, records : [Keys -> 0..Unread]]
Clouds == [sequence : Nat, checkpoint : Names, rows : Rows, moment : Nat]

Resolved == {"prepare", "turn", "visit", "adopt", "adopted", "discard"}
Pending == {"post", "upload", "wait", "cancel", "delete", "abandon",
            "acknowledge", "sweep", "finish"}
Steps == {"off"} \cup Resolved \cup Pending

SpoolTypeOK ==
  /\ actor \in [step : Steps, inc : Nat]
  /\ job \in Jobs \cup {NoJob}
  /\ head \in Heads
  /\ prepared \in Prepared \cup {Nothing}
  /\ invalid \subseteq Versions
  /\ cloud \in Clouds
  /\ staged \in Staged \cup {Nothing}
  /\ wire \in Names

(* What the actor knows at each of its steps.                              *)
ActorInv ==
  /\ actor.step \in Resolved => prepared = Nothing
  /\ actor.step \in Pending => prepared # Nothing
  /\ actor.step \in {"acknowledge", "sweep", "finish"} => Published
  /\ actor.step \in {"upload", "abandon"} => staged = Nothing /\ ~Published
  /\ actor.step \in {"prepare", "turn", "visit"} => head.cancelled = Nothing
  /\ actor.step \in {"adopt", "adopted"} => head.cancelled # Nothing
  /\ actor.step = "adopted" => cloud.sequence = head.cancelled.sequence
  /\ actor.step = "visit" =>
       job # NoJob /\ job.version # cloud.checkpoint /\ job.initial[1] = actor.inc

(* A prepared checkpoint is the job in the spool, and it follows the head. *)
PreparedInv ==
  prepared # Nothing =>
    /\ head.cancelled = Nothing
    /\ job # NoJob /\ job.phase = "done" /\ job.version = prepared.version
    /\ prepared.sequence = head.sequence + 1
    /\ prepared.parent = head.checkpoint /\ prepared.version # head.checkpoint
    /\ prepared.base = IF job.baseline THEN None ELSE job.parent
    /\ prepared.cut = job.target /\ prepared.epoch = job.initial[3]
    /\ prepared.inc = job.initial[1]
    /\ IF Published
       THEN cloud.sequence = prepared.sequence
       ELSE cloud.sequence = head.sequence /\ cloud.checkpoint = head.checkpoint

ResolvedInv ==
  prepared = Nothing =>
    /\ staged = Nothing /\ cloud.checkpoint = head.checkpoint
    /\ head.cancelled = Nothing => cloud.sequence = head.sequence

CancelledInv ==
  head.cancelled # Nothing =>
    /\ head.cancelled.sequence = head.sequence + 1
    /\ head.cancelled.parent = head.checkpoint
    /\ cloud.sequence \in {head.sequence, head.sequence + 1}

StagedInv ==
  staged # Nothing =>
    /\ prepared # Nothing /\ ~Published
    /\ staged = [version |-> prepared.version, sequence |-> prepared.sequence,
                 parent |-> prepared.parent, base |-> prepared.base,
                 cut |-> prepared.cut, inc |-> prepared.inc,
                 records |-> job.records]

SpoolInv ==
  /\ SpoolTypeOK /\ ActorInv /\ PreparedInv /\ ResolvedInv /\ CancelledInv /\ StagedInv

-----------------------------------------------------------------------------
(* The capture.                                                            *)
Marks(l, k, g) ==
  \E m \in l.dirty : m.epoch = l.epoch /\ m.key = k /\ m.generation > g

JobPublished == job.version = cloud.checkpoint

(* What a restore of the capture would give for a key.                     *)
Captured(k) ==
  IF JobPublished THEN cloud.rows[k]
  ELSE IF job.records[k] # Unread THEN job.records[k]
  ELSE IF job.baseline THEN 0 ELSE cloud.rows[k]

(* The rest of the changes of this pass.                                   *)
LeftFor(k) ==
  \E m \in Current.dirty :
    /\ m.epoch = Current.epoch /\ m.key = k
    /\ m.generation > job.after /\ MarkerIndex(m) > job.cursor

InStep == Current.inc = job.initial[1] /\ Current.epoch = job.initial[3]
Reading == job.phase \in {"schema", "scan"}

CaptureInv ==
  InStep =>
    /\ Reading /\ job.kind = "baseline" =>
         \A k \in Keys :
           IF k > job.cursor THEN job.records[k] = Unread
           ELSE Captured(k) = rows[k] \/ Marks(Current, k, job.target)
    /\ Reading /\ job.kind = "changes" =>
         \A k \in Keys : Captured(k) = rows[k] \/ LeftFor(k)
    /\ ~Reading =>
         \A k \in Keys : Captured(k) = rows[k] \/ Marks(Current, k, job.target)

CursorInv ==
  /\ Reading /\ job.kind = "baseline" => job.baseline
  /\ ~Reading \/ job.phase = "schema" => job.cursor = 0
  /\ job.phase = "schema" => \A k \in Keys : job.records[k] = Unread
  /\ InStep /\ Reading /\ job.kind = "changes" /\ job.cursor # 0 =>
       /\ job.cursor >= IndexAt(job.initial[3], job.after, LastKey)
       /\ job.cursor <= IndexAt(job.initial[3], job.target, LastKey)

(* The ledger of the capture's database moved on or asks for a baseline.   *)
OwnLedger ==
  \A p \in {"database", "catalog"} :
    ledger[p].inc = job.initial[1] =>
      /\ ledger[p].generation >= job.target /\ ledger[p].acknowledged <= job.target
      /\ ledger[p].epoch >= job.initial[3]
      /\ ledger[p].epoch > job.initial[3] => ledger[p].baseline
      /\ ~JobPublished => ledger[p].acknowledged <= job.after

(* A sealed capture is the website at one moment, newer than the cloud.    *)
SealedInv ==
  Sealed =>
    \E i \in 1..Len(past) :
      /\ past[i].inc = job.initial[1] /\ past[i].generation = job.target
      /\ \A k \in Keys : Captured(k) = past[i].rows[k]
      /\ JobPublished => i = cloud.moment
      /\ ~JobPublished => i > cloud.moment

JobBounds ==
  /\ job.initial[1] <= ledger.database.inc
  /\ job.initial[4] => job.initial[1] = 0 /\ job.baseline
  /\ job.after <= job.target
  /\ JobPublished => job.phase = "done"
  /\ ~JobPublished =>
       /\ cloud.moment < Len(past)
       /\ job.parent \in {None, cloud.checkpoint}
       /\ ~job.baseline => job.parent # None

(* A checkpoint of another database than the head's replaces a database,   *)
(* and the one that came after it asks for a baseline.                     *)
Replacing ==
  /\ job.version # head.checkpoint /\ head.checkpoint # None
  /\ Current.inc = head.inc /\ head.inc # job.initial[1]
  => Current.baseline

JobInv ==
  job # NoJob =>
    JobBounds /\ Replacing /\ OwnLedger /\ CursorInv /\ CaptureInv /\ SealedInv

(* The cloud.                                                              *)
CloudShape ==
  /\ cloud.moment <= Len(past)
  /\ cloud.checkpoint = None <=> cloud.moment = 0
  /\ cloud.moment = 0 => cloud.rows = NoRows
  /\ cloud.moment > 0 =>
       /\ cloud.rows = past[cloud.moment].rows
       /\ head.checkpoint = cloud.checkpoint => head.inc = past[cloud.moment].inc

CloudMarked ==
  cloud.moment > 0 /\ Current.inc = past[cloud.moment].inc =>
    \/ Current.baseline
    \/ \A k \in Keys : rows[k] # cloud.rows[k] => Marks(Current, k, Current.acknowledged)

CloudNewest ==
  (prepared = Nothing \/ actor.step \in {"sweep", "finish"}) /\ cloud.moment = Len(past)
    => Current.generation <= Current.acknowledged

CloudInv == CloudShape /\ CloudMarked /\ CloudNewest

BInv == SiteInv /\ SpoolInv /\ JobInv /\ CloudInv

-----------------------------------------------------------------------------
(* Induction, and the order of the positions a cursor takes. *)

(* Induction without an operator parameter: a set of naturals that is not  *)
(* empty has a least element.                                              *)
Below == {p \in Nat \X Nat : p[1] < p[2]}

(* The order of the naturals is well founded. *)
LEMMA BelowIsWellFounded == IsWellFoundedOn(Below, Nat)
  BY NatLessThanWellFounded, Zenon DEF OpToRel, Below

(* A set of naturals has a least element. *)
LEMMA Least ==
  ASSUME NEW T \in SUBSET Nat, T # {}
  PROVE  \E x \in T : \A y \in T : x <= y
<1>1. PICK x \in T : \A y \in T : ~(<<y, x>> \in Below)
  BY WFMin, BelowIsWellFounded
<1>2. ASSUME NEW y \in T PROVE x <= y
  <2>1. x \in Nat /\ y \in Nat
    OBVIOUS
  <2>2. y < x => <<y, x>> \in Below
    BY <2>1 DEF Below
  <2> QED BY <1>1, <2>1, <2>2
<1> QED BY <1>2

(* What holds of 0 and is kept by adding one holds of every natural. *)
LEMMA Induction ==
  ASSUME NEW T, 0 \in T, \A n \in Nat : n \in T => n + 1 \in T
  PROVE  \A n \in Nat : n \in T
<1> DEFINE Rest == Nat \ T
<1>1. SUFFICES ASSUME Rest # {} PROVE FALSE
  OBVIOUS
<1>2. PICK x \in Rest : \A y \in Rest : x <= y
  <2>1. Rest \in SUBSET Nat
    OBVIOUS
  <2> QED BY <1>1, <2>1, Least
<1>3. x - 1 \in Nat /\ x - 1 \notin Rest
  BY <1>2
<1> QED BY <1>2, <1>3

(* The same up to a bound. *)
LEMMA BoundedInduction ==
  ASSUME NEW N \in Nat, NEW T, 0 \in T, \A n \in 1..N : n - 1 \in T => n \in T
  PROVE  N \in T
<1> DEFINE U == {n \in Nat : n <= N => n \in T}
<1>1. 0 \in U
  OBVIOUS
<1>2. ASSUME NEW n \in Nat, n \in U PROVE n + 1 \in U
  <2>1. CASE n + 1 <= N
    <3>1. n + 1 \in 1..N /\ n \in T /\ (n + 1) - 1 = n
      BY <1>2, <2>1
    <3> QED BY <3>1
  <2>2. CASE ~(n + 1 <= N)
    BY <2>2
  <2> QED BY <2>1, <2>2
<1>3. \A n \in Nat : n \in U
  <2> HIDE DEF U
  <2> QED BY <1>1, <1>2, Induction
<1> QED BY <1>3

-----------------------------------------------------------------------------
(* The two folds over the operations of a transaction.                     *)
Begun(l) == [l EXCEPT !.generation = @ + 1]

(* The ledger after a transaction is the last of a sequence of ledgers,    *)
(* one for each operation.                                                 *)
LEMMA AppendedRun ==
  ASSUME NEW l, NEW ops, Len(ops) \in Nat
  PROVE  \E f : /\ f[0] = Begun(l)
                /\ \A n \in 1..Len(ops) : f[n] = Recorded(f[n - 1], ops[n])
                /\ Appended(l, ops) = f[Len(ops)]
<1> DEFINE b == Begun(l)
           Run(N, f) == f = [n \in 0..N |-> IF n = 0 THEN b ELSE Recorded(f[n - 1], ops[n])]
           T == {N \in Nat : \E f : Run(N, f)}
<1>1. 0 \in T
  <2> DEFINE f == [n \in 0..0 |-> b]
  <2>1. f = [n \in 0..0 |-> IF n = 0 THEN b ELSE Recorded(f[n - 1], ops[n])]
    OBVIOUS
  <2> QED BY <2>1
<1>2. ASSUME NEW N \in Nat, N \in T PROVE N + 1 \in T
  <2> HIDE DEF b
  <2>1. PICK g : g = [n \in 0..N |-> IF n = 0 THEN b ELSE Recorded(g[n - 1], ops[n])]
    BY <1>2
  <2> DEFINE f == [n \in 0..(N + 1) |->
                     IF n = N + 1 THEN Recorded(g[N], ops[N + 1]) ELSE g[n]]
  <2>2. \A n \in 0..N : g[n] = IF n = 0 THEN b ELSE Recorded(g[n - 1], ops[n])
    BY <2>1
  <2>3. ASSUME NEW n \in 0..(N + 1)
        PROVE  f[n] = IF n = 0 THEN b ELSE Recorded(f[n - 1], ops[n])
    <3>1. CASE n = N + 1
      <4>1. n # 0 /\ n - 1 \in 0..(N + 1) /\ n - 1 = N /\ N # N + 1
        BY <3>1
      <4>2. f[n] = Recorded(g[N], ops[N + 1]) /\ f[n - 1] = g[N]
        BY <3>1, <4>1
      <4> QED BY <3>1, <4>1, <4>2, Zenon
    <3>2. CASE n = 0
      BY <2>2, <3>2
    <3>3. CASE n # 0 /\ n # N + 1
      <4>1. n \in 0..N /\ n - 1 \in 0..(N + 1) /\ n - 1 # N + 1
        BY <3>3
      <4>2. f[n] = g[n] /\ f[n - 1] = g[n - 1]
        BY <3>3, <4>1
      <4> QED BY <2>2, <3>3, <4>1, <4>2, Zenon
    <3> QED BY <3>1, <3>2, <3>3
  <2> HIDE DEF f
  <2>4. f = [n \in 0..(N + 1) |-> f[n]]
    BY DEF f
  <2>5. f = [n \in 0..(N + 1) |-> IF n = 0 THEN b ELSE Recorded(f[n - 1], ops[n])]
    BY <2>3, <2>4, Zenon
  <2> QED BY <2>5
<1>3. \A N \in Nat : N \in T
  <2> HIDE DEF T
  <2> QED BY <1>1, <1>2, Induction
<1>4. PICK h : Run(Len(ops), h)
  BY <1>3
<1> DEFINE f == CHOOSE g : Run(Len(ops), g)
<1>5. Run(Len(ops), f)
  BY <1>4, Zenon
<1>6. Appended(l, ops) = f[Len(ops)]
  BY Zenon DEF Appended, Begun
<1> HIDE DEF f
<1>7. /\ f[0] = b
      /\ \A n \in 1..Len(ops) : f[n] = Recorded(f[n - 1], ops[n])
  <2> HIDE DEF b
  <2>1. \A n \in 0..Len(ops) : f[n] = IF n = 0 THEN b ELSE Recorded(f[n - 1], ops[n])
    BY <1>5
  <2>2. 0 \in 0..Len(ops) /\ \A n \in 1..Len(ops) : n \in 0..Len(ops) /\ n # 0
    OBVIOUS
  <2> QED BY <2>1, <2>2, Zenon
<1> QED BY <1>6, <1>7, Zenon

(* So are the rows. *)
LEMMA AppliedRun ==
  ASSUME NEW d, NEW ops, NEW value, Len(ops) \in Nat
  PROVE  \E f : /\ f[0] = d
                /\ \A n \in 1..Len(ops) : f[n] = Changed(f[n - 1], ops[n], value)
                /\ Applied(d, ops, value) = f[Len(ops)]
<1> DEFINE Run(N, f) == f = [n \in 0..N |-> IF n = 0 THEN d ELSE Changed(f[n - 1], ops[n], value)]
           T == {N \in Nat : \E f : Run(N, f)}
<1>1. 0 \in T
  <2> DEFINE f == [n \in 0..0 |-> d]
  <2>1. f = [n \in 0..0 |-> IF n = 0 THEN d ELSE Changed(f[n - 1], ops[n], value)]
    OBVIOUS
  <2> QED BY <2>1
<1>2. ASSUME NEW N \in Nat, N \in T PROVE N + 1 \in T
  <2>1. PICK g : g = [n \in 0..N |-> IF n = 0 THEN d ELSE Changed(g[n - 1], ops[n], value)]
    BY <1>2
  <2> DEFINE f == [n \in 0..(N + 1) |->
                     IF n = N + 1 THEN Changed(g[N], ops[N + 1], value) ELSE g[n]]
  <2>2. \A n \in 0..N : g[n] = IF n = 0 THEN d ELSE Changed(g[n - 1], ops[n], value)
    BY <2>1
  <2>3. ASSUME NEW n \in 0..(N + 1)
        PROVE  f[n] = IF n = 0 THEN d ELSE Changed(f[n - 1], ops[n], value)
    <3>1. CASE n = N + 1
      <4>1. n # 0 /\ n - 1 \in 0..(N + 1) /\ n - 1 = N /\ N # N + 1
        BY <3>1
      <4>2. f[n] = Changed(g[N], ops[N + 1], value) /\ f[n - 1] = g[N]
        BY <3>1, <4>1
      <4> QED BY <3>1, <4>1, <4>2, Zenon
    <3>2. CASE n = 0
      BY <2>2, <3>2
    <3>3. CASE n # 0 /\ n # N + 1
      <4>1. n \in 0..N /\ n - 1 \in 0..(N + 1) /\ n - 1 # N + 1
        BY <3>3
      <4>2. f[n] = g[n] /\ f[n - 1] = g[n - 1]
        BY <3>3, <4>1
      <4> QED BY <2>2, <3>3, <4>1, <4>2, Zenon
    <3> QED BY <3>1, <3>2, <3>3
  <2> HIDE DEF f
  <2>4. f = [n \in 0..(N + 1) |-> f[n]]
    BY DEF f
  <2>5. f = [n \in 0..(N + 1) |-> IF n = 0 THEN d ELSE Changed(f[n - 1], ops[n], value)]
    BY <2>3, <2>4, Zenon
  <2> QED BY <2>5
<1>3. \A N \in Nat : N \in T
  <2> HIDE DEF T
  <2> QED BY <1>1, <1>2, Induction
<1>4. PICK h : Run(Len(ops), h)
  BY <1>3
<1> DEFINE f == CHOOSE g : Run(Len(ops), g)
<1>5. Run(Len(ops), f)
  BY <1>4, Zenon
<1>6. Applied(d, ops, value) = f[Len(ops)]
  BY Zenon DEF Applied
<1> HIDE DEF f
<1>7. /\ f[0] = d
      /\ \A n \in 1..Len(ops) : f[n] = Changed(f[n - 1], ops[n], value)
  <2>1. \A n \in 0..Len(ops) : f[n] = IF n = 0 THEN d ELSE Changed(f[n - 1], ops[n], value)
    BY <1>5
  <2>2. 0 \in 0..Len(ops) /\ \A n \in 1..Len(ops) : n \in 0..Len(ops) /\ n # 0
    OBVIOUS
  <2> QED BY <2>1, <2>2, Zenon
<1> QED BY <1>6, <1>7, Zenon

-----------------------------------------------------------------------------
(* Positions are ordered like what they are made of.                       *)
LEMMA Lexical ==
  ASSUME NEW N \in Nat \ {0}, NEW a \in Nat, NEW b \in Nat,
         NEW i \in 0..(N - 1), NEW j \in 0..(N - 1)
  PROVE  a * N + i > b * N + j <=> a > b \/ (a = b /\ i > j)
<1>1. ASSUME NEW x \in Nat, NEW y \in Nat, NEW u \in 0..(N - 1), NEW v \in 0..(N - 1), x > y
      PROVE  x * N + u > y * N + v
  <2>1. x - y - 1 \in Nat /\ x = y + 1 + (x - y - 1)
    BY <1>1
  <2>2. ASSUME NEW z \in Nat PROVE (y + 1 + z) * N = y * N + N + z * N /\ z * N >= 0
    OBVIOUS
  <2>3. x * N >= y * N + N
    BY <2>1, <2>2
  <2> QED BY <2>3
<1>2. CASE a = b
  BY <1>2
<1>3. CASE a > b
  BY <1>1, <1>3
<1>4. CASE b > a
  BY <1>1, <1>4
<1> QED BY <1>2, <1>3, <1>4

-----------------------------------------------------------------------------
(* One ledger: what a transaction, an acknowledgement and a collection     *)
(* make of it.                                                             *)

(* One operation after the other, from the ledger l0 and the rows d0.      *)
Along(l0, d0, l, d) ==
  /\ LedgerInv(l) /\ Describes(l, d) /\ d \in Rows
  /\ l.inc = l0.inc /\ l.generation = l0.generation
  /\ l.acknowledged = l0.acknowledged /\ l.acknowledged < l.generation
  /\ l.deleted => l0.deleted
  /\ l.epoch >= l0.epoch
  /\ l.epoch > l0.epoch => l.baseline
  /\ l.epoch = l0.epoch =>
       /\ l.baseline = l0.baseline
       /\ \A k \in Keys : d[k] # d0[k] =>
            \E n \in l.dirty : n.epoch = l.epoch /\ n.key = k /\ n.generation = l.generation
       /\ \A m \in l0.dirty : m.epoch = l0.epoch =>
            \/ m \in l.dirty
            \/ \E n \in l.dirty :
                 n.epoch = l.epoch /\ n.key = m.key /\ n.generation = l.generation

(* The types of the fields of a ledger. *)
LEMMA LedgerFields ==
  ASSUME NEW l \in Ledgers
  PROVE  /\ l.inc \in Nat /\ l.generation \in Nat /\ l.acknowledged \in Nat
         /\ l.schemaEpoch \in Nat /\ l.epoch \in Nat /\ l.storeEpoch \in Nat
         /\ l.baseline \in BOOLEAN /\ l.deleted \in BOOLEAN /\ l.count \in Int
         /\ l.dirty \subseteq Marker /\ l.sizes \subseteq Nat \X Keys
         /\ l.gc \in Progress /\ Or1(l.storeEpoch) \in Nat
  BY DEF Ledgers, Or1

(* The types of the parts of a goal. *)
LEMMA GoalFields ==
  ASSUME NEW p \in Progress, p.goal # <<>>
  PROVE  p.goal[1] \in Nat /\ p.goal[3] \in Nat /\ p.goal[4] \in Nat
  BY DEF Progress, Goals

(* A transaction takes the next generation. *)
LEMMA Bumped ==
  ASSUME NEW l, LedgerInv(l)
  PROVE  LET b == Begun(l)
         IN  /\ LedgerInv(b) /\ b \in Ledgers
             /\ b.acknowledged < b.generation /\ b.generation = l.generation + 1
             /\ b.dirty = l.dirty /\ b.sizes = l.sizes /\ b.gc = l.gc
             /\ b.deleted = l.deleted /\ b.epoch = l.epoch /\ b.inc = l.inc
             /\ b.baseline = l.baseline
             /\ b.acknowledged = l.acknowledged /\ b.storeEpoch = l.storeEpoch
<1> DEFINE b == Begun(l)
<1>1. l \in Ledgers
  BY DEF LedgerInv
<1>2. /\ b \in Ledgers /\ b.generation = l.generation + 1
      /\ b.dirty = l.dirty /\ b.sizes = l.sizes /\ b.gc = l.gc /\ b.deleted = l.deleted
      /\ b.epoch = l.epoch /\ b.acknowledged = l.acknowledged /\ b.storeEpoch = l.storeEpoch
      /\ b.inc = l.inc /\ b.baseline = l.baseline
  BY <1>1 DEF Ledgers, Begun
<1> HIDE DEF b
<1>3. l.generation \in Nat /\ l.acknowledged <= l.generation /\ l.acknowledged \in Nat
      /\ \A m \in l.dirty : m.generation \in Nat
  BY <1>1, LedgerFields DEF LedgerInv, Marker
<1>4. MarkersInv(b)
  BY <1>2, <1>3 DEF LedgerInv, MarkersInv
<1>5. SweepInv(b)
  BY <1>2 DEF LedgerInv, SweepInv
<1> QED BY <1>2, <1>3, <1>4, <1>5 DEF LedgerInv, b

(* A ledger that asks for a baseline moves to the next epoch. *)
LEMMA BaselinedType ==
  ASSUME NEW l \in Ledgers
  PROVE  /\ Baselined(l) \in Ledgers
         /\ Baselined(l).epoch = l.epoch + 1 /\ Baselined(l).baseline = TRUE
         /\ Baselined(l).inc = l.inc /\ Baselined(l).generation = l.generation
         /\ Baselined(l).acknowledged = l.acknowledged /\ Baselined(l).gc = l.gc
         /\ Baselined(l).deleted = l.deleted /\ Baselined(l).dirty = l.dirty
         /\ Baselined(l).sizes = l.sizes /\ Baselined(l).storeEpoch = l.storeEpoch
<1>1. l.epoch + 1 \in Nat
  BY LedgerFields
<1>2. ASSUME NEW c \in Ledgers PROVE [c EXCEPT !.count = 0] \in Ledgers
  BY DEF Ledgers
<1>3. ASSUME NEW c \in Ledgers, NEW e \in Nat PROVE [c EXCEPT !.epoch = e] \in Ledgers
  BY DEF Ledgers
<1>4. [l EXCEPT !.baseline = TRUE] \in Ledgers
  BY DEF Ledgers
<1>5. Baselined(l) =
        [[[l EXCEPT !.baseline = TRUE] EXCEPT !.epoch = l.epoch + 1] EXCEPT !.count = 0]
  BY DEF Ledgers, Baselined
<1>6. [[l EXCEPT !.baseline = TRUE] EXCEPT !.epoch = l.epoch + 1] \in Ledgers
  BY <1>1, <1>3, <1>4
<1>7. Baselined(l) \in Ledgers
  BY <1>2, <1>5, <1>6
<1> QED BY <1>7 DEF Ledgers, Baselined

(* It stays a ledger: a collection under way has not left anything behind. *)
LEMMA BaselinedLedger ==
  ASSUME NEW l, LedgerInv(l)
  PROVE  /\ LedgerInv(Baselined(l))
         /\ Baselined(l).epoch = l.epoch + 1 /\ Baselined(l).baseline
         /\ Baselined(l).inc = l.inc /\ Baselined(l).generation = l.generation
         /\ Baselined(l).acknowledged = l.acknowledged
         /\ Baselined(l).deleted = l.deleted /\ Baselined(l).dirty = l.dirty
         /\ Baselined(l).sizes = l.sizes /\ Baselined(l).storeEpoch = l.storeEpoch
<1> DEFINE b == Baselined(l)
<1>1. l \in Ledgers /\ l.epoch + 1 \in Nat
  BY LedgerFields DEF LedgerInv
<1>2. /\ b \in Ledgers /\ b.generation = l.generation /\ b.inc = l.inc
      /\ b.dirty = l.dirty /\ b.sizes = l.sizes /\ b.gc = l.gc /\ b.deleted = l.deleted
      /\ b.epoch = l.epoch + 1 /\ b.acknowledged = l.acknowledged
      /\ b.storeEpoch = l.storeEpoch /\ b.baseline
  BY <1>1, BaselinedType
<1> HIDE DEF b
<1>3. l.epoch \in Nat /\ \A m \in l.dirty : m.epoch \in Nat
  BY <1>1, LedgerFields DEF Marker
<1>4. MarkersInv(b)
  BY <1>2, <1>3 DEF LedgerInv, MarkersInv
<1>5. SweepInv(b)
  <2>1. l.gc.goal # <<>> => l.gc.goal[1] \in Nat
    BY <1>1, LedgerFields, GoalFields
  <2> QED BY <1>2, <1>3, <2>1 DEF LedgerInv, SweepInv
<1> QED BY <1>2, <1>4, <1>5 DEF LedgerInv, b

(* The first half of Marked(): the size record of the key. *)
SizedBy(l, k, action) ==
  [l EXCEPT !.deleted = FALSE, !.storeEpoch = Or1(l.storeEpoch),
            !.sizes = IF action = "upsert"
                      THEN @ \cup {<<Or1(l.storeEpoch), k>>}
                      ELSE @ \ {<<Or1(l.storeEpoch), k>>}]

(* A size record is added or taken away. *)
LEMMA SizedLedger ==
  ASSUME NEW l, LedgerInv(l), NEW k \in Keys, NEW action,
         NEW s, s = SizedBy(l, k, action)
  PROVE  /\ LedgerInv(s)
         /\ s.inc = l.inc /\ s.generation = l.generation
         /\ s.acknowledged = l.acknowledged /\ s.epoch = l.epoch
         /\ s.baseline = l.baseline /\ s.dirty = l.dirty /\ ~s.deleted
         /\ s.gc = l.gc /\ s.count = l.count
         /\ s.storeEpoch = Or1(l.storeEpoch) /\ Or1(s.storeEpoch) = Or1(l.storeEpoch)
         /\ action = "upsert" => s.sizes = l.sizes \cup {<<Or1(l.storeEpoch), k>>}
         /\ action # "upsert" => s.sizes = l.sizes \ {<<Or1(l.storeEpoch), k>>}
<1> DEFINE x == <<Or1(l.storeEpoch), k>>
<1>1. l \in Ledgers /\ l.storeEpoch \in Nat /\ Or1(l.storeEpoch) \in Nat /\ x \in Nat \X Keys
  BY LedgerFields DEF LedgerInv
<1>2. /\ s \in Ledgers /\ s.inc = l.inc /\ s.generation = l.generation
      /\ s.acknowledged = l.acknowledged /\ s.epoch = l.epoch
      /\ s.baseline = l.baseline /\ s.dirty = l.dirty /\ ~s.deleted
      /\ s.gc = l.gc /\ s.count = l.count /\ s.storeEpoch = Or1(l.storeEpoch)
      /\ s.sizes = IF action = "upsert" THEN l.sizes \cup {x} ELSE l.sizes \ {x}
  BY <1>1 DEF Ledgers, SizedBy
<1>3. Or1(s.storeEpoch) = Or1(l.storeEpoch) /\ s.storeEpoch >= l.storeEpoch
  BY <1>1, <1>2 DEF Or1
<1>4. IsFiniteSet(s.sizes)
  <2>1. IsFiniteSet(l.sizes \cup {x}) /\ l.sizes \ {x} \subseteq l.sizes
    BY FS_AddElement DEF LedgerInv
  <2> QED BY <1>2, <2>1, FS_Subset DEF LedgerInv
<1>5. MarkersInv(s)
  BY <1>2, <1>3 DEF LedgerInv, MarkersInv
<1>6. SweepInv(s)
  <2>1. SUFFICES ASSUME l.gc.goal # <<>>
                 PROVE  /\ l.gc.goal[4] <= s.storeEpoch
                        /\ ~l.gc.rescan => Swept(l.gc, l.dirty, s.sizes)
    BY <1>2 DEF SweepInv, LedgerInv
  <2>2. l.gc.goal[4] \in Nat /\ l.gc.goal[4] <= l.storeEpoch
    BY <1>1, <2>1, LedgerFields, GoalFields DEF LedgerInv, SweepInv
  <2>3. \A y \in s.sizes : y \in l.sizes \/ y = x
    BY <1>2
  <2>4. ~(x[1] < Or1(l.gc.goal[4]))
    BY <1>1, <2>2 DEF Or1
  <2>5. l.gc.goal[4] <= s.storeEpoch
    BY <1>1, <1>2, <1>3, <2>2
  <2>6. ~l.gc.rescan => Swept(l.gc, l.dirty, l.sizes)
    BY <2>1 DEF LedgerInv, SweepInv
  <2> QED BY <2>3, <2>4, <2>5, <2>6 DEF Swept
<1> QED BY <1>2, <1>3, <1>4, <1>5, <1>6 DEF LedgerInv

(* The marker of a key is replaced, all others stay. *)
NewMarker(l, k, action) ==
  [epoch |-> l.epoch, store |-> Or1(l.storeEpoch), key |-> k,
   generation |-> l.generation, action |-> action]

OldMarkers(l, k) ==
  {m \in l.dirty : m.epoch = l.epoch /\ m.store = Or1(l.storeEpoch) /\ m.key = k}

Replaced(l, k, action, c) ==
  [SizedBy(l, k, action) EXCEPT
     !.dirty = (@ \ OldMarkers(l, k)) \cup {NewMarker(l, k, action)}, !.count = c]

(* An upsert or a delete leaves a marker, or one marker too many asks for  *)
(* a baseline.                                                             *)
LEMMA MarkedShape ==
  ASSUME NEW l, LedgerInv(l), NEW k \in Keys, NEW action
  PROVE  \/ Marked(l, k, action) = Baselined(SizedBy(l, k, action))
         \/ \E c \in Int : Marked(l, k, action) = Replaced(l, k, action, c)
<1> DEFINE c == IF OldMarkers(l, k) = {} THEN l.count + 1 ELSE l.count
<1>1. c \in Int
  BY LedgerFields DEF LedgerInv
<1>2. Marked(l, k, action) =
        IF c > MaxKeys THEN Baselined(SizedBy(l, k, action))
        ELSE Replaced(l, k, action, c)
  BY Zenon DEF Marked, SizedBy, OldMarkers, NewMarker, Replaced
<1> HIDE DEF c
<1> QED BY <1>1, <1>2

(* The new marker of a key replaces the old one. It lies behind no cursor  *)
(* that may skip it, since it is newer than what was acknowledged.         *)
LEMMA MarkedLedger ==
  ASSUME NEW l, LedgerInv(l), l.acknowledged < l.generation,
         NEW k \in Keys, NEW action \in {"upsert", "delete"}, NEW c \in Int,
         NEW s, s = SizedBy(l, k, action),
         NEW r, r = Replaced(l, k, action, c)
  PROVE  /\ LedgerInv(r)
         /\ r.inc = l.inc /\ r.generation = l.generation
         /\ r.acknowledged = l.acknowledged /\ r.epoch = l.epoch
         /\ r.baseline = l.baseline /\ ~r.deleted /\ r.sizes = s.sizes
         /\ Or1(r.storeEpoch) = Or1(l.storeEpoch)
         /\ r.dirty = (l.dirty \ OldMarkers(l, k)) \cup {NewMarker(l, k, action)}
         /\ \A m \in OldMarkers(l, k) : m.epoch = l.epoch /\ m.key = k
         /\ \A m \in r.dirty : m.epoch = l.epoch /\ m.key = k => m = NewMarker(l, k, action)
<1> DEFINE new == NewMarker(l, k, action)
           old == OldMarkers(l, k)
<1>1. /\ LedgerInv(s)
      /\ s.inc = l.inc /\ s.generation = l.generation
      /\ s.acknowledged = l.acknowledged /\ s.epoch = l.epoch
      /\ s.baseline = l.baseline /\ s.dirty = l.dirty /\ ~s.deleted
      /\ s.gc = l.gc /\ s.storeEpoch = Or1(l.storeEpoch)
      /\ Or1(s.storeEpoch) = Or1(l.storeEpoch)
  BY SizedLedger
<1>2. l \in Ledgers /\ s \in Ledgers
  BY <1>1 DEF LedgerInv
<1>3. /\ new \in Marker /\ new.epoch = l.epoch /\ new.store = Or1(l.storeEpoch)
      /\ new.key = k /\ new.generation = l.generation /\ new.action = action
  BY <1>2, LedgerFields DEF NewMarker, Marker
<1>4. old \subseteq l.dirty /\ \A m \in l.dirty :
        m \in old <=> m.epoch = l.epoch /\ m.store = Or1(l.storeEpoch) /\ m.key = k
  BY DEF OldMarkers
<1> HIDE DEF new, old
<1>5. s.dirty \subseteq Marker
  BY <1>2, LedgerFields
<1>6. (s.dirty \ old) \cup {new} \in SUBSET Marker
  BY <1>3, <1>5
<1>7. /\ r \in Ledgers /\ r.inc = s.inc /\ r.generation = s.generation
      /\ r.acknowledged = s.acknowledged /\ r.epoch = s.epoch
      /\ r.baseline = s.baseline /\ r.deleted = s.deleted /\ r.sizes = s.sizes
      /\ r.gc = s.gc /\ r.storeEpoch = s.storeEpoch
      /\ r.dirty = (l.dirty \ old) \cup {new}
  <2> DEFINE D == (l.dirty \ old) \cup {new}
  <2>2. r = [s EXCEPT !.dirty = D, !.count = c]
    BY <1>1, <1>2 DEF Ledgers, old, new, Replaced
  <2>3. D \in SUBSET Marker
    BY <1>1, <1>6
  <2> HIDE DEF D
  <2>4. /\ r \in Ledgers /\ r.inc = s.inc /\ r.generation = s.generation
        /\ r.acknowledged = s.acknowledged /\ r.epoch = s.epoch
        /\ r.baseline = s.baseline /\ r.deleted = s.deleted /\ r.sizes = s.sizes
        /\ r.gc = s.gc /\ r.storeEpoch = s.storeEpoch /\ r.dirty = D
    BY <1>2, <2>2, <2>3 DEF Ledgers
  <2> QED BY <2>4 DEF D
<1>8. \A m \in l.dirty : m \in Marker /\ m.epoch = l.epoch => m.store = Or1(l.storeEpoch)
  BY DEF LedgerInv, MarkersInv
<1>9. \A m \in r.dirty : m = new \/ (m \in l.dirty /\ m \notin old)
  BY <1>7
<1>10. \A m \in r.dirty : m.epoch = l.epoch /\ m.key = k => m = new
  BY <1>1, <1>2, <1>4, <1>5, <1>8, <1>9
<1>11. MarkersInv(r)
  <2>1. l.generation \in Nat /\ l.epoch \in Nat
    BY <1>2, LedgerFields
  <2>2. ASSUME NEW m \in r.dirty
        PROVE  /\ m.epoch <= l.epoch /\ m.generation <= l.generation
               /\ m.epoch = l.epoch => m.store = Or1(l.storeEpoch)
    <3>1. CASE m = new
      BY <1>3, <2>1, <3>1
    <3>2. CASE m \in l.dirty
      BY <3>2 DEF LedgerInv, MarkersInv
    <3> QED BY <1>9, <3>1, <3>2
  <2>3. ASSUME NEW m \in r.dirty, NEW n \in r.dirty,
               m.epoch = l.epoch, n.epoch = l.epoch, m.key = n.key
        PROVE  m = n
    <3>1. CASE m.key = k
      BY <1>10, <2>3, <3>1
    <3>2. CASE m.key # k
      <4>1. m \in l.dirty /\ n \in l.dirty
        BY <1>3, <1>9, <2>3, <3>2
      <4> QED BY <2>3, <4>1 DEF LedgerInv, MarkersInv
    <3> QED BY <3>1, <3>2
  <2> QED BY <1>1, <1>7, <2>2, <2>3 DEF MarkersInv
<1>12. SweepInv(r)
  <2>1. SweepInv(s)
    BY <1>1 DEF LedgerInv
  <2>2. SUFFICES ASSUME s.gc.goal # <<>>, ~s.gc.rescan, Swept(s.gc, s.dirty, s.sizes)
                 PROVE  Swept(s.gc, r.dirty, s.sizes)
    BY <1>7, <2>1 DEF SweepInv
  <2>3. /\ s.gc.goal[1] \in Nat /\ s.gc.goal[3] \in Nat
        /\ s.gc.goal[1] <= l.epoch /\ s.gc.goal[3] <= l.acknowledged
    BY <1>1, <1>2, <2>1, <2>2, LedgerFields, GoalFields DEF SweepInv
  <2>4. ~(new.epoch < s.gc.goal[1]) /\ ~(new.generation <= s.gc.goal[3])
    BY <1>2, <1>3, <2>3, LedgerFields
  <2> QED BY <1>1, <1>9, <2>2, <2>4 DEF Swept
<1>13. IsFiniteSet(r.dirty)
  <2>1. IsFiniteSet(l.dirty) /\ l.dirty \ old \subseteq l.dirty
    BY DEF LedgerInv
  <2>2. IsFiniteSet(l.dirty \ old)
    BY <2>1, FS_Subset
  <2> QED BY <1>7, <2>2, FS_AddElement
<1>14. LedgerInv(r)
  BY <1>1, <1>7, <1>11, <1>12, <1>13 DEF LedgerInv
<1> QED BY <1>1, <1>4, <1>7, <1>10, <1>14 DEF new, old

(* Ledger and rows after one more upsert or delete. *)
LEMMA AlongMarked ==
  ASSUME NEW l0 \in Ledgers, NEW d0 \in Rows, NEW l, NEW d, Along(l0, d0, l, d),
         NEW k \in Keys, NEW action \in {"upsert", "delete"}, NEW v \in 0..MaxPast,
         action = "upsert" <=> v # 0,
         NEW e \in Rows, e[k] = v, \A j \in Keys : j # k => e[j] = d[j]
  PROVE  Along(l0, d0, Marked(l, k, action), e)
<1> DEFINE s == SizedBy(l, k, action)
           x == <<Or1(l.storeEpoch), k>>
           new == NewMarker(l, k, action)
<1>1. /\ LedgerInv(l) /\ l \in Ledgers /\ l.acknowledged < l.generation
      /\ Describes(l, d) /\ d \in [Keys -> 0..MaxPast] /\ x \in Nat \X Keys
  BY LedgerFields DEF Along, LedgerInv, Rows
<1>2. e \in [Keys -> 0..MaxPast] /\ e[k] = v /\ \A j \in Keys : j # k => e[j] = d[j]
  BY DEF Rows
<1>3. /\ LedgerInv(s)
      /\ s.inc = l.inc /\ s.generation = l.generation
      /\ s.acknowledged = l.acknowledged /\ s.epoch = l.epoch
      /\ s.baseline = l.baseline /\ s.dirty = l.dirty /\ ~s.deleted
      /\ s.storeEpoch = Or1(l.storeEpoch) /\ Or1(s.storeEpoch) = Or1(l.storeEpoch)
      /\ action = "upsert" => s.sizes = l.sizes \cup {x}
      /\ action # "upsert" => s.sizes = l.sizes \ {x}
  BY <1>1, SizedLedger
<1>4. \A j \in Keys : e[j] # 0 => <<Or1(l.storeEpoch), j>> \in s.sizes
  <2> TAKE j \in Keys
  <2>1. CASE j = k
    BY <1>2, <1>3, <2>1
  <2>2. CASE j # k
    BY <1>1, <1>2, <1>3, <2>2 DEF Describes
  <2> QED BY <2>1, <2>2
<1>5. CASE Marked(l, k, action) = Baselined(s)
  <2> DEFINE b == Baselined(s)
  <2>1. /\ LedgerInv(b) /\ b.epoch = l.epoch + 1 /\ b.baseline
        /\ b.inc = l.inc /\ b.generation = l.generation
        /\ b.acknowledged = l.acknowledged /\ ~b.deleted /\ b.dirty = l.dirty
        /\ b.sizes = s.sizes /\ Or1(b.storeEpoch) = Or1(l.storeEpoch)
    BY <1>3, BaselinedLedger
  <2> HIDE DEF b, s
  <2>2. l.epoch \in Nat /\ l0.epoch \in Nat /\ l.epoch >= l0.epoch
        /\ \A m \in l.dirty : m.epoch <= l.epoch /\ m.epoch \in Nat
    BY <1>1, LedgerFields DEF Along, LedgerInv, MarkersInv, Marker
  <2>3. Describes(b, e)
    BY <1>4, <2>1, <2>2 DEF Describes
  <2>4. b.epoch > l0.epoch
    BY <2>1, <2>2
  <2>5. Marked(l, k, action) = b
    BY <1>5 DEF b, s
  <2>6. Along(l0, d0, b, e)
    <3>1. l.inc = l0.inc /\ l.generation = l0.generation /\ l.acknowledged = l0.acknowledged
      BY DEF Along
    <3>2. b.epoch >= l0.epoch /\ ~(b.epoch = l0.epoch)
      BY <2>1, <2>2
    <3>3. e \in Rows
      BY <1>2 DEF Rows
    <3> QED BY <1>1, <2>1, <2>3, <3>1, <3>2, <3>3 DEF Along
  <2> QED BY <2>5, <2>6
<1>6. ASSUME NEW c \in Int,
             NEW r, r = Replaced(l, k, action, c),
             Marked(l, k, action) = r
      PROVE  Along(l0, d0, r, e)
  <2>1. /\ LedgerInv(r)
        /\ r.inc = l.inc /\ r.generation = l.generation
        /\ r.acknowledged = l.acknowledged /\ r.epoch = l.epoch
        /\ r.baseline = l.baseline /\ ~r.deleted /\ r.sizes = s.sizes
        /\ Or1(r.storeEpoch) = Or1(l.storeEpoch)
        /\ r.dirty = (l.dirty \ OldMarkers(l, k)) \cup {new}
        /\ \A m \in OldMarkers(l, k) : m.epoch = l.epoch /\ m.key = k
        /\ \A m \in r.dirty : m.epoch = l.epoch /\ m.key = k => m = new
    <3>1. s = SizedBy(l, k, action)
      OBVIOUS
    <3> HIDE DEF s, new
    <3>2. LedgerInv(l) /\ l.acknowledged < l.generation
      BY <1>1
    <3> QED BY <3>1, <3>2, <1>6, MarkedLedger DEF new
  <2>2. /\ new.epoch = l.epoch /\ new.key = k /\ new.generation = l.generation
        /\ new.action = action
    BY DEF NewMarker
  <2> HIDE DEF s, new
  <2>3. r.dirty \subseteq Marker
    BY <2>1, LedgerFields DEF LedgerInv
  <2>4. Describes(r, e)
    <3>1. ASSUME NEW m \in r.dirty, m.epoch = r.epoch
          PROVE  m.action = "upsert" <=> e[m.key] # 0
      <4>1. m.key \in Keys
        BY <2>3 DEF Marker
      <4>2. CASE m.key = k
        BY <1>2, <2>1, <2>2, <3>1, <4>2
      <4>3. CASE m.key # k
        <5>1. m \in l.dirty
          BY <2>1, <2>2, <4>3
        <5> QED BY <1>1, <1>2, <2>1, <3>1, <4>1, <4>3, <5>1 DEF Describes
      <4> QED BY <4>2, <4>3
    <3> QED BY <1>4, <2>1, <3>1 DEF Describes
  <2>5. /\ l.inc = l0.inc /\ l.generation = l0.generation
        /\ l.acknowledged = l0.acknowledged /\ l.epoch >= l0.epoch
        /\ l.epoch > l0.epoch => l.baseline
    BY DEF Along
  <2>6. ASSUME r.epoch = l0.epoch
        PROVE  /\ r.baseline = l0.baseline
               /\ \A j \in Keys : e[j] # d0[j] =>
                    \E n \in r.dirty : n.epoch = r.epoch /\ n.key = j /\ n.generation = r.generation
               /\ \A m \in l0.dirty : m.epoch = l0.epoch =>
                    \/ m \in r.dirty
                    \/ \E n \in r.dirty :
                         n.epoch = r.epoch /\ n.key = m.key /\ n.generation = r.generation
    <3>1. /\ l.baseline = l0.baseline
          /\ \A j \in Keys : d[j] # d0[j] =>
               \E n \in l.dirty : n.epoch = l.epoch /\ n.key = j /\ n.generation = l.generation
          /\ \A m \in l0.dirty : m.epoch = l0.epoch =>
               \/ m \in l.dirty
               \/ \E n \in l.dirty :
                    n.epoch = l.epoch /\ n.key = m.key /\ n.generation = l.generation
      BY <2>1, <2>6 DEF Along
    <3>2. new \in r.dirty
      BY <2>1
    <3>3. \A m \in l.dirty : m \in r.dirty \/ (m.epoch = l.epoch /\ m.key = k)
      BY <2>1
    <3>4. ASSUME NEW j \in Keys, e[j] # d0[j]
          PROVE  \E n \in r.dirty : n.epoch = r.epoch /\ n.key = j /\ n.generation = r.generation
      <4>1. CASE j = k
        BY <2>1, <2>2, <3>2, <4>1
      <4>2. CASE j # k
        BY <1>2, <2>1, <3>1, <3>3, <3>4, <4>2
      <4> QED BY <4>1, <4>2
    <3>5. ASSUME NEW m \in l0.dirty, m.epoch = l0.epoch, m \notin r.dirty
          PROVE  \E n \in r.dirty :
                   n.epoch = r.epoch /\ n.key = m.key /\ n.generation = r.generation
      <4>1. CASE m.key = k
        BY <2>1, <2>2, <3>2, <4>1
      <4>2. CASE m.key # k
        BY <2>1, <3>1, <3>3, <3>5, <4>2
      <4> QED BY <4>1, <4>2
    <3> QED BY <2>1, <3>1, <3>4, <3>5
  <2> QED BY <1>1, <1>2, <2>1, <2>4, <2>5, <2>6 DEF Along, Rows
<1>7. \/ Marked(l, k, action) = Baselined(s)
      \/ \E c \in Int : Marked(l, k, action) = Replaced(l, k, action, c)
  BY <1>1, MarkedShape
<1> QED BY <1>5, <1>6, <1>7

(* A new epoch: no marker describes it yet. *)
LEMMA NewEpoch ==
  ASSUME NEW l, LedgerInv(l), NEW r \in Ledgers,
         r.epoch = l.epoch + 1, r.generation = l.generation,
         r.acknowledged = l.acknowledged, r.storeEpoch >= l.storeEpoch,
         r.dirty = l.dirty, r.sizes = l.sizes, r.gc = l.gc,
         r.deleted => l.deleted \/ l.sizes = {}
  PROVE  LedgerInv(r)
<1>1. l \in Ledgers
  BY DEF LedgerInv
<1>2. /\ l.epoch \in Nat /\ l.storeEpoch \in Nat /\ r.storeEpoch \in Nat
      /\ \A m \in l.dirty : m.epoch \in Nat
  BY <1>1, LedgerFields DEF Marker
<1>3. MarkersInv(r)
  BY <1>2 DEF LedgerInv, MarkersInv
<1>4. SweepInv(r)
  <2>1. l.gc.goal # <<>> => l.gc.goal[1] \in Nat /\ l.gc.goal[4] \in Nat
    BY <1>1, LedgerFields, GoalFields
  <2> QED BY <1>2, <2>1 DEF LedgerInv, SweepInv
<1> QED BY <1>3, <1>4 DEF LedgerInv

(* A schema operation begins a new epoch. *)
LEMMA SchemaLedger ==
  ASSUME NEW l \in Ledgers, NEW r, r = Baselined([l EXCEPT !.schemaEpoch = @ + 1])
  PROVE  /\ r \in Ledgers /\ r.epoch = l.epoch + 1 /\ r.generation = l.generation
         /\ r.acknowledged = l.acknowledged /\ r.storeEpoch = l.storeEpoch
         /\ r.dirty = l.dirty /\ r.sizes = l.sizes /\ r.gc = l.gc
         /\ r.deleted = l.deleted /\ r.inc = l.inc /\ r.baseline = TRUE
<1> DEFINE c == [l EXCEPT !.schemaEpoch = @ + 1]
<1>1. l.schemaEpoch + 1 \in Nat
  BY LedgerFields
<1>2. /\ c \in Ledgers /\ c.epoch = l.epoch /\ c.generation = l.generation
      /\ c.acknowledged = l.acknowledged /\ c.storeEpoch = l.storeEpoch
      /\ c.dirty = l.dirty /\ c.sizes = l.sizes /\ c.gc = l.gc
      /\ c.deleted = l.deleted /\ c.inc = l.inc
  BY <1>1 DEF Ledgers
<1> HIDE DEF c
<1>3. r = Baselined(c)
  BY DEF c
<1> QED BY <1>2, <1>3, BaselinedType

(* So does a clear, with a new epoch of the store. *)
LEMMA ClearLedger ==
  ASSUME NEW l \in Ledgers, NEW r, r = Baselined([l EXCEPT !.storeEpoch = Or1(@) + 1])
  PROVE  /\ r \in Ledgers /\ r.epoch = l.epoch + 1 /\ r.generation = l.generation
         /\ r.acknowledged = l.acknowledged /\ r.storeEpoch >= l.storeEpoch
         /\ r.dirty = l.dirty /\ r.sizes = l.sizes /\ r.gc = l.gc
         /\ r.deleted = l.deleted /\ r.inc = l.inc /\ r.baseline = TRUE
<1> DEFINE n == Or1(l.storeEpoch) + 1
           c == [l EXCEPT !.storeEpoch = n]
<1>1. n \in Nat /\ n >= l.storeEpoch
  BY LedgerFields DEF Or1
<1> HIDE DEF n
<1>2. /\ c \in Ledgers /\ c.epoch = l.epoch /\ c.generation = l.generation
      /\ c.acknowledged = l.acknowledged /\ c.storeEpoch = n
      /\ c.dirty = l.dirty /\ c.sizes = l.sizes /\ c.gc = l.gc
      /\ c.deleted = l.deleted /\ c.inc = l.inc
  BY <1>1 DEF Ledgers
<1> HIDE DEF c
<1>3. r = Baselined(c)
  BY DEF c, n
<1> QED BY <1>1, <1>2, <1>3, BaselinedType

(* Ledger and rows after one more operation that begins a new epoch. *)
LEMMA AlongEpoch ==
  ASSUME NEW l0 \in Ledgers, NEW d0, NEW l, NEW d, Along(l0, d0, l, d),
         NEW r \in Ledgers,
         r.epoch = l.epoch + 1, r.generation = l.generation,
         r.acknowledged = l.acknowledged, r.storeEpoch >= l.storeEpoch,
         r.dirty = l.dirty, r.sizes = l.sizes, r.gc = l.gc, r.baseline = TRUE,
         r.deleted = l.deleted, r.inc = l.inc
  PROVE  Along(l0, d0, r, NoRows)
<1>1. LedgerInv(l) /\ l \in Ledgers
  BY DEF Along, LedgerInv
<1>2. LedgerInv(r)
  BY <1>1, NewEpoch
<1>3. /\ l.inc = l0.inc /\ l.generation = l0.generation
      /\ l.acknowledged = l0.acknowledged /\ l.acknowledged < l.generation
      /\ l.deleted => l0.deleted
      /\ l.epoch >= l0.epoch
  BY DEF Along
<1>4. r.epoch > l0.epoch /\ l.epoch \in Nat /\ l0.epoch \in Nat
  BY <1>1, <1>3, LedgerFields
<1>5. NoRows \in Rows /\ \A k \in Keys : NoRows[k] = 0
  BY LocalDirtyAssumption DEF NoRows, Rows
<1>6. Describes(r, NoRows)
  <2>1. \A m \in r.dirty : ~(m.epoch = r.epoch)
    BY <1>1, <1>4, LedgerFields DEF LedgerInv, MarkersInv, Marker
  <2> QED BY <1>5, <2>1 DEF Describes
<1> QED BY <1>2, <1>3, <1>4, <1>5, <1>6 DEF Along

(* Ledger and rows after one more operation. *)
LEMMA AlongRecorded ==
  ASSUME NEW l0 \in Ledgers, NEW d0 \in Rows, NEW l, NEW d, Along(l0, d0, l, d),
         NEW o \in Operation, NEW value \in 1..MaxPast
  PROVE  Along(l0, d0, Recorded(l, o), Changed(d, o, value))
<1>1. l \in Ledgers
  BY DEF Along, LedgerInv
<1>2. CASE o.action = "upsert"
  <2>1. Recorded(l, o) = Marked(l, o.key, "upsert")
    BY <1>2 DEF Recorded
  <2>2. Changed(d, o, value) = [d EXCEPT ![o.key] = value]
    BY <1>2 DEF Changed
  <2>3. o.key \in Keys /\ value \in 0..MaxPast /\ value # 0
    BY <1>2 DEF Operation
  <2>4. /\ Changed(d, o, value) \in Rows /\ Changed(d, o, value)[o.key] = value
        /\ \A j \in Keys : j # o.key => Changed(d, o, value)[j] = d[j]
    BY <2>2, <2>3 DEF Along, Rows
  <2> QED BY <2>1, <2>3, <2>4, AlongMarked
<1>3. CASE o.action = "delete"
  <2>1. Recorded(l, o) = Marked(l, o.key, "delete")
    BY <1>3 DEF Recorded
  <2>2. Changed(d, o, value) = [d EXCEPT ![o.key] = 0]
    BY <1>3 DEF Changed
  <2>3. o.key \in Keys /\ 0 \in 0..MaxPast
    BY <1>3, LocalDirtyAssumption DEF Operation
  <2>4. /\ Changed(d, o, value) \in Rows /\ Changed(d, o, value)[o.key] = 0
        /\ \A j \in Keys : j # o.key => Changed(d, o, value)[j] = d[j]
    BY <2>2, <2>3 DEF Along, Rows
  <2> QED BY <2>1, <2>3, <2>4, AlongMarked
<1>4. CASE o.action = "schema"
  <2>1. Recorded(l, o) = Baselined([l EXCEPT !.schemaEpoch = @ + 1])
    BY <1>4 DEF Recorded
  <2>2. Changed(d, o, value) = NoRows
    BY <1>4 DEF Changed
  <2>3. l.storeEpoch >= l.storeEpoch
    BY <1>1, LedgerFields
  <2> QED BY <1>1, <2>1, <2>2, <2>3, SchemaLedger, AlongEpoch
<1>5. CASE o.action = "clear"
  <2>1. Recorded(l, o) = Baselined([l EXCEPT !.storeEpoch = Or1(@) + 1])
    BY <1>5 DEF Recorded
  <2>2. Changed(d, o, value) = NoRows
    BY <1>5 DEF Changed
  <2> QED BY <1>1, <2>1, <2>2, ClearLedger, AlongEpoch
<1>6. o.action \in {"upsert", "delete", "schema", "clear"}
  BY DEF Operation
<1> QED BY <1>2, <1>3, <1>4, <1>5, <1>6

(* A transaction of the website. *)
LEMMA TransactionLedger ==
  ASSUME NEW l, LedgerInv(l), NEW d \in Rows, Describes(l, d),
         NEW ops \in Seq(Operation), NEW value \in 1..MaxPast
  PROVE  Along(Begun(l), d, Appended(l, ops), Applied(d, ops, value))
<1> DEFINE b == Begun(l)
<1>1. Len(ops) \in Nat /\ \A n \in 1..Len(ops) : ops[n] \in Operation
  OBVIOUS
<1>2. /\ LedgerInv(b) /\ b \in Ledgers /\ b.acknowledged < b.generation
      /\ b.dirty = l.dirty /\ b.epoch = l.epoch /\ b.storeEpoch = l.storeEpoch
      /\ b.sizes = l.sizes
  BY Bumped
<1>5. PICK f : /\ f[0] = b
               /\ \A n \in 1..Len(ops) : f[n] = Recorded(f[n - 1], ops[n])
               /\ Appended(l, ops) = f[Len(ops)]
  BY <1>1, AppendedRun
<1>6. PICK g : /\ g[0] = d
               /\ \A n \in 1..Len(ops) : g[n] = Changed(g[n - 1], ops[n], value)
               /\ Applied(d, ops, value) = g[Len(ops)]
  BY <1>1, AppliedRun
<1> HIDE DEF b
<1>7. Along(b, d, b, d)
  <2>1. b.epoch \in Nat
    BY <1>2, LedgerFields
  <2>2. Describes(b, d)
    BY <1>2 DEF Describes
  <2> QED BY <1>2, <2>1, <2>2 DEF Along
<1> DEFINE T == {n \in Nat : Along(b, d, f[n], g[n])}
<1>8. 0 \in T
  BY <1>5, <1>6, <1>7
<1>9. ASSUME NEW n \in 1..Len(ops), n - 1 \in T PROVE n \in T
  <2>1. Along(b, d, f[n - 1], g[n - 1]) /\ ops[n] \in Operation /\ n \in Nat
    BY <1>1, <1>9
  <2>2. Along(b, d, Recorded(f[n - 1], ops[n]), Changed(g[n - 1], ops[n], value))
    BY <1>2, <2>1, AlongRecorded
  <2> QED BY <1>5, <1>6, <2>1, <2>2
<1>10. Len(ops) \in T
  <2> HIDE DEF T
  <2> QED BY <1>1, <1>8, <1>9, BoundedInduction
<1>11. Along(b, d, f[Len(ops)], g[Len(ops)])
  BY <1>10
<1> QED BY <1>5, <1>6, <1>11 DEF b

(* A database begins with a baseline, and so does its deletion. *)
LEMMA OneOperation ==
  ASSUME NEW l, NEW o
  PROVE  Appended(l, <<o>>) = Recorded(Begun(l), o)
<1>1. Len(<<o>>) = 1 /\ <<o>>[1] = o
  OBVIOUS
<1>2. PICK f : /\ f[0] = Begun(l)
               /\ \A n \in 1..1 : f[n] = Recorded(f[n - 1], <<o>>[n])
               /\ Appended(l, <<o>>) = f[1]
  <2> HIDE DEF Appended
  <2> QED BY <1>1, AppendedRun
<1>3. f[1] = Recorded(f[1 - 1], <<o>>[1])
  BY <1>2
<1>4. 1 - 1 = 0
  OBVIOUS
<1> QED BY <1>1, <1>2, <1>3, <1>4, Zenon

(* The ledger of a namespace that nobody wrote to. *)
LEMMA FreshLedger ==
  ASSUME NEW inc \in Nat, NEW l, l = Fresh(inc)
  PROVE  /\ LedgerInv(l) /\ l.inc = inc /\ l.generation = 0 /\ l.acknowledged = 0
         /\ ~l.deleted /\ l.dirty = {} /\ l.sizes = {} /\ l.baseline = FALSE
         /\ l.epoch = 1
<1>1. NoProgress \in Progress /\ NoProgress.goal = <<>> /\ NoProgress.rescan = FALSE
  BY DEF NoProgress, Progress
<1> HIDE DEF NoProgress
<1>2. /\ l \in Ledgers /\ l.inc = inc /\ l.generation = 0 /\ l.acknowledged = 0
      /\ ~l.deleted /\ l.dirty = {} /\ l.sizes = {} /\ l.baseline = FALSE
      /\ l.epoch = 1 /\ l.gc = NoProgress
  <2> USE DEF Fresh
  <2>1. {} \in SUBSET Marker /\ {} \in SUBSET (Nat \X Keys) /\ 0 \in Int /\ 0 \in Nat /\ 1 \in Nat
    OBVIOUS
  <2>2. l \in Ledgers
    BY <1>1, <2>1 DEF Ledgers
  <2> QED BY <2>2
<1>3. MarkersInv(l) /\ SweepInv(l)
  BY <1>1, <1>2 DEF MarkersInv, SweepInv
<1> QED BY <1>2, <1>3, FS_EmptySet DEF LedgerInv

(* The ledger of a database that was just created. *)
LEMMA CreatedLedger ==
  ASSUME NEW inc \in Nat, NEW c, c = Created(inc)
  PROVE  /\ LedgerInv(c) /\ c.inc = inc /\ c.generation = 1 /\ c.acknowledged = 0
         /\ ~c.deleted /\ c.dirty = {} /\ c.sizes = {} /\ c.baseline = TRUE
         /\ Describes(c, NoRows)
<1> DEFINE o == [action |-> "schema"]
           f == Fresh(inc)
           b == Begun(f)
<1>1. /\ LedgerInv(f) /\ f.inc = inc /\ f.generation = 0 /\ f.acknowledged = 0
      /\ ~f.deleted /\ f.dirty = {} /\ f.sizes = {}
  BY FreshLedger
<1>2. c = Recorded(b, o)
  <2> HIDE DEF o, b
  <2> QED BY OneOperation, Zenon DEF Created, o, b, f
<1>3. Recorded(b, o) = Baselined([b EXCEPT !.schemaEpoch = @ + 1])
  <2> HIDE DEF b
  <2>1. o.action = "schema"
    OBVIOUS
  <2> QED BY <2>1 DEF Recorded
<1> HIDE DEF f, o
<1>4. /\ LedgerInv(b) /\ b \in Ledgers /\ b.generation = 1
      /\ b.dirty = {} /\ b.sizes = {} /\ b.gc = f.gc
      /\ ~b.deleted /\ b.epoch = f.epoch /\ b.inc = inc
      /\ b.acknowledged = 0
  BY <1>1, Bumped
<1> HIDE DEF b
<1>5. /\ c \in Ledgers /\ c.epoch = b.epoch + 1 /\ c.generation = b.generation
      /\ c.acknowledged = b.acknowledged /\ c.storeEpoch = b.storeEpoch
      /\ c.dirty = b.dirty /\ c.sizes = b.sizes /\ c.gc = b.gc
      /\ c.deleted = b.deleted /\ c.inc = b.inc /\ c.baseline = TRUE
  <2>1. c = Baselined([b EXCEPT !.schemaEpoch = @ + 1]) /\ b \in Ledgers
    BY <1>2, <1>3, <1>4
  <2> QED BY ONLY <2>1, SchemaLedger
<1>6. LedgerInv(c)
  <2>1. c.storeEpoch >= b.storeEpoch
    BY <1>4, <1>5, LedgerFields
  <2> QED BY <1>4, <1>5, <2>1, NewEpoch
<1>7. Describes(c, NoRows)
  BY <1>4, <1>5 DEF Describes, NoRows
<1> QED BY <1>4, <1>5, <1>6, <1>7

(* The ledger of the catalog when a database is deleted. *)
LEMMA DeletedLedger ==
  ASSUME NEW l, LedgerInv(l), l.dirty = {}, l.sizes = {},
         NEW r, r = Appended(l, <<[action |-> "database-delete"]>>)
  PROVE  /\ LedgerInv(r) /\ r.inc = l.inc /\ r.generation = l.generation + 1
         /\ r.acknowledged = l.acknowledged /\ r.epoch = l.epoch + 1
         /\ r.dirty = {} /\ r.sizes = {} /\ r.baseline = TRUE
<1> DEFINE o == [action |-> "database-delete"]
           b == Begun(l)
           c == [b EXCEPT !.deleted = TRUE]
<1>2. r = Recorded(b, o)
  <2> HIDE DEF o, b
  <2> QED BY OneOperation, Zenon DEF o, b
<1>3. Recorded(b, o) = Baselined(c)
  <2> HIDE DEF b
  <2>1. o.action = "database-delete"
    OBVIOUS
  <2> QED BY <2>1 DEF Recorded
<1> HIDE DEF o
<1>4. /\ LedgerInv(b) /\ b \in Ledgers /\ b.generation = l.generation + 1
      /\ b.dirty = {} /\ b.sizes = {}
      /\ b.epoch = l.epoch /\ b.inc = l.inc
      /\ b.acknowledged = l.acknowledged
  BY Bumped
<1> HIDE DEF b
<1>5. /\ c \in Ledgers /\ c.epoch = b.epoch /\ c.generation = b.generation
      /\ c.acknowledged = b.acknowledged /\ c.storeEpoch = b.storeEpoch
      /\ c.dirty = b.dirty /\ c.sizes = b.sizes /\ c.gc = b.gc
      /\ c.inc = b.inc
  BY <1>4 DEF Ledgers
<1> HIDE DEF c
<1>6. /\ r \in Ledgers /\ r.epoch = b.epoch + 1 /\ r.generation = b.generation
      /\ r.acknowledged = b.acknowledged /\ r.storeEpoch = b.storeEpoch
      /\ r.dirty = b.dirty /\ r.sizes = b.sizes /\ r.gc = b.gc
      /\ r.inc = b.inc /\ r.baseline = TRUE
  <2>1. r = Baselined(c)
    BY <1>2, <1>3 DEF c
  <2> QED BY <1>5, <2>1, BaselinedType
<1>7. LedgerInv(r)
  <2>1. r.storeEpoch >= b.storeEpoch
    BY <1>4, <1>6, LedgerFields
  <2> QED BY <1>4, <1>6, <2>1, NewEpoch
<1> QED BY <1>4, <1>6, <1>7

(* The ledger when a cut is acknowledged (acknowledgeLocalDirty). *)
LEMMA AcknowledgedLedger ==
  ASSUME NEW l, LedgerInv(l), NEW cut \in Nat, cut <= l.generation, NEW epoch,
         NEW r, r = Acknowledged(l, cut, epoch)
  PROVE  /\ LedgerInv(r) /\ r.inc = l.inc /\ r.generation = l.generation
         /\ r.epoch = l.epoch /\ r.storeEpoch = l.storeEpoch
         /\ r.schemaEpoch = l.schemaEpoch /\ r.deleted = l.deleted
         /\ r.dirty = l.dirty /\ r.sizes = l.sizes
         /\ cut > l.acknowledged => r.acknowledged = cut
         /\ cut <= l.acknowledged => r.acknowledged = l.acknowledged
         /\ r.baseline => l.baseline
         /\ l.baseline => r.baseline \/ (l.epoch = epoch /\ cut = l.generation)
<1> DEFINE a == IF cut > l.acknowledged THEN cut ELSE l.acknowledged
           b == l.baseline /\ ~(l.epoch = epoch /\ cut = l.generation)
<1>1. l \in Ledgers
  BY DEF LedgerInv
<1>2. a \in Nat /\ a >= l.acknowledged /\ a <= l.generation
  BY <1>1, LedgerFields DEF LedgerInv
<1>3. b \in BOOLEAN
  OBVIOUS
<1>4. r = [l EXCEPT !.acknowledged = a, !.baseline = b]
  BY DEF Acknowledged
<1>5. /\ cut > l.acknowledged => a = cut
      /\ cut <= l.acknowledged => a = l.acknowledged
  BY <1>1, LedgerFields
<1>55. (b => l.baseline) /\ (l.baseline => b \/ (l.epoch = epoch /\ cut = l.generation))
  OBVIOUS
<1> HIDE DEF a, b
<1>6. /\ r \in Ledgers /\ r.inc = l.inc /\ r.generation = l.generation
      /\ r.epoch = l.epoch /\ r.storeEpoch = l.storeEpoch
      /\ r.schemaEpoch = l.schemaEpoch /\ r.deleted = l.deleted
      /\ r.dirty = l.dirty /\ r.sizes = l.sizes /\ r.gc = l.gc
      /\ r.acknowledged = a /\ r.baseline = b
  BY <1>1, <1>2, <1>3, <1>4 DEF Ledgers
<1>7. MarkersInv(r)
  BY <1>6 DEF LedgerInv, MarkersInv
<1>8. SweepInv(r)
  <2>1. l.gc.goal # <<>> => l.gc.goal[3] \in Nat
    BY <1>1, LedgerFields, GoalFields
  <2>2. l.acknowledged \in Nat
    BY <1>1, LedgerFields
  <2> QED BY <1>2, <1>6, <2>1, <2>2 DEF LedgerInv, SweepInv
<1> QED BY <1>2, <1>5, <1>55, <1>6, <1>7, <1>8 DEF LedgerInv

(* The first n of a finite set, and the furthest of them. *)
LEMMA FirstOfDown ==
  ASSUME NEW S, IsFiniteSet(S), NEW at, \A x \in S : at[x] \in Nat, NEW n \in Int,
         NEW F, F = {x \in S : Cardinality({y \in S : at[y] < at[x]}) < n}
  PROVE  \A x \in F, y \in S : at[y] <= at[x] => y \in F
<1> SUFFICES ASSUME NEW x \in F, NEW y \in S, at[y] <= at[x]
             PROVE  y \in F
  OBVIOUS
<1> DEFINE X == {z \in S : at[z] < at[x]}
           Y == {z \in S : at[z] < at[y]}
<1>1. X \subseteq S /\ Y \subseteq X
  <2>1. at[x] \in Nat /\ at[y] \in Nat
    OBVIOUS
  <2> QED BY <2>1
<1>2. IsFiniteSet(X) /\ IsFiniteSet(Y)
  BY <1>1, FS_Subset
<1>3. Cardinality(Y) <= Cardinality(X) /\ Cardinality(X) \in Nat /\ Cardinality(Y) \in Nat
  BY <1>1, <1>2, FS_Subset, FS_CardinalityType
<1>4. Cardinality(X) < n
  OBVIOUS
<1>5. Cardinality(Y) < n
  BY <1>3, <1>4
<1> QED BY <1>5

(* In a finite set some element has the greatest position. *)
LEMMA Greatest ==
  ASSUME NEW F, IsFiniteSet(F), F # {}, NEW at, \A x \in F : at[x] \in Nat
  PROVE  \E x \in F : \A y \in F : at[y] <= at[x]
<1> DEFINE Above(x) == {y \in F : at[y] > at[x]}
           T == {Cardinality(Above(x)) : x \in F}
<1>1. \A x \in F : IsFiniteSet(Above(x)) /\ Cardinality(Above(x)) \in Nat
  <2> TAKE x \in F
  <2>1. Above(x) \subseteq F
    OBVIOUS
  <2>2. IsFiniteSet(Above(x))
    BY <2>1, FS_Subset
  <2> QED BY <2>2, FS_CardinalityType
<1>2. PICK t \in T : \A u \in T : t <= u
  <2>1. T \in SUBSET Nat /\ T # {}
    BY <1>1
  <2> HIDE DEF T
  <2> QED BY <2>1, Least
<1>3. PICK x \in F : t = Cardinality(Above(x))
  BY <1>2
<1>4. ASSUME NEW y \in F, ~(at[y] <= at[x]) PROVE FALSE
  <2>1. at[y] > at[x] /\ at[x] \in Nat /\ at[y] \in Nat
    BY <1>4
  <2>2. Above(y) \subseteq Above(x) /\ y \in Above(x) /\ y \notin Above(y)
    BY <2>1
  <2>3. Cardinality(Above(y)) \in T
    OBVIOUS
  <2>4. Cardinality(Above(x)) <= Cardinality(Above(y))
    BY <1>2, <1>3, <2>3
  <2> HIDE DEF Above
  <2>5. /\ Cardinality(Above(y)) <= Cardinality(Above(x))
        /\ Cardinality(Above(y)) = Cardinality(Above(x)) => Above(x) = Above(y)
    BY <1>1, <2>2, FS_Subset
  <2>6. Cardinality(Above(y)) = Cardinality(Above(x))
    BY <1>1, <2>4, <2>5
  <2> QED BY <2>2, <2>5, <2>6
<1> QED BY <1>4

(* A position is a natural number. *)
LEMMA PositionType ==
  ASSUME NEW a \in Nat, NEW k \in Keys
  PROVE  Position(a, k) \in Nat /\ Position(a, k) > 0
<1> DEFINE n == LastKey + 1
<1>1. n \in Nat /\ k \in Nat /\ k > 0
  BY LocalDirtyAssumption DEF Keys
<1> HIDE DEF n
<1>2. a * n \in Nat
  BY <1>1
<1> QED BY <1>1, <1>2 DEF Position, n

MarkersSeen(S, n) == FirstOf(S, n, MarkerAt)
MarkersEnd(seen, from) == Furthest(seen, from, MarkerAt)
SizesSeen(S, n) == FirstOf(S, n, SizeAt)
SizesEnd(seen, from) == Furthest(seen, from, SizeAt)

(* What a page of markers leaves unseen lies behind its end. *)
LEMMA MarkerPage ==
  ASSUME NEW S \in SUBSET Marker, IsFiniteSet(S), NEW n \in Int, NEW from \in Nat,
         NEW seen, seen = MarkersSeen(S, n),
         NEW at, at = MarkersEnd(seen, from)
  PROVE  /\ seen \subseteq S /\ at \in Nat
         /\ \A m \in S : m \notin seen /\ MarkerAt(m) > from => MarkerAt(m) > at
<1> DEFINE pos == [m \in S |-> MarkerAt(m)]
<1>1. \A m \in S : pos[m] = MarkerAt(m) /\ MarkerAt(m) \in Nat
  BY PositionType DEF MarkerAt, Marker
<1> HIDE DEF pos
<1>2. seen = {x \in S : Cardinality({y \in S : pos[y] < pos[x]}) < n}
  <2>1. \A x \in S : {y \in S : pos[y] < pos[x]} = {y \in S : MarkerAt(y) < MarkerAt(x)}
    BY <1>1
  <2> QED BY <2>1 DEF FirstOf, MarkersSeen
<1>3. seen \subseteq S /\ IsFiniteSet(seen)
  <2>1. seen \subseteq S
    BY <1>2
  <2> QED BY <2>1, FS_Subset
<1>4. \A x \in seen, y \in S : pos[y] <= pos[x] => y \in seen
  <2>1. \A z \in S : pos[z] \in Nat
    BY <1>1
  <2> QED BY <1>2, <2>1, FirstOfDown
<1>5. CASE seen = {}
  BY <1>3, <1>5 DEF Furthest, MarkersEnd
<1>6. CASE seen # {}
  <2>1. \E x \in seen : \A y \in seen : pos[y] <= pos[x]
    <3>1. \A x \in seen : pos[x] \in Nat
      BY <1>1, <1>3
    <3> QED BY <1>3, <1>6, <3>1, Greatest
  <2>2. \E x \in seen : \A y \in seen : MarkerAt(y) <= MarkerAt(x)
    BY <1>1, <1>3, <2>1
  <2> DEFINE top == CHOOSE x \in seen : \A y \in seen : MarkerAt(y) <= MarkerAt(x)
  <2>3. top \in seen
    BY <2>2
  <2>4. at = MarkerAt(top)
    BY <1>6 DEF Furthest, MarkersEnd
  <2> HIDE DEF top
  <2>5. ASSUME NEW m \in S, m \notin seen PROVE MarkerAt(m) > MarkerAt(top)
    <3>1. top \in S /\ pos[top] \in Nat /\ pos[m] \in Nat
      BY <1>1, <1>3, <2>3
    <3>2. ~(pos[m] <= pos[top])
      BY <1>4, <2>3, <2>5
    <3> QED BY <1>1, <3>1, <3>2
  <2> QED BY <1>1, <1>3, <2>3, <2>4, <2>5
<1> QED BY <1>5, <1>6

(* The same of size records. *)
LEMMA SizePage ==
  ASSUME NEW S \in SUBSET (Nat \X Keys), IsFiniteSet(S), NEW n \in Int, NEW from \in Nat,
         NEW seen, seen = SizesSeen(S, n),
         NEW at, at = SizesEnd(seen, from)
  PROVE  /\ seen \subseteq S /\ at \in Nat
         /\ \A s \in S : s \notin seen /\ SizeAt(s) > from => SizeAt(s) > at
<1> DEFINE pos == [s \in S |-> SizeAt(s)]
<1>1. \A s \in S : pos[s] = SizeAt(s) /\ SizeAt(s) \in Nat
  BY PositionType DEF SizeAt
<1> HIDE DEF pos
<1>2. seen = {x \in S : Cardinality({y \in S : pos[y] < pos[x]}) < n}
  <2>1. \A x \in S : {y \in S : pos[y] < pos[x]} = {y \in S : SizeAt(y) < SizeAt(x)}
    BY <1>1
  <2> QED BY <2>1 DEF FirstOf, SizesSeen
<1>3. seen \subseteq S /\ IsFiniteSet(seen)
  <2>1. seen \subseteq S
    BY <1>2
  <2> QED BY <2>1, FS_Subset
<1>4. \A x \in seen, y \in S : pos[y] <= pos[x] => y \in seen
  <2>1. \A z \in S : pos[z] \in Nat
    BY <1>1
  <2> QED BY <1>2, <2>1, FirstOfDown
<1>5. CASE seen = {}
  BY <1>3, <1>5 DEF Furthest, SizesEnd
<1>6. CASE seen # {}
  <2>1. \E x \in seen : \A y \in seen : pos[y] <= pos[x]
    <3>1. \A x \in seen : pos[x] \in Nat
      BY <1>1, <1>3
    <3> QED BY <1>3, <1>6, <3>1, Greatest
  <2>2. \E x \in seen : \A y \in seen : SizeAt(y) <= SizeAt(x)
    BY <1>1, <1>3, <2>1
  <2> DEFINE top == CHOOSE x \in seen : \A y \in seen : SizeAt(y) <= SizeAt(x)
  <2>3. top \in seen
    BY <2>2
  <2>4. at = SizeAt(top)
    BY <1>6 DEF Furthest, SizesEnd
  <2> HIDE DEF top
  <2>5. ASSUME NEW s \in S, s \notin seen PROVE SizeAt(s) > SizeAt(top)
    <3>1. top \in S /\ pos[top] \in Nat /\ pos[s] \in Nat
      BY <1>1, <1>3, <2>3
    <3>2. ~(pos[s] <= pos[top])
      BY <1>4, <2>3, <2>5
    <3> QED BY <1>1, <3>1, <3>2
  <2> QED BY <1>1, <1>3, <2>3, <2>4, <2>5
<1> QED BY <1>5, <1>6

(* The goal of a collection is what the ledger says now. *)
LEMMA GoalType ==
  ASSUME NEW l \in Ledgers
  PROVE  /\ Goal(l) \in Goals /\ Goal(l) # <<>>
         /\ Goal(l)[1] = l.epoch /\ Goal(l)[3] = l.acknowledged
         /\ Goal(l)[4] = l.storeEpoch
<1>1. Goal(l) = <<l.epoch, l.schemaEpoch, l.acknowledged, l.storeEpoch, l.deleted>>
  BY DEF Goal
<1> QED BY <1>1, LedgerFields DEF Goals

(* A collection starts again, goes on, or begins. *)
LEMMA RetargetedProgress ==
  ASSUME NEW l, LedgerInv(l), NEW p, p = Retargeted(l)
  PROVE  /\ p \in Progress /\ p.goal = Goal(l)
         /\ ~p.rescan => Swept(p, l.dirty, l.sizes)
<1>1. l \in Ledgers /\ l.gc \in Progress
  BY LedgerFields DEF LedgerInv
<1>2. /\ Goal(l) \in Goals /\ Goal(l) # <<>>
      /\ Goal(l)[1] = l.epoch /\ Goal(l)[3] = l.acknowledged /\ Goal(l)[4] = l.storeEpoch
  BY <1>1, GoalType
<1> DEFINE goal == Goal(l)
<1> HIDE DEF goal
<1>3. CASE l.gc.goal = goal
  <2>1. p = l.gc
    BY <1>3 DEF Retargeted, goal
  <2> QED BY <1>1, <1>2, <1>3, <2>1 DEF LedgerInv, SweepInv, goal
<1>4. CASE l.gc.goal # goal
  <2> DEFINE r == l.gc.goal # <<>>
  <2>1. p = [l.gc EXCEPT !.goal = goal, !.rescan = r, !.dirtyDone = FALSE, !.sizeDone = FALSE]
    BY <1>4 DEF Retargeted, goal
  <2>2. r \in BOOLEAN /\ goal \in {<<>>} \cup Goals
    BY <1>2 DEF goal
  <2> HIDE DEF r
  <2>3. /\ p \in Progress /\ p.goal = goal /\ p.rescan = r
        /\ p.dirtyDone = FALSE /\ p.sizeDone = FALSE
        /\ p.dirtyAt = l.gc.dirtyAt /\ p.sizeAt = l.gc.sizeAt
    BY <1>1, <2>1, <2>2 DEF Progress
  <2>4. ASSUME ~r PROVE Swept(p, l.dirty, l.sizes)
    <3>1. l.gc = NoProgress
      BY <2>4 DEF r, LedgerInv, SweepInv
    <3>2. p.dirtyAt = 0 /\ p.sizeAt = 0
      BY <2>3, <3>1 DEF NoProgress
    <3>3. \A m \in l.dirty : MarkerAt(m) > 0
      BY <1>1, LedgerFields, PositionType DEF MarkerAt, Marker
    <3>4. \A s \in l.sizes : SizeAt(s) > 0
      BY <1>1, LedgerFields, PositionType DEF SizeAt
    <3> QED BY <2>3, <3>2, <3>3, <3>4 DEF Swept
  <2> QED BY <2>3, <2>4 DEF goal
<1> QED BY <1>3, <1>4

(* One slice of a collection removes garbage only, and leaves no garbage   *)
(* behind its cursors (collectLocalDirtyGarbage).                          *)
LEMMA CollectedLedger ==
  ASSUME NEW l, LedgerInv(l), NEW r, r = Collected(l)
  PROVE  /\ LedgerInv(r)
         /\ r.inc = l.inc /\ r.generation = l.generation
         /\ r.acknowledged = l.acknowledged /\ r.schemaEpoch = l.schemaEpoch
         /\ r.epoch = l.epoch /\ r.storeEpoch = l.storeEpoch
         /\ r.baseline = l.baseline /\ r.deleted = l.deleted
         /\ r.dirty \subseteq l.dirty /\ r.sizes \subseteq l.sizes
         /\ \A m \in l.dirty : ~GarbageMarker(l, m) => m \in r.dirty
         /\ \A s \in l.sizes : ~GarbageSize(l, s) => s \in r.sizes
<1> DEFINE p == Retargeted(l)
           dirtyLeft == IF p.dirtyDone THEN {}
                        ELSE {m \in l.dirty : MarkerAt(m) > p.dirtyAt}
           dirtySeen == MarkersSeen(dirtyLeft, Half)
           dirtyEnd  == dirtySeen = dirtyLeft
           sizeLeft  == IF p.sizeDone THEN {}
                        ELSE {s \in l.sizes : SizeAt(s) > p.sizeAt}
           room      == Slice - Cardinality(dirtySeen)
           sizeSeen  == SizesSeen(sizeLeft, room)
           sizeEnd   == sizeSeen = sizeLeft
           gone      == {m \in dirtySeen : GarbageMarker(l, m)}
           again     == dirtyEnd /\ sizeEnd /\ p.rescan
           dirtyFar  == MarkersEnd(dirtySeen, p.dirtyAt)
           sizeFar   == SizesEnd(sizeSeen, p.sizeAt)
           dirtyAt   == IF dirtyEnd THEN 0 ELSE dirtyFar
           sizeAt    == IF sizeEnd THEN 0 ELSE sizeFar
           dirty     == l.dirty \ gone
           sizes     == l.sizes \ {s \in sizeSeen : GarbageSize(l, s)}
           count     == l.count - Uncounted(l, gone)
           gc        == [goal |-> p.goal, dirtyAt |-> dirtyAt, sizeAt |-> sizeAt,
                         dirtyDone |-> dirtyEnd /\ ~again,
                         sizeDone |-> sizeEnd /\ ~again,
                         rescan |-> p.rescan /\ ~again]
<1>1. l \in Ledgers /\ l.dirty \subseteq Marker /\ l.sizes \subseteq Nat \X Keys
      /\ l.count \in Int /\ IsFiniteSet(l.dirty) /\ IsFiniteSet(l.sizes)
  BY LedgerFields DEF LedgerInv
<1>2. r = [l EXCEPT !.dirty = dirty, !.sizes = sizes, !.count = count, !.gc = gc]
  BY Zenon DEF Collected, MarkersSeen, MarkersEnd, SizesSeen, SizesEnd
<1>3. p \in Progress /\ p.goal = Goal(l) /\ (~p.rescan => Swept(p, l.dirty, l.sizes))
  BY RetargetedProgress
<1>4. /\ Goal(l) \in Goals /\ Goal(l) # <<>>
      /\ Goal(l)[1] = l.epoch /\ Goal(l)[3] = l.acknowledged /\ Goal(l)[4] = l.storeEpoch
  BY <1>1, GoalType
<1> HIDE DEF p
<1>5. /\ p.dirtyAt \in Nat /\ p.sizeAt \in Nat
      /\ p.dirtyDone \in BOOLEAN /\ p.sizeDone \in BOOLEAN /\ p.rescan \in BOOLEAN
  BY <1>3 DEF Progress
<1>6. /\ dirtySeen \subseteq dirtyLeft /\ dirtyFar \in Nat
      /\ \A m \in dirtyLeft : m \notin dirtySeen /\ MarkerAt(m) > p.dirtyAt
           => MarkerAt(m) > dirtyFar
  <2>1. dirtyLeft \subseteq l.dirty
    OBVIOUS
  <2>2. dirtyLeft \in SUBSET Marker /\ IsFiniteSet(dirtyLeft)
    BY <1>1, <2>1, FS_Subset
  <2>3. Half \in Int
    BY LocalDirtyAssumption DEF Half
  <2>4. dirtySeen = MarkersSeen(dirtyLeft, Half)
        /\ dirtyFar = MarkersEnd(dirtySeen, p.dirtyAt)
    OBVIOUS
  <2> HIDE DEF dirtyLeft, dirtySeen, dirtyFar
  <2> QED BY ONLY <1>5, <2>2, <2>3, <2>4, MarkerPage
<1>7. dirtyLeft \subseteq l.dirty /\ IsFiniteSet(dirtySeen)
  <2>1. dirtyLeft \subseteq l.dirty
    OBVIOUS
  <2> HIDE DEF dirtyLeft, dirtySeen
  <2> QED BY <1>1, <1>6, <2>1, FS_Subset
<1>8. room \in Int
  BY <1>7, LocalDirtyAssumption, FS_CardinalityType
<1>9. /\ sizeSeen \subseteq sizeLeft /\ sizeFar \in Nat /\ sizeLeft \subseteq l.sizes
      /\ \A s \in sizeLeft : s \notin sizeSeen /\ SizeAt(s) > p.sizeAt
           => SizeAt(s) > sizeFar
  <2>1. sizeLeft \subseteq l.sizes
    OBVIOUS
  <2>2. sizeLeft \in SUBSET (Nat \X Keys) /\ IsFiniteSet(sizeLeft)
    BY <1>1, <2>1, FS_Subset
  <2>3. sizeSeen = SizesSeen(sizeLeft, room)
        /\ sizeFar = SizesEnd(sizeSeen, p.sizeAt)
    OBVIOUS
  <2> HIDE DEF sizeLeft, sizeSeen, sizeFar, room
  <2> QED BY ONLY <1>5, <1>8, <2>1, <2>2, <2>3, SizePage
<1>10. /\ \A m \in l.dirty : MarkerAt(m) > 0
       /\ \A s \in l.sizes : SizeAt(s) > 0
  <2>1. \A m \in l.dirty : m.epoch \in Nat /\ m.key \in Keys
    BY <1>1 DEF Marker
  <2>2. \A s \in l.sizes : s[1] \in Nat /\ s[2] \in Keys
    BY <1>1
  <2> QED BY <2>1, <2>2, PositionType DEF MarkerAt, SizeAt
<1>11. count \in Int
  <2>1. {m \in gone : m.epoch = l.epoch} \subseteq dirtySeen
    OBVIOUS
  <2> HIDE DEF gone, dirtySeen
  <2>2. Uncounted(l, gone) \in Nat
    BY <1>7, <2>1, FS_Subset, FS_CardinalityType DEF Uncounted
  <2> QED BY <1>1, <2>2
<1>12. /\ dirty \subseteq l.dirty /\ sizes \subseteq l.sizes
       /\ \A m \in l.dirty : ~GarbageMarker(l, m) => m \in dirty
       /\ \A s \in l.sizes : ~GarbageSize(l, s) => s \in sizes
       /\ \A m \in dirty : GarbageMarker(l, m) => m \notin dirtySeen
       /\ \A s \in sizes : GarbageSize(l, s) => s \notin sizeSeen
  <2> HIDE DEF dirtySeen, sizeSeen
  <2> QED OBVIOUS
<1>13. \A m \in l.dirty : ~p.dirtyDone /\ MarkerAt(m) > p.dirtyAt => m \in dirtyLeft
  OBVIOUS
<1>14. \A s \in l.sizes : ~p.sizeDone /\ SizeAt(s) > p.sizeAt => s \in sizeLeft
  OBVIOUS
<1>15. dirtyAt \in Nat /\ sizeAt \in Nat /\ (dirtyEnd => dirtyAt = 0) /\ (sizeEnd => sizeAt = 0)
       /\ (~dirtyEnd => dirtyAt = dirtyFar) /\ (~sizeEnd => sizeAt = sizeFar)
  <2> HIDE DEF dirtyEnd, sizeEnd, dirtyFar, sizeFar
  <2> QED BY <1>6, <1>9
<1> HIDE DEF dirtyLeft, dirtySeen, sizeLeft, sizeSeen, room, gone, dirtyFar, sizeFar,
             dirty, sizes, count, dirtyAt, sizeAt
<1>16. gc \in Progress /\ gc.goal = Goal(l) /\ gc.dirtyAt = dirtyAt /\ gc.sizeAt = sizeAt
       /\ gc.dirtyDone = (dirtyEnd /\ ~again) /\ gc.sizeDone = (sizeEnd /\ ~again)
       /\ gc.rescan = (p.rescan /\ ~again)
  <2> HIDE DEF dirtyEnd, sizeEnd
  <2> QED BY <1>3, <1>4, <1>5, <1>15 DEF Progress
<1>17. gc.rescan => ~(gc.dirtyDone /\ gc.sizeDone)
  <2> HIDE DEF dirtyEnd, sizeEnd
  <2> QED BY <1>16, Zenon
<1>18. ASSUME ~gc.rescan PROVE Swept(gc, dirty, sizes)
  <2>1. CASE again
    <3>1. ~gc.dirtyDone /\ ~gc.sizeDone /\ gc.dirtyAt = 0 /\ gc.sizeAt = 0
      BY <1>15, <1>16, <2>1
    <3> HIDE DEF gc
    <3> QED BY <1>10, <1>12, <3>1 DEF Swept
  <2>2. CASE ~again
    <3>1. Swept(p, l.dirty, l.sizes)
      BY <1>3, <1>16, <1>18, <2>2
    <3>2. ASSUME NEW m \in dirty, m.epoch < gc.goal[1] \/ m.generation <= gc.goal[3]
          PROVE  ~gc.dirtyDone /\ MarkerAt(m) > gc.dirtyAt
      <4>1. GarbageMarker(l, m) /\ m \in l.dirty
        BY <1>4, <1>12, <1>16, <3>2 DEF GarbageMarker
      <4>2. ~p.dirtyDone /\ MarkerAt(m) > p.dirtyAt
        BY <1>3, <1>16, <3>1, <3>2, <4>1 DEF Swept
      <4>3. m \in dirtyLeft /\ m \notin dirtySeen
        BY <1>12, <1>13, <3>2, <4>1, <4>2
      <4>4. ~dirtyEnd /\ MarkerAt(m) > dirtyFar
        BY <1>6, <4>2, <4>3
      <4> QED BY <1>15, <1>16, <4>4
    <3>3. ASSUME NEW s \in sizes, s[1] < Or1(gc.goal[4])
          PROVE  ~gc.sizeDone /\ SizeAt(s) > gc.sizeAt
      <4>1. GarbageSize(l, s) /\ s \in l.sizes
        BY <1>4, <1>12, <1>16, <3>3 DEF GarbageSize
      <4>2. ~p.sizeDone /\ SizeAt(s) > p.sizeAt
        BY <1>3, <1>16, <3>1, <3>3, <4>1 DEF Swept
      <4>3. s \in sizeLeft /\ s \notin sizeSeen
        BY <1>12, <1>14, <3>3, <4>1, <4>2
      <4>4. ~sizeEnd /\ SizeAt(s) > sizeFar
        BY <1>9, <4>2, <4>3
      <4> QED BY <1>15, <1>16, <4>4
    <3> HIDE DEF gc
    <3> QED BY <3>2, <3>3 DEF Swept
  <2> QED BY <2>1, <2>2
<1> HIDE DEF gc
<1>19. /\ r \in Ledgers /\ r.inc = l.inc /\ r.generation = l.generation
       /\ r.acknowledged = l.acknowledged /\ r.schemaEpoch = l.schemaEpoch
       /\ r.epoch = l.epoch /\ r.storeEpoch = l.storeEpoch
       /\ r.baseline = l.baseline /\ r.deleted = l.deleted
       /\ r.dirty = dirty /\ r.sizes = sizes /\ r.gc = gc
  <2>1. dirty \in SUBSET Marker /\ sizes \in SUBSET (Nat \X Keys) /\ gc \in Progress
    BY <1>1, <1>12, <1>16
  <2> QED BY <1>1, <1>2, <1>11, <2>1 DEF Ledgers
<1>20. MarkersInv(r)
  BY <1>12, <1>19 DEF LedgerInv, MarkersInv
<1>21. SweepInv(r)
  <2>1. l.epoch \in Nat /\ l.acknowledged \in Nat /\ l.storeEpoch \in Nat
    BY <1>1, LedgerFields
  <2> QED BY <1>4, <1>16, <1>17, <1>18, <1>19, <2>1 DEF SweepInv
<1>22. IsFiniteSet(r.dirty) /\ IsFiniteSet(r.sizes)
  BY <1>1, <1>12, <1>19, FS_Subset
<1>23. r.acknowledged <= r.generation /\ (r.deleted => r.sizes = {})
  BY <1>12, <1>19 DEF LedgerInv
<1>24. LedgerInv(r)
  BY <1>19, <1>20, <1>21, <1>22, <1>23 DEF LedgerInv
<1> QED BY <1>12, <1>19, <1>24

-----------------------------------------------------------------------------
(* The website and its ledgers. *)

(* The types of what the website and the ledgers keep. *)
LEMMA SiteFields ==
  ASSUME SiteInv
  PROVE  /\ place \in {"database", "catalog"} /\ LedgerInv(Current) /\ Current \in Ledgers
         /\ ledger.database \in Ledgers /\ ledger.catalog \in Ledgers
         /\ rows \in Rows /\ past \in Seq(Entries) /\ Len(past) \in 1..MaxPast
         /\ Describes(Current, rows)
<1>1. Current = ledger.database \/ Current = ledger.catalog
  BY DEF SiteInv, Current
<1>2. CASE place = "catalog"
  <2>1. Current = ledger.catalog /\ rows = NoRows /\ Current.dirty = {}
    BY <1>2 DEF SiteInv, Current
  <2>2. Describes(Current, rows)
    BY <2>1 DEF Describes, NoRows
  <2> QED BY <2>1, <2>2 DEF SiteInv, LedgerInv, PastInv
<1>3. CASE place = "database"
  BY <1>3 DEF SiteInv, LedgerInv, PastInv, Current
<1> QED BY <1>2, <1>3 DEF SiteInv

(* Every committed state has a name of its own. *)
LEMMA PastGrows ==
  ASSUME SiteInv, Len(past) < MaxPast,
         NEW p \in {"database", "catalog"}, NEW q \in {"database", "catalog"}, p # q,
         NEW l \in Ledgers, NEW d \in Rows,
         past' = Append(past, Entry(l, d)), rows' = d, place' = p,
         ledger'[p] = l, ledger'[q] = ledger[q],
         l.inc <= ledger'["database"].inc,
         ledger["database"].inc <= ledger'["database"].inc,
         l.inc # ledger[q].inc,
         ledger'["database"].inc \in Nat,
         \A i \in 1..Len(past) : past[i].inc = l.inc => past[i].generation < l.generation
  PROVE  PastInv' /\ Len(past') = Len(past) + 1 /\ past'[Len(past')] = Entry(l, d)
         /\ \A i \in 1..Len(past) : past'[i] = past[i]
<1>1. PastInv /\ past \in Seq(Entries) /\ MaxPast \in Nat
  BY LocalDirtyAssumption DEF SiteInv, PastInv
<1>2. Entry(l, d) \in Entries /\ Entry(l, d).inc = l.inc /\ Entry(l, d).generation = l.generation
  BY LedgerFields DEF Entry, Entries
<1> DEFINE e == Entry(l, d)
<1> HIDE DEF e
<1>3. past' = Append(past, e)
  BY DEF e
<1>4. /\ past' \in Seq(Entries) /\ Len(past') = Len(past) + 1
      /\ past'[Len(past) + 1] = e /\ \A i \in 1..Len(past) : past'[i] = past[i]
  BY <1>1, <1>2, <1>3 DEF e
<1>5. Len(past') \in 1..MaxPast
  BY <1>1, <1>4 DEF PastInv
<1>6. ledger'[place'] = l
  OBVIOUS
<1>7. ASSUME NEW i \in 1..Len(past'), NEW j \in 1..Len(past'),
             i < j, past'[i].inc = past'[j].inc
      PROVE  past'[i].generation < past'[j].generation
  <2>1. i \in 1..Len(past) /\ past'[i] = past[i]
    BY <1>1, <1>4, <1>7
  <2>2. CASE j = Len(past) + 1
    BY <1>2, <1>4, <1>7, <2>1, <2>2 DEF e
  <2>3. CASE j # Len(past) + 1
    <3>1. j \in 1..Len(past) /\ past'[j] = past[j]
      BY <1>1, <1>4, <2>3
    <3> QED BY <1>1, <1>7, <2>1, <3>1 DEF PastInv
  <2> QED BY <2>2, <2>3
<1>8. ASSUME NEW i \in 1..Len(past')
      PROVE  /\ past'[i].inc <= ledger'["database"].inc
             /\ past'[i].inc = l.inc => past'[i].generation <= l.generation
             /\ past'[i].inc = ledger[q].inc => past'[i].generation <= ledger[q].generation
  <2>0. l.generation \in Nat /\ l.inc \in Nat /\ ledger["database"].inc \in Nat
    BY LedgerFields, SiteFields
  <2>1. CASE i = Len(past) + 1
    BY <1>2, <1>4, <2>0, <2>1 DEF e
  <2>2. CASE i # Len(past) + 1
    <3>1. i \in 1..Len(past) /\ past'[i] = past[i] /\ past[i] \in Entries
      BY <1>1, <1>4, <2>2
    <3>2. past[i].inc <= ledger["database"].inc /\ past[i].inc \in Nat /\ past[i].generation \in Nat
      BY <1>1, <3>1 DEF PastInv, Entries
    <3>3. past[i].inc = ledger[q].inc => past[i].generation <= ledger[q].generation
      BY <1>1, <3>1 DEF PastInv
    <3> QED BY <2>0, <3>1, <3>2, <3>3
  <2> QED BY <2>1, <2>2
<1>9. ASSUME NEW i \in 1..Len(past'), NEW x \in {"database", "catalog"},
             past'[i].inc = ledger'[x].inc
      PROVE  past'[i].generation <= ledger'[x].generation
  <2>1. x = p \/ x = q
    OBVIOUS
  <2> QED BY <1>8, <1>9, <2>1
<1>10. past'[Len(past')] = Entry(ledger'[place'], rows')
  BY <1>4, <1>6 DEF e
<1> QED BY <1>4, <1>5, <1>7, <1>8, <1>9, <1>10 DEF PastInv, Current, e

(* A ledger that changes on its own. *)
LEMMA SiteKept ==
  ASSUME SiteInv, NEW r, LedgerInv(r),
         r.inc = Current.inc, r.generation = Current.generation,
         r.epoch = Current.epoch, r.storeEpoch = Current.storeEpoch,
         r.deleted = Current.deleted, r.dirty \subseteq Current.dirty,
         r.sizes \subseteq Current.sizes,
         \A s \in Current.sizes : ~GarbageSize(Current, s) => s \in r.sizes,
         r.acknowledged >= Current.acknowledged,
         r.baseline \/ ~Current.baseline \/ r.generation = r.acknowledged,
         ledger' = [ledger EXCEPT ![place] = r], UNCHANGED <<rows, place, past>>
  PROVE  SiteInv' /\ ledger'[place'] = r
         /\ \A p \in {"database", "catalog"} : p # place => ledger'[p] = ledger[p]
         /\ ledger'["database"].inc = ledger["database"].inc
<1>1. /\ place \in {"database", "catalog"} /\ Current \in Ledgers /\ r \in Ledgers
      /\ Len(past) \in Nat
  BY SiteFields DEF LedgerInv
<1>2. /\ ledger'[place] = r
      /\ \A p \in {"database", "catalog"} : p # place => ledger'[p] = ledger[p]
      /\ ledger' \in [database : Ledgers, catalog : Ledgers]
  BY <1>1 DEF SiteInv
<1>3. PastInv'
  <2>1. \A p \in {"database", "catalog"} :
          ledger'[p].inc = ledger[p].inc /\ ledger'[p].generation = ledger[p].generation
    BY <1>2 DEF Current
  <2>2. Entry(ledger'[place], rows) = Entry(ledger[place], rows)
    BY <1>1, <2>1 DEF Entry
  <2> QED BY <1>1, <2>1, <2>2 DEF SiteInv, PastInv, Current
<1>4. CASE place = "database"
  <2>1. Current = ledger["database"] /\ ledger'["database"] = r /\ ledger'["catalog"] = ledger["catalog"]
    BY <1>2, <1>4 DEF Current
  <2>2. Describes(r, rows)
    <3>1. Describes(Current, rows) /\ ~Current.deleted
      BY <1>4, <2>1 DEF SiteInv
    <3>2. ASSUME NEW k \in Keys, rows[k] # 0 PROVE <<Or1(r.storeEpoch), k>> \in r.sizes
      <4> DEFINE s == <<Or1(r.storeEpoch), k>>
      <4>1. s \in Current.sizes /\ s[1] = Or1(Current.storeEpoch) /\ s[1] \in Nat
        BY <1>1, <3>1, <3>2, LedgerFields DEF Describes
      <4>2. ~GarbageSize(Current, s)
        BY <3>1, <4>1 DEF GarbageSize
      <4> QED BY <4>1, <4>2
    <3> QED BY <3>1, <3>2 DEF Describes
  <2> QED BY <1>1, <1>2, <1>3, <1>4, <2>1, <2>2 DEF SiteInv
<1>5. CASE place = "catalog"
  <2>1. Current = ledger["catalog"] /\ ledger'["catalog"] = r /\ ledger'["database"] = ledger["database"]
    BY <1>2, <1>5 DEF Current
  <2>2. r.dirty = {} /\ r.sizes = {}
    BY <1>5, <2>1 DEF SiteInv
  <2>3. r.baseline \/ r.generation = r.acknowledged
    <3>1. CASE Current.baseline
      BY <3>1
    <3>2. CASE ~Current.baseline
      <4>1. Current.generation = Current.acknowledged
        BY <2>1, <3>2 DEF SiteInv
      <4> QED BY <1>1, <4>1, LedgerFields DEF LedgerInv
    <3> QED BY <3>1, <3>2
  <2> QED BY <1>1, <1>2, <1>3, <1>5, <2>1, <2>2, <2>3 DEF SiteInv
<1> QED BY <1>1, <1>2, <1>4, <1>5 DEF Current

(* What a commit of the website does. *)
Grown ==
  /\ Len(past') = Len(past) + 1
  /\ past'[Len(past')] = Entry(Current', rows')
  /\ \A i \in 1..Len(past) : past'[i] = past[i]

(* The types of a committed state. *)
LEMMA PastFields ==
  ASSUME SiteInv, NEW i \in 1..Len(past)
  PROVE  /\ past[i].inc \in Nat /\ past[i].generation \in Nat /\ past[i].rows \in Rows
         /\ past[i].inc <= ledger["database"].inc
         /\ \A p \in {"database", "catalog"} :
              past[i].inc = ledger[p].inc => past[i].generation <= ledger[p].generation
<1>1. PastInv
  BY DEF SiteInv
<1>2. past[i] \in Entries
  BY <1>1 DEF PastInv
<1> QED BY <1>1, <1>2 DEF PastInv, Entries

(* The first state. *)
LEMMA SiteBegins ==
  ASSUME SiteInit
  PROVE  SiteInv /\ Len(past) = 1
<1> DEFINE c == Created(1)
           f == Fresh(0)
<1>1. /\ LedgerInv(c) /\ c.inc = 1 /\ c.generation = 1 /\ c.acknowledged = 0
      /\ ~c.deleted /\ c.dirty = {} /\ c.sizes = {} /\ c.baseline = TRUE
      /\ Describes(c, NoRows)
  BY CreatedLedger
<1>2. /\ LedgerInv(f) /\ f.inc = 0 /\ f.generation = 0 /\ f.acknowledged = 0
      /\ f.dirty = {} /\ f.sizes = {} /\ f.baseline = FALSE
  BY FreshLedger
<1>3. /\ place = "database" /\ rows = NoRows /\ past = <<Entry(c, NoRows)>>
      /\ ledger = [database |-> c, catalog |-> f]
  BY Zenon DEF SiteInit
<1> HIDE DEF c, f
<1>4. NoRows \in Rows /\ MaxPast \in Nat /\ MaxPast >= 1
  BY LocalDirtyAssumption DEF NoRows, Rows
<1>5. Entry(c, NoRows) \in Entries /\ Entry(c, NoRows).inc = 1 /\ Entry(c, NoRows).generation = 1
  BY <1>1, <1>4 DEF Entry, Entries
<1>6. /\ past \in Seq(Entries) /\ Len(past) = 1 /\ past[1] = Entry(c, NoRows)
      /\ \A i \in 1..Len(past) : i = 1
  BY <1>3, <1>5
<1>7. PastInv
  BY <1>1, <1>2, <1>3, <1>4, <1>5, <1>6 DEF PastInv, Current
<1> QED BY <1>1, <1>2, <1>3, <1>4, <1>6, <1>7 DEF SiteInv, LedgerInv

(* A transaction of the website. *)
LEMMA SiteWrite ==
  ASSUME SiteInv, NEW ops \in Transactions, Write(ops)
  PROVE  /\ SiteInv' /\ Grown
         /\ Along(Begun(Current), rows, Current', rows')
         /\ place = "database" /\ place' = "database"
         /\ ledger'["catalog"] = ledger["catalog"]
         /\ ledger'["database"].inc = ledger["database"].inc
<1> DEFINE l == Appended(Current, ops)
           d == Applied(rows, ops, Len(past) + 1)
           b == Begun(Current)
<1>1. /\ place = "database" /\ Len(past) < MaxPast /\ rows' = d /\ place' = "database"
      /\ past' = Append(past, Entry(l, d)) /\ ledger' = [ledger EXCEPT !.database = l]
  BY Zenon DEF Write, Committed
<1>2. /\ LedgerInv(Current) /\ Current \in Ledgers /\ rows \in Rows /\ Describes(Current, rows)
      /\ Len(past) \in Nat /\ MaxPast \in Nat /\ Len(past) + 1 \in 1..MaxPast
  BY <1>1, SiteFields, LocalDirtyAssumption
<1>3. ops \in Seq(Operation)
  BY LocalDirtyAssumption
<1> HIDE DEF l, d
<1>4. Along(b, rows, l, d)
  BY <1>2, <1>3, TransactionLedger DEF l, d
<1>5. /\ b.inc = Current.inc /\ b.generation = Current.generation + 1 /\ b \in Ledgers
      /\ b.deleted = Current.deleted
  BY <1>2, Bumped
<1> HIDE DEF b
<1>6. /\ LedgerInv(l) /\ l \in Ledgers /\ l.inc = Current.inc
      /\ l.generation = Current.generation + 1 /\ d \in Rows /\ Describes(l, d)
      /\ l.deleted => Current.deleted
  BY <1>4, <1>5 DEF Along, LedgerInv
<1>7. /\ ledger'["database"] = l /\ ledger'["catalog"] = ledger["catalog"]
      /\ ledger' \in [database : Ledgers, catalog : Ledgers]
      /\ Current = ledger["database"] /\ Current' = l
  BY <1>1, <1>6 DEF SiteInv, Current
<1>8. l.inc \in Nat /\ l.generation \in Nat /\ Current.generation \in Nat
  BY <1>2, <1>6, LedgerFields
<1>9. \A i \in 1..Len(past) : past[i].inc = l.inc => past[i].generation < l.generation
  <2> SUFFICES ASSUME NEW i \in 1..Len(past), past[i].inc = l.inc
               PROVE  past[i].generation < l.generation
    OBVIOUS
  <2>1. past[i].generation <= Current.generation /\ past[i].generation \in Nat
    BY <1>6, <1>7, PastFields
  <2> QED BY <1>6, <1>8, <2>1
<1>10. /\ PastInv' /\ Len(past') = Len(past) + 1 /\ past'[Len(past')] = Entry(l, d)
       /\ \A i \in 1..Len(past) : past'[i] = past[i]
  <2>1. l.inc <= ledger'["database"].inc /\ ledger["database"].inc <= ledger'["database"].inc
        /\ l.inc # ledger["catalog"].inc /\ ledger'["database"].inc \in Nat
    BY <1>6, <1>7, <1>8 DEF SiteInv
  <2> QED BY <1>1, <1>6, <1>7, <1>9, <2>1, PastGrows
<1>11. l.generation <= Len(past')
  BY <1>2, <1>6, <1>7, <1>8, <1>10 DEF SiteInv
<1>12. ledger["catalog"].generation <= Len(past')
  <2>1. ledger["catalog"].generation \in Nat /\ ledger["catalog"].generation <= Len(past)
    BY LedgerFields DEF SiteInv, LedgerInv
  <2> QED BY <1>2, <1>10, <2>1
<1>13. SiteInv'
  BY <1>1, <1>6, <1>7, <1>10, <1>11, <1>12 DEF SiteInv
<1> QED BY <1>1, <1>4, <1>6, <1>7, <1>10, <1>13 DEF Grown, b

(* The database is deleted. *)
LEMMA SiteDelete ==
  ASSUME SiteInv, DeleteDatabase
  PROVE  /\ SiteInv' /\ Grown
         /\ place = "database" /\ place' = "catalog" /\ rows' = NoRows
         /\ ledger'["database"] = ledger["database"]
         /\ ledger'["catalog"].inc = 0 /\ ledger'["catalog"].baseline = TRUE
         /\ ledger'["catalog"].generation = ledger["catalog"].generation + 1
         /\ ledger'["catalog"].epoch = ledger["catalog"].epoch + 1
         /\ ledger'["catalog"].acknowledged = ledger["catalog"].acknowledged
<1> DEFINE c == ledger["catalog"]
           l == Appended(c, <<[action |-> "database-delete"]>>)
<1>1. /\ place = "database" /\ Len(past) < MaxPast /\ rows' = NoRows /\ place' = "catalog"
      /\ past' = Append(past, Entry(l, NoRows)) /\ ledger' = [ledger EXCEPT !.catalog = l]
  BY Zenon DEF DeleteDatabase, Committed
<1>2. /\ LedgerInv(c) /\ c \in Ledgers /\ c.inc = 0 /\ c.dirty = {} /\ c.sizes = {}
      /\ Len(past) \in Nat /\ MaxPast \in Nat /\ NoRows \in Rows
      /\ c.generation \in Nat /\ c.generation <= Len(past)
  BY SiteFields, LedgerFields, LocalDirtyAssumption DEF SiteInv, NoRows, Rows
<1> HIDE DEF l
<1>3. /\ LedgerInv(l) /\ l.inc = c.inc /\ l.generation = c.generation + 1
      /\ l.acknowledged = c.acknowledged /\ l.epoch = c.epoch + 1
      /\ l.dirty = {} /\ l.sizes = {} /\ l.baseline = TRUE
  BY <1>2, DeletedLedger DEF l
<1>4. l \in Ledgers
  BY <1>3 DEF LedgerInv
<1> HIDE DEF c
<1>5. /\ ledger'["catalog"] = l /\ ledger'["database"] = ledger["database"]
      /\ ledger' \in [database : Ledgers, catalog : Ledgers] /\ Current' = l
  BY <1>1, <1>4 DEF SiteInv, Current
<1>6. ledger["database"].inc \in Nat /\ ledger["database"].inc > 0
      /\ ledger["database"].generation \in Nat /\ ledger["database"].generation <= Len(past)
  BY LedgerFields DEF SiteInv
<1>7. \A i \in 1..Len(past) : past[i].inc = l.inc => past[i].generation < l.generation
  <2> SUFFICES ASSUME NEW i \in 1..Len(past), past[i].inc = l.inc
               PROVE  past[i].generation < l.generation
    OBVIOUS
  <2>1. past[i].generation <= c.generation /\ past[i].generation \in Nat
    BY <1>2, <1>3, PastFields DEF c
  <2> QED BY <1>2, <1>3, <2>1
<1>8. /\ PastInv' /\ Len(past') = Len(past) + 1 /\ past'[Len(past')] = Entry(l, NoRows)
      /\ \A i \in 1..Len(past) : past'[i] = past[i]
  <2>1. l.inc <= ledger'["database"].inc /\ ledger["database"].inc <= ledger'["database"].inc
        /\ l.inc # ledger["database"].inc /\ ledger'["database"].inc \in Nat
    BY <1>2, <1>3, <1>5, <1>6
  <2> QED BY <1>1, <1>2, <1>4, <1>5, <1>7, <2>1, PastGrows
<1>9. l.generation <= Len(past') /\ ledger["database"].generation <= Len(past')
  BY <1>2, <1>3, <1>6, <1>8
<1>10. SiteInv'
  BY <1>1, <1>2, <1>3, <1>4, <1>5, <1>8, <1>9 DEF SiteInv
<1> QED BY <1>1, <1>2, <1>3, <1>5, <1>8, <1>10 DEF Grown, c

(* The database is created again. *)
LEMMA SiteCreate ==
  ASSUME SiteInv, CreateDatabase
  PROVE  /\ SiteInv' /\ Grown
         /\ place = "catalog" /\ place' = "database" /\ rows' = NoRows
         /\ ledger'["catalog"] = ledger["catalog"]
         /\ ledger'["database"].inc = ledger["database"].inc + 1
         /\ ledger'["database"].baseline = TRUE
<1> DEFINE c == ledger["database"]
           l == Created(c.inc + 1)
<1>1. /\ place = "catalog" /\ Len(past) < MaxPast /\ rows' = NoRows /\ place' = "database"
      /\ past' = Append(past, Entry(l, NoRows)) /\ ledger' = [ledger EXCEPT !.database = l]
  BY Zenon DEF CreateDatabase, Committed
<1>2. /\ c \in Ledgers /\ c.inc \in Nat
      /\ Len(past) \in 1..MaxPast /\ MaxPast \in Nat /\ NoRows \in Rows
  BY SiteFields, LedgerFields, LocalDirtyAssumption DEF SiteInv, NoRows, Rows
<1> HIDE DEF l
<1>3. /\ LedgerInv(l) /\ l.inc = c.inc + 1 /\ l.generation = 1
      /\ ~l.deleted /\ l.baseline = TRUE /\ Describes(l, NoRows)
  <2> DEFINE n == c.inc + 1
  <2>1. n \in Nat
    BY <1>2
  <2> HIDE DEF n
  <2> QED BY <2>1, CreatedLedger DEF l, n
<1>4. l \in Ledgers
  BY <1>3 DEF LedgerInv
<1> HIDE DEF c
<1>5. /\ ledger'["database"] = l /\ ledger'["catalog"] = ledger["catalog"]
      /\ ledger' \in [database : Ledgers, catalog : Ledgers] /\ Current' = l
  BY <1>1, <1>4 DEF SiteInv, Current
<1>6. ledger["catalog"].inc = 0 /\ ledger["catalog"].generation \in Nat
      /\ ledger["catalog"].generation <= Len(past)
  BY LedgerFields DEF SiteInv
<1>7. \A i \in 1..Len(past) : past[i].inc = l.inc => past[i].generation < l.generation
  <2> SUFFICES ASSUME NEW i \in 1..Len(past), past[i].inc = l.inc
               PROVE  past[i].generation < l.generation
    OBVIOUS
  <2>1. past[i].inc <= c.inc /\ past[i].inc \in Nat
    BY PastFields DEF c
  <2> QED BY <1>2, <1>3, <2>1
<1>8. /\ PastInv' /\ Len(past') = Len(past) + 1 /\ past'[Len(past')] = Entry(l, NoRows)
      /\ \A i \in 1..Len(past) : past'[i] = past[i]
  <2>1. l.inc <= ledger'["database"].inc /\ ledger["database"].inc <= ledger'["database"].inc
        /\ l.inc # ledger["catalog"].inc /\ ledger'["database"].inc \in Nat
    BY <1>2, <1>3, <1>5, <1>6 DEF c
  <2> QED BY <1>1, <1>2, <1>4, <1>5, <1>7, <2>1, PastGrows
<1>9. l.generation <= Len(past') /\ ledger["catalog"].generation <= Len(past')
  BY <1>2, <1>3, <1>6, <1>8
<1>10. SiteInv'
  BY <1>1, <1>2, <1>3, <1>4, <1>5, <1>8, <1>9 DEF SiteInv
<1> QED BY <1>1, <1>2, <1>3, <1>5, <1>8, <1>10 DEF Grown, c

-----------------------------------------------------------------------------
(* A capture and the cloud while the website goes on. *)

(* A slice of garbage is collected. *)
LEMMA SiteCollect ==
  ASSUME SiteInv, ledger' = [ledger EXCEPT ![place] = Collected(@)],
         UNCHANGED <<rows, place, past>>,
         NEW r, r = Collected(Current)
  PROVE  /\ SiteInv' /\ ledger'[place'] = r /\ LedgerInv(r)
         /\ \A p \in {"database", "catalog"} : p # place => ledger'[p] = ledger[p]
         /\ ledger'["database"].inc = ledger["database"].inc
         /\ r.inc = Current.inc /\ r.generation = Current.generation
         /\ r.acknowledged = Current.acknowledged
         /\ r.epoch = Current.epoch /\ r.baseline = Current.baseline
         /\ r.dirty \subseteq Current.dirty
         /\ \A m \in Current.dirty :
              m.epoch = Current.epoch /\ m.generation > Current.acknowledged => m \in r.dirty
<1>1. place \in {"database", "catalog"} /\ LedgerInv(Current) /\ Current \in Ledgers
  BY SiteFields
<1>2. ledger' = [ledger EXCEPT ![place] = r]
  BY DEF Current
<1>3. /\ LedgerInv(r)
      /\ r.inc = Current.inc /\ r.generation = Current.generation
      /\ r.acknowledged = Current.acknowledged
      /\ r.epoch = Current.epoch /\ r.storeEpoch = Current.storeEpoch
      /\ r.baseline = Current.baseline /\ r.deleted = Current.deleted
      /\ r.dirty \subseteq Current.dirty /\ r.sizes \subseteq Current.sizes
      /\ \A m \in Current.dirty : ~GarbageMarker(Current, m) => m \in r.dirty
      /\ \A s \in Current.sizes : ~GarbageSize(Current, s) => s \in r.sizes
  BY <1>1, CollectedLedger
<1>4. r.acknowledged >= Current.acknowledged /\ (r.baseline \/ ~Current.baseline)
  BY <1>1, <1>3, LedgerFields
<1>5. /\ SiteInv' /\ ledger'[place'] = r
      /\ \A p \in {"database", "catalog"} : p # place => ledger'[p] = ledger[p]
      /\ ledger'["database"].inc = ledger["database"].inc
  BY <1>2, <1>3, <1>4, SiteKept
<1>6. ASSUME NEW m \in Current.dirty, m.epoch = Current.epoch,
             m.generation > Current.acknowledged
      PROVE  m \in r.dirty
  <2>1. m \in Marker /\ Current.acknowledged \in Nat /\ Current.epoch \in Nat
    BY <1>1, LedgerFields
  <2>2. ~GarbageMarker(Current, m)
    BY <1>6, <2>1 DEF GarbageMarker, Marker
  <2> QED BY <1>3, <2>2
<1> QED BY <1>3, <1>5, <1>6

-----------------------------------------------------------------------------
(* The types of the fields of a job. *)
LEMMA JobFields ==
  ASSUME SpoolTypeOK, job # NoJob
  PROVE  /\ job \in Jobs
         /\ job.version \in Versions /\ job.parent \in Names /\ job.version # None
         /\ job.initial[1] \in Nat /\ job.initial[2] \in Nat /\ job.initial[3] \in Nat
         /\ job.initial[4] \in BOOLEAN /\ job.baseline \in BOOLEAN
         /\ job.kind \in {"baseline", "changes"} /\ job.phase \in Phases
         /\ job.after \in Nat /\ job.target \in Nat /\ job.pass \in Nat
         /\ job.cursor \in Nat /\ job.records \in [Keys -> 0..Unread]
         /\ job.invalidated \in BOOLEAN
<1>1. job \in Jobs
  BY DEF SpoolTypeOK
<1>2. job.initial \in Nat \X Nat \X Nat \X BOOLEAN \X Nat /\ job.version \in Versions
  BY <1>1 DEF Jobs
<1>3. job.version # None
  BY <1>2, CaptureAssumption DEF None
<1> QED BY <1>1, <1>2, <1>3 DEF Jobs

(* What the capture knows depends on these alone. *)
JobUnchanged ==
  /\ job'.version = job.version /\ job'.parent = job.parent
  /\ job'.initial = job.initial /\ job'.baseline = job.baseline
  /\ job'.kind = job.kind /\ job'.phase = job.phase /\ job'.after = job.after
  /\ job'.target = job.target /\ job'.cursor = job.cursor
  /\ job'.records = job.records

CloudUnchanged ==
  /\ cloud'.checkpoint = cloud.checkpoint /\ cloud'.rows = cloud.rows
  /\ cloud'.moment = cloud.moment
  /\ head'.checkpoint = head.checkpoint /\ head'.inc = head.inc

(* A job stands while neither the website nor the cloud changes. *)
LEMMA JobStays ==
  ASSUME JobInv, UNCHANGED site, CloudUnchanged,
         job' = NoJob \/ (job # NoJob /\ JobUnchanged)
  PROVE  JobInv'
<1>1. CASE job' = NoJob
  BY <1>1 DEF JobInv
<1>2. CASE job # NoJob /\ JobUnchanged
  <2>1. JobBounds /\ Replacing /\ OwnLedger /\ CursorInv /\ CaptureInv /\ SealedInv
    BY <1>2 DEF JobInv
  <2> USE <1>2 DEF JobUnchanged, CloudUnchanged, site
  <2>2. Current' = Current
    BY DEF Current
  <2>3. JobPublished' <=> JobPublished
    BY DEF JobPublished
  <2>4. \A k : Captured(k)' = Captured(k)
    BY <2>3 DEF Captured
  <2>5. /\ Reading' <=> Reading
        /\ Sealed' <=> Sealed
        /\ InStep' <=> InStep
    BY <2>2 DEF Reading, Sealed, InStep
  <2>6. \A k : /\ LeftFor(k)' <=> LeftFor(k)
               /\ Marks(Current, k, job.target)' <=> Marks(Current, k, job.target)
    BY <2>2 DEF LeftFor, Marks, MarkerIndex
  <2>7. JobBounds'
    BY <2>1, <2>3 DEF JobBounds
  <2>8. Replacing'
    BY <2>1, <2>2 DEF Replacing
  <2>9. OwnLedger'
    BY <2>1, <2>3 DEF OwnLedger
  <2>10. CursorInv'
    BY <2>1, <2>5 DEF CursorInv
  <2>11. CaptureInv'
    BY <2>1, <2>2, <2>4, <2>5, <2>6 DEF CaptureInv
  <2>12. SealedInv'
    BY <2>1, <2>3, <2>4, <2>5 DEF SealedInv
  <2> QED BY <2>7, <2>8, <2>9, <2>10, <2>11, <2>12 DEF JobInv
<1> QED BY <1>1, <1>2

(* An incarnation names one ledger. *)
LEMMA CurrentOf ==
  ASSUME SiteInv, NEW p \in {"database", "catalog"}, ledger[p].inc = Current.inc
  PROVE  p = place /\ ledger[p] = Current
<1>1. /\ place \in {"database", "catalog"} /\ ledger["catalog"].inc = 0
      /\ ledger["database"].inc > 0 /\ ledger["database"].inc \in Nat
  BY SiteFields, LedgerFields DEF SiteInv
<1>2. Current = ledger[place]
  BY DEF Current
<1>3. CASE p = "database"
  BY <1>1, <1>2, <1>3
<1>4. CASE p = "catalog"
  BY <1>1, <1>2, <1>4
<1> QED BY <1>3, <1>4

(* The ledger alone changes: collected, or acknowledged up to the job's    *)
(* own cut.                                                                *)
LEMMA JobKept ==
  ASSUME SiteInv, SpoolTypeOK, job # NoJob, JobInv,
         NEW r, LedgerInv(r), ledger'[place'] = r,
         UNCHANGED <<rows, place, past, job, cloud, head>>,
         \A p \in {"database", "catalog"} : p # place => ledger'[p] = ledger[p],
         ledger'["database"].inc = ledger["database"].inc,
         r.inc = Current.inc, r.generation = Current.generation, r.epoch = Current.epoch,
         r.dirty \subseteq Current.dirty,
         \A m \in Current.dirty :
           m.epoch = Current.epoch /\ m.generation > r.acknowledged => m \in r.dirty,
         r.baseline => Current.baseline,
         Current.baseline => r.baseline
           \/ (Current.inc = job.initial[1] /\ Current.epoch = job.initial[3]),
         \/ r.acknowledged = Current.acknowledged
         \/ JobPublished /\ Current.inc = job.initial[1] /\ r.acknowledged <= job.target
  PROVE  JobInv'
<1>1. JobBounds /\ Replacing /\ OwnLedger /\ CursorInv /\ CaptureInv /\ SealedInv
  BY DEF JobInv
<1>2. Current' = r /\ Current \in Ledgers /\ r \in Ledgers /\ place \in {"database", "catalog"}
  BY SiteFields DEF Current, LedgerInv
<1>3. JobPublished' <=> JobPublished
  BY DEF JobPublished
<1>4. \A k : Captured(k)' = Captured(k)
  BY <1>3 DEF Captured
<1>5. /\ Reading' <=> Reading
      /\ Sealed' <=> Sealed
      /\ InStep' <=> InStep
  BY <1>2 DEF Reading, Sealed, InStep
<1>6. JobBounds'
  BY <1>1, <1>3 DEF JobBounds
<1>7. Replacing'
  BY <1>1, <1>2 DEF Replacing
<1>8. OwnLedger'
  <2> SUFFICES ASSUME NEW p \in {"database", "catalog"}, ledger'[p].inc = job.initial[1]
               PROVE  /\ ledger'[p].generation >= job.target /\ ledger'[p].acknowledged <= job.target
                      /\ ledger'[p].epoch >= job.initial[3]
                      /\ ledger'[p].epoch > job.initial[3] => ledger'[p].baseline
                      /\ ~JobPublished => ledger'[p].acknowledged <= job.after
    BY <1>3 DEF OwnLedger
  <2>1. CASE p # place
    BY <1>1, <2>1 DEF OwnLedger
  <2>2. CASE p = place
    <3>1. ledger'[p] = r /\ ledger[p] = Current /\ Current.inc = job.initial[1]
      BY <1>2, <2>2 DEF Current
    <3>2. /\ Current.generation >= job.target /\ Current.acknowledged <= job.target
          /\ Current.epoch >= job.initial[3]
          /\ Current.epoch > job.initial[3] => Current.baseline
          /\ ~JobPublished => Current.acknowledged <= job.after
      BY <1>1, <3>1 DEF OwnLedger
    <3>3. r.epoch > job.initial[3] => r.baseline
      BY <1>2, <3>2, JobFields, LedgerFields
    <3> QED BY <3>1, <3>2, <3>3
  <2> QED BY <2>1, <2>2
<1>9. CursorInv'
  BY <1>1, <1>5 DEF CursorInv
<1>10. ASSUME InStep
       PROVE  /\ \A k : Marks(Current, k, job.target) => Marks(r, k, job.target)
              /\ \A k : Reading /\ LeftFor(k) => LeftFor(k)'
  <2>1. Current.inc = job.initial[1]
    BY <1>10 DEF InStep
  <2>2. /\ Current.acknowledged <= job.target
        /\ ~JobPublished => Current.acknowledged <= job.after
    BY <1>1, <1>2, <2>1 DEF OwnLedger, Current
  <2>3. r.acknowledged <= job.target /\ (~JobPublished => r.acknowledged <= job.after)
    BY <2>2
  <2>4. Reading => ~JobPublished
    BY <1>1 DEF JobBounds, Reading
  <2>5. /\ r.acknowledged \in Nat /\ job.target \in Nat /\ job.after \in Nat
        /\ \A m \in Current.dirty : m.generation \in Nat
    BY <1>2, JobFields, LedgerFields DEF Marker
  <2>6. \A k : Marks(Current, k, job.target) => Marks(r, k, job.target)
    BY <2>3, <2>5 DEF Marks
  <2>7. \A m \in Current.dirty :
          Reading /\ m.epoch = Current.epoch /\ m.generation > job.after => m \in r.dirty
    BY <2>3, <2>4, <2>5
  <2>8. \A k : Reading /\ LeftFor(k) => LeftFor(k)'
    BY <1>2, <2>7 DEF LeftFor, MarkerIndex
  <2> QED BY <2>6, <2>8
<1>11. CaptureInv'
  <2> SUFFICES ASSUME InStep PROVE CaptureInv'
    BY <1>5 DEF CaptureInv
  <2> QED BY <1>1, <1>2, <1>4, <1>5, <1>10 DEF CaptureInv
<1>12. SealedInv'
  BY <1>1, <1>3, <1>4, <1>5 DEF SealedInv
<1> QED BY <1>6, <1>7, <1>8, <1>9, <1>11, <1>12 DEF JobInv

(* A committed state is added; what was sealed stays sealed. *)
LEMMA SealedStays ==
  ASSUME SiteInv, JobInv, job # NoJob, Grown, UNCHANGED <<job, cloud>>
  PROVE  SealedInv'
<1>1. SealedInv
  BY DEF JobInv
<1>2. JobPublished' <=> JobPublished
  BY DEF JobPublished
<1>3. \A k : Captured(k)' = Captured(k)
  BY <1>2 DEF Captured
<1>4. Sealed' <=> Sealed
  BY DEF Sealed
<1>5. Len(past) \in Nat /\ Len(past') = Len(past) + 1
      /\ \A i \in 1..Len(past) : i \in 1..Len(past') /\ past'[i] = past[i]
  BY SiteFields DEF Grown
<1> QED BY <1>1, <1>2, <1>3, <1>4, <1>5 DEF SealedInv

(* The website is deleted or created: the capture is out of step. *)
LEMMA JobMoved ==
  ASSUME SiteInv, SpoolTypeOK, job # NoJob, JobInv, SiteInv', Grown,
         UNCHANGED <<job, cloud, head>>,
         Current'.baseline = TRUE,
         ledger["database"].inc <= ledger'["database"].inc,
         ~InStep', OwnLedger'
  PROVE  JobInv'
<1>1. JobBounds /\ CursorInv
  BY DEF JobInv
<1>2. JobPublished' <=> JobPublished
  BY DEF JobPublished
<1>3. Len(past) \in Nat /\ Len(past') = Len(past) + 1
  BY SiteFields DEF Grown
<1>4. ledger["database"].inc \in Nat /\ ledger'["database"].inc \in Nat
      /\ job.initial[1] \in Nat
  BY JobFields, LedgerFields DEF SiteInv, LedgerInv
<1>5. cloud.moment \in Nat
  BY DEF SpoolTypeOK, Clouds
<1>6. JobBounds'
  BY <1>1, <1>2, <1>3, <1>4, <1>5 DEF JobBounds
<1>7. Replacing'
  BY DEF Replacing
<1>8. CursorInv'
  BY <1>1 DEF CursorInv, Reading
<1>9. CaptureInv'
  BY DEF CaptureInv
<1> QED BY <1>6, <1>7, <1>8, <1>9, SealedStays DEF JobInv

(* The order of the changes is that of epoch, generation and key. *)
LEMMA IndexOrder ==
  ASSUME NEW e \in Nat, NEW f \in Nat, NEW g \in 0..MaxPast, NEW h \in 0..MaxPast,
         NEW k \in 0..LastKey, NEW j \in 0..LastKey
  PROVE  /\ IndexAt(e, g, k) \in Nat
         /\ k > 0 => IndexAt(e, g, k) > 0
         /\ IndexAt(e, g, k) > IndexAt(f, h, j) <=>
              e > f \/ (e = f /\ (g > h \/ (g = h /\ k > j)))
<1> DEFINE M == MaxPast + 1
           N == LastKey + 1
<1>1. /\ M \in Nat \ {0} /\ N \in Nat \ {0} /\ g \in 0..(M - 1) /\ h \in 0..(M - 1)
      /\ k \in 0..(N - 1) /\ j \in 0..(N - 1)
  BY LocalDirtyAssumption
<1> HIDE DEF M, N
<1> DEFINE a == e * M + g
           b == f * M + h
<1>2. a \in Nat /\ b \in Nat
  BY <1>1
<1>3. /\ a > b <=> e > f \/ (e = f /\ g > h)
      /\ b > a <=> f > e \/ (f = e /\ h > g)
  BY <1>1, Lexical
<1>4. a = b <=> e = f /\ g = h
  BY <1>1, <1>2, <1>3
<1> HIDE DEF a, b
<1>5. a * N + k > b * N + j <=> a > b \/ (a = b /\ k > j)
  BY <1>1, <1>2, Lexical
<1>6. IndexAt(e, g, k) = a * N + k /\ IndexAt(f, h, j) = b * N + j
  BY DEF IndexAt, a, b, M, N
<1>7. a * N \in Nat
  BY <1>1, <1>2
<1>8. a * N + k \in Nat /\ (k > 0 => a * N + k > 0)
  BY <1>1, <1>7
<1> QED BY <1>3, <1>4, <1>5, <1>6, <1>8

(* A capture in step: its bounds are generations of the current ledger. *)
LEMMA StepBounds ==
  ASSUME SiteInv, SpoolTypeOK, job # NoJob, JobBounds, OwnLedger, InStep
  PROVE  /\ job.after \in 0..MaxPast /\ job.target \in 0..MaxPast
         /\ Current.generation \in 0..MaxPast /\ job.after <= job.target
         /\ Current.generation >= job.target /\ Current.acknowledged <= job.target
         /\ ~JobPublished => Current.acknowledged <= job.after
         /\ Current.epoch = job.initial[3] /\ Current.inc = job.initial[1]
         /\ \A m \in Current.dirty :
              /\ m \in Marker /\ m.generation \in 0..MaxPast /\ m.key \in 1..LastKey
              /\ m.epoch \in Nat /\ m.generation <= Current.generation
<1>1. /\ place \in {"database", "catalog"} /\ Current \in Ledgers /\ Current.generation \in Nat
      /\ LedgerInv(Current) /\ Len(past) \in 1..MaxPast /\ MaxPast \in Nat
      /\ Current.dirty \subseteq Marker /\ LastKey \in Nat
  BY SiteFields, LedgerFields, LocalDirtyAssumption
<1>2. Current.inc = job.initial[1] /\ Current.epoch = job.initial[3]
  BY DEF InStep
<1>3. /\ Current.generation >= job.target /\ Current.acknowledged <= job.target
      /\ ~JobPublished => Current.acknowledged <= job.after
  BY <1>1, <1>2 DEF OwnLedger, Current
<1>4. Current.generation <= Len(past)
  BY <1>1 DEF SiteInv, Current
<1>5. job.after \in Nat /\ job.target \in Nat /\ job.after <= job.target
  BY JobFields DEF JobBounds
<1>6. ASSUME NEW m \in Current.dirty
      PROVE  /\ m \in Marker /\ m.generation \in 0..MaxPast /\ m.key \in 1..LastKey
             /\ m.epoch \in Nat /\ m.generation <= Current.generation
  <2>1. m \in Marker /\ m.generation <= Current.generation
    BY <1>1 DEF LedgerInv, MarkersInv
  <2> QED BY <1>1, <1>4, <2>1 DEF Marker, Keys
<1> QED BY <1>1, <1>2, <1>3, <1>4, <1>5, <1>6

(* The website writes while a capture reads. *)
LEMMA JobWritten ==
  ASSUME SiteInv, SpoolTypeOK, job # NoJob, JobInv, SiteInv', Grown,
         UNCHANGED <<job, cloud, head>>,
         place = "database", place' = "database",
         ledger'["catalog"] = ledger["catalog"],
         ledger'["database"].inc = ledger["database"].inc,
         Along(Begun(Current), rows, Current', rows')
  PROVE  JobInv'
<1> DEFINE l == Current
           r == Current'
<1>1. JobBounds /\ Replacing /\ OwnLedger /\ CursorInv /\ CaptureInv
  BY DEF JobInv
<1>2. /\ l = ledger["database"] /\ r = ledger'["database"]
      /\ LedgerInv(l) /\ l \in Ledgers /\ r \in Ledgers /\ r.inc = l.inc
      /\ l.generation \in Nat /\ l.epoch \in Nat /\ r.epoch \in Nat /\ l.acknowledged \in Nat
      /\ LedgerInv(r)
  <2>1. l = ledger["database"] /\ r = ledger'["database"]
    BY DEF Current
  <2>2. LedgerInv(l) /\ LedgerInv(r) /\ l \in Ledgers /\ r \in Ledgers
    BY <2>1 DEF SiteInv, LedgerInv
  <2> QED BY <2>1, <2>2, LedgerFields
<1> HIDE DEF l, r
<1>3. /\ r.generation = l.generation + 1 /\ r.acknowledged = l.acknowledged
      /\ r.epoch >= l.epoch
      /\ r.epoch > l.epoch => r.baseline
      /\ r.epoch = l.epoch =>
           /\ r.baseline = l.baseline
           /\ \A k \in Keys : rows'[k] # rows[k] =>
                \E n \in r.dirty : n.epoch = r.epoch /\ n.key = k /\ n.generation = r.generation
           /\ \A m \in l.dirty : m.epoch = l.epoch =>
                \/ m \in r.dirty
                \/ \E n \in r.dirty :
                     n.epoch = r.epoch /\ n.key = m.key /\ n.generation = r.generation
  <2> DEFINE b == Begun(l)
  <2>1. /\ b.generation = l.generation + 1 /\ b.acknowledged = l.acknowledged
        /\ b.epoch = l.epoch /\ b.baseline = l.baseline /\ b.dirty = l.dirty
    BY <1>2, Bumped
  <2>2. Along(b, rows, r, rows')
    BY DEF l, r
  <2> HIDE DEF b
  <2> QED BY <2>1, <2>2 DEF Along
<1>35. (l.baseline => r.baseline) /\ (r.epoch > l.epoch => r.baseline)
  <2>1. r.epoch > l.epoch \/ r.epoch = l.epoch
    BY <1>2, <1>3
  <2>2. CASE r.epoch > l.epoch
    BY <1>3, <2>2
  <2>3. CASE r.epoch = l.epoch
    <3>1. r.baseline = l.baseline /\ l.epoch \in Nat
      BY <1>2, <1>3, <2>3
    <3> QED BY <1>3, <3>1
  <2> QED BY <2>1, <2>2, <2>3
<1>4. JobPublished' <=> JobPublished
  BY DEF JobPublished
<1>5. \A k : Captured(k)' = Captured(k)
  BY <1>4 DEF Captured
<1>6. Reading' <=> Reading
  BY DEF Reading
<1>7. Len(past) \in Nat /\ Len(past') = Len(past) + 1 /\ cloud.moment \in Nat
      /\ job.target \in Nat /\ job.after \in Nat /\ job.initial[3] \in Nat
  BY SiteFields, JobFields DEF Grown, SpoolTypeOK, Clouds
<1>8. JobBounds'
  BY <1>1, <1>4, <1>7 DEF JobBounds
<1>9. Replacing'
  <2> QED BY <1>1, <1>2, <1>35 DEF Replacing, l, r
<1>10. OwnLedger'
  <2> SUFFICES ASSUME NEW p \in {"database", "catalog"}, ledger'[p].inc = job.initial[1]
               PROVE  /\ ledger'[p].generation >= job.target /\ ledger'[p].acknowledged <= job.target
                      /\ ledger'[p].epoch >= job.initial[3]
                      /\ ledger'[p].epoch > job.initial[3] => ledger'[p].baseline
                      /\ ~JobPublished => ledger'[p].acknowledged <= job.after
    BY <1>4 DEF OwnLedger
  <2>1. CASE p = "catalog"
    BY <1>1, <2>1 DEF OwnLedger
  <2>2. CASE p = "database"
    <3>1. /\ l.generation >= job.target /\ l.acknowledged <= job.target
          /\ l.epoch >= job.initial[3]
          /\ l.epoch > job.initial[3] => l.baseline
          /\ ~JobPublished => l.acknowledged <= job.after
      BY <1>1, <1>2, <2>2 DEF OwnLedger
    <3>2. /\ r.generation >= job.target /\ r.acknowledged <= job.target
          /\ r.epoch >= job.initial[3]
          /\ r.epoch > job.initial[3] => r.baseline
          /\ ~JobPublished => r.acknowledged <= job.after
      <4>1. /\ r.generation >= job.target /\ r.acknowledged <= job.target
            /\ r.epoch >= job.initial[3]
            /\ ~JobPublished => r.acknowledged <= job.after
        BY <1>2, <1>3, <1>7, <3>1
      <4>2. r.epoch > job.initial[3] => r.epoch > l.epoch \/ l.epoch > job.initial[3]
        BY <1>2, <1>7
      <4> QED BY <1>35, <3>1, <4>1, <4>2
    <3> QED BY <1>2, <2>2, <3>2
  <2> QED BY <2>1, <2>2
<1>11. ASSUME InStep' PROVE InStep /\ r.epoch = l.epoch
  <2>1. l.inc = job.initial[1] /\ r.epoch = job.initial[3]
    BY <1>2, <1>11 DEF InStep, r
  <2>2. l.epoch >= job.initial[3]
    BY <1>1, <1>2, <2>1 DEF OwnLedger
  <2>3. l.epoch = job.initial[3]
    BY <1>2, <1>3, <1>7, <2>1, <2>2
  <2> QED BY <2>1, <2>3 DEF InStep, l
<1>12. CursorInv'
  BY <1>1, <1>6, <1>11 DEF CursorInv
<1>13. CaptureInv'
  <2> SUFFICES ASSUME InStep' PROVE CaptureInv'
    BY DEF CaptureInv
  <2>1. InStep /\ r.epoch = l.epoch
    BY <1>11
  <2>2. /\ job.after \in 0..MaxPast /\ job.target \in 0..MaxPast
        /\ job.after <= job.target /\ l.generation >= job.target
        /\ l.epoch = job.initial[3]
        /\ \A m \in l.dirty :
             /\ m \in Marker /\ m.generation \in Nat /\ m.generation <= l.generation
    BY <1>1, <2>1, StepBounds DEF l
  <2>3. r.generation > job.target /\ r.generation > job.after
        /\ \A m \in l.dirty : r.generation > m.generation
    BY <1>2, <1>3, <1>7, <2>2
  <2>4. \A k \in Keys : Marks(l, k, job.target) => Marks(r, k, job.target)
    <3> SUFFICES ASSUME NEW k \in Keys,
                        NEW m \in l.dirty, m.epoch = l.epoch, m.key = k, m.generation > job.target
                 PROVE  \E n \in r.dirty : n.epoch = r.epoch /\ n.key = k /\ n.generation > job.target
      BY DEF Marks
    <3> QED BY <1>3, <2>1, <2>3
  <2>5. \A k \in Keys : rows'[k] # rows[k] => Marks(r, k, job.target)
    BY <1>3, <2>1, <2>3 DEF Marks
  <2>6. ASSUME Reading, job.kind = "changes",
               NEW n \in r.dirty, n.epoch = r.epoch, n.generation = r.generation
        PROVE  MarkerIndex(n) > job.cursor
    <3>1. /\ n \in Marker /\ n.generation \in 0..MaxPast /\ n.key \in 1..LastKey
          /\ LastKey \in Nat
      <4>1. r.generation <= Len(past') /\ Len(past') <= MaxPast /\ n \in Marker
        BY <1>2, LedgerFields DEF SiteInv, PastInv
      <4> QED BY <2>6, <4>1, LocalDirtyAssumption DEF Marker, Keys
    <3>2. MarkerIndex(n) = IndexAt(l.epoch, n.generation, n.key)
      BY <2>1, <2>6 DEF MarkerIndex
    <3>3. CASE job.cursor = 0
      <4>1. n.key \in 0..LastKey /\ n.key > 0
        BY <3>1
      <4>2. IndexAt(l.epoch, n.generation, n.key) > 0
        BY <1>2, <3>1, <4>1, IndexOrder
      <4> QED BY <3>2, <3>3, <4>2
    <3>4. CASE job.cursor # 0
      <4>1. job.cursor <= IndexAt(l.epoch, job.target, LastKey) /\ job.cursor \in Nat
        BY <1>1, <2>1, <2>2, <2>6, <3>4, JobFields DEF CursorInv
      <4>2. /\ IndexAt(l.epoch, n.generation, n.key) > IndexAt(l.epoch, job.target, LastKey)
            /\ IndexAt(l.epoch, n.generation, n.key) \in Nat
            /\ IndexAt(l.epoch, job.target, LastKey) \in Nat
        <5>1. LastKey \in 0..LastKey /\ n.key \in 0..LastKey /\ n.generation > job.target
          BY <2>3, <2>6, <3>1
        <5> QED BY <1>2, <2>2, <3>1, <5>1, IndexOrder
      <4> QED BY <3>2, <4>1, <4>2
    <3> QED BY <3>3, <3>4
  <2>7. ASSUME Reading, job.kind = "changes", NEW k \in Keys,
               NEW n \in r.dirty, n.epoch = r.epoch, n.generation = r.generation, n.key = k
        PROVE  LeftFor(k)'
    <3>1. MarkerIndex(n) > job.cursor /\ MarkerIndex(n)' = MarkerIndex(n)
      BY <2>6, <2>7 DEF MarkerIndex
    <3> QED BY <2>3, <2>7, <3>1 DEF LeftFor, MarkerIndex, r
  <2>8. ASSUME Reading, job.kind = "changes", NEW k \in Keys, LeftFor(k) \/ rows'[k] # rows[k]
        PROVE  LeftFor(k)'
    <3>1. CASE rows'[k] # rows[k]
      <4>1. PICK n \in r.dirty : n.epoch = r.epoch /\ n.key = k /\ n.generation = r.generation
        BY <1>3, <2>1, <3>1
      <4> QED BY <2>7, <2>8, <4>1
    <3>2. CASE LeftFor(k)
      <4>1. PICK m \in l.dirty : /\ m.epoch = l.epoch /\ m.key = k
                                 /\ m.generation > job.after /\ MarkerIndex(m) > job.cursor
        BY <3>2 DEF LeftFor, l
      <4>2. CASE m \in r.dirty
        BY <2>1, <4>1, <4>2 DEF LeftFor, MarkerIndex, r
      <4>3. CASE \E n \in r.dirty : n.epoch = r.epoch /\ n.key = m.key /\ n.generation = r.generation
        BY <2>7, <2>8, <4>1, <4>3
      <4> QED BY <1>3, <2>1, <4>1, <4>2, <4>3
    <3> QED BY <2>8, <3>1, <3>2
  <2>9. Marks(Current, 0, 0)' <=> Marks(r, 0, 0)
    BY DEF r
  <2>10. \A k : Marks(Current, k, job.target)' <=> Marks(r, k, job.target)
    BY DEF r, Marks
  <2>11. \A k : Marks(Current, k, job.target) <=> Marks(l, k, job.target)
    BY DEF l
  <2>12. CASE Reading /\ job.kind = "baseline"
    BY <1>1, <1>5, <1>6, <2>1, <2>4, <2>5, <2>10, <2>11, <2>12 DEF CaptureInv
  <2>13. CASE Reading /\ job.kind = "changes"
    BY <1>1, <1>5, <1>6, <2>1, <2>8, <2>13 DEF CaptureInv
  <2>14. CASE ~Reading
    BY <1>1, <1>5, <1>6, <2>1, <2>4, <2>5, <2>10, <2>11, <2>14 DEF CaptureInv
  <2> QED BY <2>12, <2>13, <2>14, JobFields
<1> QED BY <1>8, <1>9, <1>10, <1>12, <1>13, SealedStays DEF JobInv

(* The types of what the server keeps, and of the head. *)
LEMMA CloudFields ==
  ASSUME SpoolTypeOK
  PROVE  /\ cloud.sequence \in Nat /\ cloud.checkpoint \in Names /\ cloud.rows \in Rows
         /\ cloud.moment \in Nat
         /\ head.sequence \in Nat /\ head.checkpoint \in Names /\ head.inc \in Nat
  BY DEF SpoolTypeOK, Clouds, Heads

(* A committed state is added: the cloud's moment is as it was. *)
LEMMA CloudGrows ==
  ASSUME SiteInv, SpoolTypeOK, CloudInv, Grown, UNCHANGED <<cloud, head>>
  PROVE  /\ CloudShape' /\ CloudNewest'
         /\ cloud.moment > 0 => past'[cloud.moment] = past[cloud.moment]
<1>1. cloud.moment \in Nat /\ cloud.moment <= Len(past) /\ Len(past) \in Nat
  BY SiteFields, CloudFields DEF CloudInv, CloudShape
<1>2. Len(past') = Len(past) + 1 /\ \A i \in 1..Len(past) : past'[i] = past[i]
  BY DEF Grown
<1>3. cloud.moment > 0 => past'[cloud.moment] = past[cloud.moment]
  BY <1>1, <1>2
<1>4. CloudShape'
  BY <1>1, <1>2, <1>3 DEF CloudInv, CloudShape
<1>5. CloudNewest'
  BY <1>1, <1>2 DEF CloudNewest
<1> QED BY <1>3, <1>4, <1>5

(* What differs from the cloud is still marked after a transaction. *)
LEMMA CloudWritten ==
  ASSUME SiteInv, SpoolTypeOK, CloudInv, SiteInv', Grown,
         UNCHANGED <<cloud, head>>,
         Along(Begun(Current), rows, Current', rows')
  PROVE  CloudInv'
<1> DEFINE l == Current
           r == Current'
           b == Begun(l)
<1>1. CloudMarked /\ LedgerInv(l) /\ l \in Ledgers
  BY SiteFields DEF CloudInv
<1>2. /\ b.generation = l.generation + 1 /\ b.acknowledged = l.acknowledged
      /\ b.epoch = l.epoch /\ b.baseline = l.baseline /\ b.dirty = l.dirty /\ b.inc = l.inc
      /\ l.generation \in Nat /\ l.acknowledged \in Nat /\ l.epoch \in Nat
      /\ l.acknowledged <= l.generation
  BY <1>1, Bumped, LedgerFields DEF LedgerInv
<1>3. Along(b, rows, r, rows')
  OBVIOUS
<1> HIDE DEF l, r, b
<1>4. /\ r.inc = l.inc /\ r.generation = l.generation + 1 /\ r.acknowledged = l.acknowledged
      /\ r.epoch >= l.epoch /\ r \in Ledgers
      /\ r.epoch > l.epoch => r.baseline
      /\ r.epoch = l.epoch =>
           /\ r.baseline = l.baseline
           /\ \A k \in Keys : rows'[k] # rows[k] =>
                \E n \in r.dirty : n.epoch = r.epoch /\ n.key = k /\ n.generation = r.generation
           /\ \A m \in l.dirty : m.epoch = l.epoch =>
                \/ m \in r.dirty
                \/ \E n \in r.dirty :
                     n.epoch = r.epoch /\ n.key = m.key /\ n.generation = r.generation
  BY <1>2, <1>3 DEF Along, LedgerInv
<1>5. cloud.moment > 0 => past'[cloud.moment] = past[cloud.moment]
  BY CloudGrows
<1>6. ASSUME cloud.moment > 0, r.inc = past'[cloud.moment].inc
      PROVE  \/ r.baseline
             \/ \A k \in Keys : rows'[k] # cloud.rows[k] => Marks(r, k, r.acknowledged)
  <2>1. CASE r.epoch > l.epoch
    BY <1>4, <2>1
  <2>2. CASE r.epoch = l.epoch
    <3>1. CASE l.baseline
      BY <1>4, <2>2, <3>1
    <3>2. CASE ~l.baseline
      <4>1. \A k \in Keys : rows[k] # cloud.rows[k] => Marks(l, k, l.acknowledged)
        BY <1>1, <1>4, <1>5, <1>6, <3>2 DEF CloudMarked, l
      <4>2. r.generation > l.acknowledged
        BY <1>2, <1>4
      <4>3. ASSUME NEW k \in Keys, rows'[k] # cloud.rows[k]
            PROVE  Marks(r, k, r.acknowledged)
        <5>1. CASE rows'[k] # rows[k]
          BY <1>4, <2>2, <4>2, <5>1 DEF Marks
        <5>2. CASE rows'[k] = rows[k]
          <6>1. PICK m \in l.dirty : m.epoch = l.epoch /\ m.key = k /\ m.generation > l.acknowledged
            BY <4>1, <4>3, <5>2 DEF Marks
          <6> QED BY <1>4, <2>2, <4>2, <6>1 DEF Marks
        <5> QED BY <5>1, <5>2
      <4> QED BY <4>3
    <3> QED BY <3>1, <3>2
  <2>3. r.epoch \in Nat
    BY <1>4, LedgerFields
  <2> QED BY <1>2, <1>4, <2>1, <2>2, <2>3
<1>7. CloudMarked'
  <2>1. \A k : Marks(Current, k, Current.acknowledged)' <=> Marks(r, k, r.acknowledged)
    BY DEF Marks, r
  <2> QED BY <1>6, <2>1 DEF CloudMarked, r
<1> QED BY <1>7, CloudGrows DEF CloudInv

(* Nothing is forgotten where a baseline is due. *)
LEMMA CloudMoved ==
  ASSUME SiteInv, SpoolTypeOK, CloudInv, Grown, UNCHANGED <<cloud, head>>,
         Current'.baseline = TRUE
  PROVE  CloudInv'
<1>1. CloudMarked'
  BY DEF CloudMarked
<1> QED BY <1>1, CloudGrows DEF CloudInv

(* A collection takes away no marker that is still needed. *)
LEMMA CloudCollected ==
  ASSUME SiteInv, CloudInv, NEW r, ledger'[place'] = r,
         UNCHANGED <<rows, place, past, cloud, head, prepared>>,
         actor'.step \in {"sweep", "finish"} => actor.step \in {"sweep", "finish"},
         r.inc = Current.inc, r.generation = Current.generation,
         r.acknowledged = Current.acknowledged,
         r.epoch = Current.epoch, r.baseline = Current.baseline,
         \A m \in Current.dirty :
           m.epoch = Current.epoch /\ m.generation > Current.acknowledged => m \in r.dirty
  PROVE  CloudInv'
<1>1. Current' = r
  BY DEF Current
<1>2. CloudShape'
  BY DEF CloudInv, CloudShape
<1>3. CloudMarked'
  <2>1. \A k : Marks(Current, k, Current.acknowledged) => Marks(r, k, r.acknowledged)
    BY DEF Marks
  <2>2. \A k : Marks(Current, k, Current.acknowledged)' <=> Marks(r, k, r.acknowledged)
    BY <1>1 DEF Marks
  <2> QED BY <1>1, <2>1, <2>2 DEF CloudInv, CloudMarked
<1>4. CloudNewest'
  BY <1>1 DEF CloudInv, CloudNewest
<1> QED BY <1>2, <1>3, <1>4 DEF CloudInv

(* Between the steps of the website. *)
LEMMA CloudStays ==
  ASSUME CloudInv, UNCHANGED site, CloudUnchanged,
         cloud.moment = Len(past) /\ (prepared' = Nothing \/ actor'.step \in {"sweep", "finish"})
           => prepared = Nothing \/ actor.step \in {"sweep", "finish"}
  PROVE  CloudInv'
<1>1. Current' = Current /\ rows' = rows /\ past' = past
  BY DEF site, Current
<1>2. CloudShape'
  BY <1>1 DEF CloudInv, CloudShape, CloudUnchanged
<1>3. CloudMarked'
  <2>1. \A k : Marks(Current, k, Current.acknowledged)' <=> Marks(Current, k, Current.acknowledged)
    BY <1>1 DEF Marks
  <2> QED BY <1>1, <2>1 DEF CloudInv, CloudMarked, CloudUnchanged
<1>4. CloudNewest'
  BY <1>1 DEF CloudInv, CloudNewest, CloudUnchanged
<1> QED BY <1>2, <1>3, <1>4 DEF CloudInv

-----------------------------------------------------------------------------
(* The steps of the website. *)
LEMMA WebsiteStep ==
  ASSUME SiteInv, SpoolTypeOK, JobInv, CloudInv, Website
  PROVE  /\ SiteInv' /\ JobInv' /\ CloudInv'
         /\ Grown \/ UNCHANGED <<rows, past>>
<1>1. UNCHANGED <<job, head, prepared, invalid, cloud, staged, actor, wire>>
  BY DEF Website, spool, server
<1>2. CASE \E ops \in Transactions : Write(ops)
  <2>1. PICK ops \in Transactions : Write(ops)
    BY <1>2
  <2>2. /\ SiteInv' /\ Grown
        /\ Along(Begun(Current), rows, Current', rows')
        /\ place = "database" /\ place' = "database"
        /\ ledger'["catalog"] = ledger["catalog"]
        /\ ledger'["database"].inc = ledger["database"].inc
    BY <2>1, SiteWrite
  <2>3. CloudInv'
    BY <1>1, <2>2, CloudWritten
  <2>4. job # NoJob => JobInv'
    BY <1>1, <2>2, JobWritten
  <2> QED BY <1>1, <2>2, <2>3, <2>4 DEF JobInv
<1>3. CASE DeleteDatabase
  <2>1. /\ SiteInv' /\ Grown
        /\ place = "database" /\ place' = "catalog"
        /\ ledger'["database"] = ledger["database"]
        /\ ledger'["catalog"].inc = 0 /\ ledger'["catalog"].baseline = TRUE
        /\ ledger'["catalog"].generation = ledger["catalog"].generation + 1
        /\ ledger'["catalog"].epoch = ledger["catalog"].epoch + 1
        /\ ledger'["catalog"].acknowledged = ledger["catalog"].acknowledged
    BY <1>3, SiteDelete
  <2>2. Current' = ledger'["catalog"]
    BY <2>1 DEF Current
  <2>3. CloudInv'
    BY <1>1, <2>1, <2>2, CloudMoved
  <2>4. ASSUME job # NoJob PROVE JobInv'
    <3>1. /\ ledger["catalog"].inc = 0 /\ ledger["catalog"].generation \in Nat
          /\ ledger["catalog"].epoch \in Nat /\ ledger["database"].inc \in Nat
      BY SiteFields, LedgerFields DEF SiteInv
    <3>2. OwnLedger /\ job.initial[3] \in Nat /\ job.target \in Nat
      BY <2>4, JobFields DEF JobInv
    <3>3. JobPublished' <=> JobPublished
      BY <1>1 DEF JobPublished
    <3>4. OwnLedger'
      <4>1. ASSUME NEW p \in {"database", "catalog"}, ledger'[p].inc = job.initial[1]
            PROVE  /\ ledger'[p].generation >= job.target /\ ledger'[p].acknowledged <= job.target
                   /\ ledger'[p].epoch >= job.initial[3]
                   /\ ledger'[p].epoch > job.initial[3] => ledger'[p].baseline
                   /\ ~JobPublished => ledger'[p].acknowledged <= job.after
        <5>1. CASE p = "database"
          BY <2>1, <3>2, <4>1, <5>1 DEF OwnLedger
        <5>2. CASE p = "catalog"
          <6>1. /\ ledger["catalog"].generation >= job.target
                /\ ledger["catalog"].acknowledged <= job.target
                /\ ledger["catalog"].epoch >= job.initial[3]
                /\ ~JobPublished => ledger["catalog"].acknowledged <= job.after
            BY <2>1, <3>1, <3>2, <4>1, <5>2 DEF OwnLedger
          <6> QED BY <2>1, <3>1, <3>2, <5>2, <6>1
        <5> QED BY <5>1, <5>2
      <4> QED BY <1>1, <3>3, <4>1 DEF OwnLedger
    <3>5. ~InStep'
      <4>1. CASE job.initial[1] = 0
        <5>1. ledger["catalog"].epoch >= job.initial[3]
          BY <3>1, <3>2, <4>1 DEF OwnLedger
        <5> QED BY <1>1, <2>1, <2>2, <3>1, <3>2, <5>1 DEF InStep
      <4>2. CASE job.initial[1] # 0
        BY <1>1, <2>1, <2>2, <4>2 DEF InStep
      <4> QED BY <4>1, <4>2
    <3>6. ledger["database"].inc <= ledger'["database"].inc
      BY <2>1, <3>1
    <3> QED BY <1>1, <2>1, <2>2, <2>4, <3>4, <3>5, <3>6, JobMoved
  <2> QED BY <1>1, <2>1, <2>3, <2>4 DEF JobInv
<1>4. CASE CreateDatabase
  <2>1. /\ SiteInv' /\ Grown
        /\ place = "catalog" /\ place' = "database"
        /\ ledger'["catalog"] = ledger["catalog"]
        /\ ledger'["database"].inc = ledger["database"].inc + 1
        /\ ledger'["database"].baseline = TRUE
    BY <1>4, SiteCreate
  <2>2. Current' = ledger'["database"]
    BY <2>1 DEF Current
  <2>3. CloudInv'
    BY <1>1, <2>1, <2>2, CloudMoved
  <2>4. ASSUME job # NoJob PROVE JobInv'
    <3>1. ledger["database"].inc \in Nat
      BY SiteFields, LedgerFields DEF SiteInv
    <3>2. /\ OwnLedger /\ job.initial[1] \in Nat /\ job.initial[1] <= ledger["database"].inc
      BY <2>4, JobFields DEF JobInv, JobBounds
    <3>3. JobPublished' <=> JobPublished
      BY <1>1 DEF JobPublished
    <3>4. ledger'["database"].inc # job.initial[1]
      BY <2>1, <3>1, <3>2
    <3>5. OwnLedger'
      <4>1. ASSUME NEW p \in {"database", "catalog"}, ledger'[p].inc = job.initial[1]
            PROVE  /\ ledger'[p].generation >= job.target /\ ledger'[p].acknowledged <= job.target
                   /\ ledger'[p].epoch >= job.initial[3]
                   /\ ledger'[p].epoch > job.initial[3] => ledger'[p].baseline
                   /\ ~JobPublished => ledger'[p].acknowledged <= job.after
        <5>1. p = "catalog"
          BY <3>4, <4>1
        <5> QED BY <2>1, <3>2, <4>1, <5>1 DEF OwnLedger
      <4> QED BY <1>1, <3>3, <4>1 DEF OwnLedger
    <3>6. ~InStep'
      BY <1>1, <2>2, <3>4 DEF InStep
    <3>7. ledger["database"].inc <= ledger'["database"].inc
      BY <2>1, <3>1
    <3> QED BY <1>1, <2>1, <2>2, <2>4, <3>5, <3>6, <3>7, JobMoved
  <2> QED BY <1>1, <2>1, <2>3, <2>4 DEF JobInv
<1>5. CASE Collect
  <2> DEFINE r == Collected(Current)
  <2>1. ledger' = [ledger EXCEPT ![place] = Collected(@)] /\ UNCHANGED <<rows, place, past>>
    BY <1>5 DEF Collect
  <2> HIDE DEF r
  <2>2. /\ SiteInv' /\ ledger'[place'] = r /\ LedgerInv(r)
        /\ \A p \in {"database", "catalog"} : p # place => ledger'[p] = ledger[p]
        /\ ledger'["database"].inc = ledger["database"].inc
        /\ r.inc = Current.inc /\ r.generation = Current.generation
        /\ r.acknowledged = Current.acknowledged
        /\ r.epoch = Current.epoch /\ r.baseline = Current.baseline
        /\ r.dirty \subseteq Current.dirty
        /\ \A m \in Current.dirty :
             m.epoch = Current.epoch /\ m.generation > Current.acknowledged => m \in r.dirty
    BY <2>1, SiteCollect DEF r
  <2>3. CloudInv'
    BY <1>1, <2>1, <2>2, CloudCollected
  <2>4. job # NoJob => JobInv'
    BY <1>1, <2>1, <2>2, JobKept
  <2> QED BY <1>1, <2>1, <2>2, <2>3, <2>4 DEF JobInv
<1> QED BY <1>2, <1>3, <1>4, <1>5 DEF Website, SiteNext

-----------------------------------------------------------------------------
(* The slices of a capture. *)

(* A slice of the capture: the website and the cloud stay as they are. *)
SameCapture ==
  /\ job'.version = job.version /\ job'.parent = job.parent
  /\ job'.initial = job.initial /\ job'.baseline = job.baseline
  /\ job'.invalidated = job.invalidated

Capturing ==
  /\ SiteInv /\ SpoolTypeOK /\ JobInv /\ job # NoJob /\ ~JobPublished
  /\ UNCHANGED <<rows, place, ledger, past, cloud, head>>

(* What every slice leaves alone, and what it means for the rest. *)
LEMMA SliceStays ==
  ASSUME Capturing, job' \in Jobs, SameCapture
  PROVE  /\ job' # NoJob /\ Current' = Current /\ ~JobPublished' /\ (InStep' <=> InStep)
         /\ Replacing'
         /\ job'.after <= job'.target => JobBounds'
         /\ job'.after = job.after /\ job'.target = job.target => OwnLedger'
         /\ \A k \in Keys : /\ job'.records[k] # Unread => Captured(k)' = job'.records[k]
                            /\ job'.records[k] = Unread =>
                                 Captured(k)' = IF job.baseline THEN 0 ELSE cloud.rows[k]
                            /\ job.records[k] # Unread => Captured(k) = job.records[k]
                            /\ job.records[k] = Unread =>
                                 Captured(k) = IF job.baseline THEN 0 ELSE cloud.rows[k]
                            /\ job'.records[k] = job.records[k] => Captured(k)' = Captured(k)
<1> USE DEF Capturing, SameCapture
<1>1. job' # NoJob
  <2>1. job'.version \in Versions
    BY DEF Jobs
  <2> QED BY <2>1, CaptureAssumption DEF NoJob, None
<1>2. Current' = Current
  BY DEF Current
<1>3. ~JobPublished'
  BY DEF JobPublished
<1>4. InStep' <=> InStep
  BY <1>2 DEF InStep
<1>5. Replacing'
  BY <1>2 DEF JobInv, Replacing
<1>6. job'.after <= job'.target => JobBounds'
  BY <1>3 DEF JobInv, JobBounds
<1>7. job'.after = job.after /\ job'.target = job.target => OwnLedger'
  BY <1>3 DEF JobInv, OwnLedger
<1>8. \A k \in Keys : /\ job'.records[k] # Unread => Captured(k)' = job'.records[k]
                      /\ job'.records[k] = Unread =>
                           Captured(k)' = IF job.baseline THEN 0 ELSE cloud.rows[k]
                      /\ job.records[k] # Unread => Captured(k) = job.records[k]
                      /\ job.records[k] = Unread =>
                           Captured(k) = IF job.baseline THEN 0 ELSE cloud.rows[k]
  <2>1. Unread' = Unread
    BY DEF Unread
  <2> QED BY <1>3, <2>1 DEF Captured
<1>9. \A k \in Keys : job'.records[k] = job.records[k] => Captured(k)' = Captured(k)
  BY <1>3 DEF Captured, Unread
<1> QED BY <1>1, <1>2, <1>3, <1>4, <1>5, <1>6, <1>7, <1>8, <1>9

(* The schema was read. *)
LEMMA SchemaStep ==
  ASSUME Capturing, SchemaSlice
  PROVE  JobInv' /\ job' \in Jobs /\ SameCapture
<1> DEFINE ph == IF job.initial[4] THEN "catchup" ELSE "scan"
<1>1. job.phase = "schema" /\ job \in Jobs /\ job' = [job EXCEPT !.phase = ph]
  BY JobFields DEF SchemaSlice, Capturing
<1>2. ph \in {"catchup", "scan"} /\ (ph = "catchup" <=> job.initial[4])
  OBVIOUS
<1> HIDE DEF ph
<1>3. /\ job' \in Jobs /\ SameCapture /\ job'.phase = ph /\ job'.kind = job.kind
      /\ job'.after = job.after /\ job'.target = job.target /\ job'.cursor = job.cursor
      /\ job'.records = job.records
  BY <1>1, <1>2 DEF Jobs, Phases, SameCapture
<1>4. /\ job' # NoJob /\ Current' = Current /\ ~JobPublished' /\ (InStep' <=> InStep)
      /\ Replacing' /\ OwnLedger'
      /\ \A k \in Keys : Captured(k)' = Captured(k)
  BY <1>3, SliceStays
<1>5. JobBounds /\ CursorInv /\ CaptureInv
  BY DEF Capturing, JobInv
<1>6. JobBounds'
  <2>1. job'.after <= job'.target
    BY <1>3, <1>5 DEF JobBounds
  <2> QED BY <1>3, <2>1, SliceStays
<1>7. job.cursor = 0 /\ (\A k \in Keys : job.records[k] = Unread) /\ job.cursor \in Nat
  BY <1>1, <1>5, JobFields DEF CursorInv, Capturing
<1>8. CursorInv'
  BY <1>1, <1>2, <1>3, <1>4, <1>5, <1>7 DEF CursorInv, Reading, Unread
<1>9. ~Sealed' /\ SealedInv'
  BY <1>2, <1>3 DEF Sealed, SealedInv
<1>10. CaptureInv'
  <2> SUFFICES ASSUME InStep PROVE CaptureInv'
    BY <1>4 DEF CaptureInv
  <2>1. UNCHANGED <<rows>>
    BY DEF Capturing
  <2>2. \A k : Marks(Current, k, job.target)' <=> Marks(Current, k, job.target)
    BY <1>3, <1>4 DEF Marks
  <2>3. \A k : LeftFor(k)' <=> LeftFor(k)
    BY <1>3, <1>4 DEF LeftFor, MarkerIndex
  <2>4. CASE ph = "scan"
    BY <1>1, <1>3, <1>4, <1>5, <2>1, <2>2, <2>3, <2>4 DEF CaptureInv, Reading, Unread
  <2>5. CASE ph = "catchup"
    <3>1. Current.inc = 0 /\ job.baseline
      BY <1>2, <1>5, <2>5 DEF InStep, JobBounds
    <3>2. rows = NoRows
      BY <3>1 DEF SiteInv, Current, Capturing
    <3>3. \A k \in Keys : Captured(k) = rows[k]
      <4>1. \A k \in Keys : Captured(k) = 0
        BY <1>3, <1>7, <3>1, SliceStays
      <4> QED BY <3>2, <4>1 DEF NoRows
    <3>4. ~Reading'
      BY <1>3, <2>5 DEF Reading
    <3> QED BY <1>4, <2>1, <3>3, <3>4 DEF CaptureInv
  <2> QED BY <1>2, <2>4, <2>5
<1> QED BY <1>3, <1>4, <1>6, <1>8, <1>9, <1>10 DEF JobInv

(* A pass that finds newer changes reads them; one that finds none goes on *)
(* to the seal.                                                            *)
LEMMA CatchUpStep ==
  ASSUME Capturing, CatchUp
  PROVE  JobInv' /\ job' \in Jobs /\ SameCapture
<1>1. job.phase = "catchup" /\ job \in Jobs /\ job.initial = Proof(Current)
      /\ job.target \in Nat /\ job.pass \in Nat /\ job.initial[3] \in Nat
  BY JobFields DEF CatchUp, Capturing
<1>2. JobBounds /\ OwnLedger /\ CursorInv /\ CaptureInv
  BY DEF Capturing, JobInv
<1>3. InStep
  BY <1>1 DEF InStep, Proof
<1>4. \A k \in Keys : Captured(k) = rows[k] \/ Marks(Current, k, job.target)
  BY <1>1, <1>2, <1>3 DEF CaptureInv, Reading
<1>5. CASE Current.generation = job.target
  <2>1. job' = [job EXCEPT !.phase = "seal"]
    BY <1>5 DEF CatchUp
  <2>2. /\ job' \in Jobs /\ SameCapture /\ job'.phase = "seal"
        /\ job'.after = job.after /\ job'.target = job.target /\ job'.cursor = job.cursor
        /\ job'.records = job.records
    BY <1>1, <2>1 DEF Jobs, Phases, SameCapture
  <2>3. /\ job' # NoJob /\ Current' = Current /\ Replacing' /\ OwnLedger'
        /\ \A k \in Keys : Captured(k)' = Captured(k)
    BY <2>2, SliceStays
  <2>4. JobBounds'
    <3>1. job'.after <= job'.target
      BY <1>2, <2>2 DEF JobBounds
    <3> QED BY <2>2, <3>1, SliceStays
  <2>5. CursorInv'
    BY <1>1, <1>2, <2>2 DEF CursorInv, Reading
  <2>6. SealedInv'
    BY <2>2 DEF Sealed, SealedInv
  <2>7. CaptureInv'
    <3>1. ~Reading' /\ rows' = rows
      BY <2>2 DEF Reading, Capturing
    <3>2. \A k : Marks(Current, k, job.target)' <=> Marks(Current, k, job.target)
      BY <2>2, <2>3 DEF Marks
    <3> QED BY <1>4, <2>3, <3>1, <3>2 DEF CaptureInv
  <2> QED BY <2>2, <2>3, <2>4, <2>5, <2>6, <2>7 DEF JobInv
<1>6. CASE Current.generation # job.target
  <2>1. job' = [job EXCEPT !.phase = "scan", !.kind = "changes",
                  !.pass = @ + 1, !.after = job.target,
                  !.target = Current.generation, !.cursor = 0]
    BY <1>6 DEF CatchUp
  <2> DEFINE ps == job.pass + 1
             tg == Current.generation
             af == job.target
  <2>2. ps \in Nat /\ tg \in Nat /\ af \in Nat /\ af <= tg
    BY <1>1, <1>2, <1>3, StepBounds DEF Capturing
  <2>3. job' = [job EXCEPT !.phase = "scan", !.kind = "changes",
                  !.pass = ps, !.after = af, !.target = tg, !.cursor = 0]
    BY <2>1
  <2> HIDE DEF ps, tg, af
  <2>4. /\ job' \in Jobs /\ SameCapture /\ job'.phase = "scan" /\ job'.kind = "changes"
        /\ job'.after = af /\ job'.target = tg /\ job'.cursor = 0
        /\ job'.records = job.records
    BY <1>1, <2>2, <2>3 DEF Jobs, Phases, SameCapture
  <2>5. /\ job' # NoJob /\ Current' = Current /\ ~JobPublished' /\ Replacing' /\ JobBounds'
        /\ \A k \in Keys : Captured(k)' = Captured(k)
    BY <2>2, <2>4, SliceStays
  <2>6. OwnLedger'
    <3> SUFFICES ASSUME NEW p \in {"database", "catalog"}, ledger[p].inc = job.initial[1]
                 PROVE  /\ ledger[p].generation >= tg /\ ledger[p].acknowledged <= tg
                        /\ ledger[p].epoch >= job.initial[3]
                        /\ ledger[p].epoch > job.initial[3] => ledger[p].baseline
                        /\ ledger[p].acknowledged <= af
      BY <2>4, <2>5 DEF OwnLedger, SameCapture, Capturing
    <3>1. ledger[p] = Current
      BY <1>3, CurrentOf DEF InStep, Capturing
    <3>2. /\ Current.acknowledged <= af /\ Current.epoch = job.initial[3]
      BY <1>2, <1>3, StepBounds DEF Capturing, af
    <3>3. Current.acknowledged \in Nat
      BY SiteFields, LedgerFields DEF Capturing
    <3> QED BY <1>1, <2>2, <3>1, <3>2, <3>3 DEF tg
  <2>7. CursorInv'
    BY <2>4 DEF CursorInv
  <2>8. SealedInv'
    BY <2>4 DEF Sealed, SealedInv
  <2>9. CaptureInv'
    <3>1. Reading' /\ rows' = rows
      BY <2>4 DEF Reading, Capturing
    <3>2. ASSUME NEW k \in Keys, Marks(Current, k, job.target) PROVE LeftFor(k)'
      <4>1. PICK m \in Current.dirty : m.epoch = Current.epoch /\ m.key = k /\ m.generation > job.target
        BY <3>2 DEF Marks
      <4>2. /\ m \in Marker /\ m.generation \in 0..MaxPast /\ m.key \in 1..LastKey
            /\ m.epoch \in Nat /\ LastKey \in Nat
        BY <1>2, <1>3, StepBounds, LocalDirtyAssumption DEF Capturing
      <4>3. m.key \in 0..LastKey /\ m.key > 0
        BY <4>2
      <4>4. MarkerIndex(m) > 0
        BY <4>2, <4>3, IndexOrder DEF MarkerIndex
      <4> QED BY <2>4, <2>5, <4>1, <4>4 DEF LeftFor, MarkerIndex, af
    <3> QED BY <1>4, <2>4, <2>5, <3>1, <3>2 DEF CaptureInv
  <2> QED BY <2>4, <2>5, <2>6, <2>7, <2>8, <2>9 DEF JobInv
<1> QED BY <1>5, <1>6

(* The last look finds the generation it read up to: the capture is the    *)
(* website as it is now.                                                   *)
LEMMA SealStep ==
  ASSUME Capturing, Seal, job.initial[1] = Current.inc
  PROVE  JobInv' /\ job' \in Jobs /\ SameCapture
<1>1. job.phase = "seal" /\ job \in Jobs
      /\ job.target \in Nat /\ job.pass \in Nat /\ job.initial[3] \in Nat
  BY JobFields DEF Seal, Capturing
<1>2. JobBounds /\ OwnLedger /\ CursorInv /\ CaptureInv
  BY DEF Capturing, JobInv
<1> DEFINE ps == IF Unchanged THEN job.pass ELSE job.pass + 1
           ph == IF Unchanged THEN "parts" ELSE "catchup"
<1>3. ps \in Nat /\ ph \in {"parts", "catchup"} /\ (ph = "parts" <=> Unchanged)
  BY <1>1
<1>4. job' = [job EXCEPT !.phase = ph, !.pass = ps]
  BY <1>1 DEF Seal, Jobs
<1> HIDE DEF ps, ph
<1>5. /\ job' \in Jobs /\ SameCapture /\ job'.phase = ph
      /\ job'.after = job.after /\ job'.target = job.target /\ job'.cursor = job.cursor
      /\ job'.records = job.records
  BY <1>1, <1>3, <1>4 DEF Jobs, Phases, SameCapture
<1>6. /\ job' # NoJob /\ Current' = Current /\ Replacing' /\ OwnLedger' /\ ~JobPublished'
      /\ \A k \in Keys : Captured(k)' = Captured(k)
  BY <1>5, SliceStays
<1>7. JobBounds'
  <2>1. job'.after <= job'.target
    BY <1>2, <1>5 DEF JobBounds
  <2> QED BY <1>5, <2>1, SliceStays
<1>8. CursorInv'
  BY <1>1, <1>2, <1>3, <1>5 DEF CursorInv, Reading
<1>9. ~Reading' /\ ~Reading /\ UNCHANGED <<rows, past, cloud>>
  BY <1>1, <1>3, <1>5 DEF Reading, Capturing
<1>10. \A k : Marks(Current, k, job.target)' <=> Marks(Current, k, job.target)
  BY <1>5, <1>6 DEF Marks
<1>11. CaptureInv'
  <2>1. InStep' => InStep
    BY <1>5, SliceStays
  <2> QED BY <1>2, <1>6, <1>9, <1>10, <2>1 DEF CaptureInv
<1>12. SealedInv'
  <2> SUFFICES ASSUME Unchanged PROVE SealedInv'
    BY <1>3, <1>5 DEF SealedInv, Sealed
  <2>1. InStep /\ Current.generation = job.target
    BY DEF InStep, Unchanged
  <2>2. \A k : ~Marks(Current, k, job.target)
    BY <1>1, <1>2, <2>1, StepBounds DEF Marks, Capturing
  <2>3. \A k \in Keys : Captured(k) = rows[k]
    BY <1>2, <1>9, <2>1, <2>2 DEF CaptureInv
  <2>4. /\ Len(past) \in 1..Len(past) /\ past[Len(past)].inc = Current.inc
        /\ past[Len(past)].generation = Current.generation
        /\ past[Len(past)].rows = rows
    BY SiteFields DEF SiteInv, PastInv, Entry, Capturing
  <2>5. Len(past) > cloud.moment
    <3>1. cloud.moment < Len(past) /\ cloud.moment \in Nat /\ Len(past) \in Nat
      BY <1>2, SiteFields, CloudFields DEF JobBounds, Capturing
    <3> QED BY <3>1
  <2>6. /\ past'[Len(past)].inc = job'.initial[1] /\ past'[Len(past)].generation = job'.target
        /\ \A k \in Keys : Captured(k)' = past'[Len(past)].rows[k]
        /\ Len(past) \in 1..Len(past') /\ Len(past) > cloud'.moment
    BY <1>5, <1>6, <1>9, <2>1, <2>3, <2>4, <2>5 DEF SameCapture
  <2> QED BY <1>6, <2>6 DEF SealedInv
<1> QED BY <1>5, <1>6, <1>7, <1>8, <1>11, <1>12 DEF JobInv

(* The parts are built. *)
LEMMA BuildStep ==
  ASSUME Capturing, BuildParts
  PROVE  JobInv' /\ job' \in Jobs /\ SameCapture
<1>1. job.phase = "parts" /\ job \in Jobs /\ job' = [job EXCEPT !.phase = "done"]
  BY JobFields DEF BuildParts, Capturing
<1>2. JobBounds /\ OwnLedger /\ CursorInv /\ CaptureInv /\ SealedInv
  BY DEF Capturing, JobInv
<1>5. /\ job' \in Jobs /\ SameCapture /\ job'.phase = "done"
      /\ job'.after = job.after /\ job'.target = job.target /\ job'.cursor = job.cursor
      /\ job'.records = job.records
  BY <1>1 DEF Jobs, Phases, SameCapture
<1>6. /\ job' # NoJob /\ Current' = Current /\ Replacing' /\ OwnLedger' /\ ~JobPublished'
      /\ \A k \in Keys : Captured(k)' = Captured(k)
  BY <1>5, SliceStays
<1>7. JobBounds'
  <2>1. job'.after <= job'.target
    BY <1>2, <1>5 DEF JobBounds
  <2> QED BY <1>5, <2>1, SliceStays
<1>8. CursorInv'
  BY <1>1, <1>2, <1>5 DEF CursorInv, Reading
<1>9. ~Reading' /\ ~Reading /\ UNCHANGED <<rows, past, cloud>> /\ ~JobPublished
  BY <1>1, <1>5 DEF Reading, Capturing
<1>10. \A k : Marks(Current, k, job.target)' <=> Marks(Current, k, job.target)
  BY <1>5, <1>6 DEF Marks
<1>11. CaptureInv'
  <2>1. InStep' => InStep
    BY <1>5, SliceStays
  <2> QED BY <1>2, <1>6, <1>9, <1>10, <2>1 DEF CaptureInv
<1>12. SealedInv'
  <2>1. Sealed
    BY <1>1 DEF Sealed
  <2> QED BY <1>2, <1>5, <1>6, <1>9, <2>1 DEF SealedInv, SameCapture
<1> QED BY <1>5, <1>6, <1>7, <1>8, <1>11, <1>12 DEF JobInv

(* A page of rows or of markers is written to the records. *)
LEMMA PageFields ==
  ASSUME SpoolTypeOK, job # NoJob, NEW read, NEW left, NEW values, NEW furthest \in Nat,
         Page(read, left, values, furthest), job.phase = "scan",
         \A k \in Keys : k \in DOMAIN values => values[k] \in 0..MaxPast
  PROVE  /\ job' \in Jobs /\ SameCapture /\ job'.kind = job.kind
         /\ job'.after = job.after /\ job'.target = job.target
         /\ \A k \in Keys : /\ k \in DOMAIN values => job'.records[k] = values[k]
                            /\ k \notin DOMAIN values => job'.records[k] = job.records[k]
         /\ \/ read = left /\ job'.phase = "catchup" /\ job'.cursor = 0
            \/ left # {} /\ job'.phase = "scan" /\ job'.cursor = furthest
<1>1. job \in Jobs /\ job.records \in [Keys -> 0..Unread]
  BY JobFields
<1>2. PICK done \in {read = left, FALSE} :
        /\ left = {} => done
        /\ job' = [job EXCEPT
             !.records = [k \in Keys |-> IF k \in DOMAIN values THEN values[k] ELSE @[k]],
             !.cursor = IF done THEN 0 ELSE furthest,
             !.phase = IF done THEN "catchup" ELSE @]
  BY Zenon DEF Page
<1> DEFINE rc == [k \in Keys |-> IF k \in DOMAIN values THEN values[k] ELSE job.records[k]]
           cu == IF done THEN 0 ELSE furthest
           ph == IF done THEN "catchup" ELSE "scan"
<1>3. job' = [job EXCEPT !.records = rc, !.cursor = cu, !.phase = ph]
  BY <1>1, <1>2 DEF Jobs
<1>4. rc \in [Keys -> 0..Unread]
  <2>1. \A k \in Keys : rc[k] \in 0..Unread
    <3>1. \A v \in 0..MaxPast : v \in 0..Unread
      BY LocalDirtyAssumption DEF Unread
    <3> QED BY <1>1, <3>1
  <2> QED BY <2>1
<1>5. cu \in Nat /\ ph \in {"scan", "catchup"}
  OBVIOUS
<1>6. \A k \in Keys : /\ k \in DOMAIN values => rc[k] = values[k]
                      /\ k \notin DOMAIN values => rc[k] = job.records[k]
  OBVIOUS
<1>7. \/ read = left /\ ph = "catchup" /\ cu = 0
      \/ left # {} /\ ph = "scan" /\ cu = furthest
  BY <1>2
<1> HIDE DEF rc, cu, ph
<1>8. /\ job' \in Jobs /\ SameCapture /\ job'.kind = job.kind
      /\ job'.after = job.after /\ job'.target = job.target
      /\ job'.records = rc /\ job'.phase = ph /\ job'.cursor = cu
  BY <1>1, <1>3, <1>4, <1>5 DEF Jobs, Phases, SameCapture
<1> QED BY <1>6, <1>7, <1>8

KeysSeen(S, n) == FirstOf(S, n, Key)
KeysEnd(seen, from) == Furthest(seen, from, Key)

(* A page of rows in the order of their keys. *)
LEMMA KeyPage ==
  ASSUME NEW S \in SUBSET Keys, NEW n \in Int, NEW from \in Nat,
         NEW seen, seen = KeysSeen(S, n),
         NEW at, at = KeysEnd(seen, from),
         \A k \in S : k > from
  PROVE  /\ seen \subseteq S /\ at \in Nat /\ at >= from
         /\ \A k \in S : k <= at => k \in seen
         /\ \A k \in seen : k <= at
<1> DEFINE pos == [k \in S |-> k]
<1>1. \A k \in S : pos[k] = k /\ k \in Nat
  BY DEF Keys
<1>2. IsFiniteSet(S)
  <2>1. IsFiniteSet(Keys)
    BY LocalDirtyAssumption, FS_Interval DEF Keys
  <2> QED BY <2>1, FS_Subset
<1> HIDE DEF pos
<1>3. seen = {x \in S : Cardinality({y \in S : pos[y] < pos[x]}) < n}
  <2>1. \A x \in S : {y \in S : pos[y] < pos[x]} = {y \in S : y < x}
    BY <1>1
  <2>2. seen = {x \in S : Cardinality({y \in S : y < x}) < n}
    BY Zenon DEF FirstOf, Key, KeysSeen
  <2> QED BY <2>1, <2>2
<1>4. seen \subseteq S /\ IsFiniteSet(seen)
  <2>1. seen \subseteq S
    BY <1>3
  <2> QED BY <1>2, <2>1, FS_Subset
<1>5. \A x \in seen, y \in S : pos[y] <= pos[x] => y \in seen
  <2>1. \A z \in S : pos[z] \in Nat
    BY <1>1
  <2> QED BY <1>2, <1>3, <2>1, FirstOfDown
<1>6. CASE seen = {}
  <2>1. at = from
    BY <1>6 DEF Furthest, KeysEnd
  <2> QED BY <1>1, <1>4, <1>6, <2>1
<1>7. CASE seen # {}
  <2>1. \E x \in seen : \A y \in seen : pos[y] <= pos[x]
    <3>1. \A x \in seen : pos[x] \in Nat
      BY <1>1, <1>4
    <3> QED BY <1>4, <1>7, <3>1, Greatest
  <2>2. \E x \in seen : \A y \in seen : y <= x
    BY <1>1, <1>4, <2>1
  <2> DEFINE top == CHOOSE x \in seen : \A y \in seen : y <= x
  <2>3. top \in seen /\ \A y \in seen : y <= top
    BY <2>2
  <2>4. at = top
    BY <1>7, Zenon DEF Furthest, Key, KeysEnd
  <2> HIDE DEF top
  <2>5. \A k \in S : k <= top => k \in seen
    BY <1>1, <1>4, <1>5, <2>3
  <2>6. top \in Nat /\ top > from
    BY <1>1, <1>4, <2>3
  <2> QED BY <1>4, <2>3, <2>4, <2>5, <2>6
<1> QED BY <1>6, <1>7

(* One page of rows. *)
LEMMA BaselineStep ==
  ASSUME Capturing, NEW n \in 1..LastKey, BaselinePage(n)
  PROVE  JobInv' /\ job' \in Jobs /\ SameCapture
<1> DEFINE left == BaselineLeft
           read == KeysSeen(left, n)
           far == KeysEnd(read, job.cursor)
           values == [k \in read |-> rows[k]]
<1>1. /\ job.phase = "scan" /\ job.kind = "baseline" /\ Page(read, left, values, far)
  BY Zenon DEF BaselinePage, KeysSeen, KeysEnd
<1>2. /\ job \in Jobs /\ job.cursor \in Nat /\ rows \in [Keys -> 0..MaxPast]
      /\ SpoolTypeOK /\ job # NoJob
  BY JobFields, SiteFields DEF Capturing, Rows
<1>3. left \subseteq Keys /\ \A k \in Keys : k \in left <=> rows[k] # 0 /\ k > job.cursor
  BY DEF BaselineLeft
<1>4. n \in Int
  BY LocalDirtyAssumption
<1> HIDE DEF left
<1>5. /\ read \subseteq left /\ far \in Nat /\ far >= job.cursor
      /\ \A k \in left : k <= far => k \in read
      /\ \A k \in read : k <= far
  <2>1. read = KeysSeen(left, n) /\ far = KeysEnd(read, job.cursor)
    OBVIOUS
  <2>2. \A k \in left : k > job.cursor
    BY <1>3
  <2> HIDE DEF read, far
  <2> QED BY <1>2, <1>3, <1>4, <2>1, <2>2, KeyPage
<1> HIDE DEF read, far
<1>6. DOMAIN values = read /\ \A k \in read : values[k] = rows[k] /\ k \in Keys /\ rows[k] \in 0..MaxPast
  BY <1>2, <1>3, <1>5
<1> HIDE DEF values
<1>7. /\ job' \in Jobs /\ SameCapture /\ job'.kind = "baseline"
      /\ job'.after = job.after /\ job'.target = job.target
      /\ \A k \in Keys : /\ k \in read => job'.records[k] = rows[k]
                         /\ k \notin read => job'.records[k] = job.records[k]
      /\ \/ read = left /\ job'.phase = "catchup" /\ job'.cursor = 0
         \/ left # {} /\ job'.phase = "scan" /\ job'.cursor = far
  BY <1>1, <1>2, <1>5, <1>6, PageFields
<1>8. /\ job' # NoJob /\ Current' = Current /\ Replacing' /\ OwnLedger' /\ ~JobPublished'
      /\ \A k \in Keys : job'.records[k] = job.records[k] => Captured(k)' = Captured(k)
      /\ InStep' <=> InStep
  BY <1>7, SliceStays
<1>9. JobBounds /\ CursorInv /\ CaptureInv
  BY DEF Capturing, JobInv
<1>10. JobBounds'
  <2>1. job'.after <= job'.target
    BY <1>7, <1>9 DEF JobBounds
  <2> QED BY <1>7, <2>1, SliceStays
<1>11. job.baseline
  BY <1>1, <1>9 DEF CursorInv, Reading
<1>12. CursorInv'
  BY <1>7, <1>11 DEF CursorInv, Reading, SameCapture
<1>13. SealedInv'
  BY <1>7 DEF SealedInv, Sealed
<1>14. ASSUME InStep, NEW k \in Keys
       PROVE  /\ job'.phase = "scan" /\ k > far => job'.records[k] = Unread
              /\ job'.phase = "catchup" \/ k <= far =>
                   Captured(k)' = rows[k] \/ Marks(Current, k, job.target)
  <2>1. /\ k > job.cursor => job.records[k] = Unread
        /\ ~(k > job.cursor) => Captured(k) = rows[k] \/ Marks(Current, k, job.target)
    BY <1>1, <1>9, <1>14 DEF CaptureInv, Reading
  <2>2. k \in Nat
    BY DEF Keys
  <2>3. CASE k \in read
    <3>1. job'.records[k] = rows[k] /\ rows[k] \in 0..MaxPast /\ k <= far
      BY <1>2, <1>5, <1>7, <2>3
    <3>2. rows[k] # Unread
      BY <3>1, LocalDirtyAssumption DEF Unread
    <3>3. Captured(k)' = rows[k]
      BY <1>7, <3>1, <3>2, SliceStays
    <3> QED BY <1>5, <2>2, <3>1, <3>3
  <2>4. CASE k \notin read
    <3>1. job'.records[k] = job.records[k] /\ Captured(k)' = Captured(k)
      BY <1>7, <1>8, <2>4
    <3>2. CASE k > job.cursor
      <4>1. job.records[k] = Unread
        BY <2>1, <3>2
      <4>2. Captured(k) = 0
        BY <1>7, <1>11, <4>1, SliceStays
      <4>3. job'.phase = "catchup" \/ k <= far => k \notin left
        BY <1>5, <1>7, <2>4
      <4>4. k \notin left => rows[k] = 0
        BY <1>3, <3>2
      <4> QED BY <3>1, <4>1, <4>2, <4>3, <4>4
    <3>3. CASE ~(k > job.cursor)
      BY <1>2, <1>5, <2>1, <2>2, <3>1, <3>3
    <3> QED BY <3>2, <3>3
  <2> QED BY <2>3, <2>4
<1>15. CaptureInv'
  <2> SUFFICES ASSUME InStep PROVE CaptureInv'
    BY <1>8 DEF CaptureInv
  <2>1. rows' = rows /\ \A k : Marks(Current, k, job.target)' <=> Marks(Current, k, job.target)
    BY <1>7, <1>8 DEF Capturing, Marks
  <2>2. CASE job'.phase = "catchup"
    <3>1. ~Reading'
      BY <2>2 DEF Reading
    <3> QED BY <1>14, <2>1, <2>2, <3>1 DEF CaptureInv
  <2>3. CASE job'.phase = "scan"
    <3>1. Reading' /\ job'.kind = "baseline" /\ job'.cursor = far
      BY <1>7, <2>3 DEF Reading
    <3>2. \A k \in Keys : ~(k > far) => k <= far
      BY <1>5 DEF Keys
    <3> QED BY <1>14, <2>1, <2>3, <3>1, <3>2 DEF CaptureInv, Unread
  <2> QED BY <1>7, <2>2, <2>3
<1> QED BY <1>7, <1>8, <1>10, <1>12, <1>13, <1>15 DEF JobInv

(* The index of a change is a natural number. *)
LEMMA IndexType ==
  ASSUME NEW m \in Marker
  PROVE  MarkerIndex(m) \in Nat
<1> DEFINE M == MaxPast + 1
           N == LastKey + 1
<1>1. /\ M \in Nat /\ N \in Nat /\ m.epoch \in Nat /\ m.generation \in Nat /\ m.key \in Nat
  BY LocalDirtyAssumption DEF Marker, Keys
<1> HIDE DEF M, N
<1>2. m.epoch * M \in Nat
  BY <1>1
<1>3. (m.epoch * M + m.generation) * N \in Nat
  BY <1>1, <1>2
<1> QED BY <1>1, <1>3 DEF MarkerIndex, IndexAt, M, N

IndexSeen(S, n) == FirstOf(S, n, MarkerIndex)
IndexEnd(seen, from) == Furthest(seen, from, MarkerIndex)

(* A page of changes in the order of their index. *)
LEMMA IndexPage ==
  ASSUME NEW S \in SUBSET Marker, IsFiniteSet(S), NEW n \in Int, NEW from \in Nat,
         NEW seen, seen = IndexSeen(S, n),
         NEW at, at = IndexEnd(seen, from)
  PROVE  /\ seen \subseteq S /\ at \in Nat
         /\ at = from \/ \E m \in seen : at = MarkerIndex(m)
         /\ \A m \in S : m \notin seen /\ MarkerIndex(m) > from => MarkerIndex(m) > at
<1> DEFINE pos == [m \in S |-> MarkerIndex(m)]
<1>1. \A m \in S : pos[m] = MarkerIndex(m) /\ MarkerIndex(m) \in Nat
  BY IndexType
<1> HIDE DEF pos
<1>2. seen = {x \in S : Cardinality({y \in S : pos[y] < pos[x]}) < n}
  <2>1. \A x \in S : {y \in S : pos[y] < pos[x]} = {y \in S : MarkerIndex(y) < MarkerIndex(x)}
    BY <1>1
  <2> QED BY <2>1 DEF FirstOf, IndexSeen
<1>3. seen \subseteq S /\ IsFiniteSet(seen)
  <2>1. seen \subseteq S
    BY <1>2
  <2> QED BY <2>1, FS_Subset
<1>4. \A x \in seen, y \in S : pos[y] <= pos[x] => y \in seen
  <2>1. \A z \in S : pos[z] \in Nat
    BY <1>1
  <2> QED BY <1>2, <2>1, FirstOfDown
<1>5. CASE seen = {}
  BY <1>3, <1>5 DEF Furthest, IndexEnd
<1>6. CASE seen # {}
  <2>1. \E x \in seen : \A y \in seen : pos[y] <= pos[x]
    <3>1. \A x \in seen : pos[x] \in Nat
      BY <1>1, <1>3
    <3> QED BY <1>3, <1>6, <3>1, Greatest
  <2>2. \E x \in seen : \A y \in seen : MarkerIndex(y) <= MarkerIndex(x)
    BY <1>1, <1>3, <2>1
  <2> DEFINE top == CHOOSE x \in seen : \A y \in seen : MarkerIndex(y) <= MarkerIndex(x)
  <2>3. top \in seen
    BY <2>2
  <2>4. at = MarkerIndex(top)
    BY <1>6 DEF Furthest, IndexEnd
  <2> HIDE DEF top
  <2>5. ASSUME NEW m \in S, m \notin seen PROVE MarkerIndex(m) > MarkerIndex(top)
    <3>1. top \in S /\ pos[top] \in Nat /\ pos[m] \in Nat
      BY <1>1, <1>3, <2>3
    <3>2. ~(pos[m] <= pos[top])
      BY <1>4, <2>3, <2>5
    <3> QED BY <1>1, <3>1, <3>2
  <2> QED BY <1>1, <1>3, <2>3, <2>4, <2>5
<1> QED BY <1>5, <1>6

(* What is left of the changes, for a capture in step. *)
LEMMA ChangesInStep ==
  ASSUME Capturing, InStep, job.phase = "scan", job.kind = "changes",
         NEW m \in Current.dirty
  PROVE  /\ m \in ChangesLeft <=>
              /\ m.epoch = Current.epoch /\ m.generation > job.after
              /\ MarkerIndex(m) > job.cursor /\ m.generation <= job.target
         /\ m.epoch = Current.epoch /\ m.generation > job.target =>
              MarkerIndex(m) > IndexAt(job.initial[3], job.target, LastKey)
         /\ MarkerIndex(m) > job.cursor \/ job.cursor # 0
         /\ IndexAt(job.initial[3], job.target, LastKey) \in Nat
         /\ IndexAt(job.initial[3], job.after, LastKey) \in Nat
         /\ m \in ChangesLeft => MarkerIndex(m) > IndexAt(job.initial[3], job.after, LastKey)
<1>1. JobBounds /\ OwnLedger /\ CursorInv /\ SiteInv /\ SpoolTypeOK /\ job # NoJob
  BY DEF Capturing, JobInv
<1>2. /\ job.after \in 0..MaxPast /\ job.target \in 0..MaxPast
      /\ Current.epoch = job.initial[3] /\ job.after <= job.target
      /\ m \in Marker /\ m.generation \in 0..MaxPast /\ m.key \in 1..LastKey
      /\ m.epoch \in Nat
  BY <1>1, StepBounds
<1>3. job.initial[3] \in Nat /\ job.cursor \in Nat
  BY <1>1, JobFields
<1> DEFINE e == job.initial[3]
           a == IndexAt(e, job.after, LastKey)
           t == IndexAt(e, job.target, LastKey)
           x == IndexAt(m.epoch, m.generation, m.key)
<1> HIDE DEF e
<1>4. e \in Nat /\ LastKey \in 0..LastKey /\ m.key \in 0..LastKey /\ m.key > 0
      /\ m.key <= LastKey /\ LastKey \in Nat
  BY <1>2, <1>3, LocalDirtyAssumption DEF e
<1>5. /\ a \in Nat /\ t \in Nat /\ x \in Nat /\ x > 0
      /\ x > a <=> m.epoch > e \/ (m.epoch = e /\ m.generation > job.after)
      /\ x > t <=> m.epoch > e \/ (m.epoch = e /\ m.generation > job.target)
  <2>1. /\ a \in Nat /\ t \in Nat /\ x \in Nat
        /\ m.key > 0 => x > 0
    BY <1>2, <1>4, IndexOrder
  <2>2. x > a <=> m.epoch > e \/ (m.epoch = e /\ (m.generation > job.after
                     \/ (m.generation = job.after /\ m.key > LastKey)))
    BY <1>2, <1>4, IndexOrder
  <2>3. x > t <=> m.epoch > e \/ (m.epoch = e /\ (m.generation > job.target
                     \/ (m.generation = job.target /\ m.key > LastKey)))
    BY <1>2, <1>4, IndexOrder
  <2>4. ~(m.key > LastKey)
    BY <1>2, <1>4
  <2> QED BY <1>4, <2>1, <2>2, <2>3, <2>4
<1>6. MarkerIndex(m) = x
  BY DEF MarkerIndex
<1> HIDE DEF a, t, x
<1>7. m \in ChangesLeft <=> x > (IF job.cursor = 0 THEN a ELSE job.cursor) /\ x <= t
  BY <1>2, <1>6 DEF ChangesLeft, a, t, e
<1>8. job.cursor # 0 => job.cursor >= a /\ job.cursor <= t
  BY <1>1 DEF CursorInv, Reading, a, t, e
<1>9. x <= t <=> ~(x > t)
  BY <1>5
<1>10. m \in ChangesLeft <=> x > a /\ x > job.cursor /\ ~(x > t)
  <2>1. CASE job.cursor = 0
    BY <1>5, <1>7, <1>9, <2>1
  <2>2. CASE job.cursor # 0
    BY <1>3, <1>5, <1>7, <1>8, <1>9, <2>2
  <2> QED BY <2>1, <2>2
<1>11. Current.epoch = e
  BY <1>2 DEF e
<1>12. x > a /\ ~(x > t) <=> m.epoch = e /\ m.generation > job.after /\ m.generation <= job.target
  BY <1>2, <1>4, <1>5
<1>13. m.epoch = Current.epoch /\ m.generation > job.target => x > t
  BY <1>5, <1>11
<1>14. x > job.cursor \/ job.cursor # 0
  BY <1>5
<1> QED BY <1>5, <1>6, <1>10, <1>11, <1>12, <1>13, <1>14 DEF a, t, e

(* One page of changes: what a change left says is read later, what it     *)
(* said last is read now.                                                  *)
LEMMA ChangesStep ==
  ASSUME Capturing, NEW n \in 1..LastKey, ChangesPage(n)
  PROVE  JobInv' /\ job' \in Jobs /\ SameCapture
<1> DEFINE left == ChangesLeft
           read == IndexSeen(left, n)
           far == IndexEnd(read, job.cursor)
           values == [k \in {m.key : m \in read} |->
                       IF \E m \in read : m.key = k /\ m.action = "upsert"
                       THEN rows[k] ELSE 0]
<1>1. /\ job.phase = "scan" /\ job.kind = "changes" /\ Page(read, left, values, far)
  BY Zenon DEF ChangesPage, IndexSeen, IndexEnd
<1>2. /\ job \in Jobs /\ job.cursor \in Nat /\ rows \in [Keys -> 0..MaxPast]
      /\ SpoolTypeOK /\ job # NoJob /\ SiteInv /\ LedgerInv(Current) /\ Describes(Current, rows)
      /\ Current \in Ledgers /\ 0 \in 0..MaxPast
  BY JobFields, SiteFields, LocalDirtyAssumption DEF Capturing, Rows
<1>3. left \subseteq Current.dirty /\ left \subseteq Marker /\ IsFiniteSet(left)
  <2>1. left \subseteq Current.dirty
    BY DEF ChangesLeft
  <2>2. IsFiniteSet(Current.dirty) /\ Current.dirty \subseteq Marker
    BY <1>2, LedgerFields DEF LedgerInv
  <2> QED BY <2>1, <2>2, FS_Subset
<1>4. n \in Int
  BY LocalDirtyAssumption
<1> HIDE DEF left
<1>5. /\ read \subseteq left /\ far \in Nat
      /\ far = job.cursor \/ \E m \in read : far = MarkerIndex(m)
      /\ \A m \in left : m \notin read /\ MarkerIndex(m) > job.cursor => MarkerIndex(m) > far
  <2>1. read = IndexSeen(left, n) /\ far = IndexEnd(read, job.cursor)
    OBVIOUS
  <2> HIDE DEF read, far
  <2> QED BY <1>2, <1>3, <1>4, <2>1, IndexPage
<1> HIDE DEF read, far
<1>6. /\ \A k \in Keys : k \in DOMAIN values <=> \E m \in read : m.key = k
      /\ \A k \in DOMAIN values : k \in Keys /\ values[k] \in 0..MaxPast
      /\ \A k \in DOMAIN values : values[k] =
           IF \E m \in read : m.key = k /\ m.action = "upsert" THEN rows[k] ELSE 0
  <2>1. \A m \in read : m.key \in Keys
    BY <1>3, <1>5 DEF Marker
  <2> QED BY <1>2, <2>1
<1> HIDE DEF values
<1>7. /\ job' \in Jobs /\ SameCapture /\ job'.kind = "changes"
      /\ job'.after = job.after /\ job'.target = job.target
      /\ \A k \in Keys : /\ k \in DOMAIN values => job'.records[k] = values[k]
                         /\ k \notin DOMAIN values => job'.records[k] = job.records[k]
      /\ \/ read = left /\ job'.phase = "catchup" /\ job'.cursor = 0
         \/ left # {} /\ job'.phase = "scan" /\ job'.cursor = far
  BY <1>1, <1>2, <1>5, <1>6, PageFields
<1>8. /\ job' # NoJob /\ Current' = Current /\ Replacing' /\ OwnLedger' /\ ~JobPublished'
      /\ \A k \in Keys : job'.records[k] = job.records[k] => Captured(k)' = Captured(k)
      /\ InStep' <=> InStep
  BY <1>7, SliceStays
<1>9. JobBounds /\ CursorInv /\ CaptureInv
  BY DEF Capturing, JobInv
<1>10. JobBounds'
  <2>1. job'.after <= job'.target
    BY <1>7, <1>9 DEF JobBounds
  <2> QED BY <1>7, <2>1, SliceStays
<1>11. SealedInv'
  BY <1>7 DEF SealedInv, Sealed
<1>12. CursorInv'
  <2>1. ASSUME InStep, job'.phase = "scan", far # 0
        PROVE  /\ far >= IndexAt(job.initial[3], job.after, LastKey)
               /\ far <= IndexAt(job.initial[3], job.target, LastKey)
    <3>1. CASE far = job.cursor
      BY <1>1, <1>9, <2>1, <3>1 DEF CursorInv, Reading
    <3>2. CASE \E m \in read : far = MarkerIndex(m)
      <4>1. PICK m \in read : far = MarkerIndex(m)
        BY <3>2
      <4>2. m \in Current.dirty /\ m \in ChangesLeft
        BY <1>3, <1>5 DEF left
      <4>3. /\ far > IndexAt(job.initial[3], job.after, LastKey)
            /\ IndexAt(job.initial[3], job.after, LastKey) \in Nat
        BY <1>1, <2>1, <4>1, <4>2, ChangesInStep
      <4>4. far <= IndexAt(job.initial[3], job.target, LastKey)
        BY <2>1, <4>1, <4>2 DEF ChangesLeft, InStep
      <4> QED BY <1>5, <4>3, <4>4
    <3> QED BY <1>5, <3>1, <3>2
  <2>2. \A e, g, k : IndexAt(e, g, k)' = IndexAt(e, g, k)
    BY DEF IndexAt
  <2> QED BY <1>7, <1>8, <2>1, <2>2 DEF CursorInv, Reading, SameCapture
<1>13. ASSUME InStep, NEW k \in Keys
       PROVE  /\ job'.phase = "catchup" => Captured(k)' = rows[k] \/ Marks(Current, k, job.target)
              /\ job'.phase = "scan" =>
                   \/ Captured(k)' = rows[k]
                   \/ \E m \in Current.dirty :
                        /\ m.epoch = Current.epoch /\ m.key = k
                        /\ m.generation > job.after /\ MarkerIndex(m) > far
  <2>1. Captured(k) = rows[k] \/ LeftFor(k)
    BY <1>1, <1>9, <1>13 DEF CaptureInv, Reading
  <2>2. CASE k \in DOMAIN values
    <3>1. PICK m \in read : m.key = k
      BY <1>6, <2>2
    <3>2. \A x \in read : x \in Current.dirty /\ x.epoch = Current.epoch
      <4> TAKE x \in read
      <4>1. x \in Current.dirty /\ x \in ChangesLeft
        BY <1>3, <1>5 DEF left
      <4> QED BY <1>1, <1>13, <4>1, ChangesInStep
    <3>3. \A x \in read : x.key = k => (x.action = "upsert" <=> rows[k] # 0)
      BY <1>2, <3>2 DEF Describes
    <3>4. values[k] = rows[k]
      BY <1>6, <2>2, <3>1, <3>3
    <3>5. job'.records[k] = rows[k] /\ rows[k] # Unread
      <4>1. rows[k] \in 0..MaxPast
        BY <1>2
      <4>2. rows[k] # Unread
        BY <4>1, LocalDirtyAssumption DEF Unread
      <4> QED BY <1>7, <2>2, <3>4, <4>2
    <3>6. Captured(k)' = rows[k]
      BY <1>7, <3>5, SliceStays
    <3> QED BY <3>6
  <2>3. CASE k \notin DOMAIN values
    <3>1. Captured(k)' = Captured(k)
      BY <1>7, <1>8, <2>3
    <3>2. CASE LeftFor(k)
      <4>1. PICK m \in Current.dirty :
              /\ m.epoch = Current.epoch /\ m.key = k
              /\ m.generation > job.after /\ MarkerIndex(m) > job.cursor
        BY <3>2 DEF LeftFor
      <4>2. m \notin read
        BY <1>6, <2>3, <4>1
      <4>3. m.generation \in Nat /\ job.target \in Nat /\ MarkerIndex(m) \in Nat /\ m \in Marker
        <5>1. m \in Marker
          BY <1>2, LedgerFields
        <5> QED BY <1>2, <5>1, IndexType, JobFields DEF Marker
      <4>4. CASE m \in left
        <5>1. job'.phase = "scan" /\ MarkerIndex(m) > far
          BY <1>5, <1>7, <4>1, <4>2, <4>4
        <5> QED BY <4>1, <5>1
      <4>5. CASE m \notin left
        <5>1. m.generation > job.target
          BY <1>1, <1>13, <4>1, <4>3, <4>5, ChangesInStep DEF left
        <5>2. Marks(Current, k, job.target)
          BY <4>1, <5>1 DEF Marks
        <5>3. job'.phase = "scan" => MarkerIndex(m) > far
          <6>1. MarkerIndex(m) > IndexAt(job.initial[3], job.target, LastKey)
                /\ IndexAt(job.initial[3], job.target, LastKey) \in Nat
            BY <1>1, <1>13, <4>1, <5>1, ChangesInStep
          <6>2. CASE far = job.cursor
            BY <4>1, <6>2
          <6>3. CASE \E x \in read : far = MarkerIndex(x)
            <7>1. PICK x \in read : far = MarkerIndex(x)
              BY <6>3
            <7>2. x \in ChangesLeft
              BY <1>5 DEF left
            <7>3. far <= IndexAt(job.initial[3], job.target, LastKey)
              BY <1>13, <7>1, <7>2 DEF ChangesLeft, InStep
            <7> QED BY <1>5, <4>3, <6>1, <7>3
          <6> QED BY <1>5, <6>2, <6>3
        <5> QED BY <4>1, <5>2, <5>3
      <4> QED BY <4>4, <4>5
    <3> QED BY <2>1, <3>1, <3>2
  <2> QED BY <2>2, <2>3
<1>14. CaptureInv'
  <2> SUFFICES ASSUME InStep PROVE CaptureInv'
    BY <1>8 DEF CaptureInv
  <2>1. rows' = rows /\ \A k : Marks(Current, k, job.target)' <=> Marks(Current, k, job.target)
    BY <1>7, <1>8 DEF Capturing, Marks
  <2>2. CASE job'.phase = "catchup"
    <3>1. ~Reading'
      BY <2>2 DEF Reading
    <3> QED BY <1>13, <2>1, <2>2, <3>1 DEF CaptureInv
  <2>3. CASE job'.phase = "scan"
    <3>1. Reading' /\ job'.kind = "changes" /\ job'.cursor = far
      BY <1>7, <2>3 DEF Reading
    <3>2. \A k \in Keys : Captured(k)' = rows[k] \/ LeftFor(k)'
      <4> SUFFICES ASSUME NEW k \in Keys, NEW m \in Current.dirty,
                          m.epoch = Current.epoch, m.key = k,
                          m.generation > job.after, MarkerIndex(m) > far
                   PROVE  LeftFor(k)'
        BY <1>13, <2>3
      <4> QED BY <1>7, <1>8, <3>1 DEF LeftFor, MarkerIndex
    <3> QED BY <2>1, <3>1, <3>2 DEF CaptureInv
  <2> QED BY <1>7, <2>2, <2>3
<1> QED BY <1>7, <1>8, <1>10, <1>11, <1>12, <1>14 DEF JobInv

-----------------------------------------------------------------------------
(* A capture begins; the server publishes it; the actor finishes. *)

(* A new capture starts from the acknowledged cut of the cloud's version. *)
LEMMA StartStep ==
  ASSUME SiteInv, SpoolInv, CloudInv, prepared = Nothing,
         Current.generation > Current.acknowledged,
         NEW v \in Versions, v # cloud.checkpoint, v # head.checkpoint,
         UNCHANGED <<rows, place, ledger, past, cloud, head>>, job' = Started(v, Parent)
  PROVE  JobInv' /\ job' \in Jobs /\ job' # NoJob /\ job'.version = v
         /\ job'.initial[1] = Current.inc
<1> DEFINE p == Parent
           l == Current
           base == p = None \/ l.baseline
           kind == IF base THEN "baseline" ELSE "changes"
           init == <<l.inc, l.schemaEpoch, l.epoch, l.deleted, l.storeEpoch>>
           none == [k \in Keys |-> Unread]
<1>1. /\ l \in Ledgers /\ LedgerInv(l) /\ place \in {"database", "catalog"}
      /\ l.generation \in Nat /\ l.acknowledged \in Nat /\ l.inc \in Nat /\ l.epoch \in Nat
      /\ l.acknowledged <= l.generation
  BY SiteFields, LedgerFields DEF LedgerInv
<1>2. p \in Names /\ p \in {None, cloud.checkpoint} /\ cloud.checkpoint = head.checkpoint
      /\ (p # None => p = head.checkpoint /\ head.inc = l.inc)
  <2>1. cloud.checkpoint = head.checkpoint /\ head.checkpoint \in Names
    BY CloudFields DEF SpoolInv, ResolvedInv
  <2> QED BY <2>1 DEF Parent, Names
<1>3. /\ none \in [Keys -> 0..Unread] /\ \A k \in Keys : none[k] = Unread
  BY LocalDirtyAssumption DEF Unread
<1>4. init \in Nat \X Nat \X Nat \X BOOLEAN \X Nat
  BY <1>1, LedgerFields
<1>5. base \in BOOLEAN /\ kind \in {"baseline", "changes"} /\ (kind = "baseline" <=> base)
  <2>1. l.baseline \in BOOLEAN
    BY <1>1, LedgerFields
  <2> QED BY <2>1
<1>6. job' = [version |-> v, parent |-> p, initial |-> init, baseline |-> base,
              kind |-> kind, phase |-> "schema", after |-> l.acknowledged,
              target |-> l.generation, pass |-> 0, cursor |-> 0,
              records |-> none, invalidated |-> FALSE]
  BY Zenon DEF Started, NeedsBaseline, Proof
<1>7. base <=> p = None \/ l.baseline
  OBVIOUS
<1>8. init[1] = l.inc /\ init[2] = l.schemaEpoch /\ init[3] = l.epoch /\ init[4] = l.deleted
  OBVIOUS
<1> HIDE DEF p, base, kind, init, none
<1>9. job' \in Jobs
  BY <1>1, <1>2, <1>3, <1>4, <1>5, <1>6 DEF Jobs, Phases
<1>10. /\ job'.version = v /\ job'.parent = p /\ job'.initial = init /\ job'.baseline = base
       /\ job'.kind = kind /\ job'.phase = "schema" /\ job'.after = l.acknowledged
       /\ job'.target = l.generation /\ job'.cursor = 0 /\ job'.records = none
  BY <1>6
<1>11. job' # NoJob
  BY <1>10, CaptureAssumption DEF NoJob, None
<1>12. Current' = l /\ ~JobPublished'
  BY <1>10 DEF Current, JobPublished
<1> HIDE DEF l
<1>13. l.deleted => l.inc = 0 /\ l.baseline
  <2> SUFFICES ASSUME l.deleted PROVE l.inc = 0 /\ l.baseline
    OBVIOUS
  <2>1. l = ledger["catalog"]
    BY <1>1 DEF SiteInv, l, Current
  <2>2. l.generation # l.acknowledged
    BY <1>1 DEF l
  <2> QED BY <2>1, <2>2 DEF SiteInv
<1>14. l.inc <= ledger["database"].inc
  BY <1>1, SiteFields, LedgerFields DEF SiteInv, l, Current
<1>15. cloud.moment < Len(past)
  <2>1. cloud.moment <= Len(past) /\ cloud.moment # Len(past) /\ cloud.moment \in Nat
    BY <1>1, CloudFields DEF CloudInv, CloudShape, CloudNewest, SpoolInv, l
  <2> QED BY <2>1, SiteFields
<1>16. JobBounds'
  BY <1>1, <1>2, <1>7, <1>8, <1>10, <1>12, <1>13, <1>14, <1>15 DEF JobBounds
<1>17. Replacing'
  BY <1>8, <1>10, <1>12 DEF Replacing
<1>18. OwnLedger'
  <2> SUFFICES ASSUME NEW q \in {"database", "catalog"}, ledger[q].inc = l.inc
               PROVE  /\ ledger[q].generation >= l.generation
                      /\ ledger[q].acknowledged <= l.generation
                      /\ ledger[q].epoch >= l.epoch
                      /\ ledger[q].epoch > l.epoch => ledger[q].baseline
                      /\ ledger[q].acknowledged <= l.acknowledged
    BY <1>8, <1>10 DEF OwnLedger
  <2>1. ledger[q] = l
    BY CurrentOf DEF l
  <2> QED BY <1>1, <2>1
<1>19. CursorInv'
  BY <1>3, <1>5, <1>10 DEF CursorInv, Reading, Unread
<1>20. SealedInv'
  BY <1>10 DEF SealedInv, Sealed
<1>21. CaptureInv'
  <2>1. Reading' /\ rows' = rows
    BY <1>10 DEF Reading
  <2>2. CASE base
    <3>1. \A k \in Keys : k > job'.cursor /\ job'.records[k] = Unread'
      BY <1>3, <1>10 DEF Keys, Unread
    <3> QED BY <1>5, <1>10, <2>1, <2>2, <3>1 DEF CaptureInv
  <2>3. CASE ~base
    <3>1. \A k \in Keys : Captured(k)' = cloud.rows[k]
      BY <1>3, <1>10, <1>12, <2>3 DEF Captured, Unread
    <3>2. cloud.moment > 0 /\ l.inc = past[cloud.moment].inc
      <4>1. cloud.checkpoint # None /\ head.inc = l.inc
        BY <1>2, <1>7, <2>3
      <4> QED BY <1>2, <4>1, CloudFields DEF CloudInv, CloudShape, SpoolInv
    <3>3. \A k \in Keys : rows[k] # cloud.rows[k] => Marks(l, k, l.acknowledged)
      BY <1>7, <2>3, <3>2 DEF CloudInv, CloudMarked, l
    <3>4. ASSUME NEW k \in Keys, Marks(l, k, l.acknowledged) PROVE LeftFor(k)'
      <4>1. PICK m \in l.dirty : m.epoch = l.epoch /\ m.key = k /\ m.generation > l.acknowledged
        BY <3>4 DEF Marks
      <4>2. /\ m \in Marker /\ m.generation \in 0..MaxPast /\ m.key \in 0..LastKey /\ m.key > 0
            /\ m.epoch \in Nat /\ LastKey \in Nat
        <5>1. m \in Marker /\ m.generation <= l.generation
          BY <1>1, LedgerFields DEF LedgerInv, MarkersInv
        <5>2. l.generation <= MaxPast
          BY <1>1, SiteFields, LocalDirtyAssumption DEF SiteInv, l, Current
        <5> QED BY <1>1, <5>1, <5>2, LocalDirtyAssumption DEF Marker, Keys
      <4>3. MarkerIndex(m) > 0
        BY <4>2, IndexOrder DEF MarkerIndex
      <4> QED BY <1>10, <1>12, <4>1, <4>3 DEF LeftFor, MarkerIndex
    <3>5. job'.kind = "changes"
      BY <1>5, <1>10, <2>3
    <3> QED BY <2>1, <3>1, <3>3, <3>4, <3>5 DEF CaptureInv
  <2> QED BY <2>2, <2>3
<1> QED BY <1>8, <1>9, <1>10, <1>11, <1>16, <1>17, <1>18, <1>19, <1>20, <1>21 DEF JobInv, l

-----------------------------------------------------------------------------
(* The types of a prepared checkpoint. *)
LEMMA PreparedFields ==
  ASSUME SpoolInv, prepared # Nothing
  PROVE  /\ prepared \in Prepared /\ prepared.version \in Versions /\ prepared.version # None
         /\ prepared.sequence \in Nat /\ prepared.parent \in Names /\ prepared.base \in Names
         /\ prepared.cut \in Nat /\ prepared.inc \in Nat /\ prepared.cancelled \in BOOLEAN
<1>1. prepared \in Prepared
  BY DEF SpoolInv, SpoolTypeOK
<1> QED BY <1>1, CaptureAssumption DEF Prepared, None

(* A generation of a database names one moment. *)
LEMMA MomentOfSealed ==
  ASSUME SiteInv, NEW i \in 1..Len(past)
  PROVE  MomentOf(past[i].inc, past[i].generation) = i
<1>1. /\ past \in Seq(Entries) /\ DOMAIN past = 1..Len(past) /\ Len(past) \in Nat
  BY SiteFields
<1>2. ASSUME NEW j \in 1..Len(past), past[j].inc = past[i].inc,
             past[j].generation = past[i].generation
      PROVE  j = i
  <2>1. past[i].generation \in Nat
    BY PastFields
  <2>2. ~(j < i) /\ ~(i < j)
    BY <1>2, <2>1 DEF SiteInv, PastInv
  <2> QED BY <1>1, <2>2
<1> DEFINE P(j) == past[j].inc = past[i].inc /\ past[j].generation = past[i].generation
<1>3. \A j \in DOMAIN past : P(j) <=> j = i
  BY <1>1, <1>2
<1>4. (CHOOSE j \in DOMAIN past : P(j)) = i
  BY <1>1, <1>3
<1> QED BY <1>4 DEF MomentOf

(* The server publishes what was staged: the sealed capture. *)
LEMMA PublishStep ==
  ASSUME SiteInv, SpoolInv, JobInv, CloudInv, staged # Nothing, staged.version = wire,
         cloud' = [sequence |-> staged.sequence, checkpoint |-> wire,
                   rows |-> Restored(staged), moment |-> MomentOf(staged.inc, staged.cut)],
         UNCHANGED <<rows, place, ledger, past, job, head, prepared, actor>>
  PROVE  /\ JobInv' /\ CloudInv' /\ cloud' \in Clouds
         /\ cloud'.sequence = prepared.sequence /\ cloud'.checkpoint = prepared.version
         /\ cloud'.moment \in cloud.moment + 1..Len(past)
         /\ cloud'.rows = past[cloud'.moment].rows
<1>1. /\ prepared # Nothing /\ cloud.checkpoint # prepared.version
      /\ staged.version = prepared.version /\ staged.sequence = prepared.sequence
      /\ staged.base = prepared.base /\ staged.cut = prepared.cut /\ staged.inc = prepared.inc
      /\ staged.records = job.records
  BY DEF SpoolInv, StagedInv, Published
<1>2. /\ job # NoJob /\ job.phase = "done" /\ job.version = prepared.version
      /\ prepared.version # head.checkpoint
      /\ prepared.base = IF job.baseline THEN None ELSE job.parent
      /\ prepared.cut = job.target /\ prepared.inc = job.initial[1]
  BY <1>1 DEF SpoolInv, PreparedInv
<1>3. JobBounds /\ Replacing /\ OwnLedger /\ CursorInv /\ CaptureInv /\ SealedInv /\ SpoolTypeOK
  BY <1>2 DEF JobInv, SpoolInv
<1>4. ~JobPublished
  BY <1>1, <1>2 DEF JobPublished
<1>5. PICK i \in 1..Len(past) :
        /\ past[i].inc = job.initial[1] /\ past[i].generation = job.target
        /\ \A k \in Keys : Captured(k) = past[i].rows[k]
        /\ i > cloud.moment
  BY <1>2, <1>3, <1>4 DEF SealedInv, Sealed
<1>6. MomentOf(staged.inc, staged.cut) = i
  BY <1>1, <1>2, <1>5, MomentOfSealed
<1>7. Restored(staged) = past[i].rows
  <2>1. \A k \in Keys : Captured(k) =
          IF job.records[k] # Unread THEN job.records[k]
          ELSE IF job.baseline THEN 0 ELSE cloud.rows[k]
    BY <1>4 DEF Captured
  <2>2. staged.base = None <=> job.baseline
    BY <1>1, <1>2, <1>3, <1>4 DEF JobBounds
  <2>3. Restored(staged) = [k \in Keys |-> IF job.records[k] # Unread THEN job.records[k]
                                           ELSE IF staged.base = None THEN 0 ELSE cloud.rows[k]]
    BY <1>1 DEF Restored
  <2>4. past[i].rows \in [Keys -> 0..MaxPast]
    BY PastFields DEF Rows
  <2>5. \A k \in Keys : past[i].rows[k] =
          IF job.records[k] # Unread THEN job.records[k]
          ELSE IF staged.base = None THEN 0 ELSE cloud.rows[k]
    BY <1>5, <2>1, <2>2
  <2>6. past[i].rows = [k \in Keys |-> past[i].rows[k]]
    BY <2>4
  <2> QED BY <2>3, <2>5, <2>6
<1>8. /\ cloud'.sequence = prepared.sequence /\ cloud'.checkpoint = job.version
      /\ cloud'.rows = past[i].rows /\ cloud'.moment = i
  BY <1>1, <1>2, <1>6, <1>7
<1>9. cloud.moment \in Nat /\ Len(past) \in Nat /\ i \in Nat /\ i <= Len(past)
  BY <1>3, SiteFields, CloudFields
<1>10. cloud' \in Clouds
  <2>1. prepared.sequence \in Nat /\ wire \in Names
    BY <1>1, PreparedFields DEF SpoolInv, SpoolTypeOK
  <2>2. past[i].rows \in Rows
    BY PastFields
  <2> QED BY <1>1, <1>6, <1>7, <1>9, <2>1, <2>2 DEF Clouds
<1>11. JobPublished' /\ Current' = Current
  BY <1>8 DEF JobPublished, Current
<1>12. \A k \in Keys : Captured(k)' = Captured(k)
  <2>1. \A k : Captured(k)' = cloud'.rows[k]
    BY <1>11 DEF Captured
  <2> QED BY <1>5, <1>8, <2>1
<1>13. JobInv'
  <2>1. JobBounds'
    BY <1>2, <1>3, <1>11 DEF JobBounds
  <2>2. Replacing'
    BY <1>3, <1>11 DEF Replacing
  <2>3. OwnLedger'
    BY <1>3, <1>11 DEF OwnLedger
  <2>4. CursorInv'
    BY <1>2, <1>3 DEF CursorInv, Reading
  <2>5. CaptureInv'
    <3>1. InStep' <=> InStep
      BY <1>11 DEF InStep
    <3>2. ~Reading /\ ~Reading'
      BY <1>2 DEF Reading
    <3>3. \A k : Marks(Current, k, job.target)' <=> Marks(Current, k, job.target)
      BY <1>11 DEF Marks
    <3> QED BY <1>3, <1>12, <3>1, <3>2, <3>3 DEF CaptureInv
  <2>6. SealedInv'
    BY <1>5, <1>8, <1>11, <1>12 DEF SealedInv
  <2> QED BY <2>1, <2>2, <2>3, <2>4, <2>5, <2>6 DEF JobInv
<1>14. CloudInv'
  <2>1. CloudShape'
    <3>1. cloud'.checkpoint # None /\ cloud'.moment > 0 /\ cloud'.checkpoint # head.checkpoint
      BY <1>2, <1>3, <1>8, <1>9, JobFields
    <3> QED BY <1>8, <1>9, <3>1 DEF CloudShape
  <2>2. CloudMarked'
    <3> SUFFICES ASSUME Current.inc = job.initial[1], ~Current.baseline
                 PROVE  \A k \in Keys : rows[k] # past[i].rows[k] =>
                          Marks(Current, k, Current.acknowledged)
      <4>1. \A k : Marks(Current, k, Current.acknowledged)' <=> Marks(Current, k, Current.acknowledged)
        BY <1>11 DEF Marks
      <4> QED BY <1>5, <1>8, <1>11, <4>1 DEF CloudMarked
    <3>1. Current.epoch = job.initial[3]
      <4>1. /\ Current.epoch >= job.initial[3]
            /\ Current.epoch > job.initial[3] => Current.baseline
            /\ Current.epoch \in Nat /\ job.initial[3] \in Nat
        BY <1>2, <1>3, SiteFields, LedgerFields, JobFields DEF OwnLedger, Current
      <4> QED BY <4>1
    <3>2. InStep /\ ~Reading
      BY <1>2, <3>1 DEF InStep, Reading
    <3>3. /\ Current.acknowledged <= job.after /\ job.after <= job.target
          /\ job.after \in Nat /\ job.target \in Nat /\ Current.acknowledged \in Nat
          /\ \A m \in Current.dirty : m.generation \in Nat
      BY <1>2, <1>3, <1>4, <3>2, StepBounds, SiteFields, LedgerFields
    <3>4. \A k : Marks(Current, k, job.target) => Marks(Current, k, Current.acknowledged)
      BY <3>3 DEF Marks
    <3>5. \A k \in Keys : Captured(k) = rows[k] \/ Marks(Current, k, job.target)
      BY <1>3, <3>2 DEF CaptureInv
    <3> QED BY <1>5, <3>4, <3>5
  <2>3. CloudNewest'
    <3>1. prepared # Nothing /\ ~(actor.step \in {"sweep", "finish"})
      BY <1>1 DEF SpoolInv, ActorInv, Published
    <3> QED BY <3>1 DEF CloudNewest
  <2> QED BY <2>1, <2>2, <2>3 DEF CloudInv
<1>15. cloud'.moment \in cloud.moment + 1..Len(past)
  BY <1>5, <1>8, <1>9
<1> QED BY <1>2, <1>8, <1>10, <1>13, <1>14, <1>15

(* While the actor finishes, the cloud has the job's capture. *)
LEMMA FinishingFields ==
  ASSUME SiteInv, SpoolInv, JobInv, CloudInv, actor.step \in {"acknowledge", "sweep", "finish"}
  PROVE  /\ prepared # Nothing /\ Published /\ job # NoJob /\ job.phase = "done"
         /\ JobPublished /\ staged = Nothing /\ head.cancelled = Nothing
         /\ cloud.checkpoint = prepared.version /\ cloud.sequence = prepared.sequence
         /\ prepared.cut = job.target /\ prepared.inc = job.initial[1]
         /\ prepared.epoch = job.initial[3] /\ job.version = prepared.version
         /\ cloud.moment \in 1..Len(past)
         /\ past[cloud.moment].inc = job.initial[1]
         /\ past[cloud.moment].generation = job.target
         /\ \A k \in Keys : Captured(k) = cloud.rows[k]
<1>1. Published /\ prepared # Nothing
  BY DEF SpoolInv, ActorInv, Pending
<1>2. /\ job # NoJob /\ job.phase = "done" /\ job.version = prepared.version
      /\ head.cancelled = Nothing
      /\ prepared.cut = job.target /\ prepared.inc = job.initial[1]
      /\ prepared.epoch = job.initial[3] /\ cloud.sequence = prepared.sequence
      /\ cloud.checkpoint = prepared.version
  BY <1>1 DEF SpoolInv, PreparedInv, Published
<1>3. staged = Nothing
  BY <1>1 DEF SpoolInv, StagedInv
<1>4. JobPublished
  BY <1>2 DEF JobPublished
<1>5. \A k \in Keys : Captured(k) = cloud.rows[k]
  BY <1>4 DEF Captured
<1>6. PICK i \in 1..Len(past) :
        /\ past[i].inc = job.initial[1] /\ past[i].generation = job.target
        /\ i = cloud.moment
  BY <1>2, <1>4 DEF JobInv, SealedInv, Sealed
<1> QED BY <1>1, <1>2, <1>3, <1>4, <1>5, <1>6

(* The ledger forgets what the published capture has, and nothing else. *)
LEMMA AcknowledgeStep ==
  ASSUME SiteInv, SpoolInv, JobInv, CloudInv, Acknowledge
  PROVE  SiteInv' /\ JobInv' /\ CloudInv'
<1>1. /\ actor.step = "acknowledge"
      /\ UNCHANGED <<rows, place, past, job, head, prepared, invalid, cloud, staged, wire>>
  BY DEF Acknowledge, Go, spool, server
<1>2. /\ prepared # Nothing /\ job # NoJob /\ job.phase = "done" /\ JobPublished
      /\ prepared.cut = job.target /\ prepared.inc = job.initial[1]
      /\ prepared.epoch = job.initial[3]
      /\ cloud.moment \in 1..Len(past)
      /\ past[cloud.moment].inc = job.initial[1]
      /\ past[cloud.moment].generation = job.target
      /\ \A k \in Keys : Captured(k) = cloud.rows[k]
  BY <1>1, FinishingFields
<1>3. JobBounds /\ OwnLedger /\ CaptureInv /\ SpoolTypeOK
  BY <1>2 DEF JobInv, SpoolInv
<1>4. past[Len(past)].inc = Current.inc /\ past[Len(past)].generation = Current.generation
      /\ Len(past) \in 1..MaxPast
  BY SiteFields DEF SiteInv, PastInv, Entry
<1>5. CASE prepared.inc # Current.inc
  <2>1. ledger' = ledger /\ UNCHANGED site
    BY <1>1, <1>5 DEF Acknowledge, site
  <2>2. SiteInv'
    BY <2>1 DEF site, SiteInv, PastInv, Current
  <2>3. CloudUnchanged /\ job' = job /\ JobUnchanged
    BY <1>1 DEF CloudUnchanged, JobUnchanged
  <2>4. JobInv'
    BY <1>2, <2>1, <2>3, JobStays
  <2>5. CloudInv'
    <3>1. cloud.moment # Len(past)
      BY <1>2, <1>4, <1>5
    <3> QED BY <2>1, <2>3, <3>1, CloudStays
  <2> QED BY <2>2, <2>4, <2>5
<1>6. CASE prepared.inc = Current.inc
  <2> DEFINE r == Acknowledged(Current, prepared.cut, prepared.epoch)
  <2>1. ledger' = [ledger EXCEPT ![place] = r]
    BY <1>6 DEF Acknowledge, Current
  <2>2. /\ Current.generation >= job.target /\ Current.acknowledged <= job.target
        /\ Current.epoch >= job.initial[3]
        /\ Current.epoch > job.initial[3] => Current.baseline
        /\ Current.epoch \in Nat /\ job.initial[3] \in Nat /\ job.target \in Nat
        /\ Current.generation \in Nat /\ Current.acknowledged \in Nat
        /\ LedgerInv(Current) /\ Current.dirty \subseteq Marker
    BY <1>2, <1>3, <1>6, SiteFields, LedgerFields, JobFields DEF OwnLedger, Current
  <2>3. prepared.cut \in Nat /\ prepared.cut <= Current.generation
    BY <1>2, <2>2
  <2>4. /\ LedgerInv(r) /\ r.inc = Current.inc /\ r.generation = Current.generation
        /\ r.epoch = Current.epoch /\ r.storeEpoch = Current.storeEpoch
        /\ r.schemaEpoch = Current.schemaEpoch /\ r.deleted = Current.deleted
        /\ r.dirty = Current.dirty /\ r.sizes = Current.sizes
        /\ prepared.cut > Current.acknowledged => r.acknowledged = prepared.cut
        /\ prepared.cut <= Current.acknowledged => r.acknowledged = Current.acknowledged
        /\ r.baseline => Current.baseline
        /\ Current.baseline => r.baseline
             \/ (Current.epoch = prepared.epoch /\ prepared.cut = Current.generation)
    BY <2>2, <2>3, AcknowledgedLedger
  <2> HIDE DEF r
  <2>5. r.acknowledged = job.target
    BY <1>2, <2>2, <2>4
  <2>6. r.acknowledged >= Current.acknowledged
        /\ (r.baseline \/ ~Current.baseline \/ r.generation = r.acknowledged)
    BY <1>2, <2>2, <2>4, <2>5
  <2>7. /\ SiteInv' /\ ledger'[place'] = r
        /\ \A p \in {"database", "catalog"} : p # place => ledger'[p] = ledger[p]
        /\ ledger'["database"].inc = ledger["database"].inc
    BY <1>1, <2>1, <2>4, <2>6, SiteKept
  <2>8. JobInv'
    <3>1. ledger'[place] = r
      BY <1>1, <2>7
    <3>2. Current.baseline => r.baseline
            \/ (Current.inc = job.initial[1] /\ Current.epoch = job.initial[3])
      BY <1>2, <1>6, <2>4
    <3>3. JobPublished /\ Current.inc = job.initial[1] /\ r.acknowledged <= job.target
      BY <1>2, <1>6, <2>2, <2>5
    <3> QED BY <1>1, <1>2, <1>3, <2>4, <2>7, <3>1, <3>2, <3>3, JobKept
  <2>9. Current' = r
    BY <1>1, <2>7 DEF Current
  <2>10. CloudShape'
    BY <1>1 DEF CloudInv, CloudShape
  <2>11. CloudMarked'
    <3>1. \A k : Marks(Current, k, Current.acknowledged)' <=> Marks(Current, k, job.target)
      BY <2>4, <2>5, <2>9 DEF Marks
    <3>2. ASSUME ~r.baseline
          PROVE  \A k \in Keys : rows[k] # cloud.rows[k] => Marks(Current, k, job.target)
      <4>1. Current.epoch = job.initial[3]
        BY <1>2, <2>2, <2>4, <3>2
      <4>2. InStep /\ ~Reading
        BY <1>2, <1>6, <4>1 DEF InStep, Reading
      <4> QED BY <1>2, <1>3, <4>2 DEF CaptureInv
    <3> QED BY <1>1, <2>9, <3>1, <3>2 DEF CloudMarked
  <2>12. CloudNewest'
    BY <1>1, <1>2, <1>4, <2>2, <2>4, <2>5, <2>9 DEF CloudNewest
  <2> QED BY <2>7, <2>8, <2>10, <2>11, <2>12 DEF CloudInv
<1> QED BY <1>5, <1>6

(* The source collects garbage. *)
LEMMA SweepStep ==
  ASSUME SiteInv, SpoolInv, JobInv, CloudInv, Sweep
  PROVE  SiteInv' /\ JobInv' /\ CloudInv'
<1> DEFINE r == Collected(Current)
<1>1. /\ actor.step = "sweep"
      /\ ledger' = [ledger EXCEPT ![place] = Collected(@)]
      /\ UNCHANGED <<rows, place, past, job, head, prepared, invalid, cloud, staged, wire>>
  BY DEF Sweep, Go, spool, server
<1>2. job # NoJob /\ SpoolTypeOK
  BY <1>1, FinishingFields DEF SpoolInv
<1> HIDE DEF r
<1>3. /\ SiteInv' /\ ledger'[place'] = r /\ LedgerInv(r)
      /\ \A p \in {"database", "catalog"} : p # place => ledger'[p] = ledger[p]
      /\ ledger'["database"].inc = ledger["database"].inc
      /\ r.inc = Current.inc /\ r.generation = Current.generation
      /\ r.acknowledged = Current.acknowledged
      /\ r.epoch = Current.epoch /\ r.baseline = Current.baseline
      /\ r.dirty \subseteq Current.dirty
      /\ \A m \in Current.dirty :
           m.epoch = Current.epoch /\ m.generation > Current.acknowledged => m \in r.dirty
  BY <1>1, SiteCollect DEF r
<1>4. CloudInv'
  BY <1>1, <1>3, CloudCollected
<1>5. JobInv'
  BY <1>1, <1>2, <1>3, JobKept
<1> QED BY <1>3, <1>4, <1>5

(* The head becomes the published checkpoint. *)
LEMMA FinishStep ==
  ASSUME SiteInv, SpoolInv, JobInv, CloudInv, Finish
  PROVE  SiteInv' /\ JobInv' /\ CloudInv'
<1>1. /\ actor.step = "finish"
      /\ head' = [head EXCEPT !.sequence = prepared.sequence,
                              !.checkpoint = prepared.version, !.inc = prepared.inc]
      /\ UNCHANGED <<rows, place, ledger, past, job, cloud>>
  BY DEF Finish, Go, site, server
<1>2. /\ prepared # Nothing /\ job # NoJob /\ JobPublished
      /\ cloud.checkpoint = prepared.version
      /\ prepared.inc = job.initial[1]
      /\ job.version = prepared.version
      /\ cloud.moment \in 1..Len(past)
      /\ past[cloud.moment].inc = job.initial[1]
  BY <1>1, FinishingFields
<1>3. head \in Heads
  BY DEF SpoolInv, SpoolTypeOK
<1>4. head'.checkpoint = prepared.version /\ head'.inc = prepared.inc
  BY <1>1, <1>3 DEF Heads
<1>5. SiteInv'
  BY <1>1 DEF SiteInv, PastInv, Current
<1>6. Current' = Current
  BY <1>1 DEF Current
<1>7. JobInv'
  <2>1. JobBounds /\ OwnLedger /\ CursorInv /\ CaptureInv /\ SealedInv
    BY <1>2 DEF JobInv
  <2>2. JobPublished' <=> JobPublished
    BY <1>1 DEF JobPublished
  <2>3. \A k : Captured(k)' = Captured(k)
    BY <1>1, <2>2 DEF Captured
  <2>4. /\ Reading' <=> Reading
        /\ Sealed' <=> Sealed
        /\ InStep' <=> InStep
    BY <1>1, <1>6 DEF Reading, Sealed, InStep
  <2>5. \A k : /\ LeftFor(k)' <=> LeftFor(k)
               /\ Marks(Current, k, job.target)' <=> Marks(Current, k, job.target)
    BY <1>1, <1>6 DEF LeftFor, Marks, MarkerIndex
  <2>6. JobBounds'
    BY <1>1, <2>1, <2>2 DEF JobBounds
  <2>7. Replacing'
    BY <1>1, <1>2, <1>4 DEF Replacing
  <2>8. OwnLedger'
    BY <1>1, <2>1, <2>2 DEF OwnLedger
  <2>9. CursorInv'
    BY <1>1, <2>1, <2>4 DEF CursorInv
  <2>10. CaptureInv'
    BY <1>1, <2>1, <1>6, <2>3, <2>4, <2>5 DEF CaptureInv
  <2>11. SealedInv'
    BY <1>1, <2>1, <2>2, <2>3, <2>4 DEF SealedInv
  <2> QED BY <2>6, <2>7, <2>8, <2>9, <2>10, <2>11 DEF JobInv
<1>8. CloudInv'
  <2>1. CloudShape'
    BY <1>1, <1>2, <1>4 DEF CloudInv, CloudShape
  <2>2. CloudMarked'
    <3>1. \A k : Marks(Current, k, Current.acknowledged)' <=> Marks(Current, k, Current.acknowledged)
      BY <1>6 DEF Marks
    <3> QED BY <1>1, <1>6, <3>1 DEF CloudInv, CloudMarked
  <2>3. CloudNewest'
    BY <1>1, <1>6 DEF CloudInv, CloudNewest
  <2> QED BY <2>1, <2>2, <2>3 DEF CloudInv
<1> QED BY <1>5, <1>7, <1>8

-----------------------------------------------------------------------------
(* The steps of the actor and of the server keep the invariant. *)

Actors == [step : Steps, inc : Nat]

(* The actor goes to a step. *)
LEMMA GotoFields ==
  ASSUME SpoolInv, NEW s \in Steps, Goto(s)
  PROVE  /\ actor' \in Actors /\ actor'.step = s
         /\ s # "off" => actor'.inc = actor.inc
<1>1. actor \in Actors
  BY DEF SpoolInv, SpoolTypeOK, Actors
<1>2. Off \in Actors /\ Off.step = "off"
  BY DEF Off, Actors, Steps
<1>3. CASE s = "off"
  BY <1>2, <1>3 DEF Goto
<1>4. CASE s # "off"
  <2>1. actor' = [actor EXCEPT !.step = s]
    BY <1>4 DEF Goto
  <2> QED BY <1>1, <1>4, <2>1 DEF Actors
<1> QED BY <1>3, <1>4

(* The actor and a job that is not the prepared one.                       *)
LEMMA SpoolStays ==
  ASSUME SpoolInv, UNCHANGED <<head, prepared, cloud, staged>>,
         actor' \in Actors, job' \in Jobs \cup {NoJob},
         prepared # Nothing => job' = job,
         invalid' \subseteq Versions, wire' \in Names
  PROVE  /\ SpoolTypeOK' /\ PreparedInv' /\ ResolvedInv' /\ CancelledInv' /\ StagedInv'
         /\ Published' <=> Published
<1>1. Published' <=> Published
  BY DEF Published
<1>2. SpoolTypeOK'
  BY DEF SpoolInv, SpoolTypeOK, Actors
<1>3. PreparedInv'
  BY <1>1 DEF SpoolInv, PreparedInv
<1>4. ResolvedInv' /\ CancelledInv'
  BY DEF SpoolInv, ResolvedInv, CancelledInv
<1>5. StagedInv'
  <2> SUFFICES ASSUME staged # Nothing PROVE StagedInv'
    BY DEF StagedInv
  <2>1. prepared # Nothing /\ StagedInv
    BY DEF SpoolInv, StagedInv
  <2>2. job' = job
    BY <2>1
  <2> QED BY <1>1, <2>1, <2>2 DEF StagedInv
<1> QED BY <1>1, <1>2, <1>3, <1>4, <1>5

(* The website and what a restore finds are as they were.                  *)
LEMMA WorldStays ==
  ASSUME BInv, UNCHANGED site, CloudUnchanged,
         job' = NoJob \/ (job # NoJob /\ JobUnchanged),
         cloud.moment = Len(past) /\ (prepared' = Nothing \/ actor'.step \in {"sweep", "finish"})
           => prepared = Nothing \/ actor.step \in {"sweep", "finish"}
  PROVE  SiteInv' /\ JobInv' /\ CloudInv'
<1>1. SiteInv'
  BY DEF BInv, site, SiteInv, PastInv, Current
<1>2. JobInv'
  BY JobStays DEF BInv
<1>3. CloudInv'
  BY CloudStays DEF BInv
<1> QED BY <1>1, <1>2, <1>3

(* The types of what actor, spool and server keep. *)
LEMMA SpoolFields ==
  ASSUME SpoolInv
  PROVE  /\ actor \in Actors /\ actor.step \in Steps /\ actor.inc \in Nat
         /\ job \in Jobs \cup {NoJob} /\ head \in Heads /\ head.cancelled \in {Nothing} \cup Cancelled
         /\ prepared \in Prepared \cup {Nothing} /\ invalid \subseteq Versions
         /\ cloud \in Clouds /\ staged \in Staged \cup {Nothing} /\ wire \in Names
  BY DEF SpoolInv, SpoolTypeOK, Actors, Heads

(* A step of the actor alone.                                              *)
LEMMA ActorMoves ==
  ASSUME BInv, UNCHANGED <<site, job, head, prepared, cloud, staged>>,
         invalid' \subseteq Versions, wire' \in Names, actor' \in Actors,
         actor'.step \in {"sweep", "finish"} => actor.step \in {"sweep", "finish"}
  PROVE  /\ SiteInv' /\ JobInv' /\ CloudInv'
         /\ SpoolTypeOK' /\ PreparedInv' /\ ResolvedInv' /\ CancelledInv' /\ StagedInv'
         /\ Published' <=> Published
<1>1. job \in Jobs \cup {NoJob}
  BY SpoolFields DEF BInv
<1>2. CloudUnchanged /\ JobUnchanged
  BY DEF CloudUnchanged, JobUnchanged
<1>3. job' = NoJob \/ (job # NoJob /\ JobUnchanged)
  BY <1>2
<1>4. SiteInv' /\ JobInv' /\ CloudInv'
  BY <1>2, <1>3, WorldStays
<1>5. /\ SpoolTypeOK' /\ PreparedInv' /\ ResolvedInv' /\ CancelledInv' /\ StagedInv'
      /\ Published' <=> Published
  BY <1>1, SpoolStays DEF BInv
<1> QED BY <1>4, <1>5

(* A run begins with what is pending. *)
LEMMA BeginKeeps ==
  ASSUME BInv, Begin
  PROVE  BInv'
<1> DEFINE s == IF head.cancelled # Nothing THEN "adopt"
                ELSE IF prepared = Nothing  THEN "prepare"
                ELSE IF prepared.cancelled  THEN "cancel"
                ELSE "post"
<1>1. /\ actor' = [inc |-> Current.inc, step |-> s]
      /\ UNCHANGED <<site, job, head, prepared, invalid, cloud, staged, wire>>
  BY DEF Begin, spool, server
<1>2. SpoolInv /\ Current.inc \in Nat
  BY SiteFields, LedgerFields DEF BInv
<1>3. /\ head.cancelled # Nothing => s = "adopt"
      /\ head.cancelled = Nothing => s \in {"prepare", "cancel", "post"}
      /\ s = "prepare" => prepared = Nothing
      /\ s \in {"cancel", "post"} => prepared # Nothing
  OBVIOUS
<1> HIDE DEF s
<1>4. s \in {"adopt", "prepare", "cancel", "post"}
  BY <1>3
<1>5. actor' \in Actors /\ actor'.step = s
  BY <1>1, <1>2, <1>4 DEF Actors, Steps, Resolved, Pending
<1>6. /\ SiteInv' /\ JobInv' /\ CloudInv'
      /\ SpoolTypeOK' /\ PreparedInv' /\ ResolvedInv' /\ CancelledInv' /\ StagedInv'
  BY <1>1, <1>2, <1>4, <1>5, SpoolFields, ActorMoves
<1>7. head.cancelled # Nothing => prepared = Nothing
  BY <1>2 DEF SpoolInv, PreparedInv
<1>8. ActorInv'
  BY <1>1, <1>3, <1>4, <1>5, <1>7 DEF ActorInv, Resolved, Pending
<1> QED BY <1>6, <1>8 DEF BInv, SpoolInv

(* A job dropped or kept while nothing is prepared.                        *)
LEMMA JobDropped ==
  ASSUME BInv, prepared = Nothing, job' = NoJob \/ job' = job,
         UNCHANGED <<site, head, prepared, cloud, staged, wire>>,
         invalid' \subseteq Versions, NEW s \in {"off", "turn"}, Goto(s),
         s = "turn" => head.cancelled = Nothing
  PROVE  BInv'
<1>1. SpoolInv /\ wire \in Names
  BY SpoolFields DEF BInv
<1>2. actor' \in Actors /\ actor'.step = s
  BY <1>1, GotoFields DEF Steps, Resolved
<1>3. job' \in Jobs \cup {NoJob}
  BY <1>1, SpoolFields
<1>4. /\ SpoolTypeOK' /\ PreparedInv' /\ ResolvedInv' /\ CancelledInv' /\ StagedInv'
  BY <1>1, <1>2, <1>3, SpoolStays
<1>5. CloudUnchanged
  BY DEF CloudUnchanged
<1>6. job' = NoJob \/ (job # NoJob /\ JobUnchanged)
  BY DEF JobUnchanged
<1>7. SiteInv' /\ JobInv' /\ CloudInv'
  BY <1>2, <1>5, <1>6, WorldStays
<1>8. ActorInv'
  BY <1>2 DEF ActorInv, Resolved, Pending
<1> QED BY <1>4, <1>7, <1>8 DEF BInv, SpoolInv

(* What holds while nothing is pending. *)
LEMMA ResolvedStep ==
  ASSUME BInv, actor.step \in Resolved
  PROVE  /\ prepared = Nothing /\ staged = Nothing /\ cloud.checkpoint = head.checkpoint
         /\ actor.step \in {"prepare", "turn", "visit"} => head.cancelled = Nothing
  BY DEF BInv, SpoolInv, ActorInv, ResolvedInv

(* A capture is dropped only while nothing is prepared. *)
LEMMA DropsKeep ==
  ASSUME BInv, ClearUnprepared \/ SkipClean \/ GiveUp \/ Evict \/ Discard
  PROVE  BInv'
<1>1. invalid \subseteq Versions
  BY SpoolFields DEF BInv
<1>2. CASE ClearUnprepared
  <2>1. /\ actor.step = "prepare" /\ Goto("turn") /\ (job' = NoJob \/ job' = job) /\ invalid' = {}
        /\ UNCHANGED <<site, head, prepared, cloud, staged, wire>>
    BY <1>2 DEF ClearUnprepared, Go, server
  <2> QED BY <2>1, ResolvedStep, JobDropped DEF Resolved
<1>3. CASE SkipClean
  <2>1. /\ actor.step = "turn" /\ Goto("off") /\ (job' = NoJob \/ job' = job)
        /\ UNCHANGED <<site, head, prepared, invalid, cloud, staged, wire>>
    BY <1>3 DEF SkipClean, Go, server
  <2> QED BY <1>1, <2>1, ResolvedStep, JobDropped DEF Resolved
<1>4. CASE GiveUp
  <2>1. /\ actor.step = "visit" /\ Goto("off") /\ job' = NoJob
        /\ UNCHANGED <<site, head, prepared, invalid, cloud, staged, wire>>
    BY <1>4 DEF GiveUp, Go, server
  <2> QED BY <1>1, <2>1, ResolvedStep, JobDropped DEF Resolved
<1>5. CASE Evict
  <2>1. /\ actor.step = "turn" /\ Goto("turn") /\ job' = NoJob
        /\ UNCHANGED <<site, head, prepared, invalid, cloud, staged, wire>>
    BY <1>5 DEF Evict, Go, server
  <2> QED BY <1>1, <2>1, ResolvedStep, JobDropped DEF Resolved
<1>6. CASE Discard
  <2>1. /\ actor.step = "discard" /\ Goto("off") /\ (job' = NoJob \/ job' = job)
        /\ UNCHANGED <<site, head, prepared, invalid, cloud, staged, wire>>
    BY <1>6 DEF Discard, Go, server
  <2> QED BY <1>1, <2>1, ResolvedStep, JobDropped DEF Resolved
<1> QED BY <1>2, <1>3, <1>4, <1>5, <1>6

(* The actor may stop anywhere. *)
LEMMA StopKeeps ==
  ASSUME BInv, Stop
  PROVE  BInv'
<1>1. Goto("off") /\ UNCHANGED <<site, job, head, prepared, invalid, cloud, staged, wire>>
  BY DEF Stop, spool, server
<1>2. actor' \in Actors /\ actor'.step = "off"
  BY <1>1, GotoFields DEF BInv, Steps
<1>3. /\ SiteInv' /\ JobInv' /\ CloudInv'
      /\ SpoolTypeOK' /\ PreparedInv' /\ ResolvedInv' /\ CancelledInv' /\ StagedInv'
  BY <1>1, <1>2, SpoolFields, ActorMoves DEF BInv
<1>4. ActorInv'
  BY <1>2 DEF ActorInv, Resolved, Pending
<1> QED BY <1>3, <1>4 DEF BInv, SpoolInv

(* A capture that is resumed is not the one the cloud has. *)
LEMMA UsableUnpublished ==
  ASSUME BInv, Usable(Parent), prepared = Nothing
  PROVE  job # NoJob /\ job.version # cloud.checkpoint /\ job.initial[1] = Current.inc
<1>1. /\ job # NoJob /\ job.version # Parent /\ job.initial[1] = Current.inc
      /\ SpoolTypeOK /\ SiteInv /\ cloud.checkpoint = head.checkpoint
  BY DEF Usable, BInv, SpoolInv, ResolvedInv
<1>2. CASE Parent = head.checkpoint
  BY <1>1, <1>2
<1>3. CASE Parent # head.checkpoint
  <2>1. head.inc # Current.inc
    BY <1>3 DEF Parent
  <2> SUFFICES ASSUME JobPublished PROVE FALSE
    BY <1>1 DEF JobPublished
  <2>2. job.phase = "done"
    BY <1>1 DEF BInv, JobInv, JobBounds
  <2>3. PICK i \in 1..Len(past) : past[i].inc = job.initial[1] /\ i = cloud.moment
    BY <1>1, <2>2 DEF BInv, JobInv, SealedInv, Sealed
  <2>4. cloud.moment > 0
    BY <1>1, <2>3, SiteFields
  <2>5. head.inc = past[cloud.moment].inc
    BY <1>1, <2>4 DEF BInv, CloudInv, CloudShape
  <2> QED BY <1>1, <2>1, <2>3, <2>5
<1> QED BY <1>2, <1>3

(* A visit resumes a capture or starts one. *)
LEMMA VisitKeeps ==
  ASSUME BInv, Visit
  PROVE  BInv'
<1>1. /\ actor.step = "turn" /\ Goto("visit") /\ Current.inc = actor.inc
      /\ Current.generation > Current.acknowledged
      /\ Versions \ Referred # {} /\ Resumed(FreshVersion, Parent)
      /\ UNCHANGED <<site, head, prepared, invalid, cloud, staged, wire>>
      /\ UNCHANGED <<rows, place, ledger, past>>
  BY DEF Visit, Go, SourceOpen, server, site
<1>2. prepared = Nothing /\ head.cancelled = Nothing /\ SpoolInv /\ SiteInv /\ CloudInv
  BY <1>1, ResolvedStep DEF BInv, Resolved
<1>3. FreshVersion \in Versions /\ FreshVersion # cloud.checkpoint /\ FreshVersion # head.checkpoint
  <2>1. FreshVersion \in Versions \ Referred
    BY <1>1 DEF FreshVersion
  <2> QED BY <2>1 DEF Referred
<1>4. actor' \in Actors /\ actor'.step = "visit" /\ actor'.inc = actor.inc
  BY <1>1, <1>2, GotoFields DEF Steps, Resolved
<1>5. /\ SiteInv' /\ JobInv' /\ CloudInv' /\ job' \in Jobs \cup {NoJob}
      /\ job' # NoJob /\ job'.version # cloud.checkpoint /\ job'.initial[1] = Current.inc
  <2>1. CloudUnchanged
    BY <1>1 DEF CloudUnchanged
  <2>2. SiteInv'
    BY <1>1, <1>2 DEF SiteInv, PastInv, Current
  <2>3. CloudInv'
    BY <1>1, <1>2, <1>4, <2>1, CloudStays
  <2>4. CASE Usable(Parent)
    <3>1. job' = job /\ job # NoJob /\ job.version # cloud.checkpoint /\ job.initial[1] = Current.inc
      BY <1>1, <1>2, <2>4, UsableUnpublished DEF Resumed
    <3>2. job' # NoJob /\ JobUnchanged
      BY <3>1 DEF JobUnchanged
    <3>3. JobInv'
      BY <1>1, <2>1, <3>1, <3>2, JobStays DEF BInv
    <3> QED BY <1>2, <2>2, <2>3, <3>1, <3>3, SpoolFields
  <2>5. CASE ~Usable(Parent)
    <3>1. job' = Started(FreshVersion, Parent)
      BY <1>1, <2>5 DEF Resumed
    <3>2. JobInv' /\ job' \in Jobs /\ job' # NoJob /\ job'.version = FreshVersion
          /\ job'.initial[1] = Current.inc
      BY <1>1, <1>2, <1>3, <3>1, StartStep
    <3> QED BY <1>3, <2>2, <2>3, <3>2
  <2> QED BY <2>4, <2>5
<1>6. SpoolTypeOK' /\ PreparedInv' /\ ResolvedInv' /\ CancelledInv' /\ StagedInv'
  BY <1>1, <1>2, <1>4, <1>5, SpoolFields, SpoolStays
<1>7. ActorInv'
  BY <1>1, <1>2, <1>4, <1>5 DEF ActorInv, Resolved, Pending
<1> QED BY <1>5, <1>6, <1>7 DEF BInv, SpoolInv

(* One slice of a visit. *)
LEMMA CaptureSliceKeeps ==
  ASSUME BInv, CaptureSlice
  PROVE  BInv'
<1>1. /\ actor.step = "visit" /\ Current.inc = actor.inc /\ Slices
      /\ UNCHANGED <<site, head, prepared, invalid, cloud, staged, wire>>
      /\ UNCHANGED <<rows, place, ledger, past>>
  BY DEF CaptureSlice, SourceOpen, server, site
<1>2. PICK s \in {"visit", "turn"} : Goto(s)
  BY DEF CaptureSlice
<1>3. /\ prepared = Nothing /\ head.cancelled = Nothing /\ SpoolInv /\ SiteInv /\ CloudInv /\ JobInv
      /\ job # NoJob /\ job.version # cloud.checkpoint /\ job.initial[1] = Current.inc
  BY <1>1, ResolvedStep DEF BInv, Resolved, SpoolInv, ActorInv
<1>4. actor' \in Actors /\ actor'.step = s /\ actor'.inc = actor.inc
  BY <1>2, <1>3, GotoFields DEF Steps, Resolved
<1>5. Capturing
  BY <1>1, <1>3 DEF Capturing, JobPublished, SpoolInv
<1>6. JobInv' /\ job' \in Jobs /\ SameCapture
  BY <1>1, <1>3, <1>5, SchemaStep, BaselineStep, ChangesStep, CatchUpStep, SealStep, BuildStep
     DEF Slices
<1>7. job' # NoJob /\ job'.version = job.version /\ job'.initial = job.initial
  BY <1>5, <1>6, SliceStays DEF SameCapture
<1>8. SiteInv' /\ CloudInv'
  <2>1. CloudUnchanged
    BY <1>1 DEF CloudUnchanged
  <2>2. SiteInv'
    BY <1>1, <1>3 DEF SiteInv, PastInv, Current
  <2> QED BY <1>1, <1>3, <2>1, <2>2, CloudStays
<1>9. SpoolTypeOK' /\ PreparedInv' /\ ResolvedInv' /\ CancelledInv' /\ StagedInv'
  BY <1>1, <1>3, <1>4, <1>6, SpoolFields, SpoolStays
<1>10. ActorInv'
  BY <1>1, <1>3, <1>4, <1>7 DEF ActorInv, Resolved, Pending
<1> QED BY <1>6, <1>8, <1>9, <1>10 DEF BInv, SpoolInv

(* A finished capture becomes the prepared checkpoint. *)
LEMMA PrepareKeeps ==
  ASSUME BInv, Prepare
  PROVE  BInv'
<1> DEFINE base == IF job.baseline THEN None ELSE job.parent
<1>1. /\ actor.step = "visit" /\ Goto("post") /\ job.phase = "done"
      /\ prepared' = [version |-> job.version, sequence |-> head.sequence + 1,
                      parent |-> head.checkpoint, base |-> base,
                      cut |-> job.target, epoch |-> job.initial[3],
                      inc |-> job.initial[1], cancelled |-> FALSE]
      /\ UNCHANGED <<site, job, head, invalid, cloud, staged, wire>>
  BY DEF Prepare, Go, server
<1>2. /\ prepared = Nothing /\ staged = Nothing /\ head.cancelled = Nothing
      /\ cloud.checkpoint = head.checkpoint /\ cloud.sequence = head.sequence
      /\ SpoolInv /\ SpoolTypeOK /\ SiteInv
      /\ job # NoJob /\ job.version # cloud.checkpoint
  BY <1>1, ResolvedStep DEF BInv, Resolved, SpoolInv, ActorInv, ResolvedInv
<1>3. actor' \in Actors /\ actor'.step = "post"
  BY <1>1, <1>2, GotoFields DEF Steps, Pending
<1>4. base \in Names /\ base = IF job.baseline THEN None ELSE job.parent
  BY <1>2, JobFields DEF Names
<1> HIDE DEF base
<1>5. prepared' \in Prepared /\ prepared'.version = job.version
      /\ prepared'.sequence = head.sequence + 1 /\ prepared'.parent = head.checkpoint
      /\ prepared'.base = base /\ prepared'.cut = job.target
      /\ prepared'.epoch = job.initial[3] /\ prepared'.inc = job.initial[1]
  BY <1>1, <1>2, <1>4, JobFields, CloudFields DEF Prepared
<1>6. prepared' # Nothing /\ ~Published'
  <2>1. prepared'.version # None
    BY <1>2, <1>5, JobFields
  <2>2. prepared' # Nothing
    BY <2>1 DEF Nothing
  <2> QED BY <1>1, <1>2, <1>5, <2>2 DEF Published
<1>7. SiteInv' /\ JobInv' /\ CloudInv'
  <2>1. CloudUnchanged /\ JobUnchanged /\ job' # NoJob
    BY <1>1, <1>2 DEF CloudUnchanged, JobUnchanged
  <2> QED BY <1>1, <1>2, <1>3, <1>6, <2>1, WorldStays
<1>8. SpoolTypeOK'
  BY <1>1, <1>2, <1>3, <1>5 DEF SpoolTypeOK, Actors
<1>9. PreparedInv'
  BY <1>1, <1>2, <1>4, <1>5, <1>6 DEF PreparedInv
<1>10. ResolvedInv' /\ CancelledInv' /\ StagedInv'
  BY <1>1, <1>2, <1>6 DEF ResolvedInv, CancelledInv, StagedInv
<1>11. ActorInv'
  BY <1>1, <1>2, <1>3, <1>6 DEF ActorInv, Resolved, Pending
<1> QED BY <1>7, <1>8, <1>9, <1>10, <1>11 DEF BInv, SpoolInv

Staging ==
  [version |-> prepared.version, sequence |-> prepared.sequence,
   parent |-> prepared.parent, base |-> prepared.base,
   cut |-> prepared.cut, inc |-> prepared.inc, records |-> job.records]

(* A request for the prepared checkpoint and its answer.                   *)
LEMMA RequestMoves ==
  ASSUME BInv, prepared # Nothing,
         UNCHANGED <<site, job, head, prepared, invalid, cloud>>,
         NEW s \in Pending \cup {"off"}, Goto(s), s \notin {"sweep", "finish"},
         wire' \in Names, staged' = staged \/ staged' = Nothing \/ (~Published /\ staged' = Staging),
         s = "acknowledge" => Published,
         s \in {"upload", "abandon"} => staged' = Nothing /\ ~Published
  PROVE  BInv'
<1>1. SpoolInv /\ prepared \in Prepared
  BY PreparedFields DEF BInv
<1>2. actor' \in Actors /\ actor'.step = s
  BY <1>1, GotoFields DEF Steps
<1>3. Published' <=> Published
  BY DEF Published
<1>4. SiteInv' /\ JobInv' /\ CloudInv'
  <2>1. CloudUnchanged /\ JobUnchanged
    BY DEF CloudUnchanged, JobUnchanged
  <2>2. job # NoJob
    BY <1>1 DEF SpoolInv, PreparedInv
  <2> QED BY <1>2, <2>1, <2>2, WorldStays
<1>5. staged' \in Staged \cup {Nothing}
  <2>1. CASE staged' = staged
    BY <1>1, <2>1, SpoolFields
  <2>2. CASE staged' = Staging
    <3>1. job # NoJob /\ SpoolTypeOK
      BY <1>1 DEF SpoolInv, PreparedInv
    <3> QED BY <1>1, <2>2, <3>1, PreparedFields, JobFields DEF Staging, Staged
  <2> QED BY <2>1, <2>2
<1>6. SpoolTypeOK'
  BY <1>1, <1>2, <1>5 DEF SpoolInv, SpoolTypeOK, Actors
<1>7. PreparedInv'
  BY <1>1, <1>3 DEF SpoolInv, PreparedInv
<1>8. ResolvedInv' /\ CancelledInv'
  BY <1>1 DEF SpoolInv, ResolvedInv, CancelledInv
<1>9. StagedInv'
  BY <1>1, <1>3 DEF SpoolInv, StagedInv, Staging
<1>10. ActorInv'
  BY <1>2, <1>3 DEF ActorInv, Resolved, Pending
<1> QED BY <1>4, <1>6, <1>7, <1>8, <1>9, <1>10 DEF BInv, SpoolInv

(* What holds while a checkpoint is pending. *)
LEMMA PendingStep ==
  ASSUME BInv, actor.step \in Pending
  PROVE  prepared # Nothing /\ prepared.version \in Names /\ wire \in Names
<1>1. prepared # Nothing /\ wire \in Names
  BY SpoolFields DEF BInv, SpoolInv, ActorInv
<1> QED BY <1>1, PreparedFields DEF BInv, Names

(* The requests of publish() and of a cancellation. *)
LEMMA RequestsKeep ==
  ASSUME BInv, PostManifest \/ Upload \/ Receipt \/ CheckStaging \/ DeleteStaging
  PROVE  BInv'
<1>1. CASE PostManifest
  <2>1. actor.step = "post" /\ UNCHANGED <<site, job, head, prepared, invalid, cloud>>
    BY <1>1 DEF PostManifest, Go, spool
  <2>2. prepared # Nothing /\ prepared.version \in Names /\ wire \in Names
    BY <2>1, PendingStep DEF Pending
  <2>3. CASE Published /\ Go("post", "acknowledge") /\ UNCHANGED <<staged, wire>>
    BY <2>1, <2>2, <2>3, RequestMoves DEF Go, Pending
  <2>4. CASE /\ ~Published /\ staged.version = prepared.version
             /\ Go("post", "wait") /\ wire' = prepared.version /\ UNCHANGED staged
    BY <2>1, <2>2, <2>4, RequestMoves DEF Go, Pending
  <2>5. CASE /\ ~Published /\ staged.version # prepared.version
             /\ Go("post", "upload") /\ staged' = Nothing /\ UNCHANGED wire
    BY <2>1, <2>2, <2>5, RequestMoves DEF Go, Pending
  <2> QED BY <1>1, <2>3, <2>4, <2>5 DEF PostManifest
<1>2. CASE Upload
  <2>1. /\ actor.step = "upload" /\ Goto("wait") /\ staged' = Staging
        /\ wire' = prepared.version
        /\ UNCHANGED <<site, job, head, prepared, invalid, cloud>>
    BY <1>2 DEF Upload, Go, spool, Staging
  <2>2. prepared # Nothing /\ prepared.version \in Names /\ ~Published
    BY <2>1, PendingStep DEF Pending, BInv, SpoolInv, ActorInv
  <2> QED BY <2>1, <2>2, RequestMoves DEF Pending
<1>3. CASE Receipt
  <2>1. /\ actor.step = "wait" /\ Goto("acknowledge") /\ Published
        /\ UNCHANGED <<site, job, head, prepared, invalid, cloud, staged, wire>>
    BY <1>3 DEF Receipt, Go, spool, server
  <2>2. prepared # Nothing /\ wire \in Names
    BY <2>1, PendingStep DEF Pending
  <2> QED BY <2>1, <2>2, RequestMoves DEF Pending
<1>4. CASE CheckStaging
  <2>1. /\ actor.step = "cancel" /\ UNCHANGED <<site, job, head, prepared, invalid, cloud, staged, wire>>
        /\ Published => Goto("acknowledge")
        /\ ~Published => Goto("delete")
    BY <1>4 DEF CheckStaging, Go, spool, server
  <2>2. prepared # Nothing /\ wire \in Names
    BY <2>1, PendingStep DEF Pending
  <2>3. CASE Published
    BY <2>1, <2>2, <2>3, RequestMoves DEF Pending
  <2>4. CASE ~Published
    BY <2>1, <2>2, <2>4, RequestMoves DEF Pending
  <2> QED BY <2>3, <2>4
<1>5. CASE DeleteStaging
  <2>1. /\ actor.step = "delete" /\ UNCHANGED <<site, job, head, prepared, invalid, cloud, wire>>
        /\ Published => Goto("off") /\ staged' = staged
        /\ ~Published => Goto("abandon") /\ staged' = Nothing
    BY <1>5 DEF DeleteStaging, Go, spool
  <2>2. prepared # Nothing /\ wire \in Names
    BY <2>1, PendingStep DEF Pending
  <2>3. CASE Published
    BY <2>1, <2>2, <2>3, RequestMoves DEF Pending
  <2>4. CASE ~Published
    BY <2>1, <2>2, <2>4, RequestMoves DEF Pending
  <2> QED BY <2>3, <2>4
<1> QED BY <1>1, <1>2, <1>3, <1>4, <1>5

(* The intent to cancel. *)
LEMMA RejectKeeps ==
  ASSUME BInv, Reject
  PROVE  BInv'
<1>1. /\ actor.step \in Pending /\ Goto("cancel")
      /\ prepared' = [prepared EXCEPT !.cancelled = TRUE]
      /\ UNCHANGED <<site, job, head, invalid, cloud, staged, wire>>
  BY DEF Reject, server, Pending
<1>2. prepared # Nothing /\ SpoolInv /\ prepared \in Prepared
  BY <1>1, PendingStep, PreparedFields DEF BInv
<1>3. /\ prepared' \in Prepared
      /\ prepared'.version = prepared.version /\ prepared'.sequence = prepared.sequence
      /\ prepared'.parent = prepared.parent /\ prepared'.base = prepared.base
      /\ prepared'.cut = prepared.cut /\ prepared'.epoch = prepared.epoch
      /\ prepared'.inc = prepared.inc
  BY <1>1, <1>2 DEF Prepared
<1>4. prepared' # Nothing
  <2>1. prepared'.version # None
    BY <1>2, <1>3, PreparedFields
  <2> QED BY <2>1 DEF Nothing
<1>5. Published' <=> Published
  BY <1>1, <1>2, <1>3, <1>4 DEF Published
<1>6. actor' \in Actors /\ actor'.step = "cancel"
  BY <1>1, <1>2, GotoFields DEF Steps, Pending
<1>7. SiteInv' /\ JobInv' /\ CloudInv'
  <2>1. CloudUnchanged /\ JobUnchanged
    BY <1>1 DEF CloudUnchanged, JobUnchanged
  <2>2. job # NoJob
    BY <1>2 DEF SpoolInv, PreparedInv
  <2> QED BY <1>1, <1>4, <1>6, <2>1, <2>2, WorldStays
<1>8. SpoolTypeOK'
  BY <1>1, <1>2, <1>3, <1>6 DEF SpoolInv, SpoolTypeOK, Actors
<1>9. PreparedInv'
  BY <1>1, <1>2, <1>3, <1>5 DEF SpoolInv, PreparedInv
<1>10. ResolvedInv' /\ CancelledInv'
  BY <1>1, <1>2, <1>4 DEF SpoolInv, ResolvedInv, CancelledInv
<1>11. StagedInv'
  BY <1>1, <1>2, <1>3, <1>4, <1>5 DEF SpoolInv, StagedInv
<1>12. ActorInv'
  BY <1>4, <1>6 DEF ActorInv, Resolved, Pending
<1> QED BY <1>7, <1>8, <1>9, <1>10, <1>11, <1>12 DEF BInv, SpoolInv

(* A request to publish arrives, in time or late. *)
LEMMA ServerPublishKeeps ==
  ASSUME BInv, ServerPublish
  PROVE  /\ BInv'
         /\ \/ UNCHANGED cloud
            \/ /\ cloud'.moment \in cloud.moment + 1..Len(past)
               /\ cloud'.rows = past[cloud'.moment].rows
<1>1. /\ UNCHANGED <<site, job, head, prepared, invalid, actor>> /\ wire' = None /\ wire # None
      /\ UNCHANGED <<rows, place, ledger, past>>
  BY DEF ServerPublish, spool, site
<1>2. SpoolInv /\ wire' \in Names
  BY <1>1 DEF BInv, Names
<1>3. CASE staged.version = wire /\ Accepts(staged)
  <2>1. /\ staged.version = wire /\ staged' = Nothing
        /\ cloud' = [sequence |-> staged.sequence, checkpoint |-> wire,
                     rows |-> Restored(staged), moment |-> MomentOf(staged.inc, staged.cut)]
    BY <1>3 DEF ServerPublish
  <2>2. staged # Nothing
    BY <1>1, <2>1 DEF Nothing
  <2>3. prepared # Nothing /\ ~Published
    BY <1>2, <2>2 DEF SpoolInv, StagedInv
  <2>4. /\ JobInv' /\ CloudInv' /\ cloud' \in Clouds
        /\ cloud'.sequence = prepared.sequence /\ cloud'.checkpoint = prepared.version
        /\ cloud'.moment \in cloud.moment + 1..Len(past)
        /\ cloud'.rows = past[cloud'.moment].rows
    BY <1>1, <1>2, <2>1, <2>2, PublishStep DEF BInv
  <2>5. SiteInv'
    BY <1>1 DEF BInv, SiteInv, PastInv, Current
  <2>6. Published'
    BY <1>1, <2>3, <2>4 DEF Published
  <2>7. SpoolTypeOK'
    BY <1>1, <1>2, <2>1, <2>4 DEF SpoolInv, SpoolTypeOK
  <2>8. PreparedInv'
    BY <1>1, <1>2, <2>4, <2>6 DEF SpoolInv, PreparedInv
  <2>9. ResolvedInv' /\ CancelledInv' /\ StagedInv'
    BY <1>1, <1>2, <2>1, <2>3 DEF SpoolInv, PreparedInv, ResolvedInv, CancelledInv, StagedInv
  <2>10. ActorInv'
    <3>1. actor.step \notin Resolved /\ actor.step \notin {"upload", "abandon"}
      BY <1>2, <2>2, <2>3 DEF SpoolInv, ActorInv
    <3> QED BY <1>1, <2>3, <2>6, <3>1, <1>2 DEF SpoolInv, ActorInv, PreparedInv, Resolved
  <2> QED BY <2>4, <2>5, <2>7, <2>8, <2>9, <2>10 DEF BInv, SpoolInv
<1>4. CASE ~(staged.version = wire /\ Accepts(staged))
  <2>1. UNCHANGED <<cloud, staged>>
    BY <1>4 DEF ServerPublish, server
  <2>2. actor' \in Actors /\ invalid' \subseteq Versions
    BY <1>1, <1>2, SpoolFields
  <2>3. /\ SiteInv' /\ JobInv' /\ CloudInv' /\ (Published' <=> Published)
        /\ SpoolTypeOK' /\ PreparedInv' /\ ResolvedInv' /\ CancelledInv' /\ StagedInv'
    BY <1>1, <1>2, <2>1, <2>2, ActorMoves
  <2>4. ActorInv'
    BY <1>1, <1>2, <2>1, <2>3 DEF SpoolInv, ActorInv
  <2> QED BY <2>1, <2>3, <2>4 DEF BInv, SpoolInv
<1> QED BY <1>3, <1>4

(* A cancelled checkpoint leaves its sequence to be adopted. *)
LEMMA AbandonPreparedKeeps ==
  ASSUME BInv, AbandonPrepared
  PROVE  BInv'
<1> DEFINE given == [version |-> prepared.version, sequence |-> prepared.sequence,
                     parent |-> prepared.parent]
<1>1. /\ actor.step = "abandon" /\ Goto("adopt")
      /\ job' = IF job.version = prepared.version
                THEN [job EXCEPT !.invalidated = TRUE] ELSE job
      /\ invalid' = invalid \cup {prepared.version}
      /\ head' = [head EXCEPT !.cancelled = given] /\ prepared' = Nothing
      /\ UNCHANGED <<site, cloud, staged, wire>> /\ UNCHANGED past
  BY DEF AbandonPrepared, Go, server, site
<1>2. /\ prepared # Nothing /\ staged = Nothing /\ ~Published /\ SpoolInv /\ SpoolTypeOK
      /\ job # NoJob /\ job.version = prepared.version
      /\ prepared.sequence = head.sequence + 1 /\ prepared.parent = head.checkpoint
      /\ cloud.sequence = head.sequence /\ cloud.checkpoint = head.checkpoint
  BY <1>1, PendingStep DEF BInv, SpoolInv, ActorInv, PreparedInv, Pending
<1>3. prepared.version \in Versions /\ prepared.version # None /\ prepared.sequence \in Nat
      /\ prepared.parent \in Names
  BY <1>2, PreparedFields
<1>4. given \in Cancelled /\ given # Nothing
      /\ given.sequence = head.sequence + 1 /\ given.parent = head.checkpoint
  <2>1. given.version # None
    BY <1>3
  <2> QED BY <1>2, <1>3, <2>1 DEF Cancelled, Nothing
<1> HIDE DEF given
<1>5. actor' \in Actors /\ actor'.step = "adopt"
  BY <1>1, <1>2, GotoFields DEF Steps, Resolved
<1>6. head' \in Heads /\ head'.cancelled = given /\ head'.sequence = head.sequence
      /\ head'.checkpoint = head.checkpoint /\ head'.inc = head.inc
  BY <1>1, <1>2, <1>4 DEF SpoolTypeOK, Heads
<1>7. job' \in Jobs /\ job' # NoJob /\ JobUnchanged
  <2>1. job' = [job EXCEPT !.invalidated = TRUE] /\ job \in Jobs
    BY <1>1, <1>2, JobFields
  <2>2. job' \in Jobs /\ JobUnchanged
    BY <2>1 DEF Jobs, JobUnchanged
  <2>3. job'.version # None
    BY <1>2, <2>2, JobFields DEF JobUnchanged
  <2> QED BY <2>2, <2>3 DEF NoJob
<1>8. SiteInv' /\ JobInv' /\ CloudInv'
  <2>1. CloudUnchanged
    BY <1>1, <1>6 DEF CloudUnchanged
  <2>2. cloud.moment < Len(past) /\ cloud.moment \in Nat /\ Len(past) \in Nat
    BY <1>2, SiteFields, CloudFields DEF BInv, JobInv, JobBounds, JobPublished, Published
  <2> QED BY <1>1, <1>2, <1>7, <2>1, <2>2, WorldStays
<1>9. SpoolTypeOK'
  BY <1>1, <1>2, <1>3, <1>5, <1>6, <1>7 DEF SpoolTypeOK, Actors
<1>10. PreparedInv' /\ StagedInv'
  BY <1>1, <1>2 DEF PreparedInv, StagedInv
<1>11. ResolvedInv' /\ CancelledInv'
  BY <1>1, <1>2, <1>4, <1>6, CloudFields DEF ResolvedInv, CancelledInv
<1>12. ActorInv'
  BY <1>1, <1>4, <1>5, <1>6 DEF ActorInv, Resolved, Pending
<1> QED BY <1>8, <1>9, <1>10, <1>11, <1>12 DEF BInv, SpoolInv

(* The server gives the sequence up. *)
LEMMA AdoptCancellationKeeps ==
  ASSUME BInv, AdoptCancellation
  PROVE  BInv'
<1>1. /\ actor.step = "adopt" /\ Goto("adopted")
      /\ cloud' = [cloud EXCEPT !.sequence = head.cancelled.sequence]
      /\ UNCHANGED <<site, job, head, prepared, invalid, staged, wire>>
  BY DEF AdoptCancellation, Go, spool
<1>2. /\ prepared = Nothing /\ staged = Nothing /\ cloud.checkpoint = head.checkpoint
      /\ head.cancelled # Nothing /\ SpoolInv /\ SpoolTypeOK
      /\ head.cancelled.sequence = head.sequence + 1
      /\ head.cancelled.parent = head.checkpoint /\ head.sequence \in Nat
  BY <1>1, ResolvedStep, CloudFields DEF BInv, SpoolInv, ActorInv, CancelledInv, Resolved
<1>3. actor' \in Actors /\ actor'.step = "adopted"
  BY <1>1, <1>2, GotoFields DEF Steps, Resolved
<1>4. /\ cloud' \in Clouds /\ cloud'.sequence = head.cancelled.sequence
      /\ cloud'.checkpoint = cloud.checkpoint /\ cloud'.rows = cloud.rows
      /\ cloud'.moment = cloud.moment
  BY <1>1, <1>2 DEF SpoolTypeOK, Clouds
<1>5. SiteInv' /\ JobInv' /\ CloudInv'
  <2>1. CloudUnchanged /\ JobUnchanged
    BY <1>1, <1>4 DEF CloudUnchanged, JobUnchanged
  <2>2. job' = NoJob \/ (job # NoJob /\ JobUnchanged)
    BY <1>1, <2>1
  <2> QED BY <1>1, <1>2, <1>3, <2>1, <2>2, WorldStays
<1>6. SpoolTypeOK'
  BY <1>1, <1>2, <1>3, <1>4 DEF SpoolTypeOK, Actors
<1>7. PreparedInv' /\ StagedInv'
  BY <1>1, <1>2 DEF PreparedInv, StagedInv
<1>8. ResolvedInv' /\ CancelledInv'
  BY <1>1, <1>2, <1>4 DEF ResolvedInv, CancelledInv
<1>9. ActorInv'
  BY <1>1, <1>2, <1>3, <1>4 DEF ActorInv, Resolved, Pending
<1> QED BY <1>5, <1>6, <1>7, <1>8, <1>9 DEF BInv, SpoolInv

(* And so does the spool. *)
LEMMA SaveAdoptionKeeps ==
  ASSUME BInv, SaveAdoption
  PROVE  BInv'
<1>1. /\ actor.step = "adopted" /\ \E s \in {"off", "prepare"} : Goto(s)
      /\ head' = [head EXCEPT !.sequence = head.cancelled.sequence,
                              !.checkpoint = head.cancelled.parent, !.cancelled = Nothing]
      /\ UNCHANGED <<site, job, prepared, invalid, cloud, staged, wire>>
  BY DEF SaveAdoption, Go, server
<1>2. /\ prepared = Nothing /\ staged = Nothing /\ cloud.checkpoint = head.checkpoint
      /\ SpoolInv /\ SpoolTypeOK /\ cloud.sequence = head.cancelled.sequence
      /\ head.cancelled.parent = head.checkpoint
  BY <1>1, ResolvedStep DEF BInv, SpoolInv, ActorInv, CancelledInv, Resolved
<1>3. actor' \in Actors /\ actor'.step \in {"off", "prepare"}
  BY <1>1, <1>2, GotoFields DEF Steps, Resolved
<1>4. /\ head' \in Heads /\ head'.sequence = cloud.sequence
      /\ head'.checkpoint = head.checkpoint /\ head'.cancelled = Nothing /\ head'.inc = head.inc
  <2>1. cloud.sequence \in Nat /\ head.checkpoint \in Names /\ head \in Heads
    BY <1>2, CloudFields DEF SpoolTypeOK
  <2> QED BY <1>1, <1>2, <2>1 DEF Heads
<1>5. SiteInv' /\ JobInv' /\ CloudInv'
  <2>1. CloudUnchanged /\ JobUnchanged
    BY <1>1, <1>4 DEF CloudUnchanged, JobUnchanged
  <2>2. job' = NoJob \/ (job # NoJob /\ JobUnchanged)
    BY <1>1, <2>1
  <2> QED BY <1>1, <1>2, <1>3, <2>1, <2>2, WorldStays
<1>6. SpoolTypeOK'
  BY <1>1, <1>2, <1>3, <1>4 DEF SpoolTypeOK, Actors
<1>7. PreparedInv' /\ StagedInv'
  BY <1>1, <1>2 DEF PreparedInv, StagedInv
<1>8. ResolvedInv' /\ CancelledInv'
  BY <1>1, <1>2, <1>4 DEF ResolvedInv, CancelledInv
<1>9. ActorInv'
  BY <1>1, <1>2, <1>3, <1>4 DEF ActorInv, Resolved, Pending
<1> QED BY <1>5, <1>6, <1>7, <1>8, <1>9 DEF BInv, SpoolInv

(* The ledger is told, then the head.                                      *)
LEMMA LedgerStepKeeps ==
  ASSUME BInv, Acknowledge \/ Sweep
  PROVE  BInv'
<1>1. /\ actor.step \in {"acknowledge", "sweep"}
      /\ \E s \in {"sweep", "finish"} : Goto(s)
      /\ UNCHANGED <<job, head, prepared, invalid, cloud, staged, wire>>
  BY DEF Acknowledge, Sweep, Go, spool, server
<1>2. SiteInv' /\ JobInv' /\ CloudInv'
  BY AcknowledgeStep, SweepStep DEF BInv
<1>3. Published /\ prepared # Nothing /\ SpoolInv
  BY <1>1, FinishingFields DEF BInv
<1>4. actor' \in Actors /\ actor'.step \in {"sweep", "finish"}
  BY <1>1, <1>3, GotoFields DEF Steps, Pending
<1>5. /\ SpoolTypeOK' /\ PreparedInv' /\ ResolvedInv' /\ CancelledInv' /\ StagedInv'
      /\ Published' <=> Published
  BY <1>1, <1>3, <1>4, SpoolFields, SpoolStays
<1>6. ActorInv'
  BY <1>1, <1>3, <1>4, <1>5 DEF ActorInv, Resolved, Pending
<1> QED BY <1>2, <1>5, <1>6 DEF BInv, SpoolInv

(* The checkpoint is resolved. *)
LEMMA FinishKeeps ==
  ASSUME BInv, Finish
  PROVE  BInv'
<1>1. /\ actor.step = "finish" /\ Goto("discard")
      /\ head' = [head EXCEPT !.sequence = prepared.sequence,
                              !.checkpoint = prepared.version, !.inc = prepared.inc]
      /\ prepared' = Nothing
      /\ UNCHANGED <<site, job, invalid, cloud, staged, wire>>
  BY DEF Finish, Go, server
<1>2. SiteInv' /\ JobInv' /\ CloudInv'
  BY FinishStep DEF BInv
<1>3. /\ prepared # Nothing /\ staged = Nothing /\ head.cancelled = Nothing
      /\ cloud.checkpoint = prepared.version /\ cloud.sequence = prepared.sequence
      /\ SpoolInv /\ SpoolTypeOK
  BY <1>1, FinishingFields DEF BInv, SpoolInv
<1>4. actor' \in Actors /\ actor'.step = "discard"
  BY <1>1, <1>3, GotoFields DEF Steps, Resolved
<1>5. /\ head' \in Heads /\ head'.sequence = cloud.sequence
      /\ head'.checkpoint = cloud.checkpoint /\ head'.cancelled = Nothing
  <2>1. cloud.sequence \in Nat /\ cloud.checkpoint \in Names /\ prepared.inc \in Nat /\ head \in Heads
    BY <1>3, CloudFields, PreparedFields DEF SpoolTypeOK
  <2> QED BY <1>1, <1>3, <2>1 DEF Heads
<1>6. SpoolTypeOK'
  BY <1>1, <1>3, <1>4, <1>5 DEF SpoolTypeOK, Actors
<1>7. PreparedInv' /\ StagedInv' /\ ResolvedInv' /\ CancelledInv'
  BY <1>1, <1>3, <1>5 DEF PreparedInv, StagedInv, ResolvedInv, CancelledInv
<1>8. ActorInv'
  BY <1>1, <1>4 DEF ActorInv, Resolved, Pending
<1> QED BY <1>2, <1>6, <1>7, <1>8 DEF BInv, SpoolInv

(* The website goes on meanwhile. *)
LEMMA WebsiteKeeps ==
  ASSUME BInv, Website
  PROVE  BInv' /\ UNCHANGED cloud /\ (Grown \/ UNCHANGED <<rows, past>>)
<1>1. UNCHANGED <<job, head, prepared, invalid, cloud, staged, actor, wire>>
  BY DEF Website, spool, server
<1>2. SpoolInv /\ SpoolTypeOK
  BY DEF BInv, SpoolInv
<1>3. SiteInv' /\ JobInv' /\ CloudInv' /\ (Grown \/ UNCHANGED <<rows, past>>)
  BY <1>2, WebsiteStep DEF BInv
<1>4. /\ SpoolTypeOK' /\ PreparedInv' /\ ResolvedInv' /\ CancelledInv' /\ StagedInv'
      /\ Published' <=> Published
  BY <1>1, <1>2, SpoolFields, SpoolStays
<1>5. ActorInv'
  BY <1>1, <1>2, <1>4 DEF SpoolInv, ActorInv
<1> QED BY <1>1, <1>3, <1>4, <1>5 DEF BInv, SpoolInv

-----------------------------------------------------------------------------
(* The invariant holds at the start. *)
LEMMA BInit == Init => BInv
<1> SUFFICES ASSUME Init PROVE BInv
  OBVIOUS
<1>1. SiteInv /\ Len(past) = 1
  BY SiteBegins DEF Init
<1>2. /\ job = NoJob /\ actor = Off /\ prepared = Nothing /\ invalid = {}
      /\ head = [sequence |-> 0, checkpoint |-> None, inc |-> 0, cancelled |-> Nothing]
      /\ cloud = [sequence |-> 0, checkpoint |-> None, rows |-> NoRows, moment |-> 0]
      /\ staged = Nothing /\ wire = None
  BY DEF Init
<1>3. NoRows \in Rows
  BY LocalDirtyAssumption DEF NoRows, Rows
<1>4. SpoolTypeOK
  BY <1>2, <1>3 DEF SpoolTypeOK, Heads, Clouds, Names, Off, Steps
<1>5. ActorInv /\ PreparedInv /\ ResolvedInv /\ CancelledInv /\ StagedInv
  BY <1>2 DEF ActorInv, PreparedInv, ResolvedInv, CancelledInv, StagedInv, Off, Resolved, Pending
<1>6. JobInv
  BY <1>2 DEF JobInv
<1>7. CloudInv
  BY <1>1, <1>2 DEF CloudInv, CloudShape, CloudMarked, CloudNewest
<1> QED BY <1>1, <1>4, <1>5, <1>6, <1>7 DEF BInv, SpoolInv

(* Every step keeps it. *)
LEMMA BStep == BInv /\ [Next]_vars => BInv'
<1> SUFFICES ASSUME BInv, [Next]_vars PROVE BInv'
  OBVIOUS
<1>1. CASE Next
  BY <1>1, WebsiteKeeps, BeginKeeps, DropsKeep, VisitKeeps, CaptureSliceKeeps, PrepareKeeps,
     RequestsKeep, ServerPublishKeeps, RejectKeeps, AbandonPreparedKeeps,
     AdoptCancellationKeeps, SaveAdoptionKeeps, LedgerStepKeeps, FinishKeeps, StopKeeps
     DEF Next
<1>2. CASE UNCHANGED vars
  <2>1. /\ UNCHANGED <<site, job, head, prepared, invalid, cloud, staged, actor, wire>>
    BY <1>2 DEF vars, spool, server
  <2>2. SpoolInv
    BY DEF BInv
  <2>3. actor' \in Actors /\ invalid' \subseteq Versions /\ wire' \in Names
    BY <2>1, <2>2, SpoolFields
  <2>4. /\ SiteInv' /\ JobInv' /\ CloudInv' /\ (Published' <=> Published)
        /\ SpoolTypeOK' /\ PreparedInv' /\ ResolvedInv' /\ CancelledInv' /\ StagedInv'
    BY <2>1, <2>3, ActorMoves
  <2>5. ActorInv'
    BY <2>1, <2>2, <2>4 DEF SpoolInv, ActorInv
  <2> QED BY <2>4, <2>5 DEF BInv, SpoolInv
<1> QED BY <1>1, <1>2

(* The inductive invariant: the ledger describes the rows, the spool knows *)
(* what the server may have, a capture and the marks of the ledger         *)
(* together give the website, and so do the cloud and its marks (local-    *)
(* dirty-v2.ts, backup-v2-resume.ts, backup-v2-spool.ts,                   *)
(* backup-v2-service.ts).                                                  *)
THEOREM BackupInvariant == Spec => []BInv
  BY BInit, BStep, PTL DEF Spec

-----------------------------------------------------------------------------
(* What follows from the invariant. *)

(* The ledger describes the rows. *)
LEMMA RowsCapturableHolds == BInv => RowsCapturable
  BY DEF BInv, SiteInv, Describes, RowsCapturable, Sized, Current

(* A collection that ended has swept everything. *)
LEMMA SweepLeavesNothingHolds == BInv => SweepLeavesNothing
<1> SUFFICES ASSUME BInv, NEW p \in DOMAIN ledger,
                    NEW l, l = ledger[p], l.gc.goal = Goal(l), l.gc.dirtyDone, l.gc.sizeDone
             PROVE  /\ \A m \in l.dirty : ~GarbageMarker(l, m)
                    /\ \A s \in l.sizes : ~GarbageSize(l, s)
  BY DEF SweepLeavesNothing
<1>1. LedgerInv(l)
  BY DEF BInv, SiteInv
<1>2. /\ l.gc.goal # <<>> /\ l.gc.goal[1] = l.epoch /\ l.gc.goal[3] = l.acknowledged
      /\ l.gc.goal[4] = l.storeEpoch
  BY DEF Goal
<1>3. Swept(l.gc, l.dirty, l.sizes)
  BY <1>1, <1>2 DEF LedgerInv, SweepInv
<1> QED BY <1>1, <1>2, <1>3 DEF Swept, GarbageMarker, GarbageSize, LedgerInv

(* Nothing pending, nothing in doubt. *)
LEMMA HeadsAgreeHolds == BInv => HeadsAgree
  BY DEF BInv, SpoolInv, ResolvedInv, HeadsAgree

(* The prepared checkpoint is the job in the spool. *)
LEMMA PreparedIsKeptHolds == BInv => PreparedIsKept
  BY DEF BInv, SpoolInv, PreparedInv, PreparedIsKept

(* It was prepared on the head the server has, and so was its capture. *)
LEMMA NeverInConflictHolds == BInv => NeverInConflict
<1> SUFFICES ASSUME BInv, prepared # Nothing, ~Published
             PROVE  /\ prepared.sequence = cloud.sequence + 1
                    /\ prepared.parent = cloud.checkpoint
                    /\ prepared.base \in {None, cloud.checkpoint}
  BY DEF NeverInConflict
<1>1. /\ job # NoJob /\ ~JobPublished
      /\ prepared.sequence = head.sequence + 1 /\ prepared.parent = head.checkpoint
      /\ prepared.base = IF job.baseline THEN None ELSE job.parent
      /\ cloud.sequence = head.sequence /\ cloud.checkpoint = head.checkpoint
  BY DEF BInv, SpoolInv, PreparedInv, Published, JobPublished
<1>2. job.parent \in {None, cloud.checkpoint}
  BY <1>1 DEF BInv, JobInv, JobBounds
<1> QED BY <1>1, <1>2

(* If the head is the version the cloud has, the marks are relative to it. *)
(* If not, the prepared checkpoint was published; the head names its       *)
(* database or a baseline is due.                                          *)
LEMMA NothingForgottenHolds == BInv => NothingForgotten
<1> SUFFICES ASSUME BInv, Current.inc = head.inc, head.checkpoint # None, ~Current.baseline,
                    NEW k \in Keys, rows[k] # cloud.rows[k]
             PROVE  \E m \in Live(Current) : m.key = k
  BY DEF NothingForgotten
<1>1. cloud.moment > 0 /\ Current.inc = past[cloud.moment].inc
  <2>1. CASE cloud.checkpoint = head.checkpoint
    <3>1. cloud.moment \in Nat
      BY CloudFields DEF BInv, SpoolInv
    <3> QED BY <2>1, <3>1 DEF BInv, CloudInv, CloudShape
  <2>2. CASE cloud.checkpoint # head.checkpoint
    <3>1. /\ prepared # Nothing /\ job # NoJob /\ job.phase = "done"
          /\ job.version = prepared.version /\ job.version # head.checkpoint
          /\ cloud.checkpoint = job.version
      BY <2>2 DEF BInv, SpoolInv, ResolvedInv, PreparedInv, Published
    <3>2. PICK i \in 1..Len(past) : past[i].inc = job.initial[1] /\ i = cloud.moment
      BY <3>1 DEF BInv, JobInv, SealedInv, Sealed, JobPublished
    <3>3. head.inc = job.initial[1]
      BY <3>1 DEF BInv, JobInv, Replacing
    <3>4. cloud.moment > 0
      BY <3>2, SiteFields DEF BInv
    <3> QED BY <3>2, <3>3, <3>4
  <2> QED BY <2>1, <2>2
<1>2. Marks(Current, k, Current.acknowledged)
  BY <1>1 DEF BInv, CloudInv, CloudMarked
<1> QED BY <1>2 DEF Marks, Live

(* What differs from the published version is marked in the ledger, or a   *)
(* baseline is due: no acknowledgement and no collection forgets a change  *)
(* (acknowledgeLocalDirty, collectLocalDirtyGarbage).                      *)
THEOREM BackupNothingForgotten == Spec => []NothingForgotten
  BY BackupInvariant, NothingForgottenHolds, PTL

(* A prepared checkpoint that is not published fits on the head the server *)
(* has, however many requests and replies were lost, delayed or cancelled  *)
(* (prepare, finish, adoptCancellation).                                   *)
THEOREM BackupNeverInConflict == Spec => []NeverInConflict
  BY BackupInvariant, NeverInConflictHolds, PTL

(* While a checkpoint is pending, the spool keeps its sealed parts         *)
(* (prepare, evictPartial).                                                *)
THEOREM BackupPreparedIsKept == Spec => []PreparedIsKept
  BY BackupInvariant, PreparedIsKeptHolds, PTL

(* With nothing pending, the head in the spool is that of the server,      *)
(* although every reply may be lost and a cancelled publication may arrive *)
(* late (finish, cancelRejectedPreparation).                               *)
THEOREM BackupHeadsAgree == Spec => []HeadsAgree
  BY BackupInvariant, HeadsAgreeHolds, PTL

(* Every row has a size record of the current epoch of its store, so that  *)
(* no capture is given up for the lack of one (pump,                       *)
(* collectLocalDirtyGarbage).                                              *)
THEOREM BackupRowsCapturable == Spec => []RowsCapturable
  BY BackupInvariant, RowsCapturableHolds, PTL

(* A collection that says it is done has left no garbage, although its     *)
(* goal may have moved while its cursors were halfway                      *)
(* (collectLocalDirtyGarbage).                                             *)
THEOREM BackupSweepLeavesNothing == Spec => []SweepLeavesNothing
  BY BackupInvariant, SweepLeavesNothingHolds, PTL

-----------------------------------------------------------------------------
PastRows == [i \in DOMAIN past |-> past[i].rows]

(* The first states agree. *)
LEMMA ChainBegins == Init => Chain!Init
<1> SUFFICES ASSUME Init PROVE Chain!Init
  OBVIOUS
<1>1. SiteInv /\ Len(past) = 1
  BY SiteBegins DEF Init
<1>2. past[1].rows \in Rows /\ DOMAIN past = 1..1
  BY <1>1, SiteFields, PastFields
<1>3. PastRows = <<past[1].rows>>
  BY <1>2 DEF PastRows
<1>4. cloud.moment = 0 /\ cloud.rows = NoRows
  BY DEF Init
<1> QED BY <1>2, <1>3, <1>4 DEF Chain!Init, PastRows

(* A transaction of the website is a Commit. *)
LEMMA ChainCommits ==
  ASSUME BInv, BInv', Grown, UNCHANGED cloud
  PROVE  Chain!Commit
<1>1. /\ past \in Seq(Entries) /\ past' \in Seq(Entries) /\ DOMAIN past = 1..Len(past)
      /\ DOMAIN past' = 1..Len(past') /\ Len(past) \in Nat /\ Len(past') = Len(past) + 1
      /\ rows' \in Rows
  BY SiteFields DEF BInv, SiteInv, PastInv, Grown
<1>2. \A i \in 1..Len(past) : past'[i] = past[i]
  BY DEF Grown
<1>3. past'[Len(past) + 1].rows = rows'
  BY <1>1 DEF Grown, Entry
<1>4. \A i \in 1..Len(past) : past[i].rows \in Rows
  BY PastFields DEF BInv
<1>5. PastRows \in Seq(Rows) /\ Len(PastRows) = Len(past)
  BY <1>1, <1>4 DEF PastRows
<1> DEFINE R == PastRows
           S == Append(R, rows')
<1>6. /\ S \in Seq(Rows) /\ Len(S) = Len(past) + 1 /\ DOMAIN S = 1..(Len(past) + 1)
      /\ \A i \in 1..Len(past) : S[i] = R[i]
      /\ S[Len(past) + 1] = rows'
  BY <1>1, <1>5
<1>7. \A i \in 1..Len(past) : R[i] = past[i].rows
  BY <1>1 DEF PastRows
<1> HIDE DEF S, R
<1>8. PastRows' = S
  <2>1. PastRows' = [i \in 1..(Len(past) + 1) |-> past'[i].rows]
    BY <1>1 DEF PastRows
  <2>2. \A i \in 1..(Len(past) + 1) : past'[i].rows = S[i]
    <3> SUFFICES ASSUME NEW i \in 1..(Len(past) + 1) PROVE past'[i].rows = S[i]
      OBVIOUS
    <3>1. CASE i = Len(past) + 1
      BY <1>3, <1>6, <3>1
    <3>2. CASE i \in 1..Len(past)
      BY <1>2, <1>6, <1>7, <3>2
    <3> QED BY <1>1, <3>1, <3>2
  <2>3. S = [i \in 1..(Len(past) + 1) |-> S[i]]
    BY <1>6
  <2> QED BY <2>1, <2>2, <2>3
<1>9. PastRows' = Append(PastRows, rows')
  BY <1>8 DEF S, R
<1> QED BY <1>1, <1>9 DEF Chain!Commit, PastRows

(* Only the server's publication is a Publish; every other step stutters.  *)
LEMMA ChainSteps == BInv /\ BInv' /\ [Next]_vars => [Chain!Next]_(Chain!vars)
<1> SUFFICES ASSUME BInv, BInv', [Next]_vars PROVE Chain!Next \/ UNCHANGED Chain!vars
  OBVIOUS
<1>1. CASE Website
  <2>1. UNCHANGED cloud /\ (Grown \/ UNCHANGED past)
    BY <1>1, WebsiteKeeps
  <2>2. CASE Grown
    BY <2>1, <2>2, ChainCommits DEF Chain!Next
  <2>3. CASE UNCHANGED past
    BY <2>1, <2>3 DEF Chain!vars
  <2> QED BY <2>1, <2>2, <2>3
<1>2. CASE ServerPublish
  <2>1. UNCHANGED past
    BY <1>2 DEF ServerPublish, site
  <2>2. \/ UNCHANGED cloud
        \/ /\ cloud'.moment \in cloud.moment + 1..Len(past)
           /\ cloud'.rows = past[cloud'.moment].rows
    BY <1>2, ServerPublishKeeps
  <2>3. CASE UNCHANGED cloud
    BY <2>1, <2>3 DEF Chain!vars
  <2>4. CASE /\ cloud'.moment \in cloud.moment + 1..Len(past)
             /\ cloud'.rows = past[cloud'.moment].rows
    <3>1. DOMAIN past = 1..Len(past) /\ cloud.moment \in Nat /\ Len(past) \in Nat
      BY SiteFields, CloudFields DEF BInv, SpoolInv
    <3>2. /\ PastRows \in [1..Len(past) -> Rows] /\ \A i \in 1..Len(past) : PastRows[i] = past[i].rows
      BY <3>1, PastFields DEF PastRows, BInv
    <3>3. PastRows \in Seq(Rows) /\ Len(PastRows) = Len(past)
      BY <3>1, <3>2
    <3>4. cloud'.moment \in 1..Len(past)
      BY <2>4, <3>1
    <3>5. cloud'.rows = PastRows[cloud'.moment]
      BY <2>4, <3>2, <3>4
    <3>6. UNCHANGED PastRows
      BY <2>1 DEF PastRows
    <3> QED BY <2>4, <3>3, <3>5, <3>6 DEF Chain!Next, Chain!Publish, PastRows
  <2> QED BY <2>2, <2>3, <2>4
<1>3. CASE UNCHANGED vars
  BY <1>3 DEF vars, site, server, Chain!vars
<1>4. CASE Next /\ ~Website /\ ~ServerPublish
  <2>1. UNCHANGED past
    BY <1>4 DEF Next, Begin, ClearUnprepared, SkipClean, Visit, CaptureSlice, GiveUp, Evict,
       Prepare, PostManifest, Upload, Receipt, Reject, CheckStaging, DeleteStaging,
       AbandonPrepared, AdoptCancellation, SaveAdoption, Acknowledge, Sweep, Finish,
       Discard, Stop, site
  <2>2. cloud'.moment = cloud.moment /\ cloud'.rows = cloud.rows
    <3>1. CASE AdoptCancellation
      <4>1. cloud \in Clouds
        BY DEF BInv, SpoolInv, SpoolTypeOK
      <4> QED BY <3>1, <4>1 DEF AdoptCancellation, Clouds
    <3>2. CASE ~AdoptCancellation
      BY <1>4, <3>2 DEF Next, Begin, ClearUnprepared, SkipClean, Visit, CaptureSlice, GiveUp, Evict,
       Prepare, PostManifest, Upload, Receipt, Reject, CheckStaging, DeleteStaging,
       AbandonPrepared, SaveAdoption, Acknowledge, Sweep, Finish,
       Discard, Stop, server
    <3> QED BY <3>1, <3>2
  <2> QED BY <2>1, <2>2 DEF Chain!vars
<1> QED BY <1>1, <1>2, <1>3, <1>4

(* The protocol of the backups implements BackupChain: the cloud goes from *)
(* one committed state of the website to a later one, whole, whatever is   *)
(* written during a capture and wherever the actor stops                   *)
(* (resumeBackupNamespace, prepare, publish).                              *)
THEOREM BackupImplementsBackupChain == Spec => ImplementsBackupChain
<1>1. Init => Chain!Init
  BY ChainBegins
<1>2. BInv /\ BInv' /\ [Next]_vars => [Chain!Next]_(Chain!vars)
  BY ChainSteps
<1> QED BY <1>1, <1>2, BackupInvariant, PTL DEF Spec, ImplementsBackupChain, Chain!Spec

(* The cloud has one of the committed states. *)
LEMMA Whole == BInv => Chain!OneMoment
<1> SUFFICES ASSUME BInv, cloud.moment > 0 PROVE cloud.rows = PastRows[cloud.moment]
  BY DEF Chain!OneMoment, PastRows
<1>1. cloud.rows = past[cloud.moment].rows /\ cloud.moment \in 1..Len(past) /\ DOMAIN past = 1..Len(past)
  BY SiteFields, CloudFields DEF BInv, SpoolInv, CloudInv, CloudShape
<1> QED BY <1>1 DEF PastRows

(* Once there is a backup, a restore gives the website as it was at one    *)
(* committed moment (the promise of BackupChain).                          *)
THEOREM BackupIsOneMoment == Spec => []Chain!OneMoment
  BY Whole, BackupInvariant, PTL

=============================================================================
