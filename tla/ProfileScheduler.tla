--------------------------- MODULE ProfileScheduler ---------------------------
(***************************************************************************)
(* web/src/profile-sync-scheduler.ts: when the durable outbox of a profile *)
(* is drained.  The source numbers the changes it hears of and compares    *)
(* the last one with the last one saved and with the one its drain started *)
(* from; only the two comparisons are kept here.  Deadlines and backoff    *)
(* are a timer that is set or not.                                         *)
(***************************************************************************)

VARIABLES
  dirty,   \* version > cleanVersion
  newer,   \* version > startedVersion
  due,     \* dueAt is defined
  timer,   \* a timer is set
  paused,  \* after a failure that is not retryable
  flight   \* "none", "run" while options.run() runs, "settle" until finally

scheduler == <<dirty, newer, due, timer, paused, flight>>

SchedulerInit ==
  /\ dirty = FALSE /\ newer = FALSE /\ due = FALSE
  /\ timer = FALSE /\ paused = FALSE /\ flight = "none"

SchedulerRestarts ==
  /\ dirty' = FALSE /\ newer' = FALSE /\ due' = FALSE
  /\ timer' = FALSE /\ paused' = FALSE /\ flight' = "none"

Arm == timer' = (~paused' /\ dirty' /\ due' /\ flight' = "none")

(* changed(): only a change of a website that is not blocked ends a pause. *)
Changed(resumePaused) ==
  /\ dirty' = TRUE /\ newer' = TRUE /\ due' = TRUE
  /\ paused' = (paused /\ ~resumePaused)
  /\ UNCHANGED flight
  /\ Arm

MutReconcileDirty == dirty /\ UNCHANGED <<dirty, newer, due, paused, flight>> /\ Arm

ReconcileDirty ==
  \/ ~dirty /\ Changed(FALSE)
  \/ dirty /\ UNCHANGED <<dirty, newer, due, paused, flight>> /\ Arm

Start ==
  /\ flight = "none" /\ flight' = "run"
  /\ dirty' = TRUE /\ newer' = FALSE
  /\ due' = FALSE /\ timer' = FALSE

TimerFires == timer /\ Start /\ UNCHANGED paused

(* During a flight flushNow() joins it and changes nothing. *)
FlushNow == Start /\ paused' = FALSE

MutSucceeded ==
  /\ dirty' = FALSE
  /\ paused' = FALSE /\ flight' = "settle"
  /\ UNCHANGED <<newer, due, timer>>

Succeeded ==
  /\ dirty' = newer
  /\ paused' = FALSE /\ flight' = "settle"
  /\ UNCHANGED <<newer, due, timer>>

Failed(retryable) ==
  /\ paused' = ~retryable
  /\ due' = TRUE /\ flight' = "settle"
  /\ UNCHANGED <<dirty, newer, timer>>

(* finally, after onSuccess or onError. *)
Settle ==
  /\ flight = "settle" /\ flight' = "none"
  /\ UNCHANGED <<dirty, newer, due, paused>>
  /\ Arm

(* A change that was heard of and is not saved waits for a timer, or is in *)
(* the flight, or is held by a pause: there is no fourth place, where      *)
(* nothing would ever start its drain.                                     *)
NeverIdle == (dirty /\ ~paused /\ flight = "none") => timer

=============================================================================
