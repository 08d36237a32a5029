----------------------------- MODULE JobContract -----------------------------
(***************************************************************************)
(* What the task list promises to somebody who submits a job and watches   *)
(* it, with no worker, file, lock or process in sight: a job is queued, one *)
(* job at a time runs, work is committed batch by batch, and a job ends   *)
(* once.  A cancelled job is not started again, commits at most the batch  *)
(* it is in, and is never reported as done.  JobQueue implements this.     *)
(***************************************************************************)
EXTENDS Naturals

CONSTANT Jobs

VARIABLES
    phase,      \* phase[j]: what the task list shows (Job.status)
    cancelled,  \* cancelled[j]: a cancellation of j has been accepted
    left        \* left[j]: batches job j still has to commit

vars == <<phase, cancelled, left>>

Init ==
    /\ phase = [j \in Jobs |-> "none"]
    /\ cancelled = [j \in Jobs |-> FALSE]
    /\ left = [j \in Jobs |-> 0]

Move(j, from, to) == phase[j] \in from /\ phase' = [phase EXCEPT ![j] = to]

CommitOne(j) == left' = [left EXCEPT ![j] = @ - 1]

Submit(j) ==
    /\ Move(j, {"none"}, "queued")
    /\ left'[j] \in Nat \ {0}
    /\ left' = [left EXCEPT ![j] = left'[j]]
    /\ UNCHANGED cancelled

Cancel(j) ==
    /\ phase[j] # "none"
    /\ cancelled' = [cancelled EXCEPT ![j] = TRUE]
    /\ UNCHANGED <<phase, left>>

(* Only one job works at a time, and never one that was cancelled. *)
Start(j) ==
    /\ \A k \in Jobs : phase[k] # "running"
    /\ ~cancelled[j]
    /\ Move(j, {"queued"}, "running")
    /\ UNCHANGED <<cancelled, left>>

(* A batch is committed and more remain; a cancelled job may not do this. *)
Yield(j) ==
    /\ ~cancelled[j]
    /\ left[j] > 1
    /\ Move(j, {"running"}, "queued")
    /\ CommitOne(j)
    /\ UNCHANGED cancelled

(* The batch in progress is lost with nothing committed. *)
Interrupt(j) ==
    /\ Move(j, {"running"}, "queued")
    /\ UNCHANGED <<cancelled, left>>

(* A job is done after its last batch, or when nothing is left to work on. *)
Complete(j) ==
    /\ ~cancelled[j]
    /\ Move(j, {"running"}, "completed")
    /\ CommitOne(j) \/ UNCHANGED left
    /\ UNCHANGED cancelled

(* A cancelled job stops: after the batch it is in, or without being started. *)
Stop(j) ==
    /\ cancelled[j]
    /\ \/ Move(j, {"running"}, "cancelled") /\ CommitOne(j)
       \/ Move(j, {"queued", "running"}, "cancelled") /\ UNCHANGED left
    /\ UNCHANGED cancelled

(* A failure is recorded; when the answer to the commit of a batch was lost, *)
(* even for a job that has just ended well or has more to do.                *)
Fail(j) ==
    /\ Move(j, {"queued", "running", "completed", "cancelled"}, "failed")
    /\ UNCHANGED <<cancelled, left>>

(* Only retention forgets a job, and only an ended one. *)
Forget(js) ==
    /\ \A j \in js : phase[j] \in {"completed", "failed", "cancelled"}
    /\ phase' = [j \in Jobs |-> IF j \in js THEN "purged" ELSE phase[j]]
    /\ UNCHANGED <<cancelled, left>>

Next ==
    \/ \E j \in Jobs :
          \/ Submit(j) \/ Cancel(j) \/ Start(j) \/ Yield(j)
          \/ Interrupt(j) \/ Complete(j) \/ Stop(j) \/ Fail(j)
    \/ \E js \in SUBSET Jobs : Forget(js)

Spec == Init /\ [][Next]_vars
=============================================================================
