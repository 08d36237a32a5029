------------------------------- MODULE JobQueue -------------------------------
(***************************************************************************)
(* The persistent job queue of TokenLoom: the rows of the jobs table, the  *)
(* import spool files beside it, the web handlers that create and cancel   *)
(* jobs, and the single worker that recovers, claims, runs, fails and      *)
(* cleans up after them.  What a batch does to the accounts is modelled in *)
(* AccountJob and ImportJob; here a batch is one unit of work.             *)
(*                                                                         *)
(* The database is PostgreSQL at READ COMMITTED.  One action is one        *)
(* transaction, or the part of one between two points at which another     *)
(* process can be seen or can interfere (an await, a row lock, a file).    *)
(***************************************************************************)
EXTENDS Naturals

CONSTANTS
    Jobs,         \* job ids (uuid4, never used twice)
    Kind,         \* Kind[j]: what j is if it is ever created
    Requests,     \* cancel requests, each used at most once
    NoJob,
    MaxBatches,   \* bound: batches a job may need
    MaxRestarts   \* bound: times the worker stops or is killed

Kinds == {"import", "selected", "all", "due", "scheduled"}

(* The priorities the four places that build a Job give it. *)
Priority ==
    [k \in Kinds |-> CASE k = "selected"  -> 100
                       [] k = "import"    -> 70
                       [] k = "scheduled" -> 20
                       [] OTHER           -> 40]

ASSUME JobsAssumption ==
    /\ NoJob \notin Jobs
    /\ Kind \in [Jobs -> Kinds]
    /\ MaxBatches \in Nat \ {0}
    /\ MaxRestarts \in Nat

VARIABLES
    status,    \* Job.status; "none": no row yet, "purged": deleted by retention
    cancel,    \* Job.cancel_requested
    left,      \* batches not yet committed (total against processed/cursor_id)
    started,   \* Job.started_at is set
    created,   \* Job.created_at, as the rank of its stamp
    clock,     \* stamps given so far
    spool,     \* data/imports/<job id>.txt: "none", "fresh", or "aged" > 1 hour
    create,    \* progress of the request that creates the job
    reqPc,     \* progress of each cancel request
    reqJob,    \* the job it is about
    wpc,       \* where the worker is in run()
    wjob,      \* the job id it holds
    doomed,    \* spool files maintenance_tick is about to unlink
    restarts,  \* times the worker has gone down
    overtook   \* history: <<k, j>> when k was begun by a claim that could not see j

rows   == <<status, cancel, left, started>>
db     == <<rows, created, clock>>
web    == <<create, reqPc, reqJob>>
worker == <<wpc, wjob, doomed, restarts>>
vars   == <<db, spool, web, worker, overtook>>

Active == {"queued", "running"}
Ended  == {"completed", "failed", "cancelled"}

TypeOK ==
    /\ status \in [Jobs -> {"none", "purged"} \cup Active \cup Ended]
    /\ cancel \in [Jobs -> BOOLEAN]
    /\ left \in [Jobs -> 0 .. MaxBatches]
    /\ started \in [Jobs -> BOOLEAN]
    /\ created \in [Jobs -> Nat]
    /\ clock \in Nat
    /\ spool \in [Jobs -> {"none", "fresh", "aged"}]
    /\ create \in [Jobs -> {"idle", "spooled", "flushed", "undo", "acked", "gone"}]
    /\ reqPc \in [Requests -> {"idle", "checked", "locked", "done"}]
    /\ reqJob \in [Requests -> Jobs \cup {NoJob}]
    /\ wpc \in {"down", "recover", "boot", "clean", "loop", "tick", "ticked",
                "sweep", "claim", "work", "opened", "fail", "unlink"}
    /\ wjob \in Jobs \cup {NoJob}
    /\ doomed \in SUBSET Jobs
    /\ restarts \in 0 .. MaxRestarts
    /\ overtook \in SUBSET (Jobs \X Jobs)

Init ==
    /\ status = [j \in Jobs |-> "none"]
    /\ cancel = [j \in Jobs |-> FALSE]
    /\ left = [j \in Jobs |-> 0]
    /\ started = [j \in Jobs |-> FALSE]
    /\ created = [j \in Jobs |-> 0]
    /\ clock = 0
    /\ spool = [j \in Jobs |-> "none"]
    /\ create = [j \in Jobs |-> "idle"]
    /\ reqPc = [r \in Requests |-> "idle"]
    /\ reqJob = [r \in Requests |-> NoJob]
    /\ wpc = "recover"
    /\ wjob = NoJob
    /\ doomed = {}
    /\ restarts = 0
    /\ overtook = {}

IsImport(j) == Kind[j] = "import"

(* The row of j is locked by a cancel request that has flushed its UPDATE   *)
(* and not yet committed.                                                   *)
Locked(j) == \E r \in Requests : reqPc[r] = "locked" /\ reqJob[r] = j

-----------------------------------------------------------------------------
(* Web: creating jobs.  The row is stamped and sent by the flush, and seen by *)
(* others from the commit on; between the two the audit row is inserted.      *)

(* created_at, the default of the column: utcnow() when the INSERT is sent.   *)
Stamp(j) ==
    /\ clock' = clock + 1
    /\ created' = [created EXCEPT ![j] = clock + 1]

(* The inserted row becomes visible. *)
InsertJob(j) ==
    /\ status[j] = "none"
    /\ status' = [status EXCEPT ![j] = "queued"]
    /\ \E n \in 1 .. MaxBatches : left' = [left EXCEPT ![j] = n]
    /\ UNCHANGED <<cancel, started>>

(* POST /api/import and /api/import/paste: the spool file is written first. *)
SpoolImport(j) ==
    /\ IsImport(j)
    /\ create[j] = "idle"
    /\ spool' = [spool EXCEPT ![j] = "fresh"]
    /\ create' = [create EXCEPT ![j] = "spooled"]
    /\ UNCHANGED <<db, reqPc, reqJob, worker, overtook>>

(* POST /api/jobs counts its scope and flushes; an import flushes in commit(). *)
FlushJob(j) ==
    /\ Kind[j] # "scheduled"
    /\ create[j] = IF IsImport(j) THEN "spooled" ELSE "idle"
    /\ Stamp(j)
    /\ create' = [create EXCEPT ![j] = "flushed"]
    /\ UNCHANGED <<rows, spool, reqPc, reqJob, worker, overtook>>

CommitJob(j) ==
    /\ create[j] = "flushed"
    /\ InsertJob(j)
    /\ create' = [create EXCEPT ![j] = "acked"]
    /\ UNCHANGED <<created, clock, spool, reqPc, reqJob, worker, overtook>>

(* The handler of an import raises before the row is committed (a size or     *)
(* disk limit, a database error), or the commit takes effect and its answer   *)
(* is lost: either way "except Exception" is next.                            *)
RejectImport(j) ==
    /\ IsImport(j)
    /\ create[j] \in {"spooled", "flushed"}
    /\ \/ UNCHANGED rows
       \/ create[j] = "flushed" /\ InsertJob(j)
    /\ create' = [create EXCEPT ![j] = "undo"]
    /\ UNCHANGED <<created, clock, spool, reqPc, reqJob, worker, overtook>>

(* except Exception: spool.unlink(missing_ok=True); raise *)
UndoImport(j) ==
    /\ create[j] = "undo"
    /\ spool' = [spool EXCEPT ![j] = "none"]
    /\ create' = [create EXCEPT ![j] = "gone"]
    /\ UNCHANGED <<db, reqPc, reqJob, worker, overtook>>

(* The web process dies, or the request is cancelled (CancelledError is not   *)
(* an Exception), or POST /api/jobs raises, which undoes nothing: the         *)
(* transaction is rolled back and a file stays.                               *)
AbandonJob(j) ==
    /\ create[j] \in {"spooled", "flushed", "undo"}
    /\ create' = [create EXCEPT ![j] = "gone"]
    /\ UNCHANGED <<db, spool, reqPc, reqJob, worker, overtook>>

(* An hour passes since the last write to the file.  Bound on the            *)
(* environment: a request commits within an hour of its last write.         *)
Age(j) ==
    /\ spool[j] = "fresh"
    /\ create[j] \notin {"spooled", "flushed"}
    /\ spool' = [spool EXCEPT ![j] = "aged"]
    /\ UNCHANGED <<db, web, worker, overtook>>

-----------------------------------------------------------------------------
(* Web: POST /api/jobs/{id}/cancel, in three steps.                         *)

(* db.get, without a lock, and the 404 and 400 checks.  A request that reads *)
(* cancel_requested already set flushes no UPDATE of the row.                *)
CancelCheck(r, j) ==
    /\ reqPc[r] = "idle"
    /\ status[j] \in Active
    /\ ~cancel[j]
    /\ reqPc' = [reqPc EXCEPT ![r] = "checked"]
    /\ reqJob' = [reqJob EXCEPT ![r] = j]
    /\ UNCHANGED <<db, spool, create, worker, overtook>>

(* commit() first flushes UPDATE jobs SET cancel_requested, which takes the  *)
(* row lock or waits for it, whatever the status has become meanwhile.  A    *)
(* row that retention deleted makes the flush fail.                          *)
CancelFlush(r) ==
    /\ reqPc[r] = "checked"
    /\ ~Locked(reqJob[r])
    /\ reqPc' = [reqPc EXCEPT ![r] = IF status[reqJob[r]] = "purged"
                                     THEN "done" ELSE "locked"]
    /\ UNCHANGED <<db, spool, create, reqJob, worker, overtook>>

CancelCommit(r) ==
    /\ reqPc[r] = "locked"
    /\ cancel' = [cancel EXCEPT ![reqJob[r]] = TRUE]
    /\ reqPc' = [reqPc EXCEPT ![r] = "done"]
    /\ UNCHANGED <<status, left, started, created, clock, spool, create,
                   reqJob, worker, overtook>>

(* The request dies before its commit and is rolled back. *)
CancelAbort(r) ==
    /\ reqPc[r] \in {"checked", "locked"}
    /\ reqPc' = [reqPc EXCEPT ![r] = "done"]
    /\ UNCHANGED <<db, spool, create, reqJob, worker, overtook>>

-----------------------------------------------------------------------------
(* Worker: start and stop.                                                  *)

ForgetsRunning(s) == s                                             \* mutant
RevivesFailed(s) == IF s \in {"running", "failed"} THEN "queued" ELSE s \* mutant

Recovered(s) == IF s = "running" THEN "queued" ELSE s

(* recover_stale_jobs: UPDATE jobs SET status = 'queued' WHERE running; it   *)
(* waits for the row lock of a cancel in flight.                             *)
Recover ==
    /\ wpc = "recover"
    /\ \A j \in Jobs : status[j] = "running" => ~Locked(j)
    /\ status' = [j \in Jobs |-> Recovered(status[j])]
    /\ wpc' = "boot"
    /\ UNCHANGED <<cancel, left, started, created, clock, spool, web, wjob,
                   doomed, restarts, overtook>>

(* The process is killed between any two steps, or leaves the loop after a   *)
(* stop signal (stop_event is only looked at there).                         *)
GoDown ==
    /\ wpc # "down"
    /\ restarts < MaxRestarts
    /\ restarts' = restarts + 1
    /\ wpc' = "down"
    /\ wjob' = NoJob
    /\ doomed' = {}
    /\ UNCHANGED <<db, spool, web, overtook>>

(* systemd restarts it (Restart=always), compose too (unless-stopped). *)
Restart ==
    /\ wpc = "down"
    /\ wpc' = "recover"
    /\ UNCHANGED <<db, spool, web, wjob, doomed, restarts, overtook>>

-----------------------------------------------------------------------------
(* Worker: scheduler_tick and maintenance_tick, at the top of the loop.     *)

(* A tick that has not run today and finds due accounts looks whether a       *)
(* refresh of due accounts is active: one whose request has not committed yet *)
(* is not seen.  "due" is a refresh; a health job of due accounts, which      *)
(* holds no tick back, has the priority of an "all" job and counts as one.    *)
TickCheck(j) ==
    /\ wpc = "loop"
    /\ Kind[j] = "scheduled"
    /\ status[j] = "none"
    /\ \A k \in Jobs : Kind[k] \in {"due", "scheduled"} => status[k] \notin Active
    /\ wpc' = "tick"
    /\ wjob' = j
    /\ UNCHANGED <<db, spool, web, doomed, restarts, overtook>>

(* The commit of the tick sends its INSERT.  A tick that fails is logged and  *)
(* rolled back, unless only the answer to its commit was lost.                *)
TickCommit ==
    /\ wpc = "tick"
    /\ \/ UNCHANGED db
       \/ InsertJob(wjob) /\ Stamp(wjob)
    /\ wpc' = "ticked"
    /\ wjob' = NoJob
    /\ UNCHANGED <<spool, web, doomed, restarts, overtook>>

SweepsQueued(j) == spool[j] = "aged" /\ status[j] # "running"     \* mutant
SweepsEndedOnly(j) == spool[j] = "aged" /\ status[j] \in Ended    \* mutant

(* A spool file that is old enough and whose path no active import has. *)
Orphan(j) == spool[j] = "aged" /\ status[j] \notin Active

(* The transaction of maintenance_tick: ended jobs past their retention are  *)
(* deleted (which ones are old enough is left open), the spool paths of      *)
(* active imports are read, and right after it the one hour cutoff.          *)
Maintain ==
    /\ wpc \in {"boot", "loop", "ticked"}
    /\ \E old \in SUBSET {j \in Jobs : status[j] \in Ended /\ ~Locked(j)} :
           status' = [j \in Jobs |-> IF j \in old THEN "purged" ELSE status[j]]
    /\ doomed' = {j \in Jobs : Orphan(j)}
    /\ wpc' = IF wpc = "boot" THEN "clean" ELSE "sweep"
    /\ UNCHANGED <<cancel, left, started, created, clock, spool, web, wjob,
                   restarts, overtook>>

SweepFile(j) ==
    /\ wpc \in {"clean", "sweep"}
    /\ j \in doomed
    /\ spool' = [spool EXCEPT ![j] = "none"]
    /\ doomed' = doomed \ {j}
    /\ UNCHANGED <<db, web, wpc, wjob, restarts, overtook>>

SweepDone ==
    /\ wpc \in {"clean", "sweep"}
    /\ doomed = {}
    /\ wpc' = IF wpc = "clean" THEN "loop" ELSE "claim"
    /\ UNCHANGED <<db, spool, web, wjob, doomed, restarts, overtook>>

NoMaintenance ==
    /\ wpc \in {"loop", "ticked"}
    /\ wpc' = "claim"
    /\ UNCHANGED <<db, spool, web, wjob, doomed, restarts, overtook>>

-----------------------------------------------------------------------------
(* Worker: claim_job.                                                       *)

(* FOR UPDATE SKIP LOCKED does not see a locked row. *)
Claimable == {j \in Jobs : status[j] = "queued" /\ ~Locked(j)}

(* Mutant: the newest first. *)
NewestFirst(j, k) ==
    \/ Priority[Kind[j]] > Priority[Kind[k]]
    \/ Priority[Kind[j]] = Priority[Kind[k]] /\ created[j] > created[k]

(* ORDER BY priority DESC, created_at ASC *)
Before(j, k) ==
    \/ Priority[Kind[j]] > Priority[Kind[k]]
    \/ Priority[Kind[j]] = Priority[Kind[k]] /\ created[j] < created[k]

(* What a claim cannot see: rows passed over because of their lock, and rows *)
(* that are stamped and not committed.                                       *)
Hidden(j) ==
    \/ status[j] = "queued" /\ Locked(j)
    \/ create[j] = "flushed"

Overtakes(k) ==
    overtook' = overtook \cup
        {<<k, j>> : j \in {h \in Jobs : /\ ~started[k] /\ Hidden(h)
                                       /\ Priority[Kind[h]] = Priority[Kind[k]]}}

MayStart(j) == ~cancel[j]

Claim(j) ==
    /\ wpc = "claim"
    /\ j \in Claimable
    /\ \A k \in Claimable \ {j} : Before(j, k)
    /\ wjob' = j
    /\ \/ /\ ~MayStart(j)
          /\ status' = [status EXCEPT ![j] = "cancelled"]
          /\ wpc' = "unlink"
          /\ UNCHANGED <<started, overtook>>
       \/ /\ MayStart(j)
          /\ status' = [status EXCEPT ![j] = "running"]
          /\ started' = [started EXCEPT ![j] = TRUE]
          /\ wpc' = "work"
          /\ Overtakes(j)
    /\ UNCHANGED <<cancel, left, created, clock, spool, web, doomed, restarts>>

ClaimNothing ==
    /\ wpc = "claim"
    /\ Claimable = {}
    /\ wpc' = "loop"
    /\ UNCHANGED <<db, spool, web, wjob, doomed, restarts, overtook>>

-----------------------------------------------------------------------------
(* Worker: one batch of process_import or process_account_job.              *)

OneMoreBatch(j) == {left[j] = 0}                                   \* mutant

(* An import ends at the end of its file; an account job may also end early, *)
(* when accounts of its range are gone.                                      *)
LastBatch(j) == {left[j] = 1} \cup (IF IsImport(j) THEN {} ELSE {TRUE})

(* Mutants: the flag is looked at last, or only when the job ends. *)
FlagLooksLast(j, last) ==
    IF last THEN "completed" ELSE IF cancel[j] THEN "cancelled" ELSE "queued"
FlagAtEndOnly(j, last) ==
    IF last THEN IF cancel[j] THEN "cancelled" ELSE "completed" ELSE "queued"

AfterBatch(j, last) ==
    IF cancel[j] THEN "cancelled" ELSE IF last THEN "completed" ELSE "queued"

(* process_import opens its file and reads a batch of it, with no transaction *)
(* open: the file may be unlinked from now on, and the batch is still there.  *)
OpenSpool ==
    /\ wpc = "work"
    /\ IsImport(wjob)
    /\ spool[wjob] # "none"
    /\ wpc' = "opened"
    /\ UNCHANGED <<db, spool, web, wjob, doomed, restarts, overtook>>

(* The batch transaction: it locks the job row, applies the results and      *)
(* advances the counters, and looks at cancel_requested under the lock.      *)
CommitBatch(j) ==
    /\ wpc = IF IsImport(j) THEN "opened" ELSE "work"
    /\ status[j] = "running"
    /\ ~Locked(j)
    /\ left' = [left EXCEPT ![j] = @ - 1]
    /\ \E last \in LastBatch(j) :
           status' = [status EXCEPT ![j] = AfterBatch(j, last)]
    /\ UNCHANGED <<cancel, started, created, clock>>

RunBatch ==
    /\ wpc \in {"work", "opened"}
    /\ CommitBatch(wjob)
    /\ IF IsImport(wjob) /\ status'[wjob] # "queued"
       THEN wpc' = "unlink" /\ UNCHANGED wjob
       ELSE wpc' = "loop" /\ wjob' = NoJob
    /\ UNCHANGED <<spool, web, doomed, restarts, overtook>>

(* An account job that finds no account left ends without a batch. *)
EndEmpty(j) ==
    /\ wpc = "work"
    /\ ~IsImport(j)
    /\ ~Locked(j)
    /\ status' = [status EXCEPT ![j] = IF cancel[j] THEN "cancelled" ELSE "completed"]
    /\ UNCHANGED <<cancel, left, started, created, clock>>

FindNoAccount ==
    /\ EndEmpty(wjob)
    /\ wpc' = "loop"
    /\ wjob' = NoJob
    /\ UNCHANGED <<spool, web, doomed, restarts, overtook>>

(* The batch raises: its file is missing, the database refuses it (rolled    *)
(* back), or its commit took effect and the answer was lost.                 *)
RaiseInBatch ==
    /\ wpc \in {"work", "opened"}
    /\ UNCHANGED db \/ CommitBatch(wjob) \/ EndEmpty(wjob)
    /\ wpc' = "fail"
    /\ UNCHANGED <<spool, web, wjob, doomed, restarts, overtook>>

(* fail_job: a transaction of its own, that overwrites whatever the row says. *)
FailJob ==
    /\ wpc = "fail"
    /\ ~Locked(wjob)
    /\ status' = [status EXCEPT ![wjob] = "failed"]
    /\ wpc' = "unlink"
    /\ UNCHANGED <<cancel, left, started, created, clock, spool, web, wjob,
                   doomed, restarts, overtook>>

(* remove_import_spool, after the commit that ended the job: nothing to do   *)
(* for a job that is not an import.                                          *)
RemoveSpool ==
    /\ wpc = "unlink"
    /\ spool' = [spool EXCEPT ![wjob] = "none"]
    /\ wpc' = "loop"
    /\ wjob' = NoJob
    /\ UNCHANGED <<db, web, doomed, restarts, overtook>>

-----------------------------------------------------------------------------
WorkerStep ==
    \/ Recover \/ Restart \/ TickCommit \/ Maintain \/ SweepDone \/ NoMaintenance
    \/ ClaimNothing \/ OpenSpool \/ RunBatch \/ FindNoAccount \/ RaiseInBatch
    \/ FailJob \/ RemoveSpool
    \/ \E j \in Jobs : SweepFile(j) \/ Claim(j)

Next ==
    \/ \E j \in Jobs :
          \/ SpoolImport(j) \/ FlushJob(j) \/ CommitJob(j)
          \/ RejectImport(j) \/ UndoImport(j) \/ AbandonJob(j)
          \/ Age(j) \/ TickCheck(j)
    \/ \E r \in Requests :
          \/ \E j \in Jobs : CancelCheck(r, j)
          \/ CancelFlush(r) \/ CancelCommit(r) \/ CancelAbort(r)
    \/ GoDown
    \/ WorkerStep

Spec == Init /\ [][Next]_vars

(* The worker loop never stops by itself and is restarted when it dies; its  *)
(* hourly maintenance is looked for in every iteration, hence SF; a request  *)
(* past its flush commits or dies; files grow old.  Clients owe nothing.     *)
Fairness ==
    /\ WF_vars(WorkerStep)
    /\ SF_vars(Maintain)
    /\ \A r \in Requests : WF_vars(CancelFlush(r) \/ CancelCommit(r))
    /\ \A j \in Jobs :
          WF_vars(CommitJob(j) \/ UndoImport(j) \/ AbandonJob(j)) /\ WF_vars(Age(j))

FairSpec == Spec /\ Fairness

-----------------------------------------------------------------------------
(* Properties.                                                              *)

(* One runner.  A row says "running" only while the worker holds exactly     *)
(* that job, or while a worker that went down has not recovered its rows     *)
(* yet: recovery and claim_job can therefore never start a job twice, and no *)
(* two rows run at once (recover_stale_jobs, claim_job, worker run loop).    *)
RunningIsHeld ==
    \A j \in Jobs :
        status[j] = "running" =>
            /\ \A k \in Jobs : status[k] = "running" => k = j
            /\ \/ wpc \in {"down", "recover"}
               \/ wpc \in {"work", "opened", "fail"} /\ wjob = j

(* An import whose request was answered "ok" has its spool file for as long  *)
(* as it is queued or running, whatever maintenance, restarts, other imports *)
(* and retention do meanwhile (maintenance_tick, remove_import_spool).       *)
AckedImportKeepsSpool ==
    \A j \in Jobs :
        IsImport(j) /\ create[j] = "acked" /\ status[j] \in Active => spool[j] # "none"

(* Jobs of equal priority take turns only when the older one was out of sight: *)
(* if both are begun and unfinished, the younger was begun by a claim to which *)
(* the lock of a cancel request, or a commit still on its way, hid the older.  *)
(* Nothing else, no requeueing after a batch, no restart and no lost answer,   *)
(* makes two imports alternate (claim_job, ORDER BY priority, created_at).     *)
EqualPriorityInTurn ==
    \A j, k \in Jobs :
        /\ status[j] \in Active /\ started[j]
        /\ status[k] \in Active /\ started[k]
        /\ Priority[Kind[j]] = Priority[Kind[k]]
        /\ created[j] < created[k]
        => <<k, j>> \in overtook

(* An ended job never becomes active again: neither recovery, nor a late     *)
(* cancel, nor a batch whose commit was not acknowledged revives it.         *)
EndedStaysEnded ==
    [][\A j \in Jobs : status[j] \in Ended \cup {"purged"}
                        => status'[j] \in Ended \cup {"purged"}]_vars

(* Once a cancellation is committed the job commits at most the batch it is  *)
(* in: a queued job is not started any more, and a batch that commits with   *)
(* the flag set ends the job ("the task stops after the current batch").     *)
CancelledWorkStops ==
    [][\A j \in Jobs : cancel[j] =>
          /\ status[j] = "queued" => status'[j] # "running" /\ left'[j] = left[j]
          /\ left'[j] # left[j] => status'[j] \in Ended]_vars

(* The queue implements the contract its clients rely on. *)
Contract == INSTANCE JobContract WITH phase <- status, cancelled <- cancel

ContractSpec == Contract!Spec

(* Every job ends: priorities, lost answers and finitely many worker         *)
(* restarts delay it and never strand it.                                    *)
EveryJobEnds == \A j \in Jobs : status[j] \in Active ~> status[j] \in Ended \cup {"purged"}

(* A spool file that no active job needs is removed in the end: by the       *)
(* worker when the job ends, by the failing request, or by maintenance when  *)
(* a crash came between (docs/ARCHITECTURE.md: orphans are cleaned up).      *)
OrphansCollected ==
    \A j \in Jobs : spool[j] # "none" /\ status[j] \notin Active
                     ~> spool[j] = "none" \/ status[j] \in Active
=============================================================================
