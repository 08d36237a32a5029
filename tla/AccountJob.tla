------------------------------ MODULE AccountJob ------------------------------
(***************************************************************************)
(* One refresh or health job working through the accounts in batches, from *)
(* the snapshot its creation takes to its end, while the web process       *)
(* deletes accounts, imports add and rewrite them between two batches,     *)
(* time makes accounts due, and the worker dies and recovers.  How jobs    *)
(* share the worker is modelled in JobQueue.                               *)
(*                                                                         *)
(* A batch is load_work (one read), the calls to Microsoft (no database    *)
(* transaction open; TokenRefresh models one of them), and a transaction   *)
(* that selects the accounts that are left and then writes them: deletions *)
(* fall between any two of these.                                          *)
(***************************************************************************)
EXTENDS Integers, FiniteSets, FiniteSetsExt

CONSTANTS
    MaxId,      \* bound: the highest account id
    BatchSize,  \* WORKER_BATCH_SIZE
    Kinds,      \* the kinds of jobs created: "refresh", "health"
    Scopes,     \* and their scopes: "selected", "all", "due"
    MaxCrashes  \* bound: times the worker dies

ASSUME AccountJobAssumption ==
    /\ MaxId \in Nat
    /\ BatchSize \in Nat \ {0}
    /\ Kinds \subseteq {"refresh", "health"}
    /\ Scopes \subseteq {"selected", "all", "due"}
    /\ MaxCrashes \in Nat

Ids == 1 .. MaxId

Outcomes == {"ok", "permanent", "imap_failed", "transient"}

VARIABLES
    rows,     \* ids of the accounts in the table
    lastId,   \* last id the sequence of the table has given out
    state,    \* Account.status; "other": the outcomes that leave a date
    next,     \* Account.next_refresh_at: "never" (NULL), "future" or "past"
    job,      \* the row of the job
    wpc,      \* where the worker is with the job
    batch,    \* ids load_work has read
    found,    \* accounts the write transaction has selected
    crashes,
    present,  \* history: accounts that existed when the job was created
    target,   \* history: those of them its scope meant, and still means
    covered,  \* history: accounts of the batches it has committed
    applied,  \* history: accounts whose result it has written and committed
    raced,    \* history: accounts deleted after the SELECT of their batch and
              \* before its UPDATEs
    cause     \* history: why the job failed

accounts == <<rows, lastId, state, next>>
worker == <<wpc, batch, found, crashes>>
history == <<present, target, covered, applied, raced, cause>>
vars == <<accounts, job, worker, history>>

JobStatuses == {"none", "queued", "running", "completed", "failed", "cancelled"}

JobRows ==
    [status: JobStatuses, kind: {"refresh", "health"}, scope: {"selected", "all", "due"},
     ids: SUBSET Ids, max: Ids \cup {0}, cursor: Ids \cup {0}, total: Nat,
     processed: Nat, succeeded: Nat, failed: Nat, cancel: BOOLEAN]

NewJob ==
    [status |-> "none", kind |-> "refresh", scope |-> "all", ids |-> {},
     max |-> 0, cursor |-> 0, total |-> 0, processed |-> 0, succeeded |-> 0,
     failed |-> 0, cancel |-> FALSE]

TypeOK ==
    /\ rows \subseteq Ids
    /\ lastId \in Ids \cup {0}
    /\ state \in [Ids -> {"unknown", "token_invalid", "other"}]
    /\ next \in [Ids -> {"never", "future", "past"}]
    /\ job \in JobRows
    /\ wpc \in {"free", "claimed", "calling", "writing", "failing", "down"}
    /\ batch \subseteq Ids
    /\ found \subseteq batch
    /\ crashes \in 0 .. MaxCrashes
    /\ present \subseteq Ids /\ target \subseteq present
    /\ covered \subseteq Ids /\ applied \subseteq covered /\ raced \subseteq Ids
    /\ cause \in {"none", "stale", "other"}

(* Any table: some ids used and some of them deleted again, each account     *)
(* waiting for its refresh, due, or parked as invalid.                       *)
Init ==
    /\ lastId \in Ids \cup {0}
    /\ rows \in SUBSET (1 .. lastId)
    /\ next \in [Ids -> {"never", "future", "past"}]
    /\ \A a \in Ids \ rows : next[a] = "future"
    /\ state = [a \in Ids |-> IF next[a] = "never" THEN "token_invalid" ELSE "unknown"]
    /\ job = NewJob
    /\ wpc = "free"
    /\ batch = {} /\ found = {}
    /\ crashes = 0
    /\ present = {} /\ target = {} /\ covered = {} /\ applied = {} /\ raced = {}
    /\ cause = "none"

-----------------------------------------------------------------------------
(* The world around the job.  Bound: it moves while the job is active; Init  *)
(* is closed under its steps, and nothing looks at it when the job has ended. *)

Active == {"queued", "running"}

(* DELETE /api/accounts: one statement, committed.  The fields of an id that *)
(* is not in the table are no data; they are reset to keep the model small.  *)
DeleteAccounts(ids) ==
    /\ job.status \in Active
    /\ ids # {}
    /\ rows' = rows \ ids
    /\ state' = [a \in Ids |-> IF a \in ids THEN "unknown" ELSE state[a]]
    /\ next' = [a \in Ids |-> IF a \in ids THEN "future" ELSE next[a]]
    /\ raced' = raced \cup (IF wpc = "writing" THEN ids \cap found ELSE {})
    /\ UNCHANGED <<lastId, job, worker, present, target, covered, applied, cause>>

(* A batch of an import job inserts new accounts and rewrites old ones; the  *)
(* one worker does it while it is not working on this job.                   *)
ImportBatch(new, old) ==
    /\ wpc = "free"
    /\ job.status \in Active
    /\ new > 0 \/ old # {}
    /\ lastId + new <= MaxId
    /\ lastId' = lastId + new
    /\ rows' = rows \cup (lastId + 1 .. lastId + new)
    /\ LET written == old \cup (lastId + 1 .. lastId + new) IN
         /\ state' = [a \in Ids |-> IF a \in written THEN "unknown" ELSE state[a]]
         /\ next' = [a \in Ids |-> IF a \in written THEN "future" ELSE next[a]]
    /\ target' = IF job.scope = "due" THEN target \ old ELSE target
    /\ UNCHANGED <<job, worker, present, covered, applied, raced, cause>>

BecomeDue(a) ==
    /\ job.status \in Active
    /\ a \in rows
    /\ next[a] = "future"
    /\ next' = [next EXCEPT ![a] = "past"]
    /\ UNCHANGED <<rows, lastId, state, job, worker, history>>

-----------------------------------------------------------------------------
(* Web: the life of the job row.                                            *)

(* scope_snapshot *)
ScopeNow(scope, ids) ==
    {a \in rows : /\ scope = "selected" => a \in ids
                  /\ scope = "due" => next[a] = "past"}

CreateJob(kind, scope, ids) ==
    /\ job.status = "none"
    /\ scope = "selected" <=> ids # {}
    /\ LET snapshot == ScopeNow(scope, ids) IN
         /\ snapshot # {}
         /\ job' = [NewJob EXCEPT !.status = "queued", !.kind = kind,
                                  !.scope = scope, !.ids = ids,
                                  !.max = Max(snapshot),
                                  !.total = Cardinality(snapshot)]
         /\ target' = snapshot
    /\ present' = rows
    /\ UNCHANGED <<accounts, worker, covered, applied, raced, cause>>

CancelJob ==
    /\ job.status \in Active
    /\ job' = [job EXCEPT !.cancel = TRUE]
    /\ UNCHANGED <<accounts, worker, history>>

-----------------------------------------------------------------------------
(* Worker.                                                                  *)

Claim ==
    /\ wpc = "free"
    /\ job.status = "queued"
    /\ IF job.cancel
       THEN job' = [job EXCEPT !.status = "cancelled"] /\ UNCHANGED wpc
       ELSE job' = [job EXCEPT !.status = "running"] /\ wpc' = "claimed"
    /\ UNCHANGED <<accounts, batch, found, crashes, history>>

(* The worker finds nothing to claim and looks again two seconds later. *)
ClaimNothing ==
    /\ wpc = "free"
    /\ job.status # "queued"
    /\ UNCHANGED vars

(* Mutant: the snapshot has no upper end. *)
OpenScope == {a \in ScopeNow(job.scope, job.ids) : a > job.cursor}

(* account_scope_clause *)
InScope == {a \in ScopeNow(job.scope, job.ids) : a > job.cursor /\ a <= job.max}

(* ORDER BY id LIMIT WORKER_BATCH_SIZE *)
FirstBatch == {a \in InScope : Cardinality({b \in InScope : b <= a}) <= BatchSize}

LoadWork ==
    /\ wpc = "claimed"
    /\ InScope # {}
    /\ batch' = FirstBatch
    /\ wpc' = "calling"
    /\ UNCHANGED <<accounts, job, found, crashes, history>>

(* No account is left in range.  The answer to the commit may be lost. *)
FinishEmpty ==
    /\ wpc = "claimed"
    /\ InScope = {}
    /\ job' = [job EXCEPT !.status = IF job.cancel THEN "cancelled"
                                                     ELSE "completed"]
    /\ \/ wpc' = "free" /\ UNCHANGED cause
       \/ wpc' = "failing" /\ cause' = "other"
    /\ UNCHANGED <<accounts, batch, found, crashes, present, target, covered,
                   applied, raced>>

(* run_account_batch returns; what it returned for an account shows when it   *)
(* is written (Results).  The write transaction locks the job row and selects *)
(* the accounts still there, without locking them.                            *)
SelectAccounts ==
    /\ wpc = "calling"
    /\ found' = batch \cap rows
    /\ wpc' = "writing"
    /\ UNCHANGED <<accounts, job, batch, crashes, history>>

(* What the calls may have returned; only a health check opens a mailbox. *)
Results ==
    [batch -> IF job.kind = "health" THEN Outcomes ELSE Outcomes \ {"imap_failed"}]

(* Mutant: accounts deleted meanwhile are counted as well. *)
CountsGone(r) == {a \in batch : r[a] = "ok"}

Succeeded(r) == {a \in found : r[a] = "ok"}

(* Mutant: a transient error leaves next_refresh_at of a parked account NULL. *)
NoRetryDate(a, outcome) ==
    CASE outcome \in {"ok", "imap_failed"} -> "future"
      [] outcome = "permanent"             -> "never"
      [] outcome = "transient"             -> next[a]

NextRefresh(a, outcome) == IF outcome = "permanent" THEN "never" ELSE "future"

NewState(outcome) == IF outcome = "permanent" THEN "token_invalid" ELSE "other"

(* Mutant: the count is off by one. *)
EndsOneEarly ==
    IF job.cancel THEN "cancelled"
    ELSE IF job.processed + Cardinality(batch) + 1 >= job.total THEN "completed" ELSE "queued"

(* Mutant: a batch does not look for a cancellation. *)
GoesOn ==
    IF job.processed + Cardinality(batch) >= job.total \/ Cardinality(batch) < BatchSize
    THEN "completed" ELSE "queued"

AfterBatch ==
    IF job.cancel THEN "cancelled"
    ELSE IF \/ job.processed + Cardinality(batch) >= job.total
            \/ Cardinality(batch) < BatchSize
         THEN "completed" ELSE "queued"

(* Mutant: the accounts of the last write stay. *)
KeepsFound == batch' = {} /\ UNCHANGED found

(* The worker forgets the batch it had in memory. *)
LetGo == batch' = {} /\ found' = {}

(* The UPDATEs and the commit, whose answer may be lost.  An UPDATE that      *)
(* meets a deleted row raises StaleDataError if it was sent alone; one that  *)
(* was sent together with others finds no row and goes unnoticed.  The result *)
(* of such an account has been counted with those of the others.             *)
WriteBatch ==
    /\ wpc = "writing"
    /\ Cardinality(found) = 1 => found \subseteq rows
    /\ \E r \in Results :
         /\ state' = [a \in Ids |-> IF a \in found \cap rows THEN NewState(r[a]) ELSE state[a]]
         /\ next' = [a \in Ids |-> IF a \in found \cap rows THEN NextRefresh(a, r[a])
                                                           ELSE next[a]]
         /\ job' = [job EXCEPT !.cursor = Max(batch),
                               !.processed = @ + Cardinality(batch),
                               !.succeeded = @ + Cardinality(Succeeded(r)),
                               !.failed = @ + Cardinality(found \ Succeeded(r)),
                               !.status = AfterBatch]
    /\ covered' = covered \cup batch
    /\ applied' = applied \cup (found \cap rows)
    /\ LetGo
    /\ \/ wpc' = "free" /\ UNCHANGED cause
       \/ wpc' = "failing" /\ cause' = "other"
    /\ UNCHANGED <<rows, lastId, crashes, present, target, raced>>

RaiseStale ==
    /\ wpc = "writing"
    /\ ~(found \subseteq rows)
    /\ wpc' = "failing"
    /\ cause' = "stale"
    /\ UNCHANGED <<accounts, job, batch, found, crashes, present,
                   target, covered, applied, raced>>

(* Anything else in the batch raises: the database is gone, a row cannot be  *)
(* decrypted.                                                                *)
RaiseOther ==
    /\ wpc \in {"claimed", "calling", "writing"}
    /\ wpc' = "failing"
    /\ cause' = "other"
    /\ UNCHANGED <<accounts, job, batch, found, crashes, present,
                   target, covered, applied, raced>>

FailJob ==
    /\ wpc = "failing"
    /\ job' = [job EXCEPT !.status = "failed"]
    /\ LetGo
    /\ wpc' = "free"
    /\ UNCHANGED <<accounts, crashes, history>>

Crash ==
    /\ wpc # "down"
    /\ crashes < MaxCrashes
    /\ crashes' = crashes + 1
    /\ LetGo
    /\ wpc' = "down"
    /\ UNCHANGED <<accounts, job, history>>

NotRecovered == job                                      \* mutant

RecoveredJob == [job EXCEPT !.status = IF @ = "running" THEN "queued" ELSE @]

(* The worker starts again and recover_stale_jobs runs. *)
Recover ==
    /\ wpc = "down"
    /\ job' = RecoveredJob
    /\ wpc' = "free"
    /\ UNCHANGED <<accounts, batch, found, crashes, history>>

-----------------------------------------------------------------------------
WorkerStep ==
    \/ Claim \/ ClaimNothing \/ LoadWork \/ FinishEmpty \/ SelectAccounts
    \/ WriteBatch \/ RaiseStale \/ FailJob \/ Recover

Next ==
    \/ \E ids \in SUBSET rows : DeleteAccounts(ids)
    \/ \E new \in 0 .. MaxId, old \in SUBSET rows : ImportBatch(new, old)
    \/ \E a \in Ids : BecomeDue(a)
    \/ \E kind \in Kinds, scope \in Scopes, ids \in SUBSET Ids :
           CreateJob(kind, scope, ids)
    \/ CancelJob \/ RaiseOther \/ Crash \/ WorkerStep

Spec == Init /\ [][Next]_vars

(* The worker loop keeps going; every call to Microsoft has a time limit. *)
FairSpec == Spec /\ WF_vars(WorkerStep)

-----------------------------------------------------------------------------
(* Properties.                                                              *)

(* What the counters of a job are worth, however often the worker dies: every *)
(* account of a committed batch counts once in "processed", every result that *)
(* was written counts once in "succeeded" or "failed", and so do the accounts *)
(* that were deleted between the SELECT and the UPDATEs of a batch that was   *)
(* committed, of which nothing was written.  Deleted at any other time, an    *)
(* account is not counted (process_account_job, recover_stale_jobs).          *)
CountersMatch ==
    /\ job.processed = Cardinality(covered)
    /\ job.succeeded + job.failed = Cardinality(applied) + Cardinality(raced \cap covered)

(* Accounts imported after the creation of a job are never drawn into it     *)
(* (docs/ARCHITECTURE.md: the highest account id is recorded at creation).   *)
SnapshotOnly == covered \subseteq present

(* A job for all or for selected accounts that says "completed" has          *)
(* processed every account it was created for that still exists, although it *)
(* decides by counting and deletions disturb the count.                      *)
CompletedCoversSnapshot ==
    job.status = "completed" /\ job.scope # "due" => target \cap rows \subseteq covered

(* An account is out of the schedule exactly while its token is known to be  *)
(* invalid: every other outcome, and an import, gives it a date again.       *)
ParkedIffInvalid ==
    \A a \in rows : state[a] = "token_invalid" <=> next[a] = "never"

(* The job is one of JobContract: from its insertion to its end it commits no *)
(* more batches than its accounts are worth, each once, and at most the one  *)
(* in work after a cancellation, although accounts are deleted under it.     *)
(* This is what JobQueue takes a batch for (process_account_job).            *)
BatchesLeft ==
    (job.total + BatchSize - 1) \div BatchSize - job.processed \div BatchSize

Contract == INSTANCE JobContract
    WITH Jobs <- {"job"}, phase <- [j \in {"job"} |-> job.status],
         cancelled <- [j \in {"job"} |-> job.cancel],
         left <- [j \in {"job"} |-> BatchesLeft]

ContractSpec == Contract!Spec

(* Every job ends: the cursor leaves each account behind for good, whatever  *)
(* becomes due, is imported or is deleted meanwhile.                         *)
JobEnds ==
    job.status \in Active
        ~> job.status \in {"completed", "failed", "cancelled"}

(* A job for the due accounts that says "completed" has processed every      *)
(* account that was due when it was created, still exists and was not given  *)
(* a new date since (index.html: the due accounts are processed).            *)
DueJobCoversDue ==
    job.status = "completed" /\ job.scope = "due" => target \cap rows \subseteq covered

(* Deleting accounts during a job makes the worker skip them, and nothing    *)
(* worse (docs/ARCHITECTURE.md, consistency).                                *)
DeletedAreSkipped == job.status = "failed" => cause # "stale"
=============================================================================
