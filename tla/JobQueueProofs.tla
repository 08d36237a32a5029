---------------------------- MODULE JobQueueProofs ----------------------------
(***************************************************************************)
(* The safety properties of JobQueue and its refinement of JobContract,    *)
(* proved for every set of jobs and requests and every bound.              *)
(*                                                                         *)
(* IInv is inductive.  Beside the properties to be proved it says what the *)
(* worker knows of the job it holds (HeldJob), that a cancel request is    *)
(* about a row that was inserted, that an active job has a batch left, how *)
(* a creation, its row, its file and the files doomed by maintenance go    *)
(* together (Creations), and in which order equal priorities run (Turns).  *)
(***************************************************************************)
EXTENDS JobQueue, TLAPS

(* What the row of the job the worker holds can say at each point of run().  *)
HeldJob ==
    /\ wpc \in {"tick", "work", "opened", "fail", "unlink"} => wjob \in Jobs
    /\ wpc = "tick" => status[wjob] = "none" /\ Kind[wjob] = "scheduled"
    /\ wpc \in {"work", "opened"} => status[wjob] = "running"
    /\ wpc = "fail" => status[wjob] \in {"running", "queued", "completed", "cancelled"}
    /\ wpc = "unlink" => status[wjob] \in Ended

(* A cancel request past its check is about a row, and only rows get the flag. *)
RequestsKnowTheJob ==
    /\ \A r \in Requests :
          reqPc[r] \in {"checked", "locked"} =>
              reqJob[r] \in Jobs /\ status[reqJob[r]] # "none"
    /\ \A j \in Jobs : cancel[j] => status[j] # "none"

(* A queued or running job has a batch left to commit. *)
WorkRemains == \A j \in Jobs : status[j] \in Active => left[j] >= 1

(* A creation against its row, its spool file and the sweep of maintenance: a *)
(* file whose request may still commit is fresh, so no sweep has chosen it.   *)
Creations ==
    \A j \in Jobs :
        /\ create[j] \in {"spooled", "undo"} => IsImport(j)
        /\ create[j] = "flushed" => Kind[j] # "scheduled"
        /\ ~IsImport(j) \/ create[j] = "idle" => spool[j] = "none"
        /\ Kind[j] # "scheduled" /\ create[j] \in {"idle", "spooled", "flushed"}
              => status[j] = "none"
        /\ IsImport(j) /\ create[j] \in {"spooled", "flushed"} => spool[j] = "fresh"
        /\ j \in doomed => IsImport(j) /\ create[j] \notin {"idle", "spooled", "flushed"}
        /\ j \in doomed /\ create[j] = "acked" => status[j] \notin Active

Stamped(j) == status[j] # "none" \/ create[j] = "flushed"

(* Rows, committed or on their way, have distinct stamps; nothing starts      *)
(* before it is created.                                                      *)
Ranks ==
    /\ \A j \in Jobs : /\ Stamped(j) => created[j] \in 1 .. clock
                       /\ status[j] = "none" => ~started[j]
    /\ \A j, k \in Jobs :
          j # k /\ Stamped(j) /\ Stamped(k) => created[j] # created[k]

(* No begun job has an older unfinished one of its priority beside it, be it  *)
(* committed or on its way, unless its first claim could not see that one.    *)
Turns ==
    \A j, k \in Jobs :
        /\ status[j] \in Active \/ create[j] = "flushed"
        /\ status[k] \in Active /\ started[k]
        /\ Priority[Kind[j]] = Priority[Kind[k]]
        /\ created[j] < created[k]
        => <<k, j>> \in overtook

(* The inductive invariant. *)
IInv ==
    /\ TypeOK
    /\ HeldJob
    /\ RunningIsHeld
    /\ RequestsKnowTheJob
    /\ WorkRemains
    /\ Creations
    /\ AckedImportKeepsSpool
    /\ Ranks
    /\ Turns

-----------------------------------------------------------------------------
LEMMA PriorityType == \A j \in Jobs : Priority[Kind[j]] \in Nat
BY JobsAssumption DEF Priority, Kinds

(* What a committed batch does to the row of its job. *)
BatchTo(j, s) ==
    /\ status[j] = "running"
    /\ left[j] \in 1 .. MaxBatches
    /\ left' = [left EXCEPT ![j] = left[j] - 1]
    /\ status' = [status EXCEPT ![j] = s]
    /\ s = "queued" => left[j] > 1
    /\ s = "cancelled" <=> cancel[j]
    /\ UNCHANGED <<cancel, started, created, clock>>

LEMMA BatchOutcome ==
    ASSUME TypeOK, WorkRemains, HeldJob, CommitBatch(wjob)
    PROVE  \E s \in {"queued", "completed", "cancelled"} : BatchTo(wjob, s)
<1>1. PICK last \in LastBatch(wjob) :
          status' = [status EXCEPT ![wjob] = AfterBatch(wjob, last)]
  BY DEF CommitBatch
<1>2. last \in BOOLEAN /\ (left[wjob] = 1 => last)
  BY DEF LastBatch
<1>3. AfterBatch(wjob, last) \in {"queued", "completed", "cancelled"}
  BY DEF AfterBatch
<1>4. AfterBatch(wjob, last) = "cancelled" <=> cancel[wjob]
  BY DEF AfterBatch
<1>5. AfterBatch(wjob, last) = "queued" => left[wjob] # 1
  BY <1>2 DEF AfterBatch
<1>6. status[wjob] = "running" /\ left[wjob] \in 1 .. MaxBatches
  BY JobsAssumption DEF CommitBatch, TypeOK, WorkRemains, HeldJob, Active
<1>7. BatchTo(wjob, AfterBatch(wjob, last))
  <2>1. AfterBatch(wjob, last) = "queued" => left[wjob] > 1
    BY <1>5, <1>6, JobsAssumption
  <2> QED
    BY <1>1, <1>4, <1>6, <2>1 DEF CommitBatch, BatchTo
<1> QED
  BY <1>3, <1>7

LEMMA Initially == Init => IInv
BY JobsAssumption DEF Init, IInv, TypeOK, RunningIsHeld, HeldJob,
   RequestsKnowTheJob, WorkRemains, Creations, AckedImportKeepsSpool, Ranks,
   Stamped, Turns, Active, Ended, IsImport

LEMMA Inductive == IInv /\ [Next]_vars => IInv'
<1> SUFFICES ASSUME IInv, [Next]_vars PROVE IInv'
  OBVIOUS
<1> USE JobsAssumption, PriorityType
    DEF IInv, TypeOK, RunningIsHeld, HeldJob, RequestsKnowTheJob, WorkRemains,
        Creations, AckedImportKeepsSpool, Ranks, Stamped, Turns, Active, Ended,
        IsImport, Locked, vars, rows, db, web, worker
<1>1. ASSUME NEW j \in Jobs, SpoolImport(j) PROVE IInv'
  BY <1>1 DEF SpoolImport
<1>2. ASSUME NEW j \in Jobs, FlushJob(j) PROVE IInv'
  BY <1>2 DEF FlushJob, Stamp
<1>3. ASSUME NEW j \in Jobs, CommitJob(j) PROVE IInv'
  BY <1>3 DEF CommitJob, InsertJob
<1>4. ASSUME NEW j \in Jobs, RejectImport(j) PROVE IInv'
  <2>1. CASE UNCHANGED rows
    BY <1>4, <2>1 DEF RejectImport
  <2>2. CASE create[j] = "flushed" /\ InsertJob(j)
    BY <1>4, <2>2 DEF RejectImport, InsertJob
  <2> QED
    BY <1>4, <2>1, <2>2 DEF RejectImport
<1>5. ASSUME NEW j \in Jobs, UndoImport(j) PROVE IInv'
  BY <1>5 DEF UndoImport
<1>6. ASSUME NEW j \in Jobs, AbandonJob(j) PROVE IInv'
  BY <1>6 DEF AbandonJob
<1>7. ASSUME NEW j \in Jobs, Age(j) PROVE IInv'
  BY <1>7 DEF Age
<1>8. ASSUME NEW j \in Jobs, TickCheck(j) PROVE IInv'
  BY <1>8 DEF TickCheck
<1>9. ASSUME NEW r \in Requests, NEW j \in Jobs, CancelCheck(r, j) PROVE IInv'
  BY <1>9 DEF CancelCheck
<1>10. ASSUME NEW r \in Requests, CancelFlush(r) PROVE IInv'
  BY <1>10 DEF CancelFlush
<1>11. ASSUME NEW r \in Requests, CancelCommit(r) PROVE IInv'
  BY <1>11 DEF CancelCommit
<1>12. ASSUME NEW r \in Requests, CancelAbort(r) PROVE IInv'
  BY <1>12 DEF CancelAbort
<1>13. CASE GoDown
  BY <1>13 DEF GoDown
<1>14. CASE Recover
  BY <1>14 DEF Recover, Recovered
<1>15. CASE Restart
  BY <1>15 DEF Restart
<1>16. CASE Maintain
  BY <1>16 DEF Maintain, Orphan
<1>17. CASE SweepDone
  BY <1>17 DEF SweepDone
<1>18. CASE NoMaintenance
  BY <1>18 DEF NoMaintenance
<1>19. CASE ClaimNothing
  BY <1>19 DEF ClaimNothing
<1>20. CASE RunBatch
  <2>1. PICK s \in {"queued", "completed", "cancelled"} : BatchTo(wjob, s)
    BY <1>20, BatchOutcome DEF RunBatch
  <2>2. wjob' \in Jobs \cup {NoJob} /\ (wpc' = "unlink" => wjob' = wjob /\ s # "queued")
    BY <1>20, <2>1 DEF RunBatch, BatchTo
  <2> QED
    BY <1>20, <2>1, <2>2 DEF RunBatch, BatchTo
<1>21. CASE FindNoAccount
  BY <1>21 DEF FindNoAccount, EndEmpty
<1>22. CASE RaiseInBatch
  <2>1. CASE UNCHANGED db
    BY <1>22, <2>1 DEF RaiseInBatch
  <2>2. CASE CommitBatch(wjob)
    <3>1. PICK s \in {"queued", "completed", "cancelled"} : BatchTo(wjob, s)
      BY <1>22, <2>2, BatchOutcome DEF RaiseInBatch
    <3> QED
      BY <1>22, <3>1 DEF RaiseInBatch, BatchTo
  <2>3. CASE EndEmpty(wjob)
    BY <1>22, <2>3 DEF RaiseInBatch, EndEmpty
  <2> QED
    BY <1>22, <2>1, <2>2, <2>3 DEF RaiseInBatch
<1>23. CASE FailJob
  BY <1>23 DEF FailJob
<1>24. CASE RemoveSpool
  BY <1>24 DEF RemoveSpool
<1>25. ASSUME NEW j \in Jobs, SweepFile(j) PROVE IInv'
  BY <1>25 DEF SweepFile
<1>26. ASSUME NEW j \in Jobs, Claim(j) PROVE IInv'
  <2> USE <1>26 DEF Claim
  <2>1. \A k \in Jobs : status[k] # "running"
    OBVIOUS
  <2>2. CASE ~MayStart(j)
    BY <2>1, <2>2 DEF Claimable, MayStart
  <2>3. CASE MayStart(j)
    <3>1. \A k \in Jobs \ {j} :
              /\ ~started[j]
              /\ status[k] = "queued" \/ create[k] = "flushed"
              /\ Priority[Kind[k]] = Priority[Kind[j]]
              => \/ status[k] = "queued" /\ Before(j, k)
                 \/ <<j, k>> \in overtook'
      BY <2>3 DEF Claimable, Overtakes, Hidden
    <3>2. /\ status' = [status EXCEPT ![j] = "running"]
          /\ started' = [started EXCEPT ![j] = TRUE]
          /\ status[j] = "queued"
          /\ wpc' = "work" /\ wjob' = j
      BY <2>3 DEF Claimable
    <3>3. TypeOK' /\ overtook \subseteq overtook'
      BY <2>3, <3>2 DEF Overtakes, Hidden
    <3>4. (HeldJob /\ RunningIsHeld)'
      BY <2>1, <3>2
    <3>5. (RequestsKnowTheJob /\ WorkRemains /\ Creations /\ AckedImportKeepsSpool)'
      BY <2>1, <2>3 DEF Claimable
    <3>6. Ranks'
      BY <3>2
    <3>7. Turns'
      BY <2>1, <3>1, <3>2, <3>3 DEF Before
    <3> QED
      BY <3>3, <3>4, <3>5, <3>6, <3>7
  <2> QED
    BY <2>2, <2>3
<1>27. CASE OpenSpool
  BY <1>27 DEF OpenSpool
<1>28. CASE TickCommit
  <2>1. CASE UNCHANGED db
    BY <1>28, <2>1 DEF TickCommit
  <2>2. CASE InsertJob(wjob) /\ Stamp(wjob)
    BY <1>28, <2>2 DEF TickCommit, InsertJob, Stamp
  <2> QED
    BY <1>28, <2>1, <2>2 DEF TickCommit
<1>29. CASE UNCHANGED vars
  BY <1>29 DEF vars, db, web, worker
<1>30. QED
  BY <1>1, <1>2, <1>3, <1>4, <1>5, <1>6, <1>7, <1>8, <1>9, <1>10, <1>11,
     <1>12, <1>13, <1>14, <1>15, <1>16, <1>17, <1>18, <1>19, <1>20, <1>21,
     <1>22, <1>23, <1>24, <1>25, <1>26, <1>27, <1>28, <1>29
     DEF Next, WorkerStep

LEMMA Invariance == Spec => []IInv
BY Initially, Inductive, PTL DEF Spec

(* Every variable keeps its type: counters and batch counts stay in range,   *)
(* whatever the web handlers and the worker do (models.py Job).              *)
THEOREM TypeCorrect == Spec => []TypeOK
<1>1. IInv => TypeOK
  BY DEF IInv
<1> QED
  BY <1>1, Invariance, PTL

(* For any number of jobs, requests and restarts, at most one row is         *)
(* "running", and only while the worker holds that job or has not yet        *)
(* recovered its rows (recover_stale_jobs, claim_job).                       *)
THEOREM OneRunner == Spec => []RunningIsHeld
<1>1. IInv => RunningIsHeld
  BY DEF IInv
<1> QED
  BY <1>1, Invariance, PTL

(* No maintenance, failure or restart takes the spool file of an acknowledged *)
(* import away before the import has ended (maintenance_tick).                *)
THEOREM SpoolKept == Spec => []AckedImportKeepsSpool
<1>1. IInv => AckedImportKeepsSpool
  BY DEF IInv
<1> QED
  BY <1>1, Invariance, PTL

(* For any number of jobs, requests and restarts: two jobs of equal priority  *)
(* are both begun and unfinished only if the claim that began the younger     *)
(* could not see the older, because of a row lock or because its commit was   *)
(* on its way although its stamp was taken (claim_job, create_job).           *)
THEOREM InTurn == Spec => []EqualPriorityInTurn
<1>1. IInv => EqualPriorityInTurn
  BY DEF IInv, Turns, EqualPriorityInTurn
<1> QED
  BY <1>1, Invariance, PTL

-----------------------------------------------------------------------------
(* Refinement: every step of the queue is a step of the contract or leaves    *)
(* what the contract talks about alone.                                       *)
Still == UNCHANGED <<status, cancel, left>>

LEMMA InsertSubmits ==
    ASSUME TypeOK, NEW j \in Jobs, InsertJob(j)
    PROVE  Contract!Submit(j)
<1>1. left' = [left EXCEPT ![j] = left'[j]] /\ left'[j] \in Nat \ {0}
  BY JobsAssumption DEF TypeOK, InsertJob
<1> QED
  BY <1>1 DEF InsertJob, Contract!Submit, Contract!Move

LEMMA BatchRefines ==
    ASSUME TypeOK, NEW j \in Jobs, NEW s \in {"queued", "completed", "cancelled"},
           BatchTo(j, s)
    PROVE  Contract!Next
<1>1. CASE s = "queued"
  BY <1>1 DEF BatchTo, Contract!Next, Contract!Yield, Contract!Move, Contract!CommitOne
<1>2. CASE s = "completed"
  BY <1>2 DEF BatchTo, Contract!Next, Contract!Complete, Contract!Move, Contract!CommitOne
<1>3. CASE s = "cancelled"
  BY <1>3 DEF BatchTo, Contract!Next, Contract!Stop, Contract!Move, Contract!CommitOne
<1> QED
  BY <1>1, <1>2, <1>3

LEMMA RecoverRefines ==
    ASSUME IInv, Recover PROVE Contract!Next \/ Still
<1> USE DEF IInv
<1>1. CASE \E j \in Jobs : status[j] = "running"
  <2>1. PICK j \in Jobs : status[j] = "running"
    BY <1>1
  <2>2. \A k \in Jobs : status[k] = "running" => k = j
    BY <2>1 DEF RunningIsHeld
  <2>3. status' = [status EXCEPT ![j] = "queued"]
    BY <2>1, <2>2 DEF Recover, Recovered, TypeOK
  <2> QED
    BY <2>1, <2>3 DEF Recover, Contract!Next, Contract!Interrupt, Contract!Move
<1>2. CASE \A j \in Jobs : status[j] # "running"
  <2>1. status' = status
    BY <1>2 DEF Recover, Recovered, TypeOK
  <2> QED
    BY <2>1 DEF Recover, Still
<1> QED
  BY <1>1, <1>2

LEMMA ClaimRefines ==
    ASSUME IInv, NEW j \in Jobs, Claim(j) PROVE Contract!Next
<1> USE DEF IInv
<1>1. status[j] = "queued" /\ UNCHANGED <<cancel, left>>
  BY DEF Claim, Claimable
<1>2. CASE ~MayStart(j)
  BY <1>1, <1>2 DEF Claim, MayStart, Contract!Next, Contract!Stop, Contract!Move
<1>3. CASE MayStart(j)
  <2>1. \A k \in Jobs : status[k] # "running"
    BY DEF Claim, RunningIsHeld
  <2> QED
    BY <1>1, <1>3, <2>1 DEF Claim, MayStart, Contract!Next, Contract!Start, Contract!Move
<1> QED
  BY <1>2, <1>3

LEMMA StepRefines ==
    ASSUME IInv, [Next]_vars PROVE Contract!Next \/ Still
<1> USE DEF IInv, Still, rows, db, web, worker
<1>1. ASSUME NEW j \in Jobs,
             CommitJob(j) \/ RejectImport(j) \/ (TickCommit /\ j = wjob)
      PROVE  Contract!Next \/ Still
  <2>1. InsertJob(j) \/ UNCHANGED rows
    BY <1>1 DEF CommitJob, RejectImport, TickCommit
  <2> QED
    BY <2>1, InsertSubmits DEF Contract!Next
<1>2. ASSUME NEW j \in Jobs,
             \/ SpoolImport(j) \/ FlushJob(j) \/ UndoImport(j) \/ AbandonJob(j)
             \/ Age(j) \/ TickCheck(j) \/ SweepFile(j)
      PROVE  Still
  BY <1>2 DEF SpoolImport, FlushJob, UndoImport, AbandonJob, Age, TickCheck, SweepFile
<1>3. ASSUME NEW r \in Requests,
             \/ \E j \in Jobs : CancelCheck(r, j)
             \/ CancelFlush(r) \/ CancelAbort(r)
      PROVE  Still
  BY <1>3 DEF CancelCheck, CancelFlush, CancelAbort
<1>4. ASSUME NEW r \in Requests, CancelCommit(r) PROVE Contract!Next
  BY <1>4 DEF CancelCommit, RequestsKnowTheJob, Contract!Next, Contract!Cancel
<1>5. CASE GoDown \/ Restart \/ SweepDone \/ NoMaintenance \/ ClaimNothing
            \/ OpenSpool \/ RemoveSpool
  BY <1>5 DEF GoDown, Restart, SweepDone, NoMaintenance, ClaimNothing, OpenSpool,
              RemoveSpool
<1>6. CASE Maintain
  <2>1. PICK old \in SUBSET Jobs :
            /\ \A j \in old : status[j] \in Ended
            /\ status' = [j \in Jobs |-> IF j \in old THEN "purged" ELSE status[j]]
    BY <1>6 DEF Maintain
  <2>2. Contract!Forget(old)
    BY <1>6, <2>1 DEF Maintain, Ended, Contract!Forget
  <2> QED
    BY <2>2 DEF Contract!Next
<1>7. CASE RunBatch \/ (RaiseInBatch /\ CommitBatch(wjob))
  BY <1>7, BatchOutcome, BatchRefines DEF RunBatch, RaiseInBatch, HeldJob
<1>8. CASE FindNoAccount \/ (RaiseInBatch /\ EndEmpty(wjob))
  BY <1>8 DEF FindNoAccount, EndEmpty, HeldJob, Contract!Next, Contract!Stop,
              Contract!Complete, Contract!Move
<1>9. CASE FailJob
  BY <1>9 DEF FailJob, HeldJob, Contract!Next, Contract!Fail, Contract!Move
<1>10. CASE TickCommit
  BY <1>1, <1>10 DEF TickCommit, HeldJob
<1>11. CASE RaiseInBatch
  BY <1>7, <1>8, <1>11 DEF RaiseInBatch
<1>12. CASE UNCHANGED vars
  BY <1>12 DEF vars
<1> HIDE DEF IInv, Still, rows, db, web, worker
<1> QED
  BY <1>1, <1>2, <1>3, <1>4, <1>5, <1>6, <1>7, <1>8, <1>9, <1>10, <1>11, <1>12,
     RecoverRefines, ClaimRefines DEF Next, WorkerStep

(* The queue implements the contract of JobContract: one job runs at a time,  *)
(* batches are committed one by one, an ended job never runs again, and a     *)
(* cancelled job is neither started nor reported as completed.                *)
THEOREM Refinement == Spec => ContractSpec
<1>1. Init => Contract!Init
  BY DEF Init, Contract!Init
<1>2. IInv /\ [Next]_vars => [Contract!Next]_(Contract!vars)
  BY StepRefines DEF Still, Contract!vars
<1> QED
  BY <1>1, <1>2, Invariance, PTL DEF Spec, ContractSpec, Contract!Spec

(* Neither recovery, nor a late cancel, nor a batch whose commit was not      *)
(* acknowledged makes an ended job active again (worker.py, all of run).      *)
THEOREM NoRevival == Spec => EndedStaysEnded
<1> DEFINE P == \A j \in Jobs : status[j] \in Ended \cup {"purged"}
                               => status'[j] \in Ended \cup {"purged"}
<1>1. IInv /\ [Next]_vars => [P]_vars
  <2> SUFFICES ASSUME IInv, Contract!Next PROVE P
    BY StepRefines DEF Still
  <2> USE DEF IInv, TypeOK, Active, Ended
  <2>1. CASE \E js \in SUBSET Jobs : Contract!Forget(js)
    BY <2>1 DEF Contract!Forget
  <2>2. ASSUME NEW j \in Jobs, NEW s \in {"queued", "running", "completed", "cancelled", "failed"},
               status' = [status EXCEPT ![j] = s],
               status[j] \notin Ended \cup {"purged"} \/ s \in Ended
        PROVE P
    BY <2>2
  <2>3. ASSUME NEW j \in Jobs, Contract!Cancel(j) PROVE P
    BY <2>3 DEF Contract!Cancel
  <2> QED
    BY <2>1, <2>2, <2>3 DEF Contract!Next, Contract!Submit, Contract!Start,
       Contract!Yield, Contract!Interrupt, Contract!Complete, Contract!Stop,
       Contract!Fail, Contract!Move
<1> QED
  BY <1>1, Invariance, PTL DEF Spec, EndedStaysEnded

(* After its cancellation is committed a job is not started, and commits at   *)
(* most the batch it is in (claim_job, process_import, process_account_job).  *)
THEOREM CancelStops == Spec => CancelledWorkStops
<1> DEFINE P == \A j \in Jobs : cancel[j] =>
          /\ status[j] = "queued" => status'[j] # "running" /\ left'[j] = left[j]
          /\ left'[j] # left[j] => status'[j] \in Ended
<1>1. IInv /\ [Next]_vars => [P]_vars
  <2> SUFFICES ASSUME IInv, Contract!Next PROVE P
    BY StepRefines DEF Still, IInv, TypeOK
  <2> USE DEF IInv, TypeOK, RequestsKnowTheJob, Active, Ended
  <2>1. CASE \E js \in SUBSET Jobs : Contract!Forget(js)
    BY <2>1 DEF Contract!Forget
  <2>2. ASSUME NEW j \in Jobs,
               Contract!Submit(j) \/ Contract!Start(j) \/ Contract!Yield(j) \/ Contract!Complete(j)
        PROVE P
    BY <2>2 DEF Contract!Submit, Contract!Start, Contract!Yield,
                Contract!Complete, Contract!Move, Contract!CommitOne
  <2>3. ASSUME NEW j \in Jobs, 
               Contract!Cancel(j) \/ Contract!Interrupt(j) \/ Contract!Stop(j) \/ Contract!Fail(j)
        PROVE P
    BY <2>3 DEF Contract!Cancel, Contract!Interrupt, Contract!Stop,
                Contract!Fail, Contract!Move, Contract!CommitOne
  <2> QED
    BY <2>1, <2>2, <2>3 DEF Contract!Next
<1> QED
  BY <1>1, Invariance, PTL DEF Spec, CancelledWorkStops
=============================================================================
