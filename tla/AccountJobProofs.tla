--------------------------- MODULE AccountJobProofs ---------------------------
(***************************************************************************)
(* The safety invariants of AccountJob and its refinement of JobContract,  *)
(* proved for every table, every size of a batch and every number of       *)
(* crashes.                                                                *)
(*                                                                         *)
(* IInv is inductive.  Beside the invariants to be proved it says where    *)
(* the worker can be with the row of the job (HeldJob), what the snapshot  *)
(* was (Snapshot), that the cursor has left nothing behind (Behind), that  *)
(* a batch in work is the first stretch of what is ahead (InBatch), and    *)
(* which of its accounts were deleted too late to be noticed (Raced).      *)
(***************************************************************************)
EXTENDS AccountJob, IdLemmas

(* The worker works on a running job and forgets each batch when it is done;  *)
(* without a job nothing has happened.                                       *)
HeldJob ==
    /\ wpc \in {"claimed", "calling", "writing"} => job.status = "running"
    /\ wpc \in {"free", "claimed", "calling", "down"} => found = {}
    /\ job.status = "none" => wpc \in {"free", "down"} /\ covered = {} /\ applied = {}
    /\ job.status = "none" => job.cancel = FALSE
    /\ wpc = "failing" => job.status \in {"queued", "running", "completed", "cancelled"}

(* Ids only grow: every account up to the end of the snapshot was there when *)
(* the job was created.                                                      *)
Snapshot ==
    /\ \A a \in rows : a <= lastId
    /\ job.status # "none" =>
          /\ job.max <= lastId
          /\ \A a \in rows : a <= job.max => a \in present
          /\ \A a \in target : a <= job.max
          /\ job.scope # "due" =>
                /\ target = {a \in present : job.scope = "selected" => a \in job.ids}
                /\ job.total = Cardinality(target)

(* What is behind the cursor has been covered, or is gone. *)
Behind ==
    job.status # "none" =>
        /\ \A a \in covered : a <= job.cursor
        /\ job.scope # "due" =>
              /\ covered \subseteq target
              /\ \A a \in target \cap rows : a <= job.cursor => a \in covered

(* The batch is ahead of the cursor and skips nothing; a short one is the     *)
(* last.                                                                     *)
InBatch ==
    wpc \in {"calling", "writing"} =>
        /\ batch # {} /\ Cardinality(batch) <= BatchSize
        /\ \A a \in batch : job.cursor < a /\ a <= job.max /\ a \in present
        /\ job.scope # "due" =>
              /\ batch \subseteq target
              /\ \A a \in target \cap rows : \A b \in batch :
                    a <= b => a \in covered \cup batch
              /\ Cardinality(batch) < BatchSize => target \cap rows \subseteq covered \cup batch

(* An account deleted behind the SELECT of its batch never comes back, and in *)
(* a batch at work these are the ones found that are gone.                   *)
Raced ==
    /\ raced \cap rows = {} /\ \A a \in raced : a <= lastId
    /\ wpc = "calling" => batch \cap raced = {}
    /\ wpc = "writing" => batch \cap raced = found \ rows

(* The inductive invariant. *)
IInv ==
    /\ TypeOK
    /\ HeldJob
    /\ Snapshot
    /\ Behind
    /\ InBatch
    /\ Raced
    /\ CountersMatch
    /\ SnapshotOnly
    /\ CompletedCoversSnapshot
    /\ ParkedIffInvalid

-----------------------------------------------------------------------------
(* Max, as the model uses it, is the greatest element. *)
LEMMA MaxOfIds ==
    ASSUME NEW S, S \subseteq Ids, S # {}
    PROVE  Max(S) \in S /\ \A a \in S : a <= Max(S)
<1>1. S \subseteq 1 .. MaxId
  BY DEF Ids
<1>2. PICK m \in S : \A a \in S : a <= m
  BY <1>1, GreatestElement, AccountJobAssumption
<1>3. \A a \in S : m >= a
  BY <1>1, <1>2
<1>4. Max(S) \in S /\ \A a \in S : Max(S) >= a
  BY <1>3 DEF Max
<1> QED BY <1>1, <1>4

(* Sets of ids are finite. *)
LEMMA FiniteIds ==
    ASSUME NEW S, S \subseteq Ids
    PROVE  IsFiniteSet(S) /\ Cardinality(S) \in Nat
  BY FiniteStretch, AccountJobAssumption DEF Ids

-----------------------------------------------------------------------------
(* The initial states satisfy the invariant. *)
LEMMA Initially == Init => IInv
<1> SUFFICES ASSUME Init PROVE IInv
  OBVIOUS
<1> USE AccountJobAssumption
<1>1. TypeOK
  <2>1. job \in JobRows
    BY DEF Init, JobRows, JobStatuses, NewJob
  <2>2. lastId \in Nat /\ rows \subseteq Ids
    BY DEF Init, Ids
  <2>3. state \in [Ids -> {"unknown", "token_invalid", "other"}]
    BY DEF Init
  <2> QED BY <2>1, <2>2, <2>3 DEF Init, TypeOK
<1>2. CountersMatch
  BY FS_EmptySet DEF Init, CountersMatch, NewJob
<1>3. Snapshot
  BY AccountJobAssumption DEF Init, Snapshot, NewJob, Ids
<1>4. ParkedIffInvalid
  <2> SUFFICES ASSUME NEW a \in rows
               PROVE  state[a] = "token_invalid" <=> next[a] = "never"
    BY DEF ParkedIffInvalid
  <2>1. a \in Ids
    BY <1>1 DEF TypeOK
  <2> QED BY <2>1 DEF Init
<1> QED
  BY <1>1, <1>2, <1>3, <1>4
     DEF Init, IInv, HeldJob, Behind, InBatch, Raced, SnapshotOnly, CompletedCoversSnapshot, NewJob

(* Steps of the world around the job. *)
LEMMA WorldKeeps ==
    ASSUME IInv,
           \/ \E ids \in SUBSET rows : DeleteAccounts(ids)
           \/ \E new \in 0 .. MaxId, old \in SUBSET rows : ImportBatch(new, old)
           \/ \E a \in Ids : BecomeDue(a)
    PROVE  IInv'
<1> USE AccountJobAssumption
<1>1. ASSUME NEW ids \in SUBSET rows, DeleteAccounts(ids)
      PROVE  IInv'
  <2>1. /\ UNCHANGED <<lastId, job, wpc, batch, found, crashes, present, target, covered,
                       applied, cause>>
        /\ rows' = rows \ ids
        /\ raced' = raced \cup (IF wpc = "writing" THEN ids \cap found ELSE {})
    BY <1>1 DEF DeleteAccounts, worker
  <2>2. TypeOK'
    BY <1>1, <2>1 DEF IInv, TypeOK, DeleteAccounts
  <2>3. Raced'
    BY <2>1 DEF IInv, Raced, TypeOK, Snapshot
  <2>4. CountersMatch'
    <3>1. ASSUME NEW a \in covered, wpc = "writing" PROVE a \notin found
      <4>1. job.status # "none" /\ job.cursor \in Nat /\ a \in Nat
        BY <3>1 DEF IInv, TypeOK, HeldJob, JobRows, Ids
      <4>2. a <= job.cursor /\ \A b \in found : job.cursor < b
        BY <3>1, <4>1 DEF IInv, TypeOK, Behind, InBatch
      <4> QED BY <4>1, <4>2
    <3>2. raced' \cap covered = raced \cap covered
      BY <2>1, <3>1
    <3> QED BY <2>1, <3>2 DEF IInv, CountersMatch
  <2>5. HeldJob' /\ Snapshot' /\ Behind' /\ InBatch'
    BY <2>1 DEF IInv, HeldJob, Snapshot, Behind, InBatch
  <2>6. SnapshotOnly' /\ CompletedCoversSnapshot' /\ ParkedIffInvalid'
    BY <1>1, <2>1 DEF IInv, TypeOK, DeleteAccounts, SnapshotOnly, CompletedCoversSnapshot,
       ParkedIffInvalid
  <2> QED BY <2>2, <2>3, <2>4, <2>5, <2>6 DEF IInv
<1>2. ASSUME NEW new \in 0 .. MaxId, NEW old \in SUBSET rows, ImportBatch(new, old)
      PROVE  IInv'
  <2>1. TypeOK'
    BY <1>2 DEF IInv, ImportBatch, TypeOK, Ids, worker
  <2>2. Snapshot'
    BY <1>2 DEF IInv, ImportBatch, TypeOK, Ids, worker, Snapshot, JobRows, Active
  <2>3. Behind'
    BY <1>2 DEF IInv, ImportBatch, TypeOK, Ids, worker, Snapshot, Behind, JobRows, Active
  <2>4. ParkedIffInvalid'
    BY <1>2 DEF IInv, ImportBatch, TypeOK, Ids, ParkedIffInvalid
  <2>5. Raced'
    BY <1>2 DEF IInv, ImportBatch, TypeOK, Ids, Raced, worker
  <2> QED
    BY <1>2, <2>1, <2>2, <2>3, <2>4, <2>5 DEF IInv, ImportBatch, HeldJob, InBatch, CountersMatch,
       SnapshotOnly, CompletedCoversSnapshot, worker, Active
<1>3. ASSUME NEW a \in Ids, BecomeDue(a)
      PROVE  IInv'
  BY <1>3 DEF IInv, BecomeDue, TypeOK, HeldJob, Snapshot, Behind, InBatch, Raced, CountersMatch,
     SnapshotOnly, CompletedCoversSnapshot, ParkedIffInvalid, worker, history, Active
<1> QED BY <1>1, <1>2, <1>3

(* The creation of the job, with its snapshot. *)
LEMMA CreateJobKeeps ==
    ASSUME IInv, NEW kind \in Kinds, NEW scope \in Scopes, NEW ids \in SUBSET Ids,
           CreateJob(kind, scope, ids)
    PROVE  IInv'
<1> USE AccountJobAssumption
<1> DEFINE snapshot == ScopeNow(scope, ids)
<1>1. /\ snapshot \subseteq rows
      /\ snapshot \subseteq Ids
      /\ snapshot # {}
  BY DEF CreateJob, ScopeNow, IInv, TypeOK
<1>2. Max(snapshot) \in snapshot /\ \A a \in snapshot : a <= Max(snapshot)
  BY <1>1, MaxOfIds
<1>3. Cardinality(snapshot) \in Nat
  BY <1>1, FiniteIds
<1>4. /\ job.status = "none"
      /\ job' = [NewJob EXCEPT !.status = "queued", !.kind = kind, !.scope = scope,
                               !.ids = ids, !.max = Max(snapshot),
                               !.total = Cardinality(snapshot)]
      /\ target' = snapshot
      /\ present' = rows
      /\ UNCHANGED <<accounts, worker, covered, applied, raced, cause>>
  BY DEF CreateJob
<1>5. scope # "due" => snapshot = {a \in rows : scope = "selected" => a \in ids}
  BY DEF ScopeNow
<1> HIDE DEF snapshot
<1>6. TypeOK'
  <2>1. job' \in JobRows
    <3>1. kind \in {"refresh", "health"} /\ scope \in {"selected", "all", "due"}
      OBVIOUS
    <3>2. Max(snapshot) \in Ids
      BY <1>1, <1>2
    <3> QED BY <1>3, <1>4, <3>1, <3>2 DEF JobRows, JobStatuses, NewJob
  <2>2. target' \subseteq present' /\ present' \subseteq Ids
    BY <1>1, <1>4 DEF IInv, TypeOK
  <2> QED BY <1>4, <2>1, <2>2 DEF IInv, TypeOK, accounts, worker
<1>7. HeldJob' /\ InBatch' /\ Raced'
  BY <1>4 DEF IInv, HeldJob, InBatch, Raced, NewJob, worker, accounts
<1>8. Snapshot'
  BY <1>1, <1>2, <1>4, <1>5 DEF IInv, Snapshot, NewJob, accounts
<1>9. covered' = {} /\ applied' = {}
  BY <1>4 DEF IInv, HeldJob
<1>10. Behind'
  BY <1>1, <1>4, <1>9 DEF IInv, TypeOK, Behind, NewJob, Ids, accounts
<1>11. CountersMatch'
  <2>1. raced' \cap covered' = {}
    BY <1>9
  <2> QED BY <1>4, <1>9, <2>1, FS_EmptySet DEF CountersMatch, NewJob
<1>12. ParkedIffInvalid'
  BY <1>4 DEF IInv, ParkedIffInvalid, accounts
<1>13. SnapshotOnly' /\ CompletedCoversSnapshot'
  BY <1>4, <1>9 DEF SnapshotOnly, CompletedCoversSnapshot, NewJob
<1> QED
  BY <1>6, <1>7, <1>8, <1>10, <1>11, <1>12, <1>13 DEF IInv

(* Steps of the worker between two writes, and the flag of a cancellation. *)
LEMMA ClaimKeeps == IInv /\ (Claim \/ ClaimNothing \/ CancelJob) => IInv'
<1> SUFFICES ASSUME IInv, Claim \/ ClaimNothing \/ CancelJob PROVE IInv'
  OBVIOUS
<1>1. CASE Claim
  BY <1>1 DEF IInv, Claim, TypeOK, JobRows, JobStatuses, HeldJob, Snapshot, Behind, InBatch,
     Raced, CountersMatch, SnapshotOnly, CompletedCoversSnapshot, ParkedIffInvalid, accounts, history
<1>2. CASE ClaimNothing
  BY <1>2 DEF IInv, ClaimNothing, TypeOK, HeldJob, Snapshot, Behind, InBatch, Raced, CountersMatch,
     SnapshotOnly, CompletedCoversSnapshot, ParkedIffInvalid, vars, accounts, worker, history
<1>3. CASE CancelJob
  <2>1. TypeOK'
    BY <1>3 DEF IInv, CancelJob, TypeOK, JobRows, accounts, worker, history
  <2>2. /\ job'.status = job.status /\ job'.scope = job.scope /\ job'.ids = job.ids
        /\ job'.max = job.max /\ job'.cursor = job.cursor /\ job'.total = job.total
        /\ job'.processed = job.processed
        /\ job'.succeeded = job.succeeded /\ job'.failed = job.failed
        /\ job.status # "none"
    BY <1>3 DEF IInv, CancelJob, TypeOK, JobRows, Active
  <2>3. UNCHANGED <<rows, lastId, state, next, wpc, batch, found, present, target, covered,
                    applied, raced>>
    BY <1>3 DEF CancelJob, accounts, worker, history
  <2> QED
    BY <2>1, <2>2, <2>3 DEF IInv, HeldJob, Snapshot, Behind, InBatch, Raced, CountersMatch,
       SnapshotOnly, CompletedCoversSnapshot, ParkedIffInvalid
<1> QED BY <1>1, <1>2, <1>3

(* A batch is chosen. *)
LEMMA LoadWorkKeeps == IInv /\ LoadWork => IInv'
<1> SUFFICES ASSUME IInv, LoadWork PROVE IInv'
  OBVIOUS
<1> USE AccountJobAssumption
<1>1. /\ InScope \subseteq Ids
      /\ InScope # {}
      /\ batch' = FirstBatch
  BY DEF LoadWork, InScope, ScopeNow, IInv, TypeOK
<1>2. /\ FirstBatch # {}
      /\ \A a \in InScope, b \in FirstBatch : a <= b => a \in FirstBatch
      /\ Cardinality(FirstBatch) < BatchSize => FirstBatch = InScope
      /\ Cardinality(FirstBatch) <= BatchSize
  <2>1. /\ InScope \subseteq 1 .. MaxId
        /\ MaxId \in Nat /\ BatchSize \in Nat \ {0}
    BY <1>1 DEF Ids
  <2>2. FirstBatch = First(InScope, BatchSize)
    BY DEF FirstBatch, First
  <2> QED BY <1>1, <2>1, <2>2, FirstStretch, FirstBound
<1>3. FirstBatch \subseteq InScope
  BY DEF FirstBatch
<1>4. \A a \in InScope : a \in rows /\ job.cursor < a /\ a <= job.max /\ a \in present
  BY DEF LoadWork, InScope, ScopeNow, IInv, TypeOK, HeldJob, Snapshot, JobRows, Ids
<1>5. ASSUME job.scope # "due"
      PROVE  /\ InScope \subseteq target
             /\ \A a \in target \cap rows : a \in covered \/ a \in InScope
  <2>1. job.status = "running"
    BY DEF LoadWork, IInv, HeldJob
  <2>2. target = {a \in present : job.scope = "selected" => a \in job.ids}
    BY <1>5, <2>1 DEF IInv, Snapshot
  <2>3. \A a \in target \cap rows : a <= job.max /\ (a <= job.cursor => a \in covered)
    BY <1>5, <2>1 DEF IInv, Snapshot, Behind
  <2>4. InScope \subseteq target
    BY <1>4, <2>2 DEF InScope, ScopeNow
  <2>5. ASSUME NEW a \in target \cap rows, a \notin covered
        PROVE  a \in InScope
    <3>1. a <= job.max /\ ~ (a <= job.cursor)
      BY <2>3, <2>5
    <3>2. a > job.cursor
      BY <3>1 DEF IInv, TypeOK, JobRows, Ids
    <3>3. a \in ScopeNow(job.scope, job.ids)
      BY <1>5, <2>2 DEF ScopeNow
    <3> QED BY <3>1, <3>2, <3>3 DEF InScope
  <2> QED BY <2>4, <2>5
<1>6. TypeOK'
  BY <1>1, <1>3 DEF LoadWork, IInv, HeldJob, TypeOK, accounts, history
<1>7. InBatch'
  <2> SUFFICES /\ batch' # {} /\ Cardinality(batch') <= BatchSize
               /\ \A a \in batch' : job.cursor < a /\ a <= job.max /\ a \in present
               /\ job.scope # "due" =>
                     /\ batch' \subseteq target
                     /\ \A a \in target \cap rows : \A b \in batch' :
                           a <= b => a \in covered \cup batch'
                     /\ Cardinality(batch') < BatchSize =>
                           target \cap rows \subseteq covered \cup batch'
    BY DEF LoadWork, InBatch, accounts, history
  <2> QED BY <1>1, <1>2, <1>3, <1>4, <1>5
<1>8. Raced'
  BY <1>1, <1>3, <1>4 DEF LoadWork, IInv, Raced, accounts, history
<1> QED
  BY <1>6, <1>7, <1>8 DEF LoadWork, IInv, HeldJob, Snapshot, Behind, CountersMatch, SnapshotOnly,
     CompletedCoversSnapshot, ParkedIffInvalid, accounts, history

(* Nothing is left to do. *)
LEMMA FinishEmptyKeeps == IInv /\ FinishEmpty => IInv'
<1> SUFFICES ASSUME IInv, FinishEmpty PROVE IInv'
  OBVIOUS
<1>1. CompletedCoversSnapshot'
  <2> SUFFICES ASSUME job.scope # "due",
                      NEW a \in target \cap rows
               PROVE  a \in covered
    BY DEF FinishEmpty, CompletedCoversSnapshot, accounts, IInv, TypeOK, JobRows
  <2>1. job.status = "running"
    BY DEF FinishEmpty, IInv, HeldJob
  <2>2. /\ a <= job.max
        /\ a <= job.cursor => a \in covered
        /\ job.scope = "selected" => a \in job.ids
    BY <2>1 DEF IInv, Snapshot, Behind
  <2>3. a \in ScopeNow(job.scope, job.ids)
    BY <2>2 DEF ScopeNow
  <2>4. ~ (a > job.cursor)
    BY <2>2, <2>3 DEF FinishEmpty, InScope
  <2>5. a \in Nat /\ job.cursor \in Nat
    BY AccountJobAssumption DEF IInv, TypeOK, JobRows, Ids
  <2> QED BY <2>2, <2>4, <2>5
<1>2. TypeOK'
  BY DEF FinishEmpty, IInv, TypeOK, JobRows, JobStatuses, accounts
<1>3. HeldJob' /\ Snapshot' /\ Behind' /\ InBatch' /\ Raced'
  BY DEF FinishEmpty, IInv, HeldJob, Snapshot, Behind, InBatch, Raced, TypeOK, JobRows, accounts
<1> QED
  BY <1>1, <1>2, <1>3 DEF FinishEmpty, IInv, CountersMatch, SnapshotOnly, ParkedIffInvalid,
     TypeOK, JobRows, accounts

(* The accounts that are left of the batch are read. *)
LEMMA SelectAccountsKeeps == IInv /\ SelectAccounts => IInv'
  BY DEF IInv, SelectAccounts, TypeOK, HeldJob, Snapshot, Behind, InBatch, Raced, CountersMatch,
     SnapshotOnly, CompletedCoversSnapshot, ParkedIffInvalid, accounts, history

(* The batch ends in an exception, or the worker goes down and comes back. *)
LEMMA FailureKeeps ==
    IInv /\ (RaiseStale \/ RaiseOther \/ FailJob \/ Crash \/ Recover) => IInv'
<1> SUFFICES ASSUME IInv, RaiseStale \/ RaiseOther \/ FailJob \/ Crash \/ Recover PROVE IInv'
  OBVIOUS
<1> USE AccountJobAssumption
    DEF IInv, TypeOK, HeldJob, Snapshot, Behind, InBatch, Raced, CountersMatch, SnapshotOnly,
        CompletedCoversSnapshot, ParkedIffInvalid, accounts, history
<1>1. CASE RaiseStale
  BY <1>1 DEF RaiseStale
<1>2. CASE RaiseOther
  BY <1>2 DEF RaiseOther
<1>3. CASE FailJob
  BY <1>3 DEF FailJob, LetGo, JobRows, JobStatuses
<1>4. CASE Crash
  BY <1>4 DEF Crash, LetGo
<1>5. CASE Recover
  BY <1>5 DEF Recover, RecoveredJob, JobRows, JobStatuses
<1> QED BY <1>1, <1>2, <1>3, <1>4, <1>5

(* The write transaction. *)
LEMMA WriteBatchKeeps == IInv /\ WriteBatch => IInv'
<1> SUFFICES ASSUME IInv, WriteBatch PROVE IInv'
  OBVIOUS
<1> USE AccountJobAssumption
<1>1. PICK r \in Results :
        /\ state' = [a \in Ids |-> IF a \in found \cap rows THEN NewState(r[a]) ELSE state[a]]
        /\ next' = [a \in Ids |-> IF a \in found \cap rows THEN NextRefresh(a, r[a])
                                                          ELSE next[a]]
        /\ job' = [job EXCEPT !.cursor = Max(batch),
                              !.processed = @ + Cardinality(batch),
                              !.succeeded = @ + Cardinality(Succeeded(r)),
                              !.failed = @ + Cardinality(found \ Succeeded(r)),
                              !.status = AfterBatch]
  BY DEF WriteBatch
<1>2. /\ wpc = "writing" /\ wpc' \in {"free", "failing"}
      /\ covered' = covered \cup batch
      /\ applied' = applied \cup (found \cap rows)
      /\ batch' = {} /\ found' = {}
      /\ cause' \in {cause, "other"}
      /\ UNCHANGED <<rows, lastId, crashes, present, target, raced>>
  BY DEF WriteBatch, LetGo
<1>3. /\ job.status = "running"
      /\ batch # {} /\ batch \subseteq Ids /\ found \subseteq batch
      /\ covered \subseteq Ids /\ applied \subseteq covered
      /\ rows \subseteq Ids
      /\ job \in JobRows
      /\ \A a \in batch : job.cursor < a /\ a <= job.max /\ a \in present
  BY <1>2 DEF IInv, TypeOK, HeldJob, InBatch
<1>4. Max(batch) \in batch /\ \A a \in batch : a <= Max(batch)
  BY <1>3, MaxOfIds
<1>5. /\ IsFiniteSet(batch) /\ Cardinality(batch) \in Nat
      /\ IsFiniteSet(covered) /\ Cardinality(covered) \in Nat
      /\ IsFiniteSet(found) /\ Cardinality(found) \in Nat
      /\ IsFiniteSet(applied) /\ Cardinality(applied) \in Nat
  BY <1>3, FiniteIds
<1> DEFINE won == Succeeded(r)
           lost == found \ Succeeded(r)
<1>6. /\ won \subseteq found
      /\ Cardinality(won) \in Nat /\ Cardinality(lost) \in Nat
      /\ Cardinality(won) + Cardinality(lost) = Cardinality(found)
  <2>1. won \subseteq found /\ found \cap won = won
    BY DEF Succeeded
  <2>2. IsFiniteSet(won) /\ Cardinality(won) \in Nat /\ Cardinality(lost) \in Nat
    BY <1>3, <2>1, FiniteIds
  <2>3. Cardinality(lost) = Cardinality(found) - Cardinality(won)
    BY <1>5, <2>1, FS_Difference
  <2> QED BY <1>5, <2>1, <2>2, <2>3
<1> HIDE DEF won, lost
<1>7. /\ job'.cursor = Max(batch)
      /\ job'.processed = job.processed + Cardinality(batch)
      /\ job'.succeeded = job.succeeded + Cardinality(won)
      /\ job'.failed = job.failed + Cardinality(lost)
      /\ job'.status = AfterBatch
      /\ job'.scope = job.scope /\ job'.ids = job.ids /\ job'.max = job.max
      /\ job'.total = job.total /\ job'.cancel = job.cancel
  BY <1>1, <1>3 DEF JobRows, won, lost
<1>8. AfterBatch \in {"cancelled", "completed", "queued"}
  BY DEF AfterBatch
<1>9. TypeOK'
  <2>1. job' \in JobRows
    <3>1. /\ Max(batch) \in Ids \cup {0}
          /\ job.processed + Cardinality(batch) \in Nat
          /\ job.succeeded + Cardinality(won) \in Nat
          /\ job.failed + Cardinality(lost) \in Nat
      BY <1>3, <1>4, <1>5, <1>6 DEF JobRows
    <3>2. AfterBatch \in JobStatuses
      BY <1>8 DEF JobStatuses
    <3> HIDE DEF AfterBatch
    <3> QED BY <1>1, <1>3, <3>1, <3>2 DEF JobRows, won, lost
  <2>2. /\ state' \in [Ids -> {"unknown", "token_invalid", "other"}]
        /\ next' \in [Ids -> {"never", "future", "past"}]
    BY <1>1 DEF IInv, TypeOK, NewState, NextRefresh
  <2> QED BY <1>2, <1>3, <2>1, <2>2 DEF IInv, TypeOK
<1>10. ParkedIffInvalid'
  BY <1>1, <1>2, <1>3 DEF IInv, ParkedIffInvalid, NewState, NextRefresh
<1>11. \A a \in covered : a \notin batch
  <2> SUFFICES ASSUME NEW a \in covered, a \in batch PROVE FALSE
    OBVIOUS
  <2>1. a <= job.cursor /\ job.cursor < a
    BY <1>3 DEF IInv, Behind
  <2>2. a \in Nat /\ job.cursor \in Nat
    BY <1>3 DEF Ids, JobRows
  <2> QED BY <2>1, <2>2
<1>12. Cardinality(covered \cup batch) = Cardinality(covered) + Cardinality(batch)
  BY <1>5, <1>11, DisjointUnion
<1>13. /\ Cardinality(applied') = Cardinality(applied) + Cardinality(found \cap rows)
       /\ Cardinality(raced' \cap covered') = Cardinality(raced \cap covered) + Cardinality(found \ rows)
       /\ Cardinality(found) = Cardinality(found \cap rows) + Cardinality(found \ rows)
  <2>1. /\ IsFiniteSet(found \cap rows) /\ IsFiniteSet(found \ rows)
        /\ IsFiniteSet(raced \cap covered)
    BY <1>3, FiniteIds
  <2>2. Cardinality(applied') = Cardinality(applied) + Cardinality(found \cap rows)
    <3>1. \A a \in applied : a \notin found \cap rows
      BY <1>3, <1>11
    <3> QED BY <1>2, <1>5, <2>1, <3>1, DisjointUnion
  <2>3. Cardinality(raced' \cap covered') = Cardinality(raced \cap covered) + Cardinality(found \ rows)
    <3>1. raced' \cap covered' = (raced \cap covered) \cup (found \ rows)
      BY <1>2 DEF IInv, Raced
    <3>2. \A a \in raced \cap covered : a \notin found \ rows
      BY <1>3, <1>11
    <3> QED BY <2>1, <3>1, <3>2, DisjointUnion
  <2>4. Cardinality(found) = Cardinality(found \cap rows) + Cardinality(found \ rows)
    <3>1. found = (found \cap rows) \cup (found \ rows)
      OBVIOUS
    <3>2. \A a \in found \cap rows : a \notin found \ rows
      OBVIOUS
    <3> QED BY <2>1, <3>1, <3>2, DisjointUnion
  <2> QED BY <2>2, <2>3, <2>4
<1>14. CountersMatch'
  <2>1. /\ job.processed = Cardinality(covered)
        /\ job.succeeded + job.failed = Cardinality(applied) + Cardinality(raced \cap covered)
        /\ job.succeeded \in Nat /\ job.failed \in Nat
    BY <1>3 DEF IInv, CountersMatch, JobRows
  <2>2. /\ Cardinality(raced \cap covered) \in Nat
        /\ Cardinality(found \cap rows) \in Nat /\ Cardinality(found \ rows) \in Nat
    BY <1>3, FiniteIds
  <2>3. job'.processed = Cardinality(covered')
    BY <1>2, <1>7, <1>12, <2>1
  <2>4. job'.succeeded + job'.failed = Cardinality(applied') + Cardinality(raced' \cap covered')
    BY <1>5, <1>6, <1>7, <1>13, <2>1, <2>2
  <2> QED BY <2>3, <2>4 DEF CountersMatch
<1>15. SnapshotOnly'
  BY <1>2, <1>3 DEF IInv, SnapshotOnly
<1>16. HeldJob' /\ InBatch' /\ Snapshot' /\ Raced'
  BY <1>2, <1>3, <1>7, <1>8 DEF IInv, HeldJob, InBatch, Snapshot, Raced
<1>17. \A a \in covered \cup batch : a <= Max(batch)
  <2>1. \A a \in covered : a <= job.cursor
    BY <1>3 DEF IInv, Behind
  <2>2. job.cursor < Max(batch)
    BY <1>3, <1>4
  <2>3. job.cursor \in Nat /\ Max(batch) \in Nat
    <3>1. Max(batch) \in Ids
      BY <1>3, <1>4
    <3>2. job.cursor \in Ids \cup {0}
      BY <1>3 DEF JobRows
    <3> QED BY <3>1, <3>2 DEF Ids
  <2>4. \A a \in covered \cup batch : a \in Nat
    BY <1>3 DEF Ids
  <2> QED BY <1>4, <2>1, <2>2, <2>3, <2>4
<1>18. job.scope # "due" =>
         /\ covered \cup batch \subseteq target
         /\ \A a \in target \cap rows : a <= Max(batch) => a \in covered \cup batch
         /\ Cardinality(batch) < BatchSize => target \cap rows \subseteq covered \cup batch
  BY <1>2, <1>3, <1>4 DEF IInv, Behind, InBatch
<1>19. Behind'
  BY <1>2, <1>7, <1>17, <1>18 DEF Behind
<1>20. CompletedCoversSnapshot'
  <2> SUFFICES ASSUME AfterBatch = "completed", job.scope # "due"
               PROVE  target \cap rows \subseteq covered \cup batch
    BY <1>2, <1>7 DEF CompletedCoversSnapshot
  <2>1. CASE Cardinality(batch) < BatchSize
    BY <1>18, <2>1
  <2>2. CASE job.processed + Cardinality(batch) >= job.total
    <3>1. /\ job.total = Cardinality(target)
          /\ job.processed = Cardinality(covered)
          /\ target \subseteq Ids
      BY <1>3 DEF IInv, TypeOK, Snapshot, CountersMatch
    <3>2. IsFiniteSet(target) /\ Cardinality(target) \in Nat
      BY <3>1, FiniteIds
    <3>3. Cardinality(covered \cup batch) >= Cardinality(target)
      BY <1>12, <2>2, <3>1
    <3>4. /\ Cardinality(covered \cup batch) \in Nat
          /\ Cardinality(covered \cup batch) <= Cardinality(target)
      BY <1>5, <1>12, <1>18, <3>2, FS_Subset
    <3>5. covered \cup batch = target
      BY <1>18, <3>2, <3>3, <3>4, FS_Subset
    <3> QED BY <3>5
  <2> QED BY <2>1, <2>2 DEF AfterBatch
<1> QED
  BY <1>9, <1>10, <1>14, <1>15, <1>16, <1>19, <1>20 DEF IInv

-----------------------------------------------------------------------------
(* Every step preserves the invariant, so it holds throughout. *)
LEMMA Inductive == IInv /\ [Next]_vars => IInv'
<1> SUFFICES ASSUME IInv, [Next]_vars PROVE IInv'
  OBVIOUS
<1>1. CASE UNCHANGED vars
  BY <1>1 DEF IInv, TypeOK, HeldJob, Snapshot, Behind, InBatch, Raced, CountersMatch, SnapshotOnly,
     CompletedCoversSnapshot, ParkedIffInvalid, vars, accounts, worker, history
<1>2. CASE Next
  BY <1>2, WorldKeeps, CreateJobKeeps, ClaimKeeps, LoadWorkKeeps, FinishEmptyKeeps,
     SelectAccountsKeeps, WriteBatchKeeps, FailureKeeps DEF Next, WorkerStep
<1> QED BY <1>1, <1>2

LEMMA Invariance == Spec => []IInv
  BY Initially, Inductive, PTL DEF Spec

(* The variables have their types. *)
THEOREM TypeCorrect == Spec => []TypeOK
<1>1. IInv => TypeOK
  BY DEF IInv
<1> QED BY <1>1, Invariance, PTL

(* For tables and batches of any size and any number of crashes, "processed"  *)
(* counts the accounts of the committed batches, "succeeded" and "failed" the *)
(* results written and, beside them, exactly the accounts deleted between the *)
(* SELECT and the UPDATEs of their batch (process_account_job).               *)
THEOREM CountersExact == Spec => []CountersMatch
<1>1. IInv => CountersMatch
  BY DEF IInv
<1> QED BY <1>1, Invariance, PTL

(* No account imported after the creation of a job is drawn into it           *)
(* (account_scope_clause and the sequence that gives the ids).               *)
THEOREM SnapshotKept == Spec => []SnapshotOnly
<1>1. IInv => SnapshotOnly
  BY DEF IInv
<1> QED BY <1>1, Invariance, PTL

(* A job for all or for selected accounts that says "completed" has processed *)
(* each of them that still exists, although process_account_job ends it by    *)
(* comparing two counters.                                                   *)
THEOREM CompletedCovers == Spec => []CompletedCoversSnapshot
<1>1. IInv => CompletedCoversSnapshot
  BY DEF IInv
<1> QED BY <1>1, Invariance, PTL

(* The automatic refresh leaves out exactly the accounts whose token is known *)
(* to be invalid (apply_refresh_result, apply_imports).                      *)
THEOREM ParkedInvalid == Spec => []ParkedIffInvalid
<1>1. IInv => ParkedIffInvalid
  BY DEF IInv
<1> QED BY <1>1, Invariance, PTL

-----------------------------------------------------------------------------
(* The job is a job of JobContract. *)
Still == UNCHANGED <<job.status, job.cancel, BatchesLeft>>

(* The columns the contract sees, as the functions it takes them for. *)
LEMMA SeenAs ==
    /\ \A from, to : job.status \in from /\ job'.status = to
          => Contract!Move("job", from, to)
    /\ BatchesLeft' = BatchesLeft - 1 => Contract!CommitOne("job")
<1>1. ASSUME NEW from, NEW to, job.status \in from, job'.status = to
      PROVE  Contract!Move("job", from, to)
  BY <1>1, OneValue DEF Contract!Move
<1>2. ASSUME BatchesLeft' = BatchesLeft - 1 PROVE Contract!CommitOne("job")
  <2> HIDE DEF BatchesLeft
  <2> QED BY <1>2, OneValue DEF Contract!CommitOne
<1> QED BY <1>1, <1>2

(* A job for t accounts is worth at least one batch; a full batch is one less  *)
(* of them, and there are two or more of them while p + b is short of t; a     *)
(* batch that is not full makes one less or none.                             *)
LEMMA WorthOf ==
    ASSUME NEW t \in Nat, NEW p \in Nat, NEW m \in Nat, NEW b \in Nat \ {0}, m <= b
    PROVE  LET before == (t + b - 1) \div b - p \div b
               after == (t + b - 1) \div b - (p + m) \div b
           IN  /\ t # 0 => (t + b - 1) \div b - 0 \div b \in Nat \ {0}
               /\ after \in {before, before - 1}
               /\ m = b /\ p + m < t => before > 1 /\ after = before - 1
<1> DEFINE w == (t + b - 1) \div b
<1>1. /\ t + b - 1 \in Nat /\ p + m \in Nat /\ p + b \in Nat /\ p <= p + m /\ p + m <= p + b
      /\ 0 <= t /\ p <= p
  OBVIOUS
<1>2. p \div b \in Nat /\ (p + b) \div b = p \div b + 1
  BY <1>1, Quotients
<1>3. /\ (p + m) \div b \in Nat
      /\ p \div b <= (p + m) \div b /\ (p + m) \div b <= (p + b) \div b
  BY <1>1, Quotients
<1>4. w \in Nat
  BY <1>1
<1>5. ASSUME t # 0 PROVE w >= 1 /\ 0 \div b = 0
  <2>1. /\ b <= t + b - 1 /\ b \in Nat
    BY <1>5
  <2>2. b \div b <= (t + b - 1) \div b
    BY <1>1, <2>1, Quotients
  <2>3. b \div b = 1 /\ 0 \div b = 0
    OBVIOUS
  <2> QED BY <1>4, <2>2, <2>3
<1>6. ASSUME m = b, p + m < t PROVE w >= p \div b + 2
  <2>1. (p + b) + b <= t + b - 1 /\ (p + b) + b \in Nat /\ p + b <= p + b
    BY <1>6
  <2>2. ((p + b) + b) \div b <= (t + b - 1) \div b
    BY <1>1, <2>1, Quotients
  <2>3. ((p + b) + b) \div b = (p + b) \div b + 1
    BY <1>1, <2>1, Quotients
  <2> QED BY <1>2, <1>4, <2>2, <2>3
<1> HIDE DEF w
<1>7. t # 0 => w - 0 \div b \in Nat \ {0}
  BY <1>4, <1>5
<1>8. w - (p + m) \div b \in {w - p \div b, (w - p \div b) - 1}
  BY <1>2, <1>3, <1>4
<1>9. m = b /\ p + m < t => w - p \div b > 1 /\ w - (p + m) \div b = (w - p \div b) - 1
  BY <1>2, <1>4, <1>6
<1> QED BY <1>7, <1>8, <1>9 DEF w

LEMMA WriteBatchRefines ==
    ASSUME IInv, WriteBatch PROVE Contract!Next
<1> DEFINE m == Cardinality(batch)
<1>1. /\ job.status = "running" /\ job \in JobRows
      /\ m \in Nat /\ m <= BatchSize /\ BatchSize \in Nat \ {0}
  <2>1. batch \subseteq Ids /\ wpc = "writing"
    BY DEF IInv, TypeOK, WriteBatch
  <2>2. m \in Nat
    BY <2>1, FiniteIds
  <2> QED BY <2>1, <2>2, AccountJobAssumption DEF IInv, TypeOK, HeldJob, InBatch
<1>2. /\ job'.processed = job.processed + m /\ job'.total = job.total
      /\ job'.cancel = job.cancel /\ job'.status = AfterBatch
  BY <1>1 DEF WriteBatch, JobRows
<1>3. /\ BatchesLeft = (job.total + BatchSize - 1) \div BatchSize - job.processed \div BatchSize
      /\ BatchesLeft' = (job.total + BatchSize - 1) \div BatchSize
                           - (job.processed + m) \div BatchSize
  BY <1>2 DEF BatchesLeft
<1>4. job.total \in Nat /\ job.processed \in Nat
  BY <1>1 DEF JobRows
<1> DEFINE t == job.total
           p == job.processed
<1>5. AfterBatch = IF job.cancel THEN "cancelled"
                   ELSE IF p + m >= t \/ m < BatchSize THEN "completed" ELSE "queued"
  BY DEF AfterBatch
<1> HIDE DEF m, t, p
<1>6. /\ BatchesLeft' \in {BatchesLeft, BatchesLeft - 1}
      /\ m = BatchSize /\ p + m < t => BatchesLeft > 1 /\ BatchesLeft' = BatchesLeft - 1
  <2>1. t \in Nat /\ p \in Nat
    BY <1>4 DEF t, p
  <2>2. /\ BatchesLeft = (t + BatchSize - 1) \div BatchSize - p \div BatchSize
        /\ BatchesLeft' = (t + BatchSize - 1) \div BatchSize - (p + m) \div BatchSize
    BY <1>3 DEF t, p
  <2> DEFINE b == BatchSize
             w == (t + b - 1) \div b
  <2>3. /\ w - (p + m) \div b \in {w - p \div b, (w - p \div b) - 1}
        /\ m = b /\ p + m < t => w - p \div b > 1 /\ w - (p + m) \div b = (w - p \div b) - 1
    BY <1>1, <2>1, WorthOf
  <2> QED BY <2>2, <2>3
<1>7. p + m < t \/ p + m >= t
  BY <1>1, <1>4 DEF t, p
<1>8. m < BatchSize \/ m = BatchSize
  BY <1>1
<1> HIDE DEF BatchesLeft
<1>9. CASE job.cancel
  <2>1. Contract!Move("job", {"running"}, "cancelled") /\ Contract!Move("job", {"queued", "running"}, "cancelled")
    BY <1>1, <1>2, <1>5, <1>9, SeenAs
  <2> QED BY <1>2, <1>6, <1>9, <2>1, SeenAs DEF Contract!Next, Contract!Stop
<1>10. CASE ~job.cancel /\ (p + m >= t \/ m < BatchSize)
  <2>1. Contract!Move("job", {"running"}, "completed")
    BY <1>1, <1>2, <1>5, <1>10, SeenAs
  <2> QED BY <1>2, <1>6, <1>10, <2>1, SeenAs DEF Contract!Next, Contract!Complete
<1>11. CASE ~job.cancel /\ ~(p + m >= t \/ m < BatchSize)
  <2>1. Contract!Move("job", {"running"}, "queued")
    BY <1>1, <1>2, <1>5, <1>11, SeenAs
  <2> QED BY <1>2, <1>6, <1>7, <1>8, <1>11, <2>1, SeenAs DEF Contract!Next, Contract!Yield
<1> QED BY <1>9, <1>10, <1>11

LEMMA CreateJobRefines ==
    ASSUME IInv, NEW kind \in Kinds, NEW scope \in Scopes, NEW ids \in SUBSET Ids,
           CreateJob(kind, scope, ids)
    PROVE  Contract!Next
<1> DEFINE n == Cardinality(ScopeNow(scope, ids))
<1>1. n \in Nat /\ n # 0
  <2>1. ScopeNow(scope, ids) \subseteq Ids /\ ScopeNow(scope, ids) # {}
    BY DEF CreateJob, ScopeNow, IInv, TypeOK
  <2>2. IsFiniteSet(ScopeNow(scope, ids)) /\ n \in Nat
    BY <2>1, FiniteIds
  <2> QED BY <2>1, <2>2, FS_EmptySet
<1>2. /\ job.status = "none" /\ job'.status = "queued"
      /\ job'.total = n /\ job'.processed = 0 /\ job'.cancel = FALSE
  BY DEF CreateJob, NewJob
<1>3. job.cancel = FALSE
  BY <1>2 DEF IInv, HeldJob
<1>4. BatchesLeft' = (n + BatchSize - 1) \div BatchSize - 0 \div BatchSize
  BY <1>2 DEF BatchesLeft
<1>5. BatchesLeft' \in Nat \ {0}
  <2> DEFINE b == BatchSize
  <2>1. b \in Nat \ {0} /\ 0 \in Nat /\ 0 <= b
    BY AccountJobAssumption
  <2> HIDE DEF n, b
  <2>2. (n + b - 1) \div b - 0 \div b \in Nat \ {0}
    BY <1>1, <2>1, WorthOf
  <2> QED BY <1>4, <2>2 DEF b
<1> HIDE DEF BatchesLeft
<1>6. Contract!Move("job", {"none"}, "queued")
  BY <1>2, SeenAs
<1>7. Contract!Submit("job")
  BY <1>2, <1>3, <1>5, <1>6, OneValue DEF Contract!Submit
<1> QED BY <1>7 DEF Contract!Next

LEMMA StepRefines ==
    ASSUME IInv, [Next]_vars PROVE Contract!Next \/ Still
<1>1. /\ job \in JobRows
      /\ wpc = "failing" => job.status \in {"queued", "running", "completed", "cancelled"}
      /\ wpc = "claimed" => job.status = "running"
  BY DEF IInv, TypeOK, HeldJob
<1>2. ASSUME UNCHANGED <<job.processed, job.total>>
      PROVE  UNCHANGED BatchesLeft
  BY <1>2 DEF BatchesLeft
<1>3. CASE CancelJob
  <2>1. /\ job.status # "none" /\ job'.cancel = TRUE
        /\ UNCHANGED <<job.processed, job.total, job.status>>
    BY <1>1, <1>3 DEF CancelJob, Active, JobRows
  <2>2. UNCHANGED BatchesLeft
    BY <1>2, <2>1
  <2> HIDE DEF BatchesLeft
  <2> QED BY <2>1, <2>2, OneValue DEF Contract!Next, Contract!Cancel
<1>4. CASE Claim \/ FinishEmpty
  <2>1. /\ \/ job.status = "queued" /\ job'.status = IF job.cancel THEN "cancelled" ELSE "running"
           \/ job.status = "running" /\ job'.status = IF job.cancel THEN "cancelled" ELSE "completed"
        /\ UNCHANGED <<job.processed, job.total, job.cancel>>
    BY <1>1, <1>4 DEF Claim, FinishEmpty, JobRows
  <2>2. UNCHANGED BatchesLeft
    BY <1>2, <2>1
  <2> HIDE DEF BatchesLeft
  <2>3. CASE job.cancel
    <3>1. Contract!Move("job", {"queued", "running"}, "cancelled")
      BY <2>1, <2>3, SeenAs
    <3> QED BY <2>1, <2>2, <2>3, <3>1 DEF Contract!Next, Contract!Stop
  <2>4. CASE ~job.cancel /\ job.status = "queued"
    <3>1. Contract!Move("job", {"queued"}, "running")
      BY <2>1, <2>4, SeenAs
    <3> QED BY <2>1, <2>2, <2>4, <3>1 DEF Contract!Next, Contract!Start
  <2>5. CASE ~job.cancel /\ job.status = "running"
    <3>1. Contract!Move("job", {"running"}, "completed")
      BY <2>1, <2>5, SeenAs
    <3> QED BY <2>1, <2>2, <2>5, <3>1 DEF Contract!Next, Contract!Complete
  <2> QED BY <2>1, <2>3, <2>4, <2>5
<1>5. CASE FailJob
  <2>1. /\ job.status \in {"queued", "running", "completed", "cancelled"} /\ job'.status = "failed"
        /\ UNCHANGED <<job.processed, job.total, job.cancel>>
    BY <1>1, <1>5 DEF FailJob, JobRows
  <2>2. UNCHANGED BatchesLeft
    BY <1>2, <2>1
  <2> HIDE DEF BatchesLeft
  <2>3. Contract!Move("job", {"queued", "running", "completed", "cancelled"}, "failed")
    BY <2>1, SeenAs
  <2> QED BY <2>1, <2>2, <2>3 DEF Contract!Next, Contract!Fail
<1>6. CASE Recover
  <2>1. /\ UNCHANGED <<job.processed, job.total, job.cancel>>
        /\ job'.status = IF job.status = "running" THEN "queued" ELSE job.status
    BY <1>1, <1>6 DEF Recover, RecoveredJob, JobRows
  <2>2. UNCHANGED BatchesLeft
    BY <1>2, <2>1
  <2> HIDE DEF BatchesLeft
  <2>3. CASE job.status = "running"
    <3>1. Contract!Move("job", {"running"}, "queued")
      BY <2>1, <2>3, SeenAs
    <3> QED BY <2>1, <2>2, <3>1 DEF Contract!Next, Contract!Interrupt
  <2>4. CASE job.status # "running"
    BY <2>1, <2>2, <2>4 DEF Still
  <2> QED BY <2>3, <2>4
<1>7. CASE \/ \E ids \in SUBSET rows : DeleteAccounts(ids)
           \/ \E new \in 0 .. MaxId, old \in SUBSET rows : ImportBatch(new, old)
           \/ \E a \in Ids : BecomeDue(a)
           \/ LoadWork \/ SelectAccounts \/ RaiseStale \/ RaiseOther \/ Crash \/ ClaimNothing
           \/ UNCHANGED vars
  <2>1. UNCHANGED job
    BY <1>7 DEF DeleteAccounts, ImportBatch, BecomeDue, LoadWork, SelectAccounts, RaiseStale,
                RaiseOther, Crash, ClaimNothing, vars
  <2> QED BY <2>1 DEF Still, BatchesLeft
<1> QED
  BY <1>3, <1>4, <1>5, <1>6, <1>7, WriteBatchRefines, CreateJobRefines DEF Next, WorkerStep

(* An account job is a job of JobContract: it commits no more batches than its *)
(* accounts are worth, each once, and at most the one in work after a         *)
(* cancellation, although accounts are deleted under it; this is what         *)
(* JobQueue takes it for (process_account_job).                               *)
THEOREM Refinement == Spec => ContractSpec
<1>1. Init => Contract!Init
  <2>1. ASSUME Init PROVE BatchesLeft = 0
    <3>1. job.total = 0 /\ job.processed = 0
      BY <2>1 DEF Init, NewJob
    <3> DEFINE b == BatchSize
    <3>2. b \in Nat \ {0}
      BY AccountJobAssumption
    <3> HIDE DEF b
    <3>3. (0 + b - 1) \div b - 0 \div b = 0
      BY <3>2
    <3> QED BY <3>1, <3>3 DEF BatchesLeft, b
  <2> HIDE DEF BatchesLeft
  <2> QED BY <2>1 DEF Init, NewJob, Contract!Init
<1>2. IInv /\ [Next]_vars => [Contract!Next]_(Contract!vars)
  BY StepRefines DEF Still, Contract!vars
<1> QED
  BY <1>1, <1>2, Invariance, PTL DEF Spec, ContractSpec, Contract!Spec
=============================================================================
