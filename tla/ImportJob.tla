------------------------------- MODULE ImportJob -------------------------------
(***************************************************************************)
(* One import job reading its spool file in batches of lines, upserting    *)
(* the accounts of a batch with one statement and advancing its offset and *)
(* its counters in the same transaction, while accounts are deleted, the   *)
(* job is cancelled, and the worker dies and recovers.  A line is what     *)
(* parse_account_line makes of it: an account, nothing, or an error; an    *)
(* offset is the number of lines before it.                                *)
(***************************************************************************)
EXTENDS Integers, FiniteSets, Sequences, SequencesExt

CONSTANTS
    Emails,
    MaxLines,   \* bound: lines of the file
    BatchSize,  \* IMPORT_BATCH_SIZE
    Modes,      \* duplicate_mode: "update", "skip"
    MaxCrashes  \* bound: times the worker dies

ASSUME ImportJobAssumption ==
    /\ MaxLines \in Nat \ {0}
    /\ BatchSize \in Nat \ {0}
    /\ Modes \subseteq {"update", "skip"}
    /\ MaxCrashes \in Nat
    /\ Emails \cap {"blank", "bad"} = {}

(* "blank": an empty line or a comment; "bad": wrong format, not UTF-8, or   *)
(* longer than MAX_IMPORT_LINE_BYTES.                                        *)
Lines == Emails \cup {"blank", "bad"}

VARIABLES
    file,     \* the spool file
    mode,     \* options.duplicate_mode
    table,    \* emails that have an account
    writer,   \* the line that wrote the credentials of an account, 0: an earlier import
    job,      \* the row of the job, and why it failed (cause: history, no column)
    wpc,      \* where the worker is with the job
    read,     \* lines of the batch it has read, as an interval of line numbers
    eof,      \* it has met the end of the file
    crashes,
    ref       \* history: what importing line by line would have made of it

spool == <<file, mode>>
accounts == <<table, writer>>
memory == <<read, eof>>
vars == <<spool, accounts, job, wpc, memory, crashes, ref>>

JobStatuses == {"none", "queued", "running", "completed", "failed", "cancelled"}

Counters == [succeeded: Nat, failed: Nat, skipped: Nat]
NoCount == [succeeded |-> 0, failed |-> 0, skipped |-> 0]

TypeOK ==
    /\ file \in Seq(Lines) /\ Len(file) \in 1 .. MaxLines
    /\ mode \in Modes
    /\ table \subseteq Emails
    /\ writer \in [Emails -> 0 .. MaxLines]
    /\ job \in [status: JobStatuses,
                cancel: BOOLEAN, cursor: 0 .. MaxLines, processed: 0 .. MaxLines,
                counts: Counters, total: 0 .. MaxLines, cause: {"none", "duplicate", "other"}]
    /\ wpc \in {"free", "claimed", "read", "failing", "down"}
    /\ read \subseteq 1 .. MaxLines
    /\ eof \in BOOLEAN
    /\ crashes \in 0 .. MaxCrashes
    /\ ref \in [table: SUBSET Emails, writer: [Emails -> 0 .. MaxLines], counts: Counters]

(* import_accounts has written the file and counted its lines. *)
Init ==
    /\ file \in BoundedSeq(Lines, MaxLines) /\ file # <<>>
    /\ mode \in Modes
    /\ table \in SUBSET Emails
    /\ writer = [e \in Emails |-> 0]
    /\ job = [status |-> "none", cancel |-> FALSE, cursor |-> 0, processed |-> 0,
              counts |-> NoCount, total |-> 0, cause |-> "none"]
    /\ wpc = "free"
    /\ read = {} /\ eof = FALSE
    /\ crashes = 0
    /\ ref = [table |-> table, writer |-> writer, counts |-> NoCount]

-----------------------------------------------------------------------------
(* DELETE /api/accounts; an account that is imported again starts anew.     *)
DeleteAccount(e) ==
    /\ e \in table
    /\ table' = table \ {e}
    /\ writer' = [writer EXCEPT ![e] = 0]
    /\ ref' = [ref EXCEPT !.table = @ \ {e}, !.writer = [@ EXCEPT ![e] = 0]]
    /\ UNCHANGED <<spool, job, wpc, memory, crashes>>

(* import_accounts commits the row. *)
CreateImport ==
    /\ job.status = "none"
    /\ job' = [job EXCEPT !.status = "queued", !.total = Len(file)]
    /\ UNCHANGED <<spool, accounts, wpc, memory, crashes, ref>>

CancelJob ==
    /\ job.status \in {"queued", "running"}
    /\ job' = [job EXCEPT !.cancel = TRUE]
    /\ UNCHANGED <<spool, accounts, wpc, memory, crashes, ref>>

-----------------------------------------------------------------------------
Claim ==
    /\ wpc = "free"
    /\ job.status = "queued"
    /\ IF job.cancel
       THEN job' = [job EXCEPT !.status = "cancelled"] /\ UNCHANGED wpc
       ELSE job' = [job EXCEPT !.status = "running"] /\ wpc' = "claimed"
    /\ UNCHANGED <<spool, accounts, memory, crashes, ref>>

ClaimNothing ==
    /\ wpc = "free"
    /\ job.status # "queued"
    /\ UNCHANGED vars

(* Mutant: the batch that ends with the file takes its end as seen. *)
SeesEndEarly(last) == last >= Len(file) - 1

(* Mutant: the empty batch at the end of a file is a batch like any other. *)
SeesNoEnd(last) == last > Len(file) + BatchSize

SeesEnd(last) == last > Len(file)

(* The file is read from the offset, line by line; the end is only noticed   *)
(* by reading past it, so a full last batch leaves an empty one to do.       *)
ReadBatch ==
    /\ wpc = "claimed"
    /\ LET last == job.cursor + BatchSize IN
         /\ read' = {i \in 1 .. Len(file) : job.cursor < i /\ i <= last}
         /\ eof' = SeesEnd(last)
    /\ wpc' = "read"
    /\ UNCHANGED <<spool, accounts, job, crashes, ref>>

Parsed == {i \in read : file[i] \in Emails}
Failed == {i \in read : file[i] = "bad"}
ParsedEmails == {file[i] : i \in Parsed}

(* INSERT ... ON CONFLICT DO UPDATE refuses to write one row twice.          *)
Conflict == mode = "update" /\ \E i, k \in Parsed : i # k /\ file[i] = file[k]

(* upsert_accounts: the emails whose account the statement writes. *)
Written == IF mode = "update" THEN ParsedEmails ELSE ParsedEmails \ table

(* Mutant: among equal emails of a batch the last one is inserted. *)
LastLineOf(e) == CHOOSE i \in Parsed : file[i] = e /\ \A k \in Parsed : file[k] = e => k <= i

LineOf(e) == CHOOSE i \in Parsed : file[i] = e /\ \A k \in Parsed : file[k] = e => i <= k

Inserted == Cardinality(Written)

AddBatch(c) ==
    [succeeded |-> c.succeeded + Inserted,
     failed |-> c.failed + Cardinality(Failed),
     skipped |-> c.skipped + (Cardinality(Parsed) - Inserted)
                   + (Cardinality(read) - Cardinality(Parsed) - Cardinality(Failed))]

(* Mutant: a batch does not look for a cancellation. *)
GoesOn == IF eof THEN "completed" ELSE "queued"

AfterBatch ==
    IF job.cancel THEN "cancelled" ELSE IF eof THEN "completed" ELSE "queued"

(* What one line does when it is imported on its own. *)
ImportLine(r, i) ==
    LET count(f) == [r.counts EXCEPT ![f] = @ + 1]
        write == [table |-> r.table \cup {file[i]},
                  writer |-> [r.writer EXCEPT ![file[i]] = i],
                  counts |-> count("succeeded")]
    IN CASE file[i] = "bad"   -> [r EXCEPT !.counts = count("failed")]
         [] file[i] = "blank" -> [r EXCEPT !.counts = count("skipped")]
         [] file[i] \in r.table /\ mode = "skip" -> [r EXCEPT !.counts = count("skipped")]
         [] OTHER -> write

(* What importing the lines after the first ones, up to the last, makes of r. *)
ImportLines(r, first, last) ==
    LET made[i \in first .. last] == IF i = first THEN r ELSE ImportLine(made[i - 1], i)
    IN  made[last]

LetGo == read' = {} /\ eof' = FALSE

(* The batch transaction; its answer may be lost. *)
WriteBatch ==
    /\ wpc = "read"
    /\ ~Conflict
    /\ table' = table \cup Written
    /\ writer' = [e \in Emails |-> IF e \in Written THEN LineOf(e) ELSE writer[e]]
    /\ \E lost \in BOOLEAN :
         /\ wpc' = IF lost THEN "failing" ELSE "free"
         /\ job' = [job EXCEPT !.cursor = @ + Cardinality(read),
                               !.processed = @ + Cardinality(read),
                               !.counts = AddBatch(job.counts),
                               !.status = AfterBatch,
                               !.cause = IF lost THEN "other" ELSE @]
    /\ ref' = ImportLines(ref, job.cursor, job.cursor + Cardinality(read))
    /\ LetGo
    /\ UNCHANGED <<spool, crashes>>

RaiseConflict ==
    /\ wpc = "read"
    /\ Conflict
    /\ job' = [job EXCEPT !.cause = "duplicate"]
    /\ wpc' = "failing"
    /\ LetGo
    /\ UNCHANGED <<spool, accounts, crashes, ref>>

(* The file or the database fails. *)
RaiseOther ==
    /\ wpc \in {"claimed", "read"}
    /\ job' = [job EXCEPT !.cause = "other"]
    /\ wpc' = "failing"
    /\ LetGo
    /\ UNCHANGED <<spool, accounts, crashes, ref>>

FailJob ==
    /\ wpc = "failing"
    /\ job' = [job EXCEPT !.status = "failed"]
    /\ wpc' = "free"
    /\ UNCHANGED <<spool, accounts, memory, crashes, ref>>

Crash ==
    /\ wpc # "down"
    /\ crashes < MaxCrashes
    /\ crashes' = crashes + 1
    /\ wpc' = "down"
    /\ LetGo
    /\ UNCHANGED <<spool, accounts, job, ref>>

(* Mutant: recovery starts the file over. *)
RestartedFile == [job EXCEPT !.status = IF @ = "running" THEN "queued" ELSE @, !.cursor = 0]

RecoveredJob == [job EXCEPT !.status = IF @ = "running" THEN "queued" ELSE @]

Recover ==
    /\ wpc = "down"
    /\ job' = RecoveredJob
    /\ wpc' = "free"
    /\ UNCHANGED <<spool, accounts, memory, crashes, ref>>

-----------------------------------------------------------------------------
WorkerStep ==
    \/ Claim \/ ClaimNothing \/ ReadBatch \/ WriteBatch \/ RaiseConflict
    \/ FailJob \/ Recover

Next ==
    \/ \E e \in Emails : DeleteAccount(e)
    \/ CreateImport \/ CancelJob \/ RaiseOther \/ Crash \/ WorkerStep

Spec == Init /\ [][Next]_vars

FairSpec == Spec /\ WF_vars(WorkerStep)

-----------------------------------------------------------------------------
(* Properties.                                                              *)

(* At every commit the accounts, and the three counters, are what importing  *)
(* the lines before the offset one by one would have given: batches, crashes *)
(* and resumption at the offset leave no trace (process_import,              *)
(* upsert_accounts).                                                         *)
AsIfLineByLine == ref = [table |-> table, writer |-> writer, counts |-> job.counts]

(* The counters add up to the lines that are done, and a job that says        *)
(* "completed" has done every line of its file, full last batch or not.       *)
CountsAddUp ==
    /\ job.processed = job.counts.succeeded + job.counts.failed + job.counts.skipped
    /\ job.processed = job.cursor
    /\ job.status = "completed" => job.processed = job.total

(* The import is a job of JobContract: from its insertion to its end it       *)
(* commits no more batches than its lines are worth, the empty one included, *)
(* each once, and at most the one in work after a cancellation.  This is     *)
(* what JobQueue takes a batch of an import for (process_import).            *)
BatchesLeft ==
    IF job.status = "none" THEN 0
    ELSE job.total \div BatchSize + 1 - job.cursor \div BatchSize

Contract == INSTANCE JobContract
    WITH Jobs <- {"import"}, phase <- [j \in {"import"} |-> job.status],
         cancelled <- [j \in {"import"} |-> job.cancel],
         left <- [j \in {"import"} |-> BatchesLeft]

ContractSpec == Contract!Spec

(* Every import ends; the empty batch at the end of the file is the last.    *)
ImportEnds ==
    job.status \in {"queued", "running"}
        ~> job.status \in {"completed", "failed", "cancelled"}

(* The content of a file never fails an import whose duplicates are to be    *)
(* updated: bad lines are counted, equal emails update the account in turn   *)
(* (index.html: duplicates are handled by updating the credentials).         *)
DuplicatesUpdate == job.status = "failed" => job.cause # "duplicate"
=============================================================================
