----------------------------- MODULE TokenRefresh -----------------------------
(***************************************************************************)
(* The calls to Microsoft for one batch of an account job: refresh_token   *)
(* with its attempts, the mailbox check of a health job, the semaphore of  *)
(* run_account_batch, and the transaction that stores the tokens, over     *)
(* several batches and with the worker dying between any two steps.        *)
(*                                                                         *)
(* AccountJob takes the outcome of a call as given; this module shows how  *)
(* it comes about and what becomes of the tokens.  A token is the number   *)
(* of times Microsoft had replaced it when it was issued.                  *)
(***************************************************************************)
EXTENDS Naturals, FiniteSets

CONSTANTS
    Accounts,    \* the accounts of a batch
    Concurrency, \* refresh_concurrency or health_concurrency of the policy
    MaxRetries,  \* max_retries of the policy
    MaxIssued,   \* bound: tokens Microsoft issues for an account
    MaxCrashes   \* bound: times the worker dies

ASSUME TokenRefreshAssumption ==
    /\ IsFiniteSet(Accounts)
    /\ Concurrency \in Nat \ {0}
    /\ MaxRetries \in 1 .. 5
    /\ MaxIssued \in Nat
    /\ MaxCrashes \in Nat

VARIABLES
    stored,   \* Account.refresh_token_encrypted
    call,     \* one(account) for each account of the batch
    phase,    \* the worker: "idle", "calling", "writing", "down"
    kind,     \* of the job: "refresh", "health"
    issued,   \* Microsoft: the newest token it has issued
    crashes,
    received, \* history: the newest token Microsoft has delivered
    cutOff    \* history: accounts whose result a crash or a rollback took away

vars == <<stored, call, phase, kind, issued, crashes, received, cutOff>>

Tokens == 0 .. MaxIssued
NoToken == MaxIssued + 1

(* A call waits for the semaphore, posts, sleeps between two attempts, opens *)
(* the mailbox.  token and result are what its AccountResult holds; posts    *)
(* and refused are history: the requests sent so far (counted to one more    *)
(* than allowed), and when a permanent error came back.                      *)
Calls ==
    [at: {"waiting", "posting", "sleeping", "imap", "done"}, attempt: 0 .. MaxRetries,
     token: Tokens \cup {NoToken}, posts: 0 .. MaxRetries + 1,
     refused: 0 .. MaxRetries + 1,
     result: {"none", "ok", "imap_failed", "error", "permanent",
              "network_error", "internal_error", "unknown"}]

Started(at) ==
    [at |-> at, attempt |-> 0, token |-> NoToken, posts |-> 0, refused |-> 0,
     result |-> "none"]

TypeOK ==
    /\ stored \in [Accounts -> Tokens]
    /\ call \in [Accounts -> Calls]
    /\ phase \in {"idle", "calling", "writing", "down"}
    /\ kind \in {"refresh", "health"}
    /\ issued \in [Accounts -> Tokens]
    /\ crashes \in 0 .. MaxCrashes
    /\ received \in [Accounts -> Tokens]
    /\ cutOff \subseteq Accounts

NoCalls == [a \in Accounts |-> Started("done")]

Init ==
    /\ stored = [a \in Accounts |-> 0]
    /\ call = NoCalls
    /\ phase = "idle"
    /\ kind = "refresh"
    /\ issued = stored
    /\ crashes = 0
    /\ received = stored
    /\ cutOff = {}

-----------------------------------------------------------------------------
(* What comes back from Microsoft.  The body is read up to a limit and       *)
(* parsed; "neither" a token nor a permanent error stands for every other    *)
(* error, for text that is no JSON and for a body that is cut off, "odd" for *)
(* one that raises another exception: JSON that is no object.                *)
NoAnswer == [status |-> 0, body |-> "none"]

Answers ==
    [status: {200, 400, 429, 503}, body: {"token", "permanent", "neither", "odd"}]
        \cup {NoAnswer}

(* Mutant: the status is not looked at. *)
AnyToken(answer) == answer.body = "token"

Granted(answer) == answer.status = 200 /\ answer.body = "token"

Permanent(answer) == answer.body = "permanent"

Retryable(answer) == answer.status \in {429, 503} \/ ~Permanent(answer)

GivesUpUnlessBusy(answer) == ~Retryable(answer)                    \* mutant

GivesUp(answer) == Permanent(answer) \/ ~Retryable(answer)

(* Microsoft may have replaced the token when it grants access, and also     *)
(* when the program does not get to see that, or a gateway answers for it.   *)
MayIssue(answer) == answer.body \in {"token", "neither", "none"}

-----------------------------------------------------------------------------
(* The calls of a batch, which run side by side.                            *)

(* load_work, then gather starts one(account) for each. *)
LoadWork ==
    /\ phase = "idle"
    /\ phase' = "calling"
    /\ kind' \in {"refresh", "health"}
    /\ call' = [a \in Accounts |-> Started("waiting")]
    /\ UNCHANGED <<stored, issued, crashes, received, cutOff>>

HoldsSlot(a) == call[a].at \notin {"waiting", "done"}

Enter(a) ==
    /\ phase = "calling"
    /\ call[a].at = "waiting"
    /\ Cardinality({b \in Accounts : HoldsSlot(b)}) < Concurrency
    /\ call' = [call EXCEPT ![a].at = "posting"]
    /\ UNCHANGED <<stored, phase, kind, issued, crashes, received, cutOff>>

LastButOne(a) == call[a].attempt + 2 >= MaxRetries                 \* mutant

LastAttempt(a) == call[a].attempt + 1 >= MaxRetries

Ends(c, result) == [c EXCEPT !.at = "done", !.result = result]

EndsIfLast(a, c, result) ==
    IF LastAttempt(a) THEN Ends(c, result) ELSE [c EXCEPT !.at = "sleeping"]

(* What one attempt makes of an answer; token is the one it would bring. *)
AfterPost(a, answer, token) ==
    LET n == IF call[a].posts <= MaxRetries THEN call[a].posts + 1 ELSE call[a].posts
        c == [call[a] EXCEPT !.posts = n, !.refused = IF Permanent(answer) THEN n ELSE @]
    IN  CASE answer = NoAnswer -> EndsIfLast(a, c, "network_error")
          [] answer.body = "odd" -> Ends(c, "internal_error")
          [] Granted(answer) ->
                 IF kind = "health" THEN [c EXCEPT !.at = "imap", !.token = token]
                                    ELSE [Ends(c, "ok") EXCEPT !.token = token]
          [] GivesUp(answer) ->
                 Ends(c, IF Permanent(answer) THEN "permanent" ELSE "error")
          [] OTHER -> EndsIfLast(a, c, "error")

(* POST, with the old token: the answer has a new one or it is kept. *)
Post(a) ==
    /\ phase = "calling"
    /\ call[a].at = "posting"
    /\ \E answer \in Answers :
          \/ /\ call' = [call EXCEPT ![a] = AfterPost(a, answer, stored[a])]
             /\ UNCHANGED <<issued, received>>
          \/ /\ MayIssue(answer)
             /\ issued[a] < MaxIssued
             /\ issued' = [issued EXCEPT ![a] = @ + 1]
             /\ call' = [call EXCEPT ![a] = AfterPost(a, answer, issued[a] + 1)]
             /\ received' = [received EXCEPT ![a] =
                               IF answer.status = 200 /\ answer.body = "token"
                               THEN issued[a] + 1 ELSE @]
    /\ UNCHANGED <<stored, phase, kind, crashes, cutOff>>

AsksAgain(c) == [c EXCEPT !.at = "posting"]                        \* mutant

(* The loop goes on, or has run out. *)
AfterSleep(c) ==
    IF c.attempt + 1 < MaxRetries
    THEN [c EXCEPT !.attempt = @ + 1, !.at = "posting"]
    ELSE Ends(c, "unknown")

Wake(a) ==
    /\ phase = "calling"
    /\ call[a].at = "sleeping"
    /\ call' = [call EXCEPT ![a] = AfterSleep(@)]
    /\ UNCHANGED <<stored, phase, kind, issued, crashes, received, cutOff>>

(* Mutant: an account whose mailbox stays closed brings no token back. *)
TokenIfOpened(c, opened) ==
    IF opened THEN Ends(c, "ok") ELSE [Ends(c, "imap_failed") EXCEPT !.token = NoToken]

AfterMailbox(c, opened) == Ends(c, IF opened THEN "ok" ELSE "imap_failed")

(* _imap_health, in a thread: it opens the mailbox or catches what it raises. *)
CheckMailbox(a) ==
    /\ phase = "calling"
    /\ call[a].at = "imap"
    /\ \E opened \in BOOLEAN : call' = [call EXCEPT ![a] = AfterMailbox(@, opened)]
    /\ UNCHANGED <<stored, phase, kind, issued, crashes, received, cutOff>>

-----------------------------------------------------------------------------
(* The end of the batch.                                                    *)

Gathered ==
    /\ phase = "calling"
    /\ \A a \in Accounts : call[a].at = "done"
    /\ phase' = "writing"
    /\ UNCHANGED <<stored, call, kind, issued, crashes, received, cutOff>>

WritesAll(a) == call[a].token                                      \* mutant

(* if result.refresh_token: ... *)
Kept(a) == IF call[a].token = NoToken THEN stored[a] ELSE call[a].token

StoreTokens ==
    /\ phase = "writing"
    /\ stored' = [a \in Accounts |-> Kept(a)]
    /\ cutOff' = {a \in cutOff : Kept(a) # received[a]}
    /\ call' = NoCalls
    /\ phase' = "idle"
    /\ UNCHANGED <<kind, issued, crashes, received>>

(* What was delivered and not stored is gone. *)
Interrupted ==
    /\ cutOff' = cutOff \cup {a \in Accounts : stored[a] # received[a]}
    /\ call' = NoCalls
    /\ UNCHANGED <<stored, kind, issued, received>>

(* The transaction is rolled back and the job fails. *)
RollBack ==
    /\ phase = "writing"
    /\ phase' = "idle"
    /\ Interrupted
    /\ UNCHANGED crashes

Crash ==
    /\ phase # "down"
    /\ crashes < MaxCrashes
    /\ crashes' = crashes + 1
    /\ phase' = "down"
    /\ Interrupted

Recover ==
    /\ phase = "down"
    /\ phase' = "idle"
    /\ UNCHANGED <<stored, call, kind, issued, crashes, received, cutOff>>

-----------------------------------------------------------------------------
CallStep(a) == Enter(a) \/ Post(a) \/ Wake(a) \/ CheckMailbox(a)

Next ==
    \/ \E a \in Accounts : CallStep(a)
    \/ LoadWork \/ Gathered \/ StoreTokens \/ RollBack \/ Crash \/ Recover

Spec == Init /\ [][Next]_vars

(* Every request has a time limit, every wait an end; the worker goes on. *)
FairSpec ==
    /\ Spec
    /\ \A a \in Accounts : WF_vars(CallStep(a))
    /\ WF_vars(Gathered) /\ WF_vars(StoreTokens \/ RollBack)

-----------------------------------------------------------------------------
(* Properties.                                                              *)

(* Between two batches the row of an account holds the newest token that     *)
(* Microsoft has delivered for it, whatever became of its mailbox, of its    *)
(* other attempts and of the other accounts; only a crash or a rollback      *)
(* after the delivery can take a token away (run_account_batch,              *)
(* process_account_job).                                                     *)
ReceivedIsStored ==
    phase = "idle" => \A a \in Accounts : stored[a] = received[a] \/ a \in cutOff

(* The account job replaces a token only after OAuth has returned success, by *)
(* the newest token delivered, and never by an older one                     *)
(* (docs/ARCHITECTURE.md, consistency).  An import in update mode writes the  *)
(* column too (ImportJob), and so does the migration at start-up              *)
(* (CipherMigration, where the sentence of the document is refuted).          *)
ReplacedBySuccess ==
    [][\A a \in Accounts :
          stored'[a] # stored[a] => stored'[a] = received[a] /\ stored'[a] > stored[a]]_vars

(* A permanent error ends the call: nothing is posted for that account any   *)
(* more in this batch, whatever the status of the answer was, and no other   *)
(* result hides it (refresh_token).                                          *)
PermanentIsFinal ==
    \A a \in Accounts : call[a].refused > 0 =>
        call[a].posts = call[a].refused /\ call[a].result = "permanent"

(* A failure of Microsoft's answers or of the network is reported only when   *)
(* every attempt of the policy is used up, and the loop never runs out        *)
(* without a result (refresh_token).  An error of the program itself          *)
(* ("internal_error") is not tried again, although the account is then marked *)
(* transient_error as well (process_account_job).                            *)
TransientAfterAllAttempts ==
    \A a \in Accounts :
        /\ call[a].result \in {"error", "network_error"} => call[a].posts = MaxRetries
        /\ call[a].posts <= MaxRetries
        /\ call[a].result # "unknown"

(* Every account of a batch gets its call and every call ends: the accounts  *)
(* that wait for the semaphore follow those that retry or hang in a mailbox. *)
BatchEnds == phase = "calling" ~> phase # "calling"
=============================================================================
