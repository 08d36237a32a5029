-------------------------- MODULE TokenRefreshProofs --------------------------
(***************************************************************************)
(* The safety properties of TokenRefresh, proved for every batch, every    *)
(* policy, any number of tokens and of crashes.                            *)
(*                                                                         *)
(* IInv is inductive.  Beside the types it says how far a call is with its *)
(* attempts (Progress), that no call outlives its batch (NoCallLeft), and  *)
(* where the newest token delivered for an account is: in its row, in the  *)
(* result of its call, or lost with a crash or a rollback (Whereabouts).   *)
(***************************************************************************)
EXTENDS TokenRefresh, TLAPS

(* Each attempt posts once, the last one is followed by no wait, and only a  *)
(* call that got through holds a token.                                      *)
Progress(c) ==
    /\ c.at = "waiting" => c.attempt = 0 /\ c.posts = 0
    /\ c.at = "posting" => c.attempt < MaxRetries /\ c.posts = c.attempt
    /\ c.at = "sleeping" => c.attempt + 1 < MaxRetries /\ c.posts = c.attempt + 1
    /\ c.at \in {"waiting", "posting", "sleeping"} => c.token = NoToken
    /\ c.at # "done" => c.result = "none" /\ c.refused = 0
    /\ c.posts <= MaxRetries
    /\ c.refused > 0 => c.posts = c.refused /\ c.result = "permanent"
    /\ c.result \in {"error", "network_error"} => c.posts = MaxRetries
    /\ c.result # "unknown"

NoCallLeft == phase \in {"idle", "down"} => call = NoCalls

Whereabouts ==
    \A a \in Accounts :
        /\ stored[a] <= received[a] /\ received[a] <= issued[a]
        /\ Kept(a) \in {stored[a], received[a]}
        /\ Kept(a) = received[a] \/ a \in cutOff

(* The inductive invariant. *)
IInv ==
    /\ TypeOK
    /\ \A a \in Accounts : Progress(call[a])
    /\ NoCallLeft
    /\ Whereabouts

-----------------------------------------------------------------------------
(* A call that is over, or has only started, is in order. *)
LEMMA StartedInOrder ==
    ASSUME NEW at \in {"waiting", "done"}
    PROVE  /\ Started(at) \in Calls
           /\ Progress(Started(at))
           /\ Started(at).token = NoToken
  BY TokenRefreshAssumption DEF Started, Calls, Progress, Tokens, NoToken

(* No call holds anything when all of them are forgotten. *)
LEMMA NothingHeld ==
    ASSUME NEW f, f = NoCalls
    PROVE  /\ f \in [Accounts -> Calls]
           /\ \A a \in Accounts : Progress(f[a]) /\ f[a].token = NoToken
  BY StartedInOrder DEF NoCalls

(* Ending a call changes its place and its result. *)
LEMMA EndsIsACall ==
    ASSUME NEW c \in Calls,
           NEW result \in {"ok", "imap_failed", "error", "permanent", "network_error",
                           "internal_error", "unknown"}
    PROVE  /\ Ends(c, result) \in Calls
           /\ Ends(c, result).at = "done" /\ Ends(c, result).result = result
           /\ Ends(c, result).posts = c.posts /\ Ends(c, result).refused = c.refused
           /\ Ends(c, result).token = c.token
  BY DEF Ends, Calls

(* What an attempt leads to: a call that is in order again, with the token of *)
(* the answer if and only if the answer grants it.                           *)
LEMMA AttemptInOrder ==
    ASSUME NEW a \in Accounts, call[a] \in Calls, Progress(call[a]), call[a].at = "posting",
           NEW answer \in Answers, NEW token \in Tokens
    PROVE  /\ AfterPost(a, answer, token) \in Calls
           /\ Progress(AfterPost(a, answer, token))
           /\ AfterPost(a, answer, token).token = IF Granted(answer) THEN token ELSE NoToken
<1> USE TokenRefreshAssumption
<1> DEFINE n == call[a].posts + 1
           m == IF Permanent(answer) THEN n ELSE call[a].refused
           c == [call[a] EXCEPT !.posts = n, !.refused = m]
           d == AfterPost(a, answer, token)
<1>1. /\ call[a].posts = call[a].attempt /\ call[a].attempt \in Nat
      /\ call[a].attempt < MaxRetries
      /\ call[a].token = NoToken /\ call[a].result = "none" /\ call[a].refused = 0
  BY DEF Progress, Calls
<1>2. /\ n \in 1 .. MaxRetries /\ m \in {0, n}
      /\ n \in 0 .. MaxRetries + 1 /\ m \in 0 .. MaxRetries + 1
      /\ ~Permanent(answer) => m = 0
      /\ Permanent(answer) => m = n
      /\ n = call[a].attempt + 1
  BY <1>1
<1>3. /\ answer = NoAnswer => d = EndsIfLast(a, c, "network_error")
      /\ answer.body = "odd" => d = Ends(c, "internal_error")
      /\ Granted(answer) =>
            d = IF kind = "health" THEN [c EXCEPT !.at = "imap", !.token = token]
                                   ELSE [Ends(c, "ok") EXCEPT !.token = token]
      /\ Permanent(answer) => d = Ends(c, "permanent")
      /\ answer # NoAnswer /\ answer.body # "odd" /\ ~Granted(answer) /\ ~Permanent(answer) =>
            d = EndsIfLast(a, c, "error")
  <2>1. call[a].posts <= MaxRetries
    BY <1>1
  <2>2. d = CASE answer = NoAnswer -> EndsIfLast(a, c, "network_error")
              [] answer.body = "odd" -> Ends(c, "internal_error")
              [] Granted(answer) ->
                     IF kind = "health" THEN [c EXCEPT !.at = "imap", !.token = token]
                                        ELSE [Ends(c, "ok") EXCEPT !.token = token]
              [] GivesUp(answer) ->
                     Ends(c, IF Permanent(answer) THEN "permanent" ELSE "error")
              [] OTHER -> EndsIfLast(a, c, "error")
    BY <2>1 DEF AfterPost
  <2> HIDE DEF c, d
  <2>3. answer = NoAnswer => answer.body = "none"
    BY DEF NoAnswer
  <2> QED BY <2>2, <2>3 DEF Granted, GivesUp, Retryable, Permanent
<1> HIDE DEF n, m
<1>4. /\ c \in Calls
      /\ c.at = "posting" /\ c.attempt = call[a].attempt /\ c.token = NoToken
      /\ c.posts = n /\ c.refused = m /\ c.result = "none"
  BY <1>1, <1>2 DEF Calls
<1> HIDE DEF c, d
<1>5. ASSUME NEW result \in {"network_error", "error"}, ~Permanent(answer)
      PROVE  /\ EndsIfLast(a, c, result) \in Calls
             /\ Progress(EndsIfLast(a, c, result))
             /\ EndsIfLast(a, c, result).token = NoToken
  <2>1. CASE LastAttempt(a)
    <3>1. EndsIfLast(a, c, result) = Ends(c, result)
      BY <2>1 DEF EndsIfLast
    <3>2. n = MaxRetries
      BY <1>1, <1>2, <2>1 DEF LastAttempt
    <3> QED BY <1>2, <1>4, <1>5, <3>1, <3>2, EndsIsACall DEF Progress
  <2>2. CASE ~LastAttempt(a)
    <3> DEFINE e == [c EXCEPT !.at = "sleeping"]
    <3>1. EndsIfLast(a, c, result) = e
      BY <2>2 DEF EndsIfLast
    <3>2. /\ e \in Calls /\ e.at = "sleeping" /\ e.attempt = call[a].attempt
          /\ e.token = NoToken /\ e.posts = n /\ e.refused = m /\ e.result = "none"
      BY <1>4 DEF Calls
    <3>3. call[a].attempt + 1 < MaxRetries
      BY <1>1, <2>2 DEF LastAttempt
    <3> HIDE DEF e
    <3> QED BY <1>2, <1>5, <3>1, <3>2, <3>3 DEF Progress
  <2> QED BY <2>1, <2>2
<1>6. CASE answer = NoAnswer
  <2>1. ~Permanent(answer) /\ ~Granted(answer)
    BY <1>6 DEF NoAnswer, Permanent, Granted
  <2> QED BY <1>3, <1>5, <1>6, <2>1 DEF d
<1>7. CASE answer.body = "odd"
  <2>1. ~Permanent(answer) /\ ~Granted(answer)
    BY <1>7 DEF Permanent, Granted
  <2>2. d \in Calls /\ Progress(d) /\ d.token = NoToken
    BY <1>2, <1>3, <1>4, <1>7, <2>1, EndsIsACall DEF Progress
  <2> QED BY <2>1, <2>2 DEF d
<1>8. CASE Granted(answer)
  <2>1. ~Permanent(answer) /\ token \in Tokens \cup {NoToken}
    BY <1>8 DEF Permanent, Granted
  <2>2. CASE kind = "health"
    <3>1. d = [c EXCEPT !.at = "imap", !.token = token]
      BY <1>3, <1>8, <2>2
    <3>2. /\ d \in Calls /\ d.at = "imap" /\ d.token = token
          /\ d.posts = n /\ d.refused = m /\ d.result = "none"
      BY <1>4, <2>1, <3>1 DEF Calls
    <3>3. Progress(d)
      BY <1>2, <2>1, <3>2 DEF Progress
    <3> QED BY <1>8, <3>2, <3>3 DEF d
  <2>3. CASE kind # "health"
    <3>1. d = [Ends(c, "ok") EXCEPT !.token = token]
      BY <1>3, <1>8, <2>3
    <3>2. /\ Ends(c, "ok") \in Calls /\ Ends(c, "ok").at = "done"
          /\ Ends(c, "ok").result = "ok" /\ Ends(c, "ok").posts = n
          /\ Ends(c, "ok").refused = m
      BY <1>4, EndsIsACall
    <3>3. /\ d \in Calls /\ d.at = "done" /\ d.token = token
          /\ d.posts = n /\ d.refused = m /\ d.result = "ok"
      BY <2>1, <3>1, <3>2 DEF Calls
    <3>4. Progress(d)
      BY <1>2, <2>1, <3>3 DEF Progress
    <3> QED BY <1>8, <3>3, <3>4 DEF d
  <2> QED BY <2>2, <2>3
<1>9. CASE Permanent(answer)
  <2>1. ~Granted(answer)
    BY <1>9 DEF Permanent, Granted
  <2>2. d \in Calls /\ Progress(d) /\ d.token = NoToken
    BY <1>2, <1>3, <1>4, <1>9, EndsIsACall DEF Progress
  <2> QED BY <2>1, <2>2 DEF d
<1>10. CASE answer # NoAnswer /\ answer.body # "odd" /\ ~Granted(answer) /\ ~Permanent(answer)
  BY <1>3, <1>5, <1>10 DEF d
<1> QED BY <1>6, <1>7, <1>8, <1>9, <1>10
-----------------------------------------------------------------------------
(* The initial states satisfy the invariant. *)
LEMMA Initially == Init => IInv
<1> SUFFICES ASSUME Init PROVE IInv
  OBVIOUS
<1>1. /\ call = NoCalls
      /\ call \in [Accounts -> Calls]
      /\ \A a \in Accounts : Progress(call[a]) /\ call[a].token = NoToken
  BY NothingHeld DEF Init
<1>2. TypeOK
  BY <1>1, TokenRefreshAssumption DEF Init, TypeOK, Tokens
<1> QED BY <1>1, <1>2 DEF Init, IInv, NoCallLeft, Whereabouts, Kept, TypeOK, Tokens

(* Steps of one call that post nothing. *)
LEMMA CallKeeps ==
    ASSUME IInv, NEW a \in Accounts, Enter(a) \/ Wake(a) \/ CheckMailbox(a)
    PROVE  IInv'
<1> USE TokenRefreshAssumption
<1>1. /\ phase = "calling"
      /\ UNCHANGED <<stored, phase, kind, issued, crashes, received, cutOff>>
      /\ \A b \in Accounts : call[b] \in Calls /\ Progress(call[b])
      /\ call \in [Accounts -> Calls]
  BY DEF Enter, Wake, CheckMailbox, IInv, TypeOK
<1>2. PICK d \in Calls : /\ call' = [call EXCEPT ![a] = d]
                         /\ Progress(d)
                         /\ d.token = call[a].token
  <2>1. CASE Enter(a)
    <3> DEFINE d == [call[a] EXCEPT !.at = "posting"]
    <3>1. d \in Calls /\ Progress(d) /\ d.token = call[a].token
      BY <1>1, <2>1 DEF Enter, Calls, Progress
    <3> QED BY <2>1, <3>1 DEF Enter
  <2>2. CASE Wake(a)
    <3> DEFINE d == AfterSleep(call[a])
               k == call[a].attempt + 1
    <3>1. /\ call[a] \in Calls /\ Progress(call[a]) /\ call[a].at = "sleeping"
          /\ k \in 0 .. MaxRetries /\ k < MaxRetries
      BY <1>1, <2>2 DEF Wake, Progress, Calls
    <3>2. d = [call[a] EXCEPT !.attempt = k, !.at = "posting"]
      BY <3>1 DEF AfterSleep
    <3>3. call[a].posts = k
      BY <3>1 DEF Progress
    <3> HIDE DEF d, k
    <3>4. /\ d \in Calls /\ d.at = "posting" /\ d.attempt = k
          /\ d.posts = call[a].posts /\ d.token = call[a].token
          /\ d.refused = call[a].refused /\ d.result = call[a].result
      BY <3>1, <3>2 DEF Calls
    <3>5. Progress(d)
      BY <3>1, <3>3, <3>4 DEF Progress
    <3> QED BY <2>2, <3>4, <3>5 DEF Wake, d
  <2>3. CASE CheckMailbox(a)
    <3>1. PICK opened \in BOOLEAN : call' = [call EXCEPT ![a] = AfterMailbox(@, opened)]
      BY <2>3 DEF CheckMailbox
    <3> DEFINE d == AfterMailbox(call[a], opened)
    <3>2. d \in Calls /\ Progress(d) /\ d.token = call[a].token
      BY <1>1, <2>3 DEF CheckMailbox, AfterMailbox, Ends, Calls, Progress
    <3> QED BY <3>1, <3>2
  <2> QED BY <2>1, <2>2, <2>3
<1>3. \A b \in Accounts : call'[b] = IF b = a THEN d ELSE call[b]
  BY <1>1, <1>2
<1>4. TypeOK' /\ \A b \in Accounts : Progress(call'[b])
  BY <1>1, <1>2, <1>3 DEF IInv, TypeOK
<1>5. \A b \in Accounts : Kept(b)' = Kept(b)
  BY <1>1, <1>2, <1>3 DEF Kept
<1> QED BY <1>1, <1>4, <1>5 DEF IInv, NoCallLeft, Whereabouts

(* One request and its answer. *)
LEMMA PostKeeps ==
    ASSUME IInv, NEW a \in Accounts, Post(a)
    PROVE  IInv'
<1> USE TokenRefreshAssumption
<1>1. /\ phase = "calling" /\ call[a].at = "posting"
      /\ UNCHANGED <<stored, phase, kind, crashes, cutOff>>
      /\ \A b \in Accounts : call[b] \in Calls /\ Progress(call[b])
      /\ call \in [Accounts -> Calls]
      /\ call[a].token = NoToken
  BY DEF Post, IInv, TypeOK, Progress
<1>2. /\ stored \in [Accounts -> Tokens]
      /\ issued \in [Accounts -> Tokens]
      /\ received \in [Accounts -> Tokens]
      /\ \A b \in Accounts :
            /\ stored[b] <= received[b] /\ received[b] <= issued[b]
            /\ Kept(b) \in {stored[b], received[b]}
            /\ Kept(b) = received[b] \/ b \in cutOff
  BY DEF IInv, TypeOK, Whereabouts
<1>3. PICK answer \in Answers, token \in Tokens :
        /\ call' = [call EXCEPT ![a] = AfterPost(a, answer, token)]
        /\ \/ token = stored[a] /\ UNCHANGED <<issued, received>>
           \/ /\ token = issued[a] + 1
              /\ issued' = [issued EXCEPT ![a] = token]
              /\ received' = [received EXCEPT ![a] = IF Granted(answer) THEN token ELSE @]
  <2>1. PICK answer \in Answers :
          \/ /\ call' = [call EXCEPT ![a] = AfterPost(a, answer, stored[a])]
             /\ UNCHANGED <<issued, received>>
          \/ /\ issued[a] < MaxIssued
             /\ issued' = [issued EXCEPT ![a] = issued[a] + 1]
             /\ call' = [call EXCEPT ![a] = AfterPost(a, answer, issued[a] + 1)]
             /\ received' = [received EXCEPT ![a] = IF Granted(answer) THEN issued[a] + 1 ELSE @]
    BY DEF Post, Granted
  <2>2. stored[a] \in Tokens
    BY <1>2
  <2>3. issued[a] < MaxIssued => issued[a] + 1 \in Tokens
    BY <1>2 DEF Tokens
  <2> QED BY <2>1, <2>2, <2>3
<1> DEFINE d == AfterPost(a, answer, token)
<1>4. /\ d \in Calls
      /\ Progress(d)
      /\ d.token = IF Granted(answer) THEN token ELSE NoToken
  BY <1>1, AttemptInOrder
<1> HIDE DEF d
<1>5. \A b \in Accounts : call'[b] = IF b = a THEN d ELSE call[b]
  BY <1>1, <1>3 DEF d
<1>6. call' \in [Accounts -> Calls] /\ \A b \in Accounts : Progress(call'[b])
  BY <1>1, <1>3, <1>4, <1>5 DEF d
<1>7. issued' \in [Accounts -> Tokens] /\ received' \in [Accounts -> Tokens]
  BY <1>2, <1>3
<1>8. TypeOK'
  BY <1>1, <1>6, <1>7 DEF IInv, TypeOK
<1>9. ASSUME NEW b \in Accounts, b # a
      PROVE  /\ Kept(b)' = Kept(b)
             /\ received'[b] = received[b] /\ issued'[b] = issued[b]
  BY <1>1, <1>2, <1>3, <1>5, <1>9 DEF Kept
<1>10. Kept(a) = stored[a]
  BY <1>1 DEF Kept
<1>11. Kept(a)' = IF Granted(answer) THEN token ELSE stored[a]
  <2>1. token # NoToken
    BY DEF Tokens, NoToken
  <2> QED BY <1>1, <1>4, <1>5, <2>1 DEF Kept
<1>12. /\ stored[a] \in Nat /\ received[a] \in Nat /\ issued[a] \in Nat
  BY <1>2 DEF Tokens
<1>13. /\ stored'[a] <= received'[a] /\ received'[a] <= issued'[a]
       /\ Kept(a)' \in {stored'[a], received'[a]}
       /\ Kept(a)' = received'[a] \/ a \in cutOff'
  <2>1. CASE token = stored[a] /\ UNCHANGED <<issued, received>>
    BY <1>1, <1>2, <1>10, <1>11, <2>1
  <2>2. CASE /\ token = issued[a] + 1
             /\ issued' = [issued EXCEPT ![a] = token]
             /\ received' = [received EXCEPT ![a] = IF Granted(answer) THEN token ELSE @]
    <3>1. issued'[a] = token /\ received'[a] = IF Granted(answer) THEN token ELSE received[a]
      BY <1>2, <2>2
    <3> QED BY <1>1, <1>2, <1>10, <1>11, <1>12, <2>2, <3>1
  <2> QED BY <1>3, <2>1, <2>2
<1>14. Whereabouts'
  BY <1>1, <1>2, <1>9, <1>13 DEF Whereabouts
<1> QED BY <1>1, <1>6, <1>8, <1>14 DEF IInv, NoCallLeft

(* The beginning and the end of a batch. *)
LEMMA BatchKeeps ==
    IInv /\ (LoadWork \/ Gathered \/ StoreTokens \/ RollBack \/ Crash \/ Recover) => IInv'
<1> SUFFICES ASSUME IInv, LoadWork \/ Gathered \/ StoreTokens \/ RollBack \/ Crash \/ Recover
             PROVE  IInv'
  OBVIOUS
<1> USE TokenRefreshAssumption
<1>1. CASE LoadWork
  <2>1. call = NoCalls /\ \A a \in Accounts : call[a].token = NoToken
    BY <1>1, NothingHeld DEF LoadWork, IInv, NoCallLeft
  <2>2. /\ call' \in [Accounts -> Calls]
        /\ \A a \in Accounts : Progress(call'[a]) /\ call'[a].token = NoToken
    BY <1>1, StartedInOrder DEF LoadWork
  <2> QED BY <1>1, <2>1, <2>2 DEF LoadWork, IInv, TypeOK, NoCallLeft, Whereabouts, Kept
<1>2. CASE Gathered
  BY <1>2 DEF Gathered, IInv, TypeOK, NoCallLeft, Whereabouts, Kept
<1>3. CASE StoreTokens
  <2>1. /\ call' = NoCalls
        /\ call' \in [Accounts -> Calls]
        /\ \A a \in Accounts : Progress(call'[a]) /\ call'[a].token = NoToken
    BY <1>3, NothingHeld DEF StoreTokens
  <2>2. \A a \in Accounts : stored'[a] = Kept(a) /\ Kept(a)' = Kept(a)
    BY <1>3, <2>1 DEF StoreTokens, Kept
  <2>3. \A a \in Accounts : Kept(a) \in Tokens
    BY DEF IInv, TypeOK, Whereabouts
  <2>4. TypeOK'
    BY <1>3, <2>1, <2>3 DEF StoreTokens, IInv, TypeOK
  <2>5. \A a \in Accounts : stored[a] \in Nat /\ received[a] \in Nat
    BY DEF IInv, TypeOK, Tokens
  <2>6. Whereabouts'
    BY <1>3, <2>2, <2>5 DEF StoreTokens, IInv, Whereabouts
  <2> QED BY <1>3, <2>1, <2>4, <2>6 DEF StoreTokens, IInv, NoCallLeft
<1>4. CASE RollBack \/ Crash
  <2>1. /\ call' = NoCalls
        /\ call' \in [Accounts -> Calls]
        /\ \A a \in Accounts : Progress(call'[a]) /\ call'[a].token = NoToken
    BY <1>4, NothingHeld DEF RollBack, Crash, Interrupted
  <2>2. TypeOK'
    BY <1>4, <2>1 DEF RollBack, Crash, Interrupted, IInv, TypeOK
  <2>3. \A a \in Accounts : Kept(a)' = stored[a]
    BY <1>4, <2>1 DEF RollBack, Crash, Interrupted, Kept
  <2>4. Whereabouts'
    BY <1>4, <2>3 DEF RollBack, Crash, Interrupted, IInv, Whereabouts
  <2> QED BY <2>1, <2>2, <2>4 DEF IInv, NoCallLeft
<1>5. CASE Recover
  BY <1>5 DEF Recover, IInv, TypeOK, NoCallLeft, Whereabouts, Kept
<1> QED BY <1>1, <1>2, <1>3, <1>4, <1>5

-----------------------------------------------------------------------------
(* Every step preserves the invariant, so it holds throughout. *)
LEMMA Inductive == IInv /\ [Next]_vars => IInv'
<1> SUFFICES ASSUME IInv, [Next]_vars PROVE IInv'
  OBVIOUS
<1>1. CASE UNCHANGED vars
  BY <1>1 DEF IInv, TypeOK, NoCallLeft, Whereabouts, Kept, vars
<1>2. CASE Next
  BY <1>2, CallKeeps, PostKeeps, BatchKeeps DEF Next, CallStep
<1> QED BY <1>1, <1>2

LEMMA Invariance == Spec => []IInv
  BY Initially, Inductive, PTL DEF Spec

(* The variables have their types. *)
THEOREM TypeCorrect == Spec => []TypeOK
<1>1. IInv => TypeOK
  BY DEF IInv
<1> QED BY <1>1, Invariance, PTL

(* Between two batches the newest token delivered for an account is in its    *)
(* row, unless a crash or a rollback took it away (run_account_batch,        *)
(* process_account_job).                                                     *)
THEOREM DeliveredIsKept == Spec => []ReceivedIsStored
<1>1. IInv => ReceivedIsStored
  <2> SUFFICES ASSUME IInv, phase = "idle", NEW a \in Accounts
               PROVE  stored[a] = received[a] \/ a \in cutOff
    BY DEF ReceivedIsStored
  <2>1. Kept(a) = stored[a]
    BY NothingHeld DEF IInv, NoCallLeft, Kept
  <2> QED BY <2>1 DEF IInv, Whereabouts
<1> QED BY <1>1, Invariance, PTL

(* Nothing is posted for an account after a permanent error, and the error is *)
(* its result (refresh_token).                                               *)
THEOREM PermanentEndsCall == Spec => []PermanentIsFinal
<1>1. IInv => PermanentIsFinal
  BY DEF IInv, Progress, PermanentIsFinal
<1> QED BY <1>1, Invariance, PTL

(* A failure of Microsoft's answers or of the network is reported after        *)
(* exactly max_retries requests, and no call posts more (refresh_token).     *)
THEOREM AllAttemptsUsed == Spec => []TransientAfterAllAttempts
<1>1. IInv => TransientAfterAllAttempts
  BY DEF IInv, Progress, TransientAfterAllAttempts
<1> QED BY <1>1, Invariance, PTL

(* The account job replaces a stored token only by the newest one delivered,  *)
(* never by an older one (process_account_job).                              *)
THEOREM OnlyNewerTokens == Spec => ReplacedBySuccess
<1> DEFINE Newer == \A a \in Accounts :
                       stored'[a] # stored[a] =>
                           stored'[a] = received[a] /\ stored'[a] > stored[a]
<1>1. IInv /\ [Next]_vars => Newer
  <2> SUFFICES ASSUME IInv, [Next]_vars, NEW a \in Accounts, stored'[a] # stored[a]
               PROVE  stored'[a] = received[a] /\ stored'[a] > stored[a]
    OBVIOUS
  <2>1. StoreTokens
    BY DEF Next, CallStep, Enter, Post, Wake, CheckMailbox, LoadWork, Gathered, RollBack, Crash,
       Recover, Interrupted, vars
  <2>2. stored'[a] = Kept(a)
    BY <2>1 DEF StoreTokens
  <2>3. /\ Kept(a) \in {stored[a], received[a]}
        /\ stored[a] <= received[a] /\ stored[a] \in Nat /\ received[a] \in Nat
    BY DEF IInv, Whereabouts, TypeOK, Tokens
  <2> QED BY <2>2, <2>3
<1> QED BY <1>1, Invariance, PTL DEF Spec, ReplacedBySuccess
=============================================================================
