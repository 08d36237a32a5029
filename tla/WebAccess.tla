------------------------------ MODULE WebAccess ------------------------------
(***************************************************************************)
(* How a request that changes something gets through the web process: the  *)
(* request guard that bounds and buffers its body, the login limiter, the  *)
(* signed session in a cookie, and the cookies of the browser, which HTTP  *)
(* and HTTPS share.  Requests overlap, and time passes between any two of  *)
(* their steps.  Times are relative (ages of attempts, what remains of the *)
(* life of a session), so that time has no end.                            *)
(***************************************************************************)
EXTENDS Naturals, Sequences, FiniteSets, SequencesExt

CONSTANTS
    Requests,    \* requests that can be under way at one time
    Addresses,   \* client addresses
    NoAddress,
    MaxFailed,   \* _MAX_FAILED_ATTEMPTS
    Window,      \* _ATTEMPT_WINDOW_SECONDS, in ticks
    MaxTracked,  \* _MAX_TRACKED_CLIENTS
    SessionLife, \* session_hours, in ticks
    BodyLimit    \* request_body_limit, in chunks

ASSUME WebAccessAssumption ==
    /\ NoAddress \notin Addresses
    /\ {MaxFailed, Window, MaxTracked, SessionLife, BodyLimit} \subseteq Nat \ {0}

VARIABLES
    attempts, \* _attempts: ages of the attempts of an address, oldest first
    order,    \* the addresses in _attempts: <<a, b>> if a was inserted before b
    jar,      \* the browser's cookies
    req,      \* the requests
    tries     \* history: ages of the verifications an address was granted
              \* within the window, since its last success or eviction

limiter == <<attempts, order, tries>>
vars == <<limiter, jar, req>>

Ages == 0 .. Window + 1   \* Window + 1: older than the window
Lives == 0 .. SessionLife \* 0: expired, or no session
Schemes == {"http", "https"}
Names == {"main", "http"} \* COOKIE_NAME, HTTP_COOKIE_NAME

NoCookie == [life |-> 0, secure |-> FALSE]

(* A request is read by the guard, is with its handler, waits for a login to *)
(* be verified, or its answer is on the way.  life is the session it carries *)
(* or brings.                                                                *)
RequestRecords ==
    [at: {"idle", "reading", "handling", "verifying", "opening", "closing"},
     path: {"/login", "/logout", "/api/"}, scheme: Schemes, addr: Addresses \cup {NoAddress},
     life: Lives, received: 0 .. BodyLimit]

Idle ==
    [at |-> "idle", path |-> "/login", scheme |-> "http",
     addr |-> NoAddress, life |-> 0, received |-> 0]

(* The keys of _attempts; none has an empty window once a call is over. *)
Tracked == {a \in Addresses : attempts[a] # <<>>}

TypeOK ==
    /\ attempts \in [Addresses -> Seq(Ages)]
    /\ order \subseteq Tracked \X Tracked
    /\ \A a, b \in Tracked : <<a, b>> \in order <=> a # b /\ <<b, a>> \notin order
    /\ Cardinality(Tracked) <= MaxTracked
    /\ jar \in [Names -> [life: Lives, secure: BOOLEAN]]
    /\ req \in [Requests -> RequestRecords]
    /\ tries \in [Addresses -> Seq(0 .. Window)]

(* A browser may still hold a session that was opened over HTTP under        *)
(* COOKIE_NAME, before HTTP had a name of its own.                           *)
Init ==
    /\ attempts = [a \in Addresses |-> <<>>]
    /\ order = {}
    /\ jar \in [Names -> {NoCookie, [life |-> SessionLife, secure |-> FALSE]}]
    /\ jar["http"] = NoCookie
    /\ req = [r \in Requests |-> Idle]
    /\ tries = [a \in Addresses |-> <<>>]

-----------------------------------------------------------------------------
(* Sessions and cookies.                                                    *)

OneName(scheme) == "main"                                          \* mutant

(* session_cookie_name *)
CookieName(scheme) == IF scheme = "https" THEN "main" ELSE "http"

(* What the browser sends: a secure cookie only over HTTPS. *)
Sent(name, scheme) ==
    IF jar[name].secure /\ scheme = "http" THEN 0 ELSE jar[name].life

(* read_session: over HTTP the other name is looked at if the own is empty. *)
SessionOver(scheme) ==
    LET own == Sent(CookieName(scheme), scheme) IN
        IF own = 0 /\ scheme = "http" THEN Sent("main", scheme) ELSE own

(* What the browser makes of Set-Cookie; plain HTTP may not touch a secure   *)
(* cookie.                                                                   *)
Set(cookies, name, scheme, life) ==
    IF cookies[name].secure /\ scheme = "http" THEN cookies
    ELSE [cookies EXCEPT ![name] =
             IF life = 0 THEN NoCookie ELSE [life |-> life, secure |-> scheme = "https"]]

LogsOutOwn(scheme) == Set(jar, CookieName(scheme), scheme, 0)      \* mutant

(* logout deletes the cookie it read, and over HTTP the older name too. *)
LoggedOut(scheme) ==
    LET own == Set(jar, CookieName(scheme), scheme, 0) IN
        IF scheme = "http" THEN Set(own, "main", scheme, 0) ELSE own

-----------------------------------------------------------------------------
(* The login limiter.                                                       *)

(* How many attempts the loop of _prune_attempts drops: it stops at the first *)
(* recent one.                                                               *)
Stale(ages) ==
    CHOOSE n \in 0 .. Len(ages) :
        /\ \A i \in 1 .. n : ages[i] > Window
        /\ n < Len(ages) => ages[n + 1] <= Window

Recent(ages) == SubSeq(ages, Stale(ages) + 1, Len(ages))

Forgets(b) == FALSE                                               \* mutant

Expired(b) == Last(attempts[b]) > Window

InsertedAfter(a, others) == {b \in others : <<a, b>> \in order}

(* Mutant: only expired entries make room. *)
DropExpired(kept) == {b \in kept : ~Expired(b)}

(* The entries that stay when the dict is full: those that have expired go,  *)
(* and then the ones inserted first until there is room.                     *)
MakeRoom(kept) ==
    LET live == {b \in kept : ~Expired(b)} IN
        IF Cardinality(kept) < MaxTracked THEN kept
        ELSE {b \in live : Cardinality(InsertedAfter(b, live)) < MaxTracked - 1}

(* Mutant: an attempt is recorded when it has failed. *)
NotYet(ages) == ages

Recorded(ages) == Append(ages, 0)

(* reserve_login_attempt, under its lock: the address is pruned, and refused *)
(* or recorded. *)
Refuse(a) ==
    /\ Len(Recent(attempts[a])) >= MaxFailed
    /\ attempts' = [attempts EXCEPT ![a] = Recent(@)]
    /\ UNCHANGED <<order, tries>>

Reserve(a) ==
    /\ Len(Recent(attempts[a])) < MaxFailed
    /\ LET kept == IF Recent(attempts[a]) = <<>> THEN Tracked \ {a} ELSE Tracked
           stay == IF a \in kept THEN kept ELSE MakeRoom(kept)
       IN  /\ order' = (order \cap (stay \X stay))
                          \cup {<<b, a>> : b \in IF a \in kept THEN {} ELSE stay}
           /\ attempts' = [b \in Addresses |->
                 IF b = a THEN Recorded(Recent(attempts[a]))
                 ELSE IF b \in stay THEN attempts[b] ELSE <<>>]
           /\ tries' = [b \in Addresses |->
                 IF b = a THEN Append(tries[a], 0)
                 ELSE IF b \in stay THEN tries[b] ELSE <<>>]

(* clear_failed_logins: the attempts of other requests under way go as well. *)
Clear(a) ==
    /\ attempts' = [attempts EXCEPT ![a] = <<>>]
    /\ order' = {p \in order : a \notin {p[1], p[2]}}
    /\ tries' = [tries EXCEPT ![a] = <<>>]

-----------------------------------------------------------------------------
(* A request.                                                               *)

Reply(r) == req' = [req EXCEPT ![r] = Idle]

(* The browser sends a request and the guard looks at its headers: a length  *)
(* that is no number or over the limit, or a call of the API without a       *)
(* session (or with the csrf token of another one), is answered before any   *)
(* of the body is read; nothing has changed then.                            *)
Send(r) ==
    /\ req[r].at = "idle"
    /\ \E path \in {"/login", "/logout", "/api/"}, scheme \in Schemes, a \in Addresses \cup {NoAddress} :
         LET life == SessionOver(scheme) IN
         /\ path = "/api/" => life > 0
         /\ path = "/login" <=> a # NoAddress
         /\ req' = [req EXCEPT ![r] = [Idle EXCEPT !.at = "reading", !.path = path,
                        !.scheme = scheme, !.addr = a,
                        !.life = IF path = "/login" THEN 0 ELSE life]]
    /\ UNCHANGED <<limiter, jar>>

(* One http.request message. *)
ReadChunk(r) ==
    /\ req[r].at = "reading"
    /\ IF req[r].received = BodyLimit
       THEN Reply(r)
       ELSE \E more \in BOOLEAN :
              req' = [req EXCEPT ![r].received = @ + 1,
                                 ![r].at = IF more THEN "reading" ELSE "handling"]
    /\ UNCHANGED <<limiter, jar>>

(* http.disconnect: the guard returns, the handler never runs. *)
Disconnect(r) ==
    /\ req[r].at = "reading"
    /\ Reply(r)
    /\ UNCHANGED <<limiter, jar>>

(* require_csrf again, in the handler: the session may have ended while the   *)
(* guard was reading. *)
Authorised(r) == req[r].life > 0

HandleApi(r) ==
    /\ req[r].at = "handling" /\ req[r].path = "/api/"
    /\ Authorised(r)
    /\ Reply(r)
    /\ UNCHANGED <<limiter, jar>>

HandleLogout(r) ==
    /\ req[r].at = "handling" /\ req[r].path = "/logout"
    /\ Authorised(r)
    /\ req' = [req EXCEPT ![r].at = "closing"]
    /\ UNCHANGED <<limiter, jar>>

AnswerUnauthorised(r) ==
    /\ req[r].at = "handling" /\ req[r].path # "/login"
    /\ ~Authorised(r)
    /\ Reply(r)
    /\ UNCHANGED <<limiter, jar>>

HandleLogin(r) ==
    /\ req[r].at = "handling" /\ req[r].path = "/login"
    /\ \/ Refuse(req[r].addr) /\ Reply(r)
       \/ Reserve(req[r].addr) /\ req' = [req EXCEPT ![r].at = "verifying"]
    /\ UNCHANGED jar

(* verify_admin_key, in a thread: the key is wrong. *)
VerifyFails(r) ==
    /\ req[r].at = "verifying"
    /\ Reply(r)
    /\ UNCHANGED <<limiter, jar>>

(* The key is right.  The answer may still be an error: the audit row comes  *)
(* last.                                                                     *)
VerifySucceeds(r) ==
    /\ req[r].at = "verifying"
    /\ Clear(req[r].addr)
    /\ Reply(r) \/ req' = [req EXCEPT ![r].at = "opening", ![r].life = SessionLife]
    /\ UNCHANGED jar

(* The answer reaches the browser. *)
Opened(r) ==
    /\ req[r].at = "opening"
    /\ jar' = Set(jar, CookieName(req[r].scheme), req[r].scheme, req[r].life)
    /\ Reply(r)
    /\ UNCHANGED limiter

Closed(r) ==
    /\ req[r].at = "closing"
    /\ jar' = LoggedOut(req[r].scheme)
    /\ Reply(r)
    /\ UNCHANGED limiter

-----------------------------------------------------------------------------
Older(ages) == [i \in 1 .. Len(ages) |-> IF ages[i] <= Window THEN ages[i] + 1 ELSE ages[i]]
Shorter(life) == IF life = 0 THEN 0 ELSE life - 1

(* Time passes; a cookie is dropped with the session it holds. *)
Tick ==
    /\ attempts' = [a \in Addresses |-> Older(attempts[a])]
    /\ tries' = [a \in Addresses |-> Recent(Older(tries[a]))]
    /\ jar' = [n \in Names |->
                 IF jar[n].life <= 1 THEN NoCookie ELSE [jar[n] EXCEPT !.life = @ - 1]]
    /\ req' = [r \in Requests |-> [req[r] EXCEPT !.life = Shorter(@)]]
    /\ UNCHANGED order

Next ==
    \/ \E r \in Requests :
          \/ Send(r) \/ ReadChunk(r) \/ Disconnect(r) \/ HandleApi(r) \/ HandleLogout(r)
          \/ AnswerUnauthorised(r) \/ HandleLogin(r) \/ VerifyFails(r)
          \/ VerifySucceeds(r) \/ Opened(r) \/ Closed(r)
    \/ Tick

Spec == Init /\ [][Next]_vars

-----------------------------------------------------------------------------
(* Properties.                                                              *)

(* However requests overlap, the keys of an address that are verified within *)
(* a window, since its last success or eviction, are never more than the     *)
(* limit, and an address is refused only when it has used all of them: it is *)
(* admitted again when the window has passed (reserve_login_attempt;         *)
(* main.py: "try again in 15 minutes").                                      *)
WindowIsExact ==
    /\ \A a \in Addresses : Len(tries[a]) <= MaxFailed
    /\ \A a \in Addresses : Len(Recent(attempts[a])) = MaxFailed => Len(tries[a]) = MaxFailed

(* An address with a recent attempt is forgotten without a success only when *)
(* every place is taken by one with a recent attempt (reserve_login_attempt: *)
(* expired entries go first).                                                *)
LiveEvictedLast ==
    [][\A a \in Addresses :
          /\ tries[a] # <<>> /\ attempts'[a] = <<>>
          /\ ~\E r \in Requests : req[r].at = "verifying" /\ req'[r].at # "verifying"
          => Cardinality({b \in Addresses : tries[b] # <<>>}) >= MaxTracked]_vars

(* When the answer to a login has arrived, the next page over the same       *)
(* scheme finds a session, and when the answer to a logout has arrived it    *)
(* finds none, whatever cookies the other scheme or an older version left    *)
(* (auth.py: HTTP and HTTPS use different names, so that a secure cookie     *)
(* does not stop a login over HTTP).                                         *)
AnswersTakeEffect ==
    [][\A r \in Requests, scheme \in Schemes :
          req[r].scheme = scheme /\ req'[r].at = "idle" =>
             /\ req[r].at = "opening" /\ req[r].life > 0 => SessionOver(scheme)' > 0
             /\ req[r].at = "closing" => SessionOver(scheme)' = 0]_vars
=============================================================================
