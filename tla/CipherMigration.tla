---------------------------- MODULE CipherMigration ----------------------------
(***************************************************************************)
(* migrate_account_ciphertexts, which the web process and the worker both  *)
(* run every time they start: it reads the accounts batch by batch, without *)
(* locking them, seals what is still in the old ciphertext format again,   *)
(* and commits.  Meanwhile the other process may be doing the same, or be  *)
(* past it and at work: the worker refreshes tokens, the web process        *)
(* deletes accounts.  A process that dies starts over.                      *)
(***************************************************************************)
EXTENDS Naturals, FiniteSets

CONSTANTS
    MaxId,         \* the highest account id
    BatchSize,     \* batch_size of the migration
    StartOrders,   \* the ways the two processes are started: "compose", "install"
    MaxRefreshes,  \* bound: refreshes of one account
    MaxCrashes     \* bound: processes that die

ASSUME CipherMigrationAssumption ==
    /\ MaxId \in Nat
    /\ BatchSize \in Nat \ {0}
    /\ StartOrders \subseteq {"compose", "install"}
    /\ MaxRefreshes \in Nat
    /\ MaxCrashes \in Nat

Accounts == 1 .. MaxId                                   \* ids
Processes == {"web", "worker"}

VARIABLES
    rows,      \* accounts in the table
    legacy,    \* those whose refresh_token_encrypted is in the old format
    token,     \* token[a]: how many times the token of a was replaced by a refresh
    pc,        \* "off", "migrating", "ready" for each process
    cursor,    \* cursor of its migration
    batch,     \* accounts of the batch it has read
    old,       \* those of them it read in the old format
    copy,      \* the tokens it has in memory
    calling,   \* accounts the worker is refreshing
    crashes,
    script,    \* where install.sh is; "started" at once where compose starts both
    order      \* how this installation starts its processes

table == <<rows, legacy, token>>
migration == <<pc, cursor, batch, old>>
vars == <<table, migration, copy, calling, crashes, script, order>>

TypeOK ==
    /\ rows \subseteq Accounts
    /\ legacy \subseteq rows
    /\ token \in [Accounts -> 0 .. MaxRefreshes]
    /\ pc \in [Processes -> {"off", "migrating", "ready"}]
    /\ cursor \in [Processes -> Accounts \cup {0}]
    /\ batch \in [Processes -> SUBSET Accounts]
    /\ \A p \in Processes : pc[p] # "migrating" => batch[p] = {}
    /\ \A p \in Processes : old[p] \subseteq batch[p]
    /\ copy \in [Processes -> [Accounts -> 0 .. MaxRefreshes]]
    /\ calling \subseteq Accounts
    /\ crashes \in 0 .. MaxCrashes
    /\ script \in {"waiting", "started", "gaveUp", "rolledBack"}
    /\ order \in StartOrders

Blank == [a \in Accounts |-> 0]

(* A database an older version has left; both processes are down. *)
Init ==
    /\ rows \in SUBSET Accounts
    /\ legacy \in SUBSET rows
    /\ token = Blank
    /\ pc = [p \in Processes |-> "off"]
    /\ cursor = [p \in Processes |-> 0]
    /\ batch = [p \in Processes |-> {}]
    /\ old = [p \in Processes |-> {}]
    /\ copy = [p \in Processes |-> Blank]
    /\ calling = {}
    /\ crashes = 0
    /\ order \in StartOrders
    /\ script = IF order = "install" THEN "waiting" ELSE "started"

-----------------------------------------------------------------------------
StartsAtOnce(p) == TRUE                                  \* mutant

(* compose.yaml starts both as soon as the database is healthy.  install.sh   *)
(* starts the web process and leaves the worker off until /healthz answers;   *)
(* from then on systemd keeps both up.  After a rollback neither process of   *)
(* this release is started any more.                                         *)
MayStart(p) == IF p = "worker" THEN script = "started" ELSE script # "rolledBack"

Start(p) ==
    /\ pc[p] = "off"
    /\ MayStart(p)
    /\ pc' = [pc EXCEPT ![p] = "migrating"]
    /\ cursor' = [cursor EXCEPT ![p] = 0]
    /\ UNCHANGED <<table, batch, old, copy, calling, crashes, script, order>>

(* id > cursor ORDER BY id LIMIT batch_size *)
Ahead(p) == {a \in rows : a > cursor[p]}
NextBatch(p) == {a \in Ahead(p) : Cardinality({b \in Ahead(p) : b <= a}) <= BatchSize}

Select(p) ==
    /\ pc[p] = "migrating"
    /\ batch[p] = {}
    /\ Ahead(p) # {}
    /\ batch' = [batch EXCEPT ![p] = NextBatch(p)]
    /\ old' = [old EXCEPT ![p] = NextBatch(p) \cap legacy]
    /\ copy' = [copy EXCEPT ![p] = [a \in Accounts |-> IF a \in NextBatch(p) \cap legacy
                                                        THEN token[a] ELSE 0]]
    /\ UNCHANGED <<table, pc, cursor, calling, crashes, script, order>>

(* Mutant: only the account the cursor stops at is sealed again. *)
SealsLast(p) == {a \in old[p] : a = cursor'[p]}

Sealed(p) == old[p]

Forget(p) ==
    /\ batch' = [batch EXCEPT ![p] = {}]
    /\ old' = [old EXCEPT ![p] = {}]
    /\ copy' = [copy EXCEPT ![p] = Blank]

(* The UPDATEs of what was read in the old format, and the commit.  A row     *)
(* that is gone is skipped, or raises when its UPDATE is sent alone (Die).   *)
Rewrite(p) ==
    /\ pc[p] = "migrating"
    /\ batch[p] # {}
    /\ cursor' = [cursor EXCEPT ![p] = CHOOSE m \in batch[p] : \A a \in batch[p] : a <= m]
    /\ legacy' = legacy \ Sealed(p)
    /\ token' = [a \in Accounts |-> IF a \in Sealed(p) \cap rows THEN copy[p][a] ELSE token[a]]
    /\ Forget(p)
    /\ UNCHANGED <<rows, pc, calling, crashes, script, order>>

(* Mutant: the process is up before its last batch is committed. *)
NothingAhead(p) == Ahead(p) \ batch[p] = {}

NothingLeft(p) == batch[p] = {} /\ Ahead(p) = {}

Ready(p) ==
    /\ pc[p] = "migrating"
    /\ NothingLeft(p)
    /\ pc' = [pc EXCEPT ![p] = "ready"]
    /\ UNCHANGED <<table, cursor, batch, old, copy, calling, crashes, script, order>>

(* A process dies, or a row deleted under its migration makes it raise. *)
Die(p) ==
    /\ pc[p] # "off"
    /\ crashes < MaxCrashes
    /\ crashes' = crashes + 1
    /\ pc' = [pc EXCEPT ![p] = "off"]
    /\ Forget(p)
    /\ calling' = IF p = "worker" THEN {} ELSE calling
    /\ UNCHANGED <<table, cursor, script, order>>

-----------------------------------------------------------------------------
(* install.sh has reached /healthz, which answers once init_db is through,    *)
(* and starts the worker. *)
StartWorker ==
    /\ script = "waiting"
    /\ pc["web"] = "ready"
    /\ script' = "started"
    /\ UNCHANGED <<table, migration, copy, calling, crashes, order>>

(* All of its tries fell when the web process was not up, which may have come *)
(* up since: a first installation is left without a worker, and systemd still *)
(* restarts the web process.                                                 *)
GiveUp ==
    /\ script = "waiting"
    /\ script' = "gaveUp"
    /\ UNCHANGED <<table, migration, copy, calling, crashes, order>>

(* The same where there is a previous release: its two processes take the     *)
(* place of this one's, wherever the migration of the web process stood.      *)
RollBack ==
    /\ script = "waiting"
    /\ script' = "rolledBack"
    /\ pc' = [pc EXCEPT !["web"] = "off"]
    /\ Forget("web")
    /\ UNCHANGED <<table, cursor, calling, crashes, order>>

Installer == StartWorker \/ GiveUp \/ RollBack

-----------------------------------------------------------------------------
(* Web: DELETE /api/accounts. *)
DeleteAccount(a) ==
    /\ pc["web"] = "ready"
    /\ a \in rows
    /\ rows' = rows \ {a}
    /\ legacy' = legacy \ {a}
    /\ token' = [token EXCEPT ![a] = 0]
    /\ UNCHANGED <<migration, copy, calling, crashes, script, order>>

(* Worker: an account is read and sent to Microsoft, and the token that comes *)
(* back is sealed in the new format and committed.                           *)
CallMicrosoft(a) ==
    /\ pc["worker"] = "ready"
    /\ a \in rows \ calling
    /\ token[a] < MaxRefreshes
    /\ calling' = calling \cup {a}
    /\ UNCHANGED <<table, migration, copy, crashes, script, order>>

StoreToken(a) ==
    /\ a \in calling
    /\ calling' = calling \ {a}
    /\ IF a \in rows
       THEN /\ token' = [token EXCEPT ![a] = @ + 1]
            /\ legacy' = legacy \ {a}
       ELSE UNCHANGED <<token, legacy>>
    /\ UNCHANGED <<rows, migration, copy, crashes, script, order>>

-----------------------------------------------------------------------------
Progress(p) == Start(p) \/ Select(p) \/ Rewrite(p) \/ Ready(p)

(* What is to be up is up, and the users and the schedule ask for nothing. *)
Idle ==
    /\ script # "waiting"
    /\ \A p \in Processes : MayStart(p) => pc[p] = "ready"
    /\ UNCHANGED vars

Next ==
    \/ \E p \in Processes : Progress(p) \/ Die(p)
    \/ Installer
    \/ \E a \in Accounts : DeleteAccount(a) \/ CallMicrosoft(a) \/ StoreToken(a)
    \/ Idle

Spec == Init /\ [][Next]_vars

(* Service managers start what is down and may be up; a migration that runs    *)
(* goes on; install.sh, which makes 30 tries, comes to one end or another.    *)
FairSpec == Spec /\ WF_vars(Installer) /\ \A p \in Processes : WF_vars(Progress(p))

-----------------------------------------------------------------------------
(* Properties.                                                              *)

(* A process that has finished its migration never meets a row of the old    *)
(* format, whatever the other one is doing (init_db before anything else).   *)
ReadyMeansSealed == (\E p \in Processes : pc[p] = "ready") => legacy = {}

(* Unless install.sh goes back to the previous release, the whole table is    *)
(* sealed in the new format in the end and both processes come up: the web     *)
(* process even where the script has given up on it, the worker where it has   *)
(* not, and where it has, it stays off (the loop over /healthz and exit 1).   *)
MigrationEnds ==
    <>[] \/ script = "rolledBack"
         \/ /\ legacy = {}
            /\ pc["web"] = "ready"
            /\ pc["worker"] = IF script = "started" THEN "ready" ELSE "off"

(* A stored refresh token is replaced by a refresh and by nothing else, and   *)
(* never by one that a refresh has already replaced (docs/ARCHITECTURE.md,    *)
(* consistency).                                                             *)
TokenOnlyForward ==
    [][\A a \in rows \cap rows' : token'[a] >= token[a]]_vars

(* The same where install.sh starts the processes: its order is what keeps    *)
(* the migration of one away from the refreshes of the other, also when one   *)
(* of them dies and migrates again.                                          *)
InstallKeepsTokens ==
    [][order = "install" =>
          \A a \in rows \cap rows' : token'[a] >= token[a]]_vars
=============================================================================
