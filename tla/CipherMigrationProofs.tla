------------------------ MODULE CipherMigrationProofs ------------------------
(***************************************************************************)
(* The safety properties of CipherMigration, proved for every table, every *)
(* size of a batch and every number of crashes and refreshes.              *)
(*                                                                         *)
(* IInv is inductive.  Beside the types it says that a migration leaves no *)
(* account of the old format behind it (Swept), and what the order of      *)
(* install.sh is good for: before the script starts the worker nothing is   *)
(* refreshed, and once it does nothing is left to migrate (InOrder).       *)
(***************************************************************************)
EXTENDS CipherMigration, IdLemmas

(* The types that TypeOK leaves to the rest of the state.                     *)
Types ==
    /\ old \in [Processes -> SUBSET Accounts]
    /\ \A a \in calling : token[a] < MaxRefreshes

(* What is still in the old format is ahead of every migration, or was read   *)
(* in that format by its batch.                                              *)
Swept ==
    \A p \in Processes :
        /\ pc[p] # "off" =>
              \A a \in legacy : /\ a > cursor[p]
                                /\ \A b \in batch[p] : a <= b => a \in old[p]
        /\ pc[p] = "ready" => legacy = {}

(* No token of the old format has been through a refresh here. *)
NeverRefreshed ==
    /\ \A a \in legacy : token[a] = 0
    /\ copy = [p \in Processes |-> Blank]

InOrder ==
    /\ order = "install" /\ script = "started" =>
          legacy = {} /\ \A p \in Processes : old[p] = {}
    /\ order = "install" /\ script # "started" =>
          pc["worker"] = "off" /\ calling = {} /\ \A a \in Accounts : token[a] = 0

(* The inductive invariant. *)
IInv ==
    /\ TypeOK
    /\ Types
    /\ Swept
    /\ NeverRefreshed
    /\ InOrder

-----------------------------------------------------------------------------
(* The initial states satisfy the invariant. *)
LEMMA Initially == Init => IInv
<1> SUFFICES ASSUME Init PROVE IInv
  OBVIOUS
<1> USE CipherMigrationAssumption DEF Init
<1>1. TypeOK
  <2>1. Blank \in [Accounts -> 0 .. MaxRefreshes]
    BY DEF Blank
  <2>2. /\ copy \in [Processes -> [Accounts -> 0 .. MaxRefreshes]]
        /\ token \in [Accounts -> 0 .. MaxRefreshes]
    BY <2>1
  <2>3. /\ pc \in [Processes -> {"off", "migrating", "ready"}]
        /\ cursor \in [Processes -> Accounts \cup {0}]
        /\ batch \in [Processes -> SUBSET Accounts]
    OBVIOUS
  <2>4. \A p \in Processes : batch[p] = {} /\ old[p] = {}
    OBVIOUS
  <2>5. rows \subseteq Accounts /\ legacy \subseteq rows /\ calling \subseteq Accounts
    OBVIOUS
  <2>6. crashes \in 0 .. MaxCrashes
    OBVIOUS
  <2>7. /\ script \in {"waiting", "started", "gaveUp", "rolledBack"}
        /\ order \in StartOrders
    OBVIOUS
  <2> QED BY <2>2, <2>3, <2>4, <2>5, <2>6, <2>7 DEF TypeOK
<1>2. Types /\ Swept /\ NeverRefreshed /\ InOrder
  BY DEF Types, Swept, NeverRefreshed, InOrder, Blank, Processes
<1> QED BY <1>1, <1>2 DEF IInv

(* A process starts, is up, or dies. *)
LEMMA StartKeeps ==
    ASSUME IInv, NEW p \in Processes, Start(p)
    PROVE  IInv'
<1> USE CipherMigrationAssumption
<1>1. TypeOK' /\ Types'
  BY DEF IInv, TypeOK, Types, Start, table
<1>2. Swept'
  <2>1. batch[p] = {} /\ legacy \subseteq Accounts
    BY DEF IInv, TypeOK, Start
  <2>2. \A a \in legacy : a > 0
    <3> SUFFICES ASSUME NEW a \in legacy PROVE a > 0
      OBVIOUS
    <3>1. a \in 1 .. MaxId
      BY <2>1 DEF Accounts
    <3> QED BY <3>1
  <2> QED BY <2>1, <2>2 DEF IInv, TypeOK, Swept, Start, table
<1>3. InOrder'
  BY DEF IInv, TypeOK, InOrder, Start, MayStart, table, Processes
<1> QED BY <1>1, <1>2, <1>3 DEF IInv, NeverRefreshed, Start, table

LEMMA ReadyKeeps ==
    ASSUME IInv, NEW p \in Processes, Ready(p)
    PROVE  IInv'
<1> USE CipherMigrationAssumption
<1>1. legacy = {}
  <2>1. \A a \in legacy : a > cursor[p] /\ a \in rows
    BY DEF IInv, TypeOK, Swept, Ready
  <2> QED BY <2>1 DEF Ready, NothingLeft, Ahead
<1>2. TypeOK' /\ Types'
  BY DEF IInv, TypeOK, Types, Ready, NothingLeft, table
<1>3. Swept'
  BY <1>1 DEF IInv, TypeOK, Swept, Ready, table
<1>4. InOrder'
  BY <1>1 DEF IInv, TypeOK, InOrder, Ready, table, Processes
<1> QED BY <1>2, <1>3, <1>4 DEF IInv, NeverRefreshed, Ready, table

LEMMA DieKeeps ==
    ASSUME IInv, NEW p \in Processes, Die(p)
    PROVE  IInv'
<1> USE CipherMigrationAssumption
<1>1. TypeOK' /\ Types'
  BY DEF IInv, TypeOK, Types, Die, Forget, Blank, table
<1>2. Swept'
  BY DEF IInv, TypeOK, Types, Swept, Die, Forget, table
<1>3. NeverRefreshed'
  BY DEF IInv, TypeOK, NeverRefreshed, Die, Forget, table
<1>4. InOrder'
  BY DEF IInv, TypeOK, Types, InOrder, Die, Forget, table
<1> QED BY <1>1, <1>2, <1>3, <1>4 DEF IInv

(* install.sh starts the worker, gives up, or goes back. *)
LEMMA InstallerKeeps ==
    ASSUME IInv, Installer
    PROVE  IInv'
<1> USE CipherMigrationAssumption
<1>1. CASE StartWorker
  <2>1. legacy = {}
    BY <1>1 DEF IInv, Swept, StartWorker, Processes
  <2>2. order = "install" => \A p \in Processes : old[p] = {}
    BY <1>1 DEF IInv, TypeOK, InOrder, StartWorker, Processes
  <2>3. TypeOK' /\ InOrder'
    BY <1>1, <2>1, <2>2 DEF IInv, TypeOK, InOrder, StartWorker, table, migration
  <2> QED BY <1>1, <2>3 DEF IInv, Types, Swept, NeverRefreshed, StartWorker, table, migration
<1>2. CASE GiveUp
  BY <1>2 DEF IInv, TypeOK, Types, Swept, NeverRefreshed, InOrder, GiveUp, table, migration
<1>3. CASE RollBack
  <2>1. TypeOK' /\ Types'
    BY <1>3 DEF IInv, TypeOK, Types, RollBack, Forget, Blank, table, Processes
  <2>2. Swept'
    BY <1>3 DEF IInv, TypeOK, Types, Swept, RollBack, Forget, table, Processes
  <2>3. NeverRefreshed'
    BY <1>3 DEF IInv, TypeOK, NeverRefreshed, RollBack, Forget, table
  <2>4. InOrder'
    BY <1>3 DEF IInv, TypeOK, Types, InOrder, RollBack, Forget, table, Processes
  <2> QED BY <2>1, <2>2, <2>3, <2>4 DEF IInv
<1> QED BY <1>1, <1>2, <1>3 DEF Installer

(* A batch is read. *)
LEMMA SelectKeeps ==
    ASSUME IInv, NEW p \in Processes, Select(p)
    PROVE  IInv'
<1> USE CipherMigrationAssumption
<1>1. /\ pc[p] = "migrating"
      /\ batch' = [batch EXCEPT ![p] = NextBatch(p)]
      /\ old' = [old EXCEPT ![p] = NextBatch(p) \cap legacy]
      /\ copy' = [copy EXCEPT ![p] = [a \in Accounts |-> IF a \in NextBatch(p) \cap legacy
                                                          THEN token[a] ELSE 0]]
      /\ UNCHANGED <<rows, legacy, token, pc, cursor, calling, crashes, script, order>>
  BY DEF Select, table
<1>2. /\ NextBatch(p) \subseteq Ahead(p)
      /\ Ahead(p) \subseteq rows
      /\ rows \subseteq Accounts /\ legacy \subseteq rows
  BY DEF NextBatch, Ahead, IInv, TypeOK
<1>3. [a \in Accounts |-> IF a \in NextBatch(p) \cap legacy THEN token[a] ELSE 0] = Blank
  BY DEF IInv, NeverRefreshed, Blank
<1>4. copy' = copy
  BY <1>1, <1>3 DEF IInv, NeverRefreshed
<1>5. TypeOK' /\ Types'
  BY <1>1, <1>2, <1>4 DEF IInv, TypeOK, Types
<1>6. Swept'
  <2> SUFFICES ASSUME NEW a \in legacy, NEW b \in NextBatch(p), a <= b
               PROVE  a \in NextBatch(p)
    BY <1>1 DEF IInv, TypeOK, Types, Swept
  <2>1. a \in Ahead(p)
    BY <1>1, <1>2 DEF Ahead, IInv, Swept
  <2>2. Ahead(p) \subseteq 1 .. MaxId
    BY <1>2 DEF Accounts
  <2>3. NextBatch(p) = First(Ahead(p), BatchSize)
    BY DEF NextBatch, First
  <2>4. MaxId \in Nat /\ BatchSize \in Nat \ {0}
    OBVIOUS
  <2> QED BY <2>1, <2>2, <2>3, <2>4, FirstStretch
<1>7. InOrder'
  BY <1>1 DEF IInv, TypeOK, Types, InOrder
<1> QED BY <1>1, <1>4, <1>5, <1>6, <1>7 DEF IInv, NeverRefreshed

(* A batch is sealed again. *)
LEMMA RewriteKeeps ==
    ASSUME IInv, NEW p \in Processes, Rewrite(p)
    PROVE  IInv'
<1> USE CipherMigrationAssumption
<1> DEFINE last == CHOOSE m \in batch[p] : \A a \in batch[p] : a <= m
<1>1. /\ pc[p] = "migrating"
      /\ cursor' = [cursor EXCEPT ![p] = last]
      /\ legacy' = legacy \ old[p]
      /\ token' = [a \in Accounts |-> IF a \in old[p] \cap rows THEN copy[p][a] ELSE token[a]]
      /\ batch' = [batch EXCEPT ![p] = {}]
      /\ old' = [old EXCEPT ![p] = {}]
      /\ copy' = [copy EXCEPT ![p] = Blank]
      /\ UNCHANGED <<rows, pc, calling, crashes, script, order>>
  BY DEF Rewrite, Sealed, Forget
<1>2. last \in batch[p] /\ last \in Accounts
  <2>1. batch[p] # {} /\ batch[p] \subseteq Accounts
    BY DEF Rewrite, IInv, TypeOK
  <2>2. \E m \in batch[p] : \A a \in batch[p] : a <= m
    BY <2>1, GreatestElement DEF Accounts
  <2> QED BY <2>1, <2>2
<1> HIDE DEF last
<1>3. copy' = copy /\ \A a \in Accounts : copy[p][a] = 0
  BY <1>1 DEF IInv, NeverRefreshed, Blank
<1>4. \A a \in Accounts : token'[a] = IF a \in old[p] \cap rows THEN 0 ELSE token[a]
  BY <1>1, <1>3
<1>5. TypeOK'
  BY <1>1, <1>2, <1>3, <1>4 DEF IInv, TypeOK, Types
<1>6. Types'
  <2> SUFFICES ASSUME NEW a \in calling PROVE token'[a] < MaxRefreshes
    BY <1>1 DEF IInv, Types
  <2>1. a \in Accounts /\ token[a] \in Nat /\ token[a] < MaxRefreshes
    BY DEF IInv, TypeOK, Types
  <2> QED BY <1>4, <2>1
<1>7. Swept'
  <2>1. ASSUME NEW a \in legacy'
        PROVE  a > last
    <3>1. a \in legacy /\ a \notin old[p]
      BY <1>1, <2>1
    <3>2. ~ (a <= last)
      BY <1>1, <1>2, <3>1 DEF IInv, Swept
    <3>3. a \in Nat /\ last \in Nat
      BY <1>2, <3>1 DEF IInv, TypeOK, Accounts
    <3> QED BY <3>2, <3>3
  <2> QED BY <1>1, <2>1 DEF IInv, TypeOK, Types, Swept
<1>8. NeverRefreshed'
  BY <1>1, <1>3, <1>4 DEF IInv, TypeOK, NeverRefreshed
<1>9. InOrder'
  BY <1>1, <1>4 DEF IInv, TypeOK, Types, InOrder
<1> QED BY <1>5, <1>6, <1>7, <1>8, <1>9 DEF IInv

(* The web process and the worker at work. *)
LEMMA WorkKeeps ==
    ASSUME IInv, NEW a \in Accounts, DeleteAccount(a) \/ CallMicrosoft(a) \/ StoreToken(a)
    PROVE  IInv'
<1> USE CipherMigrationAssumption
<1>1. CASE DeleteAccount(a)
  <2>1. TypeOK'
    BY <1>1 DEF IInv, TypeOK, DeleteAccount, migration
  <2>2. Types'
    <3> SUFFICES ASSUME NEW b \in calling PROVE token'[b] < MaxRefreshes
      BY <1>1 DEF IInv, Types, DeleteAccount, migration
    <3>1. b \in Accounts /\ token[b] \in Nat /\ token[b] < MaxRefreshes
      BY DEF IInv, TypeOK, Types
    <3> QED BY <1>1, <3>1 DEF DeleteAccount, IInv, TypeOK
  <2>3. Swept' /\ NeverRefreshed' /\ InOrder'
    BY <1>1 DEF IInv, TypeOK, Swept, NeverRefreshed, InOrder, DeleteAccount, migration
  <2> QED BY <2>1, <2>2, <2>3 DEF IInv
<1>2. CASE CallMicrosoft(a)
  BY <1>2 DEF IInv, TypeOK, Types, Swept, NeverRefreshed, InOrder, CallMicrosoft, table, migration
<1>3. CASE StoreToken(a)
  <2>1. token[a] \in Nat /\ token[a] + 1 \in 0 .. MaxRefreshes
    BY <1>3 DEF IInv, TypeOK, Types, StoreToken
  <2>2. TypeOK'
    BY <1>3, <2>1 DEF IInv, TypeOK, StoreToken, migration
  <2>3. Types' /\ Swept' /\ NeverRefreshed' /\ InOrder'
    BY <1>3 DEF IInv, TypeOK, Types, Swept, NeverRefreshed, InOrder, StoreToken, migration
  <2> QED BY <2>2, <2>3 DEF IInv
<1> QED BY <1>1, <1>2, <1>3

-----------------------------------------------------------------------------
(* Every step preserves the invariant, so it holds throughout. *)
LEMMA Inductive == IInv /\ [Next]_vars => IInv'
<1> SUFFICES ASSUME IInv, [Next]_vars PROVE IInv'
  OBVIOUS
<1>1. CASE UNCHANGED vars
  BY <1>1 DEF IInv, TypeOK, Types, Swept, NeverRefreshed, InOrder, vars, table, migration
<1>2. CASE Next
  BY <1>1, <1>2, StartKeeps, SelectKeeps, RewriteKeeps, ReadyKeeps, DieKeeps, InstallerKeeps,
     WorkKeeps
     DEF Next, Progress, Idle
<1> QED BY <1>1, <1>2

LEMMA Invariance == Spec => []IInv
  BY Initially, Inductive, PTL DEF Spec

(* The variables have their types. *)
THEOREM TypeCorrect == Spec => []TypeOK
<1>1. IInv => TypeOK
  BY DEF IInv
<1> QED BY <1>1, Invariance, PTL

(* A process that has finished its migration meets no row of the old format,  *)
(* however the other one's migration, its restarts and the deletions fall    *)
(* (init_db, migrate_account_ciphertexts).                                   *)
THEOREM SealedBeforeUse == Spec => []ReadyMeansSealed
<1>1. IInv => ReadyMeansSealed
  BY DEF IInv, Swept, ReadyMeansSealed
<1> QED BY <1>1, Invariance, PTL

(* In the order of install.sh no migration undoes a refresh. *)
THEOREM InstallOrderSuffices == Spec => InstallKeepsTokens
<1> DEFINE Kept == order = "install" => \A a \in rows \cap rows' : token'[a] >= token[a]
<1>1. IInv /\ [Next]_vars => Kept
  <2> SUFFICES ASSUME IInv, [Next]_vars, order = "install", NEW a \in rows \cap rows'
               PROVE  token'[a] >= token[a]
    OBVIOUS
  <2>1. a \in Accounts /\ token[a] \in Nat
    BY DEF IInv, TypeOK
  <2>2. ASSUME NEW p \in Processes, Rewrite(p)
        PROVE  token'[a] >= token[a]
    <3>1. token' = [b \in Accounts |-> IF b \in old[p] \cap rows THEN copy[p][b] ELSE token[b]]
      BY <2>2 DEF Rewrite, Sealed
    <3>2. copy[p][a] = 0
      BY <2>1 DEF IInv, NeverRefreshed, Blank
    <3>3. a \in old[p] => token[a] = 0
      BY <2>1 DEF IInv, InOrder, TypeOK
    <3> QED BY <2>1, <3>1, <3>2, <3>3
  <2>3. ASSUME NEW p \in Processes, Start(p) \/ Select(p) \/ Ready(p) \/ Die(p)
        PROVE  token'[a] >= token[a]
    BY <2>1, <2>3 DEF Start, Select, Ready, Die, table
  <2>4. ASSUME NEW b \in Accounts, DeleteAccount(b) \/ CallMicrosoft(b) \/ StoreToken(b)
        PROVE  token'[a] >= token[a]
    BY <2>1, <2>4 DEF DeleteAccount, CallMicrosoft, StoreToken, table, IInv, TypeOK
  <2>5. CASE Installer
    BY <2>1, <2>5 DEF Installer, StartWorker, GiveUp, RollBack, table
  <2>6. CASE UNCHANGED vars
    BY <2>1, <2>6 DEF vars, table
  <2> QED BY <2>2, <2>3, <2>4, <2>5, <2>6 DEF Next, Progress, Idle
<1> QED BY <1>1, Invariance, PTL DEF Spec, InstallKeepsTokens
=============================================================================
