---------------------------- MODULE SchedulerProofs ----------------------------
(***************************************************************************)
(* The safety properties of Scheduler, proved for days of any number of    *)
(* slots, any zones less than a day from UTC, and any number of changes    *)
(* and crashes.                                                            *)
(*                                                                         *)
(* IInv is inductive.  Beside the types it says what a tick has read       *)
(* (InTick), that the marker is not behind the last scheduled job and, as  *)
(* long as the zone is that of this job, not ahead of the clock (InZone),  *)
(* and that a job is inserted only when none was active (Alone).           *)
(***************************************************************************)
EXTENDS Scheduler, TLAPS

(* The date in a zone. *)
DateIn(z) == (hour + z) \div Slots

Ticking == wpc \in {"read", "decided"}

(* The date a tick has read has not come to an end unnoticed, is not ahead of *)
(* the clock, and is not marked when it decides; a job of the same zone is   *)
(* not after it.                                                             *)
InTick ==
    Ticking =>
        /\ today > Earlier
        /\ today <= DateIn(read)
        /\ read # zone => ran = Earlier
        /\ ran # Earlier => marker <= today
        /\ wpc = "decided" => marker # today

InZone == ran # Earlier => ran <= marker /\ marker <= LocalDate

Alone ==
    /\ active <= 1
    /\ insert => wpc = "decided" /\ active = 0
    /\ wpc = "batch" => active = 1

(* The inductive invariant. *)
IInv ==
    /\ TypeOK
    /\ InTick
    /\ InZone
    /\ Alone

-----------------------------------------------------------------------------
(* The local date is a day before, the same as, or a day after the UTC date. *)
LEMMA DateOfSlot ==
    ASSUME NEW n \in Nat \ {0}, NEW x \in Int, -n <= x, x < 2 * n
    PROVE  x \div n = IF x < 0 THEN -1 ELSE IF x < n THEN 0 ELSE 1
<1>1. CASE x < 0
  <2>1. x \div n = -1
    BY <1>1, SMT
  <2> QED BY <1>1, <2>1
<1>2. CASE 0 <= x /\ x < n
  <2>1. x \div n = 0
    BY <1>2, SMT
  <2> QED BY <1>2, <2>1
<1>3. CASE n <= x
  <2>1. x \div n = 1
    BY <1>3, SMT
  <2> QED BY <1>3, <2>1
<1> QED BY <1>1, <1>2, <1>3

(* The clock: a slot is followed by the next one or by the first of a day. *)
LEMMA NextSlot ==
    ASSUME NEW n \in Nat \ {0}, NEW h \in 0 .. n - 1
    PROVE  (h + 1) % n = IF h = n - 1 THEN 0 ELSE h + 1
<1>1. CASE h = n - 1
  <2>1. n % n = 0
    BY SMT
  <2> QED BY <1>1, <2>1
<1>2. CASE h # n - 1
  <2>1. h + 1 \in Nat /\ h + 1 < n
    BY <1>2
  <2>2. \A x \in Nat : x < n => x % n = x
    BY SMT
  <2> QED BY <1>2, <2>1, <2>2
<1> QED BY <1>1, <1>2

(* A local date is a day from the UTC date at most.  From a slot to the next   *)
(* it stays or is followed by the next one; when the UTC date changes, that  *)
(* takes a day off each date that stays.                                     *)
LEMMA DatesMove ==
    ASSUME NEW h \in 0 .. Slots - 1, NEW z \in Zones
    PROVE  /\ (h + z) \div Slots \in {-1, 0, 1}
           /\ h # Slots - 1 => (h + 1 + z) \div Slots >= (h + z) \div Slots
           /\ h = Slots - 1 => (0 + z) \div Slots >= (h + z) \div Slots - 1
<1>1. /\ Slots \in Nat \ {0} /\ z \in Int /\ -Slots < z /\ z < Slots
      /\ h \in Int /\ 0 <= h /\ h < Slots
  BY SchedulerAssumption
<1> DEFINE D(x) == IF x < 0 THEN -1 ELSE IF x < Slots THEN 0 ELSE 1
<1>2. (h + z) \div Slots = D(h + z)
  <2>1. h + z \in Int /\ -Slots <= h + z /\ h + z < 2 * Slots
    BY <1>1
  <2> QED BY <1>1, <2>1, DateOfSlot
<1>3. h # Slots - 1 => (h + 1 + z) \div Slots = D(h + 1 + z)
  <2> SUFFICES ASSUME h # Slots - 1 PROVE (h + 1 + z) \div Slots = D(h + 1 + z)
    OBVIOUS
  <2>1. h + 1 + z \in Int /\ -Slots <= h + 1 + z /\ h + 1 + z < 2 * Slots
    BY <1>1
  <2> QED BY <1>1, <2>1, DateOfSlot
<1>4. (0 + z) \div Slots = D(0 + z)
  <2>1. 0 + z \in Int /\ -Slots <= 0 + z /\ 0 + z < 2 * Slots
    BY <1>1
  <2> QED BY <1>1, <2>1, DateOfSlot
<1> QED BY <1>1, <1>2, <1>3, <1>4

-----------------------------------------------------------------------------
(* The initial states satisfy the invariant. *)
LEMMA Initially == Init => IInv
<1> USE SchedulerAssumption
<1>1. Init => TypeOK
  <2> SUFFICES ASSUME Init PROVE TypeOK
    OBVIOUS
  <2>1. /\ hour \in 0 .. Slots - 1 /\ zone \in Zones /\ read \in Zones
        /\ time \in 0 .. Slots - 1
        /\ marker \in Dates /\ today \in Dates /\ ran \in Dates
        /\ active \in Nat
        /\ changes \in 0 .. MaxChanges /\ crashes \in 0 .. MaxCrashes
    BY DEF Init, Dates, Earlier
  <2>2. due \in BOOLEAN /\ manual \in BOOLEAN /\ insert \in BOOLEAN /\ wpc = "loop"
    BY Zenon DEF Init
  <2> QED BY <2>1, <2>2 DEF TypeOK
<1> QED BY <1>1 DEF Init, IInv, InTick, Ticking, InZone, Alone

(* A slot passes. *)
LEMMA PassTimeKeeps == IInv /\ PassTime => IInv'
<1> SUFFICES ASSUME IInv, PassTime PROVE IInv'
  OBVIOUS
<1> USE SchedulerAssumption
<1>1. /\ Slots \in Nat \ {0} /\ hour \in 0 .. Slots - 1
      /\ zone \in Int /\ -Slots < zone /\ zone < Slots
  BY DEF IInv, TypeOK
<1>2. hour' = IF hour = Slots - 1 THEN 0 ELSE hour + 1
  BY <1>1, NextSlot DEF PassTime
<1>3. UNCHANGED <<zone, time, due, active, manual, wpc, read, insert, changes, crashes>>
  BY DEF PassTime, policy, jobs, bounds
<1>4. /\ marker \in -3 .. 1 /\ today \in -3 .. 1 /\ ran \in -3 .. 1
  BY DEF IInv, TypeOK, Dates, Earlier
<1>5. ASSUME NEW z \in Zones
      PROVE  /\ (hour + z) \div Slots \in {-1, 0, 1}
             /\ (hour' + z) \div Slots \in {-1, 0, 1}
             /\ hour # Slots - 1 => (hour' + z) \div Slots >= (hour + z) \div Slots
             /\ hour = Slots - 1 => (hour' + z) \div Slots >= (hour + z) \div Slots - 1
  <2>1. hour' \in 0 .. Slots - 1
    BY <1>1, <1>2
  <2>2. (hour + z) \div Slots \in {-1, 0, 1} /\ (hour' + z) \div Slots \in {-1, 0, 1}
    BY <1>1, <2>1, DatesMove
  <2>3. CASE hour # Slots - 1
    <3>1. (hour' + z) \div Slots = (hour + 1 + z) \div Slots
      BY <1>2, <2>3
    <3>2. (hour + 1 + z) \div Slots >= (hour + z) \div Slots
      BY <1>1, <2>3, DatesMove
    <3> QED BY <2>2, <2>3, <3>1, <3>2
  <2>4. CASE hour = Slots - 1
    <3>1. (hour' + z) \div Slots = (0 + z) \div Slots
      BY <1>2, <2>4
    <3>2. (0 + z) \div Slots >= (hour + z) \div Slots - 1
      BY <1>1, <2>4, DatesMove
    <3> QED BY <2>2, <2>4, <3>1, <3>2
  <2> QED BY <2>2, <2>3, <2>4
<1> DEFINE now == LocalDate
           then == LocalDate'
           tickNow == DateIn(read)
           tickThen == DateIn(read)'
<1>6. /\ now \in {-1, 0, 1} /\ then \in {-1, 0, 1}
      /\ tickNow \in {-1, 0, 1} /\ tickThen \in {-1, 0, 1}
      /\ hour # Slots - 1 => then >= now /\ tickThen >= tickNow
      /\ hour = Slots - 1 => then >= now - 1 /\ tickThen >= tickNow - 1
  <2>1. zone \in Zones /\ read \in Zones
    BY DEF IInv, TypeOK
  <2>2. /\ now = (hour + zone) \div Slots /\ then = (hour' + zone) \div Slots
        /\ tickNow = (hour + read) \div Slots /\ tickThen = (hour' + read) \div Slots
    BY <1>3 DEF LocalDate, DateIn
  <2> HIDE DEF now, then, tickNow, tickThen
  <2> QED BY <1>5, <2>1, <2>2
<1>7. /\ InTick <=> (Ticking =>
            /\ today > Earlier
            /\ today <= tickNow
            /\ read # zone => ran = Earlier
            /\ ran # Earlier => marker <= today
            /\ wpc = "decided" => marker # today)
      /\ InTick' <=> (Ticking =>
            /\ today' > Earlier
            /\ today' <= tickThen
            /\ read # zone => ran' = Earlier
            /\ ran' # Earlier => marker' <= today'
            /\ wpc = "decided" => marker' # today')
      /\ InZone <=> (ran # Earlier => ran <= marker /\ marker <= now)
      /\ InZone' <=> (ran' # Earlier => ran' <= marker' /\ marker' <= then)
  BY <1>3 DEF InTick, InZone, Ticking
<1> HIDE DEF now, then, tickNow, tickThen
<1>8. CASE hour = Slots - 1
  <2>1. /\ hour' = 0
        /\ marker' = DayAfter(marker) /\ today' = DayAfter(today) /\ ran' = DayAfter(ran)
    BY <1>2, <1>8 DEF PassTime
  <2>2. TypeOK'
    BY <1>1, <1>3, <1>4, <2>1 DEF IInv, TypeOK, Dates, Earlier, DayAfter
  <2>3. Ticking => today > -2
    BY <1>8 DEF PassTime, Ticking, Earlier
  <2>4. InTick'
    BY <1>4, <1>6, <1>7, <1>8, <2>1, <2>3 DEF IInv, DayAfter, Earlier
  <2>5. InZone'
    BY <1>4, <1>6, <1>7, <1>8, <2>1 DEF IInv, DayAfter, Earlier
  <2> QED BY <1>3, <2>2, <2>4, <2>5 DEF IInv, Alone
<1>9. CASE hour # Slots - 1
  <2>1. /\ hour' = hour + 1 /\ hour' # 0
        /\ UNCHANGED <<marker, today, ran>>
    BY <1>1, <1>2, <1>9 DEF PassTime
  <2>2. TypeOK'
    BY <1>1, <1>3, <1>9, <2>1 DEF IInv, TypeOK
  <2>3. InTick' /\ InZone'
    BY <1>4, <1>6, <1>7, <1>9, <2>1 DEF IInv
  <2> QED BY <1>3, <2>2, <2>3 DEF IInv, Alone
<1> QED BY <1>8, <1>9

(* The policy changes, accounts become due, users queue jobs. *)
LEMMA WorldKeeps == IInv /\ (BecomeDue \/ ChangePolicy \/ QueueManual \/ EndManual) => IInv'
<1> SUFFICES ASSUME IInv, BecomeDue \/ ChangePolicy \/ QueueManual \/ EndManual PROVE IInv'
  OBVIOUS
<1> USE SchedulerAssumption
<1>1. CASE BecomeDue \/ QueueManual \/ EndManual
  <2>1. UNCHANGED <<hour, zone, time, marker, active, wpc, today, read, insert, changes,
                    crashes, ran>>
    BY <1>1 DEF BecomeDue, QueueManual, EndManual, policy, jobs, tick, bounds
  <2>2. TypeOK'
    BY <1>1, <2>1 DEF IInv, TypeOK, BecomeDue, QueueManual, EndManual, jobs
  <2> QED BY <2>1, <2>2 DEF IInv, InTick, Ticking, InZone, Alone, LocalDate, DateIn
<1>2. CASE ChangePolicy
  <2>1. /\ UNCHANGED <<hour, marker, due, active, manual, wpc, today, read, insert, crashes>>
        /\ zone' \in Zones /\ time' \in 0 .. Slots - 1
        /\ ran' = IF zone' = zone THEN ran ELSE Earlier
        /\ changes' = changes + 1 /\ changes < MaxChanges
    BY <1>2 DEF ChangePolicy, jobs, tick
  <2>2. TypeOK'
    BY <2>1 DEF IInv, TypeOK, Dates, Earlier
  <2>3. CASE zone' = zone
    BY <2>1, <2>2, <2>3 DEF IInv, InTick, Ticking, InZone, Alone, LocalDate, DateIn
  <2>4. CASE zone' # zone
    <3>1. ran' = Earlier
      BY <2>1, <2>4
    <3>2. InZone' /\ Alone'
      BY <2>1, <3>1 DEF IInv, InZone, Alone
    <3>3. InTick'
      BY <2>1, <3>1 DEF IInv, InTick, Ticking, DateIn
    <3> QED BY <2>2, <3>2, <3>3 DEF IInv
  <2> QED BY <2>3, <2>4
<1> QED BY <1>1, <1>2

(* A tick. *)
LEMMA TickKeeps ==
    IInv /\ (TickRead \/ TickReturn \/ TickDecide \/ TickCommit \/ TickFails) => IInv'
<1> SUFFICES ASSUME IInv, TickRead \/ TickReturn \/ TickDecide \/ TickCommit \/ TickFails
             PROVE  IInv'
  OBVIOUS
<1> USE SchedulerAssumption
<1>1. /\ UNCHANGED <<hour, zone, time, due, manual, changes, crashes>>
      /\ LocalDate' = LocalDate
  BY DEF TickRead, TickReturn, TickDecide, TickCommit, TickFails, policy, jobs, bounds, tick,
         LocalDate
<1>2. LocalDate \in {-1, 0, 1}
  BY DatesMove DEF IInv, TypeOK, LocalDate
<1>3. CASE TickRead
  <2>1. /\ today' = LocalDate /\ read' = zone /\ wpc' = "read"
        /\ UNCHANGED <<marker, active, insert, ran>>
    BY <1>3 DEF TickRead, jobs
  <2>2. TypeOK'
    BY <1>1, <1>2, <2>1 DEF IInv, TypeOK, Dates, Earlier
  <2>3. ~insert
    BY <1>3 DEF TickRead, IInv, Alone
  <2>4. InTick'
    <3>1. DateIn(read)' = LocalDate
      BY <1>1, <2>1 DEF DateIn, LocalDate
    <3> QED BY <1>1, <1>2, <2>1, <3>1 DEF IInv, InTick, InZone, Ticking, Earlier
  <2> QED BY <1>1, <2>1, <2>2, <2>3, <2>4 DEF IInv, InZone, Alone
<1>4. CASE TickReturn
  BY <1>1, <1>4 DEF TickReturn, IInv, TypeOK, InTick, Ticking, InZone, Alone, jobs, tick
<1>5. CASE TickDecide
  <2>1. /\ wpc = "read" /\ wpc' = "decided" /\ marker # today
        /\ insert' = (due /\ ~Existing)
        /\ UNCHANGED <<marker, active, today, read, ran>>
    BY <1>5 DEF TickDecide, jobs
  <2>2. insert' \in BOOLEAN /\ (insert' => active = 0)
    BY <2>1 DEF Existing, IInv, TypeOK, Alone
  <2> QED BY <1>1, <2>1, <2>2 DEF IInv, TypeOK, InTick, Ticking, InZone, Alone, DateIn
<1>6. CASE TickCommit
  <2>1. /\ wpc = "decided" /\ wpc' = "loop"
        /\ marker' = today
        /\ active' = IF insert THEN active + 1 ELSE active
        /\ ran' = IF ~insert THEN ran ELSE IF read = zone THEN today ELSE Earlier
        /\ insert' = FALSE
        /\ UNCHANGED <<today, read>>
    BY <1>6 DEF TickCommit, Marked
  <2>2. TypeOK'
    <3>1. active' \in Nat /\ marker' \in Dates /\ ran' \in Dates
      BY <2>1 DEF IInv, TypeOK, Dates, Earlier
    <3>2. insert' \in BOOLEAN
      BY <2>1, Zenon
    <3> QED BY <1>1, <2>1, <3>1, <3>2 DEF IInv, TypeOK
  <2>3. Alone'
    BY <2>1 DEF IInv, TypeOK, Alone
  <2>4. InZone'
    <3>1. /\ marker \in -3 .. 1 /\ today \in -3 .. 1 /\ ran \in -3 .. 1
      BY DEF IInv, TypeOK, Dates, Earlier
    <3>2. ran # Earlier => ran <= marker /\ marker <= today /\ read = zone
      BY <2>1 DEF IInv, InZone, InTick, Ticking
    <3>3. read = zone => today <= LocalDate
      BY <2>1 DEF IInv, InTick, Ticking, DateIn, LocalDate
    <3>4. ran' # Earlier => ran' <= marker' /\ marker' <= LocalDate
      BY <2>1, <3>1, <3>2, <3>3
    <3> QED BY <1>1, <3>4 DEF InZone
  <2> QED BY <2>1, <2>2, <2>3, <2>4 DEF IInv, InTick, Ticking
<1>7. CASE TickFails
  BY <1>1, <1>7 DEF TickFails, IInv, TypeOK, InTick, Ticking, InZone, Alone, jobs
<1> QED BY <1>3, <1>4, <1>5, <1>6, <1>7

(* The rest of the worker's loop, and its end. *)
LEMMA LoopKeeps == IInv /\ (StartBatch \/ EndBatch \/ Crash \/ Recover) => IInv'
<1> SUFFICES ASSUME IInv, StartBatch \/ EndBatch \/ Crash \/ Recover PROVE IInv'
  OBVIOUS
<1> USE SchedulerAssumption
<1>1. /\ UNCHANGED <<hour, zone, time, marker, today, read, manual, changes, ran>>
      /\ LocalDate' = LocalDate
      /\ ~Ticking'
  BY DEF StartBatch, EndBatch, Crash, Recover, policy, jobs, bounds, tick, LocalDate, Ticking
<1>2. InTick' /\ InZone'
  BY <1>1 DEF IInv, InTick, InZone
<1>3. CASE StartBatch
  BY <1>1, <1>2, <1>3 DEF StartBatch, IInv, TypeOK, Alone, jobs, tick, bounds
<1>4. CASE EndBatch
  <2>1. /\ wpc = "batch" /\ wpc' = "loop"
        /\ active' \in {active, active - 1}
        /\ due' \in {due, FALSE}
        /\ UNCHANGED <<insert, crashes>>
    BY <1>4 DEF EndBatch, tick, bounds
  <2>2. active = 1 /\ ~insert
    BY <2>1 DEF IInv, Alone
  <2>3. due' \in BOOLEAN
    BY <2>1, Zenon DEF IInv, TypeOK
  <2> QED BY <1>1, <1>2, <2>1, <2>2, <2>3 DEF IInv, TypeOK, Alone
<1>5. CASE Crash
  <2>1. /\ wpc' = "down" /\ ~insert' /\ crashes < MaxCrashes /\ crashes' = crashes + 1
        /\ UNCHANGED <<active, due>>
    BY <1>5 DEF Crash, jobs
  <2>2. insert' \in BOOLEAN
    BY <1>5, Zenon DEF Crash
  <2> QED BY <1>1, <1>2, <2>1, <2>2 DEF IInv, TypeOK, Alone
<1>6. CASE Recover
  BY <1>1, <1>2, <1>6 DEF Recover, IInv, TypeOK, Alone, jobs, tick, bounds
<1> QED BY <1>3, <1>4, <1>5, <1>6

-----------------------------------------------------------------------------
(* Every step preserves the invariant, so it holds throughout. *)
LEMMA Inductive == IInv /\ [Next]_vars => IInv'
<1> SUFFICES ASSUME IInv, [Next]_vars PROVE IInv'
  OBVIOUS
<1>1. CASE UNCHANGED vars
  BY <1>1 DEF IInv, TypeOK, InTick, Ticking, InZone, Alone, LocalDate, DateIn, vars, policy, jobs, tick,
     bounds
<1>2. CASE Next
  BY <1>2, PassTimeKeeps, WorldKeeps, TickKeeps, LoopKeeps DEF Next
<1> QED BY <1>1, <1>2

LEMMA Invariance == Spec => []IInv
  BY Initially, Inductive, PTL DEF Spec

(* The variables have their types: a local date is at most a day away from   *)
(* the UTC date.                                                             *)
THEOREM TypeCorrect == Spec => []TypeOK
<1>1. IInv => TypeOK
  BY DEF IInv
<1> QED BY <1>1, Invariance, PTL

(* Scheduled jobs do not pile up: at most one is active (scheduler_tick).    *)
THEOREM NeverTwo == Spec => []OneScheduled
<1>1. IInv => OneScheduled
  BY DEF IInv, Alone, OneScheduled
<1> QED BY <1>1, Invariance, PTL

(* At most one job is scheduled for a local date, as long as the zone stays   *)
(* the same (scheduler_tick, last_scheduler_run).                            *)
THEOREM OnceADay == Spec => OncePerDate
<1> DEFINE Once == active' > active => today # ran
<1>1. IInv /\ [Next]_vars => Once
  <2> SUFFICES ASSUME IInv, [Next]_vars, active' > active PROVE today # ran
    OBVIOUS
  <2>1. TickCommit
    <3>1. active \in Nat
      BY DEF IInv, TypeOK
    <3>2. active' # active /\ active' # active - 1
      BY <3>1
    <3>3. ~(PassTime \/ BecomeDue \/ ChangePolicy \/ QueueManual \/ EndManual)
      BY <3>2 DEF PassTime, BecomeDue, ChangePolicy, QueueManual, EndManual, jobs
    <3>4. ~(TickRead \/ TickReturn \/ TickDecide \/ TickFails)
      BY <3>2 DEF TickRead, TickReturn, TickDecide, TickFails, jobs
    <3>5. ~(StartBatch \/ EndBatch \/ Crash \/ Recover \/ UNCHANGED vars)
      BY <3>2 DEF StartBatch, EndBatch, Crash, Recover, jobs, vars
    <3> QED BY <3>3, <3>4, <3>5 DEF Next
  <2>2. /\ marker # today /\ today > Earlier
        /\ ran # Earlier => ran <= marker /\ marker <= today
    BY <2>1 DEF TickCommit, IInv, InTick, InZone, Ticking
  <2>3. marker \in Int /\ today \in Int /\ ran \in Int
    BY DEF IInv, TypeOK, Dates, Earlier
  <2> QED BY <2>2, <2>3 DEF Earlier
<1> QED BY <1>1, Invariance, PTL DEF Spec, OncePerDate
=============================================================================
