------------------------------ MODULE Scheduler ------------------------------
(***************************************************************************)
(* The daily refresh: scheduler_tick of the worker against the clock, the  *)
(* refresh policy that the web process rewrites, the marker row of the     *)
(* last run, the jobs for due accounts that are still active, and accounts *)
(* becoming due.  What the job then does is modelled in AccountJob, how it *)
(* gets the worker in JobQueue.                                            *)
(*                                                                         *)
(* A day has a few slots.  A date is a number of days from the current UTC *)
(* date, so that days have no end; dates further back are all Earlier.  A  *)
(* zone is its offset from UTC, which a change of daylight saving time     *)
(* changes as well as a new policy does.                                   *)
(***************************************************************************)
EXTENDS Integers

CONSTANTS
    Slots,      \* slots of a day
    Zones,      \* offsets from UTC, in slots
    MaxChanges, \* bound: changes of the policy
    MaxCrashes  \* bound: times the worker dies

ASSUME SchedulerAssumption ==
    /\ Slots \in Nat \ {0}
    /\ Zones # {} /\ Zones \subseteq (1 - Slots) .. (Slots - 1)
    /\ MaxChanges \in Nat
    /\ MaxCrashes \in Nat

VARIABLES
    hour,    \* UTC slot of the day
    zone,    \* refresh_policy: timezone
    time,    \* refresh_policy: schedule_time
    marker,  \* last_scheduler_run: date
    due,     \* some account is due
    active,  \* scheduled jobs that are queued or running
    manual,  \* a refresh of the due accounts that a user queued is active
    wpc,     \* the worker: "loop", "read", "decided", "batch", "down"
    today,   \* the local date it has read
    read,    \* the zone it has read it in
    insert,  \* whether it is about to insert a job
    changes, crashes,
    ran      \* history: date of the last scheduled job, if the zone is the same

policy == <<zone, time>>
jobs == <<active, manual>>
bounds == <<changes, crashes>>
tick == <<today, read, insert>>
vars == <<hour, policy, marker, due, jobs, wpc, tick, bounds, ran>>

Earlier == -3
Dates == Earlier .. 1

TypeOK ==
    /\ hour \in 0 .. Slots - 1
    /\ zone \in Zones /\ read \in Zones
    /\ time \in 0 .. Slots - 1
    /\ marker \in Dates /\ today \in Dates /\ ran \in Dates
    /\ due \in BOOLEAN /\ manual \in BOOLEAN /\ insert \in BOOLEAN
    /\ active \in Nat
    /\ wpc \in {"loop", "read", "decided", "batch", "down"}
    /\ changes \in 0 .. MaxChanges
    /\ crashes \in 0 .. MaxCrashes

Init ==
    /\ hour \in 0 .. Slots - 1
    /\ zone \in Zones
    /\ time \in 0 .. Slots - 1
    /\ marker = Earlier /\ today = Earlier /\ ran = Earlier
    /\ due \in BOOLEAN
    /\ active = 0 /\ manual = FALSE
    /\ wpc = "loop"
    /\ insert = FALSE /\ read = zone
    /\ changes = 0 /\ crashes = 0

(* datetime.now(zone) *)
LocalDate == (hour + zone) \div Slots
LocalTime == (hour + zone) % Slots

-----------------------------------------------------------------------------
(* The world around the worker.                                             *)

DayAfter(date) == IF date = Earlier THEN Earlier ELSE date - 1

(* A tick takes less than a day: the date it has read stays a date. *)
PassTime ==
    /\ wpc \in {"read", "decided"} /\ hour = Slots - 1 => today > Earlier + 1
    /\ hour' = (hour + 1) % Slots
    /\ IF hour' = 0
       THEN /\ marker' = DayAfter(marker)
            /\ today' = DayAfter(today)
            /\ ran' = DayAfter(ran)
       ELSE UNCHANGED <<marker, today, ran>>
    /\ UNCHANGED <<policy, due, jobs, wpc, read, insert, bounds>>

BecomeDue ==
    /\ ~due
    /\ due' = TRUE
    /\ UNCHANGED <<hour, policy, marker, jobs, wpc, tick, bounds, ran>>

(* PUT /api/settings, or a change of daylight saving time. *)
ChangePolicy ==
    /\ changes < MaxChanges
    /\ changes' = changes + 1
    /\ zone' \in Zones
    /\ time' \in 0 .. Slots - 1
    /\ <<zone, time>>' # <<zone, time>>
    /\ ran' = IF zone' = zone THEN ran ELSE Earlier
    /\ UNCHANGED <<hour, marker, due, jobs, wpc, tick, crashes>>

(* A user queues a refresh of the due accounts, and it ends. *)
QueueManual ==
    /\ due
    /\ ~manual
    /\ manual' = TRUE
    /\ UNCHANGED <<hour, policy, marker, due, active, wpc, tick, bounds, ran>>

EndManual ==
    /\ manual
    /\ manual' = FALSE
    /\ due' \in {due, FALSE}
    /\ UNCHANGED <<hour, policy, marker, active, wpc, tick, bounds, ran>>

-----------------------------------------------------------------------------
(* The worker.  scheduler_tick is one transaction; other transactions may    *)
(* commit between its statements.                                            *)

AfterTheMinute == LocalTime > time                                 \* mutant

Reached == LocalTime >= time

(* The policy is read, and the clock.  Before the time of the day, the tick  *)
(* returns and nothing has changed.                                          *)
TickRead ==
    /\ wpc = "loop"
    /\ Reached
    /\ today' = LocalDate
    /\ read' = zone
    /\ wpc' = "read"
    /\ UNCHANGED <<hour, policy, marker, due, jobs, insert, bounds, ran>>

(* The marker row is locked: it has run today. *)
TickReturn ==
    /\ wpc = "read"
    /\ marker = today
    /\ wpc' = "loop"
    /\ UNCHANGED <<hour, policy, marker, due, jobs, tick, bounds, ran>>

ManualOnly == manual                                               \* mutant

(* A refresh of the due accounts is queued or running. *)
Existing == active > 0 \/ manual

TickDecide ==
    /\ wpc = "read"
    /\ marker # today
    /\ insert' = (due /\ ~Existing)
    /\ wpc' = "decided"
    /\ UNCHANGED <<hour, policy, marker, due, jobs, today, read, bounds, ran>>

MarksUTC == 0                                                      \* mutant
MarksNext == today + 1                                             \* mutant

Marked == today

(* The marker is written whether or not there was a job to insert. *)
TickCommit ==
    /\ wpc = "decided"
    /\ marker' = Marked
    /\ active' = IF insert THEN active + 1 ELSE active
    /\ ran' = IF ~insert THEN ran ELSE IF read = zone THEN today ELSE Earlier
    /\ insert' = FALSE
    /\ wpc' = "loop"
    /\ UNCHANGED <<hour, policy, due, manual, today, read, bounds>>

(* The transaction is rolled back and the loop goes on.  (A tick that fails  *)
(* before this is like no tick.)                                             *)
TickFails ==
    /\ wpc = "decided"
    /\ insert' = FALSE
    /\ wpc' = "loop"
    /\ UNCHANGED <<hour, policy, marker, due, jobs, today, read, bounds, ran>>

(* The worker is in a batch of the scheduled job. *)
StartBatch ==
    /\ wpc = "loop"
    /\ active > 0
    /\ wpc' = "batch"
    /\ UNCHANGED <<hour, policy, marker, due, jobs, tick, bounds, ran>>

(* The job is queued again, or it has ended; accounts may still be due.      *)
EndBatch ==
    /\ wpc = "batch"
    /\ wpc' = "loop"
    /\ \/ UNCHANGED <<active, due>>
       \/ active' = active - 1 /\ due' \in {due, FALSE}
    /\ UNCHANGED <<hour, policy, marker, manual, tick, bounds, ran>>

Crash ==
    /\ wpc # "down"
    /\ crashes < MaxCrashes
    /\ crashes' = crashes + 1
    /\ insert' = FALSE
    /\ wpc' = "down"
    /\ UNCHANGED <<hour, policy, marker, due, jobs, today, read, changes, ran>>

Recover ==
    /\ wpc = "down"
    /\ wpc' = "loop"
    /\ UNCHANGED <<hour, policy, marker, due, jobs, tick, bounds, ran>>

-----------------------------------------------------------------------------
Next ==
    \/ PassTime \/ BecomeDue \/ ChangePolicy \/ QueueManual \/ EndManual
    \/ TickRead \/ TickReturn \/ TickDecide \/ TickCommit \/ TickFails
    \/ StartBatch \/ EndBatch \/ Crash \/ Recover

Spec == Init /\ [][Next]_vars

(* Days pass and the worker's loop goes on.  Between the time of the day and *)
(* midnight the loop comes by its tick again and again (every 30 seconds, or *)
(* after a batch), hence SF of a tick that reads the clock then, and not     *)
(* every tick fails.                                                         *)
FairSpec ==
    /\ Spec
    /\ WF_vars(PassTime) /\ WF_vars(Recover) /\ WF_vars(EndBatch)
    /\ WF_vars(TickReturn \/ TickDecide \/ TickCommit \/ TickFails)
    /\ SF_vars(TickRead) /\ SF_vars(TickCommit)

-----------------------------------------------------------------------------
(* Properties.                                                              *)

(* As long as the zone stays the same, at most one job is scheduled for a    *)
(* local date, across failed ticks, restarts, ticks that span midnight and   *)
(* changes of the time of day (scheduler_tick, last_scheduler_run).          *)
OncePerDate == [][active' > active => today # ran]_vars

(* Scheduled jobs do not pile up when the worker is behind: one that is      *)
(* still active holds back the next day's (scheduler_tick, "existing").      *)
OneScheduled == active <= 1

(* Accounts that are due and stay so get a job in the end, from the schedule *)
(* or from a user, whatever the policy was changed to, although a tick that  *)
(* found nothing to do has closed the day.                                   *)
DueGetsJob == due ~> ~due \/ active > 0 \/ manual
=============================================================================
