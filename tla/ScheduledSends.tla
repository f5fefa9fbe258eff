--------------------------- MODULE ScheduledSends ---------------------------
(***************************************************************************)
(* The background sweep, the scheduled report emails behind it, and the     *)
(* deploy script that has to keep them quiet.                               *)
(*                                                                         *)
(* app/web.py runs one job every six hours and a minute after every start:  *)
(* run_all_checks under _checks_lock, then run_report_emails.  The Refresh  *)
(* button runs run_all_checks alone, in a thread of its own.  The mailer    *)
(* (app/domain_report.py) reads the two switches and the due list once and  *)
(* then sends one report after the other.  scripts/deploy.sh pauses the     *)
(* sends, restarts the process and resumes them when sweep_runs shows that  *)
(* a sweep has finished since the restart.                                  *)
(*                                                                         *)
(* A target is a standalone domain or a report group: send_report_now and   *)
(* send_group_report_now take the same steps on rows of the same shape.     *)
(* Targets are numbered in the order the loop takes them.                   *)
(***************************************************************************)
EXTENDS Integers, FiniteSets

CONSTANTS
    TargetCount, \* standalone domains and report groups with a recipient
    Silent,      \* targets without a report in the period: "skipped_no_data"
    Broken,      \* targets whose report cannot be rendered: an exception
    Job,         \* the scheduler's thread (max_instances is 1)
    Refreshers,  \* threads that POST /run_checks may start
    None,        \* not a thread
    Interval,    \* interval_days, in ticks of the clock
    MaxTime,     \* bound: ticks of the clock
    MayConfigure, \* bound: targets that are switched on and off meanwhile
    MayEdit,     \* bound: whether the /settings page is open
    MaxBoots,    \* bound: starts of the process
    MaxSendFaults \* bound: failed sends, exceptions and locked-database errors

Targets == 1..TargetCount
Threads == {Job} \cup Refreshers

ASSUME TargetAssumption ==
    /\ TargetCount \in Nat
    /\ Silent \subseteq Targets
    /\ Broken \subseteq Targets
    /\ MayConfigure \subseteq Targets

ASSUME SendsThreadAssumption ==
    /\ Job \notin Refreshers
    /\ None \notin Threads

ASSUME SendsBoundAssumption ==
    /\ MayEdit \in BOOLEAN
    /\ Interval \in Nat \ {0}
    /\ MaxTime \in Nat \ {0}
    /\ MaxBoots \in Nat \ {0}
    /\ MaxSendFaults \in Nat

VARIABLES
    now,        \* the clock
    boot,       \* which start of the process this is
    lock,       \* _checks_lock: the thread that holds it, or None
    pc,         \* what each thread is doing
    open,       \* sweep_runs rows without finished_at, per boot that wrote them
    done,       \* boots that have a sweep_runs row with finished_at
    paused,     \* settings.dev_pause_scheduled_sends
    form,       \* the value of it that an open /settings page shows
    active,     \* targets switched on: report_emails_enabled, the target's own
                \* enabled=1, a domain in no group, a group with members
    last,       \* last_sent_at of each target, 0 when NULL
    todo,       \* the mailer's due list: what its loop has not reached yet
    deploy,     \* where deploy.sh is
    stamp,      \* RESTART_TS, as the boot that follows it
    sendFaults, \* faults so far (see MaxSendFaults)
    mailed,     \* history: when a report last left for each target, 0 if never
    early,      \* history: reports that left less than Interval after another
    unmarked,   \* history: reports that left and are not in last_sent_at
    first,      \* history: the job has not completed a run in this boot
    ours,       \* history: this boot is the restart of the latest deploy.sh run
    woken,      \* history: since deploy.sh paused the sends, the "operator"
                \* resumed them or saved a form that does; since it restarted
                \* the process, a manual "refresh" finished
    held        \* history: the last pause has not been resumed

process   == <<boot, lock, pc>>
sweepRows == <<open, done>>
switches  == <<paused, form, active, held>>
script    == <<deploy, stamp>>
mails     == <<mailed, early, unmarked>>
bootLog   == <<first, ours, woken>>
sendsVars == <<now, process, sweepRows, switches, last, todo, script, sendFaults, mails, bootLog>>

SendsFault == sendFaults < MaxSendFaults /\ sendFaults' = sendFaults + 1

-----------------------------------------------------------------------------
(* run_all_checks, from the job and from the Refresh button.                *)

\* _checks_lock.acquire(blocking=False).
TakeLock(t) ==
    /\ lock = None
    /\ lock' = t
    /\ pc' = [pc EXCEPT ![t] = "begin"]

\* The phases of run_all_checks in which a thread holds the lock: before its
\* sweep_runs row is committed, with the row open, and after it is finished.
InChecks == {"begin", "sweep", "end"}

\* record_sweep_start, which may wait for another writer: INSERT and commit.
SweepStart(t) ==
    /\ pc[t] = "begin"
    /\ pc' = [pc EXCEPT ![t] = "sweep"]
    /\ open' = [open EXCEPT ![boot] = @ + 1]
    /\ UNCHANGED <<now, boot, lock, done, switches, last, todo, script, sendFaults,
                   mails, bootLog>>

\* record_sweep_finish.  The twenty steps before it swallow their own
\* exceptions.
SweepFinish(t) ==
    /\ pc[t] = "sweep"
    /\ pc' = [pc EXCEPT ![t] = "end"]
    /\ open' = [open EXCEPT ![boot] = @ - 1]
    /\ done' = done \cup {boot}
    /\ woken' = IF t = Job THEN woken ELSE woken \cup {"refresh"}
    /\ UNCHANGED <<now, boot, lock, switches, last, todo, script, sendFaults, mails,
                   first, ours>>

\* The lock is released, and the job goes on to the report emails.
ReleaseLock(t) ==
    /\ pc[t] = "end"
    /\ lock' = None
    /\ pc' = [pc EXCEPT ![t] = IF t = Job THEN "decide" ELSE "idle"]
    /\ UNCHANGED <<now, boot, sweepRows, switches, last, todo, script, sendFaults,
                   mails, bootLog>>

\* record_sweep_start or record_sweep_finish raises (the database stays locked
\* for 60 s): the lock is released all the same, a row that is there never
\* finishes and the job goes no further.
SweepFails(t) ==
    /\ pc[t] \in {"begin", "sweep"}
    /\ SendsFault
    /\ lock' = None
    /\ pc' = [pc EXCEPT ![t] = "idle"]
    /\ first' = (first /\ t # Job)
    /\ UNCHANGED <<now, boot, sweepRows, switches, last, todo, script, mails, ours, woken>>

\* POST /run_checks: the thread is started when nobody holds the lock.
Click(r) ==
    /\ pc[r] = "idle"
    /\ lock = None
    /\ pc' = [pc EXCEPT ![r] = "started"]
    /\ UNCHANGED <<now, boot, lock, sweepRows, switches, last, todo, script,
                   sendFaults, mails, bootLog>>

Refresh(r) ==
    /\ pc[r] = "started"
    /\ \/ TakeLock(r)
       \/ /\ lock # None
          /\ pc' = [pc EXCEPT ![r] = "idle"]
          /\ UNCHANGED lock
    /\ UNCHANGED <<now, boot, sweepRows, switches, last, todo, script, sendFaults,
                   mails, bootLog>>

-----------------------------------------------------------------------------
(* _job.  It ignores what run_all_checks returns.                           *)

JobStart ==
    /\ pc[Job] = "idle"
    /\ \/ TakeLock(Job)
       \/ /\ lock # None
          /\ pc' = [pc EXCEPT ![Job] = "decide"]
          /\ UNCHANGED lock
    /\ UNCHANGED <<now, boot, sweepRows, switches, last, todo, script, sendFaults,
                   mails, bootLog>>

\* _is_due and the two queries of due_report_targets.
IsDue(t) == last[t] = 0 \/ now - last[t] >= Interval

DueTargets == {t \in active : IsDue(t)}

\* run_report_emails reads the switches, the clock and the due list, once.
Decide ==
    /\ pc[Job] = "decide"
    /\ IF ~paused
       THEN /\ pc' = [pc EXCEPT ![Job] = "mail"]
            /\ todo' = DueTargets
            /\ UNCHANGED first
       ELSE /\ pc' = [pc EXCEPT ![Job] = "idle"]
            /\ first' = FALSE
            /\ UNCHANGED todo
    /\ UNCHANGED <<now, boot, lock, sweepRows, switches, last, script, sendFaults,
                   mails, ours, woken>>

\* The target the loop is at.
Current(t) == t \in todo /\ \A u \in todo : t <= u

AtTarget(t) ==
    /\ pc[Job] = "mail"
    /\ Current(t)
    /\ UNCHANGED <<now, boot, lock, sweepRows, switches, script, ours, woken>>

\* The loop goes on to the next target.
GoOn(t) ==
    /\ todo' = todo \ {t}
    /\ pc' = [pc EXCEPT ![Job] = "mail"]
    /\ UNCHANGED first

\* An exception leaves run_report_emails, and the job with it.
JobRaises ==
    /\ todo' = {}
    /\ pc' = [pc EXCEPT ![Job] = "idle"]
    /\ first' = FALSE

\* A bug: `return` for `continue` after a target that has no data.
SkipEndsTheLoop(t) ==
    /\ AtTarget(t)
    /\ t \in Silent
    /\ JobRaises
    /\ UNCHANGED <<last, sendFaults, mails>>

SkipNoData(t) ==
    /\ AtTarget(t)
    /\ t \in Silent
    /\ GoOn(t)
    /\ UNCHANGED <<last, sendFaults, mails>>

RenderRaises(t) ==
    /\ AtTarget(t)
    /\ t \in Broken \ Silent
    /\ JobRaises
    /\ UNCHANGED <<last, sendFaults, mails>>

\* send_message: the report leaves.
MailLeaves(t) ==
    /\ AtTarget(t)
    /\ t \notin Silent \cup Broken
    /\ mailed' = [mailed EXCEPT ![t] = now]
    /\ early' = [early EXCEPT ![t] =
                    IF mailed[t] # 0 /\ now - mailed[t] < Interval THEN @ + 1 ELSE @]

SendAccepted(t) ==
    /\ MailLeaves(t)
    /\ pc' = [pc EXCEPT ![Job] = "mark"]
    /\ UNCHANGED <<last, todo, sendFaults, unmarked, first>>

\* The report leaves and the answer times out: "failed" to this code.
SendUnanswered(t) ==
    /\ MailLeaves(t)
    /\ SendsFault
    /\ unmarked' = [unmarked EXCEPT ![t] = @ + 1]
    /\ GoOn(t)
    /\ UNCHANGED last

SendRefused(t) ==
    /\ AtTarget(t)
    /\ t \notin Silent \cup Broken
    /\ SendsFault
    /\ GoOn(t)
    /\ UNCHANGED <<last, mails>>

\* A bug: mark_sent=False, as the test button passes it.
MarkForgotten(t) ==
    /\ pc[Job] = "mark"
    /\ Current(t)
    /\ GoOn(t)
    /\ UNCHANGED <<now, boot, lock, sweepRows, switches, last, script, sendFaults,
                   mails, ours, woken>>

\* _log_send, then last_sent_at = datetime('now').
MarkSent(t) ==
    /\ pc[Job] = "mark"
    /\ Current(t)
    /\ last' = [last EXCEPT ![t] = now]
    /\ GoOn(t)
    /\ UNCHANGED <<now, boot, lock, sweepRows, switches, script, sendFaults, mails,
                   ours, woken>>

\* One of those two commits raises.
MarkRaises(t) ==
    /\ pc[Job] = "mark"
    /\ Current(t)
    /\ SendsFault
    /\ unmarked' = [unmarked EXCEPT ![t] = @ + 1]
    /\ JobRaises
    /\ UNCHANGED <<now, boot, lock, sweepRows, switches, last, script, mailed, early,
                   ours, woken>>

JobEnd ==
    /\ pc[Job] = "mail"
    /\ todo = {}
    /\ pc' = [pc EXCEPT ![Job] = "idle"]
    /\ first' = FALSE
    /\ UNCHANGED <<now, boot, lock, sweepRows, switches, last, todo, script,
                   sendFaults, mails, ours, woken>>

-----------------------------------------------------------------------------
(* The process and deploy.sh.                                               *)

\* The process is killed and launchd starts it again: threads and the lock
\* are gone, a report between send_message and its mark stays unmarked.
Restart ==
    /\ boot < MaxBoots
    /\ boot' = boot + 1
    /\ lock' = None
    /\ pc' = [t \in Threads |-> "idle"]
    /\ todo' = {}
    /\ unmarked' = [t \in Targets |->
                  IF pc[Job] = "mark" /\ Current(t) THEN unmarked[t] + 1 ELSE unmarked[t]]
    /\ first' = TRUE
    /\ UNCHANGED <<now, sweepRows, switches, last, sendFaults, mailed, early>>

Crash ==
    /\ Restart
    /\ ours' = FALSE
    /\ UNCHANGED <<script, woken>>

\* Step 1: pause-sends, read back with sends-status.
DeployPause ==
    /\ deploy = "none"
    /\ deploy' = "push"
    /\ paused' = TRUE
    /\ held' = TRUE
    /\ ours' = FALSE
    /\ woken' = {}
    /\ UNCHANGED <<now, process, sweepRows, form, active, last, todo, stamp,
                   sendFaults, mails, first>>

\* Step 4: RESTART_TS and launchctl kickstart -k.
DeployRestart ==
    /\ deploy = "push"
    /\ Restart
    /\ deploy' = "wait"
    /\ stamp' = boot + 1
    /\ ours' = TRUE
    /\ woken' = woken \ {"refresh"}

\* Steps 2 to 5 end in fail(): uncommitted changes, a failed push, an app
\* that does not answer, no finished sweep within 30 minutes.
DeployFails ==
    /\ deploy \in {"push", "wait"}
    /\ deploy' = "none"
    /\ UNCHANGED <<now, process, sweepRows, switches, last, todo, stamp, sendFaults,
                   mails, bootLog>>

\* A bug: any finished row will do, whenever it started.
SweepEverSeen == done # {}

\* Step 5: a finished sweep_runs row that started after RESTART_TS.
SweepSeen == \E b \in done : b >= stamp

\* `sleep 15` outlasts what the job does between record_sweep_finish and
\* reading the switch.  Then resume-sends, or not (--keep-paused).
DeployResume ==
    /\ deploy = "wait"
    /\ SweepSeen
    /\ pc[Job] \notin {"end", "decide"}
    /\ deploy' = "none"
    /\ \/ paused' = FALSE /\ held' = FALSE
       \/ UNCHANGED <<paused, held>>
    /\ UNCHANGED <<now, process, sweepRows, form, active, last, todo, stamp,
                   sendFaults, mails, bootLog>>

-----------------------------------------------------------------------------
(* The operator and the clock.                                              *)

\* The sidebar's pause and resume button, or app.actions.
Toggle ==
    /\ paused' = ~paused
    /\ held' = ~paused
    /\ woken' = IF paused THEN woken \cup {"operator"} ELSE woken
    /\ UNCHANGED <<now, process, sweepRows, form, active, last, todo, script,
                   sendFaults, mails, first, ours>>

\* GET /settings: its "Other" group lists every setting that no group names,
\* the pause among them.
SettingsOpen ==
    /\ MayEdit
    /\ form' = paused
    /\ UNCHANGED <<now, process, sweepRows, paused, active, held, last, todo, script,
                   sendFaults, mails, bootLog>>

\* POST /settings writes back every field of the form as the page showed it.
SettingsSave ==
    /\ MayEdit
    /\ paused' = form
    /\ woken' = IF paused /\ ~form THEN woken \cup {"operator"} ELSE woken
    /\ UNCHANGED <<now, process, sweepRows, form, active, held, last, todo, script,
                   sendFaults, mails, first, ours>>

\* The settings page, a target's own settings, or a domain that joins or
\* leaves a group.
Configure(t) ==
    /\ t \in MayConfigure
    /\ active' = IF t \in active THEN active \ {t} ELSE active \cup {t}
    /\ UNCHANGED <<now, process, sweepRows, paused, form, held, last, todo, script,
                   sendFaults, mails, bootLog>>

Tick ==
    /\ now < MaxTime
    /\ now' = now + 1
    /\ UNCHANGED <<process, sweepRows, switches, last, todo, script, sendFaults, mails,
                   bootLog>>

SendsInit ==
    /\ now = 1
    /\ boot = 1
    /\ lock = None
    /\ pc = [t \in Threads |-> "idle"]
    /\ open = [b \in 1..MaxBoots |-> 0]
    /\ done = {}
    /\ paused = FALSE
    /\ form = FALSE
    /\ active = Targets \ MayConfigure
    /\ last = [t \in Targets |-> 0]
    /\ todo = {}
    /\ deploy = "none"
    /\ stamp = 1
    /\ sendFaults = 0
    /\ mailed = [t \in Targets |-> 0]
    /\ early = [t \in Targets |-> 0]
    /\ unmarked = [t \in Targets |-> 0]
    /\ first = TRUE
    /\ ours = FALSE
    /\ woken = {}
    /\ held = FALSE

MailNext(t) ==
    \/ SkipNoData(t)
    \/ RenderRaises(t)
    \/ SendAccepted(t)
    \/ SendUnanswered(t)
    \/ SendRefused(t)
    \/ MarkSent(t)
    \/ MarkRaises(t)

SendsNext ==
    \/ \E t \in Threads :
          SweepStart(t) \/ SweepFinish(t) \/ ReleaseLock(t) \/ SweepFails(t)
    \/ \E r \in Refreshers : Click(r) \/ Refresh(r)
    \/ JobStart
    \/ Decide
    \/ \E t \in Targets : MailNext(t)
    \/ JobEnd
    \/ Crash
    \/ DeployPause
    \/ DeployRestart
    \/ DeployFails
    \/ DeployResume
    \/ Toggle
    \/ SettingsOpen
    \/ SettingsSave
    \/ \E t \in Targets : Configure(t)
    \/ Tick

SendsSpec == SendsInit /\ [][SendsNext]_sendsVars

-----------------------------------------------------------------------------
(* Properties.                                                              *)

SendPhases == {"idle", "started", "begin", "sweep", "end", "decide", "mail", "mark"}

\* Every variable keeps its type.
SendsTypeOK ==
    /\ now \in 1..MaxTime
    /\ boot \in 1..MaxBoots
    /\ lock \in Threads \cup {None}
    /\ pc \in [Threads -> SendPhases]
    /\ open \in [1..MaxBoots -> Nat]
    /\ done \subseteq 1..MaxBoots
    /\ paused \in BOOLEAN /\ form \in BOOLEAN /\ held \in BOOLEAN
    /\ active \subseteq Targets
    /\ last \in [Targets -> 0..MaxTime]
    /\ todo \subseteq Targets
    /\ deploy \in {"none", "push", "wait"}
    /\ stamp \in 1..MaxBoots
    /\ sendFaults \in 0..MaxSendFaults
    /\ mailed \in [Targets -> 0..MaxTime]
    /\ early \in [Targets -> Nat]
    /\ unmarked \in [Targets -> Nat]
    /\ first \in BOOLEAN /\ ours \in BOOLEAN
    /\ woken \subseteq {"operator", "refresh"}

\* A bug: the panel does not look at when this process started.
AnyRowShown == \E b \in 1..MaxBoots : open[b] > 0

\* sweep_status: an unfinished row that is not older than this process.
RunningShown == \E b \in 1..MaxBoots : b >= boot /\ open[b] > 0

\* The sidebar never says that a sweep is running when none is: rows that a
\* killed process left unfinished are not taken for a live sweep.  And it
\* hides a sweep that holds the lock only in two windows: until its row is
\* committed, and from the finished row to the release.  Both as long as no
\* bookkeeping write failed.
StatusIsHonest ==
    sendFaults = 0 =>
        /\ RunningShown => lock # None
        /\ lock # None /\ ~RunningShown => pc[lock] \in {"begin", "end"}

\* run_report_emails throttles itself by last_sent_at alone: a recipient gets a
\* report again before its interval is over at most once for each report whose
\* mark was lost (killed, unanswered or failed between the send and the mark),
\* whatever the pause button, deploys and refreshes do in the meantime.
RepeatsBounded == \A t \in Targets : early[t] <= unmarked[t]

\* A report leaves.
MailStep ==
    /\ pc[Job] = "mail"
    /\ \/ pc'[Job] = "mark"
       \/ pc'[Job] = "mail" /\ unmarked' # unmarked

\* deploy.sh's promise, as far as the code keeps it: the first run after its
\* restart sends nothing, unless the operator resumed the sends or saved a
\* /settings page, or a manual refresh finished in between.
DeployStaysQuiet == [][MailStep /\ first /\ ours => woken # {}]_sendsVars

\* deploy.sh, last line: "due reports go out at the next 6-hourly check, not
\* now".  Only the operator could make the restart send.
DeployNeverSends ==
    [][MailStep /\ first /\ ours => "operator" \in woken]_sendsVars

\* The pause button's message: "Nothing goes out automatically until you
\* resume."  No run of the mailer starts between a pause and its resume.
PauseHolds == [][pc[Job] = "decide" /\ pc'[Job] = "mail" => ~held]_sendsVars

\* APScheduler starts the job again and again, every step of it ends (network
\* calls have timeouts) and the clock goes on.  Nobody has to click, deploy,
\* pause or fail, and the number of kills and faults is bounded.
SendsFairness ==
    /\ WF_sendsVars(JobStart)
    /\ WF_sendsVars(Decide)
    /\ WF_sendsVars(JobEnd)
    /\ \A t \in Threads : WF_sendsVars(SweepStart(t)) /\ WF_sendsVars(SweepFinish(t))
    /\ \A t \in Threads : WF_sendsVars(ReleaseLock(t))
    /\ \A t \in Targets : WF_sendsVars(SkipNoData(t) \/ RenderRaises(t) \/ SendAccepted(t))
    /\ \A t \in Targets : WF_sendsVars(MarkSent(t))

SendsFairSpec == SendsSpec /\ SendsFairness

\* A target that stays switched on, while sends stay allowed, does not stay due
\* for ever: its report goes out and is marked, through kills and failed sends,
\* behind targets that are skipped, unless the report of an earlier target in
\* the loop raises.
EventuallyReported ==
    \A t \in Targets \ (Silent \cup Broken) :
        (\A b \in Broken \ Silent : t < b) =>
            (<>[](~paused /\ t \in active) => []<>~IsDue(t))
=============================================================================
