------------------------ MODULE ScheduledSendsProofs ------------------------
(***************************************************************************)
(* Theorems about ScheduledSends, for every number of targets, every set of *)
(* Refresh threads and every value of the bounds.                           *)
(***************************************************************************)
EXTENDS ScheduledSends, FiniteSetTheorems, TLAPS

\* The report that left and is not in last_sent_at yet.
BeingMarked(t) == pc[Job] = "mark" /\ Current(t)

\* Why a repeat needs a lost mark: a target is on the due list because of its
\* last_sent_at, and a mail later than that is one of the lost ones.
RepeatInv ==
    /\ \A t \in Targets : mailed[t] <= now /\ last[t] <= now
    /\ \A t \in Targets : early[t] <= unmarked[t]
    /\ \A t \in Targets :
          last[t] < mailed[t] /\ ~BeingMarked(t) => early[t] + 1 <= unmarked[t]
    /\ \A t \in todo : ~BeingMarked(t) => IsDue(t)

\* Somebody's sweep has its row committed and not finished.
RowOpen == \E t \in Threads : pc[t] = "sweep"

\* One sweep at a time, and its row.
LockInv ==
    /\ \A t \in Threads : pc[t] \in InChecks <=> lock = t
    /\ \A b \in 1..MaxBoots : b > boot => open[b] = 0
    /\ RowOpen => open[boot] >= 1
    /\ sendFaults = 0 => open[boot] = IF RowOpen THEN 1 ELSE 0

\* What a thread does in run_all_checks once it holds the lock.
SweepStep(t) == SweepStart(t) \/ SweepFinish(t) \/ ReleaseLock(t) \/ SweepFails(t)

\* Why the restart of deploy.sh is quiet: as long as nobody else acted, the
\* only finished row of this boot is the job's own, and by the time deploy.sh
\* goes on the job has read the switch, still paused.
QuietInv ==
    /\ done \subseteq 1..boot
    /\ deploy # "none" /\ "operator" \notin woken => paused
    /\ deploy = "wait" /\ ours => stamp = boot
    /\ first /\ ours /\ woken = {} =>
          /\ paused
          /\ pc[Job] \notin {"mail", "mark"}
          /\ boot \in done => pc[Job] \in {"end", "decide"}

-----------------------------------------------------------------------------
(* Types.                                                                   *)

LEMMA InitTypes == SendsInit => SendsTypeOK
<1> SUFFICES ASSUME SendsInit PROVE SendsTypeOK
  OBVIOUS
<1> USE TargetAssumption, SendsThreadAssumption, SendsBoundAssumption DEF SendsInit
<1>1. 1 \in 1..MaxTime /\ 1 \in 1..MaxBoots /\ 0 \in 0..MaxTime /\ 0 \in 0..MaxSendFaults
  OBVIOUS
<1>2. /\ pc \in [Threads -> SendPhases]
      /\ open \in [1..MaxBoots -> Nat]
      /\ last \in [Targets -> 0..MaxTime] /\ mailed \in [Targets -> 0..MaxTime]
      /\ early \in [Targets -> Nat] /\ unmarked \in [Targets -> Nat]
  BY <1>1 DEF SendPhases
<1>3. QED
  BY <1>1, <1>2 DEF SendsTypeOK

LEMMA SweepTypes ==
    ASSUME SendsTypeOK, LockInv, NEW t \in Threads,
           SweepStep(t) \/ Click(t) \/ Refresh(t)
    PROVE  SendsTypeOK'
<1> USE SendsThreadAssumption, SendsBoundAssumption DEF SendsTypeOK
<1>1. CASE SweepStart(t)
  <2>1. open' \in [1..MaxBoots -> Nat] /\ pc' \in [Threads -> SendPhases]
    BY <1>1 DEF SweepStart, SendPhases
  <2>2. QED
    BY <1>1, <2>1 DEF SweepStart, switches, script, mails, bootLog
<1>2. CASE SweepFinish(t)
  <2>1. open[boot] \in Nat /\ open[boot] >= 1
    BY <1>2 DEF SweepFinish, LockInv, RowOpen
  <2>2. open' \in [1..MaxBoots -> Nat] /\ pc' \in [Threads -> SendPhases]
    BY <1>2, <2>1 DEF SweepFinish, SendPhases
  <2>3. QED
    BY <1>2, <2>2 DEF SweepFinish, switches, script, mails
<1>3. CASE ReleaseLock(t)
  <2>1. pc' \in [Threads -> SendPhases]
    BY <1>3 DEF ReleaseLock, SendPhases
  <2>2. QED
    BY <1>3, <2>1 DEF ReleaseLock, sweepRows, switches, script, mails, bootLog
<1>4. CASE SweepFails(t)
  <2>1. pc' \in [Threads -> SendPhases]
    BY <1>4 DEF SweepFails, SendPhases
  <2>2. QED
    BY <1>4, <2>1 DEF SweepFails, SendsFault, sweepRows, switches, script, mails
<1>5. CASE Click(t) \/ Refresh(t)
  <2>1. pc' \in [Threads -> SendPhases] /\ lock' \in Threads \cup {None}
    BY <1>5 DEF Click, Refresh, TakeLock, SendPhases
  <2>2. QED
    BY <1>5, <2>1 DEF Click, Refresh, sweepRows, switches, script, mails, bootLog
<1>6. QED
  BY <1>1, <1>2, <1>3, <1>4, <1>5 DEF SweepStep

LEMMA MailTypes ==
    ASSUME SendsTypeOK, NEW t \in Targets, MailNext(t)
    PROVE  SendsTypeOK'
<1>1. pc' \in [Threads -> SendPhases]
  BY DEF MailNext, SkipNoData, RenderRaises, SendAccepted, SendUnanswered, SendRefused,
         MarkSent, MarkRaises, GoOn, JobRaises, SendsTypeOK, SendPhases
<1>2. todo' \subseteq Targets /\ first' \in BOOLEAN
  BY DEF MailNext, SkipNoData, RenderRaises, SendAccepted, SendUnanswered, SendRefused,
         MarkSent, MarkRaises, GoOn, JobRaises, SendsTypeOK
<1>3. mailed' \in [Targets -> 0..MaxTime] /\ early' \in [Targets -> Nat]
  <2>1. CASE MailLeaves(t)
    BY <2>1, SendsBoundAssumption DEF MailLeaves, SendsTypeOK
  <2>2. CASE UNCHANGED <<mailed, early>>
    BY <2>2 DEF SendsTypeOK
  <2>3. QED
    BY <2>1, <2>2 DEF MailNext, SkipNoData, RenderRaises, SendAccepted, SendUnanswered,
                      SendRefused, MarkSent, MarkRaises, mails
<1>4. last' \in [Targets -> 0..MaxTime]
  <2>1. last' = last \/ last' = [last EXCEPT ![t] = now]
    BY DEF MailNext, SkipNoData, RenderRaises, SendAccepted, SendUnanswered, SendRefused,
           MarkSent, MarkRaises
  <2>2. CASE last' = last
    BY <2>2 DEF SendsTypeOK
  <2>3. CASE last' = [last EXCEPT ![t] = now]
    BY <2>3, SendsBoundAssumption DEF SendsTypeOK
  <2>4. QED
    BY <2>1, <2>2, <2>3
<1>5. unmarked' \in [Targets -> Nat]
  <2>1. unmarked' = unmarked \/ unmarked' = [unmarked EXCEPT ![t] = @ + 1]
    BY DEF MailNext, SkipNoData, RenderRaises, SendAccepted, SendUnanswered, SendRefused,
           MarkSent, MarkRaises, mails
  <2>2. CASE unmarked' = unmarked
    BY <2>2 DEF SendsTypeOK
  <2>3. CASE unmarked' = [unmarked EXCEPT ![t] = @ + 1]
    BY <2>3 DEF SendsTypeOK
  <2>4. QED
    BY <2>1, <2>2, <2>3
<1>6. sendFaults' \in 0..MaxSendFaults
  BY SendsBoundAssumption
  DEF MailNext, SkipNoData, RenderRaises, SendAccepted, SendUnanswered, SendRefused,
      MarkSent, MarkRaises, SendsFault, SendsTypeOK
<1>7. UNCHANGED <<now, boot, lock, sweepRows, switches, script, ours, woken>>
  BY DEF MailNext, SkipNoData, RenderRaises, SendAccepted, SendUnanswered, SendRefused,
         MarkSent, MarkRaises, MailLeaves, AtTarget
<1>8. QED
  BY <1>1, <1>2, <1>3, <1>4, <1>5, <1>6, <1>7 DEF SendsTypeOK, sweepRows, switches, script

LEMMA RestartTypes ==
    ASSUME SendsTypeOK, Crash \/ DeployRestart
    PROVE  SendsTypeOK'
<1> USE SendsBoundAssumption DEF SendsTypeOK
<1>1. Restart
  BY DEF Crash, DeployRestart
<1>2. boot + 1 \in 1..MaxBoots
  BY <1>1 DEF Restart
<1>3. boot' \in 1..MaxBoots /\ pc' \in [Threads -> SendPhases] /\ unmarked' \in [Targets -> Nat]
  BY <1>1, <1>2 DEF Restart, SendPhases
<1>4. /\ ours' \in BOOLEAN /\ deploy' \in {"none", "push", "wait"}
      /\ stamp' \in 1..MaxBoots /\ woken' \subseteq {"operator", "refresh"}
  BY <1>2 DEF Crash, DeployRestart, script
<1>5. QED
  BY <1>1, <1>3, <1>4 DEF Restart, sweepRows, switches

\* Every step keeps the types.
LEMMA TypeStep == SendsTypeOK /\ LockInv /\ [SendsNext]_sendsVars => SendsTypeOK'
<1> SUFFICES ASSUME SendsTypeOK, LockInv, [SendsNext]_sendsVars PROVE SendsTypeOK'
  OBVIOUS
<1> USE TargetAssumption, SendsThreadAssumption, SendsBoundAssumption
    DEF SendsTypeOK, process, sweepRows, switches, script, mails, bootLog
<1>1. ASSUME NEW t \in Threads, SweepStep(t) PROVE SendsTypeOK'
  BY <1>1, SweepTypes
<1>2. ASSUME NEW r \in Refreshers, Click(r) \/ Refresh(r) PROVE SendsTypeOK'
  BY <1>2, SweepTypes DEF Threads
<1>3. CASE JobStart
  <2>1. pc' \in [Threads -> SendPhases] /\ lock' \in Threads \cup {None}
    BY <1>3 DEF JobStart, TakeLock, SendPhases, Threads
  <2>2. QED
    BY <1>3, <2>1 DEF JobStart, switches
<1>4. CASE Decide
  <2>1. pc' \in [Threads -> SendPhases]
    BY <1>4 DEF Decide, SendPhases
  <2>2. todo' \subseteq Targets
    BY <1>4 DEF Decide, DueTargets
  <2>3. QED
    BY <1>4, <2>1, <2>2 DEF Decide, switches
<1>5. ASSUME NEW t \in Targets, MailNext(t) PROVE SendsTypeOK'
  BY <1>5, MailTypes
<1>6. CASE JobEnd
  <2>1. pc' \in [Threads -> SendPhases]
    BY <1>6 DEF JobEnd, SendPhases
  <2>2. QED
    BY <1>6, <2>1 DEF JobEnd, switches
<1>7. CASE Crash \/ DeployRestart
  BY <1>7, RestartTypes
<1>8. CASE DeployPause \/ DeployFails \/ DeployResume
  BY <1>8 DEF DeployPause, DeployFails, DeployResume
<1>9. CASE Toggle \/ SettingsOpen \/ SettingsSave
  BY <1>9 DEF Toggle, SettingsOpen, SettingsSave
<1>10. ASSUME NEW t \in Targets, Configure(t) PROVE SendsTypeOK'
  BY <1>10 DEF Configure
<1>11. CASE Tick
  BY <1>11 DEF Tick
<1>12. CASE UNCHANGED sendsVars
  BY <1>12 DEF sendsVars, switches
<1>13. QED
  BY <1>1, <1>2, <1>3, <1>4, <1>5, <1>6, <1>7, <1>8, <1>9, <1>10, <1>11, <1>12 DEF SendsNext, SweepStep

-----------------------------------------------------------------------------
(* The lock and sweep_runs.                                                 *)

LEMMA LockInit == SendsInit => LockInv
<1> SUFFICES ASSUME SendsInit PROVE LockInv
  OBVIOUS
<1>1. \A t \in Threads : pc[t] = "idle"
  BY DEF SendsInit
<1>2. QED
  BY <1>1, SendsThreadAssumption, SendsBoundAssumption DEF SendsInit, LockInv, RowOpen, InChecks

\* The steps that leave the lock, the boots and the rows alone, and start or
\* end no sweep.
LEMMA LockKept ==
    ASSUME SendsTypeOK, LockInv, UNCHANGED <<boot, lock, open>>, sendFaults' >= sendFaults,
           \A t \in Threads : /\ pc'[t] \in InChecks <=> pc[t] \in InChecks
                              /\ pc'[t] = "sweep" <=> pc[t] = "sweep"
    PROVE  LockInv'
<1>1. sendFaults' = 0 => sendFaults = 0
  BY DEF SendsTypeOK
<1>2. QED
  BY <1>1 DEF LockInv, RowOpen, SendsTypeOK

\* A thread that takes the free lock has no row yet.
LEMMA LockTaken ==
    ASSUME SendsTypeOK, LockInv, NEW t \in Threads, TakeLock(t), UNCHANGED <<boot, open, sendFaults>>
    PROVE  LockInv'
<1> USE SendsThreadAssumption
<1>1. /\ lock = None /\ lock' = t /\ pc'[t] = "begin"
      /\ \A s \in Threads \ {t} : pc'[s] = pc[s]
  BY DEF TakeLock, SendsTypeOK
<1>2. \A s \in Threads : pc[s] \notin InChecks
  BY <1>1 DEF LockInv
<1>3. ~RowOpen /\ ~RowOpen'
  BY <1>1, <1>2 DEF RowOpen, InChecks
<1>4. \A s \in Threads : pc'[s] \in InChecks <=> lock' = s
  BY <1>1, <1>2 DEF InChecks
<1>5. QED
  BY <1>3, <1>4 DEF LockInv

\* A thread in run_all_checks holds the lock alone.
LEMMA AloneInChecks ==
    ASSUME SendsTypeOK, LockInv, NEW t \in Threads, pc[t] \in InChecks
    PROVE  lock = t /\ \A s \in Threads \ {t} : pc[s] \notin InChecks
  BY SendsThreadAssumption DEF LockInv

LEMMA SweepLocks ==
    ASSUME SendsTypeOK, LockInv, NEW t \in Threads, SweepStep(t)
    PROVE  LockInv'
<1> USE SendsThreadAssumption, SendsBoundAssumption
<1>0. /\ sendFaults \in Nat /\ boot \in 1..MaxBoots /\ boot' = boot
      /\ pc \in [Threads -> SendPhases] /\ open \in [1..MaxBoots -> Nat]
      /\ \A s \in Threads \ {t} : pc'[s] = pc[s]
  BY DEF SendsTypeOK, SweepStep, SweepStart, SweepFinish, ReleaseLock, SweepFails
<1>1. pc[t] \in InChecks /\ lock = t /\ \A s \in Threads \ {t} : pc[s] \notin InChecks
  <2>1. pc[t] \in InChecks
    BY DEF SweepStep, SweepStart, SweepFinish, ReleaseLock, SweepFails, InChecks
  <2>2. QED
    BY <2>1, AloneInChecks
<1>2. RowOpen <=> pc[t] = "sweep"
  BY <1>1 DEF RowOpen, InChecks
<1>3. RowOpen' <=> pc'[t] = "sweep"
  BY <1>0, <1>1 DEF RowOpen, InChecks
<1>4. CASE SweepStart(t)
  <2>1. /\ pc[t] = "begin" /\ pc'[t] = "sweep" /\ lock' = lock /\ sendFaults' = sendFaults
        /\ open' = [open EXCEPT ![boot] = @ + 1]
    BY <1>0, <1>4 DEF SweepStart
  <2>2. \A s \in Threads : pc'[s] \in InChecks <=> lock' = s
    BY <1>0, <1>1, <2>1 DEF InChecks
  <2>3. sendFaults = 0 => open'[boot] = 1
    BY <1>0, <1>2, <2>1 DEF LockInv
  <2>4. open'[boot] >= 1 /\ \A b \in 1..MaxBoots : b > boot => open'[b] = 0
    BY <1>0, <2>1 DEF LockInv
  <2>5. QED
    BY <1>0, <1>3, <2>1, <2>2, <2>3, <2>4 DEF LockInv
<1>5. CASE SweepFinish(t)
  <2>1. /\ pc[t] = "sweep" /\ pc'[t] = "end" /\ lock' = lock /\ sendFaults' = sendFaults
        /\ open' = [open EXCEPT ![boot] = @ - 1]
    BY <1>0, <1>5 DEF SweepFinish
  <2>2. \A s \in Threads : pc'[s] \in InChecks <=> lock' = s
    BY <1>0, <1>1, <2>1 DEF InChecks
  <2>3. sendFaults = 0 => open'[boot] = 0
    BY <1>0, <1>2, <2>1 DEF LockInv
  <2>4. \A b \in 1..MaxBoots : b > boot => open'[b] = 0
    BY <1>0, <2>1 DEF LockInv
  <2>5. QED
    BY <1>0, <1>3, <2>1, <2>2, <2>3, <2>4 DEF LockInv
<1>6. CASE ReleaseLock(t)
  <2>1. /\ pc[t] = "end" /\ pc'[t] \in {"decide", "idle"} /\ lock' = None
        /\ UNCHANGED <<sendFaults, open>>
    BY <1>0, <1>6 DEF ReleaseLock, sweepRows
  <2>2. \A s \in Threads : pc'[s] \in InChecks <=> lock' = s
    BY <1>0, <1>1, <2>1 DEF InChecks
  <2>3. QED
    BY <1>0, <1>2, <1>3, <2>1, <2>2 DEF LockInv
<1>7. CASE SweepFails(t)
  <2>1. /\ pc'[t] = "idle" /\ lock' = None /\ open' = open /\ sendFaults' # 0
    BY <1>0, <1>7 DEF SweepFails, SendsFault, sweepRows
  <2>2. \A s \in Threads : pc'[s] \in InChecks <=> lock' = s
    BY <1>0, <1>1, <2>1 DEF InChecks
  <2>3. QED
    BY <1>0, <1>3, <2>1, <2>2 DEF LockInv
<1>8. QED
  BY <1>4, <1>5, <1>6, <1>7 DEF SweepStep

LEMMA LockStep == SendsTypeOK /\ LockInv /\ [SendsNext]_sendsVars => LockInv'
<1> SUFFICES ASSUME SendsTypeOK, LockInv, [SendsNext]_sendsVars PROVE LockInv'
  OBVIOUS
<1> USE SendsThreadAssumption
<1> USE DEF process, sweepRows, switches, script, mails, bootLog, InChecks
<1>0. sendFaults \in Nat /\ boot \in 1..MaxBoots /\ pc \in [Threads -> SendPhases] /\ Job \in Threads
  BY SendsBoundAssumption DEF SendsTypeOK, Threads
<1>1. ASSUME NEW t \in Threads, SweepStep(t) PROVE LockInv'
  BY <1>1, SweepLocks
<1>3. ASSUME NEW r \in Refreshers, Click(r) PROVE LockInv'
  BY <1>0, <1>3, LockKept DEF Click, Threads
<1>4. ASSUME NEW r \in Refreshers, Refresh(r) PROVE LockInv'
  <2>1. CASE TakeLock(r)
    BY <1>4, <2>1, LockTaken DEF Refresh, Threads
  <2>2. CASE ~TakeLock(r)
    BY <1>0, <1>4, <2>2, LockKept DEF Refresh, Threads
  <2>3. QED
    BY <2>1, <2>2
<1>5. CASE JobStart
  <2>1. CASE TakeLock(Job)
    BY <1>0, <1>5, <2>1, LockTaken DEF JobStart
  <2>2. CASE ~TakeLock(Job)
    BY <1>0, <1>5, <2>2, LockKept DEF JobStart
  <2>3. QED
    BY <2>1, <2>2
<1>6. CASE Decide
  BY <1>0, <1>6, LockKept DEF Decide
<1>7. ASSUME NEW t \in Targets, MailNext(t) PROVE LockInv'
  <2>1. UNCHANGED <<boot, lock, open>>
    BY <1>7 DEF MailNext, SkipNoData, RenderRaises, SendAccepted, SendUnanswered, SendRefused,
                MarkSent, MarkRaises, MailLeaves, AtTarget
  <2>2. sendFaults' >= sendFaults
    BY <1>0, <1>7 DEF MailNext, SkipNoData, RenderRaises, SendAccepted, SendUnanswered,
                      SendRefused, MarkSent, MarkRaises, SendsFault
  <2>3. /\ pc[Job] \in {"mail", "mark"} /\ pc'[Job] \in {"mail", "mark", "idle"}
        /\ \A s \in Threads \ {Job} : pc'[s] = pc[s]
    BY <1>0, <1>7 DEF MailNext, SkipNoData, RenderRaises, SendAccepted, SendUnanswered,
                      SendRefused, MarkSent, MarkRaises, MailLeaves, AtTarget, GoOn, JobRaises
  <2>4. QED
    BY <2>1, <2>2, <2>3, LockKept
<1>8. CASE JobEnd
  BY <1>0, <1>8, LockKept DEF JobEnd
<1>9. CASE Crash \/ DeployRestart
  <2>1. boot' = boot + 1 /\ open' = open /\ lock' = None /\ sendFaults' = sendFaults
    BY <1>9 DEF Crash, DeployRestart, Restart
  <2>2. \A s \in Threads : pc'[s] = "idle"
    BY <1>9 DEF Crash, DeployRestart, Restart
  <2>3. boot + 1 \in 1..MaxBoots
    BY <1>0, <1>9, SendsBoundAssumption DEF Crash, DeployRestart, Restart
  <2>4. QED
    BY <1>0, <2>1, <2>2, <2>3 DEF LockInv, RowOpen
<1>10. CASE \/ DeployPause \/ DeployFails \/ DeployResume
            \/ Toggle \/ SettingsOpen \/ SettingsSave \/ Tick
  <2>1. UNCHANGED <<boot, lock, pc, open, sendFaults>>
    BY <1>10 DEF DeployPause, DeployFails, DeployResume, Toggle, SettingsOpen, SettingsSave, Tick
  <2>2. QED
    BY <2>1 DEF LockInv, RowOpen
<1>11. ASSUME NEW t \in Targets, Configure(t) PROVE LockInv'
  BY <1>0, <1>11, LockKept DEF Configure
<1>12. CASE UNCHANGED sendsVars
  BY <1>12 DEF sendsVars, LockInv, RowOpen
<1>13. QED
  BY <1>1, <1>3, <1>4, <1>5, <1>6, <1>7, <1>8, <1>9, <1>10, <1>11, <1>12 DEF SendsNext, SweepStep

LEMMA Locking == SendsSpec => [](SendsTypeOK /\ LockInv)
<1>1. SendsInit => SendsTypeOK /\ LockInv
  BY InitTypes, LockInit
<1>2. (SendsTypeOK /\ LockInv) /\ [SendsNext]_sendsVars => (SendsTypeOK /\ LockInv)'
  BY TypeStep, LockStep
<1>3. QED
  BY <1>1, <1>2, PTL DEF SendsSpec

\* What _checks_lock is for, said without a lock: OneAtATime.
Sweeps == INSTANCE OneAtATime WITH
    Workers <- Threads,
    working <- {t \in Threads : pc[t] \in InChecks}

\* No step hands the lock from one thread to another.
LEMMA LockIsNotHandedOver ==
    ASSUME SendsTypeOK, LockInv, [SendsNext]_sendsVars
    PROVE  lock = None \/ lock' = None \/ lock' = lock
<1> USE DEF process, sweepRows, switches, script, mails, bootLog
<1>1. ASSUME NEW t \in Threads, SweepStep(t) PROVE lock' = None \/ lock' = lock
  BY <1>1 DEF SweepStep, SweepStart, SweepFinish, ReleaseLock, SweepFails
<1>2. ASSUME NEW r \in Refreshers, Click(r) \/ Refresh(r) PROVE lock = None \/ lock' = lock
  BY <1>2 DEF Click, Refresh, TakeLock
<1>3. CASE JobStart \/ Decide \/ JobEnd
  BY <1>3 DEF JobStart, TakeLock, Decide, JobEnd
<1>4. ASSUME NEW t \in Targets, MailNext(t) PROVE lock' = lock
  BY <1>4 DEF MailNext, SkipNoData, RenderRaises, SendAccepted, SendUnanswered, SendRefused,
              MarkSent, MarkRaises, MailLeaves, AtTarget
<1>5. CASE Crash \/ DeployRestart
  BY <1>5 DEF Crash, DeployRestart, Restart
<1>6. CASE \/ DeployPause \/ DeployFails \/ DeployResume
           \/ Toggle \/ SettingsOpen \/ SettingsSave \/ Tick
  BY <1>6 DEF DeployPause, DeployFails, DeployResume, Toggle, SettingsOpen, SettingsSave, Tick
<1>7. ASSUME NEW t \in Targets, Configure(t) PROVE lock' = lock
  BY <1>7 DEF Configure
<1>8. CASE UNCHANGED sendsVars
  BY <1>8 DEF sendsVars
<1>9. QED
  BY <1>1, <1>2, <1>3, <1>4, <1>5, <1>6, <1>7, <1>8 DEF SendsNext, SweepStep

\* The sweeps of the job and of the Refresh button take turns, through failed
\* bookkeeping, kills and restarts: run_all_checks implements OneAtATime
\* (web.py, _checks_lock: the lock is taken without waiting).
THEOREM SweepsTakeTurns == SendsSpec => Sweeps!Spec
<1> DEFINE Sweeping == {t \in Threads : pc[t] \in InChecks}
<1>1. SendsInit => Sweeps!Init
  BY DEF SendsInit, Sweeps!Init, InChecks
<1>2. ASSUME SendsTypeOK, LockInv, (SendsTypeOK /\ LockInv)', [SendsNext]_sendsVars
      PROVE  [Sweeps!Start \/ Sweeps!Stop]_Sweeping
  <2>1. /\ lock \in Threads \cup {None} /\ Sweeping = {lock} \ {None}
        /\ lock' \in Threads \cup {None} /\ Sweeping' = {lock'} \ {None}
    BY <1>2, SendsThreadAssumption DEF SendsTypeOK, LockInv
  <2>2. CASE lock' = lock
    BY <2>1, <2>2
  <2>3. CASE lock' # lock /\ lock = None
    BY <2>1, <2>3 DEF Sweeps!Start
  <2>4. CASE lock' # lock /\ lock # None
    BY <1>2, <2>1, <2>4, LockIsNotHandedOver DEF Sweeps!Stop
  <2>5. QED
    BY <2>2, <2>3, <2>4
<1>3. QED
  BY <1>1, <1>2, Locking, PTL DEF SendsSpec, Sweeps!Spec

\* Every reachable state is well typed: the number of open rows, too, because a
\* sweep that finishes has its own row to close.
THEOREM Typing == SendsSpec => []SendsTypeOK
  BY Locking, PTL

\* The sidebar's "a sweep is running" is never said without a sweep, across
\* kills and restarts, and hides one only before its row is committed and
\* after it is finished, as long as no bookkeeping write failed.
THEOREM HonestStatus == SendsSpec => []StatusIsHonest
<1>1. SendsTypeOK /\ LockInv => StatusIsHonest
  <2> SUFFICES ASSUME SendsTypeOK, LockInv, sendFaults = 0
               PROVE  /\ RunningShown => lock # None
                      /\ lock # None /\ ~RunningShown => pc[lock] \in {"begin", "end"}
    BY DEF StatusIsHonest
  <2>1. RunningShown <=> open[boot] > 0
    BY SendsBoundAssumption DEF RunningShown, LockInv, SendsTypeOK
  <2>2. open[boot] > 0 <=> RowOpen
    BY DEF LockInv
  <2>3. ASSUME RowOpen PROVE lock # None
    BY <2>3, SendsThreadAssumption DEF RowOpen, LockInv, InChecks
  <2>4. ASSUME lock # None, ~RowOpen PROVE pc[lock] \in {"begin", "end"}
    <3>1. lock \in Threads /\ pc[lock] \in InChecks
      BY <2>4 DEF SendsTypeOK, LockInv
    <3>2. QED
      BY <2>4, <3>1 DEF RowOpen, InChecks
  <2>5. QED
    BY <2>1, <2>2, <2>3, <2>4
<1>2. QED
  BY <1>1, Locking, PTL

-----------------------------------------------------------------------------
(* No repeat without a lost mark.                                           *)

LEMMA RepeatInit == SendsInit => RepeatInv
  BY SendsBoundAssumption DEF SendsInit, RepeatInv, IsDue

\* The loop is at one target.
LEMMA OneCurrent ==
    ASSUME SendsTypeOK, NEW t \in Targets, NEW u \in Targets, Current(t), Current(u)
    PROVE  t = u
  BY DEF Current, Targets

\* Steps of the mailer leave the clock alone and touch one target.
LEMMA MailRepeats ==
    ASSUME SendsTypeOK, RepeatInv, NEW t \in Targets, MailNext(t)
    PROVE  RepeatInv'
<1> USE SendsBoundAssumption
<1>1. /\ now \in Nat /\ now' = now /\ Interval \in Nat \ {0}
      /\ \A u \in Targets : mailed[u] \in Nat /\ last[u] \in Nat /\ early[u] \in Nat /\ unmarked[u] \in Nat
      /\ todo \subseteq Targets
  BY DEF MailNext, SkipNoData, RenderRaises, SendAccepted, SendUnanswered, SendRefused,
         MarkSent, MarkRaises, MailLeaves, AtTarget, SendsTypeOK
<1>2. CASE SkipNoData(t) \/ RenderRaises(t) \/ SendRefused(t)
  <2>1. /\ UNCHANGED <<now, last, mailed, early, unmarked>> /\ todo' \subseteq todo
        /\ pc[Job] = "mail"
    BY <1>2 DEF SkipNoData, RenderRaises, SendRefused, AtTarget, GoOn, JobRaises, mails
  <2>2. QED
    BY <2>1 DEF RepeatInv, BeingMarked, IsDue
<1>3. ASSUME MailLeaves(t)
      PROVE  /\ now' = now /\ pc[Job] = "mail" /\ Current(t)
             /\ mailed' = [mailed EXCEPT ![t] = now] /\ early'[t] \in Nat /\ early'[t] <= unmarked[t]
             /\ \A u \in Targets \ {t} : early'[u] = early[u]
  <2>1. /\ now' = now /\ pc[Job] = "mail" /\ Current(t)
        /\ mailed' = [mailed EXCEPT ![t] = now]
        /\ \A u \in Targets \ {t} : early'[u] = early[u]
    BY <1>3 DEF MailLeaves, AtTarget, SendsTypeOK
  <2>2. CASE mailed[t] # 0 /\ now - mailed[t] < Interval
    <3>1. IsDue(t) /\ ~BeingMarked(t)
      BY <2>1 DEF RepeatInv, Current, BeingMarked
    <3>2. last[t] < mailed[t]
      BY <1>1, <2>2, <3>1 DEF IsDue
    <3>3. early[t] + 1 <= unmarked[t] /\ early'[t] = early[t] + 1
      BY <1>3, <2>2, <3>1, <3>2 DEF RepeatInv, MailLeaves, SendsTypeOK
    <3>4. QED
      BY <1>1, <2>1, <3>3
  <2>3. CASE ~(mailed[t] # 0 /\ now - mailed[t] < Interval)
    <3>1. early'[t] = early[t] /\ early[t] <= unmarked[t]
      BY <1>3, <2>3 DEF RepeatInv, MailLeaves, SendsTypeOK
    <3>2. QED
      BY <1>1, <2>1, <3>1
  <2>4. QED
    BY <2>2, <2>3
<1>4. CASE SendAccepted(t)
  <2>1. /\ MailLeaves(t) /\ UNCHANGED <<last, todo, unmarked>> /\ pc'[Job] = "mark"
    BY <1>4, SendsThreadAssumption DEF SendAccepted, SendsTypeOK, Threads
  <2>2. BeingMarked(t)' /\ \A u \in Targets : mailed'[u] = IF u = t THEN now ELSE mailed[u]
    BY <1>3, <2>1 DEF BeingMarked, Current, SendsTypeOK
  <2>3. \A u \in Targets \ {t} : ~BeingMarked(u)
    BY <1>3, <2>1 DEF BeingMarked
  <2>4. QED
    BY <1>1, <1>3, <2>1, <2>2, <2>3 DEF RepeatInv, IsDue
<1>5. CASE SendUnanswered(t)
  <2>1. /\ MailLeaves(t) /\ last' = last /\ todo' \subseteq todo
        /\ unmarked' = [unmarked EXCEPT ![t] = @ + 1]
    BY <1>5 DEF SendUnanswered, GoOn
  <2>2. \A u \in Targets : /\ mailed'[u] = IF u = t THEN now ELSE mailed[u]
                           /\ unmarked'[u] = IF u = t THEN unmarked[u] + 1 ELSE unmarked[u]
    BY <1>3, <2>1 DEF SendsTypeOK
  <2>3. \A u \in Targets : ~BeingMarked(u)
    BY <1>3, <2>1 DEF BeingMarked
  <2>4. QED
    BY <1>1, <1>3, <2>1, <2>2, <2>3 DEF RepeatInv, IsDue
<1>6. CASE MarkSent(t)
  <2>1. /\ UNCHANGED <<now, mailed, early, unmarked>> /\ todo' = todo \ {t} /\ BeingMarked(t)
        /\ \A u \in Targets : last'[u] = IF u = t THEN now ELSE last[u]
    BY <1>6 DEF MarkSent, GoOn, mails, BeingMarked, SendsTypeOK
  <2>2. \A u \in Targets \ {t} : ~BeingMarked(u)
    BY <2>1, OneCurrent DEF BeingMarked
  <2>3. QED
    BY <1>1, <2>1, <2>2 DEF RepeatInv, IsDue
<1>7. CASE MarkRaises(t)
  <2>1. /\ UNCHANGED <<now, last, mailed, early>> /\ todo' = {} /\ BeingMarked(t)
        /\ \A u \in Targets : unmarked'[u] = IF u = t THEN unmarked[u] + 1 ELSE unmarked[u]
    BY <1>7 DEF MarkRaises, JobRaises, BeingMarked, SendsTypeOK
  <2>2. \A u \in Targets \ {t} : ~BeingMarked(u)
    BY <2>1, OneCurrent DEF BeingMarked
  <2>3. QED
    BY <1>1, <2>1, <2>2 DEF RepeatInv, IsDue
<1>8. QED
  BY <1>2, <1>4, <1>5, <1>6, <1>7 DEF MailNext

LEMMA RepeatStep == SendsTypeOK /\ RepeatInv /\ [SendsNext]_sendsVars => RepeatInv'
<1> SUFFICES ASSUME SendsTypeOK, RepeatInv, [SendsNext]_sendsVars PROVE RepeatInv'
  OBVIOUS
<1> USE SendsBoundAssumption, SendsThreadAssumption
<1> USE DEF process, sweepRows, switches, script, mails, bootLog
<1>0. /\ now \in Nat /\ Interval \in Nat /\ todo \subseteq Targets /\ Job \in Threads
      /\ pc \in [Threads -> SendPhases]
      /\ \A u \in Targets : mailed[u] \in Nat /\ last[u] \in Nat /\ early[u] \in Nat /\ unmarked[u] \in Nat
  BY DEF SendsTypeOK, Threads
\* The mailer is not marking a report, and the step marks and mails none.
<1> DEFINE Aside == /\ UNCHANGED <<now, last, todo, mailed, early, unmarked>>
                    /\ pc'[Job] = "mark" <=> pc[Job] = "mark"
<1>1. Aside => RepeatInv'
  BY DEF RepeatInv, IsDue, BeingMarked, Current
<1>2. ASSUME NEW t \in Threads, SweepStep(t) PROVE Aside
  BY <1>0, <1>2 DEF SweepStep, SweepStart, SweepFinish, ReleaseLock, SweepFails
<1>3. ASSUME NEW r \in Refreshers, Click(r) \/ Refresh(r) PROVE Aside
  BY <1>0, <1>3 DEF Click, Refresh, TakeLock, Threads
<1>4. ASSUME JobStart PROVE Aside
  BY <1>0, <1>4 DEF JobStart, TakeLock
<1>5. CASE Decide
  <2>1. /\ UNCHANGED <<now, last, mailed, early, unmarked>>
        /\ pc[Job] # "mark" /\ pc'[Job] # "mark"
        /\ todo' = todo \/ todo' = DueTargets
    BY <1>0, <1>5 DEF Decide
  <2>2. QED
    BY <2>1 DEF RepeatInv, IsDue, BeingMarked, DueTargets
<1>6. ASSUME NEW t \in Targets, MailNext(t) PROVE RepeatInv'
  BY <1>6, MailRepeats
<1>7. ASSUME JobEnd PROVE Aside
  BY <1>0, <1>7 DEF JobEnd
<1>8. CASE Crash \/ DeployRestart
  <2>1. /\ UNCHANGED <<now, last, mailed, early>> /\ todo' = {} /\ pc'[Job] = "idle"
        /\ \A u \in Targets : unmarked'[u] = IF BeingMarked(u) THEN unmarked[u] + 1 ELSE unmarked[u]
    BY <1>0, <1>8 DEF Crash, DeployRestart, Restart, BeingMarked
  <2>2. QED
    BY <1>0, <2>1 DEF RepeatInv, BeingMarked
<1>9. ASSUME \/ DeployPause \/ DeployFails \/ DeployResume
             \/ Toggle \/ SettingsOpen \/ SettingsSave
      PROVE  Aside
  BY <1>9 DEF DeployPause, DeployFails, DeployResume, Toggle, SettingsOpen, SettingsSave
<1>10. ASSUME NEW t \in Targets, Configure(t) PROVE Aside
  BY <1>10 DEF Configure
<1>11. CASE Tick
  <2>1. now' = now + 1 /\ UNCHANGED <<pc, last, todo, mailed, early, unmarked>>
    BY <1>11 DEF Tick
  <2>2. QED
    BY <1>0, <2>1 DEF RepeatInv, IsDue, BeingMarked, Current
<1>12. ASSUME UNCHANGED sendsVars PROVE Aside
  BY <1>12 DEF sendsVars
<1>13. QED
  BY <1>1, <1>2, <1>3, <1>4, <1>5, <1>6, <1>7, <1>8, <1>9, <1>10, <1>11, <1>12 DEF SendsNext, SweepStep

\* A recipient gets a report early at most once for each lost mark.
THEOREM RepeatsAreBounded == SendsSpec => []RepeatsBounded
<1>1. SendsInit => RepeatInv
  BY RepeatInit
<1>2. SendsTypeOK /\ RepeatInv /\ [SendsNext]_sendsVars => RepeatInv'
  BY RepeatStep
<1>3. RepeatInv => RepeatsBounded
  BY DEF RepeatInv, RepeatsBounded
<1>4. QED
  BY <1>1, <1>2, <1>3, Typing, PTL DEF SendsSpec

-----------------------------------------------------------------------------
(* The restart of deploy.sh is quiet.                                       *)

LEMMA QuietInit == SendsInit => QuietInv
  BY DEF SendsInit, QuietInv

LEMMA QuietStep == SendsTypeOK /\ QuietInv /\ [SendsNext]_sendsVars => QuietInv'
<1> SUFFICES ASSUME SendsTypeOK, QuietInv, [SendsNext]_sendsVars PROVE QuietInv'
  OBVIOUS
<1> USE SendsBoundAssumption, SendsThreadAssumption
<1> USE DEF process, sweepRows, switches, script, mails, bootLog
<1>0. /\ Job \in Threads /\ pc \in [Threads -> SendPhases] /\ boot \in 1..MaxBoots
      /\ done \subseteq 1..MaxBoots /\ stamp \in 1..MaxBoots
  BY DEF SendsTypeOK, Threads
<1>1. ASSUME NEW t \in Threads, SweepFinish(t) PROVE QuietInv'
  <2>1. /\ UNCHANGED <<boot, deploy, paused, ours, stamp, first>>
        /\ done' = done \cup {boot}
        /\ woken' = IF t = Job THEN woken ELSE woken \cup {"refresh"}
    BY <1>1 DEF SweepFinish
  <2>2. CASE t = Job
    BY <1>0, <1>1, <2>1, <2>2 DEF SweepFinish, QuietInv
  <2>3. CASE t # Job
    BY <1>0, <1>1, <2>1, <2>3 DEF SweepFinish, QuietInv
  <2>4. QED
    BY <2>2, <2>3
<1>2. ASSUME NEW t \in Threads, SweepStart(t) \/ ReleaseLock(t) \/ SweepFails(t) PROVE QuietInv'
  <2>1. UNCHANGED <<boot, done, deploy, paused, ours, stamp, woken>>
    BY <1>2 DEF SweepStart, ReleaseLock, SweepFails
  <2>2. CASE t # Job
    <3>1. pc'[Job] = pc[Job] /\ first' = first
      BY <1>0, <1>2, <2>2 DEF SweepStart, ReleaseLock, SweepFails, SendsTypeOK
    <3>2. QED
      BY <2>1, <3>1 DEF QuietInv
  <2>3. CASE t = Job
    <3>1. \/ pc[Job] = "begin" /\ pc'[Job] = "sweep" /\ first' = first
          \/ pc[Job] = "end" /\ pc'[Job] = "decide" /\ first' = first
          \/ first' = FALSE
      BY <1>0, <1>2, <2>3 DEF SweepStart, ReleaseLock, SweepFails
    <3>2. QED
      BY <2>1, <3>1 DEF QuietInv
  <2>4. QED
    BY <2>2, <2>3
<1>3. ASSUME NEW r \in Refreshers, Click(r) \/ Refresh(r) PROVE QuietInv'
  <2>1. pc'[Job] = pc[Job] /\ UNCHANGED <<boot, done, deploy, woken, paused, ours, stamp, first>>
    BY <1>0, <1>3 DEF Click, Refresh, TakeLock
  <2>2. QED
    BY <2>1 DEF QuietInv
<1>4. CASE JobStart
  <2>1. /\ pc[Job] = "idle" /\ pc'[Job] \in {"begin", "decide"}
        /\ UNCHANGED <<boot, done, deploy, woken, paused, ours, stamp, first>>
    BY <1>0, <1>4 DEF JobStart, TakeLock
  <2>2. QED
    BY <2>1 DEF QuietInv
<1>5. CASE Decide
  BY <1>0, <1>5 DEF Decide, QuietInv
<1>6. ASSUME NEW t \in Targets, MailNext(t) PROVE QuietInv'
  <2>1. /\ pc[Job] \in {"mail", "mark"}
        /\ UNCHANGED <<boot, done, deploy, woken, paused, ours, stamp>>
        /\ first' => first
    BY <1>6 DEF MailNext, SkipNoData, RenderRaises, SendAccepted, SendUnanswered, SendRefused,
                MarkSent, MarkRaises, MailLeaves, AtTarget, GoOn, JobRaises
  <2>2. QED
    BY <2>1 DEF QuietInv
<1>7. CASE JobEnd
  BY <1>7 DEF JobEnd, QuietInv
<1>8. CASE Crash
  <2>1. boot' = boot + 1 /\ ours' = FALSE /\ UNCHANGED <<done, deploy, stamp, woken, paused>>
    BY <1>8 DEF Crash, Restart
  <2>2. QED
    BY <1>0, <2>1 DEF QuietInv
<1>9. CASE DeployRestart
  <2>1. /\ boot' = boot + 1 /\ stamp' = boot' /\ UNCHANGED <<done, paused>>
        /\ deploy = "push" /\ deploy' = "wait" /\ woken' = woken \ {"refresh"}
        /\ pc'[Job] = "idle"
    BY <1>0, <1>9 DEF DeployRestart, Restart
  <2>2. boot' \notin done
    BY <1>0, <2>1 DEF QuietInv
  <2>3. "operator" \notin woken' => paused'
    BY <2>1 DEF QuietInv
  <2>4. done' \subseteq 1..boot'
    BY <1>0, <2>1 DEF QuietInv
  <2>5. QED
    BY <2>1, <2>2, <2>3, <2>4 DEF QuietInv
<1>10. CASE DeployPause
  BY <1>10 DEF DeployPause, QuietInv
<1>11. CASE DeployFails
  BY <1>11 DEF DeployFails, QuietInv
<1>12. CASE DeployResume
  <2>1. /\ deploy = "wait" /\ deploy' = "none" /\ pc[Job] \notin {"end", "decide"}
        /\ UNCHANGED <<boot, done, pc, woken, ours, stamp, first>>
    BY <1>12 DEF DeployResume
  <2>2. ours => boot \in done
    BY <1>0, <1>12, <2>1 DEF DeployResume, SweepSeen, QuietInv
  <2>3. QED
    BY <2>1, <2>2 DEF QuietInv
<1>13. CASE Toggle \/ SettingsOpen \/ SettingsSave
  <2>1. UNCHANGED <<boot, done, pc, deploy, stamp, first, ours>>
    BY <1>13 DEF Toggle, SettingsOpen, SettingsSave
  <2>2. paused \in BOOLEAN /\ form \in BOOLEAN
    BY DEF SendsTypeOK
  <2>3. /\ woken \subseteq woken'
        /\ paused /\ ~paused' => "operator" \in woken'
        /\ ~paused => woken' = woken
    BY <1>13, <2>2 DEF Toggle, SettingsOpen, SettingsSave
  <2>4. deploy # "none" /\ "operator" \notin woken' => paused'
    BY <2>3 DEF QuietInv
  <2>5. woken' = {} => woken = {} /\ (paused => paused')
    BY <2>3
  <2>6. QED
    BY <2>1, <2>4, <2>5 DEF QuietInv
<1>14. CASE Tick \/ \E t \in Targets : Configure(t)
  <2>1. UNCHANGED <<boot, done, pc, deploy, woken, paused, ours, stamp, first>>
    BY <1>14 DEF Tick, Configure
  <2>2. QED
    BY <2>1 DEF QuietInv
<1>15. CASE UNCHANGED sendsVars
  BY <1>15 DEF sendsVars, QuietInv
<1>16. QED
  BY <1>1, <1>2, <1>3, <1>4, <1>5, <1>6, <1>7, <1>8, <1>9, <1>10, <1>11, <1>12, <1>13, <1>14, <1>15
  DEF SendsNext

\* Unless the operator resumes the sends or saves the settings, or a manual
\* refresh finishes meanwhile, the first run after deploy.sh's restart sends nothing.
THEOREM DeployIsQuiet == SendsSpec => DeployStaysQuiet
<1>1. SendsInit => QuietInv
  BY QuietInit
<1>2. SendsTypeOK /\ QuietInv /\ [SendsNext]_sendsVars => QuietInv'
  BY QuietStep
<1>3. QuietInv => [MailStep /\ first /\ ours => woken # {}]_sendsVars
  BY DEF QuietInv, MailStep
<1>4. QED
  BY <1>1, <1>2, <1>3, Typing, PTL DEF SendsSpec, DeployStaysQuiet
-----------------------------------------------------------------------------
(* Why the mailer's loop ends, but for the fairness: what it has before it  *)
(* is fixed when the due list is read, and only its own steps take from it. *)

InLoop == pc[Job] \in {"mail", "mark"}

\* Every target is reached and, if its report left, marked.
StepsLeft == 2 * Cardinality(todo) + (IF pc[Job] = "mail" THEN 1 ELSE 0)

\* A step ends the loop, shortens it or leaves it alone.
LoopGoesOn ==
    \/ ~InLoop'
    \/ StepsLeft' < StepsLeft
    \/ todo' = todo /\ pc'[Job] = pc[Job]

LEMMA LoopShortens ==
    ASSUME SendsTypeOK, InLoop, NEW t \in Targets, MailNext(t)
    PROVE  LoopGoesOn
<1>0. pc \in [Threads -> SendPhases] /\ Job \in Threads
  BY DEF SendsTypeOK, Threads
<1>1. IsFiniteSet(todo) /\ Cardinality(todo) \in Nat
  <2>1. todo \subseteq Targets /\ IsFiniteSet(Targets)
    BY TargetAssumption, FS_Interval DEF SendsTypeOK, Targets
  <2> QED
    BY <2>1, FS_Subset, FS_CardinalityType
<1>2. CASE GoOn(t)
  <2>1. t \in todo
    BY DEF MailNext, SkipNoData, RenderRaises, SendAccepted, SendUnanswered, SendRefused,
           MarkSent, MarkRaises, MailLeaves, AtTarget, Current
  <2>2. Cardinality(todo \ {t}) = Cardinality(todo) - 1
    BY <1>1, <2>1, FS_RemoveElement
  <2>3. Cardinality(todo') = Cardinality(todo) - 1 /\ pc'[Job] = "mail"
    BY <1>0, <1>2, <2>2 DEF GoOn
  <2> QED
    BY <1>1, <2>3 DEF LoopGoesOn, StepsLeft
<1>3. CASE JobRaises
  BY <1>0, <1>3 DEF JobRaises, LoopGoesOn, InLoop
<1>4. CASE SendAccepted(t)
  <2>1. pc[Job] = "mail" /\ pc'[Job] = "mark" /\ todo' = todo
    BY <1>0, <1>4 DEF SendAccepted, MailLeaves, AtTarget
  <2> QED
    BY <1>1, <2>1 DEF LoopGoesOn, StepsLeft
<1> QED
  BY <1>2, <1>3, <1>4 DEF MailNext, SkipNoData, RenderRaises, SendUnanswered, SendRefused,
                          MarkSent, MarkRaises

(***************************************************************************)
(* Every step while the mailer is in its loop ends the loop, brings it      *)
(* nearer to the end or leaves it alone: switches, targets that become due  *)
(* and refreshes never prolong a run of run_report_emails.                  *)
(***************************************************************************)
THEOREM LoopGetsShorter == SendsSpec => [][InLoop => LoopGoesOn]_sendsVars
<1>1. ASSUME SendsTypeOK, [SendsNext]_sendsVars, InLoop PROVE LoopGoesOn
  <2> USE DEF process, sweepRows, switches, script, mails, bootLog
  <2>0. pc \in [Threads -> SendPhases] /\ Job \in Threads /\ Job \notin Refreshers
    BY <1>1, SendsThreadAssumption DEF SendsTypeOK, Threads
  <2>1. ASSUME NEW t \in Threads, SweepStep(t) PROVE LoopGoesOn
    <3> USE DEF SweepStep, SweepStart, SweepFinish, ReleaseLock, SweepFails
    <3>1. t # Job
      BY <1>1, <2>1 DEF InLoop
    <3> QED
      BY <2>0, <2>1, <3>1 DEF LoopGoesOn
  <2>2. ASSUME NEW r \in Refreshers, Click(r) \/ Refresh(r) PROVE LoopGoesOn
    BY <2>0, <2>2 DEF Click, Refresh, TakeLock, LoopGoesOn
  <2>3. CASE JobStart \/ Decide
    BY <1>1, <2>3 DEF JobStart, Decide, InLoop
  <2>4. ASSUME NEW t \in Targets, MailNext(t) PROVE LoopGoesOn
    BY <1>1, <2>4, LoopShortens
  <2>5. CASE JobEnd \/ Crash \/ DeployRestart
    BY <2>0, <2>5 DEF JobEnd, Crash, DeployRestart, Restart, LoopGoesOn, InLoop
  <2>6. CASE \/ DeployPause \/ DeployFails \/ DeployResume
             \/ Toggle \/ SettingsOpen \/ SettingsSave \/ Tick
    BY <2>6 DEF DeployPause, DeployFails, DeployResume, Toggle, SettingsOpen, SettingsSave, Tick,
                LoopGoesOn
  <2>7. ASSUME NEW t \in Targets, Configure(t) PROVE LoopGoesOn
    BY <2>7 DEF Configure, LoopGoesOn
  <2>8. CASE UNCHANGED sendsVars
    BY <2>8 DEF sendsVars, LoopGoesOn
  <2> QED
    BY <1>1, <2>1, <2>2, <2>3, <2>4, <2>5, <2>6, <2>7, <2>8 DEF SendsNext, SweepStep
<1> QED
  BY <1>1, Typing, PTL DEF SendsSpec
=============================================================================
