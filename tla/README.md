# dmarctool in TLA+

dmarctool is a single-operator dashboard: a FastAPI process (`app/web.py`) over
one SQLite file, which pulls DMARC aggregate reports from a mailbox, checks the
domains it tracks against a dozen outside services, raises *action items*, and
emails plain-language reports to the domains' owners. This directory holds TLA+
models of the parts whose correctness depends on order: threads with a SQLite
connection each, a lock that covers only some of them, a process that a deploy
script kills, a queue that delivers at least once, and mail that cannot be
unsent.

## 1. Inventory

| Part | State it keeps | Operations | Talks to |
|---|---|---|---|
| Mailbox ingest, `imap_ingest.py` | `imap_ingest_state` (UIDVALIDITY, last UID) | one pull: search above the mark, fetch chunks of 50, store, save the mark | IMAP server; `ingest.py`; called by the sweep and by `POST /fetch_reports` |
| Parsing and storage, `ingest.py` | `reports`, `report_records`, `record_auth_results`, `domains` | `_process_blob`, `store_report`, `ingest_source` (upload) | SQLite, three kinds of caller |
| Sweep and scheduler, `web.py`, `system_status.py` | `_checks_lock`, `sweep_runs` | `run_all_checks` (20 steps), `_job` every six hours, `POST /run_checks` | every check; the mailer |
| Report emails, `domain_report.py` | `last_sent_at`, `report_sends`, groups | due list, send loop, test send | Mailgun; switches in `settings` |
| Pause switch, `actions.py`; settings page | `settings` | pause, resume, edit | the mailer, the deploy script |
| Deploy, `scripts/deploy.sh` | the script's own progress | pause, push, restart, wait, resume | `actions.py`, launchd, `sweep_runs` |
| SES drain, `ses_events.py` | `ses_campaigns`, `ses_event_counts`, `ses_suppressions`, an action item | receive, write, delete, commit, aggregate | SQS; action items; the CSV route |
| Mailgun, `mailgun.py`, `mailgun_campaigns.py` | stats, suppressions, campaigns | identity stats replaced, daily stats, campaigns and suppressions upserted | Mailgun API; action items |
| Action items, `analysis.upsert_system_action`, `actions.resolve_action` | `action_items` | upsert, auto-dismiss, resolve | every check and the user |
| Policy analysis, `analysis.py` | `policy_history`, the `ramp_recommendation` item | derive, recommend, claim progress | reports; the owner, who publishes what is advised |
| Outside checks: DNS, blocklists, expiry, MTA-STS, Safe Browsing, report authorization, lookalikes, compliance, postmaster | a row per check | look up, record, raise or dismiss an item | network; action items |
| Notifications: bounce, subscriber, expiry | `*_notification_sends` | build since the last one, send, record | Mailgun; the SES drain writes what they read |
| Email verifier, `email_verifier.py`, `web.py` | batches, verdict cache, `_verifier_batch_lock` | check one, upload, batch thread with workers, delete | SMTP, DNS |
| Domain lifecycle and groups | `domains`, `domain_report_groups` | add, untrack, delete, group | some thirty tables refer to `domains.id` |
| Classification, scoring, report text, PDF, charts, labels | none | pure functions | the pages |

How they interact: almost entirely through SQLite rows, each thread on its own
connection (WAL, 60 s busy wait), without a lock except the sweep's and the verifier's. The hard
behaviours are the overlaps that lock does not cover, transactions left open
when an exception is swallowed, network calls that succeed and are reported as
failed, a `kickstart -k` at any point, values read once and used for minutes
(the mailer's switches, the settings form), and acknowledgements the program
gives itself. Within one component: a lookup that fails and an item dismissed
because of it, a report built from four reads between which items move, ids that
SQLite gives to the next domain or batch, and a "since the last one" whose
cutoff is the time of recording and not of reading. `PROJECT.json` lists each
hazard at its line.

What makes the parts correct: no mail is left behind the mark and no report is
stored twice; no client gets a report twice or while sends are paused; the
status panel tells the truth; no delivery event is lost or half counted; what
the user has not seen stays visible, what he has seen does not come back; a
warning is closed on evidence and comes back when it was not; a report does not
contradict itself and leaves out no repair; a client hears of everything once;
advice only points up; a batch is verified alone and adds up; rows stay with
their domain.

## 2. Modules

**`ImapIngest`** (instance `MCImapIngest`, proofs `ImapIngestProofs`).
`saved` is the `imap_ingest_state` row; `rows` counts committed `reports` rows
per report, `half` holds reports whose row was committed without records;
`run[t]` is the frame of `run_imap_ingest` in a thread, `txn[t]` the report row
it has inserted and not committed. Threads are the sweep's ingest step, Fetch
buttons and uploads. Actions follow the code: `StartRun`/`StartRunBadly` (connect,
STATUS, search), `FetchChunk`/`FetchRefused`/`ConnectionLost`, one of
`StoreReport`, `SkipDuplicate`, `ListError`, `RaiseBeforeInsert`,
`RaiseAfterInsert` per mail, `ChunkDone` and `FinishRun` (`_set_state`),
`SweepGoesOn` (the swallowed exception and the next step's commit on the same
connection). The environment delivers, ages and renumbers mail and kills the
process. `handled` and `refused` are history variables.
Abstractions: a mail carries one report, and is one of four kinds by what
parsing it does; the write lock that a duplicate's failed INSERT holds until
the next commit is not modelled (only a torn transaction blocks writers); a
connect or select failure is a run that does nothing; creating the domain row
is left out.

**`ScheduledSends`** (its own instance, proofs `ScheduledSendsProofs`).
`lock` is `_checks_lock`; `open` and `done` are `sweep_runs` rows by the start
of the process (`boot`) that wrote them; `paused`, `form` the pause switch and
the value an open settings page holds; `active`, `last`, `todo` the switched-on
targets, `last_sent_at` and the mailer's due list; `deploy`, `stamp` the
script. `TakeLock`, `SweepStart`, `SweepFinish`, `ReleaseLock` are steps of their
own: the lock is taken before its `sweep_runs` row is committed, which may wait
for another writer, and released after the row is finished, so for two short
windows a sweep holds the lock and the sidebar shows none; `StatusIsHonest` says
that there are no others. A target is a domain or a group: both send functions take the same
steps. `mailed`, `early`, `unmarked`, `first`, `ours`, `woken`, `held` are history
variables for the properties. Abstractions: the six-hour interval is "again and
again"; `started_at >= RESTART_TS` is a comparison of boot numbers; the
script's `sleep 15` is taken to outlast the few statements between
`record_sweep_finish` and the read of the switch (the guard on
`pc[Job]` of `DeployResume`); launchd restarts the process at once;
`report_emails_enabled` is folded into `active`; `report_sends` is a log nobody
reads back; the test button and `python -m app.domain_report` are left out.

**`SesDrain`** (instance `MCSesDrain`, proofs `SesDrainProofs`).
`queue` is SQS, `db` what is committed, `view` the same with the sweep
connection's uncommitted work, `counts` and `fresh` the drain's two
dictionaries. `Receive` writes a batch, `DeleteBatch`/`DeletePartly`/
`DeleteRaises` is `delete_message_batch`, `CommitBatch`, `Aggregate` and
`FinishDrain` the rest; `Review` is the user marking the reminder done after
downloading the CSV (`NewOnly`). Abstractions: one configuration set, campaign
and day, one recipient per event; a batch interrupted in the middle of its
writes equals a smaller batch whose rest reappears; reputation verdicts,
rejected mail, content checks and the backlog item are left out. An exception
between the loop and the daily counts is left out too: it loses what a kill
there loses.

**`ActionItems`, `OutsideChecks`, `AccountChecks`, `MailChecks`, `SweepChecks`**
(proofs `SweepChecksProofs`). Twenty-three checks of a sweep, one action each.
`world` is what the outside would answer now (a DNS record, a listing, rates of
sent mail), `lost` the set of lookups of this run without an answer, `memory`
what the check's own table keeps for the next run (`due` is the recheck window,
`found` and `ignored` the look-alike rows, `scored` a newsletter's body),
`items` the newest action item per key. `Settle(raised, cleared)` is
`upsert_system_action` for the one and the dismissing `UPDATE` for the other.
What a failed lookup does is each check's own: it leaves the items alone
(blocklist, Safe Browsing), closes them (MTA-STS, expiry, SPF, DKIM, report
authorization), raises one (live DNS), or ends the run. The user closes items
(`Resolve`, from `resolve_action`) and marks look-alikes as known
(`SetIgnored`); a kill separates the look-alike rows from their item.
Abstractions: one subject per check, except where several share a key (domains
behind one address, zones of one blocklist, destinations of one `rua=`);
thresholds are kept, the counts that reach them are a few values around each;
one writer per category.

**`Background`** (instance `MCBackground`) puts the four together, as `Workbench`
does with the last five: `BackgroundNext` takes a step of the part that the
behaviour follows, `BackgroundFairness` is the parts' own fairness. The parts of
each share no variable, so a behaviour picks one at the start (`part`, and
`focus` for one check of `SweepChecks`) and the others keep their first state:
the behaviours are the union over the parts, not their product, and a run shows
each part over all its own interleavings.

**`OwnerReport`** (proofs `OwnerProofs`). What the report of one domain says
about its items. `raised` and `past` are its open and closed items, `report` the
locals of `build_domain_report` between its four reads (`SplitBlocklist`,
`ReadCategories`, `ListStillOpen`, `ListResolved`), while `RaiseFinding`,
`CloseFinding` and `AddressLost` go on. `StartReport` takes the run's `now`;
`Delivered` marks the time after the send. A report speaks in sentences, not
categories (`Said`, `Story`: the two reputation categories share one), and lists
each sentence once; what it leaves out of the fixes it leaves out by category.
`told`, `missed`, `moved` are history
variables. Sentences, numbers and the risk text's wording are left out: a risk
is there or not.

**`Verifier`, `OneAtATime`** (proofs `VerifierProofs`). `verify_email` as a
function from what servers answer to a stored row (`RowOf`), the cache
(`cached`), batches and their items, one frame per batch thread (`threads`, with
the batch id each was given), the thread that holds `lock`, and requests between
check and act (`uploads`, `deletes`). Workers answer in any order while the
thread counts. `reused` and `lost` are history variables: ids given away while
an earlier thread still had them, and batches with an answer that was counted
and not stored. `OneAtATime` is what the comment above `_verifier_batch_lock`
promises, without a lock; `TakesTurns` is the refinement, which is proved
(*LockTakesTurns*) and has no run: what it says beyond `OneBatchProbes` follows
from the shape of the start and the release. Abstractions: servers answer
anything in `Replies`; whether a row is still fresh is a free choice.

**`ClientNotices`** (proofs `OwnerProofs`). The two buttons that write
to a client about what is new since the last notice: `people` are the rows the
drain goes on writing (`Hear`), `clicks` the requests under way between `Build`,
the mail and `Record`, `lastSent` the cutoff. The chronic bounces come along in
a notice and their item's closing moves their cutoff (`reviewed`).
`mailed`, `twice`, `late`, `excused` are history variables.

**`PolicyRamp`** (proofs `OwnerProofs`). `published` is what the owner has in
DNS, `seen` what the reports say, a day late or from a cache; ages count back
from today, so a new day shifts both. `RunStart`, `Rate`, `Recommend` are
`derive_policy_history`, `current_policy_run` with the rolling window, and
`recommend`; `Tightened` is `_protection_tightened`; `Follow` is the owner doing
what the open item says. Abstraction: a day's pass rate and volume are one of
four qualities.

**`DomainLifecycle`** (proofs `DomainLifecycleProofs`). `tracked` maps ids to
names; `reportsOf` and `filed` are two of the tables under an id, named after
what their rows are about; `writers`, `sweepRows`, `removal`, `mailing` are ids
that the ingest, the add form, `run_dns_checks`, the untrack or delete form and
`run_report_emails` have looked up and not used yet. `Create` gives out the
highest id plus one. The mailing can overlap the sweep of a Refresh: the job
has released the lock when it mails. `counted`, `strange`, `raced` are history
variables. Abstractions: every target is due; `filed` stands for all tables
`_delete_domain_cascade` empties besides the reports; renaming and pinning of
groups change nothing a property is about.

**`Workbench`** (instance `MCWorkbench`, proofs `WorkbenchProofs`) puts the last
five together.

## 3. Runs

| Run | Shows | Bounds |
|---|---|---|
| `background` | the safety of ingest, sends, drain and checks | see below |
| `background_live` | their liveness | see below |
| `workbench` | the five parts of `Workbench`, safety and liveness | see below |
| `refused_chunk` | *violated*: a refused chunk does not retry | chunks of 1, 1 refusal |
| `rest_processed` | *violated*: one raising attachment stops the rest | no fault |
| `double_counted` | *violated*: an export uploaded twice counts a report without an identity twice | 3 mails, 1 uploader, no fault |
| `deploy_quiet` | *violated*: a manual refresh makes the restart mail | 1 target, no fault |
| `pause_holds` | *violated*: a stale settings page lifts the pause | 2 targets, no fault |
| `unreviewed_new` | *violated*: the drain acknowledges for the user | no fault |
| `fixed_and_open` | *violated*: one sentence is fixed and still open in one report | the two reputation findings, 1 move |
| `told_once` | *violated*: a subscriber the client was told of counts as new again | 1 subscriber, 1 click at a time, no mishap |
| `six_numbers` | *violated*: the six numbers of a batch in capitals do not add up | no kill, no exception |

The bounds of `background`: ingest, the sweep and a Fetch button over 3 mails (one a
torn copy of another's report, one malformed), chunks of 2, 2 UIDVALIDITY values, one
mail that leaves the search window, 1 fault; sends, 1 target, a Refresh, the settings
page, 2 boots, 2 ticks, no failed send or write; drain, 3 events, 2 addresses, batches of 2, 3
seconds, 1 fault; checks, every world of each check, any lookups unanswered, 3 changes
or clicks, 2 zones, 2 domains, 2 destinations, 1 look-alike.

Those of `background_live`, where each part is smaller because TLC searches all cycles:
ingest, the sweep and one upload, one mail that raises, no mail that leaves the window
(such a mail counts as accounted for); sends, 3 targets, one without data, one switched
on and off, one that cannot be rendered, 1 failed send or write (`RepeatsBounded`
is checked again here, where a mark can be lost to a fault as well as to a kill);
drain, one second (its liveness compares no times); checks, 2 changes or clicks (one
before and one after a run).

The bounds of `workbench`: owner report, 7 findings (two that share a sentence, two on the
blocklist, a weakened policy, one never told as resolved, one lost address), none or
all open at first, 2 moves, 3 ticks; verifier, 2 threads
and 2 batch ids, a list with a capital letter, a catch-all server that fails a probe, 1
kill, exception, deletion or single check; notices, 1 address, 2 clicks, 3
seconds, 1 kill or lost answer; ramp, one rung, one stable day, a window of two,
4 remembered days, 1 bad, odd or republished day; lifecycle, 2 names that take
turns on 1 id, 1 group, 2 forms.

Why the bounds are enough: two chunks, two mails of one report, two overlapping
runs and one renumbering are the smallest instances in which a mark can be
wrong, and each is reachable; one fault at any step is what the code has to
survive before the next run repairs it; two boots hold one deploy or one crash;
two ticks with an interval of one make a target due, sent and due again; three
events in batches of two need two batches. A check's run reads the world once,
so one change before it, one after it and one click are every relation of item
and world it can meet. A report has four reads: from a domain with everything
open, two moves close any two findings, or close one and raise it again, between any
two reads; from a clean one they raise and close one. Two batch ids are one reused id and one
overlap; two clicks one overlap; three seconds a row before, in and after the
second of a recording. One domain id is the smallest instance in which an id
changes hands, which is what the lifecycle's hazards are about. Everything
proved (section 5) holds without the bounds. Deadlock is not checked: mail stops
arriving, faults, boots, changes and requests are used up and the instance comes
to rest.

Each property of a passing run has a mutant: an operator of the same module
that changes one mapped definition as a plausible bug would, under which TLC
finds the property violated.

The nine violated properties are each the statement of a comment, docstring,
manual line or message of the program; `PROJECT.json` quotes it with the lines
of the code that contradict it.

What the passing properties set aside is part of what they show. Each exception
is named in the property and can happen in the model:

- `ClearedOnAnswers` does not speak of the eight checks of `Forgetful`, which
  close an open warning because a lookup failed, against the docstring of
  `lookalike._dig` in one case (`PROJECT.json`, findings); `ItemsFollowTheWorld` says the
  warning comes back, and `OutOfSight` names what is not looked at any more.
- `StoredAtMostOnce` is about reports with an org_name and a report_id; the
  others are stored at each read (`double_counted`). `HandledIsStored` accepts a
  row without its records (`SweepGoesOn`).
- `EventuallyReported` does not speak of targets behind one whose rendering
  raises, and `DeployStaysQuiet`, `PauseHolds` not of a loop already under way.
- `FixesAreTold`: what happened after the run took its `now` and before the mark
  lies in neither period; a fix whose category is still open is not told, nor one
  of a category that is never told; an address that left a blocklist is not told
  when a disowned one speaks for the category; and what moved while the report
  was read may be missed. Every other fix has to be told.
- `SectionsAgree`: of a sentence that two categories share only that the other
  sections agree with it (`fixed_and_open`), and of a blocklisted address hidden
  behind another nothing.
- `ToldOnce`: a subscriber may be written about again after another newsletter
  (`told_once`).
- `NewsIsTold`: a bounce that turns permanent keeps its `first_seen_at`, and
  what is stored while a notice is mailed is older than its record.
- `DoneMeansCounted` and `BucketsAddUp`: a batch id deleted before its thread
  began can be given to the next upload, which the first thread then declares
  done; addresses with capitals are verified under their lower-case form and not
  joined; an exception in a worker is counted as "unknown" and stored nowhere
  (`six_numbers`, for the docstring that does not set them aside).
- `CountedIsKept`: a report whose domain is removed between the lookup and the
  INSERT counts as a duplicate. `OwnRowsOnly`: an id given away
  while a thread held it takes that thread's row. `OncePerRun`: a domain that
  moved between groups during the run. These three bound the races, and do not
  forbid them. A report stored between the count of `untrack_domain` and its
  deletes goes with the domain: the model has it, and no property is left once it
  is set aside.
- `NoInventedClaim` asks that the published policy went up on some remembered
  day, not by how much: a day's reports may be of the day before. Newest reports
  that leave `pct` out read as 100, and are set aside.

## 4. Fairness

Each part's fairness is stated in its module and repeated, for the part that
moves, in `BackgroundFairness` and `WorkbenchFairness`. `IngestFairness`: weak fairness on the sweep's own steps only: APScheduler
starts it again every six hours and every network call has a time-out. The
Fetch button, uploads, mail, refusals and kills owe nothing.
`SendsFairness`: the job, the sweep's steps up to the release of the lock and the mailer's steps; a
send must end but need not be accepted (faults are bounded). Nobody has to
click, pause or deploy. `DrainFairness`: the drain's steps, and SQS making
an undeleted message visible again.
`ChecksFairness`: weak fairness that the recheck window passes, and strong
fairness on `RunWith({})`, a run that gets all its answers. It is strong because
a check is disabled while its subject is fresh; it says that sweeps go on and
that lookups do not fail for ever, which the code cannot enforce and every
check's retry at the next sweep relies on. `Workbench`: weak fairness on the
batch threads of the verifier (the operating system runs them; SMTP and DNS
calls have time-outs) and on days passing, yesterday's reports arriving, the
sweep analysing them, and the owner following open advice:
`EnforcedInTheEnd` is about an owner who does what he is told. The report, the
notices and the lifecycle have no fairness: nobody has to click.

## 5. Proofs

All theorems hold for every value of the constants that satisfies the named
assumptions (finite set of mails, disjoint threads, an interval above 0, ...).

- `ImapIngestProofs`. *Typing*. *WatermarkSafe*: the mark is saved from a
  run's local `mark` and `top`, so the invariant `MarkInv` says of each run,
  under the UIDVALIDITY it read, that everything at or below `mark` is
  accounted for, that what is at or below `top` is accounted for or still in
  `cur`, and that what is left to fetch lies above both; `SavedInv` says that
  of the saved row. Two runs may save in any order because each one's own
  claim is true when it saves. *OnceStored*: `RowInv` adds that only the sweep
  holds an open transaction, only between its exception and the next commit, and
  that the report it inserted has no committed row. *HandledAreStored* is
  inductive as it stands: no step takes a row or a torn row away.
- `ScheduledSendsProofs`. *Typing* needs `LockInv` (the holder of the lock is
  the one thread sweeping, and has one unfinished row in this boot once it is past
  `record_sweep_start` and before `record_sweep_finish`), which also gives
  *HonestStatus* (a row shown means a lock held; a lock held without a row means
  one of the two windows), and *SweepsTakeTurns*: the sweeps of the job and of
  the Refresh button implement `OneAtATime`, because who sweeps is the holder of
  the lock and no step hands it from one thread to another
  (`LockIsNotHandedOver`), a kill included; no run checks this one.
  *RepeatsAreBounded* from `RepeatInv`: a target on the due list is due by its
  `last_sent_at`, and a mail later than that, unless its mark is the job's next
  step, is a lost one that no repeat has used up.
  *DeployIsQuiet* from `QuietInv`: as long as operator, settings page and
  refresh stay out of it, the only finished row of this boot is the job's own,
  so by the time the script goes on the job has read the switch, still paused.
  *LoopGetsShorter*, for `EventuallyReported`: what the mailer has before it
  falls with each of its steps, and no switch, no target that becomes due and no
  refresh prolongs it.
- `SesDrainProofs`. *Typing*; *DeletedAreCounted* (`QueueInv`: a deleted event
  is tallied, in the batch awaiting its commit, or lost);
  *CountsAgreeBetweenDrains* (`CountInv`: tallies are daily counts plus this
  run's dictionary); *NewAreAnnounced* (`NewsInv`, the same for suppressions);
  *ReviewedAreOld* (`StampInv`: no time stamp is ahead of the clock, the open
  transaction changes none that is committed except for a rising watermark, and
  an acknowledged address was first seen no later than the watermark).
- `SweepChecksProofs`. *Typing* over all twenty-three checks. *AnswersOnly* and
  *StaysQuiet* are action properties: `RunClearsOnAnswers` goes through the
  checks one by one from `SettleEffect`, the one lemma on what settling does;
  *StaysQuiet* needs `ScoredBefore` (a newsletter has an item only once it was
  scored). *OneStory*, *OneTier*: the two keys are never both raised and each
  run clears what it does not raise. *KnownAreQuiet*: re-deriving the item
  respects the user's marks, so a kill before it leaves a closed item closed.
- `OwnerProofs` (ramp, report, notices). *NeverAdvisedDown*, for any ladder: `NextPercentRises` (the
  next rung, by `Min`, is above the present one) and `RaisedIsStronger`.
  *ClaimsAreEarned* from `DaysInv`: what the reports of a day say was published
  that day or the day before. A claim compares two days, the policy is higher on
  the later one, and it went
  up at the day after the latest lower one (`StepBetween`, by a minimum).
  *FixesReachTheOwner* from `FixesInv`: unless something moved, the sentences of
  what was resolved are what the database still says when the report is marked,
  so a fix without its sentence is open, never told, or behind a disowned address.
  *ReportSectionsAgree* from `SectionsInv`: headline, praise and tips follow
  from one read of the open categories, what is listed are their sentences up to
  the blocklist's speaker, and a sentence that is also a fix comes from another
  category. *AllNewsIsTold* from `ToldInv`: a click under way has
  read what is to be told, but for what was told before or came late.
  *NewsIsToldOnce* from `OnceInv`: what was mailed is excused, too old for the
  next notice, or in an accepted one not recorded yet; and what a click is about
  to mail nobody else has read, or it is excused. *RampTyping*, *ReportTyping*
  (`ReportBounds`: what was told or missed are rows, and no row goes away) and
  *NoticesTyping* (`NoticesBounds`: whoever has a row bears the stamp of a second
  that has come, so no piece of news is stamped 0).
- `VerifierProofs`. *OneBatchAtATime*: whoever is at work holds the lock
  (`VerifierInv`; `0` is nobody, and `Kill` frees all). *LockTakesTurns*: every
  step maps to a `Start`, a `Stop` or a stutter of `OneAtATime`. *DoneIsCounted*
  and *SixNumbersAddUp* from `CountInv`. A thread whose row is its own (its id
  was never given away under it) is the only one given that batch (`Sole`), so
  nobody else writes the row; of such a thread `Account` says that what is still
  to ask, what is answered and not counted, and what is counted add up to the
  total, that the row says the same as the thread, and that every address not to
  ask any more has a stored verdict unless a worker raised. The six numbers are
  the sizes of six sets that part the batch's addresses: each stored row is in
  one bucket. The counters are four fields, so no sum over a set is needed.
  *TurnsGetShorter* is what `LockComesBack` rests on besides fairness: only a
  thread at work holds the lock (`HolderWorks`), and `StepsLeft`, two for each
  item to ask, one for each answer to count and at most two for ending, falls
  with each of its own steps and rises with nobody's.
- `DomainLifecycleProofs`. *LifecycleTyping* and the three properties from `Typed`, whose part `NothingUnderFree`
  (nothing is left under an id nobody has) is what `_delete_domain_cascade`
  owes to the next owner of the id. *CountedReportsAreKept* (inductive with `Typed`), *RowsStayWithTheirDomain*
  (`Held`: a held id still has its name, nobody, or was given away) and
  *RunsMailOnce* (`DueInv`: what has been read waits the way its domain is
  delivered, and no group is asked twice). The typing adds `Recorded`: the log
  only has groups that exist, because a group with a log cannot be deleted.
- `WorkbenchProofs`. *WorkbenchTyping* and *WorkbenchSafety*: the safety
  properties of the run, of the five parts put together. `EachPartsOwn` shows
  that a behaviour of `Workbench` is a behaviour of each part's specification,
  because a step of one part is a stutter of the others; the parts' theorems do
  the rest. The argument does not use that a behaviour follows one part only.

Every invariant and every action property of a passing run is the statement of
a theorem; `BackgroundTypeOK` states, for the part that moves, one of four that are (*Typing*).
`Background` itself has no theorem: its parts' do not depend on it. Only model-checked are the liveness properties (`EventuallyAccounted`,
`EventuallyReported`, `EventuallyCounted`, `ItemsFollowTheWorld`,
`LockComesBack`, `EnforcedInTheEnd`), which are out of the prover's reach, as is
`ENABLED`; of two of them the part that needs no fairness is proved
(*TurnsGetShorter*, *LoopGetsShorter*). The statements of the violated runs are false and have no theorem. No
module declares a RECURSIVE operator.

## 6. Not modelled, and why

Left to model, in the order of use:

1. Two writers of one action item: `upsert_system_action` reads and inserts
   without a lock, so the Fetch button and the sweep can both insert. The item
   modules have one writer per category; nothing in the repository promises
   that an item is open only once, so there is no property to hold it to.
2. The steps of one sweep on their shared connection. `ScheduledSends` has the
   twenty steps as one, `ImapIngest`, `SesDrain` and `SweepChecks` have them one
   at a time; what a later step commits for an earlier one that raised is in
   `ImapIngest` (`SweepGoesOn`) only.
3. The `mailgun_new_suppressions` watermark: the function `SesDrain` models,
   over a list of Mailgun's own dates.
4. The expiry notice (it keeps no cutoff: every click mails the present dates),
   the test-send button, `python -m app.domain_report`, and a group's
   pinning and renaming.

Left out for good:

- Report text, newsletter tables, PDF, charts, labels and templates, the
  display-only scores, list sizes and per-open rows: pure functions of what was
  read, without state; better tested by examples.
- The campaign sync: an upsert of the newsletters one window of events holds,
  read by report tables only. Manual log items: one insert and one update by the user.
- The access log and audit middleware (one insert per request), the watchlist
  (a view), the planning helper (a development aid).
- The outside services beyond the answers the code tells apart, and SQLite
  beyond transactions, foreign keys and how it hands out ids.

## 7. Files

`X.tla` a component, `MCX.tla` its instance for TLC, `XProofs.tla` its theorems,
`*.cfg` one per run, `PROJECT.json` the index (components, runs, mutants,
source lines of each definition, findings, hazards, theorems).
