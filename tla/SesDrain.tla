------------------------------ MODULE SesDrain ------------------------------
(***************************************************************************)
(* app/ses_events.py: how bounce, complaint and delivery events get from    *)
(* the SQS queue into SQLite, and the "new suppressions" reminder and CSV   *)
(* that hang on them.                                                       *)
(*                                                                         *)
(* The drain is a step of the sweep, so one runs at a time.  Each batch is  *)
(* written to the campaign tallies and the suppression list, deleted from   *)
(* the queue and only then committed.  The daily counts and the reminder    *)
(* come after the loop, from two dictionaries in memory.  SQS delivers at   *)
(* least once: what was received and not deleted comes back.                *)
(*                                                                         *)
(* One configuration set, campaign and day; an event has one recipient.     *)
(* What the code tells apart about an event is EventKind: "bounce" (or      *)
(* complaint) goes to the tallies, the counts and the suppression list,     *)
(* "delivery" (or reject) to the tallies and the counts, "open" (or click)  *)
(* to the tallies, "foreign" (not an event, or no tracked domain) nowhere.  *)
(***************************************************************************)
EXTENDS Integers, FiniteSets

CONSTANTS
    Events,      \* what SES may publish to the queue
    EventKind,   \* the kind of an event (see above)
    Addresses,   \* recipients of the bounces
    AddressOf,   \* the recipient of a bounce
    BatchSize,   \* MaxNumberOfMessages
    MaxSecond,   \* bound: ticks of the clock
    MaxDrainFaults \* bound: refused and failed calls, kills

EventKinds == {"bounce", "delivery", "open", "foreign"}

ASSUME EventAssumption ==
    /\ EventKind \in [Events -> EventKinds]
    /\ AddressOf \in [Events -> Addresses]

ASSUME DrainBoundAssumption ==
    /\ BatchSize \in Nat \ {0}
    /\ MaxSecond \in Nat \ {0}
    /\ MaxDrainFaults \in Nat

VARIABLES
    second,      \* the clock, in the one-second steps of datetime('now')
    queue,       \* SQS: an event is "out", "queued", in "flight" or "gone"
    db,          \* what is committed (see EventStore)
    view,        \* db with what the sweep's connection has not committed
    step,        \* where run_ses_event_ingest is
    batch,       \* messages of the last receive, until their commit
    counts,      \* counts: how often this run counted an event
    fresh,       \* new_suppressions: the addresses this run saw first
    drainFaults, \* faults so far (see MaxDrainFaults)
    reviewed,    \* history: addresses in the CSV when the user closed a reminder
    lostEvents,  \* history: events whose batch a kill rolled back after the delete
    cutEvents, cutAddresses \* history: counts and fresh of runs cut short

drainRun  == <<step, batch, counts, fresh>>
history   == <<reviewed, lostEvents, cutEvents, cutAddresses>>
drainVars == <<second, queue, db, view, drainRun, drainFaults, history>>

\* tally: ses_campaigns (and its recipients), per event; daily: ses_event_counts,
\* per event; seen: first_seen_at in ses_suppressions, 0 when there is no row;
\* told: addresses a reminder has counted; item: the ses_new_suppressions item
\* is open; ack: the latest resolved_at of such an item, 0 when there is none.
EventStore ==
    [tally : [Events -> Nat], daily : [Events -> Nat], seen : [Addresses -> 0..MaxSecond],
     told : SUBSET Addresses, item : BOOLEAN, ack : 0..MaxSecond]

DrainFault == drainFaults < MaxDrainFaults /\ drainFaults' = drainFaults + 1
Queued == {e \in Events : queue[e] = "queued"}
Bounced(S) == {AddressOf[e] : e \in {b \in S : EventKind[b] = "bounce"}}

-----------------------------------------------------------------------------
(* The environment: SES, SQS and the clock.                                 *)

Publish(e) ==
    /\ queue[e] = "out"
    /\ queue' = [queue EXCEPT ![e] = "queued"]
    /\ UNCHANGED <<second, db, view, drainRun, drainFaults, history>>

\* The visibility timeout of a message ends.
Reappear(e) ==
    /\ queue[e] = "flight"
    /\ e \notin batch
    /\ queue' = [queue EXCEPT ![e] = "queued"]
    /\ UNCHANGED <<second, db, view, drainRun, drainFaults, history>>

SecondPasses ==
    /\ second < MaxSecond
    /\ second' = second + 1
    /\ UNCHANGED <<queue, db, view, drainRun, drainFaults, history>>

-----------------------------------------------------------------------------
(* run_ses_event_ingest.                                                    *)

Nothing == [e \in Events |-> 0]

StartDrain ==
    /\ step = "idle"
    /\ step' = "receive"
    /\ counts' = Nothing
    /\ fresh' = {}
    /\ UNCHANGED <<second, queue, db, view, batch, drainFaults, history>>

\* A bug: first_seen_at is written in local time, ahead of datetime('now').
FirstSeenLocal(S, a) ==
    IF a \in Bounced(S) /\ view.seen[a] = 0 THEN second + 1 ELSE view.seen[a]

\* A bug: ON CONFLICT also renews first_seen_at.
FirstSeenRenewed(S, a) == IF a \in Bounced(S) THEN second ELSE view.seen[a]

\* A suppression keeps its first_seen_at; a new one gets datetime('now').
FirstSeen(S, a) ==
    IF a \in Bounced(S) /\ view.seen[a] = 0 THEN second ELSE view.seen[a]

\* `existing`: the addresses of a batch that have no row yet.
NewIn(S) == {a \in Bounced(S) : view.seen[a] = 0}

\* Receive up to ten messages and write what they say, uncommitted.
Receive ==
    /\ step = "receive"
    /\ \E S \in SUBSET Queued :
          /\ S # {} /\ Cardinality(S) <= BatchSize
          /\ batch' = S
          /\ queue' = [e \in Events |-> IF e \in S THEN "flight" ELSE queue[e]]
          /\ counts' = [e \in Events |->
                          IF e \in S /\ EventKind[e] \in {"bounce", "delivery"}
                          THEN counts[e] + 1 ELSE counts[e]]
          /\ fresh' = fresh \cup NewIn(S)
          /\ view' = [view EXCEPT
                        !.tally = [e \in Events |->
                                     IF e \in S /\ EventKind[e] # "foreign"
                                     THEN @[e] + 1 ELSE @[e]],
                        !.seen = [a \in Addresses |-> FirstSeen(S, a)]]
    /\ step' = "delete"
    /\ UNCHANGED <<second, db, drainFaults, history>>

\* The queue is empty, or SQS answers with an error: the loop ends.
ReceiveNothing ==
    /\ step = "receive"
    /\ \/ Queued = {} /\ UNCHANGED drainFaults
       \/ DrainFault
    /\ step' = "counts"
    /\ UNCHANGED <<second, queue, db, view, batch, counts, fresh, history>>

\* The run ends here and its dictionaries are gone with it.
CutShort ==
    /\ cutEvents' = cutEvents \cup {e \in Events : counts[e] > 0}
    /\ cutAddresses' = cutAddresses \cup fresh

\* No connection: botocore raises what the loop does not catch.
ReceiveRaises ==
    /\ step = "receive"
    /\ DrainFault
    /\ step' = "raised"
    /\ CutShort
    /\ UNCHANGED <<second, queue, db, view, batch, counts, fresh, reviewed, lostEvents>>

Deleted(S) == queue' = [e \in Events |-> IF e \in S THEN "gone" ELSE queue[e]]

DeleteBatch ==
    /\ step = "delete"
    /\ Deleted(batch)
    /\ step' = "commit"
    /\ UNCHANGED <<second, db, view, batch, counts, fresh, drainFaults, history>>

\* A ClientError is swallowed, and so are the "Failed" entries of the answer.
DeletePartly ==
    /\ step = "delete"
    /\ DrainFault
    /\ \E S \in SUBSET batch : S # batch /\ Deleted(S)
    /\ step' = "commit"
    /\ UNCHANGED <<second, db, view, batch, counts, fresh, history>>

\* The call fails otherwise, before or after SQS has acted on it (or, before
\* it, a write of the batch meets a database that stays locked).
DeleteRaises ==
    /\ step = "delete"
    /\ DrainFault
    /\ Deleted(batch) \/ UNCHANGED queue
    /\ step' = "raised"
    /\ CutShort
    /\ UNCHANGED <<second, db, view, batch, counts, fresh, reviewed, lostEvents>>

\* A bug: only the end of the run commits.
CommitLater ==
    /\ step = "commit"
    /\ batch' = {}
    /\ step' \in {"receive", "counts"}
    /\ UNCHANGED <<second, queue, db, view, counts, fresh, drainFaults, history>>

\* conn.commit(), then the next batch unless max_seconds or max_messages is
\* used up.
CommitBatch ==
    /\ step = "commit"
    /\ db' = view
    /\ batch' = {}
    /\ step' \in {"receive", "counts"}
    /\ UNCHANGED <<second, queue, view, counts, fresh, drainFaults, history>>

DailyCounts == [e \in Events |-> view.daily[e] + counts[e]]

\* A bug: counts are written only when there are new suppressions.
AggregateIfFresh ==
    /\ step = "counts"
    /\ step' = "finish"
    /\ view' = IF fresh = {} THEN view
               ELSE [view EXCEPT !.daily = DailyCounts,
                                 !.told = @ \cup fresh,
                                 !.item = TRUE]
    /\ UNCHANGED <<second, queue, db, batch, counts, fresh, drainFaults, history>>

\* A bug: an open reminder is not counted up.
AggregateOnceOnly ==
    /\ step = "counts"
    /\ step' = "finish"
    /\ view' = [view EXCEPT
                  !.daily = DailyCounts,
                  !.told = IF view.item THEN @ ELSE @ \cup fresh,
                  !.item = (fresh # {}),
                  !.ack = IF fresh = {} /\ view.item THEN second ELSE @]
    /\ UNCHANGED <<second, queue, db, batch, counts, fresh, drainFaults, history>>

\* The daily counts, and the reminder: raised or updated when this run saw new
\* suppressions, dismissed when it did not.
Aggregate ==
    /\ step = "counts"
    /\ step' = "finish"
    /\ view' = [view EXCEPT
                  !.daily = DailyCounts,
                  !.told = @ \cup fresh,
                  !.item = (fresh # {}),
                  !.ack = IF fresh = {} /\ view.item THEN second ELSE @]
    /\ UNCHANGED <<second, queue, db, batch, counts, fresh, drainFaults, history>>

FinishDrain ==
    /\ step = "finish"
    /\ db' = view
    /\ step' = "idle"
    /\ UNCHANGED <<second, queue, view, batch, counts, fresh, drainFaults, history>>

\* _queue_depth finds no connection, before the last commit.
FinishRaises ==
    /\ step = "finish"
    /\ DrainFault
    /\ step' = "raised"
    /\ UNCHANGED <<second, queue, db, view, batch, counts, fresh, history>>

\* run_all_checks swallows the exception; a later step of the sweep commits on
\* the same connection what this one left open.
DrainGoesOn ==
    /\ step = "raised"
    /\ db' = view
    /\ batch' = {}
    /\ step' = "idle"
    /\ UNCHANGED <<second, queue, view, counts, fresh, drainFaults, history>>

\* The process is killed: SQLite rolls back, SQS does not.
Kill ==
    /\ step # "idle"
    /\ DrainFault
    /\ view' = db
    /\ batch' = {}
    /\ step' = "idle"
    /\ lostEvents' = lostEvents \cup {e \in batch : queue[e] = "gone"}
    /\ CutShort
    /\ UNCHANGED <<second, queue, db, counts, fresh, reviewed>>

-----------------------------------------------------------------------------
(* The user: /domain/{name}/suppressions_new.csv and the reminder.          *)

\* When tracking of this configuration set began.
Base(s) ==
    LET S == {s.seen[a] : a \in Addresses} \ {0} IN
        IF S = {} THEN 0 ELSE CHOOSE x \in S : \A y \in S : x <= y

\* The rows of the CSV: first_seen_at is later than _suppression_watermark.
NewOnly(s) ==
    {a \in Addresses : s.seen[a] # 0 /\ s.seen[a] > s.ack /\ s.seen[a] > Base(s)}

\* The user downloads the CSV and marks the reminder done or dismissed.  The
\* write waits while the drain holds the write lock.
Review ==
    /\ db.item
    /\ view = db
    /\ db' = [db EXCEPT !.item = FALSE, !.ack = second]
    /\ view' = db'
    /\ reviewed' = reviewed \cup NewOnly(db)
    /\ UNCHANGED <<second, queue, drainRun, drainFaults, lostEvents, cutEvents,
                   cutAddresses>>

-----------------------------------------------------------------------------
DrainInit ==
    /\ second = 1
    /\ queue = [e \in Events |-> "out"]
    /\ db = [tally |-> Nothing, daily |-> Nothing, seen |-> [a \in Addresses |-> 0],
             told |-> {}, item |-> FALSE, ack |-> 0]
    /\ view = db
    /\ step = "idle"
    /\ batch = {}
    /\ counts = Nothing
    /\ fresh = {}
    /\ drainFaults = 0
    /\ reviewed = {}
    /\ lostEvents = {}
    /\ cutEvents = {}
    /\ cutAddresses = {}

Drain ==
    \/ StartDrain
    \/ Receive
    \/ ReceiveNothing
    \/ ReceiveRaises
    \/ DeleteBatch
    \/ DeletePartly
    \/ DeleteRaises
    \/ CommitBatch
    \/ Aggregate
    \/ FinishDrain
    \/ FinishRaises
    \/ DrainGoesOn
    \/ Kill

DrainNext ==
    \/ \E e \in Events : Publish(e) \/ Reappear(e)
    \/ SecondPasses
    \/ Drain
    \/ Review

DrainSpec == DrainInit /\ [][DrainNext]_drainVars

-----------------------------------------------------------------------------
(* Properties.                                                              *)

DrainPhases == {"idle", "receive", "delete", "commit", "counts", "finish", "raised"}

\* Every variable keeps its type.
DrainTypeOK ==
    /\ second \in 1..MaxSecond
    /\ queue \in [Events -> {"out", "queued", "flight", "gone"}]
    /\ db \in EventStore /\ view \in EventStore
    /\ step \in DrainPhases
    /\ batch \subseteq Events
    /\ counts \in [Events -> Nat]
    /\ fresh \subseteq Addresses
    /\ drainFaults \in 0..MaxDrainFaults
    /\ reviewed \subseteq Addresses
    /\ lostEvents \subseteq Events
    /\ cutEvents \subseteq Events
    /\ cutAddresses \subseteq Addresses

\* An event leaves the queue without reaching the campaign tallies only in a
\* batch that a kill caught between delete_message_batch and its commit.
DeletedIsCounted ==
    \A e \in Events : queue[e] = "gone" /\ EventKind[e] # "foreign" =>
        db.tally[e] > 0 \/ e \in batch \cup lostEvents

\* Between two drains the daily counts and the campaign tallies agree on every
\* event, redelivered ones included, unless a run that held it was cut short.
CountsAgree ==
    step = "idle" => \A e \in Events \ cutEvents :
        EventKind[e] \in {"bounce", "delivery"} => db.daily[e] = db.tally[e]

\* Between two drains every suppression has been counted by a reminder, unless
\* the run that inserted it was cut short.
NewIsAnnounced ==
    step = "idle" => \A a \in Addresses \ cutAddresses : db.seen[a] # 0 => a \in db.told

\* An address the user has had in a CSV and acknowledged never comes back in
\* one, however often and late its bounce is redelivered.
ReviewedStaysOld == reviewed \cap NewOnly(db) = {}

\* _suppression_watermark's docstring: "the last time the ses_new_suppressions
\* item for it was marked done/dismissed -- the user's own 'I've reviewed and
\* pruned up to here' line".  What a reminder announced and no user has
\* acknowledged is still in the CSV (a tie within one second aside).
UnreviewedStaysNew ==
    \A a \in db.told \ reviewed :
        db.seen[a] > Base(db) /\ db.seen[a] # db.ack => a \in NewOnly(db)

\* The sweep comes round every six hours, every step of the drain ends (the
\* AWS client has timeouts) and SQS makes undeleted messages visible again.
DrainFairness ==
    /\ WF_drainVars(StartDrain)
    /\ WF_drainVars(Receive)
    /\ WF_drainVars(ReceiveNothing)
    /\ WF_drainVars(DeleteBatch)
    /\ WF_drainVars(CommitBatch)
    /\ WF_drainVars(Aggregate)
    /\ WF_drainVars(FinishDrain)
    /\ WF_drainVars(DrainGoesOn)
    /\ \A e \in Events : WF_drainVars(Reappear(e))

DrainFairSpec == DrainSpec /\ DrainFairness

\* Every event that SES publishes about a tracked domain is eventually in the
\* committed tallies, unless a kill lost it (see DeletedIsCounted).
EventuallyCounted ==
    \A e \in Events : EventKind[e] # "foreign" =>
        (queue[e] = "queued" ~> db.tally[e] > 0 \/ e \in lostEvents)
=============================================================================
