---------------------------- MODULE ClientNotices ----------------------------
(***************************************************************************)
(* The buttons that write to a client by hand: addresses to remove          *)
(* (bounce_notify.py, chronic_bounces.py) and subscribers who open nothing  *)
(* (subscriber_notify.py), as web.py sends them.                            *)
(*                                                                         *)
(* A click reads what is new since the last notice recorded as sent, mails  *)
(* it, and only then records itself, with the time of recording.  The SES   *)
(* drain goes on storing bounces and deliveries meanwhile, a second click   *)
(* can be under way, and the process can be killed between the steps.       *)
(***************************************************************************)
EXTENDS Naturals, FiniteSets

CONSTANTS
    People,       \* addresses of one domain
    Clicks,       \* requests that can be under way together
    NoticeEnd,    \* bound: the last second
    MaxMishaps    \* bound: kills and lost answers

ASSUME NoticesAssumption == NoticeEnd \in Nat \ {0} /\ MaxMishaps \in Nat

VARIABLES
    button,     \* which of the two buttons this domain is about
    second,     \* datetime('now')
    people,     \* the rows of the suppressions or of the recipients
    clicks,     \* requests under way, with the news they have read
    lastSent,   \* sent_at of the newest notice with status 'sent', 0 if none
    reviewed,   \* when the chronic item was last closed, by user or sweep
    mailed,       \* history: news the client has been mailed
    twice,      \* history: news mailed more than once
    late,       \* history: news stored when a notice had already been read,
                \* or too late to be new
    excused,    \* history: news of a notice that was not recorded as sent, or
                \* not yet when the next click read
    mishaps

noticeVars ==
    <<button, second, people, clicks, lastSent, reviewed, mailed, twice, late, excused, mishaps>>

Seconds == 1..NoticeEnd
NoOne   == [sort |-> "absent", first |-> 0, last |-> 0]
Waiting == [phase |-> "idle", news |-> {}]

Mishap == mishaps < MaxMishaps /\ mishaps' = mishaps + 1

\* The time a row is compared by: first_seen_at of a bounce, last_received.
Stamp(row) == IF button = "bounce" THEN row.first ELSE row.last

\* What belongs in a notice at all; a complaint is filed like a hard bounce.
Reportable(row) == row.sort = IF button = "bounce" THEN "hard" ELSE "inactive"

\* A bug: what came in the same second as the last notice is sent again.
NewsAgain(since) ==
    {<<a, Stamp(people[a])>> : a \in {p \in People :
        Reportable(people[p]) /\ Stamp(people[p]) >= since}}

\* _hard_bounce_rows, _spam_complaint_rows, and the inactive since the last.
News(since) ==
    {<<a, Stamp(people[a])>> : a \in {p \in People :
        Reportable(people[p]) /\ Stamp(people[p]) > since}}

\* chronic_transient_bounces: temporary for at least a second, and bounced
\* again since the item was last closed.  Not scoped to the last notice.
Chronic ==
    {a \in People : /\ button = "bounce"
                    /\ people[a].sort = "soft"
                    /\ people[a].first < second
                    /\ people[a].last > reviewed}

UnderWay == {c \in Clicks : clicks[c].phase \in {"built", "accepted"}}

-----------------------------------------------------------------------------
\* The seconds pass.
NextSecond ==
    /\ second < NoticeEnd
    /\ second' = second + 1
    /\ UNCHANGED <<button, people, clicks, lastSent, reviewed, mailed, twice, late, excused,
                   mishaps>>

(***************************************************************************)
(* The drain stores what it hears about an address.  A bounce keeps its     *)
(* first_seen_at when reason and type are rewritten; a delivery of the next *)
(* newsletter moves last_seen_at; whoever opens one is never listed again.  *)
(***************************************************************************)
Rewritten(row) ==
    LET first == IF row.sort = "absent" THEN second ELSE row.first IN
    {[sort |-> s, first |-> first, last |-> second] :
        s \in CASE button = "subscriber" ->
                       IF row.sort = "active" THEN {"active"} ELSE {"inactive", "active"}
                [] row.sort = "hard"     -> {"hard"}
                [] OTHER                 -> {"soft", "hard"}}

Hear(a) ==
    /\ \E row \in Rewritten(people[a]) :
          /\ row # people[a]
          /\ people' = [people EXCEPT ![a] = row]
          /\ late' = IF UnderWay # {} \/ Stamp(row) <= lastSent
                     THEN late \cup {<<a, Stamp(row)>>} ELSE late
    /\ UNCHANGED <<button, second, clicks, lastSent, reviewed, mailed, twice, excused, mishaps>>

\* The chronic item is closed on the page, or by a sweep that finds nobody.
CloseChronicItem ==
    /\ button = "bounce"
    /\ reviewed # second
    /\ reviewed' = second
    /\ UNCHANGED <<button, second, people, clicks, lastSent, mailed, twice, late, excused, mishaps>>

-----------------------------------------------------------------------------
\* build_notification; with nothing to say the click ends here.
Build(c) ==
    LET news == News(lastSent) IN
    /\ clicks[c].phase = "idle"
    /\ news # {} \/ Chronic # {}
    /\ clicks' = [clicks EXCEPT ![c] = [phase |-> "built", news |-> news]]
    /\ excused' = excused \cup UNION {clicks[d].news \cap news : d \in UnderWay}
    /\ UNCHANGED <<button, second, people, lastSent, reviewed, mailed, twice, late, mishaps>>

\* _send_manual_notification without its secrets: nothing is recorded.
SendUnconfigured(c) ==
    /\ clicks[c].phase = "built"
    /\ clicks' = [clicks EXCEPT ![c] = Waiting]
    /\ UNCHANGED <<button, second, people, lastSent, reviewed, mailed, twice, late,
                   excused, mishaps>>

Mailed(news) == mailed' = mailed \cup news /\ twice' = twice \cup (mailed \cap news)

SendAccepted(c) ==
    /\ clicks[c].phase = "built"
    /\ Mailed(clicks[c].news)
    /\ clicks' = [clicks EXCEPT ![c].phase = "accepted"]
    /\ UNCHANGED <<button, second, people, lastSent, reviewed, late, excused, mishaps>>

SendRefused(c) ==
    /\ clicks[c].phase = "built"
    /\ clicks' = [clicks EXCEPT ![c].phase = "refused"]
    /\ UNCHANGED <<button, second, people, lastSent, reviewed, mailed, twice, late,
                   excused, mishaps>>

\* Mailgun accepts the mail and its answer is lost on the way back.
SendAnswerLost(c) ==
    /\ clicks[c].phase = "built"
    /\ Mishap
    /\ Mailed(clicks[c].news)
    /\ excused' = excused \cup clicks[c].news
    /\ clicks' = [clicks EXCEPT ![c].phase = "refused"]
    /\ UNCHANGED <<button, second, people, lastSent, reviewed, late>>

\* A bug: a row whose status is 'failed' counts as the last notice, too.
RecordAnyway(c) ==
    /\ clicks[c].phase \in {"accepted", "refused"}
    /\ lastSent' = second
    /\ clicks' = [clicks EXCEPT ![c] = Waiting]
    /\ UNCHANGED <<button, second, people, reviewed, mailed, twice, late, excused, mishaps>>

\* record_notification_sent, and what _last_notified_at makes of the row.
Record(c) ==
    /\ clicks[c].phase \in {"accepted", "refused"}
    /\ lastSent' = IF clicks[c].phase = "accepted" THEN second ELSE lastSent
    /\ clicks' = [clicks EXCEPT ![c] = Waiting]
    /\ UNCHANGED <<button, second, people, reviewed, mailed, twice, late, excused, mishaps>>

NoticesKilled ==
    /\ UnderWay # {}
    /\ Mishap
    /\ excused' = excused \cup UNION {clicks[c].news : c \in UnderWay}
    /\ clicks' = [c \in Clicks |-> Waiting]
    /\ UNCHANGED <<button, second, people, lastSent, reviewed, mailed, twice, late>>

NoticesInit ==
    /\ button \in {"bounce", "subscriber"}
    /\ second = 1
    /\ people = [a \in People |-> NoOne]
    /\ clicks = [c \in Clicks |-> Waiting]
    /\ lastSent = 0
    /\ reviewed = 0
    /\ mailed = {}
    /\ twice = {}
    /\ late = {}
    /\ excused = {}
    /\ mishaps = 0

NoticesNext ==
    \/ NextSecond
    \/ CloseChronicItem
    \/ NoticesKilled
    \/ \E a \in People : Hear(a)
    \/ \E c \in Clicks :
          \/ Build(c)
          \/ SendUnconfigured(c)
          \/ SendAccepted(c)
          \/ SendRefused(c)
          \/ SendAnswerLost(c)
          \/ Record(c)

NoticesSpec == NoticesInit /\ [][NoticesNext]_noticeVars

-----------------------------------------------------------------------------
NewsItems == People \X Seconds

NoticesTypeOK ==
    /\ button \in {"bounce", "subscriber"}
    /\ second \in Seconds
    /\ people \in [People -> [sort : {"absent", "soft", "hard", "active", "inactive"},
                              first : 0..NoticeEnd, last : 0..NoticeEnd]]
    /\ clicks \in [Clicks -> [phase : {"idle", "built", "accepted", "refused"},
                              news : SUBSET NewsItems]]
    /\ lastSent \in 0..NoticeEnd
    /\ reviewed \in 0..NoticeEnd
    /\ mailed \subseteq NewsItems
    /\ twice \subseteq NewsItems
    /\ late \subseteq NewsItems
    /\ excused \subseteq NewsItems
    /\ mishaps \in 0..MaxMishaps

(***************************************************************************)
(* "What's NEW since the last successful notification": whatever is too old *)
(* to be in the next notice has been in one, through refused mails, lost    *)
(* answers and kills.  What slips through is in late: stored while a notice *)
(* was being mailed, in the very second it was recorded, or (a bounce that  *)
(* turned from temporary to permanent) with a first_seen_at from before it. *)
(***************************************************************************)
NewsIsTold ==
    \A a \in People :
        LET item == <<a, Stamp(people[a])>> IN
        Reportable(people[a]) /\ Stamp(people[a]) <= lastSent => item \in mailed \cup late

(***************************************************************************)
(* The client is not asked twice to remove the same address, unless the     *)
(* first mail had not been recorded as sent when the second was read: two   *)
(* clicks at once, a kill, a lost answer.  A subscriber can be written      *)
(* about again, but only after another newsletter (SubscriberToldOnce).     *)
(***************************************************************************)
ToldOnce ==
    /\ twice \subseteq excused
    /\ button = "bounce" => \A m, n \in mailed : m[1] = n[1] => m = n

(***************************************************************************)
(* "How many inactive subscribers are new since the last successful         *)
(* notification" (pending_notify_count): one the client was told of, in a   *)
(* notice that was recorded, is not new in a later one.                     *)
(***************************************************************************)
SubscriberToldOnce ==
    button = "subscriber" =>
        \A m, n \in mailed : m[1] = n[1] => m = n \/ {m, n} \cap excused # {}
=============================================================================
