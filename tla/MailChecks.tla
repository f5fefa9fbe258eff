------------------------------ MODULE MailChecks ------------------------------
(***************************************************************************)
(* The checks of a sweep about the mail itself: senders, volumes and a      *)
(* borrowed identity (analysis.py run_analysis), Mailgun's rates            *)
(* (mailgun.py) and, after the SES queue was drained (ses_events.py), the   *)
(* rates, the queue and the newsletters.  Same conventions as in            *)
(* OutsideChecks.  What is counted from tables has no lookup to fail.       *)
(***************************************************************************)
EXTENDS AccountChecks, Sequences, FiniteSetsExt

\* n of d reaches a rate given per 10,000; nothing of nothing never does.
Reaches(n, d, rate) == d > 0 /\ n * 10000 >= rate * d

\* Settings' defaults (analysis.py DEFAULT_SETTINGS).
HighVolume == 20
MinCorroborated == 3
RaiseOrClear(keys, raised) == Settle(raised, keys \ raised)

\* ---------------------------------------------------------------- senders ----
\* known_senders' row of one IP; new: first seen within the window, unclassified.
SenderWorlds == [new : BOOLEAN, total : {0, 2, 19, 20}, passing : BOOLEAN]

SenderKeys == {"new_sender", "failure_investigation"}

SenderFindings ==
    (IF world.new /\ world.total >= MinCorroborated THEN {"new_sender"} ELSE {})
    \cup (IF world.total >= HighVolume /\ ~world.passing THEN {"failure_investigation"} ELSE {})

\* run_analysis raises the findings and dismisses whatever is open beside them.
CheckSenders(lost) ==
    /\ RaiseOrClear(SenderKeys, SenderFindings)
    /\ unsure' = FALSE
    /\ UNCHANGED memory

\* ------------------------------------------------------ borrowed identity ----
\* fits: failing mail that mostly carries the other domain's valid signature;
\* proof: the same pair proven on another domain, or mail already acted on.
BorrowedWorlds ==
    [fits : BOOLEAN, total : {2, 19, 20}, days : {4, 5, 90},
     proof : {"none", "elsewhere", "acted"}]

MinBorrowedDays == 5
LongSpanDays == 90

\* Volume and age of this domain's own failing mail.  What makes the proof
\* "elsewhere", corroborated_identity_pairs, asks the same of the other domain
\* but not for a share of the signatures; it is an input here.
ProvenHere == world.total >= HighVolume /\ world.days >= MinBorrowedDays

Borrows ==
    /\ world.fits
    /\ \/ ProvenHere
       \/ /\ world.total >= MinCorroborated
          /\ world.proof # "none" \/ world.days >= LongSpanDays

CheckBorrowed(lost) ==
    /\ RaiseOrClear({"borrowed_sending_identity"},
                    IF Borrows THEN {"borrowed_sending_identity"} ELSE {})
    /\ unsure' = FALSE
    /\ UNCHANGED memory

\* ---------------------------------------------------------------- volumes ----
\* Daily averages, DKIM-aligned messages of 100, and days without a report.
VolumeWorlds == [baseline : {9, 10}, recent : {10, 20}, aligned : {0, 100}, idle : {0, 3}]

VolumeKeys == {"volume_spike", "dkim_alignment_gap", "data_stale"}

VolumeFindings ==
    (IF world.baseline >= 10 /\ world.recent >= 2 * world.baseline
     THEN {"volume_spike"} ELSE {})
    \cup (IF Reaches(world.aligned, 100, 5000) THEN {} ELSE {"dkim_alignment_gap"})
    \cup (IF world.idle >= 3 THEN {"data_stale"} ELSE {})

CheckVolumes(lost) ==
    /\ RaiseOrClear(VolumeKeys, VolumeFindings)
    /\ unsure' = FALSE
    /\ UNCHANGED memory

\* -------------------------------------------------------- Mailgun's rates ----
MailgunWorlds ==
    [listed : BOOLEAN, accepted : {0, 40, 50}, bounced : {0, 5}, complained : {0, 1}]

\* Both rates are of the accepted mail; below the volume floor none counts.
Elevated ==
    /\ world.accepted >= 50
    /\ \/ Reaches(world.bounced, world.accepted, 500)
       \/ Reaches(world.complained, world.accepted, 10)

\* run_mailgun_checks: the stats row makes the domain fresh.  A failed fetch
\* stores none, so the domain is asked for again by the next sweep.
CheckMailgun(lost) ==
    /\ "list" \notin lost
    /\ world.listed
    /\ memory.due
    /\ unsure' = ("stats" \in lost)
    /\ IF "stats" \in lost THEN UNCHANGED <<items, memory>>
       ELSE /\ RaiseOrClear({"mailgun_reputation"},
                            IF Elevated THEN {"mailgun_reputation"} ELSE {})
            /\ Checked

\* ------------------------------------------------- rates of a config set ----
RateWorlds == [delivered : {0, 100}, bounced : {0, 3, 10}, complained : {0, 1}]

RateKeys == {"ses_reputation", "ses_reputation_watch"}

\* Both tiers need something delivered: all mail bounced raises neither.
RateReaches(bounce, complaint) ==
    /\ world.delivered > 0
    /\ \/ Reaches(world.bounced, world.delivered + world.bounced, bounce)
       \/ Reaches(world.complained, world.delivered, complaint)

RateRaises ==
    IF RateReaches(500, 10) THEN {"ses_reputation"}
    ELSE IF RateReaches(200, 8) THEN {"ses_reputation_watch"} ELSE {}

\* A bug: the earlier tier is left open when the later one is raised.
RateClearsLower == IF RateRaises = {} THEN RateKeys ELSE {}

RateClears == RateKeys \ RateRaises

\* Every configuration set is judged again after every drain.
CheckRates(lost) ==
    /\ Settle(RateRaises, RateClears)
    /\ unsure' = FALSE
    /\ UNCHANGED memory

\* ---------------------------------------- refusals and the queue's backlog ----
QueueWorlds == [rejected : BOOLEAN, backlog : BOOLEAN]

\* Without the queue's depth nothing is said about the backlog.
CheckQueue(lost) ==
    LET known  == {"ses_rejected"} \cup (IF lost = {} THEN {"ses_event_backlog"} ELSE {})
        raised == (IF world.rejected THEN {"ses_rejected"} ELSE {})
                  \cup (IF world.backlog THEN {"ses_event_backlog"} ELSE {})
    IN
    /\ Settle(raised \cap known, known \ raised)
    /\ unsure' = (lost # {})
    /\ UNCHANGED memory

\* ------------------------------------------------------------ newsletters ----
\* What score_text finds in a subject, with the weights it adds up.
SubjectWeights ==
    [bait |-> 4, prize |-> 5, urgency |-> 2, shouting |-> 2, exclamation |-> 2,
     money |-> 2, emoji |-> 2]

SubjectScore(features) == MapThenSumSet(LAMBDA f : SubjectWeights[f], features)

RiskLevel(score) == IF score >= 8 THEN "high" ELSE IF score >= 3 THEN "medium" ELSE "low"

\* check_unsubscribe_compliance and check_header_hygiene.
CompliantHeaders(h) == h.link /\ h.oneClick /\ h.messageId /\ ~h.reply

\* days: the distinct send days in order.  The last gap against the average of
\* the gaps before it; two send days say nothing yet.
Irregular(days) ==
    LET n      == Len(days)
        latest == days[n] - days[n - 1]
        past   == days[n - 1] - days[1]
    IN  /\ n >= 3
        /\ 10 * latest * (n - 2) < 3 * past \/ latest * (n - 2) > 3 * past

GoodHeaders == [link |-> TRUE, oneClick |-> TRUE, messageId |-> TRUE, reply |-> FALSE]

\* A newsletter without fault, and the ones with one fault.
GoodCampaign ==
    [active |-> TRUE, oddName |-> FALSE, headers |-> GoodHeaders, subject |-> {"emoji"},
     names |-> 1, days |-> <<1, 8, 15>>]

CampaignWorlds ==
    {GoodCampaign,
     [GoodCampaign EXCEPT !.active = FALSE],
     [GoodCampaign EXCEPT !.oddName = TRUE],
     [GoodCampaign EXCEPT !.headers.oneClick = FALSE],
     [GoodCampaign EXCEPT !.headers.reply = TRUE],
     [GoodCampaign EXCEPT !.subject = {"bait", "urgency", "money"}],
     [GoodCampaign EXCEPT !.subject = {"bait", "urgency"}],
     [GoodCampaign EXCEPT !.names = 2],
     [GoodCampaign EXCEPT !.days = <<1, 8, 10>>],
     [GoodCampaign EXCEPT !.days = <<1, 8, 30>>]}

CampaignKeys ==
    {"display_name_issue", "campaign_compliance_issue", "subject_spam_risk",
     "display_name_inconsistent", "sending_cadence_irregular"}

HasIssue(k) ==
    CASE k = "display_name_issue"        -> world.oddName
      [] k = "campaign_compliance_issue" -> ~CompliantHeaders(world.headers)
      [] k = "subject_spam_risk"         -> RiskLevel(SubjectScore(world.subject)) = "high"
      [] k = "display_name_inconsistent" -> world.names > 1
      [] k = "sending_cadence_irregular" -> Irregular(world.days)

\* Only a newsletter an event of this drain was about is judged.
CheckCampaign(lost) ==
    LET raised == {k \in CampaignKeys : HasIssue(k)} IN
    /\ world.active
    /\ RaiseOrClear(CampaignKeys, raised)
    /\ unsure' = FALSE
    /\ UNCHANGED memory
=============================================================================
