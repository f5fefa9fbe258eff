----------------------------- MODULE OwnerReport -----------------------------
(***************************************************************************)
(* What the e-mailed report of one domain says: domain_report.py reads the  *)
(* action items in several statements outside any transaction (which        *)
(* categories are open, which items to list, what was resolved in the       *)
(* period), while the web threads and the sweep raise and close items.  The *)
(* period runs from last_sent_at to the `now` taken before the first send;  *)
(* last_sent_at is the time of the mark, after the slow send.               *)
(*                                                                          *)
(* Items are written "category" per key; a blocklist key is one address.    *)
(* The sends themselves, their faults and the due list: ScheduledSends.     *)
(***************************************************************************)
EXTENDS Naturals, FiniteSets

CONSTANTS
    FindingKeys,   \* the findings of this instance
    MaxMoves,      \* items raised or closed, addresses lost
    Horizon        \* the last tick of the clock

ASSUME HorizonAssumption == Horizon \in Nat \ {0} /\ MaxMoves \in Nat

Category ==
    [ mailgun  |-> "mailgun_reputation",  ses    |-> "ses_reputation",
      listed1  |-> "blocklist",           listed2 |-> "blocklist",
      weakened |-> "dns_policy_weakened", lookalike |-> "lookalike_domain",
      ramp     |-> "ramp_recommendation", address |-> "mailgun_new_suppressions" ]

ASSUME KeyAssumption == FindingKeys \subseteq DOMAIN Category

\* The sentence a category is told in, named for its category: two share one.
Story(c) == IF c = "ses_reputation" THEN "mailgun_reputation" ELSE c

\* What the owner reads of some categories: each sentence once.
Said(categories) == {Story(c) : c \in categories}

OperatorOnly     == {"ramp_recommendation"}
NeverResolved    == {"lookalike_domain"}
Hygiene          == {"mailgun_new_suppressions"}
Urgent           == {"mailgun_reputation", "ses_reputation", "blocklist",
                     "dns_policy_weakened", "lookalike_domain"}
AuthBroken       == {"mailgun_reputation", "ses_reputation"}
ProtectionBroken == {"dns_policy_weakened"}
WithTip          == {"mailgun_reputation", "ses_reputation", "blocklist"}
Praise           == {"recognised", "protected"}

VARIABLES
    raised,    \* keys with an open item
    past,      \* rows <<key, time>>: an item closed, an address lost
    clock,
    sentAt,    \* last_sent_at
    spoofer,   \* the blocklisted address guess_sender_identity disowns
    step,      \* where the report in hand stands
    report,    \* what it says so far
    told,      \* past rows that a marked report spoke of
    missed,    \* past rows no report can speak of any more, and why
    moved,     \* an item moved since the report's first read
    moves

reportVars == <<raised, past, clock, sentAt, spoofer, step, report, told, missed, moved, moves>>

Categories  == {Category[k] : k \in FindingKeys}
NoReport    == [end |-> 0, real |-> {}, open |-> {}, listed |-> {}, resolved |-> {},
                praise |-> {}, tips |-> {}, risk |-> FALSE, headline |-> "none"]
Listed      == {"listed1", "listed2"} \cap FindingKeys
Building    == step # "idle"

\* The first report is of a domain with nothing open, or with everything.
ReportInit ==
    /\ raised \in {{}, {k \in FindingKeys : Category[k] \notin Hygiene}}
    /\ past = {}
    /\ clock = 1
    /\ sentAt = 0
    /\ spoofer \in {{}} \cup {{k} : k \in Listed}
    /\ step = "idle"
    /\ report = NoReport
    /\ told = {}
    /\ missed = {}
    /\ moved = FALSE
    /\ moves = 0

\* The items move under the report's feet.
Move ==
    /\ moves < MaxMoves
    /\ moves' = moves + 1
    /\ moved' = Building
    /\ UNCHANGED <<clock, sentAt, spoofer, step, report, told, missed>>

RaiseFinding(k) ==
    /\ Category[k] \notin Hygiene
    /\ k \notin raised
    /\ raised' = raised \cup {k}
    /\ Move
    /\ UNCHANGED past

CloseFinding(k) ==
    /\ k \in raised
    /\ raised' = raised \ {k}
    /\ past' = past \cup {<<k, clock>>}
    /\ Move

AddressLost(k) ==
    /\ Category[k] \in Hygiene
    /\ past' = past \cup {<<k, clock>>}
    /\ Move
    /\ UNCHANGED raised

ReportTick ==
    /\ clock < Horizon
    /\ clock' = clock + 1
    /\ UNCHANGED <<raised, past, sentAt, spoofer, step, report, told, missed, moved, moves>>

\* BETWEEN start AND end: both ends are inside.
InPeriod(t) == sentAt <= t /\ t <= report.end

\* The blocklist item that stands for its category: MAX(ref_key).
Speaker(keys) ==
    IF "listed2" \in keys THEN {"listed2"} ELSE keys \cap {"listed1"}

Reported(c) == c \notin OperatorOnly

\* Now is taken once, before the first send of the run.
StartReport ==
    /\ step = "idle"
    /\ step' = "splitting"
    /\ report' = [NoReport EXCEPT !.end = clock]
    /\ moved' = FALSE
    /\ UNCHANGED <<raised, past, clock, sentAt, spoofer, told, missed, moves>>

\* First read: which addresses on a blocklist, now or in the period, are ours.
SplitBlocklist ==
    /\ step = "splitting"
    /\ step' = "categories"
    /\ report' = [report EXCEPT !.real =
          {k \in Listed : k \in raised \/ \E e \in past : e[1] = k /\ InPeriod(e[2])} \ spoofer]
    /\ UNCHANGED <<raised, past, clock, sentAt, spoofer, told, missed, moved, moves>>

\* What a domain with good mail and an enforced policy is praised for.
WhatsWorking(open) ==
    {p \in Praise : open \cap (IF p = "recognised" THEN AuthBroken ELSE ProtectionBroken) = {}}

HeadlineVerdict(open, risk) ==
    CASE open \cap Urgent # {} \/ risk -> "one thing to flag"
      [] open = {} /\ ~risk            -> "all clear"
      [] OTHER                         -> "none"

\* _risk_warning compares the rates of the domain's mail, which no item decides;
\* whether it fires is told apart only where nothing urgent is open.
Risks(open) == IF open \cap Urgent = {} THEN BOOLEAN ELSE {FALSE}

\* The tips that belong to a finding; irregular sending adds one of its own.
Tips(open) == open \cap WithTip

\* Second read: what is open, which decides headline, praise and tips.
ReadCategories ==
    /\ step = "categories"
    /\ step' = "listing"
    /\ LET open == {Category[k] : k \in {k \in raised :
               Reported(Category[k]) /\ (k \in Listed => k \in report.real)}}
       IN \E risk \in Risks(open) : report' = [report EXCEPT
            !.open = open,
            !.praise = WhatsWorking(open),
            !.tips = Tips(open),
            !.risk = risk,
            !.headline = HeadlineVerdict(open, risk)]
    /\ UNCHANGED <<raised, past, clock, sentAt, spoofer, told, missed, moved, moves>>

\* The items listed as still open, by category.
StillOpen ==
    {Category[k] : k \in {k \in raised :
        /\ Reported(Category[k])
        /\ k \in Listed => k \in Speaker(raised \cap Listed) \cap report.real}}

\* Third read: what is still open, every sentence once.
ListStillOpen ==
    /\ step = "listing"
    /\ step' = "resolving"
    /\ report' = [report EXCEPT !.listed = Said(StillOpen)]
    /\ UNCHANGED <<raised, past, clock, sentAt, spoofer, told, missed, moved, moves>>

\* A bug: what is still open is not left out.
ResolvedAnyway(closed, open) ==
    {Category[k] : k \in {k \in closed :
        /\ Reported(Category[k])
        /\ Category[k] \notin NeverResolved \cup Hygiene
        /\ k \in Listed => k \in Speaker(closed \cap Listed) \cap report.real}}

\* A bug: what the blocklists let go is left out.
ResolvedOffList(closed, open) ==
    {Category[k] : k \in {k \in closed \ Listed :
        /\ Reported(Category[k])
        /\ Category[k] \notin NeverResolved \cup Hygiene \cup open}}

\* Fourth read: closed in the period, unless its CATEGORY is still open.
Resolved(closed, open) ==
    {Category[k] : k \in {k \in closed :
        /\ Reported(Category[k])
        /\ Category[k] \notin NeverResolved \cup Hygiene \cup open
        /\ k \in Listed => k \in Speaker(closed \cap Listed) \cap report.real}}

\* What was closed, or lost, in the period.
ClosedNow == {e[1] : e \in {e \in past : InPeriod(e[2])}}

\* The fixes, every sentence once, and the section of the lost addresses.
ListResolved ==
    /\ step = "resolving"
    /\ step' = "sending"
    /\ report' = [report EXCEPT !.resolved =
          Said(Resolved(ClosedNow, report.open)
               \cup (Hygiene \cap {Category[k] : k \in ClosedNow}))]
    /\ UNCHANGED <<raised, past, clock, sentAt, spoofer, told, missed, moved, moves>>

\* No reports in the period, a failed render, a refused send: nothing is marked.
NotSent ==
    /\ Building
    /\ step' = "idle"
    /\ report' = NoReport
    /\ UNCHANGED <<raised, past, clock, sentAt, spoofer, told, missed, moved, moves>>

\* What this report tells the owner about.
Tells == {e \in past : InPeriod(e[2]) /\ Story(Category[e[1]]) \in report.resolved}

\* A disowned address spoke for those that left the blocklists.
Misspoken(k) == k \in Listed /\ Speaker(ClosedNow \cap Listed) \subseteq spoofer

\* Everything up to the mark is now behind the next period.
Delivered ==
    /\ step = "sending"
    /\ step' = "idle"
    /\ told' = told \cup Tells
    /\ missed' = missed \cup
         {e \in past \ (told \cup Tells) : e[2] < clock /\
             \/ e[2] > report.end
             \/ Category[e[1]] \in report.open \cup NeverResolved \cup OperatorOnly
             \/ Misspoken(e[1])
             \/ moved}
    /\ sentAt' = clock
    /\ report' = NoReport
    /\ UNCHANGED <<raised, past, clock, spoofer, moved, moves>>

ReportNext ==
    \/ \E k \in FindingKeys : RaiseFinding(k) \/ CloseFinding(k) \/ AddressLost(k)
    \/ ReportTick
    \/ StartReport
    \/ SplitBlocklist
    \/ ReadCategories
    \/ ListStillOpen
    \/ ListResolved
    \/ NotSent
    \/ Delivered

ReportSpec == ReportInit /\ [][ReportNext]_reportVars

-----------------------------------------------------------------------------
Steps == {"idle", "splitting", "categories", "listing", "resolving", "sending"}

ReportTypeOK ==
    /\ raised \subseteq FindingKeys
    /\ past \subseteq FindingKeys \X (1..Horizon)
    /\ clock \in 1..Horizon
    /\ sentAt \in 0..Horizon
    /\ spoofer \subseteq Listed
    /\ step \in Steps
    /\ report \in [end : 0..Horizon, real : SUBSET Listed,
                   open : SUBSET Categories, listed : SUBSET Said(Categories),
                   resolved : SUBSET Said(Categories), praise : SUBSET Praise,
                   tips : SUBSET Categories, risk : BOOLEAN,
                   headline : {"none", "one thing to flag", "all clear"}]
    /\ told \subseteq past
    /\ missed \subseteq past
    /\ moved \in BOOLEAN
    /\ moves \in 0..MaxMoves

(***************************************************************************)
(* Everything that was fixed, and every address that was lost, is told in   *)
(* one of the reports, however many sends are skipped or refused between.   *)
(* What the owner never hears of is what `missed` names: it happened after  *)
(* the run took its `now` and before the mark; its category was open when   *)
(* the report was built; the category is never told; the blocklisted        *)
(* address that stood for it is a disowned one; or something moved while    *)
(* the report was being read.                                               *)
(***************************************************************************)
FixesAreTold ==
    \A e \in past : e[2] < sentAt => e \in told \cup missed

\* The sentences that more than one category is told in.
Shared ==
    {s \in Said(Categories) : \E c, d \in Categories : c # d /\ Story(c) = s /\ Story(d) = s}

(***************************************************************************)
(* The sections of a report agree with each other, sentence by sentence,    *)
(* unless an item moved while it was built: no sentence is both fixed and   *)
(* still open, but for one that two categories share (NeverFixedAndOpen);   *)
(* an all-clear lists nothing, praise is not given for what is listed as    *)
(* broken (_whats_working's "can never congratulate the domain on something *)
(* a later section is simultaneously reporting as broken"), and what is     *)
(* flagged as "explained below", or has a tip, is listed (or is the risk),  *)
(* except a blocklisted address hidden behind the one that speaks for its   *)
(* category.                                                                *)
(***************************************************************************)
SectionsAgree ==
    step = "sending" /\ ~moved =>
        /\ report.resolved \cap report.listed \subseteq Shared
        /\ report.headline = "all clear" => report.listed = {}
        /\ "recognised" \in report.praise => report.listed \cap Said(AuthBroken) = {}
        /\ "protected" \in report.praise => report.listed \cap Said(ProtectionBroken) = {}
        /\ report.headline = "one thing to flag" =>
              \/ report.risk
              \/ report.listed \cap Said(Urgent) # {}
              \/ report.open \cap Urgent = {"blocklist"}
        /\ Said(report.tips) \subseteq report.listed \cup {"blocklist"}

(***************************************************************************)
(* "Never claim we fixed something that is ALSO still open": no sentence is *)
(* said to be fixed and said to be still open in one report, when nothing   *)
(* moved while it was read (_resolved_items).                               *)
(***************************************************************************)
NeverFixedAndOpen ==
    step = "sending" /\ ~moved => report.resolved \cap report.listed = {}
=============================================================================
