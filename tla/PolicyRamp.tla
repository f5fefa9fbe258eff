----------------------------- MODULE PolicyRamp -----------------------------
(***************************************************************************)
(* The DMARC policy of one domain and the advice to strengthen it           *)
(* (analysis.py derive_policy_history, recommend; domain_report.py          *)
(* _protection_tightened).                                                 *)
(*                                                                         *)
(* The owner publishes a policy; reporters say, at least a day later, which *)
(* policy they saw that day: what is published, or, from a cache, what was  *)
(* the day before.  The analysis reads reports only, never DNS, so it       *)
(* advises on a past policy.  Days are counted back from today: age 0.      *)
(***************************************************************************)
EXTENDS Integers, FiniteSets, FiniteSetsExt

CONSTANTS
    Keep,        \* bound: days that are remembered, besides today
    MinDays,     \* settings.min_days_stable
    Window,      \* settings.rolling_window_days
    RampSteps,   \* settings.ramp_steps
    MaxSlips     \* bound: bad days, odd reports and changes of the owner's own

ASSUME RampAssumption ==
    /\ Keep \in Nat \ {0} /\ MinDays \in Nat \ {0} /\ Window \in Nat \ {0} /\ MaxSlips \in Nat
    /\ RampSteps \subseteq 1..100
    /\ Keep >= MinDays + 2

VARIABLES
    published,   \* age -> the policy in DNS at the end of that day, one day further
    seen,        \* age -> what that day's reports say, or Silent
    advice,      \* the open ramp_recommendation: its kind, and about what
    analysed,    \* whether the sweep has run since the newest report or day
    slips

rampVars == <<published, seen, advice, analysed, slips>>

Ages     == 0..Keep
Unsaid   == -1                   \* policy_pct is NULL: the reporter left it out
Percents == RampSteps \cup {10, 100}
Levels   == {"none", "quarantine", "reject"}
Policies == [p : Levels, pct : Percents]
Enforced == [p |-> "reject", pct |-> 100]
Quality  == {"good", "fair", "bad", "thin"}   \* pass rate, or too few messages
Silent == [p |-> "none", pct |-> Unsaid, mail |-> "silent"]
SeenDays == [p : Levels, pct : Percents \cup {Unsaid}, mail : Quality] \cup {Silent}
NoAdvice == [kind |-> "none", from |-> Enforced, to |-> Enforced]

Rank(p) == CASE p = "none" -> 0 [] p = "quarantine" -> 1 [] p = "reject" -> 2

\* One policy asks receivers for more than another.
Stronger(a, b) ==
    \/ Rank(a.p) > Rank(b.p)
    \/ a.p = b.p /\ a.p # "none" /\ a.pct > b.pct

Policy(day) == [p |-> day.p, pct |-> day.pct]

\* Days with a report; the newest, and the oldest of the run it belongs to:
\* the days before it that say the same policy, over days without a report.
Told     == {a \in Ages : seen[a] # Silent}
Latest   == Min(Told)
RunStart == CHOOSE a \in Told :
    /\ \A b \in Told : b <= a => Policy(seen[b]) = Policy(seen[a])
    /\ \A b \in Told : b > a => \E c \in Told : c <= b /\ Policy(seen[c]) # Policy(seen[a])

\* The oldest age of the window, whose rate and volume are one quality here:
\* that of the worst day that is not thin.
Stable      == RunStart - Latest
WindowStart == Latest + Min({Window, Max({Stable, 1})})
WindowMail  ==
    LET oldest == WindowStart
    IN  {seen[a].mail : a \in {b \in Told : b <= oldest}} \ {"thin"}
Rate ==
    CASE WindowMail = {}     -> "thin"
      [] "bad" \in WindowMail  -> "bad"
      [] "fair" \in WindowMail -> "fair"
      [] OTHER               -> "good"

\* A bug: a step that is already reached counts as the next one.
NextPercentStays(pct) ==
    LET above == {s \in RampSteps : s >= pct}
    IN  IF above = {} THEN 100 ELSE Min(above)

\* A bug: the next step is ten percent further on, whatever the ladder.
NextPercentByTen(pct) == pct + 10

\* next_steps[0] of a list in ascending order.
NextPercent(pct) ==
    LET above == {s \in RampSteps : s > pct}
    IN  IF above = {} THEN 100 ELSE Min(above)

\* What a policy is raised to.
Raised(pol) ==
    CASE pol.p = "none"  -> [p |-> "quarantine", pct |-> 10]
      [] pol.p # "none" /\ pol.pct < 100 -> [p |-> pol.p, pct |-> NextPercent(pol.pct)]
      [] OTHER           -> [p |-> "reject", pct |-> pol.pct]

\* A bug: ready on one day, and never again when that day's mail was not good.
ReadyThatDay == Rate = "good" /\ Stable = MinDays

Ready == Rate = "good" /\ Stable >= MinDays

\* recommend, for a domain that has reports.
Recommend(pol) ==
    CASE Rate = "thin" -> [kind |-> "insufficient", from |-> pol, to |-> pol]
      [] Rate # "thin" /\ pol = Enforced -> NoAdvice
      [] Rate = "bad" /\ pol.p # "none" /\ pol.pct < 100 ->
            [kind |-> "investigate", from |-> pol, to |-> pol]
      [] Ready /\ pol # Enforced -> [kind |-> "raise", from |-> pol, to |-> Raised(pol)]
      [] OTHER -> [kind |-> "hold", from |-> pol, to |-> pol]

\* _POLICY_STRENGTH, and a NULL pct read as 100.
Percent(pol) == IF pol.pct = Unsaid THEN 100 ELSE pol.pct
MaterialDelta == 2
Claims(after, before) ==
    \/ Rank(after.p) > Rank(before.p)
    \/ after.p = before.p /\ Percent(after) > Percent(before) + MaterialDelta

\* A bug: no run that far back is read as no protection then.
TightenedFromNothing(start) ==
    LET past == {b \in Told : b >= start} IN
    /\ Told # {}
    /\ Claims(Policy(seen[Latest]),
              IF past = {} THEN [p |-> "none", pct |-> 100] ELSE Policy(seen[Min(past)]))

\* _protection_tightened, for a report whose period starts at that age: the
\* newest run against the run the period began in, if one is known.
Tightened(start) ==
    LET past == {b \in Told : b >= start} IN
    past # {} /\ Claims(Policy(seen[Latest]), Policy(seen[Min(past)]))
-----------------------------------------------------------------------------
RampInit ==
    /\ \E pol \in Policies : published = [a \in 0..Keep + 1 |-> pol]
    /\ seen = [a \in Ages |-> Silent]
    /\ advice = NoAdvice
    /\ analysed = FALSE
    /\ slips = 0

Slip == slips < MaxSlips /\ slips' = slips + 1

\* The day is over; on an ordinary day yesterday's report has come by now.
NewDay ==
    /\ analysed
    /\ IF seen[1] = Silent THEN Slip ELSE UNCHANGED slips
    /\ published' = [a \in 0..Keep + 1 |-> published[IF a = 0 THEN 0 ELSE a - 1]]
    /\ seen' = [a \in Ages |-> IF a = 0 THEN Silent ELSE seen[a - 1]]
    /\ analysed' = FALSE
    /\ UNCHANGED advice

\* The reports of day a arrive, and agree.
Arrive(a, mail) ==
    /\ a > 0 /\ seen[a] = Silent
    /\ IF mail = "good" THEN UNCHANGED slips ELSE Slip
    /\ \E pol \in {published[a], published[a + 1]} :
          seen' = [seen EXCEPT ![a] = [p |-> pol.p, pct |-> pol.pct, mail |-> mail]]
    /\ analysed' = FALSE
    /\ UNCHANGED <<published, advice>>

\* The reports of a day that do not say pct.
ArriveUnsaid(a) ==
    /\ a > 0 /\ seen[a] = Silent /\ Slip
    /\ seen' = [seen EXCEPT ![a] = [p |-> published[a].p, pct |-> Unsaid, mail |-> "good"]]
    /\ analysed' = FALSE
    /\ UNCHANGED <<published, advice>>

\* run_analysis as far as the policy goes.  Where pct matters, NULL < 100
\* raises a TypeError: the run ends there and the open item stays as it was.
Analyse ==
    /\ ~analysed
    /\ analysed' = TRUE
    /\ advice' =
          IF Told = {} THEN NoAdvice
          ELSE LET pol == Policy(seen[Latest]) IN
               IF pol.pct = Unsaid /\ pol.p # "none" /\ Rate # "thin"
               THEN advice ELSE Recommend(pol)
    /\ UNCHANGED <<published, seen, slips>>

\* The owner does what the open item says, unless it is done already.
Follow ==
    /\ advice.kind = "raise" /\ Stronger(advice.to, published[0])
    /\ published' = [published EXCEPT ![0] = advice.to]
    /\ UNCHANGED <<seen, advice, analysed, slips>>

\* The owner publishes something else.
Republish ==
    /\ Slip
    /\ \E pol \in Policies \ {published[0]} : published' = [published EXCEPT ![0] = pol]
    /\ UNCHANGED <<seen, advice, analysed>>

RampNext ==
    \/ NewDay \/ Analyse \/ Follow \/ Republish
    \/ \E a \in Ages : ArriveUnsaid(a) \/ \E mail \in Quality : Arrive(a, mail)

RampFairness ==
    /\ WF_rampVars(NewDay) /\ WF_rampVars(Analyse) /\ WF_rampVars(Follow)
    /\ WF_rampVars(Arrive(1, "good"))

RampSpec == RampInit /\ [][RampNext]_rampVars
-----------------------------------------------------------------------------
\* Every variable is of the shape the code gives it.
RampTypeOK ==
    LET About == [p : Levels, pct : Percents \cup {Unsaid}] IN
    /\ published \in [0..Keep + 1 -> Policies]
    /\ seen \in [Ages -> SeenDays]
    /\ advice \in [kind : {"none", "insufficient", "investigate", "hold", "raise"},
                   from : About, to : About]
    /\ analysed \in BOOLEAN
    /\ slips \in 0..MaxSlips

\* Advice to move is advice to move up: the policy it names is stronger than
\* the one it is about, from any rung, also one that is not in ramp_steps
\* (analysis.py recommend).
AdvisedUpward == advice.kind = "raise" => Stronger(advice.to, advice.from)

\* The order the claim is made by: the policy first, then its percentage.
Higher(a, b) == Rank(a.p) > Rank(b.p) \/ (a.p = b.p /\ a.pct > b.pct)

\* A client is told that the protection was strengthened only if, on some day
\* the reports cover, the policy was moved up (two points at a time may add up
\* to a claim, a day's reports may be of the day before, but a step up there
\* must have been): domain_report.py _protection_tightened.  Not when the
\* newest reports leave pct out: read as 100, that is claimed as a step up from
\* any lower pct.
NoInventedClaim ==
    (\E start \in Ages : Tightened(start)) /\ seen[Latest].pct # Unsaid =>
        \E a \in Ages : Higher(published[a], published[a + 1])

\* An owner who follows the advice ends at p=reject, pct=100, from whatever
\* policy the domain starts with: the ladder has no rung that advises nothing,
\* and an odd day only delays it (analysis.py recommend).
EnforcedInTheEnd == <>[](published[0] = Enforced)
=============================================================================
