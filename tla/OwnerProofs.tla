-------------------------- MODULE OwnerProofs ------------------------------
(***************************************************************************)
(* What an owner is told and advised: the report leaves out no fix but for  *)
(* the named reasons, its sections agree, the advice of PolicyRamp never    *)
(* points down the ladder, and the notices to a client say everything and   *)
(* say it once; for all findings, moves, periods, ladders, settings,        *)
(* addresses and clicks.                                                   *)
(***************************************************************************)
EXTENDS OwnerReport, PolicyRamp, ClientNotices, WellFoundedInduction, TLAPS

\* A set of numbers that is not empty has a least one, and Min names it.
LEMMA MinIsLeast ==
    ASSUME NEW S \in SUBSET Nat, S # {}
    PROVE  Min(S) \in S /\ \A y \in S : Min(S) <= y
<1> DEFINE R == {p \in Nat \X Nat : p[1] < p[2]}
<1>1. OpToRel(<, Nat) = R
  BY Zenon DEF OpToRel
<1>2. IsWellFoundedOn(R, Nat)
  BY <1>1, NatLessThanWellFounded, Zenon
<1>3. PICK x \in S : \A y \in S : <<y, x>> \notin R
  BY <1>2, WFMin, Zenon
<1>4. \A y \in S : x <= y
  <2> TAKE y \in S
  <2>1. y \in Nat /\ x \in Nat
    OBVIOUS
  <2>2. <<y, x>> \in Nat \X Nat /\ <<y, x>>[1] = y /\ <<y, x>>[2] = x
    BY <2>1
  <2>3. ~(y < x)
    BY <1>3, <2>2
  <2> QED
    BY <2>1, <2>3
<1> HIDE DEF R
<1> DEFINE Least(z) == \A y \in S : z <= y
<1>5. \E z \in S : Least(z)
  BY <1>4
<1>6. Min(S) = CHOOSE z \in S : Least(z)
  BY DEF Min
<1> HIDE DEF Least
<1>7. Min(S) \in S /\ Least(Min(S))
  BY <1>5, <1>6
<1> QED
  BY <1>7 DEF Least

\* What the next rung is: further up, and within the ladder.
LEMMA NextPercentRises ==
    ASSUME NEW pct \in Percents, pct < 100
    PROVE  NextPercent(pct) \in Percents /\ NextPercent(pct) > pct
<1> DEFINE above == {s \in RampSteps : s > pct}
<1>1. above \in SUBSET Nat /\ above \subseteq RampSteps
  <2>1. \A s \in RampSteps : s \in Nat
    BY RampAssumption
  <2> QED
    BY <2>1
<1>2. CASE above = {}
  BY <1>2, RampAssumption DEF NextPercent, Percents
<1>3. CASE above # {}
  <2>1. Min(above) \in above
    BY <1>1, <1>3, MinIsLeast
  <2>2. NextPercent(pct) = Min(above)
    BY <1>3 DEF NextPercent
  <2> QED
    BY <2>1, <2>2 DEF Percents
<1> QED
  BY <1>2, <1>3

\* Every policy that is not fully enforced is raised to a stronger one.
LEMMA RaisedIsStronger ==
    ASSUME NEW pol \in [p : Levels, pct : Percents \cup {Unsaid}], pol # Enforced,
           pol.p = "none" \/ pol.pct # Unsaid
    PROVE  /\ Raised(pol) \in Policies
           /\ Stronger(Raised(pol), pol)
<1> USE DEF Levels, Policies, Stronger, Rank
<1>0. 100 \in Percents /\ 10 \in Percents /\ \A s \in Percents : s \in 1..100
  BY RampAssumption DEF Percents
<1>1. CASE pol.p = "none"
  <2>1. Raised(pol) = [p |-> "quarantine", pct |-> 10]
    BY <1>1 DEF Raised
  <2> QED
    BY <1>0, <1>1, <2>1
<1>2. CASE pol.p # "none" /\ pol.pct < 100
  <2>1. pol.pct \in Percents
    BY <1>2
  <2>2. Raised(pol) = [p |-> pol.p, pct |-> NextPercent(pol.pct)]
    BY <1>2 DEF Raised
  <2>3. NextPercent(pol.pct) \in Percents /\ NextPercent(pol.pct) > pol.pct
    BY <1>2, <2>1, NextPercentRises
  <2> QED
    BY <1>2, <2>2, <2>3
<1>3. CASE pol.p # "none" /\ ~(pol.pct < 100)
  <2>1. pol.pct = 100
    BY <1>0, <1>3
  <2>2. pol.p = "quarantine"
    BY <1>3, <2>1 DEF Enforced
  <2>3. Raised(pol) = [p |-> "reject", pct |-> 100]
    BY <1>3, <2>1 DEF Raised
  <2> QED
    BY <1>0, <2>2, <2>3
<1> QED
  BY <1>1, <1>2, <1>3
-----------------------------------------------------------------------------
\* What an analysis reads: the policy of a day that has a report, if any has.
LEMMA LatestIsTold ==
    ASSUME RampTypeOK, Told # {}
    PROVE  Latest \in Ages /\ seen[Latest] \in SeenDays \ {Silent}
<1>1. Told \in SUBSET Nat /\ Told \subseteq Ages
  BY RampAssumption DEF Told, Ages
<1>2. Latest \in Told
  BY <1>1, MinIsLeast DEF Latest
<1> QED
  BY <1>2 DEF Told, RampTypeOK

\* What recommend returns is well formed, and upward if it says to move.
LEMMA RecommendIsSound ==
    ASSUME RampTypeOK, Told # {}, NEW pol, pol = Policy(seen[Latest]),
           ~(pol.pct = Unsaid /\ pol.p # "none" /\ Rate # "thin")
    PROVE  /\ Recommend(pol) \in [kind : {"none", "insufficient", "investigate", "hold", "raise"},
                                  from : [p : Levels, pct : Percents \cup {Unsaid}],
                                  to : [p : Levels, pct : Percents \cup {Unsaid}]]
           /\ Recommend(pol).kind = "raise" =>
                /\ Recommend(pol).to \in Policies
                /\ Stronger(Recommend(pol).to, Recommend(pol).from)
<1> DEFINE About == [p : Levels, pct : Percents \cup {Unsaid}]
<1>1. pol \in About
  <2>1. seen[Latest] \in [p : Levels, pct : Percents \cup {Unsaid}, mail : Quality]
    BY LatestIsTold DEF SeenDays
  <2> QED
    BY <2>1 DEF Policy
<1>2. Enforced \in About /\ NoAdvice \in
        [kind : {"none", "insufficient", "investigate", "hold", "raise"}, from : About, to : About]
  BY DEF Enforced, NoAdvice, Levels, Percents
<1> DEFINE thin == Rate = "thin"
           full == pol = Enforced
           low  == Rate = "bad" /\ pol.p # "none" /\ pol.pct < 100
<1>3. CASE thin
  <2>1. Recommend(pol) = [kind |-> "insufficient", from |-> pol, to |-> pol]
    BY <1>3 DEF Recommend, Ready
  <2> QED
    BY <1>1, <2>1
<1>4. CASE ~thin /\ full
  <2>1. Recommend(pol) = NoAdvice
    BY <1>4 DEF Recommend, Enforced
  <2> QED
    BY <1>2, <2>1 DEF NoAdvice
<1>5. CASE ~thin /\ ~full /\ low
  <2>1. Recommend(pol) = [kind |-> "investigate", from |-> pol, to |-> pol]
    BY <1>5 DEF Recommend, Ready
  <2> QED
    BY <1>1, <2>1
<1>6. CASE ~thin /\ ~full /\ ~low /\ Ready
  <2>1. Recommend(pol) = [kind |-> "raise", from |-> pol, to |-> Raised(pol)]
    BY <1>6 DEF Recommend
  <2>2. Raised(pol) \in Policies /\ Stronger(Raised(pol), pol)
    BY <1>1, <1>6, RaisedIsStronger
  <2>3. Raised(pol) \in About
    BY <2>2 DEF Policies
  <2> QED
    BY <1>1, <2>1, <2>2, <2>3
<1>7. CASE ~thin /\ ~full /\ ~low /\ ~Ready
  <2>1. Recommend(pol) = [kind |-> "hold", from |-> pol, to |-> pol]
    BY <1>7 DEF Recommend
  <2> QED
    BY <1>1, <2>1
<1> QED
  BY <1>3, <1>4, <1>5, <1>6, <1>7
-----------------------------------------------------------------------------
\* Named apart, so that a step that leaves the advice alone keeps it whole.
AdviceTyped ==
    /\ advice \in [kind : {"none", "insufficient", "investigate", "hold", "raise"},
                   from : [p : Levels, pct : Percents \cup {Unsaid}],
                   to : [p : Levels, pct : Percents \cup {Unsaid}]]
    /\ advice.kind = "raise" => advice.to \in Policies
    /\ AdvisedUpward

DaysTyped ==
    /\ published \in [0..Keep + 1 -> Policies]
    /\ seen \in [0..Keep -> SeenDays]
    /\ analysed \in BOOLEAN
    /\ slips \in 0..MaxSlips

RampInv == DaysTyped /\ AdviceTyped

LEMMA RampInvTyped == RampInv => RampTypeOK
  BY DEF RampInv, DaysTyped, AdviceTyped, RampTypeOK, Ages

LEMMA RampInitInv == RampInit => RampInv
<1> SUFFICES ASSUME RampInit PROVE RampInv
  OBVIOUS
<1>1. Enforced \in [p : Levels, pct : Percents \cup {Unsaid}]
  BY DEF Enforced, Levels, Percents
<1>2. Silent \in SeenDays
  BY DEF SeenDays
<1>3. AdviceTyped
  BY <1>1 DEF RampInit, AdviceTyped, AdvisedUpward, NoAdvice
<1>4. DaysTyped
  <2>1. published \in [0..Keep + 1 -> Policies]
    BY DEF RampInit
  <2>2. seen \in [0..Keep -> SeenDays]
    BY <1>2 DEF RampInit, Ages
  <2>3. analysed \in BOOLEAN
    BY Zenon DEF RampInit
  <2>4. slips \in 0..MaxSlips
    <3>1. slips = 0
      BY DEF RampInit
    <3> QED
      BY <3>1, RampAssumption
  <2> QED
    BY <2>1, <2>2, <2>3, <2>4 DEF DaysTyped
<1> QED
  BY <1>3, <1>4 DEF RampInv

LEMMA SlipCounts ==
    ASSUME slips \in 0..MaxSlips, Slip
    PROVE  slips' \in 0..MaxSlips
  BY RampAssumption DEF Slip

LEMMA RampNextInv == RampInv /\ [RampNext]_rampVars => RampInv'
<1> SUFFICES ASSUME RampInv, [RampNext]_rampVars PROVE RampInv'
  OBVIOUS
<1> USE RampAssumption DEF RampInv, DaysTyped, Ages
<1>0. advice' = advice => AdviceTyped'
  BY DEF AdviceTyped, AdvisedUpward, Stronger
<1>1. CASE NewDay
  <2>1. published' \in [0..Keep + 1 -> Policies]
    BY <1>1 DEF NewDay
  <2>2. seen' \in [0..Keep -> SeenDays]
    <3>1. Silent \in SeenDays
      BY DEF SeenDays
    <3> QED
      BY <1>1, <3>1 DEF NewDay
  <2>3. slips' \in 0..MaxSlips
    BY <1>1, SlipCounts DEF NewDay
  <2> QED
    BY <1>0, <1>1, <2>1, <2>2, <2>3 DEF NewDay
<1>2. ASSUME NEW a \in Ages, NEW mail \in Quality, Arrive(a, mail) PROVE RampInv'
  <2>1. PICK pol \in {published[a], published[a + 1]} :
          seen' = [seen EXCEPT ![a] = [p |-> pol.p, pct |-> pol.pct, mail |-> mail]]
    BY <1>2 DEF Arrive
  <2>2. pol \in Policies
    BY <2>1
  <2>3. [p |-> pol.p, pct |-> pol.pct, mail |-> mail] \in SeenDays
    BY <2>2 DEF SeenDays, Policies
  <2>4. seen' \in [0..Keep -> SeenDays]
    BY <2>1, <2>3
  <2>5. slips' \in 0..MaxSlips
    BY <1>2, SlipCounts DEF Arrive
  <2> QED
    BY <1>0, <1>2, <2>4, <2>5 DEF Arrive
<1>3. ASSUME NEW a \in Ages, ArriveUnsaid(a) PROVE RampInv'
  <2>1. published[a] \in Policies
    OBVIOUS
  <2>2. [p |-> published[a].p, pct |-> Unsaid, mail |-> "good"] \in SeenDays
    BY <2>1 DEF SeenDays, Policies, Quality
  <2>3. seen' \in [0..Keep -> SeenDays]
    BY <1>3, <2>2 DEF ArriveUnsaid
  <2>4. slips' \in 0..MaxSlips
    BY <1>3, SlipCounts DEF ArriveUnsaid
  <2> QED
    BY <1>0, <1>3, <2>3, <2>4 DEF ArriveUnsaid
<1>4. CASE Analyse
  <2> DEFINE pol == Policy(seen[Latest])
             unread == pol.pct = Unsaid /\ pol.p # "none" /\ Rate # "thin"
  <2>1. CASE Told = {}
    <3>1. advice' = NoAdvice
      BY <1>4, <2>1 DEF Analyse
    <3>2. Enforced \in [p : Levels, pct : Percents \cup {Unsaid}]
      BY DEF Enforced, Levels, Percents
    <3>3. AdviceTyped'
      BY <3>1, <3>2 DEF NoAdvice, AdviceTyped, AdvisedUpward
    <3> QED
      BY <1>4, <3>3 DEF Analyse
  <2>2. CASE Told # {} /\ unread
    <3>1. advice' = advice
      BY <1>4, <2>2 DEF Analyse
    <3> QED
      BY <1>0, <1>4, <3>1 DEF Analyse
  <2>3. CASE Told # {} /\ ~unread
    <3>1. advice' = Recommend(pol)
      BY <1>4, <2>3 DEF Analyse
    <3>2. ~(pol.pct = Unsaid /\ pol.p # "none" /\ Rate # "thin")
      BY <2>3
    <3> HIDE DEF pol
    <3>3. RampTypeOK
      BY RampInvTyped
    <3>4. /\ Recommend(pol) \in
               [kind : {"none", "insufficient", "investigate", "hold", "raise"},
                from : [p : Levels, pct : Percents \cup {Unsaid}],
                to : [p : Levels, pct : Percents \cup {Unsaid}]]
          /\ Recommend(pol).kind = "raise" =>
               /\ Recommend(pol).to \in Policies
               /\ Stronger(Recommend(pol).to, Recommend(pol).from)
      BY <2>3, <3>2, <3>3, RecommendIsSound DEF pol
    <3>5. AdviceTyped'
      BY <3>1, <3>4 DEF AdviceTyped, AdvisedUpward, Stronger
    <3> QED
      BY <1>4, <3>5 DEF Analyse
  <2> QED
    BY <2>1, <2>2, <2>3
<1>5. CASE Follow
  <2>1. advice.to \in Policies
    BY <1>5 DEF Follow, AdviceTyped
  <2>2. published' \in [0..Keep + 1 -> Policies]
    BY <1>5, <2>1 DEF Follow
  <2> QED
    BY <1>0, <1>5, <2>2 DEF Follow
<1>6. CASE Republish
  <2>1. published' \in [0..Keep + 1 -> Policies]
    BY <1>6 DEF Republish
  <2>2. slips' \in 0..MaxSlips
    BY <1>6, SlipCounts DEF Republish
  <2> QED
    BY <1>0, <1>6, <2>1, <2>2 DEF Republish
<1>7. CASE UNCHANGED rampVars
  BY <1>0, <1>7 DEF rampVars
<1> QED
  BY <1>1, <1>2, <1>3, <1>4, <1>5, <1>6, <1>7 DEF RampNext

\* Advice to move is advice to move up, from any policy and on any ladder of
\* ramp_steps (analysis.py recommend).
THEOREM NeverAdvisedDown == RampSpec => []AdvisedUpward
<1>1. RampInv => AdvisedUpward
  BY DEF RampInv, AdviceTyped
<1> QED
  BY <1>1, RampInitInv, RampNextInv, PTL DEF RampSpec

(***************************************************************************)
(* The ramp keeps its variables in their shape: advice names levels that a  *)
(* record can have (analysis.py recommend).                                 *)
(***************************************************************************)
THEOREM RampTyping == RampSpec => []RampTypeOK
BY RampInitInv, RampNextInv, RampInvTyped, PTL DEF RampSpec

(***************************************************************************)
(* A claim of progress is never invented.  Inductively: what a day's        *)
(* reports say was published that day or the day before; between the two    *)
(* days a claim compares, the policy then went up at some day.              *)
(***************************************************************************)
SaysPublished(a) ==
    \E b \in {a, a + 1} :
        /\ seen[a].p = published[b].p
        /\ seen[a].pct \in {Unsaid, published[b].pct}

DaysInv ==
    /\ seen[0] = Silent
    /\ \A a \in Ages : seen[a] # Silent => SaysPublished(a)

LEMMA DaysNext == RampInv /\ DaysInv /\ [RampNext]_rampVars => DaysInv'
<1> SUFFICES ASSUME RampInv, DaysInv, [RampNext]_rampVars PROVE DaysInv'
  OBVIOUS
<1>0. /\ Keep \in Nat \ {0} /\ Ages = 0..Keep
      /\ published \in [0..Keep + 1 -> Policies] /\ seen \in [0..Keep -> SeenDays]
  BY RampAssumption DEF RampInv, DaysTyped, Ages
<1>1. CASE NewDay
  <2>1. /\ seen'[0] = Silent
        /\ \A a \in 1..Keep : seen'[a] = seen[a - 1]
        /\ \A a \in 1..Keep + 1 : published'[a] = published[a - 1]
    BY <1>0, <1>1 DEF NewDay
  <2>2. ASSUME NEW a \in 1..Keep, seen[a - 1] # Silent PROVE SaysPublished(a)'
    <3>1. PICK b \in {a - 1, a - 1 + 1} :
            /\ seen[a - 1].p = published[b].p
            /\ seen[a - 1].pct \in {Unsaid, published[b].pct}
      BY <1>0, <2>2 DEF DaysInv, SaysPublished
    <3>2. b + 1 \in {a, a + 1} /\ b + 1 \in 1..Keep + 1 /\ (b + 1) - 1 = b
      BY <1>0, <2>2
    <3>3. seen'[a] = seen[a - 1] /\ published'[b + 1] = published[b]
      BY <2>1, <3>2
    <3> QED
      BY <3>1, <3>2, <3>3 DEF SaysPublished
  <2> QED
    BY <1>0, <2>1, <2>2 DEF DaysInv
<1>2. ASSUME NEW a \in Ages, NEW mail \in Quality, Arrive(a, mail) PROVE DaysInv'
  <2>1. PICK b \in {a, a + 1} :
          seen' = [seen EXCEPT ![a] = [p |-> published[b].p, pct |-> published[b].pct, mail |-> mail]]
    BY <1>2 DEF Arrive
  <2>2. SaysPublished(a)'
    BY <1>0, <1>2, <2>1 DEF Arrive, SaysPublished
  <2>3. \A c \in Ages \ {a} : seen'[c] = seen[c] /\ UNCHANGED published
    BY <1>0, <1>2, <2>1 DEF Arrive
  <2>4. a # 0 /\ 0 \in Ages
    BY <1>0, <1>2 DEF Arrive
  <2> QED
    BY <2>2, <2>3, <2>4 DEF DaysInv, SaysPublished
<1>3. ASSUME NEW a \in Ages, ArriveUnsaid(a) PROVE DaysInv'
  <2>1. SaysPublished(a)'
    BY <1>0, <1>3 DEF ArriveUnsaid, SaysPublished
  <2>2. \A c \in Ages \ {a} : seen'[c] = seen[c] /\ UNCHANGED published
    BY <1>0, <1>3 DEF ArriveUnsaid
  <2>3. a # 0 /\ 0 \in Ages
    BY <1>0, <1>3 DEF ArriveUnsaid
  <2> QED
    BY <2>1, <2>2, <2>3 DEF DaysInv, SaysPublished
<1>4. CASE Analyse \/ UNCHANGED rampVars
  BY <1>4 DEF Analyse, rampVars, DaysInv, SaysPublished
<1>5. CASE Follow \/ Republish
  <2>1. UNCHANGED seen /\ \A b \in 1..Keep + 1 : published'[b] = published[b]
    BY <1>0, <1>5 DEF Follow, Republish
  <2>2. ASSUME NEW a \in Ages, seen[a] # Silent PROVE SaysPublished(a)'
    <3>1. a \in 1..Keep /\ a + 1 \in 1..Keep + 1 /\ a \in 1..Keep + 1
      BY <1>0, <2>2 DEF DaysInv
    <3> QED
      BY <2>1, <2>2, <3>1 DEF DaysInv, SaysPublished
  <2> QED
    BY <2>1, <2>2 DEF DaysInv
<1> QED
  BY <1>1, <1>2, <1>3, <1>4, <1>5 DEF RampNext

\* Between a higher policy and a lower one before it there is a step up.
LEMMA StepBetween ==
    ASSUME published \in [0..Keep + 1 -> Policies],
           NEW i \in 0..Keep + 1, NEW j \in 0..Keep + 1, i <= j,
           Higher(published[i], published[j])
    PROVE  \E a \in Ages : Higher(published[a], published[a + 1])
<1>0. /\ Keep \in Nat
      /\ \A b \in 0..Keep + 1 : published[b].p \in Levels /\ published[b].pct \in Int
  <2>1. Percents \subseteq Int
    BY RampAssumption DEF Percents
  <2> QED
    BY <2>1, RampAssumption DEF Policies
<1> DEFINE lower == {k \in 0..Keep + 1 : i < k /\ Higher(published[i], published[k])}
<1>1. i # j
  BY <1>0 DEF Higher, Levels, Rank
<1>2. j \in lower /\ lower \in SUBSET Nat
  BY <1>0, <1>1
<1>3. PICK k \in lower : \A m \in lower : k <= m
  <2> HIDE DEF lower
  <2> QED
    BY <1>2, MinIsLeast
<1>4. k - 1 \in Ages /\ k - 1 \in 0..Keep + 1 /\ (k - 1) + 1 = k /\ i <= k - 1
  BY <1>0, <1>3 DEF Ages
<1>5. Higher(published[k - 1], published[k])
  <2>1. CASE k - 1 = i
    BY <1>3, <2>1
  <2>2. CASE i < k - 1
    <3>1. ~Higher(published[i], published[k - 1])
      BY <1>0, <1>3, <1>4, <2>2
    <3> QED
      BY <1>0, <1>3, <1>4, <3>1 DEF Higher, Levels, Rank
  <2> QED
    BY <1>4, <2>1, <2>2
<1> QED
  BY <1>4, <1>5

\* More by more than the delta is more, than a percentage or than a missing one.
LEMMA MaterialIsMore ==
    ASSUME NEW x \in 1..100, NEW y \in 1..100, NEW said \in {100, y}, x > said + MaterialDelta
    PROVE  x > y
  BY DEF MaterialDelta

\* The report claims a step up only if there was one, for any ladder, window
\* and period (domain_report.py _protection_tightened).
THEOREM ClaimsAreEarned == RampSpec => []NoInventedClaim
<1>1. RampInit => DaysInv
  BY RampAssumption DEF RampInit, DaysInv, Ages
<1>2. RampInv /\ DaysInv => NoInventedClaim
  <2> SUFFICES ASSUME RampInv, DaysInv, NEW start \in Ages, Tightened(start),
                      seen[Latest].pct # Unsaid
               PROVE  \E a \in Ages : Higher(published[a], published[a + 1])
    BY DEF NoInventedClaim
  <2> DEFINE runs == {b \in Told : b >= start}
  <2>0. /\ Keep \in Nat /\ Ages = 0..Keep
        /\ published \in [0..Keep + 1 -> Policies] /\ seen \in [Ages -> SeenDays]
    BY RampAssumption DEF RampInv, DaysTyped, Ages
  <2>1. runs # {} /\ Claims(Policy(seen[Latest]), Policy(seen[Min(runs)]))
    BY DEF Tightened
  <2>2. Told \in SUBSET Nat /\ runs \in SUBSET Nat /\ runs \subseteq Told /\ Told \subseteq Ages
    BY <2>0 DEF Told
  <2> DEFINE first == Min(runs)
  <2>3. first \in Told
    <3>1. Min(runs) \in runs
      BY <2>1, <2>2, MinIsLeast
    <3> QED
      BY <2>2, <3>1
  <2>4. Latest \in Told /\ Latest <= first
    <3> HIDE DEF first
    <3> QED
      BY <2>2, <2>3, MinIsLeast DEF Latest
  <2>5. PICK new, old : new = Latest /\ old = first
    OBVIOUS
  <2>6. /\ new \in Ages /\ old \in Ages /\ new <= old
        /\ seen[new] # Silent /\ seen[old] # Silent /\ seen[new].pct # Unsaid
        /\ Claims(Policy(seen[new]), Policy(seen[old]))
    BY <2>1, <2>2, <2>3, <2>4, <2>5 DEF Told
  <2> HIDE DEF first, runs
  <2>7. new # old
    <3>1. seen[new].p \in Levels /\ seen[new].pct \in Int
      <4>1. Percents \cup {Unsaid} \subseteq Int
        BY RampAssumption DEF Percents, Unsaid
      <4>2. seen[new] \in [p : Levels, pct : Percents \cup {Unsaid}, mail : Quality]
        BY <2>0, <2>6 DEF SeenDays
      <4> QED
        BY <4>1, <4>2
    <3> QED
      BY <2>6, <3>1 DEF Claims, Policy, Percent, Levels, Rank, MaterialDelta, Unsaid
  <2>8. PICK i \in {new, new + 1} :
          seen[new].p = published[i].p /\ seen[new].pct = published[i].pct
    BY <2>6 DEF DaysInv, SaysPublished
  <2>9. PICK j \in {old, old + 1} :
          seen[old].p = published[j].p /\ seen[old].pct \in {Unsaid, published[j].pct}
    BY <2>6 DEF DaysInv, SaysPublished
  <2>10. i \in 0..Keep + 1 /\ j \in 0..Keep + 1 /\ i <= j
    BY <2>0, <2>6, <2>7
  <2>11. Higher(published[i], published[j])
    <3>1. \A s \in Percents : s \in 1..100
      BY RampAssumption DEF Percents
    <3>2. published[i].pct \in 1..100 /\ published[j].pct \in 1..100
      BY <2>0, <2>10, <3>1 DEF Policies
    <3>3. published[i].p \in Levels /\ published[j].p \in Levels
      BY <2>0, <2>10 DEF Policies
    <3>4. CASE Rank(seen[new].p) > Rank(seen[old].p)
      BY <2>8, <2>9, <3>4 DEF Higher
    <3>5. CASE /\ seen[new].p = seen[old].p
               /\ Percent(Policy(seen[new])) > Percent(Policy(seen[old])) + MaterialDelta
      <4>1. Percent(Policy(seen[new])) = published[i].pct
        BY <2>6, <2>8 DEF Percent, Policy
      <4>2. Percent(Policy(seen[old])) \in {100, published[j].pct}
        BY <2>9 DEF Percent, Policy
      <4>3. published[i].pct > published[j].pct
        <5>1. PICK x, y, said : /\ x = published[i].pct /\ y = published[j].pct
                                /\ said = Percent(Policy(seen[old]))
          OBVIOUS
        <5>2. x > said + MaterialDelta
          BY <3>5, <4>1, <5>1
        <5>3. x \in 1..100 /\ y \in 1..100 /\ said \in {100, y}
          BY <3>2, <4>2, <5>1
        <5>4. x > y
          BY <5>2, <5>3, MaterialIsMore
        <5> QED
          BY <5>1, <5>4
      <4> QED
        BY <2>8, <2>9, <3>5, <4>3 DEF Higher
    <3> QED
      BY <2>6, <3>4, <3>5 DEF Claims, Policy
  <2> QED
    BY <2>0, <2>10, <2>11, StepBetween
<1> QED
  BY <1>1, <1>2, RampInitInv, RampNextInv, DaysNext, PTL DEF RampSpec

-----------------------------------------------------------------------------
Headlines == {"none", "one thing to flag", "all clear"}

\* The shape of the report in hand, and time that only passes.
ReportShape ==
    /\ clock \in Nat /\ sentAt \in Nat /\ sentAt <= clock
    /\ past \subseteq FindingKeys \X Nat
    /\ raised \subseteq FindingKeys
    /\ \A k \in raised : Category[k] \notin Hygiene
    /\ report \in [end : Nat, real : SUBSET Listed, open : SUBSET Categories,
                   listed : SUBSET Said(Categories), resolved : SUBSET Said(Categories),
                   praise : SUBSET Praise, tips : SUBSET Categories, risk : BOOLEAN,
                   headline : Headlines]

\* What is read of the open items at once, and what is told of those closed.
OpenNow   == {Category[k] : k \in {k \in raised :
                 Reported(Category[k]) /\ (k \in Listed => k \in report.real)}}
Telling ==
    Said(Resolved(ClosedNow, report.open) \cup (Hygiene \cap {Category[k] : k \in ClosedNow}))

LEMMA ShapeInit == ReportInit => ReportShape
BY DEF ReportInit, ReportShape, NoReport, Headlines

LEMMA ResolvedTyped ==
    ASSUME ReportShape
    PROVE  Telling \in SUBSET Said(Categories)
<1>1. ClosedNow \subseteq FindingKeys
  BY DEF ReportShape, ClosedNow
<1>2. Resolved(ClosedNow, report.open) \subseteq Categories
  BY <1>1 DEF Resolved, Categories
<1>3. {Category[k] : k \in ClosedNow} \subseteq Categories
  BY <1>1 DEF Categories
<1> HIDE DEF ClosedNow
<1> QED
  BY <1>2, <1>3 DEF Telling, Said

LEMMA ShapeNext == ReportShape /\ [ReportNext]_reportVars => ReportShape'
<1> SUFFICES ASSUME ReportShape, [ReportNext]_reportVars PROVE ReportShape'
  OBVIOUS
<1>0. ReportShape
  OBVIOUS
<1>1. ASSUME NEW k \in FindingKeys, RaiseFinding(k) \/ CloseFinding(k) \/ AddressLost(k)
      PROVE  ReportShape'
  BY <1>0, <1>1 DEF RaiseFinding, CloseFinding, AddressLost, Move, ReportShape
<1>2. CASE ReportTick
  BY <1>0, <1>2 DEF ReportTick, ReportShape
<1>3. CASE StartReport
  BY <1>0, <1>3 DEF StartReport, ReportShape, NoReport, Headlines
<1>4. CASE SplitBlocklist
  BY <1>0, <1>4 DEF SplitBlocklist, ReportShape
<1>5. CASE ReadCategories
  <2>1. PICK risk \in BOOLEAN : report' = [report EXCEPT
            !.open = OpenNow, !.praise = WhatsWorking(OpenNow), !.tips = OpenNow \cap WithTip,
            !.risk = risk, !.headline = HeadlineVerdict(OpenNow, risk)]
    BY <1>5 DEF ReadCategories, OpenNow, Risks, Tips
  <2>2. OpenNow \in SUBSET Categories /\ WhatsWorking(OpenNow) \in SUBSET Praise
    BY <1>0 DEF OpenNow, WhatsWorking, ReportShape, Categories
  <2>3. HeadlineVerdict(OpenNow, risk) \in Headlines
    BY DEF HeadlineVerdict, Headlines
  <2>4. UNCHANGED <<clock, sentAt, past, raised>>
    BY <1>5 DEF ReadCategories
  <2> QED
    BY <1>0, <2>1, <2>2, <2>3, <2>4 DEF ReportShape
<1>6. CASE ListStillOpen
  <2>1. StillOpen \subseteq Categories
    BY <1>0 DEF StillOpen, ReportShape, Categories
  <2>2. Said(StillOpen) \in SUBSET Said(Categories)
    BY <2>1 DEF Said
  <2> QED
    BY <1>0, <1>6, <2>2 DEF ListStillOpen, ReportShape
<1>7. CASE ListResolved
  <2>1. PICK S \in SUBSET Said(Categories) : report' = [report EXCEPT !.resolved = S]
    BY <1>0, <1>7, ResolvedTyped DEF ListResolved, Telling
  <2> QED
    BY <1>0, <1>7, <2>1 DEF ListResolved, ReportShape
<1>8. CASE NotSent \/ Delivered
  <2>1. /\ report' = NoReport /\ UNCHANGED <<clock, past, raised>>
        /\ sentAt' \in {sentAt, clock}
    BY <1>8 DEF NotSent, Delivered
  <2>2. NoReport \in [end : Nat, real : SUBSET Listed, open : SUBSET Categories,
                     listed : SUBSET Said(Categories), resolved : SUBSET Said(Categories),
                     praise : SUBSET Praise, tips : SUBSET Categories, risk : BOOLEAN,
                     headline : Headlines]
    BY DEF NoReport, Headlines
  <2>3. sentAt' \in Nat /\ sentAt' <= clock'
    BY <1>0, <2>1 DEF ReportShape
  <2> QED
    BY <1>0, <2>1, <2>2, <2>3 DEF ReportShape
<1>9. CASE UNCHANGED reportVars
  BY <1>0, <1>9 DEF reportVars, ReportShape
<1> QED
  BY <1>1, <1>2, <1>3, <1>4, <1>5, <1>6, <1>7, <1>8, <1>9 DEF ReportNext

-----------------------------------------------------------------------------
(***************************************************************************)
(* The bounds of the report part.  That the rows which were told or missed  *)
(* are rows that exist needs nothing but that no row is ever taken away.    *)
(***************************************************************************)
ReportBounds ==
    /\ clock \in 1..Horizon /\ sentAt <= clock /\ report.end \in 0..Horizon
    /\ past \subseteq FindingKeys \X (1..Horizon)
    /\ told \subseteq past /\ missed \subseteq past
    /\ spoofer \subseteq Listed
    /\ step \in Steps
    /\ moves \in 0..MaxMoves
    /\ moved \in BOOLEAN

LEMMA ShapeWithinBounds == ReportShape /\ ReportBounds => ReportTypeOK
<1> SUFFICES ASSUME ReportShape, ReportBounds PROVE ReportTypeOK
  OBVIOUS
<1>1. sentAt \in 0..Horizon
  BY HorizonAssumption DEF ReportShape, ReportBounds
<1>2. report \in [end : 0..Horizon, real : SUBSET Listed, open : SUBSET Categories,
                  listed : SUBSET Said(Categories), resolved : SUBSET Said(Categories),
                  praise : SUBSET Praise, tips : SUBSET Categories, risk : BOOLEAN,
                  headline : {"none", "one thing to flag", "all clear"}]
  BY DEF ReportShape, ReportBounds, Headlines
<1>3. moved \in BOOLEAN
  BY DEF ReportBounds
<1> QED
  BY <1>1, <1>2, <1>3 DEF ReportShape, ReportBounds, ReportTypeOK

LEMMA BoundsInit == ReportInit => ReportBounds
<1> SUFFICES ASSUME ReportInit PROVE ReportBounds
  OBVIOUS
<1>1. clock \in 1..Horizon /\ sentAt <= clock /\ report.end \in 0..Horizon
  BY HorizonAssumption DEF ReportInit, NoReport
<1>2. moves \in 0..MaxMoves /\ step \in Steps /\ spoofer \subseteq Listed
  BY HorizonAssumption DEF ReportInit, Steps
<1>3. past = {} /\ told = {} /\ missed = {} /\ moved = FALSE
  BY DEF ReportInit
<1> QED
  BY <1>1, <1>2, <1>3 DEF ReportBounds

LEMMA BoundsNext ==
    ReportShape /\ ReportBounds /\ [ReportNext]_reportVars => ReportBounds'
<1> SUFFICES ASSUME ReportShape, ReportBounds, [ReportNext]_reportVars PROVE ReportBounds'
  OBVIOUS
<1>0. ReportShape /\ ReportBounds /\ Horizon \in Nat /\ MaxMoves \in Nat
  BY HorizonAssumption
<1>1. ASSUME NEW k \in FindingKeys, RaiseFinding(k) \/ CloseFinding(k) \/ AddressLost(k)
      PROVE  ReportBounds'
  <2>1. /\ moves' \in 0..MaxMoves
        /\ past' \in {past, past \cup {<<k, clock>>}}
        /\ UNCHANGED <<clock, sentAt, spoofer, step, report, told, missed>>
    BY <1>0, <1>1 DEF RaiseFinding, CloseFinding, AddressLost, Move, ReportBounds
  <2>2. moved' \in BOOLEAN
    BY <1>1, Zenon DEF RaiseFinding, CloseFinding, AddressLost, Move, Building
  <2>3. past' \subseteq FindingKeys \X (1..Horizon) /\ past \subseteq past'
    BY <1>0, <2>1 DEF ReportBounds
  <2> QED
    BY <1>0, <2>1, <2>2, <2>3 DEF ReportBounds
<1>2. CASE ReportTick
  <2>1. clock' \in 1..Horizon /\ sentAt' <= clock'
    BY <1>0, <1>2 DEF ReportTick, ReportShape, ReportBounds
  <2> QED
    BY <1>0, <1>2, <2>1 DEF ReportTick, ReportBounds
<1>3. CASE StartReport
  <2>1. report'.end = clock /\ moved' = FALSE /\ step' \in Steps
    BY <1>3 DEF StartReport, NoReport, Steps
  <2>2. UNCHANGED <<past, clock, sentAt, spoofer, told, missed, moves>>
    BY <1>3 DEF StartReport
  <2>3. report'.end \in 0..Horizon
    BY <1>0, <2>1 DEF ReportBounds
  <2> QED
    BY <1>0, <2>1, <2>2, <2>3 DEF ReportBounds
<1>4. CASE SplitBlocklist \/ ReadCategories \/ ListStillOpen \/ ListResolved
  <2>1. /\ report'.end = report.end
        /\ step' \in Steps
        /\ UNCHANGED <<past, clock, sentAt, spoofer, told, missed, moved, moves>>
    BY <1>0, <1>4 DEF SplitBlocklist, ReadCategories, ListStillOpen, ListResolved, Steps,
                      ReportShape
  <2> QED
    BY <1>0, <2>1 DEF ReportBounds
<1>5. CASE NotSent
  BY <1>0, <1>5 DEF NotSent, NoReport, ReportBounds, Steps
<1>6. CASE Delivered
  <2>1. told' \subseteq past /\ missed' \subseteq past /\ past' = past
    BY <1>0, <1>6 DEF Delivered, Tells, ReportBounds
  <2>2. sentAt' <= clock'
    BY <1>0, <1>6 DEF Delivered, ReportBounds
  <2>3. UNCHANGED <<clock, spoofer, moved, moves>> /\ step' \in Steps /\ report'.end = 0
    BY <1>6 DEF Delivered, NoReport, Steps
  <2> QED
    BY <1>0, <2>1, <2>2, <2>3 DEF ReportBounds
<1>7. CASE UNCHANGED reportVars
  BY <1>0, <1>7 DEF reportVars, ReportBounds
<1> QED
  BY <1>1, <1>2, <1>3, <1>4, <1>5, <1>6, <1>7 DEF ReportNext

(***************************************************************************)
(* The report part keeps its variables in their shape: no report speaks of  *)
(* a row that is not stored (domain_report.py build_domain_report).         *)
(***************************************************************************)
THEOREM ReportTyping == ReportSpec => []ReportTypeOK
BY ShapeInit, ShapeNext, BoundsInit, BoundsNext, ShapeWithinBounds, PTL DEF ReportSpec

-----------------------------------------------------------------------------
(***************************************************************************)
(* All fixes are told.  Inductively: until something moves, an address that  *)
(* left the blocklists is ours or disowned, as it was at the first read, and *)
(* the list of what was resolved is what the database says.                 *)
(***************************************************************************)
Split == {"categories", "listing", "resolving", "sending"}

FixesInv ==
    /\ step \in Split /\ ~moved => ClosedNow \cap Listed \subseteq report.real \cup spoofer
    /\ step = "sending" /\ ~moved => report.resolved = Telling
    /\ FixesAreTold

\* Every listed key is in the category of blocklists.
LEMMA ListedAreBlocklist == \A k \in Listed : k \in FindingKeys /\ Category[k] = "blocklist"
BY DEF Listed, Category

\* Delivering a report leaves nothing that is neither told nor missed.
LEMMA DeliveredTells ==
    ASSUME ReportShape, FixesInv, Delivered
    PROVE  FixesAreTold'
<1> SUFFICES ASSUME NEW e \in past, e[2] < clock, e \notin told \cup Tells, e \notin missed'
             PROVE  FALSE
  BY DEF Delivered, FixesAreTold
<1>0. e[1] \in FindingKeys /\ e[2] \in Nat /\ sentAt \in Nat /\ clock \in Nat /\ report.end \in Nat
  BY DEF ReportShape
<1>1. ~(e[2] < sentAt)
  BY DEF FixesInv, FixesAreTold, Delivered
<1>2. /\ ~(e[2] > report.end)
      /\ Category[e[1]] \notin report.open \cup NeverResolved \cup OperatorOnly
      /\ ~Misspoken(e[1])
      /\ ~moved
  BY DEF Delivered
<1>3. InPeriod(e[2])
  BY <1>0, <1>1, <1>2 DEF InPeriod
<1>4. e[1] \in ClosedNow
  BY <1>3 DEF ClosedNow
<1>5. report.resolved = Telling /\ ClosedNow \cap Listed \subseteq report.real \cup spoofer
  BY <1>2 DEF FixesInv, Delivered, Split
<1>6. Category[e[1]] \in Resolved(ClosedNow, report.open)
                        \cup (Hygiene \cap {Category[k] : k \in ClosedNow})
  <2>1. CASE Category[e[1]] \in Hygiene
    BY <1>4, <2>1
  <2>2. CASE Category[e[1]] \notin Hygiene /\ e[1] \notin Listed
    BY <1>2, <1>4, <2>2 DEF Resolved, Reported
  <2>3. CASE e[1] \in Listed
    <3>1. PICK k \in Speaker(ClosedNow \cap Listed) : k \notin spoofer
      BY <1>2, <2>3 DEF Misspoken
    <3>2. k \in ClosedNow \cap Listed
      BY <3>1 DEF Speaker
    <3>3. k \in report.real
      BY <1>5, <3>1, <3>2
    <3>4. Category[k] = "blocklist" /\ Category[e[1]] = "blocklist"
      BY <2>3, <3>2, ListedAreBlocklist
    <3>5. "blocklist" \notin NeverResolved \cup Hygiene \cup report.open /\ Reported("blocklist")
      BY <1>2, <3>4 DEF NeverResolved, Hygiene, Reported, OperatorOnly
    <3>6. Category[k] \in Resolved(ClosedNow, report.open)
      BY <3>1, <3>2, <3>3, <3>4, <3>5 DEF Resolved
    <3> QED
      BY <3>4, <3>6
  <2> QED
    BY <2>1, <2>2, <2>3
<1>7. Story(Category[e[1]]) \in report.resolved
  BY <1>5, <1>6 DEF Telling, Said
<1> QED
  BY <1>3, <1>7 DEF Tells

LEMMA FixesNext == ReportShape /\ FixesInv /\ [ReportNext]_reportVars => FixesInv'
<1> SUFFICES ASSUME ReportShape, FixesInv, [ReportNext]_reportVars PROVE FixesInv'
  OBVIOUS
<1>0. ReportShape /\ FixesInv
  OBVIOUS
<1> USE DEF Split
<1>1. ASSUME NEW k \in FindingKeys, RaiseFinding(k) \/ CloseFinding(k) \/ AddressLost(k)
      PROVE  FixesInv'
  <2>1. step' \in Split => moved'
    BY <1>1 DEF RaiseFinding, CloseFinding, AddressLost, Move, Building
  <2>2. \A e \in past' : e \in past \/ e[2] = clock
    BY <1>1 DEF RaiseFinding, CloseFinding, AddressLost
  <2>3. UNCHANGED <<sentAt, told, missed>>
    BY <1>1 DEF RaiseFinding, CloseFinding, AddressLost, Move
  <2>4. FixesAreTold'
    BY <1>0, <2>2, <2>3 DEF FixesInv, FixesAreTold, ReportShape
  <2> QED
    BY <2>1, <2>4 DEF FixesInv
<1>2. CASE ReportTick \/ UNCHANGED reportVars
  <2>1. UNCHANGED <<past, sentAt, spoofer, step, report, told, missed, moved>>
    BY <1>2 DEF ReportTick, reportVars
  <2>2. ClosedNow' = ClosedNow
    BY <2>1 DEF ClosedNow, InPeriod
  <2>3. Telling' = Telling
    BY <2>1, <2>2 DEF Telling, Resolved
  <2> QED
    BY <1>0, <2>1, <2>2, <2>3 DEF FixesInv, FixesAreTold
<1>3. CASE StartReport \/ NotSent
  BY <1>0, <1>3 DEF StartReport, NotSent, FixesInv, FixesAreTold
<1>4. CASE SplitBlocklist
  <2>1. /\ report'.end = report.end
        /\ report'.real = {k \in Listed :
               k \in raised \/ \E e \in past : e[1] = k /\ InPeriod(e[2])} \ spoofer
        /\ step' = "categories" /\ UNCHANGED <<past, sentAt, spoofer, told, missed>>
    BY <1>0, <1>4 DEF SplitBlocklist, ReportShape
  <2>2. ClosedNow' = ClosedNow
    BY <2>1 DEF ClosedNow, InPeriod
  <2>3. ClosedNow \cap Listed \subseteq report'.real \cup spoofer
    BY <2>1 DEF ClosedNow
  <2> QED
    BY <1>0, <2>1, <2>2, <2>3 DEF FixesInv, FixesAreTold
<1>5. CASE ReadCategories \/ ListStillOpen
  <2>1. /\ report'.end = report.end /\ report'.real = report.real
        /\ step \in Split /\ step' # "sending"
        /\ UNCHANGED <<past, sentAt, spoofer, told, missed, moved>>
    BY <1>0, <1>5 DEF ReadCategories, ListStillOpen, ReportShape
  <2>2. ClosedNow' = ClosedNow
    BY <2>1 DEF ClosedNow, InPeriod
  <2> QED
    BY <1>0, <2>1, <2>2 DEF FixesInv, FixesAreTold
<1>6. CASE ListResolved
  <2>1. report' = [report EXCEPT !.resolved = Telling]
        /\ step \in Split /\ UNCHANGED <<past, sentAt, spoofer, told, missed, moved>>
    BY <1>6 DEF ListResolved, Telling
  <2>2. report'.end = report.end /\ report'.open = report.open /\ report'.real = report.real
        /\ report'.resolved = Telling
    BY <1>0, <2>1 DEF ReportShape
  <2>3. ClosedNow' = ClosedNow
    BY <2>1, <2>2 DEF ClosedNow, InPeriod
  <2>4. Telling' = Telling
    BY <2>2, <2>3 DEF Telling, Resolved
  <2> QED
    BY <1>0, <2>1, <2>2, <2>3, <2>4 DEF FixesInv, FixesAreTold
<1>7. CASE Delivered
  BY <1>0, <1>7, DeliveredTells DEF Delivered, FixesInv
<1> QED
  BY <1>1, <1>2, <1>3, <1>4, <1>5, <1>6, <1>7 DEF ReportNext

(***************************************************************************)
(* What was fixed and what was lost is told in one of the reports, but for  *)
(* the reasons that `missed` names (domain_report.py build_domain_report).  *)
(***************************************************************************)
THEOREM FixesReachTheOwner == ReportSpec => []FixesAreTold
<1>1. ReportInit => FixesInv
  BY DEF ReportInit, FixesInv, FixesAreTold, Split
<1> QED
  BY <1>1, ShapeInit, ShapeNext, FixesNext, PTL DEF ReportSpec, FixesInv

-----------------------------------------------------------------------------
(***************************************************************************)
(* The sections agree.  Inductively: what the headline, the praise and the  *)
(* tips say follows from what was open at their read; unless something      *)
(* moved, that is what is still open, and then what is listed.              *)
(***************************************************************************)
After == {"listing", "resolving", "sending"}

SectionsInv ==
    /\ step \in After =>
          /\ report.headline = HeadlineVerdict(report.open, report.risk)
          /\ report.praise = WhatsWorking(report.open)
          /\ report.tips = report.open \cap WithTip
          /\ report.open \subseteq Categories \ Hygiene
    /\ step = "listing" /\ ~moved => report.open = OpenNow
    /\ step \in {"resolving", "sending"} /\ ~moved =>
          /\ report.listed \subseteq Said(report.open)
          /\ Said(report.open) \ {"blocklist"} \subseteq report.listed
    /\ step = "sending" => \A s \in report.resolved :
          \E c \in Categories : Story(c) = s /\ (c \in Hygiene \/ c \notin report.open)

LEMMA SectionsNext == ReportShape /\ SectionsInv /\ [ReportNext]_reportVars => SectionsInv'
<1> SUFFICES ASSUME ReportShape, SectionsInv, [ReportNext]_reportVars PROVE SectionsInv'
  OBVIOUS
<1>0. ReportShape /\ SectionsInv
  OBVIOUS
<1> USE DEF After
<1>1. ASSUME NEW k \in FindingKeys, RaiseFinding(k) \/ CloseFinding(k) \/ AddressLost(k)
      PROVE  SectionsInv'
  <2>1. step' \in After => moved'
    BY <1>1 DEF RaiseFinding, CloseFinding, AddressLost, Move, Building
  <2>2. UNCHANGED <<step, report>>
    BY <1>1 DEF RaiseFinding, CloseFinding, AddressLost, Move
  <2> QED
    BY <1>0, <2>1, <2>2 DEF SectionsInv
<1>2. CASE ReportTick \/ UNCHANGED reportVars
  BY <1>0, <1>2 DEF ReportTick, reportVars, SectionsInv, OpenNow
<1>3. CASE StartReport \/ SplitBlocklist \/ NotSent \/ Delivered
  BY <1>3 DEF StartReport, SplitBlocklist, NotSent, Delivered, SectionsInv
<1>4. CASE ReadCategories
  <2>1. PICK risk : report' = [report EXCEPT
            !.open = OpenNow, !.praise = WhatsWorking(OpenNow), !.tips = OpenNow \cap WithTip,
            !.risk = risk, !.headline = HeadlineVerdict(OpenNow, risk)]
    BY <1>4 DEF ReadCategories, OpenNow, Tips
  <2>2. /\ report'.open = OpenNow /\ report'.praise = WhatsWorking(OpenNow)
        /\ report'.tips = OpenNow \cap WithTip /\ report'.risk = risk
        /\ report'.headline = HeadlineVerdict(OpenNow, risk)
        /\ report'.real = report.real
    BY <1>0, <2>1 DEF ReportShape
  <2>3. OpenNow \subseteq Categories \ Hygiene
    BY <1>0 DEF OpenNow, ReportShape, Categories
  <2>4. step' = "listing" /\ UNCHANGED <<raised, moved>>
    BY <1>4 DEF ReadCategories
  <2>5. OpenNow' = OpenNow
    BY <2>2, <2>4 DEF OpenNow
  <2> QED
    BY <2>2, <2>3, <2>4, <2>5 DEF SectionsInv
<1>5. CASE ListStillOpen
  <2> DEFINE S == Said(StillOpen)
  <2>1. /\ report' = [report EXCEPT !.listed = S]
        /\ step = "listing" /\ step' = "resolving" /\ UNCHANGED moved
    BY <1>5 DEF ListStillOpen
  <2>2. S \subseteq Said(OpenNow)
    BY DEF OpenNow, StillOpen, Said
  <2>3. Said(OpenNow) \ {"blocklist"} \subseteq S
    <3> SUFFICES ASSUME NEW c \in OpenNow, Story(c) # "blocklist" PROVE c \in StillOpen
      BY DEF Said
    <3>1. PICK k \in raised : c = Category[k] /\ Reported(Category[k])
      BY DEF OpenNow
    <3>2. k \notin Listed
      BY <3>1, ListedAreBlocklist DEF Story
    <3> QED
      BY <3>1, <3>2 DEF StillOpen
  <2> HIDE DEF S
  <2>4. /\ report'.listed = S /\ report'.open = report.open /\ report'.risk = report.risk
        /\ report'.headline = report.headline /\ report'.praise = report.praise
        /\ report'.tips = report.tips
    BY <1>0, <2>1 DEF ReportShape
  <2> QED
    BY <1>0, <2>1, <2>2, <2>3, <2>4 DEF SectionsInv
<1>6. CASE ListResolved
  <2> DEFINE R == Telling
  <2>1. /\ report' = [report EXCEPT !.resolved = R]
        /\ step = "resolving" /\ step' = "sending" /\ UNCHANGED moved
    BY <1>6 DEF ListResolved, Telling
  <2>2. \A s \in R : \E c \in Categories : Story(c) = s /\ (c \in Hygiene \/ c \notin report.open)
    <3> SUFFICES ASSUME NEW c \in Resolved(ClosedNow, report.open)
                                     \cup (Hygiene \cap {Category[k] : k \in ClosedNow})
                 PROVE  c \in Categories /\ (c \in Hygiene \/ c \notin report.open)
      BY DEF Telling, Said
    <3>1. ClosedNow \subseteq FindingKeys
      BY <1>0 DEF ReportShape, ClosedNow
    <3> HIDE DEF ClosedNow
    <3> QED
      BY <3>1 DEF Resolved, Categories
  <2> HIDE DEF R
  <2>3. /\ report'.resolved = R /\ report'.listed = report.listed
        /\ report'.open = report.open /\ report'.risk = report.risk
        /\ report'.headline = report.headline /\ report'.praise = report.praise
        /\ report'.tips = report.tips
    BY <1>0, <2>1 DEF ReportShape
  <2> QED
    BY <1>0, <2>1, <2>2, <2>3 DEF SectionsInv
<1> QED
  BY <1>1, <1>2, <1>3, <1>4, <1>5, <1>6 DEF ReportNext

\* The relations between the fields are what SectionsAgree asks for.
LEMMA SectionsFollow == SectionsInv => SectionsAgree
<1> SUFFICES ASSUME SectionsInv, step = "sending", ~moved
             PROVE  /\ report.resolved \cap report.listed \subseteq Shared
                    /\ report.headline = "all clear" => report.listed = {}
                    /\ "recognised" \in report.praise => report.listed \cap Said(AuthBroken) = {}
                    /\ "protected" \in report.praise =>
                          report.listed \cap Said(ProtectionBroken) = {}
                    /\ report.headline = "one thing to flag" =>
                          \/ report.risk
                          \/ report.listed \cap Said(Urgent) # {}
                          \/ report.open \cap Urgent = {"blocklist"}
                    /\ Said(report.tips) \subseteq report.listed \cup {"blocklist"}
  BY DEF SectionsAgree
<1>1. /\ report.headline = HeadlineVerdict(report.open, report.risk)
      /\ report.praise = WhatsWorking(report.open)
      /\ report.tips = report.open \cap WithTip
      /\ report.open \subseteq Categories \ Hygiene
      /\ report.listed \subseteq Said(report.open)
      /\ Said(report.open) \ {"blocklist"} \subseteq report.listed
  BY DEF SectionsInv, After
<1>2. report.resolved \cap report.listed \subseteq Shared
  <2> SUFFICES ASSUME NEW s \in report.resolved, s \in report.listed PROVE s \in Shared
    OBVIOUS
  <2>1. PICK c \in Categories : Story(c) = s /\ (c \in Hygiene \/ c \notin report.open)
    BY DEF SectionsInv
  <2>2. PICK d \in report.open : Story(d) = s
    BY <1>1 DEF Said
  <2>3. d \in Categories /\ d \notin Hygiene
    BY <1>1, <2>2
  <2>4. c # d
    BY <2>1, <2>2, <2>3
  <2> QED
    BY <2>1, <2>2, <2>3, <2>4 DEF Shared, Said
<1>3. report.headline = "all clear" => report.listed = {}
  <2>1. report.headline = "all clear" => report.open = {}
    BY <1>1 DEF HeadlineVerdict
  <2> QED
    BY <1>1, <2>1 DEF Said
<1>4. "recognised" \in report.praise => report.listed \cap Said(AuthBroken) = {}
  <2> SUFFICES ASSUME "recognised" \in report.praise, NEW c \in report.open,
                      NEW d \in AuthBroken, Story(c) = Story(d)
               PROVE  FALSE
    BY <1>1 DEF Said
  <2>1. report.open \cap AuthBroken = {}
    BY <1>1 DEF WhatsWorking
  <2>2. c \in AuthBroken
    BY DEF Story, AuthBroken
  <2> QED
    BY <2>1, <2>2
<1>5. "protected" \in report.praise => report.listed \cap Said(ProtectionBroken) = {}
  <2> SUFFICES ASSUME "protected" \in report.praise, NEW c \in report.open,
                      NEW d \in ProtectionBroken, Story(c) = Story(d)
               PROVE  FALSE
    BY <1>1 DEF Said
  <2>1. report.open \cap ProtectionBroken = {}
    BY <1>1 DEF WhatsWorking
  <2>2. c \in ProtectionBroken
    BY DEF Story, ProtectionBroken
  <2> QED
    BY <2>1, <2>2
<1>6. ASSUME report.headline = "one thing to flag", ~report.risk
      PROVE  report.listed \cap Said(Urgent) # {} \/ report.open \cap Urgent = {"blocklist"}
  <2>1. report.open \cap Urgent # {}
    BY <1>1, <1>6 DEF HeadlineVerdict
  <2>2. ASSUME NEW c \in report.open \cap Urgent, c # "blocklist"
        PROVE  Story(c) \in report.listed \cap Said(Urgent)
    <3>1. Story(c) # "blocklist"
      BY <2>2 DEF Story
    <3> QED
      BY <1>1, <2>2, <3>1 DEF Said
  <2> QED
    BY <2>1, <2>2
<1>7. Said(report.tips) \subseteq report.listed \cup {"blocklist"}
  BY <1>1 DEF Said
<1> QED
  BY <1>2, <1>3, <1>4, <1>5, <1>6, <1>7

(***************************************************************************)
(* The sections of a report agree with each other, sentence by sentence but *)
(* for one that two categories share, unless an item moved while the report *)
(* was built (domain_report.py build_domain_report).                        *)
(***************************************************************************)
THEOREM ReportSectionsAgree == ReportSpec => []SectionsAgree
<1>1. ReportInit => SectionsInv
  BY DEF ReportInit, SectionsInv, After
<1> QED
  BY <1>1, ShapeInit, ShapeNext, SectionsNext, SectionsFollow, PTL DEF ReportSpec

-----------------------------------------------------------------------------
Sorts  == {"absent", "soft", "hard", "active", "inactive"}
Person == [sort : Sorts, first : Nat, last : Nat]
Click  == [phase : {"idle", "built", "accepted", "refused"}, news : SUBSET (People \X Nat)]

\* The shape of the rows and of the clicks; no time stamp is from the future.
NoticesShape ==
    /\ second \in Nat /\ lastSent \in Nat /\ lastSent <= second
    /\ people \in [People -> Person]
    /\ \A a \in People : people[a].first <= second /\ people[a].last <= second
    /\ clicks \in [Clicks -> Click]
    /\ \A c \in Clicks : \A item \in clicks[c].news : item[2] <= second
    /\ mailed \subseteq People \X Nat

\* News are rows of people, stamped after the last notice and before now.
LEMMA NewsTyped ==
    ASSUME NoticesShape
    PROVE  /\ News(lastSent) \subseteq People \X Nat
           /\ \A item \in News(lastSent) : item[2] <= second /\ item[2] > lastSent
           /\ \A a \in People : Reportable(people[a]) =>
                 \/ <<a, Stamp(people[a])>> \in News(lastSent)
                 \/ Stamp(people[a]) <= lastSent
<1>1. \A a \in People : Stamp(people[a]) \in Nat /\ Stamp(people[a]) <= second
  BY DEF NoticesShape, Stamp, Person
<1> QED
  BY <1>1 DEF News, NoticesShape

\* What the drain makes of a row: it keeps its first stamp, or has one now.
LEMMA RewrittenRow ==
    ASSUME NEW a \in People, NEW row \in Rewritten(people[a])
    PROVE  \E s \in Sorts \ {"absent"} :
              row = [sort |-> s, last |-> second,
                     first |-> IF people[a].sort = "absent" THEN second ELSE people[a].first]
<1> DEFINE first == IF people[a].sort = "absent" THEN second ELSE people[a].first
           sorts == CASE button = "subscriber" ->
                            IF people[a].sort = "active" THEN {"active"} ELSE {"inactive", "active"}
                      [] people[a].sort = "hard"     -> {"hard"}
                      [] OTHER                       -> {"soft", "hard"}
<1>1. sorts \subseteq Sorts \ {"absent"}
  BY DEF Sorts
<1>2. PICK s \in sorts : row = [sort |-> s, first |-> first, last |-> second]
  BY DEF Rewritten
<1> QED
  BY <1>1, <1>2

LEMMA RewrittenTyped ==
    ASSUME NoticesShape, NEW a \in People, NEW row \in Rewritten(people[a])
    PROVE  row \in Person /\ row.first <= second /\ row.last <= second
<1>1. people[a] \in Person /\ people[a].first <= second /\ second \in Nat
  BY DEF NoticesShape
<1> QED
  BY <1>1, RewrittenRow DEF Person

LEMMA NoticesShapeInit == NoticesInit => NoticesShape
BY DEF NoticesInit, NoticesShape, NoOne, Waiting, Person, Sorts, Click

LEMMA NoticesShapeNext == NoticesShape /\ [NoticesNext]_noticeVars => NoticesShape'
<1> SUFFICES ASSUME NoticesShape, [NoticesNext]_noticeVars PROVE NoticesShape'
  OBVIOUS
<1>0. NoticesShape
  OBVIOUS
<1>1. CASE NextSecond
  BY <1>0, <1>1 DEF NextSecond, NoticesShape, Person, Click
<1>2. CASE CloseChronicItem
  BY <1>0, <1>2 DEF CloseChronicItem, NoticesShape
<1>3. CASE NoticesKilled
  BY <1>0, <1>3 DEF NoticesKilled, NoticesShape, Waiting, Click
<1>4. ASSUME NEW a \in People, Hear(a) PROVE NoticesShape'
  <2>1. PICK row \in Rewritten(people[a]) : people' = [people EXCEPT ![a] = row]
    BY <1>4 DEF Hear
  <2>2. row \in Person /\ row.first <= second /\ row.last <= second
    BY <1>0, RewrittenTyped
  <2> QED
    BY <1>0, <1>4, <2>1, <2>2 DEF Hear, NoticesShape
<1>5. ASSUME NEW c \in Clicks, Build(c) PROVE NoticesShape'
  <2>1. clicks' = [clicks EXCEPT ![c] = [phase |-> "built", news |-> News(lastSent)]]
    BY <1>5 DEF Build
  <2>2. [phase |-> "built", news |-> News(lastSent)] \in Click
    BY <1>0, NewsTyped DEF Click
  <2>3. \A item \in News(lastSent) : item[2] <= second
    BY <1>0, NewsTyped
  <2> QED
    BY <1>0, <1>5, <2>1, <2>2, <2>3 DEF Build, NoticesShape
<1>6. ASSUME NEW c \in Clicks, SendUnconfigured(c) PROVE NoticesShape'
  BY <1>0, <1>6 DEF SendUnconfigured, NoticesShape, Waiting, Click
<1>7. ASSUME NEW c \in Clicks, SendAccepted(c) \/ SendRefused(c) \/ SendAnswerLost(c)
      PROVE  NoticesShape'
  BY <1>0, <1>7 DEF SendAccepted, SendRefused, SendAnswerLost, Mailed, NoticesShape, Click
<1>8. ASSUME NEW c \in Clicks, Record(c) PROVE NoticesShape'
  BY <1>0, <1>8 DEF Record, NoticesShape, Waiting, Click
<1>9. CASE UNCHANGED noticeVars
  BY <1>0, <1>9 DEF noticeVars, NoticesShape
<1> QED
  BY <1>1, <1>2, <1>3, <1>4, <1>5, <1>6, <1>7, <1>8, <1>9 DEF NoticesNext

-----------------------------------------------------------------------------
(***************************************************************************)
(* The bounds of the notices.  Inductively: whoever has a row has been      *)
(* stamped with a second that has come, so that news are never stamped 0.   *)
(***************************************************************************)
NoticesBounds ==
    /\ button \in {"bounce", "subscriber"}
    /\ second \in Seconds /\ reviewed \in 0..NoticeEnd
    /\ \A a \in People : people[a].sort # "absent" => people[a].first >= 1 /\ people[a].last >= 1
    /\ \A c \in Clicks : clicks[c].news \subseteq NewsItems
    /\ mailed \subseteq NewsItems /\ twice \subseteq NewsItems
    /\ late \subseteq NewsItems /\ excused \subseteq NewsItems
    /\ mishaps \in 0..MaxMishaps

LEMMA NoticesWithinBounds == NoticesShape /\ NoticesBounds => NoticesTypeOK
<1> SUFFICES ASSUME NoticesShape, NoticesBounds PROVE NoticesTypeOK
  OBVIOUS
<1>1. \A n \in Nat : n <= second => n \in 0..NoticeEnd
  BY NoticesAssumption DEF NoticesBounds, Seconds
<1>2. \A a \in People : people[a] \in [sort : Sorts, first : 0..NoticeEnd, last : 0..NoticeEnd]
  BY <1>1 DEF NoticesShape, Person
<1>3. \A c \in Clicks : clicks[c] \in [phase : {"idle", "built", "accepted", "refused"},
                                       news : SUBSET NewsItems]
  BY DEF NoticesShape, NoticesBounds, Click
<1>4. lastSent \in 0..NoticeEnd
  BY <1>1 DEF NoticesShape
<1> QED
  BY <1>2, <1>3, <1>4 DEF NoticesShape, NoticesBounds, NoticesTypeOK, Sorts

\* So is every row that the drain stores.
LEMMA StampedRow ==
    ASSUME NoticesShape, NoticesBounds, NEW a \in People, NEW row \in Rewritten(people[a])
    PROVE  /\ row.first \in Nat /\ row.first >= 1 /\ row.first <= second
           /\ row.last \in Nat /\ row.last >= 1 /\ row.last <= second
<1>1. /\ people[a] \in Person /\ people[a].first <= second
      /\ second \in Nat /\ second >= 1
      /\ people[a].sort # "absent" => people[a].first >= 1
  BY NoticesAssumption DEF NoticesShape, NoticesBounds, Seconds
<1> QED
  BY <1>1, RewrittenRow DEF Person

\* News are stamped with a second that has come.
LEMMA NewsWithinBounds ==
    ASSUME NoticesShape, NoticesBounds
    PROVE  News(lastSent) \subseteq NewsItems
<1>1. \A a \in People : Reportable(people[a]) => Stamp(people[a]) \in Seconds
  BY NoticesAssumption
  DEF NoticesShape, NoticesBounds, Reportable, Stamp, Person, Seconds
<1> QED
  BY <1>1 DEF News, NewsItems

LEMMA NoticesBoundsInit == NoticesInit => NoticesBounds
BY NoticesAssumption DEF NoticesInit, NoticesBounds, NoOne, Waiting, Seconds

LEMMA NoticesBoundsNext ==
    NoticesShape /\ NoticesBounds /\ [NoticesNext]_noticeVars => NoticesBounds'
<1> SUFFICES ASSUME NoticesShape, NoticesBounds, [NoticesNext]_noticeVars PROVE NoticesBounds'
  OBVIOUS
<1>0. /\ NoticesShape /\ NoticesBounds
      /\ NoticeEnd \in Nat /\ MaxMishaps \in Nat
      /\ clicks \in [Clicks -> Click] /\ people \in [People -> Person]
      /\ second \in Nat /\ second >= 1 /\ second <= NoticeEnd
  BY NoticesAssumption DEF NoticesShape, NoticesBounds, Seconds
<1>1. CASE NextSecond
  BY <1>0, <1>1 DEF NextSecond, NoticesBounds, Seconds
<1>2. CASE CloseChronicItem
  BY <1>0, <1>2 DEF CloseChronicItem, NoticesBounds
<1>3. CASE NoticesKilled
  <2>1. /\ mishaps' \in 0..MaxMishaps
        /\ excused' \subseteq NewsItems
        /\ \A c \in Clicks : clicks'[c].news = {}
        /\ UNCHANGED <<button, second, people, reviewed, mailed, twice, late>>
    BY <1>0, <1>3 DEF NoticesKilled, Mishap, Waiting, NoticesBounds, UnderWay
  <2> QED
    BY <1>0, <2>1 DEF NoticesBounds
<1>4. ASSUME NEW a \in People, Hear(a) PROVE NoticesBounds'
  <2>1. PICK row \in Rewritten(people[a]) :
          /\ people' = [people EXCEPT ![a] = row]
          /\ late' \subseteq late \cup {<<a, Stamp(row)>>}
    BY <1>4 DEF Hear
  <2>2. UNCHANGED <<button, second, clicks, reviewed, mailed, twice, excused, mishaps>>
    BY <1>4 DEF Hear
  <2>3. /\ row.first \in Nat /\ row.first >= 1 /\ row.first <= second
        /\ row.last \in Nat /\ row.last >= 1 /\ row.last <= second
    BY <1>0, StampedRow
  <2>4. <<a, Stamp(row)>> \in NewsItems
    BY <1>0, <2>3 DEF Stamp, NewsItems, Seconds
  <2>5. \A p \in People : people'[p].sort # "absent" =>
                             people'[p].first >= 1 /\ people'[p].last >= 1
    BY <1>0, <2>1, <2>3 DEF NoticesBounds
  <2> QED
    BY <1>0, <2>1, <2>2, <2>4, <2>5 DEF NoticesBounds
<1>5. ASSUME NEW c \in Clicks, Build(c) PROVE NoticesBounds'
  <2>1. News(lastSent) \subseteq NewsItems
    BY <1>0, NewsWithinBounds
  <2>2. /\ \A d \in Clicks : clicks'[d].news \in {clicks[d].news, News(lastSent)}
        /\ excused' = excused \cup UNION {clicks[d].news \cap News(lastSent) : d \in UnderWay}
        /\ UNCHANGED <<button, second, people, reviewed, mailed, twice, late, mishaps>>
    BY <1>0, <1>5 DEF Build
  <2>3. excused' \subseteq NewsItems
    BY <1>0, <2>1, <2>2 DEF NoticesBounds
  <2> QED
    BY <1>0, <2>1, <2>2, <2>3 DEF NoticesBounds
<1>6. ASSUME NEW c \in Clicks,
             SendUnconfigured(c) \/ SendAccepted(c) \/ SendRefused(c) \/ SendAnswerLost(c)
                                 \/ Record(c)
      PROVE  NoticesBounds'
  <2>1. \A d \in Clicks : clicks'[d].news \in {clicks[d].news, {}}
    BY <1>0, <1>6 DEF SendUnconfigured, SendAccepted, SendRefused, SendAnswerLost, Record,
                      Waiting, Click
  <2>2. /\ mailed' \subseteq NewsItems /\ twice' \subseteq NewsItems
        /\ excused' \subseteq NewsItems
        /\ UNCHANGED <<button, second, people, reviewed, late>>
    BY <1>0, <1>6 DEF SendUnconfigured, SendAccepted, SendRefused, SendAnswerLost, Record,
                      Mailed, NoticesBounds
  <2>3. mishaps' \in 0..MaxMishaps
    BY <1>0, <1>6 DEF SendUnconfigured, SendAccepted, SendRefused, SendAnswerLost, Record,
                      Mishap, NoticesBounds
  <2> QED
    BY <1>0, <2>1, <2>2, <2>3 DEF NoticesBounds
<1>7. CASE UNCHANGED noticeVars
  BY <1>0, <1>7 DEF noticeVars, NoticesBounds
<1> QED
  BY <1>1, <1>2, <1>3, <1>4, <1>5, <1>6, <1>7 DEF NoticesNext

(***************************************************************************)
(* The notices keep their variables in their shape: nothing is mailed or    *)
(* excused that was not stamped in a second that has come (bounce_notify.py *)
(* and subscriber_notify.py build_notification).                            *)
(***************************************************************************)
THEOREM NoticesTyping == NoticesSpec => []NoticesTypeOK
BY NoticesShapeInit, NoticesShapeNext, NoticesBoundsInit, NoticesBoundsNext,
   NoticesWithinBounds, PTL DEF NoticesSpec

-----------------------------------------------------------------------------
(***************************************************************************)
(* All news.  Inductively: a click under way has read what is to be told,   *)
(* but for what was told before or came late; what is accepted was mailed.  *)
(***************************************************************************)
Item(a) == <<a, Stamp(people[a])>>

ToldInv ==
    /\ \A c \in UnderWay, a \in People :
          Reportable(people[a]) => Item(a) \in clicks[c].news \cup mailed \cup late
    /\ \A c \in Clicks : clicks[c].phase = "accepted" => clicks[c].news \subseteq mailed
    /\ NewsIsTold

LEMMA ToldNext == NoticesShape /\ ToldInv /\ [NoticesNext]_noticeVars => ToldInv'
<1> SUFFICES ASSUME NoticesShape, ToldInv, [NoticesNext]_noticeVars PROVE ToldInv'
  OBVIOUS
<1>0. /\ ToldInv /\ clicks \in [Clicks -> Click] /\ people \in [People -> Person]
      /\ second \in Nat /\ lastSent \in Nat
  BY DEF NoticesShape
<1> USE DEF Item, UnderWay
<1>1. ASSUME UNCHANGED <<button, people, lastSent>>, mailed \subseteq mailed', late \subseteq late',
             \A c \in Clicks :
                 \/ clicks'[c].phase \in {"idle", "refused"}
                 \/ clicks'[c] = clicks[c]
                 \/ /\ clicks[c].phase = "built"
                    /\ clicks'[c].news = clicks[c].news /\ clicks[c].news \subseteq mailed'
      PROVE  ToldInv'
  <2>1. \A a \in People : /\ Item(a)' = Item(a)
                          /\ Reportable(people[a])' <=> Reportable(people[a])
                          /\ Stamp(people[a])' = Stamp(people[a])
    BY <1>1 DEF Reportable, Stamp
  <2>2. NewsIsTold'
    BY <1>0, <1>1, <2>1 DEF ToldInv, NewsIsTold
  <2>3. \A c \in Clicks : clicks'[c].phase = "accepted" => clicks'[c].news \subseteq mailed'
    BY <1>0, <1>1 DEF ToldInv
  <2>4. ASSUME NEW c \in UnderWay', NEW a \in People, Reportable(people[a])'
        PROVE  Item(a)' \in clicks'[c].news \cup mailed' \cup late'
    BY <1>0, <1>1, <2>1, <2>4 DEF ToldInv
  <2> QED
    BY <2>2, <2>3, <2>4 DEF ToldInv
<1>2. CASE NextSecond \/ CloseChronicItem \/ UNCHANGED noticeVars
  BY <1>1, <1>2 DEF NextSecond, CloseChronicItem, noticeVars
<1>3. CASE NoticesKilled
  BY <1>1, <1>3 DEF NoticesKilled, Waiting
<1>4. ASSUME NEW a \in People, Hear(a) PROVE ToldInv'
  <2>1. PICK row \in Rewritten(people[a]) :
          /\ people' = [people EXCEPT ![a] = row]
          /\ late' = IF UnderWay # {} \/ Stamp(row) <= lastSent
                     THEN late \cup {<<a, Stamp(row)>>} ELSE late
    BY <1>4 DEF Hear
  <2>2. UNCHANGED <<button, clicks, lastSent, mailed>> /\ late \subseteq late'
    BY <1>4 DEF Hear
  <2>3. \A b \in People \ {a} : people'[b] = people[b]
    BY <1>0, <2>1
  <2>4. people'[a] = row
    BY <1>0, <2>1
  <2>5. \A b \in People : Stamp(people[b])' = Stamp(people'[b])
    BY <2>2 DEF Stamp
  <2>6. ASSUME NEW c \in UnderWay, NEW b \in People, Reportable(people[b])'
        PROVE  <<b, Stamp(people[b])>>' \in clicks[c].news \cup mailed \cup late'
    <3>1. CASE b = a
      BY <2>1, <2>2, <2>4, <3>1 DEF Stamp
    <3>2. CASE b # a
      BY <1>0, <2>2, <2>3, <2>6, <3>2 DEF ToldInv, Stamp, Reportable
    <3> QED
      BY <3>1, <3>2
  <2>7. ASSUME NEW b \in People, Reportable(people[b])', Stamp(people[b])' <= lastSent
        PROVE  <<b, Stamp(people[b])>>' \in mailed \cup late'
    <3>1. CASE b = a
      BY <2>1, <2>2, <2>4, <2>7, <3>1 DEF Stamp
    <3>2. CASE b # a
      BY <1>0, <2>2, <2>3, <2>7, <3>2 DEF ToldInv, NewsIsTold, Stamp, Reportable
    <3> QED
      BY <3>1, <3>2
  <2> QED
    BY <1>0, <2>2, <2>6, <2>7 DEF ToldInv, NewsIsTold
<1>5. ASSUME NEW c \in Clicks, Build(c) PROVE ToldInv'
  <2>1. /\ UNCHANGED <<button, people, lastSent, mailed, late>>
        /\ clicks' = [clicks EXCEPT ![c] = [phase |-> "built", news |-> News(lastSent)]]
    BY <1>5 DEF Build
  <2>2. \A a \in People : /\ Item(a)' = Item(a)
                          /\ Reportable(people[a])' <=> Reportable(people[a])
                          /\ Stamp(people[a])' = Stamp(people[a])
    BY <2>1 DEF Reportable, Stamp
  <2>3. \A a \in People : Reportable(people[a]) => Item(a) \in News(lastSent) \cup mailed \cup late
    BY <1>0, NewsTyped DEF ToldInv, NewsIsTold
  <2>4. clicks'[c] = [phase |-> "built", news |-> News(lastSent)]
        /\ \A d \in Clicks \ {c} : clicks'[d] = clicks[d]
    BY <1>0, <2>1
  <2>5. ASSUME NEW d \in UnderWay', NEW a \in People, Reportable(people[a])'
        PROVE  Item(a)' \in clicks'[d].news \cup mailed' \cup late'
    <3>1. CASE d = c
      BY <2>1, <2>2, <2>3, <2>4, <2>5, <3>1
    <3>2. CASE d # c
      BY <1>0, <2>1, <2>2, <2>4, <2>5, <3>2 DEF ToldInv
    <3> QED
      BY <3>1, <3>2
  <2>6. \A d \in Clicks : clicks'[d].phase = "accepted" => clicks'[d].news \subseteq mailed'
    BY <1>0, <2>1, <2>4 DEF ToldInv
  <2>7. NewsIsTold'
    BY <1>0, <2>1, <2>2 DEF ToldInv, NewsIsTold
  <2> QED
    BY <2>5, <2>6, <2>7 DEF ToldInv
<1>6. ASSUME NEW c \in Clicks, SendUnconfigured(c) PROVE ToldInv'
  BY <1>0, <1>1, <1>6 DEF SendUnconfigured, Waiting
<1>7. ASSUME NEW c \in Clicks, SendAccepted(c) PROVE ToldInv'
  BY <1>0, <1>1, <1>7 DEF SendAccepted, Mailed, Click
<1>8. ASSUME NEW c \in Clicks, SendRefused(c) \/ SendAnswerLost(c) PROVE ToldInv'
  BY <1>0, <1>1, <1>8 DEF SendRefused, SendAnswerLost, Mailed, Click
<1>9. ASSUME NEW c \in Clicks, Record(c) PROVE ToldInv'
  <2>1. CASE clicks[c].phase = "refused"
    BY <1>0, <1>1, <1>9, <2>1 DEF Record, Waiting
  <2>2. CASE clicks[c].phase = "accepted"
    <3>1. UNCHANGED <<button, people, mailed, late>>
      BY <1>9 DEF Record
    <3>2. \A a \in People : /\ Item(a)' = Item(a)
                            /\ Reportable(people[a])' <=> Reportable(people[a])
      BY <3>1 DEF Reportable, Stamp
    <3>3. \A d \in Clicks : clicks'[d] = clicks[d] \/ clicks'[d].phase = "idle"
      BY <1>0, <1>9 DEF Record, Waiting
    <3>4. \A a \in People : Reportable(people[a]) => Item(a) \in mailed \cup late
      BY <1>0, <2>2 DEF ToldInv
    <3>5. NewsIsTold'
      BY <3>1, <3>2, <3>4 DEF NewsIsTold
    <3>6. ASSUME NEW d \in UnderWay', NEW a \in People, Reportable(people[a])'
          PROVE  Item(a)' \in clicks'[d].news \cup mailed' \cup late'
      BY <3>1, <3>2, <3>4, <3>6
    <3>7. \A d \in Clicks : clicks'[d].phase = "accepted" => clicks'[d].news \subseteq mailed'
      BY <1>0, <3>1, <3>3 DEF ToldInv
    <3> QED
      BY <3>5, <3>6, <3>7 DEF ToldInv
  <2> QED
    BY <1>9, <2>1, <2>2 DEF Record
<1> QED
  BY <1>2, <1>3, <1>4, <1>5, <1>6, <1>7, <1>8, <1>9 DEF NoticesNext

(***************************************************************************)
(* Whatever is too old to be in the next notice has been in one, or came    *)
(* late (web.py notify, bounce_notify.py, subscriber_notify.py).            *)
(***************************************************************************)
THEOREM AllNewsIsTold == NoticesSpec => []NewsIsTold
<1>1. NoticesInit => ToldInv
  <2> SUFFICES ASSUME NoticesInit PROVE ToldInv
    OBVIOUS
  <2>1. \A a \in People : ~Reportable(people[a])
    BY DEF NoticesInit, NoOne, Reportable
  <2>2. \A c \in Clicks : clicks[c].phase = "idle"
    BY DEF NoticesInit, Waiting
  <2> QED
    BY <2>1, <2>2 DEF ToldInv, NewsIsTold, UnderWay
<1> QED
  BY <1>1, NoticesShapeInit, NoticesShapeNext, ToldNext, PTL DEF NoticesSpec, ToldInv

-----------------------------------------------------------------------------
(***************************************************************************)
(* No news twice.  Inductively: what was mailed is excused, too old for the *)
(* next notice, or in an accepted one that is not recorded yet; what a      *)
(* click is about to mail was mailed by nobody, nor read by another click,  *)
(* or is excused.                                                           *)
(***************************************************************************)
OnceInv ==
    /\ \A item \in mailed :
          \/ item \in excused
          \/ item[2] <= lastSent
          \/ \E c \in Clicks : clicks[c].phase = "accepted" /\ item \in clicks[c].news
    /\ \A c \in Clicks : clicks[c].phase = "built" => clicks[c].news \cap mailed \subseteq excused
    /\ \A c, d \in UnderWay : c # d => clicks[c].news \cap clicks[d].news \subseteq excused
    /\ twice \subseteq excused

LEMMA OnceNext == NoticesShape /\ OnceInv /\ [NoticesNext]_noticeVars => OnceInv'
<1> SUFFICES ASSUME NoticesShape, OnceInv, [NoticesNext]_noticeVars PROVE OnceInv'
  OBVIOUS
<1>0. /\ OnceInv /\ clicks \in [Clicks -> Click] /\ mailed \subseteq People \X Nat
      /\ second \in Nat /\ lastSent \in Nat /\ lastSent <= second
      /\ \A c \in Clicks : \A item \in clicks[c].news : item[2] \in Nat /\ item[2] <= second
  BY DEF NoticesShape, Click
<1> USE DEF UnderWay
<1>1. CASE UNCHANGED <<clicks, lastSent, mailed, twice, excused>>
  BY <1>1 DEF OnceInv
<1>2. CASE NextSecond \/ CloseChronicItem \/ (\E a \in People : Hear(a)) \/ UNCHANGED noticeVars
  BY <1>1, <1>2 DEF NextSecond, CloseChronicItem, Hear, noticeVars
<1>3. CASE NoticesKilled
  <2>1. /\ UNCHANGED <<lastSent, mailed, twice>>
        /\ excused' = excused \cup UNION {clicks[c].news : c \in UnderWay}
        /\ \A c \in Clicks : clicks'[c].phase = "idle"
    BY <1>3 DEF NoticesKilled, Waiting
  <2> QED
    BY <1>0, <2>1 DEF OnceInv
<1>4. ASSUME NEW c \in Clicks, Build(c) PROVE OnceInv'
  <2> DEFINE news == News(lastSent)
  <2>1. /\ UNCHANGED <<lastSent, mailed, twice>>
        /\ clicks[c].phase = "idle"
        /\ clicks'[c] = [phase |-> "built", news |-> news]
        /\ \A d \in Clicks \ {c} : clicks'[d] = clicks[d]
        /\ excused' = excused \cup UNION {clicks[d].news \cap news : d \in UnderWay}
    BY <1>0, <1>4 DEF Build
  <2>2. excused \subseteq excused' /\ \A d \in UnderWay : clicks[d].news \cap news \subseteq excused'
    BY <2>1
  <2>3. \A item \in news : item[2] \in Nat /\ ~(item[2] <= lastSent)
    BY <1>0, NewsTyped
  <2> HIDE DEF news
  <2>4. news \cap mailed \subseteq excused'
    BY <1>0, <2>1, <2>2, <2>3 DEF OnceInv
  <2>5. \A item \in mailed :
            \/ item \in excused'
            \/ item[2] <= lastSent
            \/ \E d \in Clicks : clicks'[d].phase = "accepted" /\ item \in clicks'[d].news
    BY <1>0, <2>1, <2>2 DEF OnceInv
  <2>6. \A d \in Clicks :
            clicks'[d].phase = "built" => clicks'[d].news \cap mailed \subseteq excused'
    BY <1>0, <2>1, <2>2, <2>4 DEF OnceInv
  <2>7. \A d, e \in UnderWay' : d # e => clicks'[d].news \cap clicks'[e].news \subseteq excused'
    BY <1>0, <2>1, <2>2 DEF OnceInv
  <2> QED
    BY <1>0, <2>1, <2>2, <2>5, <2>6, <2>7 DEF OnceInv
<1>5. ASSUME NEW c \in Clicks, SendUnconfigured(c) PROVE OnceInv'
  <2>1. /\ UNCHANGED <<lastSent, mailed, twice, excused>>
        /\ clicks[c].phase = "built"
        /\ clicks'[c].phase = "idle"
        /\ \A d \in Clicks \ {c} : clicks'[d] = clicks[d]
    BY <1>0, <1>5 DEF SendUnconfigured, Waiting
  <2> QED
    BY <1>0, <2>1 DEF OnceInv
<1>6. ASSUME NEW c \in Clicks, SendAccepted(c) PROVE OnceInv'
  <2>1. /\ UNCHANGED <<lastSent, excused>>
        /\ clicks[c].phase = "built"
        /\ clicks'[c].phase = "accepted" /\ clicks'[c].news = clicks[c].news
        /\ \A d \in Clicks \ {c} : clicks'[d] = clicks[d]
        /\ mailed' = mailed \cup clicks[c].news
        /\ twice' = twice \cup (mailed \cap clicks[c].news)
    BY <1>0, <1>6 DEF SendAccepted, Mailed, Click
  <2>2. \A d \in Clicks :
            clicks'[d].phase = "built" => clicks'[d].news \cap mailed' \subseteq excused
    BY <1>0, <2>1 DEF OnceInv
  <2>3. \A item \in mailed' :
            \/ item \in excused
            \/ item[2] <= lastSent
            \/ \E d \in Clicks : clicks'[d].phase = "accepted" /\ item \in clicks'[d].news
    BY <1>0, <2>1 DEF OnceInv
  <2>4. \A d, e \in UnderWay' : d # e => clicks'[d].news \cap clicks'[e].news \subseteq excused
    BY <1>0, <2>1 DEF OnceInv
  <2>5. twice' \subseteq excused
    BY <1>0, <2>1 DEF OnceInv
  <2> QED
    BY <2>1, <2>2, <2>3, <2>4, <2>5 DEF OnceInv
<1>7. ASSUME NEW c \in Clicks, SendRefused(c) PROVE OnceInv'
  <2>1. /\ UNCHANGED <<lastSent, mailed, twice, excused>>
        /\ clicks[c].phase = "built"
        /\ clicks'[c].phase = "refused"
        /\ \A d \in Clicks \ {c} : clicks'[d] = clicks[d]
    BY <1>0, <1>7 DEF SendRefused, Click
  <2> QED
    BY <1>0, <2>1 DEF OnceInv
<1>8. ASSUME NEW c \in Clicks, SendAnswerLost(c) PROVE OnceInv'
  <2>1. /\ UNCHANGED lastSent
        /\ clicks[c].phase = "built"
        /\ clicks'[c].phase = "refused"
        /\ \A d \in Clicks \ {c} : clicks'[d] = clicks[d]
        /\ mailed' = mailed \cup clicks[c].news
        /\ twice' = twice \cup (mailed \cap clicks[c].news)
        /\ excused' = excused \cup clicks[c].news
    BY <1>0, <1>8 DEF SendAnswerLost, Mailed, Click
  <2> QED
    BY <1>0, <2>1 DEF OnceInv
<1>9. ASSUME NEW c \in Clicks, Record(c) PROVE OnceInv'
  <2>1. /\ UNCHANGED <<mailed, twice, excused>>
        /\ \/ clicks[c].phase = "accepted" /\ lastSent' = second
           \/ clicks[c].phase = "refused" /\ lastSent' = lastSent
        /\ clicks'[c].phase = "idle"
        /\ \A d \in Clicks \ {c} : clicks'[d] = clicks[d]
    BY <1>0, <1>9 DEF Record, Waiting
  <2>2. \A item \in mailed :
            \/ item \in excused
            \/ item[2] <= lastSent'
            \/ \E d \in Clicks : clicks'[d].phase = "accepted" /\ item \in clicks'[d].news
    <3> SUFFICES ASSUME NEW item \in mailed, item \notin excused, ~(item[2] <= lastSent')
                 PROVE  \E d \in Clicks : clicks'[d].phase = "accepted" /\ item \in clicks'[d].news
      OBVIOUS
    <3>1. item[2] \in Nat /\ lastSent' \in Nat /\ lastSent <= lastSent'
      BY <1>0, <2>1
    <3>2. ~(item[2] <= lastSent)
      BY <1>0, <3>1
    <3>3. PICK d \in Clicks : clicks[d].phase = "accepted" /\ item \in clicks[d].news
      BY <1>0, <3>2 DEF OnceInv
    <3>4. d # c
      BY <1>0, <2>1, <3>3
    <3> QED
      BY <2>1, <3>3, <3>4
  <2> QED
    BY <1>0, <2>1, <2>2 DEF OnceInv
<1> QED
  BY <1>2, <1>3, <1>4, <1>5, <1>6, <1>7, <1>8, <1>9 DEF NoticesNext

(***************************************************************************)
(* No address twice.  Inductively: a permanent bounce stays one, under the  *)
(* time stamp it came with, so an address is the same news for ever.        *)
(***************************************************************************)
HardNow == {<<a, people[a].first>> : a \in {p \in People : people[p].sort = "hard"}}

BounceInv ==
    button = "bounce" =>
        /\ mailed \subseteq HardNow
        /\ \A c \in Clicks : clicks[c].news \subseteq HardNow

LEMMA BounceNext == NoticesShape /\ BounceInv /\ [NoticesNext]_noticeVars => BounceInv'
<1> SUFFICES ASSUME NoticesShape, BounceInv, [NoticesNext]_noticeVars, button' = "bounce"
             PROVE  /\ mailed' \subseteq HardNow'
                    /\ \A c \in Clicks : clicks'[c].news \subseteq HardNow'
  BY DEF BounceInv
<1>0. clicks \in [Clicks -> Click] /\ people \in [People -> Person]
  BY DEF NoticesShape
<1>1. button = "bounce"
  BY DEF NoticesNext, NextSecond, CloseChronicItem, NoticesKilled, Hear, Build, SendUnconfigured,
         SendAccepted, SendRefused, SendAnswerLost, Record, noticeVars
<1>2. mailed \subseteq HardNow /\ \A c \in Clicks : clicks[c].news \subseteq HardNow
  BY <1>1 DEF BounceInv
<1>3. HardNow \subseteq HardNow'
  <2>1. CASE \E a \in People : Hear(a)
    <3>1. PICK a \in People : Hear(a)
      BY <2>1
    <3>2. PICK row \in Rewritten(people[a]) : people' = [people EXCEPT ![a] = row]
      BY <3>1 DEF Hear
    <3>3. people[a].sort = "hard" => row.sort = "hard" /\ row.first = people[a].first
      BY <1>1 DEF Rewritten
    <3>4. \A p \in People : people[p].sort = "hard" =>
              people'[p].sort = "hard" /\ people'[p].first = people[p].first
      BY <1>0, <3>2, <3>3
    <3> QED
      BY <3>4 DEF HardNow
  <2>2. CASE UNCHANGED people
    BY <2>2 DEF HardNow
  <2> QED
    BY <2>1, <2>2 DEF NoticesNext, NextSecond, CloseChronicItem, NoticesKilled, Build,
         SendUnconfigured, SendAccepted, SendRefused, SendAnswerLost, Record, noticeVars
<1>4. News(lastSent) \subseteq HardNow
  BY <1>1 DEF News, HardNow, Reportable, Stamp
<1>5. \A c \in Clicks : clicks'[c].news \in {clicks[c].news, News(lastSent), {}}
  BY <1>0 DEF NoticesNext, NextSecond, CloseChronicItem, NoticesKilled, Hear, Build,
         SendUnconfigured, SendAccepted, SendRefused, SendAnswerLost, Record, noticeVars,
         Waiting, Click
<1>6. mailed' = mailed \/ \E c \in Clicks : mailed' = mailed \cup clicks[c].news
  BY DEF NoticesNext, NextSecond, CloseChronicItem, NoticesKilled, Hear, Build,
         SendUnconfigured, SendAccepted, SendRefused, SendAnswerLost, Record, Mailed, noticeVars
<1> QED
  BY <1>2, <1>3, <1>4, <1>5, <1>6

\* One stamp per address.
LEMMA AskedOnce == OnceInv /\ BounceInv => ToldOnce
BY DEF OnceInv, BounceInv, HardNow, ToldOnce

(***************************************************************************)
(* No news is mailed twice, and no address the client was asked to remove,  *)
(* unless the first mail had not been recorded as sent when the second was  *)
(* read (web.py _send_manual_notification, bounce_notify.py,                *)
(* subscriber_notify.py).                                                   *)
(***************************************************************************)
THEOREM NewsIsToldOnce == NoticesSpec => []ToldOnce
<1>1. NoticesInit => OnceInv /\ BounceInv
  <2> SUFFICES ASSUME NoticesInit PROVE OnceInv /\ BounceInv
    OBVIOUS
  <2>1. \A c \in Clicks : clicks[c].phase = "idle" /\ clicks[c].news = {}
    BY DEF NoticesInit, Waiting
  <2> QED
    BY <2>1 DEF NoticesInit, OnceInv, BounceInv, UnderWay
<1> QED
  BY <1>1, NoticesShapeInit, NoticesShapeNext, OnceNext, BounceNext, AskedOnce, PTL
  DEF NoticesSpec
=============================================================================
