----------------------- MODULE DomainLifecycleProofs -----------------------
(***************************************************************************)
(* Rows stay with the domain they are about, and what is counted is kept,   *)
(* for any number of names, ids, groups and forms.                          *)
(***************************************************************************)
EXTENDS DomainLifecycle, WellFoundedInduction, TLAPS

Target  == [id : DomainIds, name : Names, way : Groups \cup {Alone}]
Writer  == {Resting} \cup [phase : {"missing"}, name : Names, id : {0}]
                     \cup [phase : {"found"}, name : Names, id : DomainIds]
Removal == {NoRemoval} \cup [form : {"untrack", "delete"}, id : DomainIds]
Mailing == [phase : {"idle", "reading", "sending"}, ask : SUBSET Groups, due : SUBSET Target]
Raced   == [reused : SUBSET DomainIds, moved : SUBSET DomainIds,
            orphaned : SUBSET Names]

\* The shape of the rows, and of what the threads hold of them.
RowsTyped ==
    /\ tracked \in [DomainIds -> Names \cup {Free}]
    /\ memberOf \in [DomainIds -> Groups \cup {Alone}]
    /\ reportsOf \in [DomainIds -> SUBSET Names]
    /\ filed \in [DomainIds -> SUBSET Names]
    /\ groups \subseteq Groups

HoldersTyped ==
    /\ writers \in [Writers -> Writer]
    /\ sweepRows \subseteq DomainIds \X Names
    /\ removal \in Removal
    /\ mailing \in Mailing
    /\ raced \in Raced

\* Nothing is left under an id that no domain has, nor does it wait in a group.
NothingUnderFree ==
    \A i \in DomainIds : tracked[i] = Free =>
        reportsOf[i] = {} /\ filed[i] = {} /\ memberOf[i] = Alone

Typed == RowsTyped /\ HoldersTyped /\ NothingUnderFree

-----------------------------------------------------------------------------
\* A bounded set of numbers that is not empty has a greatest one: Max names it.
LEMMA MaxIsGreatest ==
    ASSUME NEW N \in Nat, NEW S \in SUBSET (0..N), S # {}
    PROVE  Max(S) \in S /\ \A y \in S : Max(S) >= y
<1> DEFINE R == {p \in Nat \X Nat : p[1] < p[2]}
           T == {N - x : x \in S}
<1>1. OpToRel(<, Nat) = R
  BY Zenon DEF OpToRel
<1>2. IsWellFoundedOn(R, Nat)
  BY <1>1, NatLessThanWellFounded, Zenon
<1>0. \A x \in S : x \in Nat /\ N - x \in Nat
  OBVIOUS
<1>3. T \subseteq Nat /\ T # {}
  <2>1. PICK x \in S : TRUE
    OBVIOUS
  <2>2. N - x \in T
    OBVIOUS
  <2> QED
    BY <1>0, <2>2
<1>4. PICK m \in T : \A y \in T : <<y, m>> \notin R
  <2> HIDE DEF R, T
  <2> QED
    BY <1>2, <1>3, WFMin, Zenon
<1>5. \A y \in T : m <= y
  <2> TAKE y \in T
  <2>1. y \in Nat /\ m \in Nat
    BY <1>3
  <2>2. <<y, m>> \in Nat \X Nat /\ <<y, m>>[1] = y /\ <<y, m>>[2] = m
    BY <2>1
  <2>3. ~(y < m)
    BY <1>4, <2>2
  <2> QED
    BY <2>1, <2>3
<1>6. PICK x \in S : m = N - x
  OBVIOUS
<1>7. \A y \in S : x >= y
  <2> TAKE y \in S
  <2>1. N - y \in T
    OBVIOUS
  <2>2. N - x <= N - y
    BY <1>5, <1>6, <2>1
  <2>3. x \in Nat /\ y \in Nat
    BY <1>0
  <2> QED
    BY <2>2, <2>3
<1> DEFINE Greatest(z) == \A y \in S : z >= y
<1>8. \E z \in S : Greatest(z)
  BY <1>7
<1>9. Max(S) = CHOOSE z \in S : Greatest(z)
  BY DEF Max
<1> HIDE DEF Greatest
<1>10. Max(S) \in S /\ Greatest(Max(S))
  BY <1>8, <1>9
<1> QED
  BY <1>10 DEF Greatest

\* The next id is one that no domain has.
LEMMA NewIdIsFree ==
    ASSUME NewDomainId \in DomainIds
    PROVE  tracked[NewDomainId] = Free
<1> DEFINE S == {0} \cup {i \in DomainIds : tracked[i] # Free}
<1>1. S \in SUBSET (0..MaxDomainId) /\ S # {}
  BY LifecycleAssumption DEF DomainIds
<1>2. Max(S) \in S /\ \A y \in S : Max(S) >= y
  BY <1>1, LifecycleAssumption, MaxIsGreatest
<1>3. Max(S) \in Nat /\ NewDomainId = Max(S) + 1
  BY <1>1, <1>2, LifecycleAssumption DEF NewDomainId
<1> HIDE DEF S
<1>4. NewDomainId \notin S
  BY <1>2, <1>3
<1> QED
  BY <1>4 DEF S

\* What the mailing run reads of some domains.
LEMMA TargetsTyped ==
    ASSUME RowsTyped, NEW ids \in SUBSET DomainIds, NEW way \in Groups \cup {Alone},
           \A i \in ids : tracked[i] # Free
    PROVE  Targets(ids, way) \subseteq Target
BY DEF RowsTyped, Targets, Target

-----------------------------------------------------------------------------
LEMMA TypedInit == LifecycleInit => Typed
BY DEF LifecycleInit, Typed, RowsTyped, HoldersTyped, NothingUnderFree, NoMailing, Mailing,
       Removal, Writer, Raced

LEMMA TypedNext == Typed /\ [LifecycleNext]_lifecycleVars => Typed'
<1> SUFFICES ASSUME Typed, [LifecycleNext]_lifecycleVars PROVE Typed'
  OBVIOUS
<1>0. RowsTyped /\ HoldersTyped /\ NothingUnderFree /\ 0 \notin DomainIds
      /\ Free \notin Names /\ Alone \notin Groups /\ "ingest" \in Writers /\ "form" \in Writers
  BY NamesAssumption, LifecycleAssumption DEF Typed, DomainIds, Writers
<1>1. ASSUME NEW w \in Writers, NEW n \in Names, Locate(w, n) PROVE Typed'
  BY <1>0, <1>1 DEF Locate, IdOf, Typed, RowsTyped, HoldersTyped, NothingUnderFree, Writer
<1>2. ASSUME NEW w \in Writers, CreateRaises(w) PROVE Typed'
  BY <1>0, <1>2 DEF CreateRaises, Typed, RowsTyped, HoldersTyped, NothingUnderFree, Writer
<1>3. ASSUME NEW w \in Writers, Create(w) PROVE Typed'
  <2> DEFINE new == NewDomainId
  <2>1. new \in DomainIds /\ tracked[new] = Free
    BY <1>3, NewIdIsFree DEF Create
  <2>2. writers[w].name \in Names /\ writers[w] \in [phase : {"missing"}, name : Names, id : {0}]
    BY <1>0, <1>3 DEF Create, HoldersTyped, Writer, Resting
  <2> HIDE DEF new
  <2>3. writers' = [writers EXCEPT ![w].phase = "found", ![w].id = new]
        /\ tracked' = [tracked EXCEPT ![new] = writers[w].name]
    BY <1>3 DEF Create, new
  <2>4. [writers[w] EXCEPT !.phase = "found", !.id = new] \in Writer
    BY <2>1, <2>2 DEF Writer
  <2>5. writers' \in [Writers -> Writer]
    BY <1>0, <2>3, <2>4 DEF HoldersTyped
  <2>6. raced' \in Raced
    <3>1. raced \in Raced /\ \E ids \in SUBSET DomainIds : raced' = [raced EXCEPT !.reused = ids]
      BY <1>0, <1>3, <2>1 DEF Create, HoldersTyped, Raced, new
    <3> QED
      BY <3>1 DEF Raced
  <2>7. RowsTyped'
    BY <1>0, <1>3, <2>1, <2>2, <2>3 DEF Create, RowsTyped
  <2>8. NothingUnderFree'
    BY <1>0, <1>3, <2>1, <2>2, <2>3 DEF Create, RowsTyped, NothingUnderFree
  <2> QED
    BY <1>0, <1>3, <2>5, <2>6, <2>7, <2>8 DEF Create, Typed, HoldersTyped
<1>4. CASE StoreFound
  <2>1. writers["ingest"] \in [phase : {"found"}, name : Names, id : DomainIds]
    BY <1>0, <1>4 DEF StoreFound, HoldersTyped, Writer, Resting
  <2>2. writers' \in [Writers -> Writer]
    BY <1>0, <1>4 DEF StoreFound, HoldersTyped, Writer
  <2>3. raced' \in Raced
    <3>1. PICK o \in SUBSET Names : raced' = [raced EXCEPT !.orphaned = o]
      <4> DEFINE o == IF tracked[writers["ingest"].id] = Free
                      THEN raced.orphaned \cup {writers["ingest"].name} ELSE raced.orphaned
      <4>1. raced' = [raced EXCEPT !.orphaned = o]
        BY <1>4 DEF StoreFound
      <4>2. o \in SUBSET Names
        BY <1>0, <2>1 DEF HoldersTyped, Raced
      <4> HIDE DEF o
      <4> QED
        BY <4>1, <4>2
    <3>2. raced \in Raced
      BY <1>0 DEF HoldersTyped
    <3> QED
      BY <3>1, <3>2 DEF Raced
  <2>4. RowsTyped' /\ NothingUnderFree'
    BY <1>0, <1>4, <2>1 DEF StoreFound, RowsTyped, NothingUnderFree
  <2> QED
    BY <1>0, <1>4, <2>2, <2>3, <2>4 DEF StoreFound, Typed, HoldersTyped
<1>5. CASE CheckFound
  <2>1. writers["form"] \in [phase : {"found"}, name : Names, id : DomainIds]
    BY <1>0, <1>5 DEF CheckFound, HoldersTyped, Writer, Resting
  <2> QED
    BY <1>0, <1>5, <2>1 DEF CheckFound, Typed, RowsTyped, HoldersTyped, NothingUnderFree, Writer
<1>6. CASE SweepReads
  BY <1>0, <1>6 DEF SweepReads, Typed, RowsTyped, HoldersTyped, NothingUnderFree
<1>7. CASE SweepChecks
  BY <1>0, <1>7 DEF SweepChecks, Typed, RowsTyped, HoldersTyped, NothingUnderFree
<1>8. CASE Cascade
  <2>1. removal.id \in DomainIds
    BY <1>0, <1>8 DEF Cascade, HoldersTyped, Removal
  <2> QED
    BY <1>0, <1>8, <2>1
    DEF Cascade, Typed, RowsTyped, HoldersTyped, NothingUnderFree, Removal
<1>9. ASSUME NEW i \in DomainIds, UntrackPasses(i) \/ DeletePassesName(i) PROVE Typed'
  BY <1>0, <1>9 DEF UntrackPasses, DeletePassesName, Typed, RowsTyped, HoldersTyped,
                    NothingUnderFree, Removal, Raced
<1>10. ASSUME NEW i \in DomainIds, NEW g \in Groups \cup {Alone}, SetGroup(i, g) PROVE Typed'
  BY <1>0, <1>10 DEF SetGroup, Moves, Typed, RowsTyped, HoldersTyped, NothingUnderFree, Raced
<1>11. ASSUME NEW g \in Groups, CreateGroup(g) PROVE Typed'
  BY <1>0, <1>11 DEF CreateGroup, Typed, RowsTyped, HoldersTyped, NothingUnderFree
<1>12. ASSUME NEW g \in Groups, DeleteGroup(g) PROVE Typed'
  <2>1. RowsTyped' /\ NothingUnderFree'
    BY <1>0, <1>12 DEF DeleteGroup, RowsTyped, NothingUnderFree
  <2>2. raced' \in Raced
    <3>1. raced \in Raced /\ \E ids \in SUBSET DomainIds : raced' = [raced EXCEPT !.moved = ids]
      BY <1>0, <1>12 DEF DeleteGroup, Moves, HoldersTyped, Raced
    <3> QED
      BY <3>1 DEF Raced
  <2> QED
    BY <1>0, <1>12, <2>1, <2>2 DEF DeleteGroup, Typed, HoldersTyped
<1>13. ASSUME NEW g \in Groups, ReadMembers(g) PROVE Typed'
  <2>1. Targets({i \in DomainIds : memberOf[i] = g}, g) \subseteq Target
    BY <1>0, TargetsTyped DEF NothingUnderFree
  <2> QED
    BY <1>0, <1>13, <2>1
    DEF ReadMembers, Typed, RowsTyped, HoldersTyped, NothingUnderFree, Mailing
<1>14. ASSUME NEW g \in Groups, SendGroup(g) PROVE Typed'
  BY <1>0, <1>14
  DEF SendGroup, Typed, RowsTyped, HoldersTyped, NothingUnderFree, Mailing, NoMailing
<1>15. CASE ReadStandalone
  <2>1. Targets({i \in DomainIds : tracked[i] # Free /\ memberOf[i] = Alone}, Alone)
          \subseteq Target
    BY <1>0, TargetsTyped
  <2> QED
    BY <1>0, <1>15, <2>1
    DEF ReadStandalone, Typed, RowsTyped, HoldersTyped, NothingUnderFree, Mailing, Raced
<1>16. CASE StartSending \/ SendStandalone \/ MailingEnds
  <2>1. RowsTyped' /\ NothingUnderFree'
    BY <1>0, <1>16 DEF StartSending, SendStandalone, MailingEnds, RowsTyped, NothingUnderFree
  <2>2. \/ mailing' = NoMailing
        \/ mailing' = [mailing EXCEPT !.phase = "sending"]
        \/ \E t : mailing' = [mailing EXCEPT !.due = @ \ {t}]
    BY <1>16 DEF StartSending, SendStandalone, MailingEnds
  <2>3. mailing' \in Mailing
    BY <1>0, <2>2 DEF HoldersTyped, Mailing, NoMailing
  <2> QED
    BY <1>0, <1>16, <2>1, <2>3 DEF StartSending, SendStandalone, MailingEnds, Typed, HoldersTyped
<1>17. CASE UNCHANGED lifecycleVars
  BY <1>0, <1>17 DEF lifecycleVars, Typed, RowsTyped, HoldersTyped, NothingUnderFree
<1> QED
  BY <1>1, <1>2, <1>3, <1>4, <1>5, <1>6, <1>7, <1>8, <1>9, <1>10, <1>11, <1>12, <1>13, <1>14,
     <1>15, <1>16, <1>17 DEF LifecycleNext

-----------------------------------------------------------------------------
(***************************************************************************)
(* The rest of the shape: the log only has groups that exist, because a     *)
(* group with a log cannot be deleted and one that is gone is not logged.   *)
(***************************************************************************)
Recorded ==
    /\ groupLog \subseteq groups
    /\ counted \subseteq Names
    /\ strange \subseteq DomainIds
    /\ requests \in 0..MaxRequests

LEMMA TypedAndRecorded == Typed /\ Recorded => LifecycleTypeOK
<1> SUFFICES ASSUME Typed, Recorded PROVE LifecycleTypeOK
  OBVIOUS
<1>0. 0 \in 0..MaxDomainId /\ \A i \in DomainIds : i \in 0..MaxDomainId
  BY LifecycleAssumption DEF DomainIds
<1>1. \A w \in Writers : writers[w] \in [phase : {"idle", "missing", "found"},
                                         name : Names \cup {Free}, id : 0..MaxDomainId]
  <2> TAKE w \in Writers
  <2>1. writers[w] \in Writer
    BY DEF Typed, HoldersTyped
  <2>2. CASE writers[w] = Resting
    BY <1>0, <2>2 DEF Resting
  <2>3. CASE writers[w] \in [phase : {"missing"}, name : Names, id : {0}]
    BY <1>0, <2>3
  <2>4. CASE writers[w] \in [phase : {"found"}, name : Names, id : DomainIds]
    BY <1>0, <2>4
  <2> QED
    BY <2>1, <2>2, <2>3, <2>4 DEF Writer
<1>2. removal \in [form : {"none", "untrack", "delete"}, id : 0..MaxDomainId]
  <2>1. removal \in Removal
    BY DEF Typed, HoldersTyped
  <2>2. CASE removal = NoRemoval
    BY <1>0, <2>2 DEF NoRemoval
  <2>3. CASE removal \in [form : {"untrack", "delete"}, id : DomainIds]
    BY <1>0, <2>3
  <2> QED
    BY <2>1, <2>2, <2>3 DEF Removal
<1>3. writers \in [Writers -> [phase : {"idle", "missing", "found"},
                               name : Names \cup {Free}, id : 0..MaxDomainId]]
  BY <1>1 DEF Typed, HoldersTyped
<1> QED
  BY <1>2, <1>3 DEF Typed, RowsTyped, HoldersTyped, Mailing, Raced, Target, Recorded,
                    LifecycleTypeOK

LEMMA RecordedInit == LifecycleInit => Recorded
BY LifecycleAssumption DEF LifecycleInit, Recorded

LEMMA RecordedNext == Typed /\ Recorded /\ [LifecycleNext]_lifecycleVars => Recorded'
<1> SUFFICES ASSUME Typed, Recorded, [LifecycleNext]_lifecycleVars PROVE Recorded'
  OBVIOUS
<1>0. RowsTyped /\ HoldersTyped /\ Recorded /\ MaxRequests \in Nat /\ "ingest" \in Writers
  BY LifecycleAssumption DEF Typed, Writers
<1>1. ASSUME NEW w \in Writers, NEW n \in Names, Locate(w, n) PROVE Recorded'
  BY <1>0, <1>1 DEF Locate, Request, Recorded
<1>2. ASSUME NEW w \in Writers, CreateRaises(w) \/ Create(w) PROVE Recorded'
  BY <1>0, <1>2 DEF CreateRaises, Create, Recorded
<1>3. CASE StoreFound
  <2>1. writers["ingest"].name \in Names
    BY <1>0, <1>3 DEF StoreFound, HoldersTyped, Writer, Resting
  <2> QED
    BY <1>0, <1>3, <2>1 DEF StoreFound, Recorded
<1>4. CASE CheckFound \/ SweepReads \/ SweepChecks
  BY <1>0, <1>4 DEF CheckFound, SweepReads, SweepChecks, Recorded
<1>5. CASE Cascade
  BY <1>0, <1>5 DEF Cascade, Recorded
<1>6. ASSUME NEW i \in DomainIds, UntrackPasses(i) \/ DeletePassesName(i) PROVE Recorded'
  BY <1>0, <1>6 DEF UntrackPasses, DeletePassesName, Request, Recorded
<1>7. ASSUME NEW i \in DomainIds, NEW g \in Groups \cup {Alone}, SetGroup(i, g)
      PROVE  Recorded'
  BY <1>0, <1>7 DEF SetGroup, Request, Recorded
<1>8. ASSUME NEW g \in Groups, CreateGroup(g) \/ DeleteGroup(g) PROVE Recorded'
  BY <1>0, <1>8 DEF CreateGroup, DeleteGroup, Request, Recorded
<1>9. ASSUME NEW g \in Groups, ReadMembers(g) PROVE Recorded'
  BY <1>0, <1>9 DEF ReadMembers, Recorded
<1>10. ASSUME NEW g \in Groups, SendGroup(g) PROVE Recorded'
  <2>1. \A t \in mailing.due : t.id \in DomainIds
    BY <1>0 DEF HoldersTyped, Mailing, Target
  <2>2. strange' \subseteq DomainIds
    BY <1>0, <1>10, <2>1 DEF SendGroup, MixedUp, Recorded
  <2> QED
    BY <1>0, <1>10, <2>2 DEF SendGroup, Recorded
<1>11. CASE ReadStandalone \/ StartSending \/ MailingEnds
  BY <1>0, <1>11 DEF ReadStandalone, StartSending, MailingEnds, Recorded
<1>12. CASE SendStandalone
  <2>1. \A t \in mailing.due : t.id \in DomainIds
    BY <1>0 DEF HoldersTyped, Mailing, Target
  <2>2. strange' \subseteq DomainIds
    BY <1>0, <1>12, <2>1 DEF SendStandalone, MixedUp, Recorded
  <2> QED
    BY <1>0, <1>12, <2>2 DEF SendStandalone, Recorded
<1>13. CASE UNCHANGED lifecycleVars
  BY <1>0, <1>13 DEF lifecycleVars, Recorded
<1> QED
  BY <1>1, <1>2, <1>3, <1>4, <1>5, <1>6, <1>7, <1>8, <1>9, <1>10, <1>11, <1>12, <1>13
  DEF LifecycleNext

(***************************************************************************)
(* The tables refer to rows that exist: a group's log to a group, what a    *)
(* form or the sweep holds to an id (db.py, web.py delete_report_group).    *)
(***************************************************************************)
THEOREM LifecycleTyping == LifecycleSpec => []LifecycleTypeOK
BY TypedInit, TypedNext, RecordedInit, RecordedNext, TypedAndRecorded, PTL DEF LifecycleSpec

-----------------------------------------------------------------------------
\* A counted report stays where it was stored until its domain is removed.
LEMMA CountedNext == Typed /\ CountedIsKept /\ [LifecycleNext]_lifecycleVars => CountedIsKept'
<1> SUFFICES ASSUME Typed, CountedIsKept, [LifecycleNext]_lifecycleVars PROVE CountedIsKept'
  OBVIOUS
<1>0. /\ RowsTyped /\ removal \in Removal /\ raced \in Raced
      /\ writers \in [Writers -> Writer]
  BY DEF Typed, HoldersTyped
<1>1. ASSUME UNCHANGED <<reportsOf, counted>>, raced'.orphaned = raced.orphaned
      PROVE  CountedIsKept'
  BY <1>1 DEF CountedIsKept
<1>2. CASE StoreFound
  <2> DEFINE i == writers["ingest"].id
             n == writers["ingest"].name
  <2>1. i \in DomainIds /\ n \in Names
    BY <1>0, <1>2 DEF StoreFound, Writer, Resting, Writers
  <2>2. counted' = counted \cup {n} /\ raced.orphaned \subseteq raced'.orphaned
    BY <1>0, <1>2 DEF StoreFound, Raced
  <2>3. \A j \in DomainIds : reportsOf[j] \subseteq reportsOf'[j]
    BY <1>0, <1>2 DEF StoreFound, RowsTyped
  <2>4. n \in raced'.orphaned \/ n \in reportsOf'[i]
    BY <1>0, <1>2, <2>1 DEF StoreFound, Raced, RowsTyped
  <2> HIDE DEF i, n
  <2> QED
    BY <2>1, <2>2, <2>3, <2>4 DEF CountedIsKept
<1>3. CASE Cascade
  BY <1>0, <1>3 DEF Cascade, RowsTyped, CountedIsKept
<1>4. ASSUME NEW w \in Writers, Create(w) PROVE CountedIsKept'
  BY <1>0, <1>1, <1>4 DEF Create, Raced
<1>5. ASSUME NEW i, UntrackPasses(i) \/ DeletePassesName(i) \/ \E g : SetGroup(i, g)
      PROVE  CountedIsKept'
  BY <1>0, <1>1, <1>5 DEF UntrackPasses, DeletePassesName, SetGroup, Moves, Raced
<1>6. CASE ReadStandalone \/ \E g : DeleteGroup(g)
  BY <1>0, <1>1, <1>6 DEF ReadStandalone, DeleteGroup, Moves, Raced
<1>7. CASE (\E w, n : Locate(w, n)) \/ (\E w : CreateRaises(w)) \/ CheckFound
            \/ SweepReads \/ SweepChecks
  BY <1>1, <1>7 DEF Locate, CreateRaises, CheckFound, SweepReads, SweepChecks
<1>8. CASE (\E g : CreateGroup(g) \/ ReadMembers(g) \/ SendGroup(g))
            \/ StartSending \/ SendStandalone \/ MailingEnds
  BY <1>1, <1>8 DEF CreateGroup, ReadMembers, SendGroup, StartSending, SendStandalone, MailingEnds
<1>9. CASE UNCHANGED lifecycleVars
  BY <1>1, <1>9 DEF lifecycleVars
<1> QED
  BY <1>2, <1>3, <1>4, <1>5, <1>6, <1>7, <1>8, <1>9 DEF LifecycleNext

(***************************************************************************)
(* A report that ingest counts as stored or as a duplicate is in the        *)
(* database, or was removed with its domain, or lost its domain between     *)
(* lookup and INSERT (ingest.py store_report).                              *)
(***************************************************************************)
THEOREM CountedReportsAreKept == LifecycleSpec => []CountedIsKept
<1>1. LifecycleInit => CountedIsKept
  BY DEF LifecycleInit, CountedIsKept
<1> QED
  BY <1>1, TypedInit, TypedNext, CountedNext, PTL DEF LifecycleSpec

-----------------------------------------------------------------------------
(***************************************************************************)
(* Own rows only.  Inductively: whoever holds an id with a name, a writer,  *)
(* a row of the sweep or of the mailing run, either finds that name under   *)
(* it, or nothing, or the id was given away meanwhile.                      *)
(***************************************************************************)
Under(i, n) == i \in raced.reused \/ tracked[i] \in {n, Free}

\* The same after a step.
StillUnder(i, n) == i \in raced'.reused \/ tracked'[i] \in {n, Free}

Held ==
    /\ \A w \in Writers : writers[w].phase = "found" => Under(writers[w].id, writers[w].name)
    /\ \A row \in sweepRows : Under(row[1], row[2])
    /\ \A t \in mailing.due : Under(t.id, t.name)

OwnInv == Held /\ OwnRowsOnly

\* A mail built from rows that are held mixes nothing up.
LEMMA HeldMailsAreOwn ==
    ASSUME Typed, OwnInv, NEW targets \in SUBSET mailing.due
    PROVE  MixedUp(targets) \subseteq raced.reused
<1> SUFFICES ASSUME NEW t \in mailing.due, ~(reportsOf[t.id] \subseteq {t.name}),
                    t.id \notin raced.reused
             PROVE  FALSE
  BY DEF MixedUp
<1>1. t.id \in DomainIds
  BY DEF Typed, HoldersTyped, Mailing, Target
<1>2. tracked[t.id] \in {t.name, Free}
  BY DEF OwnInv, Held, Under
<1>3. reportsOf[t.id] \subseteq {tracked[t.id]}
  BY <1>1 DEF OwnInv, OwnRowsOnly
<1>4. tracked[t.id] = Free => reportsOf[t.id] = {}
  BY <1>1 DEF Typed, NothingUnderFree
<1> QED
  BY <1>2, <1>3, <1>4

LEMMA OwnNext == Typed /\ OwnInv /\ [LifecycleNext]_lifecycleVars => OwnInv'
<1> SUFFICES ASSUME Typed, OwnInv, [LifecycleNext]_lifecycleVars PROVE OwnInv'
  OBVIOUS
<1>0. /\ RowsTyped /\ NothingUnderFree /\ Free \notin Names /\ 0 \notin DomainIds
      /\ writers \in [Writers -> Writer] /\ sweepRows \subseteq DomainIds \X Names
      /\ removal \in Removal /\ mailing \in Mailing /\ raced \in Raced
      /\ "ingest" \in Writers /\ "form" \in Writers
  BY NamesAssumption, LifecycleAssumption DEF Typed, HoldersTyped, DomainIds, Writers
<1>1. ASSUME UNCHANGED <<tracked, reportsOf, filed, writers, sweepRows, strange>>,
             raced'.reused = raced.reused,
             mailing'.due \subseteq mailing.due
      PROVE  OwnInv'
  BY <1>1 DEF OwnInv, OwnRowsOnly, Held, Under
<1>2. ASSUME NEW w \in Writers, NEW n \in Names, Locate(w, n) PROVE OwnInv'
  <2>1. UNCHANGED <<tracked, reportsOf, filed, sweepRows, mailing, strange, raced>>
    BY <1>2 DEF Locate
  <2>2. \A v \in Writers : writers'[v].phase = "found" =>
            Under(writers'[v].id, writers'[v].name)
    BY <1>0, <1>2 DEF Locate, IdOf, OwnInv, Held, Under
  <2> QED
    BY <2>1, <2>2 DEF OwnInv, OwnRowsOnly, Held, Under
<1>3. ASSUME NEW w \in Writers, CreateRaises(w) PROVE OwnInv'
  <2>1. UNCHANGED <<tracked, reportsOf, filed, sweepRows, mailing, strange, raced>>
    BY <1>3 DEF CreateRaises
  <2>2. \A v \in Writers : writers'[v].phase = "found" =>
            Under(writers'[v].id, writers'[v].name)
    BY <1>0, <1>3 DEF CreateRaises, Resting, OwnInv, Held
  <2> QED
    BY <2>1, <2>2 DEF OwnInv, OwnRowsOnly, Held, Under
<1>4. ASSUME NEW w \in Writers, Create(w) PROVE OwnInv'
  <2> DEFINE new == NewDomainId
             n   == writers[w].name
  <2>1. new \in DomainIds /\ tracked[new] = Free
    BY <1>4, NewIdIsFree DEF Create
  <2>2. reportsOf[new] = {} /\ filed[new] = {}
    BY <1>0, <2>1 DEF NothingUnderFree
  <2>3. /\ UNCHANGED <<reportsOf, filed, sweepRows, mailing, strange>>
        /\ tracked' = [tracked EXCEPT ![new] = n]
        /\ writers' = [writers EXCEPT ![w].phase = "found", ![w].id = new]
    BY <1>4 DEF Create
  <2>4. /\ raced.reused \subseteq raced'.reused
        /\ new \in HeldIds => new \in raced'.reused
    BY <1>0, <1>4 DEF Create, Raced
  <2> HIDE DEF new, n
  <2>5. OwnRowsOnly'
    BY <1>0, <2>1, <2>2, <2>3, <2>4 DEF OwnInv, OwnRowsOnly, RowsTyped
  <2>6. ASSUME NEW i \in DomainIds, NEW m, Under(i, m), i \in HeldIds PROVE StillUnder(i, m)
    BY <1>0, <2>1, <2>3, <2>4, <2>6 DEF Under, StillUnder, RowsTyped
  <2>7. \A row \in sweepRows : row[1] \in DomainIds /\ row[1] \in HeldIds
    BY <1>0 DEF HeldIds
  <2>8. \A t \in mailing.due : t.id \in DomainIds /\ t.id \in HeldIds
    BY <1>0 DEF HeldIds, Mailing, Target
  <2>9. \A v \in Writers : writers'[v].phase = "found" =>
            StillUnder(writers'[v].id, writers'[v].name)
    <3> SUFFICES ASSUME NEW v \in Writers, writers'[v].phase = "found"
                 PROVE  StillUnder(writers'[v].id, writers'[v].name)
      OBVIOUS
    <3>1. CASE v = w
      <4>1. writers[w] \in [phase : {"missing"}, name : Names, id : {0}]
        BY <1>0, <1>4 DEF Create, Writer, Resting
      <4>2. writers'[w].id = new /\ writers'[w].name = n
        BY <1>0, <2>3, <4>1 DEF n
      <4> QED
        BY <1>0, <2>1, <2>3, <3>1, <4>2 DEF StillUnder, RowsTyped
    <3>2. CASE v # w
      <4>1. writers'[v] = writers[v]
        BY <1>0, <2>3, <3>2
      <4>2. writers[v].id \in DomainIds /\ writers[v].id \in HeldIds
        BY <1>0, <4>1 DEF Writer, Resting, HeldIds
      <4>3. Under(writers[v].id, writers[v].name)
        BY <4>1 DEF OwnInv, Held
      <4> QED
        BY <2>6, <4>1, <4>2, <4>3
    <3> QED
      BY <3>1, <3>2
  <2>10. Held'
    <3>1. \A row \in sweepRows : StillUnder(row[1], row[2])
      BY <2>6, <2>7 DEF OwnInv, Held
    <3>2. \A t \in mailing.due : StillUnder(t.id, t.name)
      BY <2>6, <2>8 DEF OwnInv, Held
    <3> QED
      BY <2>3, <2>9, <3>1, <3>2 DEF Held, Under, StillUnder
  <2> QED
    BY <2>5, <2>10 DEF OwnInv
<1>5. CASE StoreFound
  <2> DEFINE i == writers["ingest"].id
             n == writers["ingest"].name
  <2>1. i \in DomainIds /\ n \in Names /\ Under(i, n)
    BY <1>0, <1>5 DEF StoreFound, Writer, Resting, OwnInv, Held
  <2>2. /\ UNCHANGED <<tracked, filed, sweepRows, mailing, strange>>
        /\ raced'.reused = raced.reused
        /\ writers' = [writers EXCEPT !["ingest"] = Resting]
        /\ reportsOf' = IF tracked[i] = Free THEN reportsOf
                        ELSE [reportsOf EXCEPT ![i] = @ \cup {n}]
    BY <1>0, <1>5 DEF StoreFound, Raced
  <2>3. Held'
    BY <1>0, <2>2 DEF OwnInv, Held, Under, Resting
  <2> HIDE DEF i, n
  <2>4. OwnRowsOnly'
    BY <1>0, <2>1, <2>2 DEF OwnInv, OwnRowsOnly, Under, RowsTyped
  <2> QED
    BY <2>3, <2>4 DEF OwnInv
<1>6. CASE CheckFound
  <2> DEFINE i == writers["form"].id
             n == writers["form"].name
  <2>1. i \in DomainIds /\ n \in Names /\ Under(i, n)
    BY <1>0, <1>6 DEF CheckFound, Writer, Resting, OwnInv, Held
  <2>2. /\ UNCHANGED <<tracked, reportsOf, sweepRows, mailing, strange, raced>>
        /\ writers' = [writers EXCEPT !["form"] = Resting]
        /\ filed' = IF tracked[i] = Free THEN filed ELSE [filed EXCEPT ![i] = @ \cup {n}]
    BY <1>6 DEF CheckFound
  <2>3. Held'
    BY <1>0, <2>2 DEF OwnInv, Held, Under, Resting
  <2> HIDE DEF i, n
  <2>4. OwnRowsOnly'
    BY <1>0, <2>1, <2>2 DEF OwnInv, OwnRowsOnly, Under, RowsTyped
  <2> QED
    BY <2>3, <2>4 DEF OwnInv
<1>7. CASE SweepReads
  BY <1>0, <1>7 DEF SweepReads, OwnInv, OwnRowsOnly, Held, Under
<1>8. CASE SweepChecks
  <2>1. /\ UNCHANGED <<tracked, reportsOf, writers, mailing, strange, raced>>
        /\ sweepRows' \subseteq sweepRows
        /\ \/ UNCHANGED filed
           \/ \E row \in sweepRows : /\ tracked[row[1]] # Free
                                    /\ filed' = [filed EXCEPT ![row[1]] = @ \cup {row[2]}]
    BY <1>8 DEF SweepChecks
  <2>2. Held'
    BY <2>1 DEF OwnInv, Held, Under
  <2>3. OwnRowsOnly'
    BY <1>0, <2>1 DEF OwnInv, OwnRowsOnly, Held, Under, RowsTyped
  <2> QED
    BY <2>2, <2>3 DEF OwnInv
<1>9. CASE Cascade
  <2>1. removal.id \in DomainIds
    BY <1>0, <1>9 DEF Cascade, Removal
  <2> QED
    BY <1>0, <1>9, <2>1 DEF Cascade, OwnInv, OwnRowsOnly, Held, Under, RowsTyped
<1>10. ASSUME NEW i, UntrackPasses(i) \/ DeletePassesName(i) \/ \E g : SetGroup(i, g)
       PROVE  OwnInv'
  BY <1>0, <1>1, <1>10 DEF UntrackPasses, DeletePassesName, SetGroup, Moves, Raced
<1>11. ASSUME NEW g, CreateGroup(g) \/ DeleteGroup(g) PROVE OwnInv'
  BY <1>0, <1>1, <1>11 DEF CreateGroup, DeleteGroup, Moves, Raced
<1>12. ASSUME UNCHANGED <<tracked, reportsOf, filed, writers, sweepRows, strange>>,
              raced'.reused = raced.reused,
              NEW ids \in SUBSET DomainIds, NEW way,
              mailing'.due \subseteq mailing.due \cup Targets(ids, way)
       PROVE  OwnInv'
  <2>1. \A t \in Targets(ids, way) : t.name = tracked[t.id]
    BY DEF Targets
  <2> QED
    BY <1>12, <2>1 DEF OwnInv, OwnRowsOnly, Held, Under
<1>13. CASE ReadStandalone
  <2> DEFINE ids == {i \in DomainIds : tracked[i] # Free /\ memberOf[i] = Alone}
  <2>1. mailing'.due = Targets(ids, Alone)
    BY <1>13 DEF ReadStandalone
  <2>2. raced'.reused = raced.reused
    BY <1>0, <1>13 DEF ReadStandalone, Raced
  <2>3. ids \in SUBSET DomainIds
    OBVIOUS
  <2> HIDE DEF ids
  <2> QED
    BY <1>12, <1>13, <2>1, <2>2, <2>3 DEF ReadStandalone
<1>14. ASSUME NEW g \in Groups, ReadMembers(g) PROVE OwnInv'
  <2> DEFINE ids == {i \in DomainIds : memberOf[i] = g}
  <2>1. mailing'.due = mailing.due \cup Targets(ids, g)
    BY <1>0, <1>14 DEF ReadMembers, Mailing
  <2>2. ids \in SUBSET DomainIds
    OBVIOUS
  <2> HIDE DEF ids
  <2> QED
    BY <1>12, <1>14, <2>1, <2>2 DEF ReadMembers
<1>15. CASE StartSending \/ MailingEnds
  BY <1>0, <1>1, <1>15 DEF StartSending, MailingEnds, NoMailing, Mailing
<1>16. CASE SendStandalone \/ \E g \in Groups : SendGroup(g)
  <2>1. /\ UNCHANGED <<tracked, reportsOf, filed, writers, sweepRows, raced>>
        /\ mailing'.due \subseteq mailing.due
    <3>1. UNCHANGED <<tracked, reportsOf, filed, writers, sweepRows, raced>>
      BY <1>16 DEF SendStandalone, SendGroup
    <3>2. \/ mailing' = NoMailing
          \/ \E sent : mailing' = [mailing EXCEPT !.due = @ \ sent]
      BY <1>16 DEF SendStandalone, SendGroup
    <3> QED
      BY <1>0, <3>1, <3>2 DEF NoMailing, Mailing
  <2>2. \E targets \in SUBSET mailing.due : strange' \subseteq strange \cup MixedUp(targets)
    <3>1. CASE SendStandalone
      <4>1. PICK t \in mailing.due : strange' \subseteq strange \cup MixedUp({t})
        BY <3>1 DEF SendStandalone
      <4> QED
        BY <4>1
    <3>2. CASE \E g \in Groups : SendGroup(g)
      BY <3>2 DEF SendGroup
    <3> QED
      BY <1>16, <3>1, <3>2
  <2>3. strange' \subseteq raced.reused
    BY <2>2, HeldMailsAreOwn DEF OwnInv, OwnRowsOnly
  <2> QED
    BY <2>1, <2>3 DEF OwnInv, OwnRowsOnly, Held, Under
<1>17. CASE UNCHANGED lifecycleVars
  BY <1>1, <1>17 DEF lifecycleVars
<1> QED
  BY <1>2, <1>3, <1>4, <1>5, <1>6, <1>7, <1>8, <1>9, <1>10, <1>11, <1>13, <1>14, <1>15,
     <1>16, <1>17 DEF LifecycleNext

(***************************************************************************)
(* What is stored and mailed under a domain is about that domain, through   *)
(* removals and new domains with an old id, unless the id was given away    *)
(* while a thread held it (web.py _delete_domain_cascade, db.py             *)
(* get_or_create_domain).                                                   *)
(***************************************************************************)
THEOREM RowsStayWithTheirDomain == LifecycleSpec => []OwnRowsOnly
<1>1. LifecycleInit => OwnInv
  BY DEF LifecycleInit, OwnInv, Held, OwnRowsOnly, Resting, NoMailing
<1> QED
  BY <1>1, TypedInit, TypedNext, OwnNext, PTL DEF LifecycleSpec, OwnInv

-----------------------------------------------------------------------------
(***************************************************************************)
(* Once per run.  Inductively: what has been read waits the way its domain  *)
(* is delivered, no group is read twice, and nothing waits between runs.    *)
(***************************************************************************)
Steady(t) == t.id \notin raced.moved \cup raced.reused /\ tracked[t.id] # Free

DueInv ==
    /\ mailing.phase = "idle" => mailing.due = {}
    /\ \A t \in mailing.due : t.way \notin mailing.ask
    /\ \A t \in mailing.due : Steady(t) => t.way = memberOf[t.id]
    /\ OncePerRun

LEMMA DueNext == Typed /\ DueInv /\ [LifecycleNext]_lifecycleVars => DueInv'
<1> SUFFICES ASSUME Typed, DueInv, [LifecycleNext]_lifecycleVars PROVE DueInv'
  OBVIOUS
<1>0. /\ RowsTyped /\ NothingUnderFree /\ Alone \notin Groups
      /\ removal \in Removal /\ mailing \in Mailing /\ raced \in Raced
  BY NamesAssumption DEF Typed, HoldersTyped
<1>a. \A t \in mailing.due : t.id \in DomainIds
  BY <1>0 DEF Mailing, Target
<1>1. ASSUME UNCHANGED <<tracked, memberOf>>, raced'.moved = raced.moved,
             raced'.reused = raced.reused,
             mailing'.due \subseteq mailing.due, mailing'.ask \subseteq mailing.ask,
             mailing'.phase = "idle" => mailing'.due = {}
      PROVE  DueInv'
  BY <1>1 DEF DueInv, OncePerRun, Steady
<1>2. ASSUME NEW w \in Writers, Create(w) PROVE DueInv'
  <2> DEFINE new == NewDomainId
  <2>1. /\ UNCHANGED <<memberOf, mailing>>
        /\ raced'.moved = raced.moved
        /\ raced.reused \subseteq raced'.reused
        /\ new \in HeldIds => new \in raced'.reused
        /\ \A i \in DomainIds : i # new => tracked'[i] = tracked[i]
    BY <1>0, <1>2 DEF Create, Raced, RowsTyped
  <2>2. \A t \in mailing.due : t.id \in HeldIds
    BY DEF HeldIds
  <2> HIDE DEF new
  <2>3. \A t \in mailing.due : Steady(t)' => Steady(t)
    BY <1>a, <2>1, <2>2 DEF Steady
  <2> QED
    BY <2>1, <2>3 DEF DueInv, OncePerRun
<1>3. CASE Cascade
  <2>1. removal.id \in DomainIds
    BY <1>0, <1>3 DEF Cascade, Removal
  <2>2. /\ UNCHANGED <<mailing, raced>>
        /\ tracked' = [tracked EXCEPT ![removal.id] = Free]
        /\ memberOf' = [memberOf EXCEPT ![removal.id] = Alone]
    BY <1>3 DEF Cascade
  <2>3. \A t \in mailing.due : Steady(t)' => Steady(t) /\ memberOf'[t.id] = memberOf[t.id]
    BY <1>0, <1>a, <2>1, <2>2 DEF Steady, RowsTyped
  <2> QED
    BY <2>2, <2>3 DEF DueInv, OncePerRun
<1>4. ASSUME NEW ids \in SUBSET DomainIds, Moves(ids), UNCHANGED <<tracked, mailing>>,
             memberOf' \in [DomainIds -> Groups \cup {Alone}],
             \A i \in DomainIds \ ids : memberOf'[i] = memberOf[i]
      PROVE  DueInv'
  <2>1. CASE mailing.phase = "idle"
    BY <1>4, <2>1 DEF DueInv, OncePerRun
  <2>2. CASE mailing.phase # "idle"
    <3>1. raced'.moved = raced.moved \cup ids /\ raced'.reused = raced.reused
      BY <1>0, <1>4, <2>2 DEF Moves, Raced
    <3> QED
      BY <1>4, <1>a, <3>1 DEF DueInv, OncePerRun, Steady
  <2> QED
    BY <2>1, <2>2
<1>5. ASSUME NEW i \in DomainIds, NEW g \in Groups \cup {Alone}, SetGroup(i, g) PROVE DueInv'
  <2>1. /\ Moves({i}) /\ UNCHANGED <<tracked, mailing>>
        /\ memberOf' \in [DomainIds -> Groups \cup {Alone}]
        /\ \A j \in DomainIds \ {i} : memberOf'[j] = memberOf[j]
    BY <1>0, <1>5 DEF SetGroup, RowsTyped
  <2> QED
    BY <1>4, <2>1
<1>6. ASSUME NEW g \in Groups, DeleteGroup(g) PROVE DueInv'
  <2> DEFINE ids == {i \in DomainIds : memberOf[i] = g}
  <2>1. /\ Moves(ids) /\ UNCHANGED <<tracked, mailing>>
        /\ memberOf' \in [DomainIds -> Groups \cup {Alone}]
        /\ \A j \in DomainIds \ ids : memberOf'[j] = memberOf[j]
    BY <1>0, <1>6 DEF DeleteGroup, RowsTyped
  <2>2. ids \in SUBSET DomainIds
    OBVIOUS
  <2> HIDE DEF ids
  <2> QED
    BY <1>4, <2>1, <2>2
<1>7. CASE ReadStandalone
  <2> DEFINE ids == {i \in DomainIds : tracked[i] # Free /\ memberOf[i] = Alone}
  <2>1. /\ UNCHANGED <<tracked, memberOf>>
        /\ mailing' = [phase |-> "reading", ask |-> groups, due |-> Targets(ids, Alone)]
    BY <1>7 DEF ReadStandalone
  <2>2. \A t \in mailing'.due : /\ t.id \in ids /\ t.way = Alone
                             /\ t = [id |-> t.id, name |-> tracked[t.id], way |-> Alone]
    BY <2>1 DEF Targets
  <2>3. \A t \in mailing'.due : t.way \notin mailing'.ask /\ t.way = memberOf[t.id]
    BY <1>0, <2>1, <2>2 DEF RowsTyped
  <2>4. \A s, t \in mailing'.due : s.id = t.id => s = t
    BY <2>2
  <2>5. mailing'.phase = "reading"
    BY <2>1
  <2> QED
    BY <2>1, <2>3, <2>4, <2>5 DEF DueInv, OncePerRun
<1>8. ASSUME NEW g \in Groups, ReadMembers(g) PROVE DueInv'
  <2> DEFINE ids == {i \in DomainIds : memberOf[i] = g}
             new == Targets(ids, g)
  <2>1. /\ UNCHANGED <<tracked, memberOf, raced>>
        /\ mailing'.due = mailing.due \cup new
        /\ mailing'.ask = mailing.ask \ {g}
        /\ mailing'.phase = mailing.phase /\ mailing.phase = "reading"
        /\ g \in mailing.ask
    BY <1>0, <1>8 DEF ReadMembers, Mailing
  <2>2. \A t \in new : /\ t.id \in ids /\ t.way = g
                      /\ t = [id |-> t.id, name |-> tracked[t.id], way |-> g]
    BY DEF Targets
  <2>3. \A t \in new : memberOf[t.id] = g /\ tracked[t.id] # Free
    BY <1>0, <2>2 DEF NothingUnderFree
  <2> HIDE DEF ids, new
  <2>4. \A s, t \in new : s.id = t.id => s = t
    BY <2>2
  <2>5. \A s \in mailing.due, t \in new :
            s.id = t.id => s.id \in raced.moved \cup raced.reused
    BY <2>1, <2>3 DEF DueInv, Steady
  <2>6. OncePerRun'
    BY <2>1, <2>2, <2>4, <2>5 DEF DueInv, OncePerRun
  <2> QED
    BY <2>1, <2>2, <2>3, <2>6 DEF DueInv, Steady
<1>9. CASE (\E w, n : Locate(w, n)) \/ (\E w : CreateRaises(w)) \/ CheckFound
           \/ SweepReads \/ SweepChecks
  BY <1>1, <1>9 DEF Locate, CreateRaises, CheckFound, SweepReads, SweepChecks, DueInv
<1>10. CASE StoreFound \/ \E i : UntrackPasses(i) \/ DeletePassesName(i)
  BY <1>0, <1>1, <1>10 DEF StoreFound, UntrackPasses, DeletePassesName, Raced, DueInv
<1>11. CASE \E g : CreateGroup(g)
  BY <1>1, <1>11 DEF CreateGroup, DueInv
<1>12. CASE StartSending \/ MailingEnds \/ SendStandalone \/ \E g \in Groups : SendGroup(g)
  <2>1. UNCHANGED <<tracked, memberOf, raced>>
    BY <1>12 DEF StartSending, MailingEnds, SendStandalone, SendGroup
  <2>2. \/ mailing' = NoMailing
        \/ mailing' = [mailing EXCEPT !.phase = "sending"]
        \/ mailing.phase = "sending" /\ \E sent : mailing' = [mailing EXCEPT !.due = @ \ sent]
    BY <1>12 DEF StartSending, MailingEnds, SendStandalone, SendGroup
  <2> QED
    BY <1>0, <1>1, <2>1, <2>2 DEF Mailing, NoMailing
<1>13. CASE UNCHANGED lifecycleVars
  BY <1>1, <1>13 DEF lifecycleVars, DueInv
<1> QED
  BY <1>2, <1>3, <1>5, <1>6, <1>7, <1>8, <1>9, <1>10, <1>11, <1>12, <1>13 DEF LifecycleNext

(***************************************************************************)
(* One run mails about a domain once, alone or with its group, unless it    *)
(* changed groups after the run's first read or its id changed hands        *)
(* (domain_report.py due_report_targets, run_report_emails).                *)
(***************************************************************************)
THEOREM RunsMailOnce == LifecycleSpec => []OncePerRun
<1>1. LifecycleInit => DueInv
  BY DEF LifecycleInit, DueInv, OncePerRun, NoMailing
<1> QED
  BY <1>1, TypedInit, TypedNext, DueNext, PTL DEF LifecycleSpec, DueInv
=============================================================================
