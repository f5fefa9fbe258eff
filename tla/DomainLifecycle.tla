--------------------------- MODULE DomainLifecycle ---------------------------
(***************************************************************************)
(* A domain is a row of `domains` whose id some thirty tables refer to.     *)
(* Reports and the add form create it (get_or_create_domain), untrack and   *)
(* delete remove it with everything that refers to it                      *)
(* (_delete_domain_cascade), and a report group takes it out of standalone  *)
(* delivery.  Ingest, forms, a step of the sweep and the mailing run each   *)
(* look an id up and use it later, with lookups and mails in between; only  *)
(* the foreign keys notice when it is gone, and nothing notices when it has *)
(* been given to another domain: SQLite hands out the highest id plus one.  *)
(***************************************************************************)
EXTENDS Naturals, FiniteSets, FiniteSetsExt

CONSTANTS
    Names,         \* domain names; each has one DMARC report, that may come again
    MaxDomainId,   \* bound: the highest id
    Groups,        \* report groups
    MaxRequests    \* bound: forms that are submitted

ASSUME LifecycleAssumption == MaxDomainId \in Nat /\ MaxRequests \in Nat

Free  == "free"    \* no row with this id
Alone == "alone"   \* report_group_id IS NULL

ASSUME NamesAssumption == Free \notin Names /\ Alone \notin Groups

VARIABLES
    tracked,    \* domains: id -> name
    memberOf,   \* domains.report_group_id
    reportsOf,  \* reports by domain_id: the names they are about
    filed,      \* findings and checks by domain_id: the names they are about
    groups,     \* domain_report_groups
    groupLog,   \* groups with a row in group_report_sends
    writers,    \* the mailbox ingest and the add form, between lookup and use
    sweepRows,  \* <<id, name>> rows a step of the sweep has read and not yet used
    removal,    \* the untrack or delete form between its checks and its deletes
    mailing,    \* run_report_emails: what it has read and not yet sent
    counted,    \* history: names whose report was counted as stored or duplicate,
                \* and not removed with its domain since
    strange,    \* history: ids under which an owner was mailed another's report
    raced,      \* history: what happened between a lookup and its use
    requests

lifecycleVars == <<tracked, memberOf, reportsOf, filed, groups, groupLog, writers,
                   sweepRows, removal, mailing, counted, strange, raced, requests>>

DomainIds == 1..MaxDomainId
Writers   == {"ingest", "form"}
Resting   == [phase |-> "idle", name |-> Free, id |-> 0]
NoRemoval == [form |-> "none", id |-> 0]
NoMailing == [phase |-> "idle", ask |-> {}, due |-> {}]

Request == requests < MaxRequests /\ requests' = requests + 1

IdOf(n)      == {i \in DomainIds : tracked[i] = n}
NewDomainId  == Max({0} \cup {i \in DomainIds : tracked[i] # Free}) + 1
HeldIds ==
    {writers[w].id : w \in Writers} \cup {row[1] : row \in sweepRows}
        \cup {removal.id} \cup {target.id : target \in mailing.due}

-----------------------------------------------------------------------------
(***************************************************************************)
(* get_or_create_domain, for a report that arrives (again) and for a name   *)
(* that is typed in: the SELECT, the INSERT, and what the id is used for.   *)
(***************************************************************************)
Locate(w, n) ==
    /\ writers[w] = Resting
    /\ IF w = "form" THEN Request /\ IdOf(n) = {} ELSE UNCHANGED requests
    /\ \/ \E i \in IdOf(n) :
             writers' = [writers EXCEPT ![w] = [phase |-> "found", name |-> n, id |-> i]]
       \/ /\ IdOf(n) = {}
          /\ writers' = [writers EXCEPT ![w] = [phase |-> "missing", name |-> n, id |-> 0]]
    /\ UNCHANGED <<tracked, memberOf, reportsOf, filed, groups, groupLog, sweepRows, removal,
                   mailing, counted, strange, raced>>

\* A bug: the lookup is inside store_report's try, and its error a duplicate.
CreateRaisesUnnoticed(w) ==
    /\ writers[w].phase = "missing"
    /\ IdOf(writers[w].name) # {}
    /\ writers' = [writers EXCEPT ![w] = Resting]
    /\ counted' = counted \cup {writers[w].name}
    /\ UNCHANGED <<tracked, memberOf, reportsOf, filed, groups, groupLog, sweepRows, removal,
                   mailing, strange, raced, requests>>

\* Two writers of one name: the second INSERT raises, outside store_report's try.
CreateRaises(w) ==
    /\ writers[w].phase = "missing"
    /\ IdOf(writers[w].name) # {}
    /\ writers' = [writers EXCEPT ![w] = Resting]
    /\ UNCHANGED <<tracked, memberOf, reportsOf, filed, groups, groupLog, sweepRows, removal,
                   mailing, counted, strange, raced, requests>>

Create(w) ==
    /\ writers[w].phase = "missing"
    /\ IdOf(writers[w].name) = {}
    /\ NewDomainId \in DomainIds
    /\ tracked' = [tracked EXCEPT ![NewDomainId] = writers[w].name]
    /\ writers' = [writers EXCEPT ![w].phase = "found", ![w].id = NewDomainId]
    /\ raced' = [raced EXCEPT !.reused =
                       IF NewDomainId \in HeldIds THEN @ \cup {NewDomainId} ELSE @]
    /\ UNCHANGED <<memberOf, reportsOf, filed, groups, groupLog, sweepRows, removal, mailing,
                   counted, strange, requests>>

\* store_report: a foreign key that is gone looks like a report that is there.
StoreFound ==
    LET ingest == writers["ingest"]
        gone   == tracked[ingest.id] = Free
    IN
    /\ ingest.phase = "found"
    /\ counted' = counted \cup {ingest.name}
    /\ reportsOf' = IF gone THEN reportsOf
                    ELSE [reportsOf EXCEPT ![ingest.id] = @ \cup {ingest.name}]
    /\ raced' = [raced EXCEPT !.orphaned = IF gone THEN @ \cup {ingest.name} ELSE @]
    /\ writers' = [writers EXCEPT !["ingest"] = Resting]
    /\ UNCHANGED <<tracked, memberOf, filed, groups, groupLog, sweepRows, removal, mailing,
                   strange, requests>>

\* The first DNS check of a domain that was typed in; on a missing row it raises.
CheckFound ==
    LET form == writers["form"] IN
    /\ form.phase = "found"
    /\ filed' = IF tracked[form.id] = Free THEN filed
                ELSE [filed EXCEPT ![form.id] = @ \cup {form.name}]
    /\ writers' = [writers EXCEPT !["form"] = Resting]
    /\ UNCHANGED <<tracked, memberOf, reportsOf, groups, groupLog, sweepRows, removal, mailing,
                   counted, strange, raced, requests>>

-----------------------------------------------------------------------------
(***************************************************************************)
(* run_dns_checks, a step of the sweep that commits per domain: the rows,   *)
(* the lookups, one write each.  A write for a row that is gone ends it.    *)
(* The job mails after its sweep, when it has released the lock: the next   *)
(* sweep, of the Refresh button, can be under way by then.                  *)
(***************************************************************************)
SweepReads ==
    /\ sweepRows = {}
    /\ sweepRows' = {<<i, tracked[i]>> : i \in {i \in DomainIds : tracked[i] # Free}}
    /\ UNCHANGED <<tracked, memberOf, reportsOf, filed, groups, groupLog, writers, removal,
                   mailing, counted, strange, raced, requests>>

SweepChecks ==
    /\ \E row \in sweepRows :
          IF tracked[row[1]] = Free
          THEN sweepRows' = {} /\ UNCHANGED filed
          ELSE /\ sweepRows' = sweepRows \ {row}
               /\ filed' = [filed EXCEPT ![row[1]] = @ \cup {row[2]}]
    /\ UNCHANGED <<tracked, memberOf, reportsOf, groups, groupLog, writers, removal, mailing,
                   counted, strange, raced, requests>>

-----------------------------------------------------------------------------
(***************************************************************************)
(* untrack_domain counts the reports, delete_domain compares a typed name;  *)
(* the deletes are one transaction later, and take what was stored between. *)
(***************************************************************************)
UntrackPasses(i) ==
    /\ removal = NoRemoval /\ Request
    /\ tracked[i] # Free
    /\ reportsOf[i] = {}
    /\ removal' = [form |-> "untrack", id |-> i]
    /\ UNCHANGED <<tracked, memberOf, reportsOf, filed, groups, groupLog, writers, sweepRows,
                   mailing, counted, strange, raced>>

DeletePassesName(i) ==
    /\ removal = NoRemoval /\ Request
    /\ tracked[i] # Free
    /\ removal' = [form |-> "delete", id |-> i]
    /\ UNCHANGED <<tracked, memberOf, reportsOf, filed, groups, groupLog, writers, sweepRows,
                   mailing, counted, strange, raced>>

\* A bug: a list of tables that lacks the newest one.
CascadeByList ==
    LET i == removal.id IN
    /\ removal # NoRemoval
    /\ tracked' = [tracked EXCEPT ![i] = Free]
    /\ memberOf' = [memberOf EXCEPT ![i] = Alone]
    /\ reportsOf' = [reportsOf EXCEPT ![i] = {}]
    /\ counted' = counted \ reportsOf[i]
    /\ removal' = NoRemoval
    /\ UNCHANGED <<filed, groups, groupLog, writers, sweepRows, mailing, strange,
                   raced, requests>>

Cascade ==
    LET i == removal.id IN
    /\ removal # NoRemoval
    /\ tracked' = [tracked EXCEPT ![i] = Free]
    /\ memberOf' = [memberOf EXCEPT ![i] = Alone]
    /\ reportsOf' = [reportsOf EXCEPT ![i] = {}]
    /\ filed' = [filed EXCEPT ![i] = {}]
    /\ counted' = counted \ reportsOf[i]
    /\ removal' = NoRemoval
    /\ UNCHANGED <<groups, groupLog, writers, sweepRows, mailing, strange, raced,
                   requests>>

-----------------------------------------------------------------------------
(***************************************************************************)
(* Report groups: members are domains; a group that was ever mailed cannot  *)
(* be deleted, its log refers to it and the statement fails.                *)
(***************************************************************************)
CreateGroup(g) ==
    /\ g \notin groups
    /\ groups' = groups \cup {g}
    /\ UNCHANGED <<tracked, memberOf, reportsOf, filed, groupLog, writers, sweepRows, removal,
                   mailing, counted, strange, raced, requests>>

Moves(ids) ==
    raced' = [raced EXCEPT !.moved = IF mailing.phase = "idle" THEN @ ELSE @ \cup ids]

SetGroup(i, g) ==
    /\ tracked[i] # Free /\ memberOf[i] # g /\ Request
    /\ g \in groups \cup {Alone}
    /\ memberOf' = [memberOf EXCEPT ![i] = g]
    /\ Moves({i})
    /\ UNCHANGED <<tracked, reportsOf, filed, groups, groupLog, writers, sweepRows, removal,
                   mailing, counted, strange>>

DeleteGroup(g) ==
    /\ g \in groups \ groupLog /\ Request
    /\ groups' = groups \ {g}
    /\ memberOf' = [i \in DomainIds |-> IF memberOf[i] = g THEN Alone ELSE memberOf[i]]
    /\ Moves({i \in DomainIds : memberOf[i] = g})
    /\ UNCHANGED <<tracked, reportsOf, filed, groupLog, writers, sweepRows, removal, mailing,
                   counted, strange>>

-----------------------------------------------------------------------------
(***************************************************************************)
(* run_report_emails: due_report_targets reads the standalone domains, then *)
(* each group's members; the mails follow, built when it is their turn.     *)
(* Everything is due here: ScheduledSends has the intervals.                *)
(***************************************************************************)
Targets(ids, way) == {[id |-> i, name |-> tracked[i], way |-> way] : i \in ids}

\* A bug: the first query leaves out "AND d.report_group_id IS NULL".
ReadStandaloneAndGrouped ==
    /\ mailing.phase = "idle"
    /\ mailing' = [phase |-> "reading", ask |-> groups,
                   due |-> Targets({i \in DomainIds : tracked[i] # Free}, Alone)]
    /\ raced' = [raced EXCEPT !.moved = {}]
    /\ UNCHANGED <<tracked, memberOf, reportsOf, filed, groups, groupLog, writers, sweepRows,
                   removal, counted, strange, requests>>

ReadStandalone ==
    /\ mailing.phase = "idle"
    /\ mailing' = [phase |-> "reading", ask |-> groups,
                   due |-> Targets({i \in DomainIds : tracked[i] # Free /\ memberOf[i] = Alone},
                                   Alone)]
    /\ raced' = [raced EXCEPT !.moved = {}]
    /\ UNCHANGED <<tracked, memberOf, reportsOf, filed, groups, groupLog, writers, sweepRows,
                   removal, counted, strange, requests>>

ReadMembers(g) ==
    /\ mailing.phase = "reading" /\ g \in mailing.ask
    /\ mailing' = [mailing EXCEPT !.ask = @ \ {g},
                       !.due = @ \cup Targets({i \in DomainIds : memberOf[i] = g}, g)]
    /\ UNCHANGED <<tracked, memberOf, reportsOf, filed, groups, groupLog, writers, sweepRows,
                   removal, counted, strange, raced, requests>>

StartSending ==
    /\ mailing.phase = "reading" /\ mailing.ask = {}
    /\ mailing' = [mailing EXCEPT !.phase = "sending"]
    /\ UNCHANGED <<tracked, memberOf, reportsOf, filed, groups, groupLog, writers, sweepRows,
                   removal, counted, strange, raced, requests>>

\* Ids under which a mail about one name carries the reports of another.
MixedUp(targets) == {t.id : t \in {t \in targets : ~(reportsOf[t.id] \subseteq {t.name})}}

\* Logging a skip for a domain that is gone raises, and the run ends with it.
SendStandalone ==
    /\ mailing.phase = "sending"
    /\ \E t \in mailing.due :
          /\ t.way = Alone
          /\ IF tracked[t.id] = Free
             THEN mailing' = NoMailing /\ UNCHANGED strange
             ELSE /\ mailing' = [mailing EXCEPT !.due = @ \ {t}]
                  /\ strange' = strange \cup MixedUp({t})
    /\ UNCHANGED <<tracked, memberOf, reportsOf, filed, groups, groupLog, writers, sweepRows,
                   removal, counted, raced, requests>>

\* A group's mail has left when logging it for a group that is gone raises.
SendGroup(g) ==
    LET members == {t \in mailing.due : t.way = g} IN
    /\ mailing.phase = "sending"
    /\ \A t \in mailing.due : t.way # Alone
    /\ members # {}
    /\ strange' = strange \cup MixedUp(members)
    /\ IF g \in groups
       THEN groupLog' = groupLog \cup {g} /\ mailing' = [mailing EXCEPT !.due = @ \ members]
       ELSE mailing' = NoMailing /\ UNCHANGED groupLog
    /\ UNCHANGED <<tracked, memberOf, reportsOf, filed, groups, writers, sweepRows, removal,
                   counted, raced, requests>>

MailingEnds ==
    /\ mailing.phase = "sending" /\ mailing.due = {}
    /\ mailing' = NoMailing
    /\ UNCHANGED <<tracked, memberOf, reportsOf, filed, groups, groupLog, writers, sweepRows,
                   removal, counted, strange, raced, requests>>

-----------------------------------------------------------------------------
LifecycleInit ==
    /\ tracked = [i \in DomainIds |-> Free]
    /\ memberOf = [i \in DomainIds |-> Alone]
    /\ reportsOf = [i \in DomainIds |-> {}]
    /\ filed = [i \in DomainIds |-> {}]
    /\ groups = {}
    /\ groupLog = {}
    /\ writers = [w \in Writers |-> Resting]
    /\ sweepRows = {}
    /\ removal = NoRemoval
    /\ mailing = NoMailing
    /\ counted = {}
    /\ strange = {}
    /\ raced = [reused |-> {}, moved |-> {}, orphaned |-> {}]
    /\ requests = 0

LifecycleNext ==
    \/ \E w \in Writers : CreateRaises(w) \/ Create(w) \/ \E n \in Names : Locate(w, n)
    \/ StoreFound
    \/ CheckFound
    \/ SweepReads
    \/ SweepChecks
    \/ Cascade
    \/ \E i \in DomainIds :
          UntrackPasses(i) \/ DeletePassesName(i) \/ \E g \in Groups \cup {Alone} : SetGroup(i, g)
    \/ \E g \in Groups : CreateGroup(g) \/ DeleteGroup(g) \/ ReadMembers(g) \/ SendGroup(g)
    \/ ReadStandalone
    \/ StartSending
    \/ SendStandalone
    \/ MailingEnds

LifecycleSpec == LifecycleInit /\ [][LifecycleNext]_lifecycleVars

-----------------------------------------------------------------------------
LifecycleTypeOK ==
    LET Target == [id : DomainIds, name : Names, way : Groups \cup {Alone}] IN
    /\ tracked \in [DomainIds -> Names \cup {Free}]
    /\ memberOf \in [DomainIds -> Groups \cup {Alone}]
    /\ reportsOf \in [DomainIds -> SUBSET Names]
    /\ filed \in [DomainIds -> SUBSET Names]
    /\ groups \subseteq Groups
    /\ groupLog \subseteq groups
    /\ writers \in [Writers -> [phase : {"idle", "missing", "found"},
                                name : Names \cup {Free}, id : 0..MaxDomainId]]
    /\ sweepRows \subseteq DomainIds \X Names
    /\ removal \in [form : {"none", "untrack", "delete"}, id : 0..MaxDomainId]
    /\ mailing \in [phase : {"idle", "reading", "sending"}, ask : SUBSET Groups,
                    due : SUBSET Target]
    /\ counted \subseteq Names
    /\ strange \subseteq DomainIds
    /\ raced \in [reused : SUBSET DomainIds, moved : SUBSET DomainIds,
                    orphaned : SUBSET Names]
    /\ requests \in 0..MaxRequests

(***************************************************************************)
(* What is stored under a domain is about that domain, through removals and *)
(* new domains with an old id, and an owner is mailed nobody else's         *)
(* reports, unless the id was given away while a thread held it.            *)
(***************************************************************************)
OwnRowsOnly ==
    /\ \A i \in DomainIds \ raced.reused : reportsOf[i] \cup filed[i] \subseteq {tracked[i]}
    /\ strange \subseteq raced.reused

(***************************************************************************)
(* A report that ingest counts (stored, or a duplicate of what is stored)   *)
(* is in the database or was removed with its domain; except when its       *)
(* domain was removed between lookup and INSERT: the foreign key's          *)
(* IntegrityError is taken for a duplicate, and the mail is never read      *)
(* again.                                                                   *)
(***************************************************************************)
CountedIsKept ==
    \A n \in counted \ raced.orphaned : \E i \in DomainIds : n \in reportsOf[i]

(***************************************************************************)
(* One run mails about a domain once, alone or with its group, unless it    *)
(* changed groups after the run's first read or its id changed hands.       *)
(***************************************************************************)
OncePerRun ==
    \A s, t \in mailing.due :
        s.id = t.id /\ s.id \notin raced.moved \cup raced.reused => s = t
=============================================================================
