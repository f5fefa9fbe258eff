---------------------------- MODULE OutsideChecks ----------------------------
(***************************************************************************)
(* The checks of a sweep that ask DNS and the web about a domain: its live  *)
(* DMARC record and sending subdomains (dns_check.py), blocklist.py,        *)
(* domain_expiry.py, safe_browsing.py, mta_sts.py, report_authorization.py  *)
(* and lookalike.py; and check_no_report_history of analysis.py.            *)
(*                                                                         *)
(* One subject per check.  Each action is one run of the check over it;     *)
(* lost is the set of its lookups that got no answer (a dig that failed or  *)
(* timed out, an HTTP error).  The answers themselves are in world.         *)
(***************************************************************************)
EXTENDS ActionItems, Integers

CONSTANTS
    Zones,         \* DNSBL zones
    Domains,       \* tracked domains that send from one IP
    Destinations,  \* external domains an rua= may name
    Candidates     \* look-alikes of one root domain

\* ------------------------------------------------ the live DMARC record ----
\* p by its place in _POLICY_STRENGTH (-1: not in it), pct after its default.
Policies == [p : {-1, 0, 2}, pct : {50, 100}]
NoBaseline == [p |-> -1, pct |-> 0]

\* expected: an open manual_log run, else the current report run, else none.
DnsWorlds ==
    [txt : {"missing", "multiple"}, live : {NoBaseline}, expected : {NoBaseline}]
    \cup [txt : {"one"}, live : Policies, expected : Policies \cup {NoBaseline}]

Weaker(a, b) == a.p < b.p \/ (a.p = b.p /\ a.pct < b.pct)

DnsVerdict(lost) ==
    IF lost # {} THEN "lookup_failed"
    ELSE IF world.txt # "one" THEN world.txt
    ELSE IF world.expected = NoBaseline THEN "no baseline"
    ELSE IF world.live = world.expected THEN "matches"
    ELSE IF Weaker(world.live, world.expected) THEN "weakened" ELSE "differs"

\* check_domain: never gated.  Only a readable record closes anything.
CheckDomain(lost) ==
    LET verdict == DnsVerdict(lost) IN
    /\ CASE verdict = "weakened" -> Settle({"dns_policy_weakened"}, {"dns_drift"})
         [] verdict = "differs"  -> Settle({"dns_drift"}, {"dns_policy_weakened"})
         [] verdict \in {"matches", "no baseline"} ->
                Settle({}, {"dns_drift", "dns_policy_weakened"})
         [] verdict \in {"lookup_failed", "missing", "multiple"} ->
                Settle({"dns_drift"}, {})
    /\ unsure' = (lost # {})
    /\ UNCHANGED memory

\* -------------------------------------------- untracked sending subdomain ----
SubdomainWorlds == [published : BOOLEAN, covered : BOOLEAN]

\* A bug: items that were closed are not looked for.
IsCandidateAnyway == ~world.covered

\* A candidate is looked up only while it is neither tracked nor covered and
\* no item about it was ever closed, by the user or by this check itself.
IsCandidate == ~world.covered /\ items["subdomain"] \notin Closed

DiscoverSubdomains(lost) ==
    /\ IF world.covered THEN Settle({}, {"subdomain"})
       ELSE IF IsCandidate /\ lost = {} /\ world.published THEN Settle({"subdomain"}, {})
       ELSE UNCHANGED items
    /\ unsure' = (IsCandidate /\ lost # {})
    /\ UNCHANGED memory

\* ------------------------------------------- a domain without any report ----
HistoryWorlds == [reports : BOOLEAN]

\* run_analysis asks DNS for a reason why nothing was ever reported.  Without
\* an answer about MX there is no finding, and no finding closes the item.
CheckNoReportHistory(lost) ==
    /\ IF world.reports \/ "mx" \in lost
       THEN Settle({}, {"no_report_history"})
       ELSE Settle({"no_report_history"}, {})
    /\ unsure' = (~world.reports /\ "mx" \in lost)
    /\ UNCHANGED memory

\* ------------------------------------------------------------- blocklists ----
BlocklistWorlds == [listed : SUBSET Zones, senders : SUBSET Domains]

\* A bug: one zone's answer is enough for a clean bill.
BlocklistVerdictOfAny(lost) ==
    IF world.listed \ lost # {} THEN "listed"
    ELSE IF lost = Zones THEN "lookup_failed" ELSE "clean"

\* check_ip: a listing anywhere counts; "clean" takes an answer of every zone.
BlocklistVerdict(lost) ==
    IF world.listed \ lost # {} THEN "listed"
    ELSE IF lost # {} THEN "lookup_failed" ELSE "clean"

\* A bug: only the senders of today, so an old item is never verified again.
BlocklistTargetsNow == world.senders

\* Eligible senders, and whoever has an open item about the IP.
BlocklistTargets == world.senders \cup {d \in Domains : IsOpen(d)}

CheckBlocklist(lost) ==
    LET verdict == BlocklistVerdict(lost) IN
    /\ memory.due
    /\ BlocklistTargets # {}
    /\ CASE verdict = "listed"        -> Settle(BlocklistTargets, {})
         [] verdict = "clean"         -> Settle({}, Domains)
         [] verdict = "lookup_failed" -> UNCHANGED items
    /\ unsure' = (lost # {})
    /\ Checked

\* ---------------------------------------------------------- domain expiry ----
ExpiryWorlds == [soon : BOOLEAN]

\* No expiry date, so no warning: a failed RDAP lookup dismisses like a renewal.
CheckExpiry(lost) ==
    /\ memory.due
    /\ IF lost = {} /\ world.soon
       THEN Settle({"domain_expiring_soon"}, {})
       ELSE Settle({}, {"domain_expiring_soon"})
    /\ unsure' = (lost # {})
    /\ Checked

\* ---------------------------------------------------------- Safe Browsing ----
BrowsingWorlds == [flagged : BOOLEAN]

\* A failed lookup writes its row, so it also waits for the recheck window.
CheckSafeBrowsing(lost) ==
    /\ memory.due
    /\ IF lost # {} THEN UNCHANGED items
       ELSE IF world.flagged THEN Settle({"safe_browsing_flagged"}, {})
       ELSE Settle({}, {"safe_browsing_flagged"})
    /\ unsure' = (lost # {})
    /\ Checked

\* ---------------------------------------------------------------- MTA-STS ----
MtaStsWorlds == [record : BOOLEAN, valid : BOOLEAN]

\* check_mta_sts: no answer to the TXT lookup reads like no record, and no
\* answer to the policy fetch like a dangling one.
MtaStsVerdict(lost) ==
    IF "txt" \in lost \/ ~world.record THEN "not_set_up"
    ELSE IF "policy" \in lost \/ ~world.valid THEN "broken" ELSE "ok"

CheckMtaSts(lost) ==
    /\ memory.due
    /\ IF MtaStsVerdict(lost) = "broken"
       THEN Settle({"mta_sts_broken"}, {})
       ELSE Settle({}, {"mta_sts_broken"})
    /\ unsure' = (lost # {})
    /\ Checked

\* --------------------------------------------------- report authorization ----
\* rua: the newest stored record has an rua=; names: its external destinations.
ReportAuthWorlds ==
    {w \in [rua : BOOLEAN, names : SUBSET Destinations,
            record : [Destinations -> {"exact", "wildcard", "absent"}]] :
        ~w.rua => w.names = {}}

\* check_authorization asks for the exact name, then for the wildcard.
Authorization(d, lost) ==
    IF <<d, "exact">> \in lost THEN "lookup_failed"
    ELSE IF world.record[d] = "exact" THEN "authorized"
    ELSE IF <<d, "wildcard">> \in lost THEN "lookup_failed"
    ELSE IF world.record[d] = "wildcard" THEN "authorized" ELSE "missing"

\* _apply: everything that is not known to be missing is closed.
CheckReportAuth(lost) ==
    LET missing == {d \in world.names : Authorization(d, lost) = "missing"} IN
    /\ world.rua
    /\ Settle(missing, Destinations \ missing)
    /\ unsure' = (\E d \in world.names : Authorization(d, lost) = "lookup_failed")
    /\ UNCHANGED memory

\* ------------------------------------------------------ look-alike domains ----
LookalikeWorlds == [Candidates -> {"available", "parked", "mail"}]

\* probe: NS, then MX; an MX lookup that fails reads like no mail server.
Probe(c, lost) ==
    IF <<c, "NS">> \in lost THEN "lookup_failed"
    ELSE IF world[c] = "available" THEN "available"
    ELSE IF <<c, "MX">> \in lost THEN "parked" ELSE world[c]

\* _store keeps the flag the user has set on a row.
Store(found) == [memory EXCEPT !.found = found]

\* A bug: the user's mark is forgotten when the item is made.
MailCapableAny(m) == {c \in Candidates : m.found[c] = "mail"}

\* _apply_action_item: registered, able to mail, and not marked as known.
MailCapable(m) == {c \in Candidates : m.found[c] = "mail"} \ m.ignored

ApplyLookalike(m) ==
    IF MailCapable(m) # {} THEN Settle({"lookalike_domain"}, {})
    ELSE Settle({}, {"lookalike_domain"})

\* A kill between the two commits leaves the rows without their item.
CheckLookalikes(lost, killed) ==
    LET m == Store([c \in Candidates |-> Probe(c, lost)]) IN
    /\ memory.due
    /\ memory' = [m EXCEPT !.due = FALSE]
    /\ IF killed THEN UNCHANGED items ELSE ApplyLookalike(m)
    /\ unsure' = (lost # {} \/ killed)

\* _set_lookalike_ignored re-derives the item at once.
SetIgnored(c) ==
    LET m == [memory EXCEPT !.ignored = IF c \in @ THEN @ \ {c} ELSE @ \cup {c}] IN
    /\ focus = "lookalike"
    /\ changes < MaxChanges
    /\ memory.found[c] \in {"parked", "mail"}
    /\ memory' = m
    /\ ApplyLookalike(m)
    /\ changes' = changes + 1
    /\ UNCHANGED <<focus, world, unsure>>
=============================================================================
