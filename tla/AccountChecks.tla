---------------------------- MODULE AccountChecks ----------------------------
(***************************************************************************)
(* The checks of a sweep about senders and accounts: reverse DNS, SPF and   *)
(* DKIM (compliance.py), Google Postmaster (postmaster.py), the SES account *)
(* (ses_account.py) and newsletter content (listmonk.py).  Same conventions *)
(* as in OutsideChecks.                                                     *)
(***************************************************************************)
EXTENDS OutsideChecks

\* ------------------------------------------------------------ reverse DNS ----
\* senders: eligible_known_senders, at or above the volume floor; failing:
\* low_volume_failing_senders, below it.
PtrWorlds ==
    {w \in [ptr : {"confirmed", "ptr_missing", "mismatch"},
            senders : SUBSET Domains, failing : SUBSET Domains] :
        w.senders \cap w.failing = {}}

\* check_ptr: a forward lookup that fails reads like one that disagrees.
PtrVerdict(lost) ==
    IF "reverse" \in lost THEN "lookup_failed"
    ELSE IF world.ptr = "ptr_missing" THEN "ptr_missing"
    ELSE IF "forward" \in lost THEN "mismatch" ELSE world.ptr

PtrHolders == {d \in Domains : IsOpen(d)}

\* _run_ptr: a low-volume failing sender is looked up, but an item is made
\* only for an IP that some domain sends from (or has an item about), and
\* then under every domain the IP was looked up for.
CheckPtr(lost) ==
    LET targets  == world.senders \cup world.failing \cup PtrHolders
        eligible == world.senders \cup PtrHolders # {}
    IN
    /\ memory.due
    /\ targets # {}
    /\ IF ~eligible THEN UNCHANGED items
       ELSE IF PtrVerdict(lost) \in {"ptr_missing", "mismatch"} THEN Settle(targets, {})
       ELSE Settle({}, Domains)
    /\ unsure' = (lost # {})
    /\ Checked

\* -------------------------------------------------------------------- SPF ----
\* What a record and all it includes add up to (_spf_tree); one lookup that is
\* lost anywhere below it makes the whole unknown.
SpfWorlds == [scope : BOOLEAN, record : {"ok", "missing", "over_limit"}]

SpfKeys == {"spf_missing", "spf_lookup_limit"}

SpfRaises(lost) ==
    IF lost # {} THEN {}
    ELSE CASE world.record = "missing"    -> {"spf_missing"}
           [] world.record = "over_limit" -> {"spf_lookup_limit"}
           [] world.record = "ok"         -> {}

\* A bug: raising one finding leaves the other one open.
SpfClearsQuietly(lost) == IF SpfRaises(lost) = {} THEN SpfKeys ELSE {}

SpfClears(lost) == SpfKeys \ SpfRaises(lost)

\* _run_spf: out of scope, the items are retired without a lookup; in scope,
\* whatever is not raised is closed.
CheckSpf(lost) ==
    \/ /\ ~world.scope
       /\ Settle({}, SpfKeys)
       /\ unsure' = FALSE
       /\ UNCHANGED memory
    \/ /\ world.scope
       /\ memory.due
       /\ Settle(SpfRaises(lost), SpfClears(lost))
       /\ unsure' = (lost # {})
       /\ Checked

\* ------------------------------------------------------------------- DKIM ----
DkimWorlds == [scope : BOOLEAN, key : {"ok", "weak", "missing"}]

\* _run_dkim: a selector below the volume bar is not looked at any more, and
\* its open item is neither verified nor retired.
CheckDkim(lost) ==
    /\ world.scope
    /\ memory.due
    /\ IF lost = {} /\ world.key \in {"weak", "missing"}
       THEN Settle({"dkim_weak_key"}, {})
       ELSE Settle({}, {"dkim_weak_key"})
    /\ unsure' = (lost # {})
    /\ Checked

\* ------------------------------------------ domains missing at Postmaster ----
\* listed: VERIFIED on the account (list_verified_domains); proven: Google holds
\* an ownership proof.
MissingWorlds == [volume : BOOLEAN, listed : BOOLEAN, proven : BOOLEAN]

\* _check_missing_domains registers and verifies the domain by itself.
Verifies(lost) ==
    world.volume /\ ~world.listed /\ world.proven /\ {"create", "verify"} \cap lost = {}

CheckMissing(lost) ==
    /\ "list" \notin lost
    /\ IF Verifies(lost)
       THEN /\ items' = [k \in DOMAIN items |-> IF IsOpen(k) THEN "done" ELSE items[k]]
            /\ world' = [world EXCEPT !.listed = TRUE]
       ELSE /\ IF world.volume /\ ~world.listed
               THEN Settle({"postmaster_domain_missing"}, {})
               ELSE Settle({}, {"postmaster_domain_missing"})
            /\ UNCHANGED world
    /\ unsure' = (world.volume /\ ~world.listed /\ lost # {})
    /\ UNCHANGED memory

\* -------------------------------------------------- Postmaster compliance ----
SpamRate == "USER_REPORTED_SPAM_RATE"
Requirements == {SpamRate, "DELIVERABILITY"}

\* needsWork: the verdicts NEEDS_WORK; low: the measured spam rate is at most
\* RECOMMENDED_SPAM_RATE_CEILING; thin: the reason is MESSAGE_VOLUME_LOW.
ComplianceWorlds ==
    [listed : BOOLEAN, needsWork : SUBSET Requirements, low : BOOLEAN,
     thin : SUBSET Requirements]

Flagged(r, measured) ==
    /\ r \in world.needsWork
    /\ ~(r = SpamRate /\ measured /\ world.low)
    /\ r \notin world.thin

\* run_postmaster_checks: the stats row alone makes the domain fresh, so a
\* compliance answer that failed beside it is asked for a whole window later.
CheckPostmaster(lost) ==
    LET flagged == {r \in Requirements : Flagged(r, "stats" \notin lost)} IN
    /\ "list" \notin lost
    /\ world.listed
    /\ memory.due
    /\ IF "compliance" \in lost THEN UNCHANGED items
       ELSE Settle(flagged, Requirements \ flagged)
    /\ unsure' = ("compliance" \in lost)
    /\ IF "stats" \in lost THEN UNCHANGED memory ELSE Checked

\* ------------------------------------------------------------ SES account ----
SesWorlds ==
    [used : BOOLEAN, healthy : BOOLEAN, identity : {"absent", "verified", "unverified"}]

\* run_ses_account_checks: without get_account nothing is written at all; an
\* identity that is not in the list is left as it was.
CheckSesAccount(lost) ==
    LET health   == {"ses_account_health"}
        identity == IF "identities" \in lost \/ world.identity = "absent"
                    THEN {} ELSE {"ses_identity_unverified"}
        problems == (IF world.healthy THEN {} ELSE health)
                    \cup (IF world.identity = "unverified" THEN identity ELSE {})
    IN
    /\ world.used
    /\ memory.due
    /\ "account" \notin lost
    /\ Settle(problems, (health \cup identity) \ problems)
    /\ unsure' = ("identities" \in lost)
    /\ Checked

\* ----------------------------------------------------- newsletter content ----
ContentWorlds == [known : BOOLEAN, risky : BOOLEAN]

\* run_listmonk_content_sync: a body that is stored is not scored again.
CheckContent(lost) ==
    /\ lost = {}
    /\ world.known
    /\ ~memory.scored
    /\ memory' = [memory EXCEPT !.scored = TRUE]
    /\ IF world.risky THEN Settle({"content_spam_risk"}, {})
       ELSE Settle({}, {"content_spam_risk"})
    /\ unsure' = FALSE
=============================================================================
