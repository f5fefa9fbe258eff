----------------------------- MODULE SweepChecks -----------------------------
(***************************************************************************)
(* The checks of OutsideChecks, AccountChecks and MailChecks as web.py      *)
(* run_all_checks runs them: again and again, each swallowing its own       *)
(* failures, while the world changes under them and the user closes items.  *)
(***************************************************************************)
EXTENDS MailChecks

Checks ==
    {"dns", "subdomain", "history", "blocklist", "expiry", "browsing", "mta_sts", "report_auth",
     "lookalike", "ptr", "spf", "dkim", "missing", "postmaster", "ses", "content",
     "senders", "borrowed", "volumes", "mailgun", "rates", "queue", "campaign"}

Worlds ==
    [dns |-> DnsWorlds, subdomain |-> SubdomainWorlds, history |-> HistoryWorlds,
     blocklist |-> BlocklistWorlds,
     expiry |-> ExpiryWorlds, browsing |-> BrowsingWorlds, mta_sts |-> MtaStsWorlds,
     report_auth |-> ReportAuthWorlds, lookalike |-> LookalikeWorlds,
     ptr |-> PtrWorlds, spf |-> SpfWorlds, dkim |-> DkimWorlds, missing |-> MissingWorlds,
     postmaster |-> ComplianceWorlds, ses |-> SesWorlds, content |-> ContentWorlds,
     senders |-> SenderWorlds, borrowed |-> BorrowedWorlds, volumes |-> VolumeWorlds,
     mailgun |-> MailgunWorlds, rates |-> RateWorlds, queue |-> QueueWorlds,
     campaign |-> CampaignWorlds]

Keys ==
    [dns |-> {"dns_drift", "dns_policy_weakened"}, subdomain |-> {"subdomain"},
     history |-> {"no_report_history"},
     blocklist |-> Domains, expiry |-> {"domain_expiring_soon"},
     browsing |-> {"safe_browsing_flagged"}, mta_sts |-> {"mta_sts_broken"},
     report_auth |-> Destinations, lookalike |-> {"lookalike_domain"},
     ptr |-> Domains, spf |-> {"spf_missing", "spf_lookup_limit"},
     dkim |-> {"dkim_weak_key"}, missing |-> {"postmaster_domain_missing"},
     postmaster |-> Requirements,
     ses |-> {"ses_account_health", "ses_identity_unverified"},
     content |-> {"content_spam_risk"},
     senders |-> SenderKeys, borrowed |-> {"borrowed_sending_identity"},
     volumes |-> VolumeKeys, mailgun |-> {"mailgun_reputation"}, rates |-> RateKeys,
     queue |-> {"ses_rejected", "ses_event_backlog"}, campaign |-> CampaignKeys]

Lookups ==
    [dns |-> {"txt"}, subdomain |-> {"txt"}, history |-> {"mx"},
     blocklist |-> Zones, expiry |-> {"rdap"},
     browsing |-> {"api"}, mta_sts |-> {"txt", "policy"},
     report_auth |-> Destinations \X {"exact", "wildcard"},
     lookalike |-> Candidates \X {"NS", "MX"},
     ptr |-> {"reverse", "forward"}, spf |-> {"txt"}, dkim |-> {"txt"},
     missing |-> {"list", "create", "verify"},
     postmaster |-> {"list", "stats", "compliance"},
     ses |-> {"account", "identities"}, content |-> {"campaigns"},
     senders |-> {}, borrowed |-> {}, volumes |-> {}, mailgun |-> {"list", "stats"},
     rates |-> {}, queue |-> {"depth"}, campaign |-> {}]

Found == {"none", "lookup_failed", "available", "parked", "mail"}

Memories ==
    [c \in Checks |->
        CASE c = "lookalike" ->
                [due : BOOLEAN, found : [Candidates -> Found], ignored : SUBSET Candidates]
          [] c = "content" -> [due : BOOLEAN, scored : BOOLEAN]
          [] OTHER -> [due : BOOLEAN]]

FirstMemory ==
    [c \in Checks |->
        CASE c = "lookalike" ->
                [due |-> TRUE, found |-> [x \in Candidates |-> "none"], ignored |-> {}]
          [] c = "content" -> [due |-> TRUE, scored |-> FALSE]
          [] OTHER -> [due |-> TRUE]]

ChecksInit ==
    /\ focus \in Checks
    /\ world \in Worlds[focus]
    /\ memory = FirstMemory[focus]
    /\ items = [k \in Keys[focus] |-> "none"]
    /\ unsure = FALSE
    /\ changes = 0

\* One run of the check in focus, with these lookups unanswered.
RunWith(lost) ==
    /\ \/ /\ UNCHANGED world
          /\ \/ focus = "dns"         /\ CheckDomain(lost)
             \/ focus = "subdomain"   /\ DiscoverSubdomains(lost)
             \/ focus = "history"     /\ CheckNoReportHistory(lost)
             \/ focus = "blocklist"   /\ CheckBlocklist(lost)
             \/ focus = "expiry"      /\ CheckExpiry(lost)
             \/ focus = "browsing"    /\ CheckSafeBrowsing(lost)
             \/ focus = "mta_sts"     /\ CheckMtaSts(lost)
             \/ focus = "report_auth" /\ CheckReportAuth(lost)
             \/ focus = "lookalike"   /\ CheckLookalikes(lost, FALSE)
             \/ focus = "ptr"         /\ CheckPtr(lost)
             \/ focus = "spf"         /\ CheckSpf(lost)
             \/ focus = "dkim"        /\ CheckDkim(lost)
             \/ focus = "postmaster"  /\ CheckPostmaster(lost)
             \/ focus = "ses"         /\ CheckSesAccount(lost)
             \/ focus = "content"     /\ CheckContent(lost)
             \/ focus = "senders"     /\ CheckSenders(lost)
             \/ focus = "borrowed"    /\ CheckBorrowed(lost)
             \/ focus = "volumes"     /\ CheckVolumes(lost)
             \/ focus = "mailgun"     /\ CheckMailgun(lost)
             \/ focus = "rates"       /\ CheckRates(lost)
             \/ focus = "queue"       /\ CheckQueue(lost)
             \/ focus = "campaign"    /\ CheckCampaign(lost)
       \/ focus = "missing" /\ CheckMissing(lost)
    /\ UNCHANGED <<focus, changes>>

Run == \E lost \in SUBSET Lookups[focus] : RunWith(lost)

\* A sweep killed between the look-alike rows and their item.
RunKilled ==
    /\ focus = "lookalike"
    /\ \E lost \in SUBSET Lookups[focus] : CheckLookalikes(lost, TRUE)
    /\ UNCHANGED <<focus, world, changes>>

\* Reports are never taken back: a domain with a history keeps it.
WorldChanges ==
    /\ changes < MaxChanges
    /\ focus = "history" => ~world.reports
    /\ world' \in Worlds[focus] \ {world}
    /\ changes' = changes + 1
    /\ UNCHANGED <<focus, memory, items, unsure>>

UserCloses == \E k \in Keys[focus], status \in Closed : Resolve(k, status)

UserIgnores == \E c \in Candidates : SetIgnored(c)

ChecksNext ==
    \/ Run
    \/ RunKilled
    \/ Age
    \/ WorldChanges
    \/ UserCloses
    \/ UserIgnores

ChecksSpec == ChecksInit /\ [][ChecksNext]_checksVars

(***************************************************************************)
(* The job sweeps every six hours, the recheck window passes, lookups fail  *)
(* now and then but not for ever: a run with every answer comes again.      *)
(***************************************************************************)
ChecksFairness == WF_checksVars(Age) /\ SF_checksVars(RunWith({}))

ChecksFairSpec == ChecksSpec /\ ChecksFairness

-----------------------------------------------------------------------------
ChecksTypeOK ==
    /\ focus \in Checks
    /\ world \in Worlds[focus]
    /\ memory \in Memories[focus]
    /\ items \in [Keys[focus] -> Statuses]
    /\ unsure \in BOOLEAN
    /\ changes \in 0..MaxChanges

\* Checks whose code closes an open warning when a lookup failed: the warning
\* is lost until the next run that gets its answers.
Forgetful == {"history", "expiry", "mta_sts", "report_auth", "lookalike", "ptr", "spf", "dkim"}

\* The other finding of a check that asks two questions: its answer was there.
OwnAnswer == {"ses_account_health", "ses_rejected"}

(***************************************************************************)
(* No other check dismisses a warning on a run that lacked an answer about  *)
(* it: blocklist.py's "treating this as clean would risk silently clearing  *)
(* a real listing", and the same for the live record, Safe Browsing,        *)
(* Postmaster's verdicts and the SES account.                               *)
(***************************************************************************)
ClearedOnAnswers ==
    [][\A k \in Keys[focus] :
         IsOpen(k) /\ items'[k] = "dismissed" /\ changes' = changes
            => \/ ~unsure'
               \/ focus \in Forgetful
               \/ k \in OwnAnswer]_checksVars

(***************************************************************************)
(* Once closed, by the user or by the tool, a subdomain is not reported     *)
(* again (dns_check.py's "don't raise it again"), and a newsletter that was *)
(* scored is not reported again for the same content.                       *)
(***************************************************************************)
ClosedStaysQuiet ==
    [][\A k \in Keys[focus] :
         focus \in {"subdomain", "content"} /\ items[k] \in Closed
            => items'[k] # "open"]_checksVars

\* A domain has one story about its SPF record: missing, or too many lookups.
OneSpfStory ==
    focus = "spf" => ~(IsOpen("spf_missing") /\ IsOpen("spf_lookup_limit"))

(***************************************************************************)
(* The two tiers of a configuration set's rate, "watch" and "warn", are one *)
(* story as well: the milder item is gone when the graver one is open, and  *)
(* the other way round, as the rate moves up and down between drains.       *)
(***************************************************************************)
OneRateTier ==
    focus = "rates" => ~(IsOpen("ses_reputation") /\ IsOpen("ses_reputation_watch"))

\* A look-alike marked as known is not counted: with all of them marked there
\* is no item, whatever is scanned, fails or is killed.
KnownLookalikesQuiet ==
    focus = "lookalike" /\ IsOpen("lookalike_domain") => memory.ignored # Candidates

\* What the world as it is now calls a problem, per key.
Problem(k) ==
    CASE focus = "dns" ->
            IF k = "dns_drift"
            THEN world.txt # "one" \/ (/\ world.expected \notin {NoBaseline, world.live}
                                       /\ ~Weaker(world.live, world.expected))
            ELSE world.txt = "one" /\ world.expected # NoBaseline
                 /\ Weaker(world.live, world.expected)
      [] focus = "history"     -> ~world.reports
      [] focus = "blocklist"   -> world.listed # {} /\ k \in world.senders
      [] focus = "expiry"      -> world.soon
      [] focus = "browsing"    -> world.flagged
      [] focus = "mta_sts"     -> world.record /\ ~world.valid
      [] focus = "report_auth" -> k \in world.names /\ world.record[k] = "absent"
      [] focus = "lookalike"   -> \E c \in Candidates \ memory.ignored : world[c] = "mail"
      [] focus = "ptr"         -> world.ptr # "confirmed" /\ k \in world.senders
      [] focus = "spf"         -> world.scope /\ world.record =
                                    IF k = "spf_missing" THEN "missing" ELSE "over_limit"
      [] focus = "dkim"        -> world.scope /\ world.key # "ok"
      [] focus = "missing"     -> world.volume /\ ~world.listed
      [] focus = "postmaster"  -> world.listed /\ Flagged(k, TRUE)
      [] focus = "ses"         -> world.used /\ IF k = "ses_account_health" THEN ~world.healthy
                                                ELSE world.identity = "unverified"
      [] focus = "senders"     -> k \in SenderFindings
      [] focus = "borrowed"    -> Borrows
      [] focus = "volumes"     -> k \in VolumeFindings
      [] focus = "mailgun"     -> Elevated
      [] focus = "rates"       -> k \in RateRaises
      [] focus = "queue"       -> IF k = "ses_rejected" THEN world.rejected ELSE world.backlog
      [] focus = "campaign"    -> HasIssue(k)
      [] OTHER -> FALSE

\* Nothing is looked at any more: what is open about it stays open.
OutOfSight(k) ==
    CASE focus = "report_auth" -> ~world.rua
      [] focus = "dkim"        -> ~world.scope
      [] focus \in {"postmaster", "mailgun"} -> ~world.listed
      [] focus = "campaign"    -> ~world.active
      \* nothing delivered, all of it bounced: no rate is raised
      [] focus = "rates"       -> world.delivered = 0 /\ world.bounced > 0
      [] focus = "ses"         -> ~world.used \/ (k = "ses_identity_unverified"
                                                    /\ world.identity = "absent")
      \* an open drift does not close a weakening, nor an unreadable record
      [] focus = "dns"         -> world.txt # "one" /\ k = "dns_policy_weakened"
      [] focus = "ptr"         -> world.ptr # "confirmed" /\ k \notin world.senders
      [] focus = "blocklist"   -> world.listed # {} /\ k \notin world.senders
      [] OTHER -> FALSE

(***************************************************************************)
(* However often lookups fail, items are dismissed on failure or closed by  *)
(* the user: again and again the open items are exactly the problems the    *)
(* world has.  Nothing real stays unreported for ever and nothing repaired  *)
(* stays open, except where the code has stopped looking (OutOfSight) and   *)
(* for the two checks that report a finding only once (ClosedStaysQuiet).   *)
(***************************************************************************)
ItemsFollowTheWorld ==
    []<>(focus \notin {"subdomain", "content"} =>
            \A k \in Keys[focus] : OutOfSight(k) \/ (IsOpen(k) <=> Problem(k)))
=============================================================================
