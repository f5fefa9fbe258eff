-------------------------- MODULE SweepChecksProofs --------------------------
(***************************************************************************)
(* What SweepChecks promises, for any zones, domains, destinations,         *)
(* look-alikes and any number of changes.                                   *)
(***************************************************************************)
EXTENDS SweepChecks, TLAPS

\* Every run settles its items or leaves them: Settle keeps their type, raises
\* what it is told to, and dismisses open items among the cleared ones only.
LEMMA SettleEffect ==
    ASSUME NEW K, items \in [K -> Statuses], NEW raised, NEW cleared,
           Settle(raised, cleared)
    PROVE  /\ items' \in [K -> Statuses]
           /\ \A k \in K :
                /\ items'[k] = "open" => k \in raised \/ items[k] = "open"
                /\ items[k] = "open" /\ items'[k] = "dismissed"
                     => k \in cleared /\ k \notin raised
                /\ k \in cleared /\ k \notin raised => items'[k] # "open"
  BY DEF Settle, Dismiss, IsOpen, Statuses

\* A live record gets one of seven verdicts; any but lookup_failed has its answer.
LEMMA DnsVerdicts ==
    ASSUME ChecksTypeOK, focus = "dns", NEW lost
    PROVE  /\ DnsVerdict(lost) \in {"lookup_failed", "missing", "multiple", "no baseline",
                                    "matches", "weakened", "differs"}
           /\ lost # {} => DnsVerdict(lost) = "lookup_failed"
  <1>1. world \in DnsWorlds  BY DEF ChecksTypeOK, Worlds
  <1>2. world.txt \in {"missing", "multiple", "one"}  BY <1>1 DEF DnsWorlds
  <1> QED BY <1>2 DEF DnsVerdict

\* One run of the check in focus changes nothing but its items, its memory,
\* and (Postmaster registering a domain) the world.
LEMMA ItemsTyped ==
    ASSUME ChecksTypeOK, NEW lost, RunWith(lost)
    PROVE  items' \in [Keys[focus] -> Statuses]
  <1> DEFINE K == Keys[focus]
  <1>0. items \in [K -> Statuses]  BY DEF ChecksTypeOK
  <1>1. (\E r, c : Settle(r, c)) => items' \in [K -> Statuses]
    BY <1>0, SettleEffect
  <1>2. UNCHANGED items => items' \in [K -> Statuses]  BY <1>0
  <1>3. CASE focus = "dns" /\ CheckDomain(lost)
    BY <1>3, <1>1, DnsVerdicts DEF CheckDomain
  <1>4. CASE DiscoverSubdomains(lost)
    BY <1>4, <1>1, <1>2 DEF DiscoverSubdomains
  <1>5. CASE CheckBlocklist(lost)
    BY <1>5, <1>1, <1>2 DEF CheckBlocklist, BlocklistVerdict
  <1>6. CASE CheckExpiry(lost) \/ CheckNoReportHistory(lost)
    BY <1>6, <1>1, <1>2 DEF CheckExpiry, CheckNoReportHistory
  <1>7. CASE CheckSafeBrowsing(lost)
    BY <1>7, <1>1, <1>2 DEF CheckSafeBrowsing
  <1>8. CASE CheckMtaSts(lost) \/ CheckReportAuth(lost)
    BY <1>8, <1>1, <1>2 DEF CheckMtaSts, CheckReportAuth
  <1>9. CASE CheckLookalikes(lost, FALSE)
    BY <1>9, <1>1, <1>2 DEF CheckLookalikes, ApplyLookalike
  <1>10. CASE CheckPtr(lost) \/ CheckSpf(lost) \/ CheckDkim(lost)
    BY <1>10, <1>1, <1>2 DEF CheckPtr, CheckSpf, CheckDkim
  <1>11. CASE CheckMissing(lost)
    BY <1>11, <1>0, <1>1 DEF CheckMissing, Statuses
  <1>12. CASE CheckPostmaster(lost) \/ CheckSesAccount(lost) \/ CheckContent(lost)
    BY <1>12, <1>1, <1>2 DEF CheckPostmaster, CheckSesAccount, CheckContent
  <1>13. CASE CheckSenders(lost) \/ CheckBorrowed(lost) \/ CheckVolumes(lost)
    BY <1>13, <1>1 DEF CheckSenders, CheckBorrowed, CheckVolumes, RaiseOrClear
  <1>14. CASE CheckMailgun(lost) \/ CheckCampaign(lost)
    BY <1>14, <1>1, <1>2 DEF CheckMailgun, CheckCampaign, RaiseOrClear
  <1>15. CASE CheckRates(lost) \/ CheckQueue(lost)
    BY <1>15, <1>1 DEF CheckRates, CheckQueue
  <1> QED
    BY <1>3, <1>4, <1>5, <1>6, <1>7, <1>8, <1>9, <1>10, <1>11, <1>12, <1>13, <1>14, <1>15
    DEF RunWith

\* What a run leaves in a check's memory is a memory of that check.
LEMMA MemoryTyped ==
    ASSUME ChecksTypeOK, NEW lost, RunWith(lost) \/ (RunKilled /\ CheckLookalikes(lost, TRUE))
    PROVE  memory' \in Memories[focus]
  <1>0. focus \in Checks /\ memory \in Memories[focus]  BY DEF ChecksTypeOK
  <1>1. CASE UNCHANGED memory
    BY <1>0, <1>1
  <1>2. CASE focus \notin {"lookalike", "content"} /\ Checked
    <2>1. memory \in [due : BOOLEAN]  BY <1>0, <1>2 DEF Memories, Checks
    <2>2. memory' \in [due : BOOLEAN]  BY <2>1, <1>2 DEF Checked
    <2> QED BY <2>2, <1>0, <1>2 DEF Memories, Checks
  <1>3. CASE focus = "content" /\ CheckContent(lost)
    <2>1. memory \in [due : BOOLEAN, scored : BOOLEAN]  BY <1>0, <1>3 DEF Memories, Checks
    <2>2. memory' \in [due : BOOLEAN, scored : BOOLEAN]  BY <2>1, <1>3 DEF CheckContent
    <2> QED BY <2>2, <1>3 DEF Memories, Checks
  <1>4. CASE focus = "lookalike"
               /\ (CheckLookalikes(lost, FALSE) \/ CheckLookalikes(lost, TRUE))
    <2> DEFINE R == [due : BOOLEAN, found : [Candidates -> Found], ignored : SUBSET Candidates]
               f == [c \in Candidates |-> Probe(c, lost)]
    <2>1. memory \in R  BY <1>0, <1>4 DEF Memories, Checks
    <2>2. world \in [Candidates -> {"available", "parked", "mail"}]
      BY <1>4 DEF ChecksTypeOK, Worlds, LookalikeWorlds
    <2>3. f \in [Candidates -> Found]  BY <2>2 DEF Probe, Found
    <2>4. memory' = [Store(f) EXCEPT !.due = FALSE]  BY <1>4 DEF CheckLookalikes
    <2>5. memory' \in R  BY <2>1, <2>3, <2>4 DEF Store
    <2> QED BY <2>5, <1>4 DEF Memories, Checks
  <1> QED
    BY <1>0, <1>1, <1>2, <1>3, <1>4
    DEF RunWith, RunKilled, CheckDomain, DiscoverSubdomains, CheckNoReportHistory,
        CheckBlocklist, CheckExpiry, CheckSafeBrowsing, CheckMtaSts, CheckReportAuth, CheckPtr,
        CheckSpf, CheckDkim, CheckMissing, CheckPostmaster, CheckSesAccount, CheckSenders,
        CheckBorrowed, CheckVolumes, CheckMailgun, CheckRates, CheckQueue, CheckCampaign

\* A run keeps a truth value of what it lacked.
LEMMA UnsureTyped ==
    ASSUME NEW lost, RunWith(lost) \/ CheckLookalikes(lost, TRUE)
    PROVE  unsure' \in BOOLEAN
  <1>1. CASE CheckDomain(lost) \/ DiscoverSubdomains(lost) \/ CheckNoReportHistory(lost)
               \/ CheckBlocklist(lost)
    BY <1>1 DEF CheckDomain, DiscoverSubdomains, CheckNoReportHistory, CheckBlocklist
  <1>2. CASE CheckExpiry(lost) \/ CheckSafeBrowsing(lost) \/ CheckMtaSts(lost)
               \/ CheckReportAuth(lost)
    BY <1>2 DEF CheckExpiry, CheckSafeBrowsing, CheckMtaSts, CheckReportAuth
  <1>3. CASE CheckLookalikes(lost, FALSE) \/ CheckLookalikes(lost, TRUE)
    BY <1>3 DEF CheckLookalikes
  <1>4. CASE CheckPtr(lost) \/ CheckSpf(lost) \/ CheckDkim(lost) \/ CheckMissing(lost)
    BY <1>4 DEF CheckPtr, CheckSpf, CheckDkim, CheckMissing
  <1>5. CASE CheckPostmaster(lost)
    BY <1>5 DEF CheckPostmaster
  <1>6. CASE CheckSesAccount(lost)
    <2>1. unsure' = ("identities" \in lost)  BY <1>6 DEF CheckSesAccount
    <2> QED BY <2>1
  <1>7. CASE CheckContent(lost)
    BY <1>7 DEF CheckContent
  <1>8. CASE CheckSenders(lost) \/ CheckBorrowed(lost) \/ CheckVolumes(lost)
               \/ CheckRates(lost) \/ CheckCampaign(lost)
    BY <1>8 DEF CheckSenders, CheckBorrowed, CheckVolumes, CheckRates, CheckCampaign
  <1>9. CASE CheckMailgun(lost)
    <2>1. unsure' = ("stats" \in lost)  BY <1>9 DEF CheckMailgun
    <2> QED BY <2>1
  <1>10. CASE CheckQueue(lost)
    BY <1>10 DEF CheckQueue
  <1> QED BY <1>1, <1>2, <1>3, <1>4, <1>5, <1>6, <1>7, <1>8, <1>9, <1>10 DEF RunWith

\* The only run that changes the world registers a domain with Postmaster.
LEMMA WorldTyped ==
    ASSUME ChecksTypeOK, NEW lost, RunWith(lost)
    PROVE  world' \in Worlds[focus]
  <1>1. CASE UNCHANGED world  BY <1>1 DEF ChecksTypeOK
  <1>2. CASE focus = "missing" /\ CheckMissing(lost)
    <2>1. world \in MissingWorlds  BY <1>2 DEF ChecksTypeOK, Worlds
    <2>2. world' \in MissingWorlds  BY <1>2, <2>1 DEF CheckMissing, MissingWorlds
    <2> QED BY <1>2, <2>2 DEF Worlds
  <1> QED BY <1>1, <1>2 DEF RunWith

\* Types are kept by every step of every check, whatever the instance.
THEOREM Typing == ChecksSpec => []ChecksTypeOK
  <1>1. ChecksInit => ChecksTypeOK
    <2> SUFFICES ASSUME ChecksInit PROVE ChecksTypeOK  OBVIOUS
    <2>1. memory \in Memories[focus]
      BY DEF ChecksInit, FirstMemory, Memories, Checks, Found
    <2>2. items \in [Keys[focus] -> Statuses]  BY DEF ChecksInit, Statuses
    <2>3. changes \in 0..MaxChanges  BY ChangesAssumption DEF ChecksInit
    <2> QED BY <2>1, <2>2, <2>3 DEF ChecksInit, ChecksTypeOK
  <1>2. ChecksTypeOK /\ [ChecksNext]_checksVars => ChecksTypeOK'
    <2> SUFFICES ASSUME ChecksTypeOK, [ChecksNext]_checksVars PROVE ChecksTypeOK'  OBVIOUS
    <2> USE ChangesAssumption
    <2>1. CASE Run
      <3>1. PICK lost \in SUBSET Lookups[focus] : RunWith(lost)  BY <2>1 DEF Run
      <3>2. UNCHANGED <<focus, changes>>  BY <3>1 DEF RunWith
      <3> QED BY <3>1, <3>2, ItemsTyped, MemoryTyped, UnsureTyped, WorldTyped DEF ChecksTypeOK
    <2>2. CASE RunKilled
      <3>1. PICK lost \in SUBSET Lookups[focus] : CheckLookalikes(lost, TRUE)
        BY <2>2 DEF RunKilled
      <3>2. UNCHANGED <<focus, world, changes, items>>
        BY <2>2, <3>1 DEF RunKilled, CheckLookalikes
      <3>3. memory' \in Memories[focus]  BY <2>2, <3>1, MemoryTyped
      <3>4. unsure' \in BOOLEAN  BY <3>1, UnsureTyped
      <3> QED BY <3>2, <3>3, <3>4 DEF ChecksTypeOK
    <2>3. CASE Age
      <3>1. memory' \in Memories[focus]
        <4>1. focus \in Checks /\ memory \in Memories[focus]  BY DEF ChecksTypeOK
        <4>2. CASE focus \notin {"lookalike", "content"}
          <5>1. memory' \in [due : BOOLEAN]  BY <4>1, <4>2, <2>3 DEF Age, Memories
          <5> QED BY <4>1, <4>2, <5>1 DEF Memories
        <4>3. CASE focus = "lookalike"
          <5> DEFINE R == [due : BOOLEAN, found : [Candidates -> Found],
                           ignored : SUBSET Candidates]
          <5>1. memory \in R  BY <4>1, <4>3 DEF Memories
          <5>2. memory' \in R  BY <5>1, <2>3 DEF Age
          <5> QED BY <4>1, <4>3, <5>2 DEF Memories
        <4>4. CASE focus = "content"
          <5>1. memory' \in [due : BOOLEAN, scored : BOOLEAN]
            BY <4>1, <4>4, <2>3 DEF Age, Memories
          <5> QED BY <4>1, <4>4, <5>1 DEF Memories
        <4> QED BY <4>2, <4>3, <4>4
      <3> QED BY <2>3, <3>1 DEF Age, ChecksTypeOK
    <2>4. CASE WorldChanges
      BY <2>4 DEF WorldChanges, ChecksTypeOK
    <2>5. CASE UserCloses
      BY <2>5 DEF UserCloses, Resolve, ChecksTypeOK, Closed, Statuses
    <2>6. CASE UserIgnores
      <3>1. PICK c \in Candidates : SetIgnored(c)  BY <2>6 DEF UserIgnores
      <3> DEFINE R == [due : BOOLEAN, found : [Candidates -> Found],
                       ignored : SUBSET Candidates]
      <3>2. focus = "lookalike"  BY <3>1 DEF SetIgnored
      <3>3. memory \in R  BY <3>2 DEF ChecksTypeOK, Memories, Checks
      <3>4. memory' \in R  BY <3>1, <3>3 DEF SetIgnored
      <3>5. memory' \in Memories[focus]  BY <3>2, <3>4 DEF Memories, Checks
      <3>6. \E r, d : Settle(r, d)  BY <3>1 DEF SetIgnored, ApplyLookalike
      <3>7. items' \in [Keys[focus] -> Statuses]  BY <3>6, SettleEffect DEF ChecksTypeOK
      <3> QED BY <3>1, <3>5, <3>7 DEF SetIgnored, ChecksTypeOK
    <2>7. CASE UNCHANGED checksVars
      BY <2>7 DEF checksVars, ChecksTypeOK
    <2> QED BY <2>1, <2>2, <2>3, <2>4, <2>5, <2>6, <2>7 DEF ChecksNext
  <1> QED BY <1>1, <1>2, PTL DEF ChecksSpec

\* ------------------------------------------------------ one story about SPF ----
\* A run of the SPF check leaves at most one of its two items open.
LEMMA SpfRunKeepsOneStory ==
    ASSUME ChecksTypeOK, focus = "spf", OneSpfStory, NEW lost, CheckSpf(lost)
    PROVE  OneSpfStory'
  <1>0. items \in [SpfKeys -> Statuses] /\ world \in SpfWorlds
    BY DEF ChecksTypeOK, Keys, Worlds, SpfKeys
  <1>1. CASE ~world.scope
    BY <1>0, <1>1, SettleEffect DEF CheckSpf, OneSpfStory, SpfKeys, IsOpen
  <1>2. CASE world.scope
    <2> DEFINE raised == SpfRaises(lost)
    <2>1. Settle(raised, SpfKeys \ raised)  BY <1>2 DEF CheckSpf, SpfClears
    <2>2. raised \in {{}, {"spf_missing"}, {"spf_lookup_limit"}}
      BY <1>0 DEF SpfRaises, SpfWorlds
    <2>3. \A k \in SpfKeys \ raised : items'[k] # "open"
      BY <1>0, <2>1, SettleEffect
    <2> QED BY <2>2, <2>3 DEF OneSpfStory, SpfKeys, IsOpen
  <1> QED BY <1>1, <1>2

\* A domain never has both SPF findings open, for any interleaving of runs,
\* failures, changes of the record and clicks.
THEOREM OneStory == ChecksSpec => []OneSpfStory
  <1>1. ChecksInit => OneSpfStory
    BY DEF ChecksInit, OneSpfStory, IsOpen, Keys
  <1>2. ChecksTypeOK /\ OneSpfStory /\ [ChecksNext]_checksVars => OneSpfStory'
    <2> SUFFICES ASSUME ChecksTypeOK, OneSpfStory, [ChecksNext]_checksVars, focus' = "spf"
                 PROVE  OneSpfStory'
      BY DEF OneSpfStory
    <2>0. focus = "spf"
      BY DEF ChecksNext, checksVars, Run, RunWith, RunKilled, Age, WorldChanges, UserCloses, Resolve,
             UserIgnores, SetIgnored
    <2>1. CASE Run
      <3>1. PICK lost \in SUBSET Lookups[focus] : RunWith(lost)  BY <2>1 DEF Run
      <3>2. CheckSpf(lost)  BY <2>0, <3>1 DEF RunWith
      <3> QED BY <2>0, <3>2, SpfRunKeepsOneStory
    <2>2. CASE UserCloses
      BY <2>0, <2>2 DEF UserCloses, Resolve, OneSpfStory, IsOpen, Closed, ChecksTypeOK
    <2>3. CASE UNCHANGED items
      BY <2>0, <2>3 DEF OneSpfStory, IsOpen
    <2> QED
      BY <2>0, <2>1, <2>2, <2>3
      DEF ChecksNext, RunKilled, Age, WorldChanges, UserIgnores, SetIgnored, checksVars
  <1> QED BY <1>1, <1>2, Typing, PTL DEF ChecksSpec

\* ------------------------------------------------- one tier of a rate ----
\* A domain never shows both tiers of its bounce and complaint rates, however
\* the rates move between two drains.
THEOREM OneTier == ChecksSpec => []OneRateTier
  <1>1. ChecksInit => OneRateTier
    BY DEF ChecksInit, OneRateTier, IsOpen, Keys, RateKeys
  <1>2. ChecksTypeOK /\ OneRateTier /\ [ChecksNext]_checksVars => OneRateTier'
    <2> SUFFICES ASSUME ChecksTypeOK, OneRateTier, [ChecksNext]_checksVars, focus' = "rates"
                 PROVE  OneRateTier'
      BY DEF OneRateTier
    <2>0. focus = "rates"
      BY DEF ChecksNext, checksVars, Run, RunWith, RunKilled, Age, WorldChanges, UserCloses, Resolve,
             UserIgnores, SetIgnored
    <2>1. CASE Run
      <3>1. PICK lost \in SUBSET Lookups[focus] : RunWith(lost)  BY <2>1 DEF Run
      <3> DEFINE raised == RateRaises
      <3>2. Settle(raised, RateKeys \ raised)
        BY <2>0, <3>1 DEF RunWith, CheckRates, RateClears
      <3>3. items \in [RateKeys -> Statuses]  BY <2>0 DEF ChecksTypeOK, Keys
      <3>4. raised \in {{}, {"ses_reputation"}, {"ses_reputation_watch"}}  BY DEF RateRaises
      <3>5. \A k \in RateKeys \ raised : items'[k] # "open"
        BY <3>2, <3>3, SettleEffect
      <3> QED BY <3>4, <3>5 DEF OneRateTier, RateKeys, IsOpen
    <2>2. CASE UserCloses
      BY <2>0, <2>2 DEF UserCloses, Resolve, OneRateTier, IsOpen, Closed, ChecksTypeOK
    <2>3. CASE UNCHANGED items
      BY <2>0, <2>3 DEF OneRateTier, IsOpen
    <2> QED
      BY <2>0, <2>1, <2>2, <2>3
      DEF ChecksNext, RunKilled, Age, WorldChanges, UserIgnores, SetIgnored, checksVars
  <1> QED BY <1>1, <1>2, Typing, PTL DEF ChecksSpec

\* ---------------------------------------------------------- known look-alikes ----
\* Re-deriving the item leaves it open only if some look-alike is not known.
LEMMA ApplyRespectsMarks ==
    ASSUME items \in [{"lookalike_domain"} -> Statuses], NEW m, ApplyLookalike(m),
           items'["lookalike_domain"] = "open"
    PROVE  m.ignored # Candidates
  <1>1. CASE MailCapable(m) # {}
    BY <1>1 DEF MailCapable
  <1>2. CASE MailCapable(m) = {}
    <2>1. Settle({}, {"lookalike_domain"})  BY <1>2 DEF ApplyLookalike
    <2> QED BY <2>1, SettleEffect
  <1> QED BY <1>1, <1>2

\* Once all look-alikes are marked as known the item stays away, whatever is
\* scanned, fails or is killed between the two commits.
THEOREM KnownAreQuiet == ChecksSpec => []KnownLookalikesQuiet
  <1>1. ChecksInit => KnownLookalikesQuiet
    BY DEF ChecksInit, KnownLookalikesQuiet, IsOpen, Keys
  <1>2. ChecksTypeOK /\ KnownLookalikesQuiet /\ [ChecksNext]_checksVars => KnownLookalikesQuiet'
    <2> SUFFICES ASSUME ChecksTypeOK, KnownLookalikesQuiet, [ChecksNext]_checksVars, focus' = "lookalike",
                        IsOpen("lookalike_domain")'
                 PROVE  memory'.ignored # Candidates
      BY DEF KnownLookalikesQuiet
    <2>0. focus = "lookalike"
      BY DEF ChecksNext, checksVars, Run, RunWith, RunKilled, Age, WorldChanges, UserCloses, Resolve,
             UserIgnores, SetIgnored
    <2> DEFINE R == [due : BOOLEAN, found : [Candidates -> Found], ignored : SUBSET Candidates]
    <2>1. memory \in R /\ items \in [{"lookalike_domain"} -> Statuses]
      BY <2>0 DEF ChecksTypeOK, Memories, Keys, Checks
    <2>2. CASE Run
      <3>1. PICK lost \in SUBSET Lookups[focus] : RunWith(lost)  BY <2>2 DEF Run
      <3>2. CheckLookalikes(lost, FALSE)  BY <2>0, <3>1 DEF RunWith
      <3> DEFINE m == Store([c \in Candidates |-> Probe(c, lost)])
      <3>3. memory'.ignored = m.ignored /\ ApplyLookalike(m)
        BY <2>1, <3>2 DEF CheckLookalikes, Store
      <3> QED BY <2>1, <3>3, ApplyRespectsMarks DEF IsOpen
    <2>3. CASE RunKilled
      <3>1. memory'.ignored = memory.ignored /\ UNCHANGED items
        BY <2>1, <2>3 DEF RunKilled, CheckLookalikes, Store
      <3> QED BY <2>0, <3>1 DEF KnownLookalikesQuiet, IsOpen
    <2>4. CASE UserIgnores
      <3>1. PICK c \in Candidates : SetIgnored(c)  BY <2>4 DEF UserIgnores
      <3>2. ApplyLookalike(memory')  BY <3>1 DEF SetIgnored
      <3> QED BY <2>1, <3>2, ApplyRespectsMarks DEF IsOpen
    <2>5. CASE UserCloses
      <3>1. IsOpen("lookalike_domain") /\ UNCHANGED memory
        BY <2>0, <2>1, <2>5 DEF UserCloses, Resolve, IsOpen, Closed, Keys
      <3> QED BY <2>0, <3>1 DEF KnownLookalikesQuiet
    <2>6. CASE Age
      <3>1. memory'.ignored = memory.ignored /\ UNCHANGED items
        BY <2>1, <2>6 DEF Age
      <3> QED BY <2>0, <3>1 DEF KnownLookalikesQuiet, IsOpen
    <2>7. CASE UNCHANGED <<memory, items>>
      BY <2>0, <2>7 DEF KnownLookalikesQuiet, IsOpen
    <2> QED BY <2>2, <2>3, <2>4, <2>5, <2>6, <2>7 DEF ChecksNext, WorldChanges, checksVars
  <1> QED BY <1>1, <1>2, Typing, PTL DEF ChecksSpec

\* ------------------------------------------------- who may close a warning ----
\* A run that closes a warning had its answer, unless its check is forgetful.
LEMMA RunClearsOnAnswers ==
    ASSUME ChecksTypeOK, NEW lost, RunWith(lost), NEW k \in Keys[focus],
           IsOpen(k), items'[k] = "dismissed"
    PROVE  ~unsure' \/ focus \in Forgetful \/ k \in OwnAnswer
  <1> SUFFICES ASSUME focus \notin Forgetful, k \notin OwnAnswer
               PROVE  ~unsure'
    OBVIOUS
  <1>0. items \in [Keys[focus] -> Statuses] /\ items[k] = "open"
    BY DEF ChecksTypeOK, IsOpen
  <1>1. ASSUME NEW raised, NEW cleared, Settle(raised, cleared)
        PROVE  k \in cleared /\ k \notin raised
    BY <1>0, <1>1, SettleEffect
  <1>2. items' # items
    BY <1>0
  <1>3. CASE focus = "dns" /\ CheckDomain(lost)
    <2>1. DnsVerdict(lost) # "lookup_failed"
      <3> SUFFICES ASSUME DnsVerdict(lost) = "lookup_failed" PROVE FALSE  OBVIOUS
      <3>1. Settle({"dns_drift"}, {})  BY <1>3 DEF CheckDomain
      <3> QED BY <1>1, <3>1
    <2> QED BY <1>3, <2>1, DnsVerdicts DEF CheckDomain
  <1>4. CASE focus = "subdomain" /\ DiscoverSubdomains(lost)
    <2>1. world.covered
      BY <1>1, <1>2, <1>4 DEF DiscoverSubdomains
    <2> QED BY <1>4, <2>1 DEF DiscoverSubdomains, IsCandidate
  <1>5. CASE focus = "blocklist" /\ CheckBlocklist(lost)
    <2>1. BlocklistVerdict(lost) = "clean"
      BY <1>1, <1>2, <1>5 DEF CheckBlocklist, BlocklistVerdict
    <2>2. lost = {}  BY <2>1 DEF BlocklistVerdict
    <2> QED BY <1>5, <2>2 DEF CheckBlocklist
  <1>6. CASE focus = "browsing" /\ CheckSafeBrowsing(lost)
    <2>1. lost = {}  BY <1>1, <1>2, <1>6 DEF CheckSafeBrowsing
    <2> QED BY <1>6, <2>1 DEF CheckSafeBrowsing
  <1>7. CASE focus = "missing" /\ CheckMissing(lost)
    <2>1. ~Verifies(lost)
      BY <1>0, <1>7 DEF CheckMissing, IsOpen
    <2>2. ~(world.volume /\ ~world.listed)
      BY <1>1, <1>7, <2>1 DEF CheckMissing
    <2> QED BY <1>7, <2>2 DEF CheckMissing
  <1>8. CASE focus = "postmaster" /\ CheckPostmaster(lost)
    <2>1. "compliance" \notin lost  BY <1>2, <1>8 DEF CheckPostmaster
    <2> QED BY <1>8, <2>1 DEF CheckPostmaster
  <1>9. CASE focus = "ses" /\ CheckSesAccount(lost)
    <2>1. "identities" \notin lost  BY <1>1, <1>9 DEF CheckSesAccount, OwnAnswer
    <2> QED BY <1>9, <2>1 DEF CheckSesAccount
  <1>10. CASE focus = "content" /\ CheckContent(lost)
    BY <1>10 DEF CheckContent
  <1>11. CASE CheckSenders(lost) \/ CheckBorrowed(lost) \/ CheckVolumes(lost)
                \/ CheckRates(lost) \/ CheckCampaign(lost)
    BY <1>11 DEF CheckSenders, CheckBorrowed, CheckVolumes, CheckRates, CheckCampaign
  <1>12. CASE CheckMailgun(lost)
    <2>1. "stats" \notin lost  BY <1>2, <1>12 DEF CheckMailgun
    <2> QED BY <1>12, <2>1 DEF CheckMailgun
  <1>13. CASE focus = "queue" /\ CheckQueue(lost)
    <2>1. k = "ses_event_backlog"  BY <1>13 DEF Keys, OwnAnswer
    <2>2. lost = {}  BY <1>1, <1>13, <2>1 DEF CheckQueue
    <2> QED BY <1>13, <2>2 DEF CheckQueue
  <1> QED
    BY <1>3, <1>4, <1>5, <1>6, <1>7, <1>8, <1>9, <1>10, <1>11, <1>12, <1>13
    DEF RunWith, Forgetful

\* For any zones, domains and faults: outside the forgetful checks, no warning
\* is dismissed by a run that lacked an answer about it.
THEOREM AnswersOnly == ChecksSpec => ClearedOnAnswers
  <1>1. ChecksTypeOK /\ [ChecksNext]_checksVars
          => [\A k \in Keys[focus] :
                IsOpen(k) /\ items'[k] = "dismissed" /\ changes' = changes
                  => \/ ~unsure'
                     \/ focus \in Forgetful
                     \/ k \in OwnAnswer]_checksVars
    <2> SUFFICES ASSUME ChecksTypeOK, [ChecksNext]_checksVars, NEW k \in Keys[focus], IsOpen(k),
                        items'[k] = "dismissed", changes' = changes
                 PROVE  ~unsure' \/ focus \in Forgetful \/ k \in OwnAnswer
      OBVIOUS
    <2>0. items' # items  BY DEF IsOpen
    <2>1. CASE Run
      <3>1. PICK lost \in SUBSET Lookups[focus] : RunWith(lost)  BY <2>1 DEF Run
      <3> QED BY <3>1, RunClearsOnAnswers
    <2>2. ~UserCloses /\ ~UserIgnores /\ ~WorldChanges
      <3>1. changes' # changes + 1  BY ChangesAssumption DEF ChecksTypeOK
      <3> QED BY <3>1 DEF UserCloses, Resolve, UserIgnores, SetIgnored, WorldChanges
    <2>3. ~RunKilled /\ ~Age /\ ~UNCHANGED checksVars
      BY <2>0 DEF RunKilled, CheckLookalikes, Age, checksVars
    <2> QED BY <2>1, <2>2, <2>3 DEF ChecksNext
  <1> QED BY <1>1, Typing, PTL DEF ChecksSpec, ClearedOnAnswers

\* ------------------------------------------------------- closed stays closed ----
\* A newsletter has an item only once it was scored.
ScoredBefore ==
    focus = "content" => memory.scored \/ items["content_spam_risk"] = "none"

LEMMA ScoringInvariant == ChecksSpec => []ScoredBefore
  <1>1. ChecksInit => ScoredBefore
    BY DEF ChecksInit, ScoredBefore, Keys
  <1>2. ChecksTypeOK /\ ScoredBefore /\ [ChecksNext]_checksVars => ScoredBefore'
    <2> SUFFICES ASSUME ChecksTypeOK, ScoredBefore, [ChecksNext]_checksVars, focus' = "content"
                 PROVE  memory'.scored \/ items'["content_spam_risk"] = "none"
      BY DEF ScoredBefore
    <2>0. focus = "content"
      BY DEF ChecksNext, checksVars, Run, RunWith, RunKilled, Age, WorldChanges, UserCloses, Resolve,
             UserIgnores, SetIgnored
    <2>1. memory \in [due : BOOLEAN, scored : BOOLEAN]
      BY <2>0 DEF ChecksTypeOK, Memories, Checks
    <2>2. CASE Run
      <3>1. PICK lost \in SUBSET Lookups[focus] : RunWith(lost)  BY <2>2 DEF Run
      <3> QED BY <2>0, <2>1, <3>1 DEF RunWith, CheckContent
    <2>3. CASE UserCloses
      BY <2>0, <2>3 DEF UserCloses, Resolve, IsOpen, ScoredBefore, ChecksTypeOK, Keys
    <2>4. CASE Age
      BY <2>0, <2>1, <2>4 DEF Age, ScoredBefore
    <2>5. CASE UNCHANGED <<memory, items>>
      BY <2>0, <2>5 DEF ScoredBefore
    <2> QED
      BY <2>0, <2>2, <2>3, <2>4, <2>5
      DEF ChecksNext, RunKilled, WorldChanges, UserIgnores, SetIgnored, checksVars
  <1> QED BY <1>1, <1>2, Typing, PTL DEF ChecksSpec

\* A closed subdomain or newsletter item is never raised again.
THEOREM StaysQuiet == ChecksSpec => ClosedStaysQuiet
  <1>1. ChecksTypeOK /\ ScoredBefore /\ [ChecksNext]_checksVars
          => [\A k \in Keys[focus] :
                focus \in {"subdomain", "content"} /\ items[k] \in Closed
                  => items'[k] # "open"]_checksVars
    <2> SUFFICES ASSUME ChecksTypeOK, ScoredBefore, [ChecksNext]_checksVars, NEW k \in Keys[focus],
                        focus \in {"subdomain", "content"}, items[k] \in Closed
                 PROVE  items'[k] # "open"
      OBVIOUS
    <2>0. items \in [Keys[focus] -> Statuses] /\ items[k] # "open"
      BY DEF ChecksTypeOK, Closed
    <2>1. CASE Run
      <3>1. PICK lost \in SUBSET Lookups[focus] : RunWith(lost)  BY <2>1 DEF Run
      <3>2. CASE focus = "subdomain"
        <4>1. DiscoverSubdomains(lost) /\ k = "subdomain"
          BY <3>1, <3>2 DEF RunWith, Keys
        <4>2. ~IsCandidate  BY <4>1 DEF IsCandidate
        <4> QED BY <2>0, <4>1, <4>2, SettleEffect DEF DiscoverSubdomains
      <3>3. CASE focus = "content"
        BY <3>1, <3>3 DEF RunWith, CheckContent, ScoredBefore, Keys, Closed
      <3> QED BY <3>2, <3>3
    <2>2. CASE UserCloses
      BY <2>0, <2>2 DEF UserCloses, Resolve, Closed
    <2>3. CASE UNCHANGED items
      BY <2>0, <2>3
    <2> QED
      BY <2>1, <2>2, <2>3
      DEF ChecksNext, RunKilled, Age, WorldChanges, UserIgnores, SetIgnored, checksVars
  <1> QED BY <1>1, Typing, ScoringInvariant, PTL DEF ChecksSpec, ClosedStaysQuiet
=============================================================================
