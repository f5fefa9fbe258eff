----------------------------- MODULE ImapIngest -----------------------------
(***************************************************************************)
(* How DMARC aggregate reports get from the mailbox into SQLite.            *)
(*                                                                         *)
(* app/imap_ingest.py pulls the messages above a saved high-water mark in   *)
(* chunks; app/ingest.py turns every attachment into one reports row and    *)
(* its records.  Three kinds of thread do this at the same time, each with  *)
(* a connection of its own: the sweep (its first step, under _checks_lock), *)
(* the "Fetch reports" button (POST /fetch_reports, behind no lock) and a   *)
(* Takeout upload (POST /ingest, no lock and no high-water mark).           *)
(*                                                                         *)
(* A message carries one report.  What the code tells apart about it is     *)
(* MailKind: "report" parses; "malformed" ends in stats["errors"] (XML parse *)
(* error, no domain, no date_range, unrecognized content); "poison" raises  *)
(* before anything is inserted (BadZipFile, int() of a non-number); "torn"  *)
(* raises after the reports row is inserted (a record with no source_ip).   *)
(***************************************************************************)
EXTENDS Integers, FiniteSets

CONSTANTS
    Messages,    \* the report mails that may ever reach the label folder
    Reports,     \* what they carry; two mails may carry the same report
    Identified,  \* the reports that have both org_name and report_id
    ReportOf,    \* the report of a message
    MailKind,    \* what processing the message does (see above)
    NoReport,    \* not a report
    Sweep,       \* the one thread that holds _checks_lock
    Fetchers,    \* threads started by POST /fetch_reports
    Uploaders,   \* requests running POST /ingest
    ChunkSize,   \* CHUNK, the messages fetched in one round trip
    MaxValidity, \* bound: UIDVALIDITY changes at most MaxValidity - 1 times
    MayAge,      \* bound: only these messages may leave the backfill window
    MaxIngestFaults, \* bound: refusals, lost connections, failed commands, kills
    MaxRows      \* bound: rows of one report are counted up to this number

MailKinds == {"report", "malformed", "poison", "torn"}

ASSUME MailboxAssumption ==
    /\ IsFiniteSet(Messages)
    /\ Identified \subseteq Reports
    /\ NoReport \notin Reports
    /\ ReportOf \in [Messages -> Reports]
    /\ MailKind \in [Messages -> MailKinds]

ASSUME IngestThreadAssumption ==
    /\ Sweep \notin Fetchers \cup Uploaders
    /\ Fetchers \cap Uploaders = {}

ASSUME IngestBoundAssumption ==
    /\ ChunkSize \in Nat \ {0}
    /\ MaxValidity \in Nat \ {0}
    /\ MayAge \subseteq Messages
    /\ MaxIngestFaults \in Nat
    /\ MaxRows \in Nat \ {0, 1}

VARIABLES
    uid,         \* the mailbox: the UID of each message, 0 before it arrives
    uidnext,     \* the UID the next arrival gets
    validity,    \* the folder's UIDVALIDITY
    aged,        \* messages older than the SEED_DAYS backfill window
    saved,       \* the imap_ingest_state row: uidvalidity and last_uid
    rows,        \* committed reports rows that have all their records
    half,        \* reports with a committed row that has lost its records
    run,         \* per thread, the locals of the run (Idle between runs)
    txn,         \* the report whose row is inserted and not committed
    handled,     \* history: stored, recognised as a duplicate or listed as an error
    refused,     \* history: messages of a chunk whose fetch was answered not OK
    ingestFaults \* faults so far (see MaxIngestFaults)

mailbox    == <<uid, uidnext, validity, aged>>
store      == <<rows, half, handled>>
threads    == <<run, txn>>
ingestVars == <<mailbox, saved, store, threads, refused, ingestFaults>>

NoValidity == 0                    \* uidvalidity is None
Readers == {Sweep} \cup Fetchers   \* threads in run_imap_ingest
IngestThreads == Readers \cup Uploaders
Present == {m \in Messages : uid[m] # 0}

-----------------------------------------------------------------------------
(* The environment: the mailbox.                                            *)

\* A report mail arrives, above every UID given so far.
Deliver(m) ==
    /\ uid[m] = 0
    /\ uid' = [uid EXCEPT ![m] = uidnext]
    /\ uidnext' = uidnext + 1
    /\ UNCHANGED <<validity, aged, saved, store, threads, refused, ingestFaults>>

\* A message becomes older than SEED_DAYS.
LeaveWindow(m) ==
    /\ m \in (Present \cap MayAge) \ aged
    /\ aged' = aged \cup {m}
    /\ UNCHANGED <<uid, uidnext, validity, saved, store, threads, refused, ingestFaults>>

\* The server renumbers the folder (never under an open session): the
\* messages get the UIDs 1..n in any order, under a new UIDVALIDITY.
Renumber ==
    /\ validity < MaxValidity
    /\ \A t \in Readers : run[t].pc = "idle"
    /\ validity' = validity + 1
    /\ \E f \in [Messages -> 0..Cardinality(Present)] :
          /\ \A m \in Messages : (f[m] = 0) <=> (uid[m] = 0)
          /\ \A m, n \in Present : f[m] = f[n] => m = n
          /\ uid' = f
    /\ uidnext' = Cardinality(Present) + 1
    /\ UNCHANGED <<aged, saved, store, threads, refused, ingestFaults>>

-----------------------------------------------------------------------------
(* run_imap_ingest.                                                         *)

\* The locals of a run: messages no chunk has taken yet (todo), messages of
\* the fetched chunk not processed yet (cur), the chunk's last UID (top),
\* max_uid (mark) and the UIDVALIDITY it read (seen).
Idle == [pc |-> "idle", todo |-> {}, cur |-> {}, top |-> 0, mark |-> 0, seen |-> NoValidity]

\* A bug: the saved mark is used after the folder was renumbered.
IncrementalAnyway(v) == saved.last # 0

\* Saved state is usable only under the UIDVALIDITY it was written for.
Incremental(v) ==
    /\ saved.last # 0
    /\ saved.validity # NoValidity
    /\ saved.validity = v

\* UID SEARCH: everything above the mark, or the backfill window.
SearchResult(v) ==
    IF Incremental(v)
    THEN {m \in Present : uid[m] > saved.last}
    ELSE Present \ aged

\* Connect, read STATUS (UIDVALIDITY v) and the state row, and search.
Open(t, v, found) ==
    /\ run[t].pc = "idle"
    /\ run' = [run EXCEPT ![t] =
                  [Idle EXCEPT !.pc = "fetch", !.todo = found, !.seen = v,
                               !.mark = IF Incremental(v) THEN saved.last ELSE 0]]
    /\ UNCHANGED <<mailbox, saved, store, txn, refused>>

StartRun(t) == Open(t, validity, SearchResult(validity)) /\ UNCHANGED ingestFaults

IngestFault == ingestFaults < MaxIngestFaults /\ ingestFaults' = ingestFaults + 1

\* STATUS fails (uidvalidity stays None), or the search does (no UIDs).
StartRunBadly(t) ==
    /\ \/ Open(t, NoValidity, SearchResult(NoValidity))
       \/ Open(t, validity, {})
    /\ IngestFault

\* uids[i:i + CHUNK]: the messages of S with the smallest UIDs.
NextChunk(S) ==
    {m \in S : Cardinality({n \in S : uid[n] < uid[m]}) < ChunkSize}

FetchChunk(t) ==
    /\ run[t].pc = "fetch"
    /\ run[t].todo # {}
    /\ LET chunk == NextChunk(run[t].todo) IN
          \E last \in chunk :
             /\ \A m \in chunk : uid[m] <= uid[last]
             /\ run' = [run EXCEPT ![t].pc = "store", ![t].todo = @ \ chunk,
                                   ![t].cur = chunk, ![t].top = uid[last]]
    /\ UNCHANGED <<mailbox, saved, store, txn, refused, ingestFaults>>

\* The server answers the fetch with NO: `continue` to the next chunk.
FetchRefused(t) ==
    /\ run[t].pc = "fetch"
    /\ run[t].todo # {}
    /\ LET chunk == NextChunk(run[t].todo) IN
          /\ run' = [run EXCEPT ![t].todo = @ \ chunk]
          /\ refused' = refused \cup chunk
    /\ IngestFault
    /\ UNCHANGED <<mailbox, saved, store, txn>>

\* The connection dies or times out: the exception leaves run_imap_ingest.
ConnectionLost(t) ==
    /\ run[t].pc = "fetch"
    /\ run[t].todo # {}
    /\ run' = [run EXCEPT ![t] = Idle]
    /\ IngestFault
    /\ UNCHANGED <<mailbox, saved, store, txn, refused>>

\* SQLite admits one writer: another connection's open transaction blocks.
MayWrite(t) == \A o \in IngestThreads \ {t} : txn[o] = NoReport

\* _set_state with this run's UIDVALIDITY.
Save(t, u) == saved' = [validity |-> run[t].seen, last |-> u]

\* End of a chunk: max_uid = max(max_uid, chunk[-1]) and _set_state.
ChunkDone(t) ==
    /\ run[t].pc = "store"
    /\ run[t].cur = {}
    /\ MayWrite(t)
    /\ LET u == IF run[t].top > run[t].mark THEN run[t].top ELSE run[t].mark IN
          /\ run' = [run EXCEPT ![t].pc = "fetch", ![t].mark = u]
          /\ Save(t, u)
    /\ UNCHANGED <<mailbox, store, txn, refused, ingestFaults>>

\* No chunk left: the last _set_state, then logout.
FinishRun(t) ==
    /\ run[t].pc = "fetch"
    /\ run[t].todo = {}
    /\ MayWrite(t)
    /\ Save(t, run[t].mark)
    /\ run' = [run EXCEPT ![t] = Idle]
    /\ UNCHANGED <<mailbox, store, txn, refused, ingestFaults>>

-----------------------------------------------------------------------------
(* _process_blob and store_report, shared by the three paths.               *)

\* A mailbox chunk is processed in UID order, an archive in its own.
NextInLine(t, m) ==
    /\ run[t].pc = "store"
    /\ m \in run[t].cur
    /\ t \in Readers => \A n \in run[t].cur : uid[m] <= uid[n]

\* A bug: a report is looked up through its records.
IsDuplicateByRecords(r) == r \in Identified /\ rows[r] > 0

\* UNIQUE(domain_id, org_name, report_id): NULLs are distinct to SQLite.
IsDuplicate(r) == r \in Identified /\ (rows[r] > 0 \/ r \in half)

Processed(t, m) ==
    /\ run' = [run EXCEPT ![t].cur = @ \ {m}]
    /\ handled' = handled \cup {m}
    /\ UNCHANGED <<mailbox, saved, txn, refused, ingestFaults>>

\* An exception ends the run.  Only the sweep goes on using the connection;
\* the other two drop it, which rolls back what it had not committed.
Raise(t) ==
    /\ run' = [run EXCEPT ![t] = IF t = Sweep THEN [Idle EXCEPT !.pc = "raised"] ELSE Idle]
    /\ UNCHANGED <<mailbox, saved, store, refused, ingestFaults>>

StoreReport(t, m) ==
    /\ NextInLine(t, m)
    /\ MailKind[m] = "report"
    /\ MayWrite(t)
    /\ ~IsDuplicate(ReportOf[m])
    /\ rows' = [rows EXCEPT ![ReportOf[m]] = IF @ < MaxRows THEN @ + 1 ELSE @]
    /\ Processed(t, m)
    /\ UNCHANGED half

\* A bug: `except sqlite3.Error` takes a locked database for a duplicate.
SkipAnyError(t, m) ==
    /\ NextInLine(t, m)
    /\ MailKind[m] \in {"report", "torn"}
    /\ MayWrite(t) => IsDuplicate(ReportOf[m])
    /\ Processed(t, m)
    /\ UNCHANGED <<rows, half>>

SkipDuplicate(t, m) ==
    /\ NextInLine(t, m)
    /\ MailKind[m] \in {"report", "torn"}
    /\ MayWrite(t)
    /\ IsDuplicate(ReportOf[m])
    /\ Processed(t, m)
    /\ UNCHANGED <<rows, half>>

ListError(t, m) ==
    /\ NextInLine(t, m)
    /\ MailKind[m] = "malformed"
    /\ Processed(t, m)
    /\ UNCHANGED <<rows, half>>

RaiseBeforeInsert(t, m) ==
    /\ NextInLine(t, m)
    /\ MailKind[m] = "poison"
    /\ Raise(t)
    /\ UNCHANGED txn

RaiseAfterInsert(t, m) ==
    /\ NextInLine(t, m)
    /\ MailKind[m] = "torn"
    /\ MayWrite(t)
    /\ ~IsDuplicate(ReportOf[m])
    /\ txn' = [txn EXCEPT ![t] = IF t = Sweep THEN ReportOf[m] ELSE NoReport]
    /\ Raise(t)

\* run_all_checks swallows the exception; run_analysis then commits on the
\* same connection, and with its own work whatever the ingest left open.
SweepGoesOn ==
    /\ run[Sweep].pc = "raised"
    /\ half' = half \cup ({txn[Sweep]} \ {NoReport})
    /\ txn' = [txn EXCEPT ![Sweep] = NoReport]
    /\ run' = [run EXCEPT ![Sweep] = Idle]
    /\ UNCHANGED <<mailbox, saved, rows, handled, refused, ingestFaults>>

-----------------------------------------------------------------------------
(* ingest_source on an uploaded export: every mail of the folder, no mark.  *)

StartUpload(t) ==
    /\ run[t].pc = "idle"
    /\ run' = [run EXCEPT ![t] = [Idle EXCEPT !.pc = "store", !.cur = Present]]
    /\ UNCHANGED <<mailbox, saved, store, txn, refused, ingestFaults>>

FinishUpload(t) ==
    /\ run[t].pc = "store"
    /\ run[t].cur = {}
    /\ run' = [run EXCEPT ![t] = Idle]
    /\ UNCHANGED <<mailbox, saved, store, txn, refused, ingestFaults>>

\* The process is killed (deploy.sh's kickstart -k, a laptop shutting down):
\* SQLite rolls back whatever was not committed.
IngestKilled ==
    /\ IngestFault
    /\ run' = [t \in IngestThreads |-> Idle]
    /\ txn' = [t \in IngestThreads |-> NoReport]
    /\ UNCHANGED <<mailbox, saved, store, refused>>

-----------------------------------------------------------------------------
IngestInit ==
    /\ uid = [m \in Messages |-> 0]
    /\ uidnext = 1
    /\ validity = 1
    /\ aged = {}
    /\ saved = [validity |-> NoValidity, last |-> 0]
    /\ rows = [r \in Reports |-> 0]
    /\ half = {}
    /\ run = [t \in IngestThreads |-> Idle]
    /\ txn = [t \in IngestThreads |-> NoReport]
    /\ handled = {}
    /\ refused = {}
    /\ ingestFaults = 0

Process(t) ==
    \E m \in Messages :
        \/ StoreReport(t, m)
        \/ SkipDuplicate(t, m)
        \/ ListError(t, m)
        \/ RaiseBeforeInsert(t, m)
        \/ RaiseAfterInsert(t, m)

IngestNext ==
    \/ \E m \in Messages : Deliver(m) \/ LeaveWindow(m)
    \/ Renumber
    \/ \E t \in Readers :
          \/ StartRun(t)
          \/ StartRunBadly(t)
          \/ FetchChunk(t)
          \/ FetchRefused(t)
          \/ ConnectionLost(t)
          \/ ChunkDone(t)
          \/ FinishRun(t)
    \/ \E t \in Uploaders : StartUpload(t) \/ FinishUpload(t)
    \/ \E t \in IngestThreads : Process(t)
    \/ SweepGoesOn
    \/ IngestKilled

IngestSpec == IngestInit /\ [][IngestNext]_ingestVars

-----------------------------------------------------------------------------
(* Properties.                                                              *)

RunRecord ==
    [pc : {"idle", "fetch", "store", "raised"}, todo : SUBSET Messages,
     cur : SUBSET Messages, top : Nat, mark : Nat, seen : 0..MaxValidity]

\* Every variable keeps its type.
IngestTypeOK ==
    /\ uid \in [Messages -> Nat]
    /\ uidnext \in Nat \ {0}
    /\ validity \in 1..MaxValidity
    /\ aged \subseteq Messages
    /\ saved \in [validity : 0..MaxValidity, last : Nat]
    /\ rows \in [Reports -> 0..MaxRows]
    /\ half \subseteq Reports
    /\ run \in [IngestThreads -> RunRecord]
    /\ txn \in [IngestThreads -> Reports \cup {NoReport}]
    /\ handled \subseteq Messages
    /\ refused \subseteq Messages
    /\ ingestFaults \in 0..MaxIngestFaults

\* What may be missing above no mark: a message is accounted for once it was
\* stored, recognised or listed as an error, once it left the backfill
\* window, or when the server refused to hand out its chunk.
Accounted == handled \cup aged \cup refused

\* The saved high-water mark, while it is valid, never covers a message that
\* no run has accounted for: whatever threads overlap, crash or fail half-way
\* through a chunk, "messages newer than the last" leaves nothing behind.
WatermarkCovers ==
    saved.validity = validity =>
        \A m \in Present : uid[m] <= saved.last => m \in Accounted

Copies(r) == rows[r] + (IF r \in half THEN 1 ELSE 0)

\* A report with an identity is stored at most once, through every path:
\* re-reads after a crash, a renumbered folder, two mails with one report,
\* and a fetch racing the sweep or an upload.  Of the others see
\* NeverDoubleCounted.
StoredAtMostOnce == \A r \in Identified : Copies(r) <= 1

\* imap_ingest.py: "even re-reading a message can never double-count"; MANUAL.md
\* on exports: "duplicates are skipped automatically".  What a single mail
\* carries is in the database once, with an identity or without.
NeverDoubleCounted ==
    \A m \in Messages :
        (\A n \in Messages \ {m} : ReportOf[n] # ReportOf[m]) => Copies(ReportOf[m]) <= 1

\* A processed message that parsed left its report in the database, whole
\* or (see SweepGoesOn) as a row without its records.
HandledIsStored ==
    \A m \in handled : MailKind[m] = "report" =>
        rows[ReportOf[m]] > 0 \/ ReportOf[m] \in half

\* The comment in run_imap_ingest on a refused fetch: "leave max_uid where it
\* was -> this chunk retries next run".  Its messages stay above the mark.
RefusedChunkRetries ==
    saved.validity = validity =>
        \A m \in Present : uid[m] <= saved.last => m \in handled \cup aged

\* The sweep runs every six hours and each of its steps ends (every network
\* call has a timeout).  Mail, the buttons and faults owe nothing.
IngestFairness ==
    /\ WF_ingestVars(StartRun(Sweep))
    /\ WF_ingestVars(FetchChunk(Sweep))
    /\ WF_ingestVars(Process(Sweep))
    /\ WF_ingestVars(ChunkDone(Sweep))
    /\ WF_ingestVars(FinishRun(Sweep))
    /\ WF_ingestVars(SweepGoesOn)

IngestFairSpec == IngestSpec /\ IngestFairness

\* Processing the message raises, however often it is tried.
AlwaysRaises(m) ==
    \/ MailKind[m] = "poison"
    \/ MailKind[m] = "torn" /\ ReportOf[m] \notin Identified

\* Every mail that reaches the folder is eventually accounted for, unless a
\* mail that always raises shares the folder with it.  A torn report with an
\* identity stops one run only: the next one takes it for a duplicate.
EventuallyAccounted ==
    \A m \in Messages :
        m \in Present ~> \/ m \in Accounted
                         \/ \E p \in Present : AlwaysRaises(p)

\* MANUAL.md on an ingest with errors: "usually a malformed or unsupported
\* attachment in the export; the rest of the reports still get processed
\* normally".
RestStillProcessed ==
    \A m \in Messages :
        m \in Present /\ MailKind[m] = "report" ~> m \in Accounted
=============================================================================
