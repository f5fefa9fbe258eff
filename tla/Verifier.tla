------------------------------ MODULE Verifier ------------------------------
(***************************************************************************)
(* The self-hosted address checker: verify_email with its read-through      *)
(* cache, and the batches web.py runs in daemon threads behind one lock.    *)
(*                                                                          *)
(* A request thread reads `locked()` long before its batch thread tries the *)
(* lock; the worker threads store verdicts while the batch thread counts    *)
(* them; the process can be killed at any point.  Batch ids are SQLite's    *)
(* INTEGER PRIMARY KEY, the highest in use plus one, so the id of a batch   *)
(* removed under its thread can be given to the next upload's: two threads  *)
(* then know one id.  What a mail server answers, and whether a cached row  *)
(* is still fresh, is the environment's choice.                             *)
(***************************************************************************)
EXTENDS Naturals, FiniteSets, FiniteSetsExt

CONSTANTS
    MaxBatches,    \* the highest batch id
    MaxThreads,    \* bound: batch threads alive together
    Replies,       \* what mail servers and resolvers answer, per catch-all
    Lists,         \* the address lists that get uploaded
    MaxIncidents   \* single checks, deletions, kills and exceptions

\* Two spellings of one address, and one at a throwaway provider.
Spellings  == {"ann", "Ann", "tmp"}
Addresses  == {"ann", "tmp"}
Lower      == [s \in Spellings |-> IF s = "Ann" THEN "ann" ELSE s]
Disposable == {"tmp"}

Verdicts == {"valid", "invalid", "risky", "unknown"}
Ids      == 1..MaxBatches
Threads  == 1..MaxThreads

\* Where the pipeline of one address can end; the last five are SMTP codes.
Ends == {"bad_syntax", "mx_failed", "no_mx", "probe_failed",
         "accepted", "rejected", "full", "greylisted", "unexpected"}

ASSUME VerifierAssumption ==
    /\ MaxBatches \in Nat \ {0} /\ MaxThreads \in Nat \ {0}
    /\ MaxIncidents \in Nat
    /\ Replies \subseteq BOOLEAN \X Ends
    /\ Lists \subseteq SUBSET Spellings

VARIABLES
    cached,     \* email_verifications: what is stored of each address
    batches,    \* email_verification_batches and their items
    threads,    \* the batch threads of this process, and which batch each was given
    lock,       \* the thread that holds _verifier_batch_lock, 0 if none
    uploads,    \* upload requests that have found the lock free
    deletes,    \* ids that delete requests have found deletable
    lost,       \* ids one of whose addresses was counted but never stored
    reused,     \* ids given away while an earlier thread still had them
    incidents

verifierVars == <<cached, batches, threads, lock, uploads, deletes, lost, reused, incidents>>

NoRow == [verdict |-> "none", catchAll |-> FALSE, disposable |-> FALSE]
Rows  == [verdict : Verdicts \cup {"none"}, catchAll : BOOLEAN, disposable : BOOLEAN]

NoCounts == [v \in Verdicts |-> 0]
NoBatch  == [status |-> "absent", items |-> {}, total |-> 0, done |-> 0, counts |-> NoCounts]

Idle == [phase |-> "none", batch |-> 0, todo |-> {}, answers |-> {}, done |-> 0,
         counts |-> NoCounts]

Incident == incidents < MaxIncidents /\ incidents' = incidents + 1

Exists(b) == batches[b].status # "absent"

-----------------------------------------------------------------------------
(***************************************************************************)
(* verify_email: syntax, MX, catch-all (a failed probe of it is NULL, which *)
(* counts as "not catch-all"), then the real probe.                         *)
(***************************************************************************)
Row(verdict, catchAll, disposable) ==
    [verdict |-> verdict, catchAll |-> catchAll, disposable |-> disposable]

ByCode(end) ==
    CASE end = "accepted"               -> "valid"
      [] end = "rejected"               -> "invalid"
      [] end \in {"full", "greylisted"} -> "risky"
      [] OTHER                          -> "unknown"

RowOf(a, catchAll, end) ==
    LET disposable == a \in Disposable IN
    CASE end = "bad_syntax"   -> Row("invalid", FALSE, FALSE)
      [] end = "mx_failed"    -> Row("unknown", FALSE, disposable)
      [] end = "no_mx"        -> Row("invalid", FALSE, disposable)
      [] end = "probe_failed" -> Row("unknown", catchAll, disposable)
      [] OTHER ->
            IF catchAll THEN Row("risky", TRUE, disposable)
            ELSE IF disposable THEN Row("risky", FALSE, TRUE)
            ELSE Row(ByCode(end), FALSE, FALSE)

Outcomes(a) == {RowOf(a, reply[1], reply[2]) : reply \in Replies}

\* A fresh row answers; otherwise the pipeline runs and its verdict is stored.
VerifyEmail(a, row) ==
    \/ row = cached[a] /\ row # NoRow /\ UNCHANGED cached
    \/ row \in Outcomes(a) /\ cached' = [cached EXCEPT ![a] = row]

\* The form on the checker's page: one address, no batch, no lock.
CheckOne ==
    /\ Incident
    /\ \E a \in Addresses : \E row \in Outcomes(a) : VerifyEmail(a, row)
    /\ UNCHANGED <<batches, threads, lock, uploads, deletes, lost, reused>>

-----------------------------------------------------------------------------
(***************************************************************************)
(* An upload looks at the lock, reads the file, inserts the batch and       *)
(* starts a thread; two uploads can both have found the lock free.          *)
(***************************************************************************)
UploadPasses ==
    /\ lock = 0
    /\ uploads < 2
    /\ uploads' = uploads + 1
    /\ UNCHANGED <<cached, batches, threads, lock, deletes, lost, reused, incidents>>

NextId == Max({0} \cup {b \in Ids : Exists(b)}) + 1

\* The threads that were given a batch of this id.
Holders(b) == {t \in Threads : threads[t].batch = b}

UploadInserts ==
    /\ uploads > 0
    /\ uploads' = uploads - 1
    /\ NextId \in Ids
    /\ \E items \in Lists \ {{}} :
          batches' = [batches EXCEPT ![NextId] =
              [NoBatch EXCEPT !.status = "running", !.items = items, !.total = Cardinality(items)]]
    /\ \E t \in Threads :
          /\ threads[t] = Idle
          /\ threads' = [threads EXCEPT ![t] = [Idle EXCEPT !.phase = "starting", !.batch = NextId]]
    /\ reused' = IF Holders(NextId) = {} THEN reused \ {NextId} ELSE reused \cup {NextId}
    /\ lost' = IF Holders(NextId) = {} THEN lost \ {NextId} ELSE lost
    /\ UNCHANGED <<cached, lock, deletes, incidents>>

(***************************************************************************)
(* _run_verification_batch, in thread t.                                    *)
(***************************************************************************)
Begins(t) ==
    /\ lock' = t
    /\ threads' = [threads EXCEPT ![t].phase = "working",
                                  ![t].todo = batches[threads[t].batch].items]

\* A bug: the thread looks at the lock the way the page does.
BatchStartsAnyway(t) ==
    /\ threads[t].phase = "starting"
    /\ Begins(t)
    /\ UNCHANGED <<cached, batches, uploads, deletes, lost, reused, incidents>>

BatchStarts(t) ==
    /\ threads[t].phase = "starting"
    /\ IF lock = 0 THEN Begins(t)
       ELSE threads' = [threads EXCEPT ![t] = Idle] /\ UNCHANGED lock
    /\ UNCHANGED <<cached, batches, uploads, deletes, lost, reused, incidents>>

Answer(t, item, verdict) ==
    threads' = [threads EXCEPT ![t].todo = @ \ {item}, ![t].answers = @ \cup {<<item, verdict>>}]

WorkerAnswers(t) ==
    /\ \E item \in threads[t].todo :
          \E row \in Outcomes(Lower[item]) \cup {cached[Lower[item]]} :
              VerifyEmail(Lower[item], row) /\ Answer(t, item, row.verdict)
    /\ UNCHANGED <<batches, lock, uploads, deletes, lost, reused, incidents>>

\* An exception in a worker is counted as "unknown"; nothing is stored.
WorkerRaises(t) ==
    /\ Incident
    /\ \E item \in threads[t].todo : Answer(t, item, "unknown")
    /\ lost' = lost \cup {threads[t].batch}
    /\ UNCHANGED <<cached, batches, lock, uploads, deletes, reused>>

\* One UPDATE per address from the thread's own totals; no row, no effect.
Progress(b, done, counts) ==
    IF Exists(b)
    THEN batches' = [batches EXCEPT ![b].done = done, ![b].counts = counts]
    ELSE UNCHANGED batches

Count(t) ==
    /\ threads[t].phase = "working"
    /\ \E answer \in threads[t].answers :
          LET done   == threads[t].done + 1
              counts == [threads[t].counts EXCEPT ![answer[2]] = @ + 1]
          IN  /\ threads' = [threads EXCEPT ![t].answers = @ \ {answer},
                                            ![t].done = done, ![t].counts = counts]
              /\ Progress(threads[t].batch, done, counts)
    /\ UNCHANGED <<cached, lock, uploads, deletes, lost, reused, incidents>>

\* `database is locked`, or a setting that is no number.
BatchRaises(t) ==
    /\ threads[t].phase = "working"
    /\ Incident
    /\ threads' = [threads EXCEPT ![t].phase = "failing"]
    /\ UNCHANGED <<cached, batches, lock, uploads, deletes, lost, reused>>

Status(b, status) ==
    batches' = IF Exists(b) THEN [batches EXCEPT ![b].status = status] ELSE batches

\* A bug: the batch is declared done while answers are still to be counted.
BatchEndsEarly(t) ==
    /\ threads[t].todo = {}
    /\ LET b == threads[t].batch IN
       \/ threads[t].phase = "working" /\ Status(b, "done")
       \/ threads[t].phase = "failing" /\ (Status(b, "error") \/ UNCHANGED batches)
    /\ threads' = [threads EXCEPT ![t].phase = "ending"]
    /\ UNCHANGED <<cached, lock, uploads, deletes, lost, reused, incidents>>

\* Only when the executor has waited for every worker, failing or not.
BatchEnds(t) ==
    /\ threads[t].todo = {}
    /\ LET b == threads[t].batch IN
       \/ threads[t].phase = "working" /\ threads[t].answers = {} /\ Status(b, "done")
       \/ threads[t].phase = "failing" /\ (Status(b, "error") \/ UNCHANGED batches)
    /\ threads' = [threads EXCEPT ![t].phase = "ending"]
    /\ UNCHANGED <<cached, lock, uploads, deletes, lost, reused, incidents>>

\* A bug: the lock is given back on the good path only.
BatchReleasesWhenDone(t) ==
    /\ threads[t].phase = "ending"
    /\ lock' = IF batches[threads[t].batch].status = "done" THEN 0 ELSE lock
    /\ threads' = [threads EXCEPT ![t] = Idle]
    /\ UNCHANGED <<cached, batches, uploads, deletes, lost, reused, incidents>>

\* The finally clause.
BatchReleases(t) ==
    /\ threads[t].phase = "ending"
    /\ lock' = 0
    /\ threads' = [threads EXCEPT ![t] = Idle]
    /\ UNCHANGED <<cached, batches, uploads, deletes, lost, reused, incidents>>

-----------------------------------------------------------------------------
(***************************************************************************)
(* Removing a batch: refused while the lock is held and the row says        *)
(* 'running'; otherwise items and row go, in a later statement.             *)
(***************************************************************************)
DeletePasses(b) ==
    /\ Exists(b)
    /\ lock = 0 \/ batches[b].status # "running"
    /\ Incident
    /\ deletes' = deletes \cup {b}
    /\ UNCHANGED <<cached, batches, threads, lock, uploads, lost, reused>>

DeleteRows(b) ==
    /\ b \in deletes
    /\ deletes' = deletes \ {b}
    /\ batches' = [batches EXCEPT ![b] = NoBatch]
    /\ UNCHANGED <<cached, threads, lock, uploads, lost, reused, incidents>>

\* The process dies: locks, threads and requests with it, the rows stay.
Kill ==
    /\ Incident
    /\ lock' = 0
    /\ threads' = [t \in Threads |-> Idle]
    /\ uploads' = 0
    /\ deletes' = {}
    /\ UNCHANGED <<cached, batches, lost, reused>>

BatchThread(t) ==
    \/ BatchStarts(t)
    \/ WorkerAnswers(t)
    \/ Count(t)
    \/ BatchEnds(t)
    \/ BatchReleases(t)

VerifierInit ==
    /\ cached = [a \in Addresses |-> NoRow]
    /\ batches = [b \in Ids |-> NoBatch]
    /\ threads = [t \in Threads |-> Idle]
    /\ lock = 0
    /\ uploads = 0
    /\ deletes = {}
    /\ lost = {}
    /\ reused = {}
    /\ incidents = 0

VerifierNext ==
    \/ CheckOne
    \/ UploadPasses
    \/ UploadInserts
    \/ Kill
    \/ \E t \in Threads : BatchThread(t) \/ WorkerRaises(t) \/ BatchRaises(t)
    \/ \E b \in Ids : DeletePasses(b) \/ DeleteRows(b)

VerifierSpec == VerifierInit /\ [][VerifierNext]_verifierVars

\* The operating system runs every thread; no server answer is promised,
\* but smtplib and dig have timeouts.
VerifierFairness == \A t \in Threads : WF_verifierVars(BatchThread(t))

-----------------------------------------------------------------------------
Phases == {"none", "starting", "working", "failing", "ending"}

VerifierTypeOK ==
    /\ cached \in [Addresses -> Rows]
    /\ batches \in [Ids -> [status : {"absent", "running", "done", "error"},
                            items : SUBSET Spellings, total : Nat, done : Nat,
                            counts : [Verdicts -> Nat]]]
    /\ threads \in [Threads -> [phase : Phases, batch : 0..MaxBatches, todo : SUBSET Spellings,
                                answers : SUBSET (Spellings \X Verdicts),
                                done : Nat, counts : [Verdicts -> Nat]]]
    /\ lock \in 0..MaxThreads
    /\ uploads \in 0..2
    /\ deletes \subseteq Ids
    /\ lost \subseteq Ids
    /\ reused \subseteq Ids
    /\ incidents \in 0..MaxIncidents

\* The six buckets of _batch_breakdown over the rows its JOIN finds.
\* A bug: every catch-all row is a catch-all, every throwaway row disposable.
BucketUngated(bucket, row) ==
    CASE bucket = "ok"          -> row.verdict = "valid"
      [] bucket = "catch_all"   -> row.catchAll
      [] bucket = "disposable"  -> row.disposable /\ ~row.catchAll
      [] bucket = "risky_other" -> row.verdict = "risky" /\ ~row.catchAll /\ ~row.disposable
      [] bucket = "invalid"     -> row.verdict = "invalid"
      [] bucket = "unknown"     -> row.verdict = "unknown"

Bucket(bucket, row) ==
    CASE bucket = "ok"          -> row.verdict = "valid"
      [] bucket = "catch_all"   -> row.verdict = "risky" /\ row.catchAll
      [] bucket = "disposable"  -> row.verdict = "risky" /\ row.disposable /\ ~row.catchAll
      [] bucket = "risky_other" -> row.verdict = "risky" /\ ~row.catchAll /\ ~row.disposable
      [] bucket = "invalid"     -> row.verdict = "invalid"
      [] bucket = "unknown"     -> row.verdict = "unknown"

Joined(b) == {a \in batches[b].items \cap Addresses : cached[a] # NoRow}

InBucket(b, bucket) == Cardinality({a \in Joined(b) : Bucket(bucket, cached[a])})

Finished(b) == batches[b].status = "done" /\ b \notin reused

(***************************************************************************)
(* At most one batch is being verified (the lock's comment: "Only one batch *)
(* runs at a time"), whatever uploads, deletions and kills there are; and   *)
(* whoever is at work holds the lock.                                       *)
(***************************************************************************)
OneBatchProbes ==
    \A t \in Threads : threads[t].phase \in {"working", "failing", "ending"} => lock = t

\* What the lock is for, said without a lock: OneAtATime.
Turns == INSTANCE OneAtATime WITH
    Workers <- Threads,
    working <- {t \in Threads : threads[t].phase \in {"working", "failing", "ending"}}

\* The batch threads take turns: each begins with nobody at work, and none
\* ends another's turn (web.py _verifier_batch_lock).
TakesTurns == Turns!Spec

(***************************************************************************)
(* A batch shown as done has counted every one of its addresses once: its   *)
(* progress and its four verdict counts both add up to its total.  Not so   *)
(* for a batch whose id another thread still had when it was uploaded: that *)
(* thread declares it done (`reused`).                                      *)
(***************************************************************************)
Counted(counts) == counts["valid"] + counts["invalid"] + counts["risky"] + counts["unknown"]

DoneMeansCounted ==
    \A b \in Ids : Finished(b) =>
        /\ batches[b].done = batches[b].total
        /\ Counted(batches[b].counts) = batches[b].total

SixNumbers(b) ==
    InBucket(b, "ok") + InBucket(b, "catch_all") + InBucket(b, "disposable")
      + InBucket(b, "risky_other") + InBucket(b, "invalid") + InBucket(b, "unknown")

(***************************************************************************)
(* No address of a done batch is in two of the six numbers or in none, of a *)
(* batch uploaded in lower case, none of whose workers raised.  For the     *)
(* others SixNumbersSum says what the docstring says, and fails.            *)
(***************************************************************************)
BucketsAddUp ==
    \A b \in Ids : Finished(b) /\ b \notin lost /\ batches[b].items \subseteq Addresses =>
        SixNumbers(b) = batches[b].total

(***************************************************************************)
(* What _batch_breakdown says of itself, of every batch shown as done: "the *)
(* six numbers still sum to the batch total".  The items keep their         *)
(* spelling, verdicts are stored under the lower-cased address, and the     *)
(* JOIN compares the two; a worker that raised stores nothing.              *)
(***************************************************************************)
SixNumbersSum == \A b \in Ids : Finished(b) => SixNumbers(b) = batches[b].total

(***************************************************************************)
(* The checker never stays blocked: the lock is given back on every path,   *)
(* an exception in the thread or in a worker included.                      *)
(***************************************************************************)
LockComesBack == lock # 0 ~> lock = 0
=============================================================================
