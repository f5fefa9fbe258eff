--------------------------- MODULE VerifierProofs ---------------------------
(***************************************************************************)
(* The address checker, for any number of batches, threads, addresses'      *)
(* answers, kills and exceptions: its types, one batch at a time, the lock  *)
(* as an implementation of OneAtATime and as a turn that only gets shorter, *)
(* and what a finished batch's row and buckets add up to.                   *)
(***************************************************************************)
EXTENDS Verifier, FiniteSetTheorems, TLAPS

Stored   == {row \in Rows : row.verdict \in Verdicts}
Counts   == [Verdicts -> Nat]
BatchRow == [status : {"absent", "running", "done", "error"}, items : SUBSET Spellings,
             total : Nat, done : Nat, counts : Counts]

\* A thread has no batch, or has not begun with its batch, or is at work.
Queued == [phase : {"starting"}, batch : Ids, todo : {{}}, answers : {{}},
            done : {0}, counts : {NoCounts}]
Busy    == [phase : {"working", "failing", "ending"}, batch : Ids, todo : SUBSET Spellings,
            answers : SUBSET (Spellings \X Verdicts), done : Nat, counts : Counts]
Thread  == {Idle} \cup Queued \cup Busy

\* Types, and every stored row has a verdict.
Shaped ==
    /\ cached \in [Addresses -> Stored \cup {NoRow}]
    /\ threads \in [Threads -> Thread]
    /\ batches \in [Ids -> BatchRow]
    /\ lock \in 0..MaxThreads
    /\ uploads \in 0..2
    /\ deletes \subseteq Ids
    /\ lost \subseteq Ids
    /\ reused \subseteq Ids
    /\ incidents \in 0..MaxIncidents

AtWork == {t \in Threads : threads[t].phase \in {"working", "failing", "ending"}}

\* The numbers that name batches and threads.
LEMMA Numbers ==
    /\ MaxBatches \in Nat /\ MaxThreads \in Nat /\ MaxIncidents \in Nat
    /\ 0 \notin Ids /\ 0 \notin Threads
    /\ \A b \in Ids : b \in 0..MaxBatches
    /\ \A t \in Threads : t \in 0..MaxThreads
BY VerifierAssumption DEF Ids, Threads

\* What each sort of thread looks like.
LEMMA ThreadSorts ==
    /\ Idle.phase = "none" /\ Idle.batch = 0 /\ Idle.todo = {} /\ Idle.answers = {}
    /\ \A th \in Thread :
          /\ th.phase = "none" <=> th = Idle
          /\ th.phase = "starting" <=> th \in Queued
          /\ th.phase \in {"working", "failing", "ending"} <=> th \in Busy
          /\ th.phase # "none" <=> th.batch \in Ids
          /\ th.todo # {} \/ th.answers # {} => th \in Busy
BY Numbers DEF Idle, Thread, Queued, Busy

\* The shape is the type invariant.
LEMMA ShapedIsTyped == Shaped => VerifierTypeOK
<1>1. Stored \cup {NoRow} \subseteq Rows
  <2>1. NoRow \in Rows
    BY DEF NoRow, Rows
  <2> QED
    BY <2>1 DEF Stored
<1> DEFINE Any == [phase : Phases, batch : 0..MaxBatches, todo : SUBSET Spellings,
                   answers : SUBSET (Spellings \X Verdicts), done : Nat, counts : Counts]
<1>2. /\ Idle \in Any
      /\ Queued \subseteq Any
      /\ Busy \subseteq Any
  BY Numbers, ThreadSorts DEF Idle, Queued, Busy, Phases, Counts, NoCounts
<1>3. Thread \subseteq Any
  BY <1>2 DEF Thread
<1> QED
  BY <1>1, <1>3 DEF Shaped, VerifierTypeOK, BatchRow, Counts

\* What the pipeline can say about an address.
LEMMA OutcomesTyped ==
    ASSUME NEW a
    PROVE  Outcomes(a) \subseteq Stored
<1> SUFFICES ASSUME NEW reply \in Replies
             PROVE  RowOf(a, reply[1], reply[2]) \in Stored
  BY DEF Outcomes
<1>1. reply[1] \in BOOLEAN
  BY VerifierAssumption
<1> QED
  BY <1>1 DEF RowOf, Row, ByCode, Verdicts, Rows, Stored

\* verify_email keeps the cache typed and returns one of the four verdicts;
\* afterwards the address has a row, and no address has lost its own.
LEMMA VerifyEmailStores ==
    ASSUME cached \in [Addresses -> Stored \cup {NoRow}], NEW a \in Addresses,
           NEW row \in Outcomes(a) \cup {cached[a]}, VerifyEmail(a, row)
    PROVE  /\ cached' \in [Addresses -> Stored \cup {NoRow}]
           /\ row.verdict \in Verdicts
           /\ cached'[a] # NoRow
           /\ \A other \in Addresses : cached[other] # NoRow => cached'[other] # NoRow
<1>0. NoRow \notin Stored
  BY DEF NoRow, Stored, Verdicts
<1>1. CASE row \in Outcomes(a) /\ cached' = [cached EXCEPT ![a] = row]
  BY <1>0, <1>1, OutcomesTyped DEF Stored
<1>2. CASE row = cached[a] /\ row # NoRow /\ UNCHANGED cached
  BY <1>2 DEF Stored
<1> QED
  BY <1>1, <1>2 DEF VerifyEmail

\* Taking an item off a thread and adding its answer keeps the thread at work.
LEMMA AnswerTyped ==
    ASSUME NEW th \in Busy, NEW item \in Spellings, NEW v \in Verdicts
    PROVE  [th EXCEPT !.todo = @ \ {item}, !.answers = @ \cup {<<item, v>>}] \in Busy
<1>1. th.todo \ {item} \in SUBSET Spellings
  BY DEF Busy
<1>2. th.answers \cup {<<item, v>>} \in SUBSET (Spellings \X Verdicts)
  BY DEF Busy
<1> QED
  BY <1>1, <1>2 DEF Busy

\* The spellings and the verdicts are few, and so are their pairs.
LEMMA FewSpellings ==
    /\ IsFiniteSet(Spellings)
    /\ IsFiniteSet(Spellings \X Verdicts)
<1>1. /\ IsFiniteSet({"ann"}) /\ IsFiniteSet({"Ann"}) /\ IsFiniteSet({"tmp"})
      /\ IsFiniteSet({"valid"}) /\ IsFiniteSet({"invalid"})
      /\ IsFiniteSet({"risky"}) /\ IsFiniteSet({"unknown"})
  BY FS_Singleton
<1>2. IsFiniteSet(({"ann"} \cup {"Ann"}) \cup {"tmp"})
  BY <1>1, FS_Union
<1>3. IsFiniteSet(({"valid"} \cup {"invalid"}) \cup ({"risky"} \cup {"unknown"}))
  BY <1>1, FS_Union
<1>4. /\ ({"ann"} \cup {"Ann"}) \cup {"tmp"} = Spellings
      /\ ({"valid"} \cup {"invalid"}) \cup ({"risky"} \cup {"unknown"}) = Verdicts
  BY DEF Spellings, Verdicts
<1>5. IsFiniteSet(Spellings) /\ IsFiniteSet(Verdicts)
  BY <1>2, <1>3, <1>4
<1> QED
  BY <1>5, FS_Product

\* A batch begins with as many addresses as its list has.
LEMMA ListsAreSmall ==
    ASSUME NEW items \in Lists
    PROVE  items \in SUBSET Spellings /\ Cardinality(items) \in Nat
<1>1. items \in SUBSET Spellings
  BY VerifierAssumption
<1> QED
  BY <1>1, FewSpellings, FS_Subset, FS_CardinalityType

LEMMA ShapedInit == VerifierInit => Shaped
<1> SUFFICES ASSUME VerifierInit PROVE Shaped
  OBVIOUS
<1>1. NoBatch \in BatchRow
  BY DEF NoBatch, NoCounts, Counts, BatchRow
<1> QED
  BY <1>1, Numbers DEF VerifierInit, Shaped, Thread

\* What the batch threads do to a row, and to themselves.
LEMMA RowUpdatesTyped ==
    ASSUME batches \in [Ids -> BatchRow], NEW b \in Ids,
           NEW done \in Nat, NEW counts \in Counts, NEW status \in {"running", "done", "error"}
    PROVE  /\ Progress(b, done, counts) => batches' \in [Ids -> BatchRow]
           /\ Status(b, status) => batches' \in [Ids -> BatchRow]
           /\ UNCHANGED batches => batches' \in [Ids -> BatchRow]
<1>1. batches[b] \in BatchRow
  OBVIOUS
<1>2. /\ [batches[b] EXCEPT !.done = done, !.counts = counts] \in BatchRow
      /\ [batches[b] EXCEPT !.status = status] \in BatchRow
  BY <1>1 DEF BatchRow
<1> QED
  BY <1>2 DEF Progress, Status

LEMMA ShapedNext == Shaped /\ [VerifierNext]_verifierVars => Shaped'
<1> SUFFICES ASSUME Shaped, [VerifierNext]_verifierVars PROVE Shaped'
  OBVIOUS
<1>0. /\ \A t \in Threads : threads[t] \in Thread
      /\ \A b \in Ids : batches[b] \in BatchRow
  BY DEF Shaped
<1>i. ASSUME Incident PROVE incidents' \in 0..MaxIncidents
  BY <1>i, Numbers DEF Incident, Shaped
<1>1. CASE CheckOne
  BY <1>1, <1>i, VerifyEmailStores DEF CheckOne, Shaped
<1>2. CASE UploadPasses
  BY <1>2 DEF UploadPasses, Shaped
<1>3. CASE UploadInserts
  <2>1. PICK items \in Lists \ {{}} :
          batches' = [batches EXCEPT ![NextId] =
              [NoBatch EXCEPT !.status = "running", !.items = items, !.total = Cardinality(items)]]
    BY <1>3 DEF UploadInserts
  <2>2. items \in SUBSET Spellings /\ Cardinality(items) \in Nat
    BY ListsAreSmall
  <2>3. [NoBatch EXCEPT !.status = "running", !.items = items, !.total = Cardinality(items)]
          \in BatchRow
    BY <2>2 DEF NoBatch, NoCounts, Counts, BatchRow
  <2>4. NextId \in Ids
    BY <1>3 DEF UploadInserts
  <2>5. [Idle EXCEPT !.phase = "starting", !.batch = NextId] \in Queued
    BY <2>4 DEF Idle, Queued
  <2>6. /\ uploads' \in 0..2
        /\ reused' \subseteq Ids
        /\ lost' \subseteq Ids
    BY <1>3, <2>4 DEF UploadInserts, Shaped
  <2>7. threads' \in [Threads -> Thread]
    BY <1>3, <2>5 DEF UploadInserts, Shaped, Thread
  <2> QED
    BY <1>3, <2>1, <2>3, <2>6, <2>7 DEF UploadInserts, Shaped
<1>4. CASE Kill
  BY <1>4, <1>i, Numbers DEF Kill, Shaped, Thread
<1>5. ASSUME NEW t \in Threads, BatchStarts(t) PROVE Shaped'
  <2>1. threads[t] \in Thread /\ threads[t].phase = "starting" /\ t \in 0..MaxThreads
    BY <1>0, <1>5, Numbers DEF BatchStarts
  <2>2. threads[t] \in Queued
    BY <2>1, ThreadSorts
  <2>3. batches[threads[t].batch].items \in SUBSET Spellings
    BY <1>0, <2>2 DEF BatchRow, Queued
  <2>4. [threads[t] EXCEPT !.phase = "working", !.todo = batches[threads[t].batch].items] \in Busy
    <3>1. NoCounts \in Counts
      BY DEF Counts, NoCounts
    <3>2. threads[t] \in [phase : {"starting"}, batch : Ids, todo : SUBSET Spellings,
                          answers : SUBSET (Spellings \X Verdicts), done : Nat, counts : Counts]
      BY <2>2, <3>1 DEF Queued
    <3> QED
      BY <2>3, <3>2 DEF Busy
  <2> QED
    BY <1>5, <2>1, <2>4 DEF BatchStarts, Begins, Shaped, Thread
<1>6. ASSUME NEW t \in Threads, WorkerAnswers(t) \/ WorkerRaises(t) PROVE Shaped'
  <2>1. PICK item \in threads[t].todo, v \in Verdicts :
          /\ Answer(t, item, v)
          /\ cached' \in [Addresses -> Stored \cup {NoRow}]
          /\ incidents' \in 0..MaxIncidents
          /\ lost' = lost \/ lost' = lost \cup {threads[t].batch}
    <3>1. CASE WorkerAnswers(t)
      <4>1. PICK item \in threads[t].todo :
              \E row \in Outcomes(Lower[item]) \cup {cached[Lower[item]]} :
                  VerifyEmail(Lower[item], row) /\ Answer(t, item, row.verdict)
        BY <3>1 DEF WorkerAnswers
      <4>2. item \in Spellings
        BY <1>0, ThreadSorts DEF Busy
      <4>3. Lower[item] \in Addresses
        BY <4>2 DEF Lower, Spellings, Addresses
      <4>4. PICK row \in Outcomes(Lower[item]) \cup {cached[Lower[item]]} :
                  VerifyEmail(Lower[item], row) /\ Answer(t, item, row.verdict)
        BY <4>1
      <4>5. cached' \in [Addresses -> Stored \cup {NoRow}] /\ row.verdict \in Verdicts
        BY <4>3, <4>4, VerifyEmailStores DEF Shaped
      <4> QED
        BY <3>1, <4>4, <4>5 DEF WorkerAnswers, Shaped
    <3>2. CASE WorkerRaises(t)
      BY <3>2, <1>i DEF WorkerRaises, Verdicts, Shaped
    <3> QED
      BY <1>6, <3>1, <3>2
  <2>2. threads[t] \in Busy
    BY <1>0, <2>1, ThreadSorts
  <2>3. item \in Spellings /\ threads[t].batch \in Ids
    BY <2>1, <2>2 DEF Busy
  <2> DEFINE th == [threads[t] EXCEPT !.todo = @ \ {item}, !.answers = @ \cup {<<item, v>>}]
  <2>4. th \in Busy
    BY <2>2, <2>3, AnswerTyped
  <2>5. threads' = [threads EXCEPT ![t] = th]
    BY <2>1 DEF Answer
  <2> HIDE DEF th
  <2>6. threads' \in [Threads -> Thread]
    BY <2>4, <2>5 DEF Shaped, Thread
  <2> QED
    BY <1>6, <2>1, <2>3, <2>6 DEF WorkerAnswers, WorkerRaises, Shaped
<1>7. ASSUME NEW t \in Threads, Count(t) PROVE Shaped'
  <2> DEFINE done == threads[t].done + 1
  <2>1. PICK answer \in threads[t].answers :
          LET counts == [threads[t].counts EXCEPT ![answer[2]] = @ + 1]
          IN  /\ threads' = [threads EXCEPT ![t].answers = @ \ {answer},
                                            ![t].done = done, ![t].counts = counts]
              /\ Progress(threads[t].batch, done, counts)
    BY <1>7 DEF Count
  <2> DEFINE counts == [threads[t].counts EXCEPT ![answer[2]] = @ + 1]
  <2>2. threads[t] \in Busy
    BY <1>0, <2>1, ThreadSorts
  <2>3. done \in Nat /\ counts \in Counts /\ threads[t].batch \in Ids
    BY <2>2 DEF Busy, Counts
  <2> DEFINE th == [threads[t] EXCEPT !.answers = @ \ {answer}, !.done = done, !.counts = counts]
  <2>4. th \in Busy
    BY <2>2, <2>3 DEF Busy
  <2>5. threads' = [threads EXCEPT ![t] = th]
    BY <2>1
  <2>6. Progress(threads[t].batch, done, counts)
    BY <2>1
  <2> HIDE DEF th, done, counts
  <2>7. batches' \in [Ids -> BatchRow]
    BY <2>3, <2>6, RowUpdatesTyped DEF Shaped
  <2> QED
    BY <1>7, <2>4, <2>5, <2>7 DEF Count, Shaped, Thread
<1>8. ASSUME NEW t \in Threads, BatchRaises(t) PROVE Shaped'
  <2>1. threads[t] \in Busy
    BY <1>0, <1>8, ThreadSorts DEF BatchRaises
  <2>2. [threads[t] EXCEPT !.phase = "failing"] \in Busy
    BY <2>1 DEF Busy
  <2> QED
    BY <1>8, <1>i, <2>2 DEF BatchRaises, Shaped, Thread
<1>9. ASSUME NEW t \in Threads, BatchEnds(t) PROVE Shaped'
  <2>1. threads[t] \in Busy
    BY <1>0, <1>9, ThreadSorts DEF BatchEnds
  <2>2. [threads[t] EXCEPT !.phase = "ending"] \in Busy /\ threads[t].batch \in Ids
    BY <2>1 DEF Busy
  <2>3. \/ Status(threads[t].batch, "done") \/ Status(threads[t].batch, "error")
        \/ UNCHANGED batches
    BY <1>9 DEF BatchEnds
  <2>4. NoCounts \in Counts /\ 0 \in Nat
    BY DEF NoCounts, Counts
  <2>5. batches' \in [Ids -> BatchRow]
    BY <2>2, <2>3, <2>4, RowUpdatesTyped DEF Shaped
  <2> QED
    BY <1>9, <2>2, <2>5 DEF BatchEnds, Shaped, Thread
<1>10. ASSUME NEW t \in Threads, BatchReleases(t) PROVE Shaped'
  BY <1>10, Numbers DEF BatchReleases, Shaped, Thread
<1>11. ASSUME NEW b \in Ids, DeletePasses(b) PROVE Shaped'
  BY <1>11, <1>i DEF DeletePasses, Shaped
<1>12. ASSUME NEW b \in Ids, DeleteRows(b) PROVE Shaped'
  <2>1. NoBatch \in BatchRow
    BY DEF NoBatch, NoCounts, Counts, BatchRow
  <2> QED
    BY <1>12, <2>1 DEF DeleteRows, Shaped
<1>13. CASE UNCHANGED verifierVars
  BY <1>13 DEF verifierVars, Shaped
<1> QED
  BY <1>1, <1>2, <1>3, <1>4, <1>5, <1>6, <1>7, <1>8, <1>9, <1>10, <1>11, <1>12, <1>13
  DEF VerifierNext, BatchThread

(***************************************************************************)
(* Every variable of the checker keeps its type, whatever ids are given     *)
(* away twice (web.py, the email checker's section).                        *)
(***************************************************************************)
THEOREM VerifierTyping == VerifierSpec => []VerifierTypeOK
  BY ShapedInit, ShapedNext, ShapedIsTyped, PTL DEF VerifierSpec

(***************************************************************************)
(* One batch at a time.  Inductively: whoever is at work holds the lock,    *)
(* and 0, "nobody", is no thread.                                           *)
(***************************************************************************)
VerifierInv == Shaped /\ OneBatchProbes

\* An answer changes the answering thread, and neither its phase nor its batch.
LEMMA AnswerEffect ==
    ASSUME Shaped, NEW t \in Threads, WorkerAnswers(t) \/ WorkerRaises(t)
    PROVE  \E item \in threads[t].todo, v \in Verdicts :
              /\ threads[t] \in Busy
              /\ threads'[t].phase = threads[t].phase
              /\ threads'[t].batch = threads[t].batch
              /\ threads'[t].todo = threads[t].todo \ {item}
              /\ threads'[t].answers = threads[t].answers \cup {<<item, v>>}
              /\ threads'[t].done = threads[t].done
              /\ threads'[t].counts = threads[t].counts
              /\ \A u \in Threads \ {t} : threads'[u] = threads[u]
              /\ UNCHANGED <<lock, batches, reused>>
              /\ \/ lost' = lost /\ cached'[Lower[item]] # NoRow
                 \/ lost' = lost \cup {threads[t].batch}
              /\ \A a \in Addresses : cached[a] # NoRow => cached'[a] # NoRow
<1>0. threads \in [Threads -> Thread] /\ cached \in [Addresses -> Stored \cup {NoRow}]
  BY DEF Shaped
<1>1. PICK item \in threads[t].todo, v \in Verdicts :
        /\ Answer(t, item, v)
        /\ \/ lost' = lost /\ (item \in Spellings => cached'[Lower[item]] # NoRow)
           \/ lost' = lost \cup {threads[t].batch}
        /\ item \in Spellings => \A a \in Addresses : cached[a] # NoRow => cached'[a] # NoRow
  <2>1. CASE WorkerAnswers(t)
    <3>1. PICK item \in threads[t].todo :
            \E row \in Outcomes(Lower[item]) \cup {cached[Lower[item]]} :
                VerifyEmail(Lower[item], row) /\ Answer(t, item, row.verdict)
      BY <2>1 DEF WorkerAnswers
    <3>2. PICK row \in Outcomes(Lower[item]) \cup {cached[Lower[item]]} :
                VerifyEmail(Lower[item], row) /\ Answer(t, item, row.verdict)
      BY <3>1
    <3>3. threads[t] \in Busy
      BY <1>0, ThreadSorts
    <3>4. item \in Spellings
      BY <3>3 DEF Busy
    <3>5. Lower[item] \in Addresses
      BY <3>4 DEF Lower, Spellings, Addresses
    <3>6. /\ row.verdict \in Verdicts
          /\ cached'[Lower[item]] # NoRow
          /\ \A a \in Addresses : cached[a] # NoRow => cached'[a] # NoRow
      BY <1>0, <3>2, <3>5, VerifyEmailStores
    <3>7. lost' = lost
      BY <2>1 DEF WorkerAnswers
    <3> QED
      BY <3>2, <3>6, <3>7
  <2>2. CASE WorkerRaises(t)
    BY <2>2 DEF WorkerRaises, Verdicts
  <2> QED
    BY <2>1, <2>2
<1>2. threads[t] \in Busy
  BY <1>0, ThreadSorts
<1>3. item \in Spellings
  BY <1>2 DEF Busy
<1> DEFINE th == [threads[t] EXCEPT !.todo = @ \ {item}, !.answers = @ \cup {<<item, v>>}]
<1>4. /\ th.phase = threads[t].phase /\ th.batch = threads[t].batch
      /\ th.todo = threads[t].todo \ {item}
      /\ th.answers = threads[t].answers \cup {<<item, v>>}
      /\ th.done = threads[t].done /\ th.counts = threads[t].counts
  BY <1>2 DEF Busy
<1>5. threads' = [threads EXCEPT ![t] = th]
  BY <1>1 DEF Answer
<1> HIDE DEF th
<1>6. threads'[t] = th /\ \A u \in Threads \ {t} : threads'[u] = threads[u]
  BY <1>0, <1>5
<1>7. UNCHANGED <<lock, batches, reused>>
  BY DEF WorkerAnswers, WorkerRaises
<1> QED
  BY <1>1, <1>2, <1>3, <1>4, <1>6, <1>7

\* Counting takes one answer off the thread; its row is written if it is there.
LEMMA CountEffect ==
    ASSUME Shaped, NEW t \in Threads, Count(t)
    PROVE  \E answer \in threads[t].answers :
              /\ threads[t] \in Busy
              /\ threads[t].phase = "working"
              /\ threads'[t].phase = "working"
              /\ threads'[t].batch = threads[t].batch
              /\ threads'[t].todo = threads[t].todo
              /\ threads'[t].answers = threads[t].answers \ {answer}
              /\ threads'[t].done = threads[t].done + 1
              /\ threads'[t].counts = [threads[t].counts EXCEPT ![answer[2]] = @ + 1]
              /\ \A u \in Threads \ {t} : threads'[u] = threads[u]
              /\ UNCHANGED <<lock, cached, reused, lost>>
              /\ Progress(threads[t].batch, threads'[t].done, threads'[t].counts)
<1>0. threads \in [Threads -> Thread]
  BY DEF Shaped
<1> DEFINE done == threads[t].done + 1
<1>1. PICK answer \in threads[t].answers :
        LET counts == [threads[t].counts EXCEPT ![answer[2]] = @ + 1]
        IN  /\ threads' = [threads EXCEPT ![t].answers = @ \ {answer},
                                          ![t].done = done, ![t].counts = counts]
            /\ Progress(threads[t].batch, done, counts)
  BY DEF Count
<1> DEFINE counts == [threads[t].counts EXCEPT ![answer[2]] = @ + 1]
           th == [threads[t] EXCEPT !.answers = @ \ {answer}, !.done = done, !.counts = counts]
<1>2. threads[t] \in Busy
  BY <1>0, <1>1, ThreadSorts
<1>3. /\ th.phase = threads[t].phase /\ th.batch = threads[t].batch
      /\ th.todo = threads[t].todo
      /\ th.answers = threads[t].answers \ {answer}
      /\ th.done = done /\ th.counts = counts
  BY <1>2 DEF Busy
<1>4. threads' = [threads EXCEPT ![t] = th]
  BY <1>1
<1>5. Progress(threads[t].batch, done, counts)
  BY <1>1
<1> HIDE DEF th, done, counts
<1>6. threads'[t] = th /\ \A u \in Threads \ {t} : threads'[u] = threads[u]
  BY <1>0, <1>4
<1>7. threads[t].phase = "working" /\ UNCHANGED <<lock, cached, reused, lost>>
  BY DEF Count
<1> QED
  BY <1>1, <1>2, <1>3, <1>5, <1>6, <1>7 DEF done, counts

\* What the other actions do to threads and lock.
LEMMA OneThreadMoves ==
    ASSUME Shaped, NEW t \in Threads
    PROVE  /\ BatchStarts(t) =>
                /\ threads[t] \in Queued
                /\ IF lock = 0
                   THEN /\ lock' = t
                        /\ threads'[t] \in Busy
                        /\ threads'[t].phase = "working" /\ threads'[t].batch = threads[t].batch
                        /\ threads'[t].todo = batches[threads[t].batch].items
                        /\ threads'[t].answers = {} /\ threads'[t].done = 0
                        /\ threads'[t].counts = NoCounts
                   ELSE UNCHANGED lock /\ threads'[t] = Idle
           /\ BatchRaises(t) =>
                /\ threads[t].phase = "working" /\ threads'[t].phase = "failing"
                /\ threads'[t].batch = threads[t].batch /\ UNCHANGED lock
           /\ BatchEnds(t) =>
                /\ threads[t].phase \in {"working", "failing"} /\ threads'[t].phase = "ending"
                /\ threads'[t].batch = threads[t].batch /\ UNCHANGED lock
           /\ BatchReleases(t) =>
                /\ threads[t].phase = "ending" /\ threads'[t] = Idle /\ lock' = 0
           /\ BatchStarts(t) \/ BatchRaises(t) \/ BatchEnds(t) \/ BatchReleases(t) =>
                \A u \in Threads \ {t} : threads'[u] = threads[u]
<1>0. threads \in [Threads -> Thread]
  BY DEF Shaped
<1>1. ASSUME BatchStarts(t)
      PROVE  /\ threads[t] \in Queued
             /\ IF lock = 0
                THEN /\ lock' = t
                     /\ threads'[t] \in Busy
                     /\ threads'[t].phase = "working" /\ threads'[t].batch = threads[t].batch
                     /\ threads'[t].todo = batches[threads[t].batch].items
                     /\ threads'[t].answers = {} /\ threads'[t].done = 0
                     /\ threads'[t].counts = NoCounts
                ELSE UNCHANGED lock /\ threads'[t] = Idle
             /\ \A u \in Threads \ {t} : threads'[u] = threads[u]
  <2>1. threads[t] \in Queued
    BY <1>0, <1>1, ThreadSorts DEF BatchStarts
  <2>2. ASSUME lock = 0
        PROVE  threads'[t].phase = "working" /\ threads'[t].batch = threads[t].batch
               /\ threads'[t].todo = batches[threads[t].batch].items
               /\ threads'[t].answers = {} /\ threads'[t].done = 0
               /\ threads'[t].counts = NoCounts /\ lock' = t
    BY <1>0, <1>1, <2>1, <2>2 DEF BatchStarts, Begins, Queued
  <2>3. ASSUME lock = 0 PROVE threads'[t] \in Busy
    <3>1. /\ [VerifierNext]_verifierVars
      BY <1>1 DEF VerifierNext, BatchThread
    <3>2. threads'[t] \in Thread
      BY <3>1, ShapedNext DEF Shaped
    <3> QED
      BY <2>2, <2>3, <3>2, ThreadSorts
  <2> QED
    BY <1>0, <1>1, <2>1, <2>2, <2>3 DEF BatchStarts, Begins
<1>2. ASSUME BatchRaises(t)
      PROVE  /\ threads[t].phase = "working" /\ threads'[t].phase = "failing"
             /\ threads'[t].batch = threads[t].batch /\ UNCHANGED lock
             /\ \A u \in Threads \ {t} : threads'[u] = threads[u]
  <2>1. threads[t] \in Busy
    BY <1>0, <1>2, ThreadSorts DEF BatchRaises
  <2> QED
    BY <1>0, <1>2, <2>1 DEF BatchRaises, Busy
<1>3. ASSUME BatchEnds(t)
      PROVE  /\ threads[t].phase \in {"working", "failing"} /\ threads'[t].phase = "ending"
             /\ threads'[t].batch = threads[t].batch /\ UNCHANGED lock
             /\ \A u \in Threads \ {t} : threads'[u] = threads[u]
  <2>1. threads[t].phase \in {"working", "failing"} /\ UNCHANGED lock
        /\ threads' = [threads EXCEPT ![t].phase = "ending"]
    BY <1>3 DEF BatchEnds
  <2>2. threads[t] \in Busy
    BY <1>0, <2>1, ThreadSorts
  <2> QED
    BY <1>0, <2>1, <2>2 DEF Busy
<1>4. ASSUME BatchReleases(t)
      PROVE  /\ threads[t].phase = "ending" /\ threads'[t] = Idle /\ lock' = 0
             /\ \A u \in Threads \ {t} : threads'[u] = threads[u]
  BY <1>0, <1>4 DEF BatchReleases
<1> QED
  BY <1>1, <1>2, <1>3, <1>4

\* The lock's holder is the only one at work, and only a start needs a check.
LEMMA InvNext == VerifierInv /\ [VerifierNext]_verifierVars => VerifierInv'
<1> SUFFICES ASSUME VerifierInv, [VerifierNext]_verifierVars PROVE OneBatchProbes'
  BY ShapedNext DEF VerifierInv
<1>0. Shaped /\ OneBatchProbes /\ 0 \notin Threads
  BY Numbers DEF VerifierInv
<1>1. CASE CheckOne \/ UploadPasses
  BY <1>0, <1>1 DEF CheckOne, UploadPasses, OneBatchProbes
<1>2. CASE UploadInserts
  BY <1>0, <1>2 DEF UploadInserts, OneBatchProbes, Shaped, Idle
<1>3. CASE Kill
  BY <1>0, <1>3 DEF Kill, OneBatchProbes, Idle
<1>4. ASSUME NEW t \in Threads,
             BatchStarts(t) \/ BatchRaises(t) \/ BatchEnds(t) \/ BatchReleases(t)
      PROVE  OneBatchProbes'
  BY <1>0, <1>4, OneThreadMoves, ThreadSorts DEF OneBatchProbes
<1>5. ASSUME NEW t \in Threads, WorkerAnswers(t) \/ WorkerRaises(t) PROVE OneBatchProbes'
  BY <1>0, <1>5, AnswerEffect DEF OneBatchProbes
<1>6. ASSUME NEW t \in Threads, Count(t) PROVE OneBatchProbes'
  BY <1>0, <1>6, CountEffect DEF OneBatchProbes
<1>7. ASSUME NEW b \in Ids, DeletePasses(b) \/ DeleteRows(b) PROVE OneBatchProbes'
  BY <1>0, <1>7 DEF DeletePasses, DeleteRows, OneBatchProbes
<1>8. CASE UNCHANGED verifierVars
  BY <1>0, <1>8 DEF verifierVars, OneBatchProbes
<1> QED
  BY <1>1, <1>2, <1>3, <1>4, <1>5, <1>6, <1>7, <1>8 DEF VerifierNext, BatchThread

LEMMA InvInit == VerifierInit => VerifierInv /\ AtWork = {}
<1> SUFFICES ASSUME VerifierInit PROVE OneBatchProbes /\ AtWork = {}
  BY ShapedInit DEF VerifierInv
<1> QED
  BY DEF VerifierInit, OneBatchProbes, AtWork, Idle

(***************************************************************************)
(* At most one batch is being verified, in every reachable state, for any   *)
(* number of batches, threads and lists (web.py, _verifier_batch_lock).     *)
(***************************************************************************)
THEOREM OneBatchAtATime == VerifierSpec => []OneBatchProbes
  BY InvInit, InvNext, PTL DEF VerifierSpec, VerifierInv

\* Every step of the checker is a turn's start, a turn's end, or neither.
LEMMA StepsTakeTurns ==
    VerifierInv /\ [VerifierNext]_verifierVars => [Turns!Start \/ Turns!Stop]_AtWork
<1> SUFFICES ASSUME VerifierInv, [VerifierNext]_verifierVars
             PROVE  \/ AtWork = {} /\ \E one \in Threads : AtWork' = {one}
                    \/ AtWork # {} /\ AtWork' = {}
                    \/ AtWork' = AtWork
  BY DEF Turns!Start, Turns!Stop, AtWork
<1>0. Shaped /\ OneBatchProbes /\ 0 \notin Threads
  BY Numbers DEF VerifierInv
<1>1. CASE CheckOne \/ UploadPasses
  BY <1>1 DEF CheckOne, UploadPasses, AtWork
<1>2. CASE UploadInserts
  BY <1>0, <1>2 DEF UploadInserts, AtWork, Shaped, Idle
<1>3. CASE Kill
  BY <1>3 DEF Kill, AtWork, Idle
<1>4. ASSUME NEW t \in Threads, BatchStarts(t)
      PROVE  AtWork' = AtWork \/ (AtWork = {} /\ AtWork' = {t})
  <2>0. threads[t].phase = "starting"
    BY <1>4 DEF BatchStarts
  <2>1. CASE lock # 0
    BY <1>0, <1>4, <2>0, <2>1, OneThreadMoves, ThreadSorts DEF AtWork
  <2>2. CASE lock = 0
    <3>1. AtWork = {}
      BY <1>0, <2>2 DEF OneBatchProbes, AtWork
    <3>2. AtWork' = {t}
      BY <1>0, <1>4, <2>2, <3>1, OneThreadMoves DEF AtWork
    <3> QED
      BY <3>1, <3>2
  <2> QED
    BY <2>1, <2>2
<1>5. ASSUME NEW t \in Threads, WorkerAnswers(t) \/ WorkerRaises(t) PROVE AtWork' = AtWork
  <2>1. \A u \in Threads : threads'[u].phase = threads[u].phase
    BY <1>0, <1>5, AnswerEffect
  <2> QED
    BY <2>1 DEF AtWork
<1>6. ASSUME NEW t \in Threads, Count(t) PROVE AtWork' = AtWork
  <2>1. \A u \in Threads : threads'[u].phase = threads[u].phase
    BY <1>0, <1>6, CountEffect
  <2> QED
    BY <2>1 DEF AtWork
<1>7. ASSUME NEW t \in Threads, BatchRaises(t) \/ BatchEnds(t) PROVE AtWork' = AtWork
  BY <1>0, <1>7, OneThreadMoves DEF AtWork
<1>8. ASSUME NEW t \in Threads, BatchReleases(t) PROVE AtWork # {} /\ AtWork' = {}
  <2>1. AtWork = {t}
    BY <1>0, <1>8 DEF BatchReleases, OneBatchProbes, AtWork
  <2> QED
    BY <1>0, <1>8, <2>1, OneThreadMoves, ThreadSorts DEF AtWork
<1>9. ASSUME NEW b \in Ids, DeletePasses(b) \/ DeleteRows(b) PROVE AtWork' = AtWork
  BY <1>9 DEF DeletePasses, DeleteRows, AtWork
<1>10. CASE UNCHANGED verifierVars
  BY <1>10 DEF verifierVars, AtWork
<1> QED
  BY <1>1, <1>2, <1>3, <1>4, <1>5, <1>6, <1>7, <1>8, <1>9, <1>10 DEF VerifierNext, BatchThread

(***************************************************************************)
(* The lock, the threads and the process that can die implement             *)
(* OneAtATime: nobody begins while another is at work, and a turn ends with *)
(* nobody at work (web.py _run_verification_batch).                         *)
(***************************************************************************)
THEOREM LockTakesTurns == VerifierSpec => TakesTurns
<1>1. AtWork = {} => Turns!Init
  BY DEF Turns!Init, AtWork
<1> QED
  BY <1>1, InvInit, InvNext, StepsTakeTurns, PTL
  DEF VerifierSpec, TakesTurns, Turns!Spec, AtWork

-----------------------------------------------------------------------------
(***************************************************************************)
(* Why the lock comes back, but for the fairness: whoever holds it is a     *)
(* thread at work, with a number of steps before it that no other actor     *)
(* adds to, and that each of its own takes from.                            *)
(***************************************************************************)
HolderWorks == lock # 0 => lock \in AtWork

PhaseSteps(phase) == CASE phase = "working" -> 2 [] phase = "failing" -> 1 [] OTHER -> 0

\* Every item is answered and then counted.
StepsLeft(t) ==
    2 * Cardinality(threads[t].todo) + Cardinality(threads[t].answers)
      + PhaseSteps(threads[t].phase)

\* Of the turn of thread t, a step ends it, shortens it or leaves it alone.
TurnGoesOn(t) ==
    \/ lock' = 0
    \/ lock' = t /\ StepsLeft(t)' < StepsLeft(t)
    \/ lock' = t /\ threads'[t] = threads[t]

LEMMA StepsAreNumbers ==
    ASSUME NEW th \in Busy
    PROVE  /\ IsFiniteSet(th.todo) /\ Cardinality(th.todo) \in Nat
           /\ IsFiniteSet(th.answers) /\ Cardinality(th.answers) \in Nat
<1>1. th.todo \in SUBSET Spellings /\ th.answers \in SUBSET (Spellings \X Verdicts)
  BY DEF Busy
<1> QED
  BY <1>1, FewSpellings, FS_Subset, FS_CardinalityType

LEMMA TurnShortens ==
    ASSUME Shaped, NEW t \in Threads, t \in AtWork,
           WorkerAnswers(t) \/ WorkerRaises(t) \/ Count(t) \/ BatchRaises(t) \/ BatchEnds(t)
    PROVE  StepsLeft(t)' < StepsLeft(t)
<1>0. threads[t] \in Busy /\ threads \in [Threads -> Thread]
  BY ThreadSorts DEF Shaped, AtWork
<1>1. /\ IsFiniteSet(threads[t].todo) /\ Cardinality(threads[t].todo) \in Nat
      /\ IsFiniteSet(threads[t].answers) /\ Cardinality(threads[t].answers) \in Nat
  BY <1>0, StepsAreNumbers
<1>2. CASE WorkerAnswers(t) \/ WorkerRaises(t)
  <2>1. PICK item \in threads[t].todo, v \in Verdicts :
          /\ threads'[t].phase = threads[t].phase
          /\ threads'[t].todo = threads[t].todo \ {item}
          /\ threads'[t].answers = threads[t].answers \cup {<<item, v>>}
    BY <1>2, AnswerEffect
  <2>2. Cardinality(threads'[t].todo) = Cardinality(threads[t].todo) - 1
    <3>1. Cardinality(threads[t].todo \ {item}) = Cardinality(threads[t].todo) - 1
      BY <1>1, FS_RemoveElement
    <3> QED
      BY <2>1, <3>1
  <2>3. Cardinality(threads'[t].answers) \in
          {Cardinality(threads[t].answers), Cardinality(threads[t].answers) + 1}
    BY <1>1, <2>1, FS_AddElement
  <2> QED
    BY <1>1, <2>1, <2>2, <2>3 DEF StepsLeft, PhaseSteps
<1>3. CASE Count(t)
  <2>1. PICK answer \in threads[t].answers :
          /\ threads'[t].phase = threads[t].phase
          /\ threads'[t].todo = threads[t].todo
          /\ threads'[t].answers = threads[t].answers \ {answer}
    BY <1>3, CountEffect
  <2>2. Cardinality(threads'[t].answers) = Cardinality(threads[t].answers) - 1
    BY <1>1, <2>1, FS_RemoveElement
  <2> QED
    BY <1>1, <2>1, <2>2 DEF StepsLeft, PhaseSteps
<1>4. CASE BatchRaises(t) \/ BatchEnds(t)
  <2>1. \/ threads[t].phase = "working" /\ threads'[t].phase \in {"failing", "ending"}
        \/ threads[t].phase = "failing" /\ threads'[t].phase = "ending"
    BY <1>0, <1>4, OneThreadMoves DEF BatchRaises, BatchEnds, Busy
  <2>2. threads'[t].todo = threads[t].todo /\ threads'[t].answers = threads[t].answers
    BY <1>0, <1>4 DEF BatchRaises, BatchEnds, Busy
  <2> QED
    BY <1>1, <2>1, <2>2 DEF StepsLeft, PhaseSteps
<1> QED
  BY <1>2, <1>3, <1>4

LEMMA TurnNext ==
    ASSUME VerifierInv, HolderWorks, [VerifierNext]_verifierVars
    PROVE  HolderWorks' /\ \A t \in Threads : lock = t => TurnGoesOn(t)
<1>0. Shaped /\ OneBatchProbes /\ 0 \notin Threads
  BY Numbers DEF VerifierInv
<1> SUFFICES /\ lock' # 0 => lock' \in AtWork'
             /\ lock \in AtWork => TurnGoesOn(lock)
  BY <1>0 DEF HolderWorks
<1>1. CASE UNCHANGED <<lock, threads>>
  BY <1>0, <1>1 DEF HolderWorks, TurnGoesOn, AtWork
<1>2. CASE UploadInserts
  <2>1. PICK t \in Threads : /\ threads[t] = Idle /\ UNCHANGED lock
                             /\ \A u \in Threads \ {t} : threads'[u] = threads[u]
    BY <1>0, <1>2 DEF UploadInserts, Shaped
  <2>2. t \notin AtWork
    BY <2>1 DEF AtWork, Idle
  <2> QED
    BY <1>0, <2>1, <2>2 DEF HolderWorks, TurnGoesOn, AtWork
<1>3. CASE Kill
  BY <1>3 DEF Kill, TurnGoesOn
<1>4. ASSUME NEW t \in Threads, BatchStarts(t)
      PROVE  (lock' # 0 => lock' \in AtWork') /\ (lock \in AtWork => TurnGoesOn(lock))
  <2>1. t \notin AtWork
    BY <1>4 DEF BatchStarts, AtWork
  <2>2. CASE lock = 0
    BY <1>0, <1>4, <2>2, OneThreadMoves DEF AtWork
  <2>3. CASE lock # 0
    BY <1>0, <1>4, <2>1, <2>3, OneThreadMoves DEF HolderWorks, TurnGoesOn, AtWork
  <2> QED
    BY <2>2, <2>3
<1>5. ASSUME NEW t \in Threads,
             WorkerAnswers(t) \/ WorkerRaises(t) \/ Count(t) \/ BatchRaises(t) \/ BatchEnds(t)
      PROVE  (lock' # 0 => lock' \in AtWork') /\ (lock \in AtWork => TurnGoesOn(lock))
  <2>1. /\ t \in AtWork /\ t \in AtWork' /\ UNCHANGED lock
        /\ \A u \in Threads \ {t} : threads'[u] = threads[u]
    <3>1. CASE WorkerAnswers(t) \/ WorkerRaises(t)
      BY <1>0, <3>1, AnswerEffect DEF AtWork, Busy
    <3>2. CASE Count(t)
      BY <1>0, <3>2, CountEffect DEF AtWork
    <3>3. CASE BatchRaises(t) \/ BatchEnds(t)
      BY <1>0, <3>3, OneThreadMoves DEF AtWork
    <3> QED
      BY <1>5, <3>1, <3>2, <3>3
  <2>2. lock = t
    BY <1>0, <2>1 DEF OneBatchProbes, AtWork
  <2>3. StepsLeft(t)' < StepsLeft(t)
    BY <1>0, <1>5, <2>1, TurnShortens
  <2> QED
    BY <2>1, <2>2, <2>3 DEF TurnGoesOn
<1>6. ASSUME NEW t \in Threads, BatchReleases(t) PROVE lock' = 0
  BY <1>6 DEF BatchReleases
<1> QED
  BY <1>1, <1>2, <1>3, <1>4, <1>5, <1>6
  DEF VerifierNext, BatchThread, CheckOne, UploadPasses, DeletePasses, DeleteRows, verifierVars,
      TurnGoesOn

(***************************************************************************)
(* The lock is held only by a thread at work, and every step ends its turn, *)
(* brings it nearer to the end or leaves it alone: kills, deletions and     *)
(* other requests never prolong it, so that a thread the system goes on     *)
(* running gives the lock back (web.py _run_verification_batch, `finally`). *)
(***************************************************************************)
THEOREM TurnsGetShorter == VerifierSpec =>
    /\ []HolderWorks
    /\ [][\A t \in Threads : lock = t => TurnGoesOn(t)]_verifierVars
<1>1. VerifierInit => VerifierInv /\ HolderWorks
  BY InvInit DEF VerifierInit, HolderWorks
<1> QED
  BY <1>1, InvNext, TurnNext, PTL DEF VerifierSpec

-----------------------------------------------------------------------------
(***************************************************************************)
(* What a finished batch adds up to.  Inductively: a thread that works for  *)
(* a row nobody else was given accounts for all of the row's addresses, and *)
(* nobody else can write that row.                                          *)
(***************************************************************************)
BatchOf(t) == threads[t].batch
RowFor(t)  == batches[BatchOf(t)]

\* Thread t works for a row that was never anybody else's.
Own(t) == BatchOf(t) \in Ids /\ Exists(BatchOf(t)) /\ BatchOf(t) \notin reused

\* No other thread was given the batch of a thread that works for its own row.
Sole == \A t, u \in Threads : Own(t) /\ BatchOf(u) = BatchOf(t) => u = t

\* Verdicts are stored for these items of batch b (or a worker raised).
StoredFor(b, items) == b \in lost \/ \A item \in items : cached[Lower[item]] # NoRow

\* What a thread at work has counted, is about to count, and has still to ask
\* is what its batch holds, and the row says the same as the thread.
Account(t) ==
    /\ threads[t].todo \subseteq RowFor(t).items
    /\ \A answer \in threads[t].answers : answer[1] \in RowFor(t).items \ threads[t].todo
    /\ Cardinality(threads[t].todo) + Cardinality(threads[t].answers) + threads[t].done
         = RowFor(t).total
    /\ Counted(threads[t].counts) = threads[t].done
    /\ RowFor(t).done = threads[t].done
    /\ RowFor(t).counts = threads[t].counts
    /\ StoredFor(BatchOf(t), RowFor(t).items \ threads[t].todo)

OnItsWay(t) ==
    Own(t) =>
        /\ threads[t].phase \in {"starting", "working", "failing"} => RowFor(t).status = "running"
        /\ threads[t].phase = "starting" => RowFor(t).done = 0 /\ RowFor(t).counts = NoCounts
        /\ threads[t].phase = "working" => Account(t)

\* A row is as large as its list, and a finished one is complete.
Complete(b) ==
    /\ Exists(b) => batches[b].total = Cardinality(batches[b].items)
    /\ Finished(b) =>
          /\ batches[b].done = batches[b].total
          /\ Counted(batches[b].counts) = batches[b].total
          /\ StoredFor(b, batches[b].items)

CountInv ==
    /\ Shaped
    /\ Sole
    /\ \A t \in Threads : OnItsWay(t)
    /\ \A b \in Ids : Complete(b)

\* No address loses its row.
NothingForgotten == \A a \in Addresses : cached[a] # NoRow => cached'[a] # NoRow

\* A thread that does not move, with a row that does not move, keeps its account.
LEMMA WayKept ==
    ASSUME Shaped, NothingForgotten, NEW t \in Threads, OnItsWay(t), threads'[t] = threads[t],
           Own(t)' => /\ Own(t)
                      /\ batches'[BatchOf(t)] = batches[BatchOf(t)]
                      /\ BatchOf(t) \in lost => BatchOf(t) \in lost'
    PROVE  OnItsWay(t)'
<1> SUFFICES ASSUME Own(t)' PROVE OnItsWay(t)'
  BY DEF OnItsWay
<1>1. BatchOf(t)' = BatchOf(t) /\ RowFor(t)' = RowFor(t)
  BY DEF BatchOf, RowFor
<1>2. RowFor(t).items \subseteq Spellings
  BY DEF Shaped, BatchRow, Own, RowFor
<1>3. \A item \in Spellings : Lower[item] \in Addresses
  BY DEF Lower, Spellings, Addresses
<1>4. ASSUME StoredFor(BatchOf(t), RowFor(t).items \ threads[t].todo)
      PROVE  StoredFor(BatchOf(t), RowFor(t).items \ threads[t].todo)'
  BY <1>1, <1>2, <1>3, <1>4 DEF StoredFor, NothingForgotten
<1> QED
  BY <1>1, <1>4 DEF OnItsWay, Account

\* A row that does not move stays complete.
LEMMA CompleteKept ==
    ASSUME Shaped, NothingForgotten, NEW b \in Ids, Complete(b), batches'[b] = batches[b],
           b \in reused => b \in reused',
           b \in lost => b \in lost'
    PROVE  Complete(b)'
<1>1. batches[b].items \subseteq Spellings
  BY DEF Shaped, BatchRow
<1>2. \A item \in Spellings : Lower[item] \in Addresses
  BY DEF Lower, Spellings, Addresses
<1>3. ASSUME StoredFor(b, batches[b].items) PROVE StoredFor(b, batches[b].items)'
  BY <1>1, <1>2, <1>3 DEF StoredFor, NothingForgotten
<1> QED
  BY <1>3 DEF Complete, Exists, Finished

\* Threads that keep their batch or come to rest stay alone with it.
LEMMA SoleKept ==
    ASSUME Sole, UNCHANGED reused,
           \A t \in Threads : threads'[t].batch = threads[t].batch \/ threads'[t] = Idle,
           \A b \in Ids : Exists(b)' => Exists(b)
    PROVE  Sole'
<1> SUFFICES ASSUME NEW t \in Threads, NEW u \in Threads, Own(t)', (BatchOf(u) = BatchOf(t))'
             PROVE  u = t
  BY DEF Sole
<1>1. threads'[t].batch \in Ids /\ threads'[u].batch \in Ids
  BY DEF Own, BatchOf
<1>2. threads'[t].batch = threads[t].batch /\ threads'[u].batch = threads[u].batch
  BY <1>1, ThreadSorts, Numbers
<1>3. Own(t) /\ BatchOf(u) = BatchOf(t)
  BY <1>1, <1>2 DEF Own, BatchOf
<1> QED
  BY <1>3 DEF Sole

\* What the two updates do, row by row.
LEMMA ProgressEffect ==
    ASSUME Shaped, NEW b \in Ids, NEW done \in Nat, NEW counts \in Counts,
           Progress(b, done, counts)
    PROVE  /\ \A c \in Ids \ {b} : batches'[c] = batches[c]
           /\ batches'[b].status = batches[b].status
           /\ batches'[b].items = batches[b].items
           /\ batches'[b].total = batches[b].total
           /\ Exists(b) => batches'[b].done = done /\ batches'[b].counts = counts
<1>1. batches \in [Ids -> BatchRow] /\ batches[b] \in BatchRow
  BY DEF Shaped
<1> QED
  BY <1>1 DEF Progress, BatchRow

LEMMA StatusEffect ==
    ASSUME Shaped, NEW b \in Ids, NEW status \in {"done", "error"}, Status(b, status)
    PROVE  /\ \A c \in Ids \ {b} : batches'[c] = batches[c]
           /\ batches'[b].status = IF Exists(b) THEN status ELSE batches[b].status
           /\ batches'[b].items = batches[b].items
           /\ batches'[b].total = batches[b].total
           /\ batches'[b].done = batches[b].done
           /\ batches'[b].counts = batches[b].counts
<1>1. batches \in [Ids -> BatchRow] /\ batches[b] \in BatchRow
  BY DEF Shaped
<1> QED
  BY <1>1 DEF Status, BatchRow

\* One more verdict counted is one more counted in all.
LEMMA CountedOneMore ==
    ASSUME NEW counts \in Counts, NEW v \in Verdicts
    PROVE  /\ Counted(counts) \in Nat
           /\ Counted([counts EXCEPT ![v] = @ + 1]) = Counted(counts) + 1
           /\ Counted(NoCounts) = 0
BY DEF Counts, Counted, Verdicts, NoCounts

\* A finite set of items or answers, and one of them taken out or put in.
LEMMA OneMoreOrLess ==
    ASSUME NEW S, S \subseteq Spellings \/ S \subseteq Spellings \X Verdicts, NEW x
    PROVE  /\ Cardinality(S) \in Nat
           /\ x \in S => Cardinality(S \ {x}) = Cardinality(S) - 1
           /\ x \notin S => Cardinality(S \cup {x}) = Cardinality(S) + 1
           /\ S = {} => Cardinality(S) = 0
<1>1. IsFiniteSet(S)
  BY FewSpellings, FS_Subset
<1> QED
  BY <1>1, FS_CardinalityType, FS_RemoveElement, FS_AddElement, FS_EmptySet

\* An upload: the new row is a row of the new thread's own, or of nobody's.
LEMMA UploadCounts == CountInv /\ UploadInserts => CountInv'
<1> SUFFICES ASSUME CountInv, UploadInserts PROVE CountInv'
  OBVIOUS
<1>1. Shaped /\ Shaped'
  BY ShapedNext DEF CountInv, VerifierNext
<1>2. PICK items \in Lists \ {{}} :
        batches' = [batches EXCEPT ![NextId] =
            [NoBatch EXCEPT !.status = "running", !.items = items, !.total = Cardinality(items)]]
  BY DEF UploadInserts
<1>3. PICK new \in Threads :
        /\ threads[new] = Idle
        /\ threads' = [threads EXCEPT ![new] = [Idle EXCEPT !.phase = "starting", !.batch = NextId]]
  BY DEF UploadInserts
<1>4. NextId \in Ids
  BY DEF UploadInserts
<1>5. /\ \A c \in Ids \ {NextId} : batches'[c] = batches[c]
      /\ batches'[NextId].status = "running" /\ batches'[NextId].items = items
      /\ batches'[NextId].total = Cardinality(items)
      /\ batches'[NextId].done = 0 /\ batches'[NextId].counts = NoCounts
  BY <1>1, <1>2, <1>4 DEF Shaped, NoBatch
<1>6. /\ \A u \in Threads \ {new} : threads'[u] = threads[u]
      /\ threads'[new].phase = "starting" /\ threads'[new].batch = NextId
  BY <1>1, <1>3 DEF Shaped, Idle
<1>7. /\ \A c \in Ids \ {NextId} : (c \in reused <=> c \in reused') /\ (c \in lost <=> c \in lost')
      /\ NextId \notin reused' => \A u \in Threads : threads[u].batch # NextId
  BY DEF UploadInserts, Holders
<1>8. NothingForgotten
  BY DEF UploadInserts, NothingForgotten
<1>9. Sole'
  <2> SUFFICES ASSUME NEW t \in Threads, NEW u \in Threads, Own(t)', (BatchOf(u) = BatchOf(t))'
               PROVE  u = t
    BY DEF Sole
  <2>1. CASE threads'[t].batch = NextId
    BY <1>6, <1>7, <2>1 DEF Own, BatchOf
  <2>2. CASE threads'[t].batch # NextId
    <3>1. threads'[t] = threads[t] /\ threads'[u] = threads[u]
      BY <1>6, <2>2 DEF BatchOf
    <3>2. Own(t) /\ BatchOf(u) = BatchOf(t)
      BY <1>5, <1>7, <2>2, <3>1 DEF Own, BatchOf, Exists
    <3> QED
      BY <3>2 DEF Sole, CountInv
  <2> QED
    BY <2>1, <2>2
<1>10. ASSUME NEW t \in Threads PROVE OnItsWay(t)'
  <2>1. CASE t = new
    BY <1>5, <1>6, <2>1 DEF OnItsWay, RowFor, BatchOf
  <2>2. CASE t # new
    <3>1. threads'[t] = threads[t]
      BY <1>6, <2>2
    <3>2. ASSUME Own(t)'
          PROVE  /\ Own(t)
                 /\ batches'[BatchOf(t)] = batches[BatchOf(t)]
                 /\ BatchOf(t) \in lost => BatchOf(t) \in lost'
      <4>1. threads[t].batch # NextId
        BY <1>7, <3>1, <3>2 DEF Own, BatchOf
      <4> QED
        BY <1>5, <1>7, <3>1, <3>2, <4>1 DEF Own, BatchOf, Exists
    <3> QED
      BY <1>1, <1>8, <3>1, <3>2, WayKept DEF CountInv
  <2> QED
    BY <2>1, <2>2
<1>11. ASSUME NEW b \in Ids PROVE Complete(b)'
  <2>1. CASE b = NextId
    BY <1>5, <2>1 DEF Complete, Finished
  <2>2. CASE b # NextId
    BY <1>1, <1>5, <1>7, <1>8, <2>2, CompleteKept DEF CountInv
  <2> QED
    BY <2>1, <2>2
<1> QED
  BY <1>1, <1>9, <1>10, <1>11 DEF CountInv

\* A start: everything is still to be asked.
LEMMA StartCounts ==
    ASSUME CountInv, NEW t \in Threads, BatchStarts(t)
    PROVE  CountInv'
<1>1. Shaped /\ Shaped'
  BY ShapedNext DEF CountInv, VerifierNext, BatchThread
<1>2. UNCHANGED <<cached, batches, lost, reused>>
  BY DEF BatchStarts
<1>3. NothingForgotten
  BY <1>2 DEF NothingForgotten
<1>4. /\ threads[t] \in Queued
      /\ \A u \in Threads \ {t} : threads'[u] = threads[u]
  BY <1>1, OneThreadMoves
<1>5. ASSUME NEW u \in Threads \ {t} PROVE OnItsWay(u)'
  BY <1>1, <1>2, <1>3, <1>4, WayKept DEF CountInv, Own, Exists, BatchOf
<1>6. OnItsWay(t)'
  <2>1. CASE lock # 0
    <3>1. threads'[t] = Idle
      BY <1>1, <2>1, OneThreadMoves
    <3>2. threads'[t].batch = 0
      BY <3>1, ThreadSorts
    <3> QED
      BY <3>2, Numbers DEF OnItsWay, Own, BatchOf
  <2>2. CASE lock = 0
    <3>1. /\ threads'[t].phase = "working" /\ threads'[t].batch = threads[t].batch
          /\ threads'[t].todo = batches[threads[t].batch].items
          /\ threads'[t].answers = {} /\ threads'[t].done = 0
          /\ threads'[t].counts = NoCounts
      BY <1>1, <2>2, OneThreadMoves
    <3> SUFFICES ASSUME Own(t)' PROVE RowFor(t)'.status = "running" /\ Account(t)'
      BY <3>1 DEF OnItsWay
    <3>2. Own(t) /\ RowFor(t)' = RowFor(t) /\ BatchOf(t)' = BatchOf(t) /\ threads[t].phase = "starting"
      BY <1>2, <1>4, <3>1 DEF Own, BatchOf, RowFor, Exists, Queued
    <3>3. RowFor(t).status = "running" /\ RowFor(t).done = 0 /\ RowFor(t).counts = NoCounts
      BY <3>2 DEF CountInv, OnItsWay
    <3>4. RowFor(t).total = Cardinality(RowFor(t).items) /\ RowFor(t).items \subseteq Spellings
      BY <1>1, <3>2 DEF CountInv, Complete, Own, RowFor, Shaped, BatchRow
    <3>5. threads'[t].todo = RowFor(t).items
      BY <3>1 DEF RowFor, BatchOf
    <3>6. Counted(NoCounts) = 0
      BY DEF Counted, NoCounts, Verdicts
    <3>7. Cardinality(RowFor(t).items) \in Nat /\ Cardinality({}) = 0
      BY <3>4, OneMoreOrLess, FS_EmptySet
    <3>8. Cardinality(threads'[t].todo) + Cardinality(threads'[t].answers) + threads'[t].done
            = RowFor(t).total
      BY <3>1, <3>4, <3>5, <3>7
    <3>9. StoredFor(BatchOf(t), RowFor(t).items \ threads[t].todo)'
      BY <3>2, <3>5 DEF StoredFor
    <3> QED
      BY <3>1, <3>2, <3>3, <3>5, <3>6, <3>8, <3>9 DEF Account
  <2> QED
    BY <2>1, <2>2
<1>7. Sole'
  <2>1. threads'[t].batch = threads[t].batch \/ threads'[t] = Idle
    BY <1>1, OneThreadMoves
  <2> QED
    BY <1>2, <1>4, <2>1, SoleKept DEF CountInv, Exists
<1>8. ASSUME NEW b \in Ids PROVE Complete(b)'
  BY <1>1, <1>2, <1>3, CompleteKept DEF CountInv
<1> QED
  BY <1>1, <1>5, <1>6, <1>7, <1>8 DEF CountInv

\* An answer: one address less to ask, one answer more to count.
LEMMA AnswerCounts ==
    ASSUME CountInv, NEW t \in Threads, WorkerAnswers(t) \/ WorkerRaises(t)
    PROVE  CountInv'
<1>1. Shaped /\ Shaped'
  BY ShapedNext DEF CountInv, VerifierNext, BatchThread
<1>2. PICK item \in threads[t].todo, v \in Verdicts :
        /\ threads[t] \in Busy
        /\ threads'[t].phase = threads[t].phase
        /\ threads'[t].batch = threads[t].batch
        /\ threads'[t].todo = threads[t].todo \ {item}
        /\ threads'[t].answers = threads[t].answers \cup {<<item, v>>}
        /\ threads'[t].done = threads[t].done
        /\ threads'[t].counts = threads[t].counts
        /\ \A u \in Threads \ {t} : threads'[u] = threads[u]
        /\ UNCHANGED <<lock, batches, reused>>
        /\ \/ lost' = lost /\ cached'[Lower[item]] # NoRow
           \/ lost' = lost \cup {threads[t].batch}
        /\ \A a \in Addresses : cached[a] # NoRow => cached'[a] # NoRow
  BY <1>1, AnswerEffect
<1>3. NothingForgotten
  BY <1>2 DEF NothingForgotten
<1>4. \A b \in Ids : b \in lost => b \in lost'
  BY <1>2
<1>5. Sole'
  BY <1>2, SoleKept DEF CountInv, Exists
<1>6. ASSUME NEW b \in Ids PROVE Complete(b)'
  BY <1>1, <1>2, <1>3, <1>4, CompleteKept DEF CountInv
<1>7. ASSUME NEW u \in Threads \ {t} PROVE OnItsWay(u)'
  BY <1>1, <1>2, <1>3, <1>4, WayKept DEF CountInv, Own, Exists, BatchOf
<1>8. OnItsWay(t)'
  <2> SUFFICES ASSUME Own(t)' PROVE OnItsWay(t)'
    BY DEF OnItsWay
  <2>1. /\ Own(t) /\ BatchOf(t)' = BatchOf(t) /\ RowFor(t)' = RowFor(t)
        /\ OnItsWay(t)
        /\ threads[t].phase \in {"working", "failing", "ending"}
    BY <1>2 DEF Own, BatchOf, RowFor, Exists, CountInv, Busy
  <2>2. ASSUME threads[t].phase = "working" PROVE Account(t)'
    <3>1. Account(t)
      BY <2>1, <2>2 DEF OnItsWay
    <3>2. threads[t].todo \subseteq Spellings /\ threads[t].answers \subseteq Spellings \X Verdicts
          /\ threads[t].done \in Nat
      BY <1>2 DEF Busy
    <3>3. <<item, v>> \notin threads[t].answers
      BY <3>1 DEF Account
    <3>4. /\ Cardinality(threads'[t].todo) = Cardinality(threads[t].todo) - 1
          /\ Cardinality(threads'[t].answers) = Cardinality(threads[t].answers) + 1
          /\ Cardinality(threads[t].todo) \in Nat
          /\ Cardinality(threads[t].answers) \in Nat
      <4>1. /\ Cardinality(threads[t].todo) \in Nat
            /\ Cardinality(threads[t].todo \ {item}) = Cardinality(threads[t].todo) - 1
        BY <1>2, <3>2, OneMoreOrLess
      <4>2. /\ Cardinality(threads[t].answers) \in Nat
            /\ Cardinality(threads[t].answers \cup {<<item, v>>})
                 = Cardinality(threads[t].answers) + 1
        BY <3>2, <3>3, OneMoreOrLess
      <4> QED
        BY <1>2, <4>1, <4>2
    <3>5. Cardinality(threads'[t].todo) + Cardinality(threads'[t].answers) + threads'[t].done
            = RowFor(t).total
      BY <1>2, <3>1, <3>2, <3>4 DEF Account
    <3>6. \A answer \in threads'[t].answers : answer[1] \in RowFor(t).items \ threads'[t].todo
      BY <1>2, <3>1 DEF Account
    <3>7. StoredFor(BatchOf(t), RowFor(t).items \ threads[t].todo)'
      <4>1. CASE BatchOf(t) \in lost'
        BY <2>1, <4>1 DEF StoredFor
      <4>2. CASE BatchOf(t) \notin lost'
        <5>1. cached'[Lower[item]] # NoRow /\ BatchOf(t) \notin lost
          BY <1>2, <4>2, <2>1 DEF BatchOf, Own
        <5>2. RowFor(t).items \subseteq Spellings
          BY <1>1, <2>1 DEF Shaped, BatchRow, Own, RowFor
        <5>3. \A other \in Spellings : Lower[other] \in Addresses
          BY DEF Lower, Spellings, Addresses
        <5>4. \A other \in RowFor(t).items \ threads[t].todo : cached[Lower[other]] # NoRow
          BY <3>1, <5>1 DEF Account, StoredFor
        <5>5. \A other \in RowFor(t).items \ threads'[t].todo : cached'[Lower[other]] # NoRow
          BY <1>2, <5>1, <5>2, <5>3, <5>4
        <5> QED
          BY <2>1, <5>5 DEF StoredFor
      <4> QED
        BY <4>1, <4>2
    <3> QED
      BY <1>2, <2>1, <3>1, <3>5, <3>6, <3>7 DEF Account
  <2> QED
    BY <1>2, <2>1, <2>2 DEF OnItsWay
<1> QED
  BY <1>1, <1>5, <1>6, <1>7, <1>8 DEF CountInv

\* Counting: one answer less to count, one more counted, in the row as well.
LEMMA CountCounts ==
    ASSUME CountInv, NEW t \in Threads, Count(t)
    PROVE  CountInv'
<1>1. Shaped /\ Shaped'
  BY ShapedNext DEF CountInv, VerifierNext, BatchThread
<1>2. PICK answer \in threads[t].answers :
        /\ threads[t] \in Busy
        /\ threads[t].phase = "working"
        /\ threads'[t].phase = "working"
        /\ threads'[t].batch = threads[t].batch
        /\ threads'[t].todo = threads[t].todo
        /\ threads'[t].answers = threads[t].answers \ {answer}
        /\ threads'[t].done = threads[t].done + 1
        /\ threads'[t].counts = [threads[t].counts EXCEPT ![answer[2]] = @ + 1]
        /\ \A u \in Threads \ {t} : threads'[u] = threads[u]
        /\ UNCHANGED <<lock, cached, reused, lost>>
        /\ Progress(threads[t].batch, threads'[t].done, threads'[t].counts)
  BY <1>1, CountEffect
<1> DEFINE b == threads[t].batch
<1>3. /\ b \in Ids /\ threads[t].done \in Nat /\ threads[t].counts \in Counts
      /\ answer[2] \in Verdicts
      /\ threads[t].answers \subseteq Spellings \X Verdicts
  BY <1>2 DEF Busy
<1>4. threads'[t].done \in Nat /\ threads'[t].counts \in Counts
  BY <1>2, <1>3 DEF Counts
<1>5. /\ \A c \in Ids \ {b} : batches'[c] = batches[c]
      /\ batches'[b].status = batches[b].status
      /\ batches'[b].items = batches[b].items
      /\ batches'[b].total = batches[b].total
      /\ Exists(b) => batches'[b].done = threads'[t].done /\ batches'[b].counts = threads'[t].counts
  BY <1>1, <1>2, <1>3, <1>4, ProgressEffect
<1>6. NothingForgotten /\ \A c \in Ids : Exists(c)' <=> Exists(c)
  BY <1>2, <1>5 DEF NothingForgotten, Exists
<1>7. Sole'
  BY <1>2, <1>6, SoleKept DEF CountInv
<1>8. b \notin reused /\ Exists(b) => Own(t) /\ batches[b].status = "running"
  BY <1>2, <1>3 DEF Own, BatchOf, CountInv, OnItsWay, RowFor
<1>9. ASSUME NEW c \in Ids PROVE Complete(c)'
  <2>1. CASE c = b
    BY <1>2, <1>5, <1>6, <1>8, <2>1 DEF CountInv, Complete, Finished, Exists
  <2>2. CASE c # b
    BY <1>1, <1>2, <1>5, <1>6, <2>2, CompleteKept DEF CountInv
  <2> QED
    BY <2>1, <2>2
<1>10. ASSUME NEW u \in Threads \ {t} PROVE OnItsWay(u)'
  <2>1. threads'[u] = threads[u]
    BY <1>2
  <2>2. ASSUME Own(u)' PROVE Own(u) /\ batches'[BatchOf(u)] = batches[BatchOf(u)]
    <3>1. Own(u)
      BY <1>2, <1>6, <2>1, <2>2 DEF Own, BatchOf
    <3>2. BatchOf(u) # b
      BY <3>1 DEF CountInv, Sole, BatchOf
    <3> QED
      BY <1>5, <3>1, <3>2 DEF Own
  <2> QED
    BY <1>1, <1>2, <1>6, <2>1, <2>2, WayKept DEF CountInv
<1>11. OnItsWay(t)'
  <2> SUFFICES ASSUME Own(t)' PROVE RowFor(t)'.status = "running" /\ Account(t)'
    BY <1>2 DEF OnItsWay
  <2>1. /\ Own(t) /\ BatchOf(t) = b /\ BatchOf(t)' = b /\ Exists(b)
        /\ RowFor(t) = batches[b] /\ RowFor(t)' = batches'[b]
    BY <1>2, <1>6 DEF Own, BatchOf, RowFor
  <2>2. Account(t) /\ RowFor(t).status = "running"
    BY <1>2, <2>1 DEF CountInv, OnItsWay
  <2>3. /\ Cardinality(threads'[t].answers) = Cardinality(threads[t].answers) - 1
        /\ Cardinality(threads[t].answers) \in Nat
    <3>1. /\ Cardinality(threads[t].answers \ {answer}) = Cardinality(threads[t].answers) - 1
          /\ Cardinality(threads[t].answers) \in Nat
      BY <1>3, OneMoreOrLess
    <3> QED
      BY <1>2, <3>1
  <2>4. Cardinality(threads[t].todo) \in Nat
    <3>1. threads[t].todo \subseteq Spellings
      BY <1>2 DEF Busy
    <3> QED
      BY <3>1, OneMoreOrLess
  <2>5. Cardinality(threads'[t].todo) + Cardinality(threads'[t].answers) + threads'[t].done
          = batches'[b].total
    BY <1>2, <1>3, <1>5, <2>1, <2>2, <2>3, <2>4 DEF Account
  <2>6. Counted(threads'[t].counts) = threads'[t].done
    BY <1>2, <1>3, <2>2, CountedOneMore DEF Account
  <2>7. StoredFor(BatchOf(t), RowFor(t).items \ threads[t].todo)'
    BY <1>2, <1>5, <2>1, <2>2 DEF Account, StoredFor
  <2> QED
    BY <1>2, <1>5, <2>1, <2>2, <2>5, <2>6, <2>7 DEF Account
<1> QED
  BY <1>1, <1>7, <1>9, <1>10, <1>11 DEF CountInv

\* An end: nothing is left to ask or to count.
LEMMA EndCounts ==
    ASSUME CountInv, NEW t \in Threads, BatchEnds(t)
    PROVE  CountInv'
<1>1. Shaped /\ Shaped'
  BY ShapedNext DEF CountInv, VerifierNext, BatchThread
<1>0. threads[t] \in Busy
  BY <1>1, OneThreadMoves, ThreadSorts DEF Shaped
<1>b. PICK b \in Ids : b = threads[t].batch
  BY <1>0 DEF Busy
<1>2. /\ threads[t].phase \in {"working", "failing"} /\ threads'[t].phase = "ending"
      /\ threads'[t].batch = b
      /\ \A u \in Threads \ {t} : threads'[u] = threads[u]
      /\ UNCHANGED <<cached, reused, lost>>
  BY <1>1, <1>b, OneThreadMoves DEF BatchEnds
<1>3. b \in Ids /\ threads[t] \in Busy
  BY <1>0
<1>4. /\ \A c \in Ids \ {b} : batches'[c] = batches[c]
      /\ batches'[b].items = batches[b].items
      /\ batches'[b].total = batches[b].total
      /\ batches'[b].done = batches[b].done
      /\ batches'[b].counts = batches[b].counts
      /\ \/ batches'[b].status = batches[b].status
         \/ Exists(b) /\ batches'[b].status = "error"
         \/ /\ Exists(b) /\ batches'[b].status = "done"
            /\ threads[t].phase = "working" /\ threads[t].todo = {} /\ threads[t].answers = {}
  <2>1. CASE threads[t].phase = "working" /\ Status(b, "done") /\ threads[t].answers = {}
             /\ threads[t].todo = {}
    BY <1>1, <1>3, <2>1, StatusEffect
  <2>2. CASE Status(b, "error")
    BY <1>1, <1>3, <2>2, StatusEffect
  <2>3. CASE UNCHANGED batches
    BY <2>3
  <2> QED
    BY <1>b, <2>1, <2>2, <2>3 DEF BatchEnds
<1>5. NothingForgotten /\ \A c \in Ids : Exists(c)' <=> Exists(c)
  BY <1>2, <1>4 DEF NothingForgotten, Exists
<1>6. Sole'
  BY <1>b, <1>2, <1>5, SoleKept DEF CountInv
<1>7. b \notin reused /\ Exists(b) =>
        /\ Own(t) /\ batches[b].status = "running"
        /\ threads[t].phase = "working" => Account(t)
  BY <1>2, <1>b DEF Own, BatchOf, CountInv, OnItsWay, RowFor
<1>8. ASSUME NEW c \in Ids PROVE Complete(c)'
  <2>1. CASE c = b
    <3>1. Exists(b)' => batches'[b].total = Cardinality(batches'[b].items)
      BY <1>3, <1>4, <1>5 DEF CountInv, Complete
    <3>2. ASSUME Finished(b)'
          PROVE  /\ batches'[b].done = batches'[b].total
                 /\ Counted(batches'[b].counts) = batches'[b].total
                 /\ StoredFor(b, batches[b].items)'
      <4>1. Exists(b) /\ b \notin reused /\ batches'[b].status = "done"
        BY <1>2, <1>3, <1>5, <3>2 DEF Finished, Exists
      <4>2. Own(t) /\ Account(t) /\ threads[t].todo = {} /\ threads[t].answers = {}
        <5>1. Own(t) /\ batches[b].status = "running"
          BY <1>7, <4>1
        <5>2. threads[t].phase = "working" /\ threads[t].todo = {} /\ threads[t].answers = {}
          BY <1>4, <4>1, <5>1
        <5> QED
          BY <1>7, <4>1, <5>1, <5>2
      <4>3. Cardinality({}) = 0 /\ threads[t].done \in Nat
        BY <1>3, FS_EmptySet DEF Busy
      <4>4. threads[t].done = batches[b].total
        BY <1>b, <4>2, <4>3 DEF Account, RowFor, BatchOf
      <4>5. StoredFor(b, batches[b].items)
        BY <1>b, <4>2 DEF Account, RowFor, BatchOf, StoredFor
      <4>6. StoredFor(b, batches[b].items)'
        BY <1>2, <1>4, <4>5 DEF StoredFor
      <4> QED
        BY <1>b, <1>4, <4>2, <4>4, <4>6 DEF Account, RowFor, BatchOf
    <3> QED
      BY <2>1, <3>1, <3>2 DEF Complete
  <2>2. CASE c # b
    BY <1>1, <1>2, <1>4, <1>5, <2>2, CompleteKept DEF CountInv
  <2> QED
    BY <2>1, <2>2
<1>9. ASSUME NEW u \in Threads \ {t} PROVE OnItsWay(u)'
  <2>1. threads'[u] = threads[u]
    BY <1>2
  <2>2. ASSUME Own(u)' PROVE Own(u) /\ batches'[BatchOf(u)] = batches[BatchOf(u)]
    <3>1. Own(u)
      BY <1>2, <1>5, <2>1, <2>2 DEF Own, BatchOf
    <3>2. BatchOf(u) # b
      BY <1>b, <3>1 DEF CountInv, Sole, BatchOf
    <3> QED
      BY <1>4, <3>1, <3>2 DEF Own
  <2> QED
    BY <1>1, <1>2, <1>5, <2>1, <2>2, WayKept DEF CountInv
<1>10. OnItsWay(t)'
  BY <1>2 DEF OnItsWay
<1> QED
  BY <1>1, <1>6, <1>8, <1>9, <1>10 DEF CountInv

LEMMA CountInvNext == CountInv /\ [VerifierNext]_verifierVars => CountInv'
<1> SUFFICES ASSUME CountInv, [VerifierNext]_verifierVars PROVE CountInv'
  OBVIOUS
<1>0. Shaped /\ Shaped'
  BY ShapedNext DEF CountInv
<1>1. ASSUME UNCHANGED <<batches, threads, lost, reused>>, NothingForgotten PROVE CountInv'
  <2>1. \A t \in Threads : OnItsWay(t)'
    BY <1>0, <1>1, WayKept DEF CountInv, Own, Exists, BatchOf
  <2>2. \A b \in Ids : Complete(b)'
    BY <1>0, <1>1, CompleteKept DEF CountInv
  <2>3. Sole'
    BY <1>1, SoleKept DEF CountInv, Exists
  <2> QED
    BY <1>0, <2>1, <2>2, <2>3 DEF CountInv
<1>2. CASE CheckOne
  <2>1. PICK a \in Addresses : \E row \in Outcomes(a) : VerifyEmail(a, row)
    BY <1>2 DEF CheckOne
  <2>2. NothingForgotten
    BY <1>0, <2>1, VerifyEmailStores DEF NothingForgotten, Shaped
  <2> QED
    BY <1>1, <1>2, <2>2 DEF CheckOne
<1>3. CASE UploadPasses \/ UNCHANGED verifierVars
  BY <1>1, <1>3 DEF UploadPasses, verifierVars, NothingForgotten
<1>4. CASE UploadInserts
  BY <1>4, UploadCounts
<1>5. CASE Kill
  <2>1. /\ \A t \in Threads : threads'[t].batch = 0
        /\ UNCHANGED <<cached, batches, lost, reused>>
    BY <1>5, ThreadSorts DEF Kill
  <2>2. Sole' /\ \A t \in Threads : OnItsWay(t)'
    BY <2>1, Numbers DEF Sole, OnItsWay, Own, BatchOf
  <2>3. \A b \in Ids : Complete(b)'
    BY <1>0, <2>1, CompleteKept DEF CountInv, NothingForgotten
  <2> QED
    BY <1>0, <2>2, <2>3 DEF CountInv
<1>6. ASSUME NEW t \in Threads, BatchStarts(t) PROVE CountInv'
  BY <1>6, StartCounts
<1>7. ASSUME NEW t \in Threads, WorkerAnswers(t) \/ WorkerRaises(t) PROVE CountInv'
  BY <1>7, AnswerCounts
<1>8. ASSUME NEW t \in Threads, Count(t) PROVE CountInv'
  BY <1>8, CountCounts
<1>9. ASSUME NEW t \in Threads, BatchEnds(t) PROVE CountInv'
  BY <1>9, EndCounts
<1>10. ASSUME NEW t \in Threads, BatchRaises(t) \/ BatchReleases(t) PROVE CountInv'
  <2>1. /\ \A u \in Threads \ {t} : threads'[u] = threads[u]
        /\ \/ /\ threads[t].phase = "working" /\ threads'[t].phase = "failing"
              /\ threads'[t].batch = threads[t].batch
           \/ threads'[t] = Idle
        /\ UNCHANGED <<cached, batches, lost, reused>>
    BY <1>0, <1>10, OneThreadMoves DEF BatchRaises, BatchReleases
  <2>2. NothingForgotten
    BY <2>1 DEF NothingForgotten
  <2>3. Sole'
    BY <2>1, SoleKept DEF CountInv, Exists
  <2>4. \A b \in Ids : Complete(b)'
    BY <1>0, <2>1, <2>2, CompleteKept DEF CountInv
  <2>5. \A u \in Threads \ {t} : OnItsWay(u)'
    BY <1>0, <2>1, <2>2, WayKept DEF CountInv, Own, Exists, BatchOf
  <2>6. OnItsWay(t)'
    <3>1. CASE threads'[t] = Idle
      BY <3>1, ThreadSorts, Numbers DEF OnItsWay, Own, BatchOf
    <3>2. CASE threads[t].phase = "working" /\ threads'[t].phase = "failing"
               /\ threads'[t].batch = threads[t].batch
      BY <2>1, <3>2 DEF CountInv, OnItsWay, Own, BatchOf, RowFor, Exists
    <3> QED
      BY <2>1, <3>1, <3>2
  <2> QED
    BY <1>0, <2>3, <2>4, <2>5, <2>6 DEF CountInv
<1>11. ASSUME NEW b \in Ids, DeletePasses(b) PROVE CountInv'
  BY <1>1, <1>11 DEF DeletePasses, NothingForgotten
<1>12. ASSUME NEW b \in Ids, DeleteRows(b) PROVE CountInv'
  <2>1. /\ \A c \in Ids \ {b} : batches'[c] = batches[c]
        /\ batches'[b].status = "absent"
        /\ UNCHANGED <<cached, threads, lost, reused>>
    BY <1>0, <1>12 DEF DeleteRows, Shaped, NoBatch
  <2>2. NothingForgotten
    BY <2>1 DEF NothingForgotten
  <2>3. \A c \in Ids : Exists(c)' => Exists(c) /\ c # b
    BY <2>1 DEF Exists
  <2>4. Sole'
    BY <2>1, <2>3, SoleKept DEF CountInv
  <2>5. ASSUME NEW t \in Threads PROVE OnItsWay(t)'
    <3>1. threads'[t] = threads[t]
      BY <2>1
    <3>2. ASSUME Own(t)' PROVE Own(t) /\ batches'[BatchOf(t)] = batches[BatchOf(t)]
      BY <2>1, <2>3, <3>1, <3>2 DEF Own, BatchOf
    <3> QED
      BY <1>0, <2>1, <2>2, <3>1, <3>2, WayKept DEF CountInv
  <2>6. ASSUME NEW c \in Ids PROVE Complete(c)'
    <3>1. CASE c = b
      BY <2>1, <3>1 DEF Complete, Exists, Finished
    <3>2. CASE c # b
      BY <1>0, <2>1, <2>2, <3>2, CompleteKept DEF CountInv
    <3> QED
      BY <3>1, <3>2
  <2> QED
    BY <1>0, <2>4, <2>5, <2>6 DEF CountInv
<1> QED
  BY <1>2, <1>3, <1>4, <1>5, <1>6, <1>7, <1>8, <1>9, <1>10, <1>11, <1>12
  DEF VerifierNext, BatchThread

LEMMA CountInvInit == VerifierInit => CountInv
<1> SUFFICES ASSUME VerifierInit PROVE CountInv
  OBVIOUS
<1>1. /\ \A t \in Threads : threads[t].batch = 0
      /\ \A b \in Ids : batches[b].status = "absent"
  BY ThreadSorts DEF VerifierInit, NoBatch
<1> QED
  BY <1>1, ShapedInit, Numbers
  DEF CountInv, Sole, OnItsWay, Own, BatchOf, Complete, Exists, Finished

(***************************************************************************)
(* A batch shown as done has counted every one of its addresses once, in    *)
(* its progress and in its four verdict counts, whatever threads, failures, *)
(* deletions and kills there were (web.py _run_verification_batch).         *)
(***************************************************************************)
THEOREM DoneIsCounted == VerifierSpec => []DoneMeansCounted
<1>1. CountInv => DoneMeansCounted
  BY DEF CountInv, Complete, DoneMeansCounted
<1> QED
  BY <1>1, CountInvInit, CountInvNext, PTL DEF VerifierSpec

\* Two sets with nothing in common.
LEMMA TwoParts ==
    ASSUME NEW A, NEW B, IsFiniteSet(A), IsFiniteSet(B), A \cap B = {}
    PROVE  IsFiniteSet(A \cup B) /\ Cardinality(A \cup B) = Cardinality(A) + Cardinality(B)
<1>1. Cardinality(A) \in Nat /\ Cardinality(B) \in Nat /\ Cardinality({}) = 0
  BY FS_CardinalityType, FS_EmptySet
<1>2. /\ IsFiniteSet(A \cup B)
      /\ Cardinality(A \cup B) = Cardinality(A) + Cardinality(B) - Cardinality(A \cap B)
  BY FS_Union
<1>3. Cardinality(A \cap B) = 0
  BY <1>1
<1> QED
  BY <1>1, <1>2, <1>3

\* The rows of one bucket.
Filed(b, bucket) == {a \in Joined(b) : Bucket(bucket, cached[a])}

\* Every stored row is in exactly one of the six buckets.
LEMMA EachRowInOneBucket ==
    ASSUME NEW row \in Stored
    PROVE  /\ \/ Bucket("ok", row) \/ Bucket("catch_all", row) \/ Bucket("disposable", row)
              \/ Bucket("risky_other", row) \/ Bucket("invalid", row) \/ Bucket("unknown", row)
           /\ Bucket("ok", row) =>
                /\ ~Bucket("catch_all", row) /\ ~Bucket("disposable", row)
                /\ ~Bucket("risky_other", row) /\ ~Bucket("invalid", row) /\ ~Bucket("unknown", row)
           /\ Bucket("catch_all", row) =>
                /\ ~Bucket("disposable", row) /\ ~Bucket("risky_other", row)
                /\ ~Bucket("invalid", row) /\ ~Bucket("unknown", row)
           /\ Bucket("disposable", row) =>
                /\ ~Bucket("risky_other", row) /\ ~Bucket("invalid", row) /\ ~Bucket("unknown", row)
           /\ Bucket("risky_other", row) => ~Bucket("invalid", row) /\ ~Bucket("unknown", row)
           /\ Bucket("invalid", row) => ~Bucket("unknown", row)
<1>1. row.verdict \in Verdicts /\ row.catchAll \in BOOLEAN /\ row.disposable \in BOOLEAN
  BY DEF Stored, Rows
<1> QED
  BY <1>1 DEF Bucket, Verdicts

\* The six buckets hold every row the JOIN finds, each once.
LEMMA BucketsPartition ==
    ASSUME Shaped, NEW b \in Ids
    PROVE  InBucket(b, "ok") + InBucket(b, "catch_all") + InBucket(b, "disposable")
             + InBucket(b, "risky_other") + InBucket(b, "invalid") + InBucket(b, "unknown")
           = Cardinality(Joined(b))
<1> DEFINE ok == Filed(b, "ok")                   catchAll == Filed(b, "catch_all")
           throwaway == Filed(b, "disposable")    other == Filed(b, "risky_other")
           invalid == Filed(b, "invalid")         unknown == Filed(b, "unknown")
<1>1. \A a \in Joined(b) : cached[a] \in Stored
  BY DEF Joined, Shaped
<1>2. Joined(b) = ((((ok \cup catchAll) \cup throwaway) \cup other) \cup invalid) \cup unknown
  BY <1>1, EachRowInOneBucket DEF Filed
<1>3. /\ ok \cap catchAll = {}
      /\ (ok \cup catchAll) \cap throwaway = {}
      /\ ((ok \cup catchAll) \cup throwaway) \cap other = {}
      /\ (((ok \cup catchAll) \cup throwaway) \cup other) \cap invalid = {}
      /\ ((((ok \cup catchAll) \cup throwaway) \cup other) \cup invalid) \cap unknown = {}
  BY <1>1, EachRowInOneBucket DEF Filed
<1>4. IsFiniteSet(Joined(b))
  <2>1. Joined(b) \subseteq Spellings
    BY DEF Joined, Addresses, Spellings
  <2> QED
    BY <2>1, FewSpellings, FS_Subset
<1>5. /\ IsFiniteSet(ok) /\ IsFiniteSet(catchAll) /\ IsFiniteSet(throwaway)
      /\ IsFiniteSet(other) /\ IsFiniteSet(invalid) /\ IsFiniteSet(unknown)
  <2>1. ASSUME NEW bucket PROVE IsFiniteSet(Filed(b, bucket))
    BY <1>4, FS_Subset DEF Filed
  <2> QED
    BY <2>1
<1>6. /\ InBucket(b, "ok") = Cardinality(ok) /\ InBucket(b, "catch_all") = Cardinality(catchAll)
      /\ InBucket(b, "disposable") = Cardinality(throwaway)
      /\ InBucket(b, "risky_other") = Cardinality(other)
      /\ InBucket(b, "invalid") = Cardinality(invalid)
      /\ InBucket(b, "unknown") = Cardinality(unknown)
  BY DEF InBucket, Filed
<1> HIDE DEF ok, catchAll, throwaway, other, invalid, unknown
<1>7. IsFiniteSet(ok \cup catchAll)
      /\ Cardinality(ok \cup catchAll) = Cardinality(ok) + Cardinality(catchAll)
  BY <1>3, <1>5, TwoParts
<1>8. IsFiniteSet((ok \cup catchAll) \cup throwaway)
      /\ Cardinality((ok \cup catchAll) \cup throwaway)
           = Cardinality(ok \cup catchAll) + Cardinality(throwaway)
  BY <1>3, <1>5, <1>7, TwoParts
<1>9. IsFiniteSet(((ok \cup catchAll) \cup throwaway) \cup other)
      /\ Cardinality(((ok \cup catchAll) \cup throwaway) \cup other)
           = Cardinality((ok \cup catchAll) \cup throwaway) + Cardinality(other)
  BY <1>3, <1>5, <1>8, TwoParts
<1>10. IsFiniteSet((((ok \cup catchAll) \cup throwaway) \cup other) \cup invalid)
      /\ Cardinality((((ok \cup catchAll) \cup throwaway) \cup other) \cup invalid)
           = Cardinality(((ok \cup catchAll) \cup throwaway) \cup other) + Cardinality(invalid)
  BY <1>3, <1>5, <1>9, TwoParts
<1>11. Cardinality(Joined(b))
         = Cardinality((((ok \cup catchAll) \cup throwaway) \cup other) \cup invalid)
             + Cardinality(unknown)
  BY <1>2, <1>3, <1>5, <1>10, TwoParts
<1> QED
  BY <1>6, <1>7, <1>8, <1>9, <1>10, <1>11

(***************************************************************************)
(* The six numbers on the page add up to the batch's total, for every done  *)
(* batch of lower-case addresses none of whose workers raised: every        *)
(* verdict counted was stored first, no row is ever taken out of the cache, *)
(* and the buckets overlap nowhere (web.py _batch_breakdown).               *)
(***************************************************************************)
THEOREM SixNumbersAddUp == VerifierSpec => []BucketsAddUp
<1>1. CountInv => BucketsAddUp
  <2> SUFFICES ASSUME CountInv, NEW b \in Ids,
                      Finished(b), b \notin lost, batches[b].items \subseteq Addresses
               PROVE  Cardinality(Joined(b)) = batches[b].total
    BY BucketsPartition DEF BucketsAddUp, SixNumbers, CountInv
  <2>1. /\ batches[b].total = Cardinality(batches[b].items)
        /\ \A item \in batches[b].items : cached[Lower[item]] # NoRow
    BY DEF CountInv, Complete, Finished, Exists, StoredFor
  <2>2. \A a \in Addresses : Lower[a] = a
    BY DEF Addresses, Lower, Spellings
  <2>3. Joined(b) = batches[b].items
    BY <2>1, <2>2 DEF Joined
  <2> QED
    BY <2>1, <2>3
<1> QED
  BY <1>1, CountInvInit, CountInvNext, PTL DEF VerifierSpec
=============================================================================
