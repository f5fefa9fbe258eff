-------------------------- MODULE ImapIngestProofs --------------------------
(***************************************************************************)
(* Theorems about ImapIngest, for every mailbox, every set of threads and   *)
(* every value of the bounds.                                               *)
(***************************************************************************)
EXTENDS ImapIngest, FiniteSetTheorems, TLAPS

Unaccounted == Present \ Accounted

Active(t) == run[t].pc \in {"fetch", "store"}

\* The state row of the current UIDVALIDITY lies below everything that is
\* unaccounted for and below the next UID.
SavedInv ==
    /\ saved.validity <= validity
    /\ saved.validity = validity => saved.last < uidnext
    /\ WatermarkCovers

\* A run under way: what it has not accounted for is above its mark, and is
\* still to be fetched, is in the fetched chunk, or arrived after everything
\* that is to be fetched.
RunInv(t) ==
    Active(t) =>
        /\ run[t].seen \in {validity, NoValidity}
        /\ run[t].mark < uidnext
        /\ run[t].todo \cup run[t].cur \subseteq Present
        /\ run[t].pc = "fetch" => run[t].cur = {}
        /\ \A m \in Unaccounted :
              /\ uid[m] > run[t].mark
              /\ \/ m \in run[t].todo
                 \/ m \in run[t].cur
                 \/ \A n \in run[t].todo : uid[n] < uid[m]
        /\ run[t].pc = "store" =>
              /\ run[t].top < uidnext
              /\ \A m \in Unaccounted \ run[t].cur : uid[m] > run[t].top

MarkInv ==
    /\ IngestTypeOK
    /\ \A m \in Messages : uid[m] < uidnext
    /\ SavedInv
    /\ \A t \in Readers : RunInv(t)

-----------------------------------------------------------------------------
\* The chunk is a lower part of the search result: whatever it leaves has a
\* greater UID than whatever it takes.
LEMMA ChunkIsLowest ==
    ASSUME IngestTypeOK, NEW S \in SUBSET Messages,
           NEW m \in NextChunk(S), NEW n \in S \ NextChunk(S)
    PROVE  uid[m] < uid[n]
<1>1. SUFFICES ASSUME uid[n] <= uid[m] PROVE FALSE
  BY DEF IngestTypeOK, NextChunk
<1> DEFINE Below(x) == {k \in S : uid[k] < uid[x]}
<1>2. Below(n) \subseteq Below(m) /\ Below(m) \subseteq Messages
  BY <1>1 DEF IngestTypeOK, NextChunk
<1>3. IsFiniteSet(Below(m))
  BY <1>2, MailboxAssumption, FS_Subset
<1>4. /\ IsFiniteSet(Below(n))
      /\ Cardinality(Below(n)) <= Cardinality(Below(m))
  BY <1>2, <1>3, FS_Subset
<1>5. Cardinality(Below(m)) \in Nat /\ Cardinality(Below(n)) \in Nat
  BY <1>3, <1>4, FS_CardinalityType
<1>6. Cardinality(Below(m)) < ChunkSize
  BY DEF NextChunk
<1>7. Cardinality(Below(n)) < ChunkSize
  BY <1>4, <1>5, <1>6, IngestBoundAssumption
<1>8. n \in NextChunk(S)
  BY <1>7 DEF NextChunk
<1>9. QED
  BY <1>8

\* The number of messages in the folder.
LEMMA PresentCount == Cardinality(Present) \in Nat
  BY MailboxAssumption, FS_Subset, FS_CardinalityType DEF Present

\* The locals a thread starts from and the ones an exception leaves.
LEMMA IdleIsRun == Idle \in RunRecord /\ [Idle EXCEPT !.pc = "raised"] \in RunRecord
  BY IngestBoundAssumption DEF Idle, RunRecord, NoValidity

-----------------------------------------------------------------------------
\* Every step keeps the types.
LEMMA TypeStep == IngestTypeOK /\ [IngestNext]_ingestVars => IngestTypeOK'
<1> SUFFICES ASSUME IngestTypeOK, [IngestNext]_ingestVars PROVE IngestTypeOK'
  OBVIOUS
<1> USE MailboxAssumption, IngestBoundAssumption DEF IngestTypeOK
<1>1. ASSUME NEW m \in Messages, Deliver(m) PROVE IngestTypeOK'
  BY <1>1 DEF Deliver, store, threads
<1>2. ASSUME NEW m \in Messages, LeaveWindow(m) PROVE IngestTypeOK'
  BY <1>2 DEF LeaveWindow, store, threads
<1>3. CASE Renumber
  BY <1>3, PresentCount DEF Renumber, store, threads
<1>4. ASSUME NEW t \in Readers, NEW v \in {validity, NoValidity},
             NEW found \in {SearchResult(v), {}}, Open(t, v, found)
      PROVE  run' \in [IngestThreads -> RunRecord]
  <2>1. found \in SUBSET Messages
    BY DEF SearchResult, Present
  <2>2. (IF Incremental(v) THEN saved.last ELSE 0) \in Nat
    OBVIOUS
  <2>3. v \in 0..MaxValidity
    BY DEF NoValidity
  <2>4. QED
    BY <1>4, <2>1, <2>2, <2>3 DEF Open, RunRecord, Idle
<1>5. ASSUME NEW t \in Readers, StartRun(t) \/ StartRunBadly(t) PROVE IngestTypeOK'
  BY <1>4, <1>5 DEF StartRun, StartRunBadly, Open, IngestFault, mailbox, store
<1>6. ASSUME NEW t \in Readers, FetchChunk(t) PROVE IngestTypeOK'
  <2> DEFINE chunk == NextChunk(run[t].todo)
  <2>1. run[t] \in RunRecord
    BY DEF Readers, IngestThreads
  <2>2. chunk \in SUBSET Messages /\ run[t].todo \ chunk \in SUBSET Messages
    BY <2>1 DEF NextChunk, RunRecord
  <2> HIDE DEF chunk
  <2>3. PICK last \in chunk :
           run' = [run EXCEPT ![t].pc = "store", ![t].todo = @ \ chunk,
                              ![t].cur = chunk, ![t].top = uid[last]]
    BY <1>6 DEF FetchChunk, chunk
  <2>4. uid[last] \in Nat
    BY <2>2, <2>3
  <2>5. run' \in [IngestThreads -> RunRecord]
    BY <2>1, <2>2, <2>3, <2>4 DEF RunRecord
  <2>6. QED
    BY <1>6, <2>5 DEF FetchChunk, mailbox, store
<1>7. ASSUME NEW t \in Readers, FetchRefused(t) PROVE IngestTypeOK'
  <2>1. run' \in [IngestThreads -> RunRecord]
    BY <1>7 DEF FetchRefused, RunRecord, Readers, IngestThreads
  <2>2. QED
    BY <1>7, <2>1 DEF FetchRefused, NextChunk, IngestFault, Readers, IngestThreads, RunRecord, mailbox, store
<1>8. ASSUME NEW t \in Readers, ConnectionLost(t) PROVE IngestTypeOK'
  <2>1. run' \in [IngestThreads -> RunRecord]
    BY <1>8, IdleIsRun DEF ConnectionLost
  <2>2. QED
    BY <1>8, <2>1 DEF ConnectionLost, IngestFault, mailbox, store
<1>9. ASSUME NEW t \in Readers, ChunkDone(t) PROVE IngestTypeOK'
  BY <1>9 DEF ChunkDone, Save, RunRecord, Readers, IngestThreads, mailbox, store
<1>10. ASSUME NEW t \in Readers, FinishRun(t) PROVE IngestTypeOK'
  BY <1>10, IdleIsRun DEF FinishRun, Save, RunRecord, Readers, IngestThreads, mailbox, store
<1>11. ASSUME NEW t \in Uploaders, StartUpload(t) PROVE IngestTypeOK'
  <2>1. run' \in [IngestThreads -> RunRecord]
    BY <1>11, IdleIsRun DEF StartUpload, RunRecord, Idle, Present
  <2>2. QED
    BY <1>11, <2>1 DEF StartUpload, mailbox, store
<1>12. ASSUME NEW t \in Uploaders, FinishUpload(t) PROVE IngestTypeOK'
  <2>1. run' \in [IngestThreads -> RunRecord]
    BY <1>12, IdleIsRun DEF FinishUpload
  <2>2. QED
    BY <1>12, <2>1 DEF FinishUpload, mailbox, store
<1>13. ASSUME NEW t \in IngestThreads, NEW m \in Messages, StoreReport(t, m)
       PROVE  IngestTypeOK'
  BY <1>13 DEF StoreReport, Processed, RunRecord, mailbox
<1>14. ASSUME NEW t \in IngestThreads, NEW m \in Messages,
              SkipDuplicate(t, m) \/ ListError(t, m)
       PROVE  IngestTypeOK'
  <2>1. Processed(t, m) /\ UNCHANGED <<rows, half>>
    BY <1>14 DEF SkipDuplicate, ListError
  <2>2. run' \in [IngestThreads -> RunRecord]
    BY <2>1 DEF Processed, RunRecord
  <2>3. QED
    BY <2>1, <2>2 DEF Processed, mailbox
<1>15. ASSUME NEW t \in IngestThreads, NEW m \in Messages,
              RaiseBeforeInsert(t, m) \/ RaiseAfterInsert(t, m)
       PROVE  IngestTypeOK'
  <2>1. run' \in [IngestThreads -> RunRecord]
    BY <1>15, IdleIsRun DEF RaiseBeforeInsert, RaiseAfterInsert, Raise
  <2>2. QED
    BY <1>15, <2>1 DEF RaiseBeforeInsert, RaiseAfterInsert, Raise, mailbox, store
<1>16. CASE SweepGoesOn
  BY <1>16, IdleIsRun DEF SweepGoesOn, Readers, IngestThreads, mailbox
<1>17. CASE IngestKilled
  <2>1. run' \in [IngestThreads -> RunRecord]
    BY <1>17, IdleIsRun DEF IngestKilled
  <2>2. QED
    BY <1>17, <2>1 DEF IngestKilled, IngestFault, mailbox, store
<1>18. CASE UNCHANGED ingestVars
  BY <1>18 DEF ingestVars, mailbox, store, threads
<1>19. QED
  BY <1>1, <1>2, <1>3, <1>5, <1>6, <1>7, <1>8, <1>9, <1>10, <1>11, <1>12,
     <1>13, <1>14, <1>15, <1>16, <1>17, <1>18 DEF IngestNext, Process

\* The initial state has the types.
LEMMA InitTypes == IngestInit => IngestTypeOK
  BY MailboxAssumption, IngestBoundAssumption, IdleIsRun DEF IngestInit, IngestTypeOK, NoValidity

\* Every variable keeps its type, whatever the threads do.
THEOREM Typing == IngestSpec => []IngestTypeOK
  BY InitTypes, TypeStep, PTL DEF IngestSpec

-----------------------------------------------------------------------------
\* A step that leaves the mailbox and a thread's locals alone, and accounts
\* for nothing less, keeps that thread's invariant.
LEMMA OthersKeep ==
    ASSUME NEW t \in Readers, RunInv(t), UNCHANGED <<uid, uidnext, validity>>,
           Accounted \subseteq Accounted', run'[t] = run[t]
    PROVE  RunInv(t)'
  BY DEF RunInv, Active, Unaccounted, Present

\* Likewise for the saved state.
LEMMA SavedKeeps ==
    ASSUME SavedInv, UNCHANGED <<uid, uidnext, validity, saved>>,
           Accounted \subseteq Accounted'
    PROVE  SavedInv'
  BY DEF SavedInv, WatermarkCovers, Present

\* So a step of one thread has to be looked at for that thread alone.
LEMMA OneThread ==
    ASSUME MarkInv, IngestTypeOK', NEW t \in IngestThreads, NEW r, run' = [run EXCEPT ![t] = r],
           UNCHANGED <<uid, uidnext, validity, saved>>,
           Accounted \subseteq Accounted',
           t \in Readers => RunInv(t)'
    PROVE  MarkInv'
<1>1. ASSUME NEW o \in Readers, o # t PROVE RunInv(o)'
  <2>1. run'[o] = run[o]
    BY <1>1 DEF MarkInv, IngestTypeOK, Readers, IngestThreads
  <2>2. QED
    BY <1>1, <2>1, OthersKeep DEF MarkInv
<1>2. QED
  BY <1>1, SavedKeeps DEF MarkInv

-----------------------------------------------------------------------------
LEMMA MarkStep == MarkInv /\ IngestTypeOK' /\ [IngestNext]_ingestVars => MarkInv'
<1> SUFFICES ASSUME MarkInv, IngestTypeOK', [IngestNext]_ingestVars PROVE MarkInv'
  OBVIOUS
<1> USE IngestBoundAssumption DEF MarkInv
<1>1. ASSUME NEW m \in Messages, Deliver(m) PROVE MarkInv'
  <2> USE <1>1 DEF Deliver, store, threads, Accounted
  <2>1. \A k \in Messages : uid'[k] < uidnext'
    BY DEF IngestTypeOK
  <2>2. SavedInv'
    BY DEF SavedInv, WatermarkCovers, Present, IngestTypeOK
  <2>3. ASSUME NEW t \in Readers, Active(t) PROVE RunInv(t)'
    <3>1. run'[t] = run[t] /\ run[t] \in RunRecord
      BY DEF IngestTypeOK, Readers, IngestThreads
    <3>2. m \notin Present /\ Present' = Present \cup {m} /\ Unaccounted' \subseteq Unaccounted \cup {m}
      BY DEF Present, Unaccounted, IngestTypeOK
    <3>3. /\ uid'[m] = uidnext /\ uidnext' > uidnext
          /\ \A k \in Messages \ {m} : uid'[k] = uid[k]
      BY DEF IngestTypeOK
    <3>4. Unaccounted \subseteq Messages \ {m} /\ Present \subseteq Messages \ {m}
      BY <3>2 DEF Present, Unaccounted
    <3>5. /\ run[t].mark \in Nat /\ run[t].top \in Nat /\ uidnext \in Nat /\ uidnext' \in Nat
          /\ uid \in [Messages -> Nat] /\ uid' \in [Messages -> Nat]
      BY <3>1 DEF RunRecord, IngestTypeOK
    <3>6. \A n \in run[t].todo : n \in Messages \ {m} /\ uid'[n] < uid'[m]
      BY <2>3, <3>3, <3>4, <3>5 DEF RunInv
    <3>7. QED
      BY <2>3, <3>1, <3>2, <3>3, <3>4, <3>5, <3>6 DEF RunInv, Active
  <2>4. QED
    BY <2>1, <2>2, <2>3 DEF RunInv, Active
<1>2. ASSUME NEW m \in Messages, LeaveWindow(m) PROVE MarkInv'
  BY <1>2, OthersKeep, SavedKeeps DEF LeaveWindow, store, threads, Accounted
<1>3. CASE Renumber
  <2>1. PICK f \in [Messages -> 0..Cardinality(Present)] : uid' = f
    BY <1>3 DEF Renumber
  <2>2. \A k \in Messages : uid'[k] < uidnext'
    BY <1>3, <2>1, PresentCount DEF Renumber
  <2>3. SavedInv'
    BY <1>3 DEF Renumber, SavedInv, WatermarkCovers, IngestTypeOK
  <2>4. \A t \in Readers : RunInv(t)'
    BY <1>3 DEF Renumber, RunInv, Active, threads
  <2>5. QED
    BY <2>2, <2>3, <2>4
<1>4. ASSUME NEW t \in Readers, NEW v \in {validity, NoValidity},
             NEW found \in {SearchResult(v), {}}, Open(t, v, found)
      PROVE  MarkInv'
  <2> USE <1>4 DEF Open, mailbox, store
  <2> DEFINE start == IF Incremental(v) THEN saved.last ELSE 0
  <2>1. RunInv(t)'
    <3>1. /\ run'[t].pc = "fetch" /\ run'[t].seen = v /\ run'[t].mark = start
          /\ run'[t].todo = found /\ run'[t].cur = {}
      BY DEF Idle, IngestTypeOK, Readers, IngestThreads
    <3>2. start < uidnext /\ \A m \in Unaccounted : uid[m] > start
      <4>1. CASE Incremental(v)
        BY <4>1 DEF Incremental, SavedInv, WatermarkCovers, Unaccounted, Present, IngestTypeOK
      <4>2. CASE ~Incremental(v)
        BY <4>2 DEF Unaccounted, Present, IngestTypeOK
      <4>3. QED
        BY <4>1, <4>2
    <3>3. found \subseteq Present
      BY DEF SearchResult
    <3>4. \A m \in Unaccounted : m \in found \/ \A n \in found : uid[n] < uid[m]
      <4>1. CASE Incremental(v)
        BY <3>2, <4>1 DEF SearchResult, Unaccounted
      <4>2. CASE ~Incremental(v)
        BY <4>2 DEF SearchResult, Unaccounted, Accounted
      <4>3. QED
        BY <4>1, <4>2
    <3>5. Unaccounted' = Unaccounted /\ Present' = Present
      BY DEF Unaccounted, Accounted, Present
    <3>6. QED
      BY <3>1, <3>2, <3>3, <3>4, <3>5 DEF RunInv, Active
  <2>2. QED
    BY <2>1, OthersKeep, SavedKeeps DEF Accounted
<1>5. ASSUME NEW t \in Readers, StartRun(t) \/ StartRunBadly(t) PROVE MarkInv'
  BY <1>4, <1>5 DEF StartRun, StartRunBadly
<1>6. ASSUME NEW t \in Readers, FetchChunk(t) PROVE MarkInv'
  <2> DEFINE chunk == NextChunk(run[t].todo)
  <2>1. PICK last \in chunk :
           /\ \A m \in chunk : uid[m] <= uid[last]
           /\ run' = [run EXCEPT ![t].pc = "store", ![t].todo = @ \ chunk,
                                 ![t].cur = chunk, ![t].top = uid[last]]
    BY <1>6 DEF FetchChunk
  <2>2. /\ run[t] \in RunRecord /\ Active(t) /\ run[t].pc = "fetch" /\ run[t].cur = {}
        /\ uid \in [Messages -> Nat]
    BY <1>6 DEF FetchChunk, Active, RunInv, IngestTypeOK, Readers, IngestThreads
  <2>3. chunk \subseteq run[t].todo /\ chunk \in SUBSET Present /\ Present \subseteq Messages
    BY <2>2 DEF NextChunk, RunInv, Present
  <2>4. Unaccounted' = Unaccounted /\ Present' = Present /\ UNCHANGED <<uid, uidnext, validity, saved>>
        /\ Accounted' = Accounted
    BY <1>6 DEF FetchChunk, Unaccounted, Accounted, Present, mailbox, store
  <2>5. \A m \in run[t].todo \ chunk : \A n \in chunk : uid[n] < uid[m]
    BY <2>2, ChunkIsLowest DEF RunRecord
  <2>6. \A m \in Unaccounted \ chunk : uid[m] > uid[last]
    <3>1. TAKE m \in Unaccounted \ chunk
    <3>2. CASE m \in run[t].todo
      BY <2>1, <2>5, <3>2
    <3>3. CASE m \notin run[t].todo
      BY <2>1, <2>2, <2>3, <3>3 DEF RunInv
    <3>4. QED
      BY <3>2, <3>3
  <2>7. uid[last] < uidnext
    BY <2>1, <2>3
  <2>8. /\ run'[t].pc = "store" /\ run'[t].todo = run[t].todo \ chunk
        /\ run'[t].cur = chunk /\ run'[t].top = uid[last]
        /\ run'[t].mark = run[t].mark /\ run'[t].seen = run[t].seen
    BY <2>1, <2>2 DEF RunRecord, IngestTypeOK, Readers, IngestThreads
  <2> HIDE DEF chunk
  <2>9. RunInv(t)'
    BY <2>2, <2>3, <2>4, <2>6, <2>7, <2>8 DEF RunInv, Active
  <2>10. QED
    BY <2>1, <2>4, <2>9, OneThread DEF IngestThreads
<1>7. ASSUME NEW t \in Readers, FetchRefused(t) PROVE MarkInv'
  <2> DEFINE chunk == NextChunk(run[t].todo)
  <2>1. /\ run[t] \in RunRecord /\ Active(t) /\ run[t].pc = "fetch" /\ run[t].cur = {}
        /\ run' = [run EXCEPT ![t].todo = @ \ chunk]
    BY <1>7 DEF FetchRefused, Active, RunInv, IngestTypeOK, Readers, IngestThreads
  <2>2. UNCHANGED <<uid, uidnext, validity, saved>> /\ Accounted' = Accounted \cup chunk
    BY <1>7 DEF FetchRefused, Accounted, mailbox, store
  <2>3. Unaccounted' = Unaccounted \ chunk /\ Present' = Present
    BY <2>2 DEF Unaccounted, Present
  <2>4. /\ run'[t].pc = "fetch" /\ run'[t].todo = run[t].todo \ chunk
        /\ run'[t].cur = {} /\ run'[t].mark = run[t].mark /\ run'[t].seen = run[t].seen
    BY <2>1 DEF RunRecord, IngestTypeOK, Readers, IngestThreads
  <2> HIDE DEF chunk
  <2>5. RunInv(t)'
    BY <2>1, <2>2, <2>3, <2>4 DEF RunInv, Active
  <2>6. QED
    BY <2>1, <2>2, <2>5, OneThread DEF IngestThreads
<1>8. ASSUME NEW t \in Readers, ConnectionLost(t) PROVE MarkInv'
  <2>1. run' = [run EXCEPT ![t] = Idle] /\ UNCHANGED <<uid, uidnext, validity, saved>>
        /\ Accounted' = Accounted
    BY <1>8 DEF ConnectionLost, Accounted, mailbox, store
  <2>2. RunInv(t)'
    BY <2>1 DEF RunInv, Active, Idle, IngestTypeOK, Readers, IngestThreads
  <2>3. QED
    BY <2>1, <2>2, OneThread DEF IngestThreads
<1>9. ASSUME NEW t \in Readers, ChunkDone(t) PROVE MarkInv'
  <2> DEFINE u == IF run[t].top > run[t].mark THEN run[t].top ELSE run[t].mark
  <2>1. /\ run[t] \in RunRecord /\ Active(t) /\ run[t].pc = "store" /\ run[t].cur = {}
        /\ run' = [run EXCEPT ![t].pc = "fetch", ![t].mark = u]
        /\ saved' = [validity |-> run[t].seen, last |-> u]
    BY <1>9 DEF ChunkDone, Save, Active, IngestTypeOK, Readers, IngestThreads
  <2>2. UNCHANGED <<uid, uidnext, validity>> /\ Accounted' = Accounted
        /\ Unaccounted' = Unaccounted /\ Present' = Present
    BY <1>9 DEF ChunkDone, Accounted, Unaccounted, Present, mailbox, store
  <2>3. u < uidnext /\ u \in Nat /\ \A m \in Unaccounted : uid[m] > u
    BY <2>1 DEF RunInv, RunRecord
  <2>4. /\ run'[t].pc = "fetch" /\ run'[t].todo = run[t].todo /\ run'[t].cur = {}
        /\ run'[t].mark = u /\ run'[t].seen = run[t].seen
    BY <2>1 DEF RunRecord, IngestTypeOK, Readers, IngestThreads
  <2> HIDE DEF u
  <2>5. RunInv(t)'
    BY <2>1, <2>2, <2>3, <2>4 DEF RunInv, Active
  <2>6. ASSUME NEW o \in Readers, o # t PROVE RunInv(o)'
    BY <2>1, <2>2, <2>6, OthersKeep DEF IngestTypeOK, Readers, IngestThreads
  <2>7. SavedInv'
    <3>1. run[t].seen \in {validity, NoValidity} /\ validity \in Nat /\ validity # NoValidity
      BY <2>1 DEF RunInv, IngestTypeOK, NoValidity
    <3>2. \A m \in Present : uid[m] <= u => m \in Accounted
      BY <2>3 DEF Unaccounted, Present, IngestTypeOK
    <3>3. QED
      BY <2>1, <2>2, <2>3, <3>1, <3>2 DEF SavedInv, WatermarkCovers, NoValidity
  <2>8. QED
    BY <2>2, <2>5, <2>6, <2>7
<1>10. ASSUME NEW t \in Readers, FinishRun(t) PROVE MarkInv'
  <2>1. /\ run[t] \in RunRecord /\ Active(t) /\ run[t].pc = "fetch"
        /\ run' = [run EXCEPT ![t] = Idle]
        /\ saved' = [validity |-> run[t].seen, last |-> run[t].mark]
    BY <1>10 DEF FinishRun, Save, Active, IngestTypeOK, Readers, IngestThreads
  <2>2. UNCHANGED <<uid, uidnext, validity>> /\ Accounted' = Accounted
        /\ Unaccounted' = Unaccounted /\ Present' = Present
    BY <1>10 DEF FinishRun, Accounted, Unaccounted, Present, mailbox, store
  <2>3. run[t].mark < uidnext /\ run[t].mark \in Nat /\ \A m \in Unaccounted : uid[m] > run[t].mark
    BY <2>1 DEF RunInv, RunRecord
  <2>4. RunInv(t)'
    BY <2>1 DEF RunInv, Active, Idle, IngestTypeOK, Readers, IngestThreads
  <2>5. ASSUME NEW o \in Readers, o # t PROVE RunInv(o)'
    BY <2>1, <2>2, <2>5, OthersKeep DEF IngestTypeOK, Readers, IngestThreads
  <2>6. SavedInv'
    <3>1. run[t].seen \in {validity, NoValidity} /\ validity \in Nat /\ validity # NoValidity
      BY <2>1 DEF RunInv, IngestTypeOK, NoValidity
    <3>2. \A m \in Present : uid[m] <= run[t].mark => m \in Accounted
      BY <2>3 DEF Unaccounted, Present, IngestTypeOK
    <3>3. QED
      BY <2>1, <2>2, <2>3, <3>1, <3>2 DEF SavedInv, WatermarkCovers, NoValidity
  <2>7. QED
    BY <2>2, <2>4, <2>5, <2>6
<1>11. ASSUME NEW t \in Uploaders, StartUpload(t) \/ FinishUpload(t) PROVE MarkInv'
  <2>1. t \in IngestThreads /\ t \notin Readers
    BY IngestThreadAssumption DEF IngestThreads, Readers
  <2>2. UNCHANGED <<uid, uidnext, validity, saved>> /\ Accounted' = Accounted
    BY <1>11 DEF StartUpload, FinishUpload, Accounted, mailbox, store
  <2>3. QED
    BY <1>11, <2>1, <2>2, OneThread DEF StartUpload, FinishUpload
<1>12. ASSUME NEW t \in IngestThreads, NEW m \in Messages, Processed(t, m), run[t].pc = "store"
       PROVE  MarkInv'
  <2>1. /\ run[t] \in RunRecord
        /\ run' = [run EXCEPT ![t].cur = @ \ {m}]
        /\ UNCHANGED <<uid, uidnext, validity, saved>>
        /\ Accounted' = Accounted \cup {m} /\ Present' = Present
        /\ Unaccounted' = Unaccounted \ {m}
    BY <1>12 DEF Processed, Accounted, Unaccounted, Present, IngestTypeOK, mailbox
  <2>2. /\ run'[t].pc = "store" /\ run'[t].todo = run[t].todo /\ run'[t].cur = run[t].cur \ {m}
        /\ run'[t].mark = run[t].mark /\ run'[t].seen = run[t].seen /\ run'[t].top = run[t].top
    BY <1>12, <2>1 DEF RunRecord, IngestTypeOK
  <2>3. t \in Readers => RunInv(t)'
    BY <1>12, <2>1, <2>2 DEF RunInv, Active
  <2>4. QED
    BY <2>1, <2>3, OneThread
<1>13. ASSUME NEW t \in IngestThreads, NEW m \in Messages,
              StoreReport(t, m) \/ SkipDuplicate(t, m) \/ ListError(t, m)
       PROVE  MarkInv'
  BY <1>12, <1>13 DEF StoreReport, SkipDuplicate, ListError, NextInLine
<1>14. ASSUME NEW t \in IngestThreads, NEW m \in Messages,
              RaiseBeforeInsert(t, m) \/ RaiseAfterInsert(t, m)
       PROVE  MarkInv'
  <2>1. Raise(t)
    BY <1>14 DEF RaiseBeforeInsert, RaiseAfterInsert
  <2>2. UNCHANGED <<uid, uidnext, validity, saved>> /\ Accounted' = Accounted
    BY <2>1 DEF Raise, Accounted, mailbox, store
  <2>3. ~Active(t)'
    BY <2>1 DEF Raise, Active, Idle, IngestTypeOK
  <2>4. QED
    BY <2>1, <2>2, <2>3, OneThread DEF Raise, RunInv
<1>15. CASE SweepGoesOn
  <2>1. /\ run' = [run EXCEPT ![Sweep] = Idle] /\ Sweep \in Readers
        /\ UNCHANGED <<uid, uidnext, validity, saved>> /\ Accounted' = Accounted
    BY <1>15 DEF SweepGoesOn, Accounted, Readers, mailbox
  <2>2. RunInv(Sweep)'
    BY <2>1 DEF RunInv, Active, Idle, IngestTypeOK, IngestThreads
  <2>3. QED
    BY <2>1, <2>2, OneThread DEF IngestThreads
<1>16. CASE IngestKilled
  <2>1. UNCHANGED <<uid, uidnext, validity, saved>> /\ Accounted' = Accounted
    BY <1>16 DEF IngestKilled, Accounted, mailbox, store
  <2>2. \A t \in Readers : RunInv(t)'
    BY <1>16 DEF IngestKilled, RunInv, Active, Idle, IngestThreads
  <2>3. QED
    BY <2>1, <2>2, SavedKeeps
<1>17. CASE UNCHANGED ingestVars
  BY <1>17, OthersKeep, SavedKeeps DEF ingestVars, mailbox, store, threads, Accounted
<1>18. QED
  BY <1>1, <1>2, <1>3, <1>5, <1>6, <1>7, <1>8, <1>9, <1>10, <1>11, <1>13, <1>14,
     <1>15, <1>16, <1>17 DEF IngestNext, Process

\* The saved high-water mark never covers a message nobody accounted for,
\* whatever the number of threads, mails, faults and renumberings.
THEOREM WatermarkSafe == IngestSpec => []WatermarkCovers
<1>1. IngestInit => MarkInv
  <2> SUFFICES ASSUME IngestInit PROVE MarkInv
    OBVIOUS
  <2>1. SavedInv
    BY DEF IngestInit, SavedInv, WatermarkCovers, NoValidity
  <2>2. \A t \in Readers : RunInv(t)
    BY DEF IngestInit, RunInv, Active, Idle, IngestThreads
  <2>3. QED
    BY <2>1, <2>2, InitTypes DEF IngestInit, MarkInv
<1>2. MarkInv => WatermarkCovers
  BY DEF MarkInv, SavedInv
<1>3. QED
  BY <1>1, <1>2, MarkStep, Typing, PTL DEF IngestSpec

-----------------------------------------------------------------------------
(* The database side: one row per identified report.                        *)

\* Beyond the property: only the sweep ever holds an open transaction, only
\* while it is between the exception and the next commit, and what it has
\* inserted is not in the committed table.
RowInv ==
    /\ IngestTypeOK
    /\ StoredAtMostOnce
    /\ \A t \in IngestThreads \ {Sweep} : txn[t] = NoReport
    /\ txn[Sweep] \in Identified =>
          rows[txn[Sweep]] = 0 /\ txn[Sweep] \notin half
    /\ txn[Sweep] # NoReport => run[Sweep].pc = "raised"

\* Sweep is a thread, and its open transaction keeps the others from writing.
LEMMA OneWriter ==
    ASSUME IngestTypeOK, NEW t \in IngestThreads, MayWrite(t), t # Sweep
    PROVE  txn[Sweep] = NoReport
  BY DEF MayWrite, Readers, IngestThreads

LEMMA RowStep == RowInv /\ IngestTypeOK' /\ [IngestNext]_ingestVars => RowInv'
<1> SUFFICES ASSUME RowInv, IngestTypeOK', [IngestNext]_ingestVars PROVE RowInv'
  OBVIOUS
<1> USE MailboxAssumption DEF RowInv
<1> DEFINE Quiet == /\ UNCHANGED <<rows, half, txn>>
                    /\ run[Sweep].pc = "raised" => run'[Sweep].pc = "raised"
<1>1. ASSUME Quiet PROVE RowInv'
  <2>1. StoredAtMostOnce'
    BY <1>1 DEF StoredAtMostOnce, Copies
  <2>2. txn[Sweep] # NoReport => run'[Sweep].pc = "raised"
    BY <1>1
  <2>3. QED
    BY <1>1, <2>1, <2>2
<1>2. ASSUME NEW t \in IngestThreads, NEW m \in Messages, StoreReport(t, m) PROVE RowInv'
  <2> DEFINE r == ReportOf[m]
  <2>1. /\ r \in Reports /\ r # NoReport
        /\ r \in Identified => rows[r] = 0 /\ r \notin half
        /\ rows' = [rows EXCEPT ![r] = IF @ < MaxRows THEN @ + 1 ELSE @]
        /\ UNCHANGED <<half, txn>>
        /\ rows[r] \in Nat
    BY <1>2 DEF StoreReport, IsDuplicate, Processed, IngestTypeOK
  <2>2. StoredAtMostOnce'
    BY <2>1, IngestBoundAssumption DEF StoredAtMostOnce, Copies, IngestTypeOK
  <2>3. txn[Sweep] \in Identified => txn[Sweep] # r
    BY <1>2, OneWriter DEF StoreReport, NextInLine
  <2>4. txn[Sweep] = NoReport
    BY <1>2, OneWriter DEF StoreReport, NextInLine
  <2>5. QED
    BY <2>1, <2>2, <2>3, <2>4 DEF IngestTypeOK
<1>3. ASSUME NEW t \in IngestThreads, NEW m \in Messages, RaiseAfterInsert(t, m) PROVE RowInv'
  BY <1>3, IngestThreadAssumption
     DEF RaiseAfterInsert, Raise, IsDuplicate, StoredAtMostOnce, Copies, IngestTypeOK, store, Readers, IngestThreads
<1>4. CASE SweepGoesOn
  BY <1>4, IngestThreadAssumption DEF SweepGoesOn, StoredAtMostOnce, Copies, IngestTypeOK, Readers, IngestThreads
<1>5. CASE IngestKilled
  BY <1>5 DEF IngestKilled, StoredAtMostOnce, Copies, IngestTypeOK, store, Readers, IngestThreads
<1>6. ASSUME NEW t \in IngestThreads, NEW m \in Messages,
             SkipDuplicate(t, m) \/ ListError(t, m) \/ RaiseBeforeInsert(t, m)
      PROVE  Quiet
  <2>1. UNCHANGED <<rows, half, txn>>
    BY <1>6 DEF SkipDuplicate, ListError, RaiseBeforeInsert, Processed, Raise, store
  <2>2. run[t].pc = "store" /\ \A o \in IngestThreads \ {t} : run'[o] = run[o]
    BY <1>6 DEF SkipDuplicate, ListError, RaiseBeforeInsert, Processed, Raise, NextInLine, IngestTypeOK
  <2>3. QED
    BY <2>1, <2>2 DEF Readers, IngestThreads
<1>7. CASE \/ \E m \in Messages : Deliver(m) \/ LeaveWindow(m)
           \/ Renumber
           \/ \E t \in Readers : \/ StartRun(t) \/ StartRunBadly(t) \/ FetchChunk(t)
                                 \/ FetchRefused(t) \/ ConnectionLost(t)
                                 \/ ChunkDone(t) \/ FinishRun(t)
           \/ \E t \in Uploaders : StartUpload(t) \/ FinishUpload(t)
           \/ UNCHANGED ingestVars
  <2>1. UNCHANGED <<rows, half, txn>>
    BY <1>7 DEF Deliver, LeaveWindow, Renumber, StartRun, StartRunBadly, Open, FetchChunk, FetchRefused,
                ConnectionLost, ChunkDone, FinishRun, StartUpload, FinishUpload, ingestVars, store, threads
  <2>2. run[Sweep].pc = "raised" => run'[Sweep] = run[Sweep]
    BY <1>7, IngestThreadAssumption
       DEF Deliver, LeaveWindow, Renumber, StartRun, StartRunBadly, Open, FetchChunk, FetchRefused,
           ConnectionLost, ChunkDone, FinishRun, StartUpload, FinishUpload, ingestVars, threads,
           IngestTypeOK, Readers, IngestThreads
  <2>3. QED
    BY <1>1, <2>1, <2>2
<1>8. QED
  BY <1>1, <1>2, <1>3, <1>4, <1>5, <1>6, <1>7 DEF IngestNext, Process

\* An identified report is never stored twice, through whichever of the three
\* paths and however they overlap.
THEOREM OnceStored == IngestSpec => []StoredAtMostOnce
<1>1. IngestInit => RowInv
  BY InitTypes, MailboxAssumption DEF IngestInit, RowInv, StoredAtMostOnce, Copies, Readers, IngestThreads
<1>2. RowInv => StoredAtMostOnce
  BY DEF RowInv
<1>3. QED
  BY <1>1, <1>2, RowStep, Typing, PTL DEF IngestSpec

-----------------------------------------------------------------------------
(* What was processed is in the database.                                   *)

LEMMA HandledStep == IngestTypeOK /\ HandledIsStored /\ [IngestNext]_ingestVars => HandledIsStored'
<1> SUFFICES ASSUME IngestTypeOK, HandledIsStored, [IngestNext]_ingestVars PROVE HandledIsStored'
  OBVIOUS
<1> USE MailboxAssumption DEF HandledIsStored
<1>1. ASSUME NEW t \in IngestThreads, NEW m \in Messages, StoreReport(t, m)
      PROVE  HandledIsStored'
  <2>1. /\ rows' = [rows EXCEPT ![ReportOf[m]] = IF @ < MaxRows THEN @ + 1 ELSE @]
        /\ handled' = handled \cup {m}
        /\ half' = half
    BY <1>1 DEF StoreReport, Processed
  <2>2. rows'[ReportOf[m]] > 0
    BY <2>1, IngestBoundAssumption DEF IngestTypeOK
  <2>3. \A r \in Reports : rows[r] > 0 => rows'[r] > 0
    BY <2>1, IngestBoundAssumption DEF IngestTypeOK
  <2>4. QED
    BY <2>1, <2>2, <2>3 DEF IngestTypeOK
<1>2. ASSUME NEW t \in IngestThreads, NEW m \in Messages, SkipDuplicate(t, m)
      PROVE  HandledIsStored'
  <2>1. rows[ReportOf[m]] > 0 \/ ReportOf[m] \in half
    BY <1>2 DEF SkipDuplicate, IsDuplicate
  <2>2. handled' = handled \cup {m} /\ UNCHANGED <<rows, half>>
    BY <1>2 DEF SkipDuplicate, Processed
  <2>3. QED
    BY <2>1, <2>2
<1>3. ASSUME NEW t \in IngestThreads, NEW m \in Messages, ListError(t, m)
      PROVE  HandledIsStored'
  BY <1>3 DEF ListError, Processed
<1>4. CASE SweepGoesOn
  BY <1>4 DEF SweepGoesOn
<1>5. CASE UNCHANGED store
  BY <1>5 DEF store
<1>6. ASSUME NEW t \in IngestThreads, NEW m \in Messages,
             RaiseBeforeInsert(t, m) \/ RaiseAfterInsert(t, m)
      PROVE  UNCHANGED store
  BY <1>6 DEF RaiseBeforeInsert, RaiseAfterInsert, Raise
<1>7. CASE \/ \E m \in Messages : Deliver(m) \/ LeaveWindow(m)
           \/ Renumber
           \/ \E t \in Readers : \/ StartRun(t) \/ StartRunBadly(t) \/ FetchChunk(t)
                                 \/ FetchRefused(t) \/ ConnectionLost(t)
                                 \/ ChunkDone(t) \/ FinishRun(t)
           \/ \E t \in Uploaders : StartUpload(t) \/ FinishUpload(t)
           \/ IngestKilled
           \/ UNCHANGED ingestVars
  BY <1>5, <1>7
     DEF Deliver, LeaveWindow, Renumber, StartRun, StartRunBadly, Open, FetchChunk, FetchRefused,
         ConnectionLost, ChunkDone, FinishRun, StartUpload, FinishUpload, IngestKilled, ingestVars
<1>8. QED
  BY <1>1, <1>2, <1>3, <1>4, <1>5, <1>6, <1>7 DEF IngestNext, Process

\* A mail that counts as processed and parsed has its report in the database,
\* so the mark may pass it: no kill, race or rollback takes the row away.
THEOREM HandledAreStored == IngestSpec => []HandledIsStored
<1>1. IngestInit => HandledIsStored
  BY DEF IngestInit, HandledIsStored
<1>2. QED
  BY <1>1, HandledStep, Typing, PTL DEF IngestSpec
=============================================================================
