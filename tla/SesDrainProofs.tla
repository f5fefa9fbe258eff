--------------------------- MODULE SesDrainProofs ---------------------------
(***************************************************************************)
(* Theorems about SesDrain, for every set of events and addresses, every    *)
(* batch size and every value of the bounds.                                *)
(***************************************************************************)
EXTENDS SesDrain, TLAPS

Known == {e \in Events : EventKind[e] # "foreign"}
Tallied == {e \in Events : EventKind[e] \in {"bounce", "delivery"}}
Running == {"receive", "delete", "commit", "counts"}

\* Where an event is that SQS will not deliver again: in the tallies, or still
\* in the open transaction, whose view of the tallies never lags behind db.
QueueInv ==
    /\ step \notin {"delete", "commit", "raised"} => batch = {}
    /\ \A e \in Known : db.tally[e] <= view.tally[e]
    /\ \A e \in Known \cap batch : view.tally[e] > 0
    /\ DeletedIsCounted

\* A run owes the daily counts what its dictionary holds, and nothing more.
Owed(e) == IF step \in Running THEN counts[e] ELSE 0

CountInv ==
    /\ step = "idle" => view = db
    /\ \A e \in Tallied \ cutEvents :
          /\ view.tally[e] = view.daily[e] + Owed(e)
          /\ counts[e] = 0 \/ step = "idle" => db.tally[e] = db.daily[e]

\* A run owes a reminder for what its dictionary holds, and nothing more.
NewsInv ==
    \A a \in Addresses \ cutAddresses :
        /\ view.seen[a] # 0 => a \in view.told \/ (step \in Running /\ a \in fresh)
        /\ db.seen[a] # 0 => a \in db.told \/ (step # "idle" /\ a \in fresh)

\* Timestamps lie in the past, and the open transaction changes none of those
\* that are committed, except that the watermark may rise.
StampInv ==
    /\ view.ack <= second /\ db.ack <= view.ack
    /\ \A a \in Addresses :
          /\ view.seen[a] <= second
          /\ db.seen[a] # 0 => view.seen[a] = db.seen[a]
    /\ \A a \in reviewed : db.seen[a] # 0 /\ db.seen[a] <= db.ack

-----------------------------------------------------------------------------
(* The two steps that write.                                                *)

\* What a received batch does to the open transaction.
LEMMA ReceiveWrites ==
    ASSUME DrainTypeOK, NEW S \in SUBSET Queued,
           view' = [view EXCEPT
                      !.tally = [e \in Events |->
                                   IF e \in S /\ EventKind[e] # "foreign" THEN @[e] + 1 ELSE @[e]],
                      !.seen = [a \in Addresses |-> FirstSeen(S, a)]]
    PROVE  /\ view' \in EventStore
           /\ \A e \in Events : view'.tally[e] =
                 IF e \in S /\ EventKind[e] # "foreign" THEN view.tally[e] + 1 ELSE view.tally[e]
           /\ \A a \in Addresses : view'.seen[a] =
                 IF a \in Bounced(S) /\ view.seen[a] = 0 THEN second ELSE view.seen[a]
           /\ view'.daily = view.daily /\ view'.told = view.told
           /\ view'.item = view.item /\ view'.ack = view.ack
<1> USE DrainBoundAssumption DEF DrainTypeOK, EventStore
<1>1. \A a \in Addresses : FirstSeen(S, a) \in 0..MaxSecond
  BY DEF FirstSeen
<1>2. [a \in Addresses |-> FirstSeen(S, a)] \in [Addresses -> 0..MaxSecond]
  BY <1>1
<1>3. [e \in Events |-> IF e \in S /\ EventKind[e] # "foreign" THEN view.tally[e] + 1
                        ELSE view.tally[e]] \in [Events -> Nat]
  OBVIOUS
<1>4. view' \in EventStore
  BY <1>2, <1>3
<1>5. \A e \in Events : view'.tally[e] =
         IF e \in S /\ EventKind[e] # "foreign" THEN view.tally[e] + 1 ELSE view.tally[e]
  OBVIOUS
<1>6. \A a \in Addresses : view'.seen[a] = FirstSeen(S, a)
  OBVIOUS
<1>7. QED
  BY <1>4, <1>5, <1>6 DEF FirstSeen

\* What the aggregates do to it.
LEMMA AggregateWrites ==
    ASSUME DrainTypeOK, Aggregate
    PROVE  /\ view' \in EventStore
           /\ \A e \in Events : view'.daily[e] = view.daily[e] + counts[e]
           /\ view'.told = view.told \cup fresh
           /\ view'.tally = view.tally /\ view'.seen = view.seen
           /\ view'.ack \in {view.ack, second}
<1> USE DrainBoundAssumption DEF DrainTypeOK, EventStore, Aggregate, DailyCounts
<1>1. [e \in Events |-> view.daily[e] + counts[e]] \in [Events -> Nat]
  OBVIOUS
<1>2. second \in 0..MaxSecond /\ view.told \cup fresh \subseteq Addresses
  OBVIOUS
<1>3. (fresh # {}) \in BOOLEAN
  OBVIOUS
<1>4. view' \in EventStore
  BY <1>1, <1>2, <1>3
<1>5. QED
  BY <1>1, <1>4

-----------------------------------------------------------------------------
(* Types.                                                                   *)

LEMMA InitTypes == DrainInit => DrainTypeOK
<1> SUFFICES ASSUME DrainInit PROVE DrainTypeOK
  OBVIOUS
<1>1. 0 \in 0..MaxSecond /\ 1 \in 1..MaxSecond /\ 0 \in 0..MaxDrainFaults
  BY DrainBoundAssumption
<1>2. Nothing \in [Events -> Nat] /\ [a \in Addresses |-> 0] \in [Addresses -> 0..MaxSecond]
  BY <1>1 DEF Nothing
<1>3. db \in EventStore /\ view = db
  BY <1>1, <1>2 DEF DrainInit, EventStore
<1>4. QED
  BY <1>1, <1>2, <1>3 DEF DrainInit, DrainTypeOK, DrainPhases

LEMMA TypeStep == DrainTypeOK /\ [DrainNext]_drainVars => DrainTypeOK'
<1> SUFFICES ASSUME DrainTypeOK, [DrainNext]_drainVars PROVE DrainTypeOK'
  OBVIOUS
<1> USE DrainBoundAssumption DEF DrainTypeOK, DrainPhases, drainRun, history
<1>1. ASSUME NEW e \in Events, Publish(e) \/ Reappear(e) PROVE DrainTypeOK'
  BY <1>1 DEF Publish, Reappear
<1>2. CASE SecondPasses
  BY <1>2 DEF SecondPasses
<1>3. CASE StartDrain
  BY <1>3 DEF StartDrain, Nothing
<1>4. CASE Receive
  <2>1. PICK S \in SUBSET Queued : Receive!2!(S)
    BY <1>4 DEF Receive
  <2>2. view' \in EventStore
    BY <2>1, ReceiveWrites
  <2>3. /\ queue' \in [Events -> {"out", "queued", "flight", "gone"}]
        /\ counts' \in [Events -> Nat] /\ batch' \subseteq Events
    BY <2>1 DEF Queued
  <2>4. fresh' \subseteq Addresses
    BY <2>1, EventAssumption DEF NewIn, Bounced, Queued
  <2>5. QED
    BY <1>4, <2>2, <2>3, <2>4 DEF Receive
<1>5. CASE ReceiveNothing
  BY <1>5 DEF ReceiveNothing, DrainFault
<1>6. CASE ReceiveRaises
  BY <1>6 DEF ReceiveRaises, DrainFault, CutShort
<1>7. CASE DeleteBatch
  BY <1>7 DEF DeleteBatch, Deleted
<1>8. CASE DeletePartly
  <2>1. queue' \in [Events -> {"out", "queued", "flight", "gone"}]
    BY <1>8 DEF DeletePartly, Deleted
  <2>2. QED
    BY <1>8, <2>1 DEF DeletePartly, DrainFault
<1>9. CASE DeleteRaises
  BY <1>9 DEF DeleteRaises, Deleted, DrainFault, CutShort
<1>10. CASE CommitBatch
  BY <1>10 DEF CommitBatch
<1>11. CASE Aggregate
  <2>1. view' \in EventStore
    BY <1>11, AggregateWrites
  <2>2. QED
    BY <1>11, <2>1 DEF Aggregate
<1>12. CASE FinishDrain \/ DrainGoesOn
  BY <1>12 DEF FinishDrain, DrainGoesOn
<1>13. CASE FinishRaises
  BY <1>13 DEF FinishRaises, DrainFault
<1>14. CASE Kill
  BY <1>14 DEF Kill, DrainFault, CutShort
<1>15. CASE Review
  <2>1. db' \in EventStore
    <3>1. second \in 0..MaxSecond /\ FALSE \in BOOLEAN
      OBVIOUS
    <3>2. QED
      BY <1>15, <3>1 DEF Review, EventStore
  <2>2. reviewed' \subseteq Addresses
    BY <1>15 DEF Review, NewOnly
  <2>3. QED
    BY <1>15, <2>1, <2>2 DEF Review
<1>16. CASE UNCHANGED drainVars
  BY <1>16 DEF drainVars
<1>17. QED
  BY <1>1, <1>2, <1>3, <1>4, <1>5, <1>6, <1>7, <1>8, <1>9, <1>10, <1>11, <1>12, <1>13, <1>14,
     <1>15, <1>16 DEF DrainNext, Drain

\* Every reachable state is well typed.
THEOREM Typing == DrainSpec => []DrainTypeOK
<1>1. DrainInit => DrainTypeOK
  BY InitTypes
<1>2. DrainTypeOK /\ [DrainNext]_drainVars => DrainTypeOK'
  BY TypeStep
<1>3. QED
  BY <1>1, <1>2, PTL DEF DrainSpec

-----------------------------------------------------------------------------
(* Nothing leaves the queue uncounted but what a kill rolls back.           *)

LEMMA QueueInit == DrainInit => QueueInv
<1> SUFFICES ASSUME DrainInit PROVE QueueInv
  OBVIOUS
<1>1. \A e \in Events : db.tally[e] = 0 /\ view.tally[e] = 0 /\ queue[e] = "out"
  BY DEF DrainInit, Nothing
<1>2. QED
  BY <1>1 DEF DrainInit, QueueInv, DeletedIsCounted, Known

LEMMA QueueStep == DrainTypeOK /\ QueueInv /\ [DrainNext]_drainVars => QueueInv'
<1> SUFFICES ASSUME DrainTypeOK, QueueInv, [DrainNext]_drainVars PROVE QueueInv'
  OBVIOUS
<1> USE DEF QueueInv, DeletedIsCounted, Known, drainRun, history
<1>0. /\ \A e \in Events : db.tally[e] \in Nat /\ view.tally[e] \in Nat
      /\ batch \subseteq Events
  BY DEF DrainTypeOK, EventStore
<1>1. ASSUME NEW e \in Events, Publish(e) \/ Reappear(e) PROVE QueueInv'
  <2>1. /\ UNCHANGED <<db, view, step, batch, lostEvents>>
        /\ \A f \in Events : queue'[f] = "gone" => queue[f] = "gone"
    BY <1>1 DEF Publish, Reappear, DrainTypeOK
  <2>2. QED
    BY <2>1
<1>2. CASE SecondPasses \/ StartDrain \/ ReceiveNothing
  <2>1. /\ UNCHANGED <<db, view, queue, batch, lostEvents>>
        /\ step' # step => step \notin {"delete", "commit", "raised"}
    BY <1>2 DEF SecondPasses, StartDrain, ReceiveNothing
  <2>2. QED
    BY <2>1
<1>3. CASE Receive
  <2>1. PICK S \in SUBSET Queued : Receive!2!(S)
    BY <1>3 DEF Receive
  <2>2. \A e \in Known : view'.tally[e] = IF e \in S THEN view.tally[e] + 1 ELSE view.tally[e]
    <3>1. \A e \in Events : view'.tally[e] =
             IF e \in S /\ EventKind[e] # "foreign" THEN view.tally[e] + 1 ELSE view.tally[e]
      BY <2>1, ReceiveWrites
    <3>2. QED
      BY <3>1
  <2>3. \A e \in Events : queue'[e] = "gone" => queue[e] = "gone" /\ e \notin batch
    BY <1>3, <2>1 DEF Receive
  <2>4. UNCHANGED <<db, lostEvents>> /\ batch' = S /\ step' = "delete"
    BY <1>3, <2>1 DEF Receive
  <2>5. QED
    BY <1>0, <2>2, <2>3, <2>4
<1>4. CASE ReceiveRaises
  BY <1>4 DEF ReceiveRaises, CutShort
<1>5. CASE DeleteBatch \/ DeletePartly \/ DeleteRaises
  <2>1. /\ UNCHANGED <<db, view, batch, lostEvents>> /\ step' \in {"commit", "raised"}
        /\ \A e \in Events : queue'[e] = "gone" => queue[e] = "gone" \/ e \in batch
    BY <1>5 DEF DeleteBatch, DeletePartly, DeleteRaises, Deleted, CutShort
  <2>2. QED
    BY <2>1
<1>6. CASE CommitBatch \/ DrainGoesOn
  <2>1. /\ UNCHANGED <<view, queue, lostEvents>> /\ db' = view /\ batch' = {}
    BY <1>6 DEF CommitBatch, DrainGoesOn
  <2>2. QED
    BY <1>0, <2>1
<1>7. CASE Aggregate
  <2>1. /\ UNCHANGED <<db, queue, batch, lostEvents>> /\ view'.tally = view.tally
        /\ step = "counts" /\ step' = "finish"
    BY <1>7, AggregateWrites DEF Aggregate
  <2>2. QED
    BY <2>1
<1>8. CASE FinishDrain
  <2>1. /\ UNCHANGED <<view, queue, batch, lostEvents>> /\ db' = view /\ step = "finish" /\ step' = "idle"
    BY <1>8 DEF FinishDrain
  <2>2. QED
    BY <1>0, <2>1
<1>9. CASE FinishRaises
  BY <1>9 DEF FinishRaises
<1>10. CASE Kill
  <2>1. /\ UNCHANGED <<db, queue>> /\ view' = db /\ batch' = {}
        /\ lostEvents' = lostEvents \cup {e \in batch : queue[e] = "gone"}
    BY <1>10 DEF Kill
  <2>2. QED
    BY <1>0, <2>1
<1>11. CASE Review
  <2>1. /\ UNCHANGED <<queue, step, batch, lostEvents>> /\ view' = db' /\ view = db
        /\ db'.tally = db.tally
    BY <1>11 DEF Review, DrainTypeOK, EventStore
  <2>2. QED
    BY <1>0, <2>1
<1>12. CASE UNCHANGED drainVars
  BY <1>12 DEF drainVars
<1>13. QED
  BY <1>1, <1>2, <1>3, <1>4, <1>5, <1>6, <1>7, <1>8, <1>9, <1>10, <1>11, <1>12 DEF DrainNext, Drain

\* An event that is gone from the queue is in the tallies, in the batch that is
\* about to be committed, or was rolled back by a kill.
THEOREM DeletedAreCounted == DrainSpec => []DeletedIsCounted
<1>1. DrainInit => QueueInv
  BY QueueInit
<1>2. DrainTypeOK /\ QueueInv /\ [DrainNext]_drainVars => QueueInv'
  BY QueueStep
<1>3. QueueInv => DeletedIsCounted
  BY DEF QueueInv
<1>4. QED
  BY <1>1, <1>2, <1>3, Typing, PTL DEF DrainSpec

-----------------------------------------------------------------------------
(* The daily counts follow the tallies.                                     *)

LEMMA CountInit == DrainInit => CountInv
<1> SUFFICES ASSUME DrainInit PROVE CountInv
  OBVIOUS
<1>1. \A e \in Events : /\ view.tally[e] = 0 /\ view.daily[e] = 0
                        /\ db.tally[e] = 0 /\ db.daily[e] = 0
  BY DEF DrainInit, Nothing
<1>2. view = db /\ step = "idle"
  BY DEF DrainInit
<1>3. QED
  BY <1>1, <1>2 DEF CountInv, Owed, Running, Tallied

LEMMA CountStep == DrainTypeOK /\ CountInv /\ [DrainNext]_drainVars => CountInv'
<1> SUFFICES ASSUME DrainTypeOK, CountInv, [DrainNext]_drainVars PROVE CountInv'
  OBVIOUS
<1> USE DEF CountInv, Owed, Running, drainRun, history
<1>0. \A e \in Events : /\ db.tally[e] \in Nat /\ view.tally[e] \in Nat
                        /\ db.daily[e] \in Nat /\ view.daily[e] \in Nat /\ counts[e] \in Nat
  BY DEF DrainTypeOK, EventStore
<1>00. Tallied \subseteq Events
  BY DEF Tallied
<1>1. ASSUME NEW e \in Events, Publish(e) \/ Reappear(e) PROVE CountInv'
  BY <1>1 DEF Publish, Reappear
<1>2. CASE SecondPasses
  BY <1>2 DEF SecondPasses
<1>3. CASE StartDrain
  <2>1. \A e \in Events : counts'[e] = 0
    BY <1>3 DEF StartDrain, Nothing
  <2>2. UNCHANGED <<db, view, cutEvents>> /\ step = "idle" /\ step' = "receive"
    BY <1>3 DEF StartDrain
  <2>3. QED
    BY <1>0, <1>00, <2>1, <2>2
<1>4. CASE Receive
  <2>1. PICK S \in SUBSET Queued : Receive!2!(S)
    BY <1>4 DEF Receive
  <2>2. \A e \in Tallied : /\ view'.tally[e] = IF e \in S THEN view.tally[e] + 1 ELSE view.tally[e]
                           /\ view'.daily[e] = view.daily[e]
    <3>1. /\ \A e \in Events : view'.tally[e] =
                IF e \in S /\ EventKind[e] # "foreign" THEN view.tally[e] + 1 ELSE view.tally[e]
          /\ view'.daily = view.daily
      BY <2>1, ReceiveWrites
    <3>2. QED
      BY <3>1 DEF Tallied
  <2>3. \A e \in Tallied : counts'[e] = IF e \in S THEN counts[e] + 1 ELSE counts[e]
    BY <2>1 DEF Tallied
  <2>4. UNCHANGED <<db, cutEvents>> /\ step = "receive" /\ step' = "delete"
    BY <1>4 DEF Receive
  <2>5. QED
    BY <1>0, <1>00, <2>2, <2>3, <2>4
<1>5. CASE ReceiveNothing \/ DeleteBatch \/ DeletePartly
  <2>1. /\ UNCHANGED <<db, view, counts, cutEvents>>
        /\ step \in Running /\ step' \in Running
    BY <1>5 DEF ReceiveNothing, DeleteBatch, DeletePartly
  <2>2. QED
    BY <2>1
<1>6. CASE ReceiveRaises \/ DeleteRaises
  <2>1. /\ UNCHANGED <<db, view, counts>> /\ step \in Running /\ step' = "raised"
        /\ cutEvents' = cutEvents \cup {e \in Events : counts[e] > 0}
    BY <1>6 DEF ReceiveRaises, DeleteRaises, CutShort
  <2>2. \A e \in Tallied \ cutEvents' : e \in Tallied \ cutEvents /\ counts[e] = 0
    BY <1>0, <1>00, <2>1
  <2>3. QED
    BY <1>0, <1>00, <2>1, <2>2
<1>7. CASE CommitBatch
  <2>1. /\ UNCHANGED <<view, counts, cutEvents>> /\ db' = view
        /\ step = "commit" /\ step' \in {"receive", "counts"}
    BY <1>7 DEF CommitBatch
  <2>2. QED
    BY <1>0, <1>00, <2>1
<1>8. CASE Aggregate
  <2>1. /\ UNCHANGED <<db, counts, cutEvents>> /\ step = "counts" /\ step' = "finish"
        /\ view'.tally = view.tally
        /\ \A e \in Events : view'.daily[e] = view.daily[e] + counts[e]
    BY <1>8, AggregateWrites DEF Aggregate
  <2>2. QED
    BY <1>0, <1>00, <2>1
<1>9. CASE FinishDrain \/ DrainGoesOn
  <2>1. /\ UNCHANGED <<view, counts, cutEvents>> /\ db' = view
        /\ step \in {"finish", "raised"} /\ step' = "idle"
    BY <1>9 DEF FinishDrain, DrainGoesOn
  <2>2. QED
    BY <1>0, <1>00, <2>1
<1>10. CASE FinishRaises
  BY <1>10 DEF FinishRaises
<1>11. CASE Kill
  <2>1. /\ UNCHANGED <<db, counts>> /\ view' = db /\ step' = "idle"
        /\ cutEvents' = cutEvents \cup {e \in Events : counts[e] > 0}
    BY <1>11 DEF Kill, CutShort
  <2>2. \A e \in Tallied \ cutEvents' : e \in Tallied \ cutEvents /\ counts[e] = 0
    BY <1>0, <1>00, <2>1
  <2>3. QED
    BY <1>0, <1>00, <2>1, <2>2
<1>12. CASE Review
  <2>1. /\ UNCHANGED <<step, counts, cutEvents>> /\ view' = db' /\ view = db
        /\ db'.tally = db.tally /\ db'.daily = db.daily
    BY <1>12 DEF Review, DrainTypeOK, EventStore
  <2>2. QED
    BY <2>1
<1>13. CASE UNCHANGED drainVars
  BY <1>13 DEF drainVars
<1>14. QED
  BY <1>1, <1>2, <1>3, <1>4, <1>5, <1>6, <1>7, <1>8, <1>9, <1>10, <1>11, <1>12, <1>13
  DEF DrainNext, Drain

\* The two ways the code counts an event agree between drains, for every event
\* that no interrupted run held.
THEOREM CountsAgreeBetweenDrains == DrainSpec => []CountsAgree
<1>1. DrainInit => CountInv
  BY CountInit
<1>2. DrainTypeOK /\ CountInv /\ [DrainNext]_drainVars => CountInv'
  BY CountStep
<1>3. CountInv => CountsAgree
  BY DEF CountInv, CountsAgree, Tallied
<1>4. QED
  BY <1>1, <1>2, <1>3, Typing, PTL DEF DrainSpec

-----------------------------------------------------------------------------
(* Every suppression is announced.                                          *)

LEMMA NewsInit == DrainInit => NewsInv
  BY DEF DrainInit, NewsInv

LEMMA NewsStep == DrainTypeOK /\ NewsInv /\ [DrainNext]_drainVars => NewsInv'
<1> SUFFICES ASSUME DrainTypeOK, NewsInv, [DrainNext]_drainVars PROVE NewsInv'
  OBVIOUS
<1> USE DEF NewsInv, Running, drainRun, history
<1>1. CASE \/ SecondPasses \/ ReceiveNothing \/ DeleteBatch \/ DeletePartly
           \/ \E e \in Events : Publish(e) \/ Reappear(e)
  <2>1. /\ UNCHANGED <<db, view, fresh, cutAddresses>>
        /\ step' = step \/ (step \in Running /\ step' \in Running)
    BY <1>1 DEF SecondPasses, ReceiveNothing, DeleteBatch, DeletePartly, Publish, Reappear
  <2>2. QED
    BY <2>1
<1>2. CASE StartDrain
  <2>1. UNCHANGED <<db, view, cutAddresses>> /\ step = "idle"
    BY <1>2 DEF StartDrain
  <2>2. QED
    BY <2>1
<1>3. CASE Receive
  <2>1. PICK S \in SUBSET Queued : Receive!2!(S)
    BY <1>3 DEF Receive
  <2>2. \A a \in Addresses : view'.seen[a] # 0 => view.seen[a] # 0 \/ a \in fresh'
    <3>1. \A a \in Addresses : view'.seen[a] =
             IF a \in Bounced(S) /\ view.seen[a] = 0 THEN second ELSE view.seen[a]
      BY <2>1, ReceiveWrites
    <3>2. fresh' = fresh \cup {a \in Bounced(S) : view.seen[a] = 0}
      BY <2>1 DEF NewIn
    <3>3. QED
      BY <3>1, <3>2
  <2>3. view'.told = view.told
    BY <2>1, ReceiveWrites
  <2>4. UNCHANGED <<db, cutAddresses>> /\ fresh \subseteq fresh' /\ step = "receive" /\ step' = "delete"
    BY <1>3, <2>1 DEF Receive
  <2>5. QED
    BY <2>2, <2>3, <2>4
<1>4. CASE ReceiveRaises \/ DeleteRaises
  <2>1. /\ UNCHANGED <<db, view, fresh>> /\ cutAddresses' = cutAddresses \cup fresh
    BY <1>4 DEF ReceiveRaises, DeleteRaises, CutShort
  <2>2. QED
    BY <2>1
<1>5. CASE CommitBatch
  <2>1. /\ UNCHANGED <<view, fresh, cutAddresses>> /\ db' = view
        /\ step' \in {"receive", "counts"}
    BY <1>5 DEF CommitBatch
  <2>2. QED
    BY <2>1
<1>6. CASE Aggregate
  <2>1. /\ UNCHANGED <<db, fresh, cutAddresses>> /\ step = "counts" /\ step' = "finish"
        /\ view'.seen = view.seen /\ view'.told = view.told \cup fresh
    BY <1>6, AggregateWrites DEF Aggregate
  <2>2. QED
    BY <2>1
<1>7. CASE FinishDrain \/ DrainGoesOn
  <2>1. /\ UNCHANGED <<view, fresh, cutAddresses>> /\ db' = view
        /\ step \in {"finish", "raised"} /\ step' = "idle"
    BY <1>7 DEF FinishDrain, DrainGoesOn
  <2>2. QED
    BY <2>1
<1>8. CASE FinishRaises
  <2>1. UNCHANGED <<db, view, fresh, cutAddresses>> /\ step = "finish" /\ step' = "raised"
    BY <1>8 DEF FinishRaises
  <2>2. QED
    BY <2>1
<1>9. CASE Kill
  <2>1. /\ UNCHANGED <<db, fresh>> /\ view' = db
        /\ cutAddresses' = cutAddresses \cup fresh
    BY <1>9 DEF Kill, CutShort
  <2>2. QED
    BY <2>1
<1>10. CASE Review
  <2>1. /\ UNCHANGED <<step, fresh, cutAddresses>> /\ view' = db' /\ view = db
        /\ db'.seen = db.seen /\ db'.told = db.told
    BY <1>10 DEF Review, DrainTypeOK, EventStore
  <2>2. QED
    BY <2>1
<1>11. CASE UNCHANGED drainVars
  BY <1>11 DEF drainVars
<1>12. QED
  BY <1>1, <1>2, <1>3, <1>4, <1>5, <1>6, <1>7, <1>8, <1>9, <1>10, <1>11 DEF DrainNext, Drain

\* Between two drains no suppression is without a reminder that counted it,
\* except those of interrupted runs.
THEOREM NewAreAnnounced == DrainSpec => []NewIsAnnounced
<1>1. DrainInit => NewsInv
  BY NewsInit
<1>2. DrainTypeOK /\ NewsInv /\ [DrainNext]_drainVars => NewsInv'
  BY NewsStep
<1>3. NewsInv => NewIsAnnounced
  BY DEF NewsInv, NewIsAnnounced, Running
<1>4. QED
  BY <1>1, <1>2, <1>3, Typing, PTL DEF DrainSpec

-----------------------------------------------------------------------------
(* What was reviewed stays old.                                             *)

LEMMA StampInit == DrainInit => StampInv
  BY DEF DrainInit, StampInv

\* Committing the open transaction: the stamps of db become those of view.
LEMMA StampCommit ==
    ASSUME DrainTypeOK, StampInv, db' = view, view' = view, UNCHANGED <<second, reviewed>>
    PROVE  StampInv'
<1>1. reviewed \subseteq Addresses /\ db.ack \in Nat /\ view.ack \in Nat
      /\ \A a \in Addresses : db.seen[a] \in Nat /\ view.seen[a] \in Nat
  BY DrainBoundAssumption DEF DrainTypeOK, EventStore
<1>2. \A a \in reviewed : view.seen[a] # 0 /\ view.seen[a] <= view.ack
  BY <1>1 DEF StampInv
<1>3. QED
  BY <1>1, <1>2 DEF StampInv

LEMMA StampStep == DrainTypeOK /\ StampInv /\ [DrainNext]_drainVars => StampInv'
<1> SUFFICES ASSUME DrainTypeOK, StampInv, [DrainNext]_drainVars PROVE StampInv'
  OBVIOUS
<1> USE DEF drainRun, history
<1>0. /\ second \in Nat \ {0} /\ db.ack \in Nat /\ view.ack \in Nat /\ reviewed \subseteq Addresses
      /\ \A a \in Addresses : db.seen[a] \in Nat /\ view.seen[a] \in Nat
  BY DrainBoundAssumption DEF DrainTypeOK, EventStore
<1>1. CASE \/ StartDrain \/ ReceiveNothing \/ ReceiveRaises \/ DeleteBatch \/ DeletePartly
           \/ DeleteRaises \/ FinishRaises \/ UNCHANGED drainVars
           \/ \E e \in Events : Publish(e) \/ Reappear(e)
  <2>1. UNCHANGED <<second, db, view, reviewed>>
    BY <1>1 DEF StartDrain, ReceiveNothing, ReceiveRaises, DeleteBatch, DeletePartly, DeleteRaises,
                FinishRaises, CutShort, Publish, Reappear, drainVars
  <2>2. QED
    BY <2>1 DEF StampInv
<1>2. CASE SecondPasses
  <2>1. second' = second + 1 /\ UNCHANGED <<db, view, reviewed>>
    BY <1>2 DEF SecondPasses
  <2>2. QED
    BY <1>0, <2>1 DEF StampInv
<1>3. CASE Receive
  <2>1. PICK S \in SUBSET Queued : Receive!2!(S)
    BY <1>3 DEF Receive
  <2>2. /\ view'.ack = view.ack
        /\ \A a \in Addresses : view'.seen[a] =
              IF a \in Bounced(S) /\ view.seen[a] = 0 THEN second ELSE view.seen[a]
    BY <2>1, ReceiveWrites
  <2>3. UNCHANGED <<second, db, reviewed>>
    BY <1>3, <2>1 DEF Receive
  <2>4. \A a \in Addresses : /\ view'.seen[a] <= second
                             /\ db.seen[a] # 0 => view'.seen[a] = db.seen[a]
    BY <1>0, <2>2 DEF StampInv
  <2>5. QED
    BY <2>2, <2>3, <2>4 DEF StampInv
<1>4. CASE CommitBatch \/ FinishDrain \/ DrainGoesOn
  BY <1>4, StampCommit DEF CommitBatch, FinishDrain, DrainGoesOn
<1>5. CASE Aggregate
  <2>1. view'.seen = view.seen /\ view'.ack \in {view.ack, second} /\ UNCHANGED <<second, db, reviewed>>
    BY <1>5, AggregateWrites DEF Aggregate
  <2>2. view'.ack <= second /\ db.ack <= view'.ack
    BY <1>0, <2>1 DEF StampInv
  <2>3. QED
    BY <2>1, <2>2 DEF StampInv
<1>6. CASE Kill
  <2>1. view' = db /\ UNCHANGED <<second, db, reviewed>>
    BY <1>6 DEF Kill
  <2>2. db.ack <= second /\ \A a \in Addresses : db.seen[a] <= second
    BY <1>0 DEF StampInv
  <2>3. QED
    BY <1>0, <2>1, <2>2 DEF StampInv
<1>7. CASE Review
  <2>1. /\ view' = db' /\ view = db /\ db'.seen = db.seen /\ db'.ack = second /\ second' = second
        /\ reviewed' = reviewed \cup NewOnly(db)
    BY <1>7 DEF Review, DrainTypeOK, EventStore
  <2>2. \A a \in reviewed' : a \in Addresses /\ db.seen[a] # 0
    BY <1>0, <2>1 DEF StampInv, NewOnly
  <2>3. \A a \in Addresses : db.seen[a] <= second
    BY <2>1 DEF StampInv
  <2>4. QED
    BY <1>0, <2>1, <2>2, <2>3 DEF StampInv
<1>8. QED
  BY <1>1, <1>2, <1>3, <1>4, <1>5, <1>6, <1>7 DEF DrainNext, Drain

\* What the user has had in a CSV and acknowledged never comes back in one.
THEOREM ReviewedAreOld == DrainSpec => []ReviewedStaysOld
<1>1. DrainInit => StampInv
  BY StampInit
<1>2. DrainTypeOK /\ StampInv /\ [DrainNext]_drainVars => StampInv'
  BY StampStep
<1>3. DrainTypeOK /\ StampInv => ReviewedStaysOld
  <2> SUFFICES ASSUME DrainTypeOK, StampInv, NEW a \in reviewed PROVE a \notin NewOnly(db)
    BY DEF ReviewedStaysOld
  <2>1. db.seen[a] \in Nat /\ db.ack \in Nat /\ db.seen[a] <= db.ack
    BY DrainBoundAssumption DEF StampInv, DrainTypeOK, EventStore
  <2>2. QED
    BY <2>1 DEF NewOnly
<1>4. QED
  BY <1>1, <1>2, <1>3, Typing, PTL DEF DrainSpec
=============================================================================
