------------------------------ MODULE Background ------------------------------
(***************************************************************************)
(* What the program does in the background: the ingest of the mailbox, the  *)
(* scheduled sends around the sweep, the drain of the SES queue and the     *)
(* checks of a sweep.  Each part has tables, locals and an environment of   *)
(* its own, and none reads a variable of another, so a behaviour follows    *)
(* ONE part while the others keep their first state: the behaviours checked *)
(* are the union of the parts, not their product (compare Workbench).       *)
(***************************************************************************)
EXTENDS ImapIngest, ScheduledSends, SesDrain, SweepChecks

CONSTANT Followed   \* the parts that a behaviour may follow

BackgroundParts == {"ingest", "sends", "drain", "checks"}

ASSUME FollowedAssumption == Followed \subseteq BackgroundParts

VARIABLE part   \* the part this behaviour follows

\* The parts that stand still have one first state each.
BackgroundInit ==
    /\ part \in Followed
    /\ IngestInit
    /\ SendsInit
    /\ DrainInit
    /\ ChecksInit
    /\ part # "checks" =>
          focus = "queue" /\ world = [rejected |-> FALSE, backlog |-> FALSE]

BackgroundNext ==
    /\ UNCHANGED part
    /\ \/ /\ part = "ingest"
          /\ IngestNext
          /\ UNCHANGED <<sendsVars, drainVars, checksVars>>
       \/ /\ part = "sends"
          /\ SendsNext
          /\ UNCHANGED <<ingestVars, drainVars, checksVars>>
       \/ /\ part = "drain"
          /\ DrainNext
          /\ UNCHANGED <<ingestVars, sendsVars, checksVars>>
       \/ /\ part = "checks"
          /\ ChecksNext
          /\ UNCHANGED <<ingestVars, sendsVars, drainVars>>

backgroundVars == <<part, ingestVars, sendsVars, drainVars, checksVars>>

BackgroundSpec == BackgroundInit /\ [][BackgroundNext]_backgroundVars

\* The fairness of each part, for the part that moves.
BackgroundFairness ==
    /\ WF_ingestVars(part = "ingest" /\ StartRun(Sweep))
    /\ WF_ingestVars(part = "ingest" /\ FetchChunk(Sweep))
    /\ WF_ingestVars(part = "ingest" /\ Process(Sweep))
    /\ WF_ingestVars(part = "ingest" /\ ChunkDone(Sweep))
    /\ WF_ingestVars(part = "ingest" /\ FinishRun(Sweep))
    /\ WF_ingestVars(part = "ingest" /\ SweepGoesOn)
    /\ WF_sendsVars(part = "sends" /\ JobStart)
    /\ WF_sendsVars(part = "sends" /\ Decide)
    /\ WF_sendsVars(part = "sends" /\ JobEnd)
    /\ \A t \in Threads :
          /\ WF_sendsVars(part = "sends" /\ SweepStart(t))
          /\ WF_sendsVars(part = "sends" /\ SweepFinish(t))
          /\ WF_sendsVars(part = "sends" /\ ReleaseLock(t))
    /\ \A t \in Targets :
          /\ WF_sendsVars(part = "sends" /\ (SkipNoData(t) \/ RenderRaises(t) \/ SendAccepted(t)))
          /\ WF_sendsVars(part = "sends" /\ MarkSent(t))
    /\ WF_drainVars(part = "drain" /\ StartDrain)
    /\ WF_drainVars(part = "drain" /\ Receive)
    /\ WF_drainVars(part = "drain" /\ ReceiveNothing)
    /\ WF_drainVars(part = "drain" /\ DeleteBatch)
    /\ WF_drainVars(part = "drain" /\ CommitBatch)
    /\ WF_drainVars(part = "drain" /\ Aggregate)
    /\ WF_drainVars(part = "drain" /\ FinishDrain)
    /\ WF_drainVars(part = "drain" /\ DrainGoesOn)
    /\ \A e \in Events : WF_drainVars(part = "drain" /\ Reappear(e))
    /\ WF_checksVars(part = "checks" /\ Age)
    /\ SF_checksVars(part = "checks" /\ RunWith({}))

BackgroundFairSpec == BackgroundSpec /\ BackgroundFairness

\* The part that moves keeps its variables in the shape its code gives them; the
\* others keep their first state.
BackgroundTypeOK ==
    /\ part \in Followed
    /\ part = "ingest" => IngestTypeOK
    /\ part = "sends"  => SendsTypeOK
    /\ part = "drain"  => DrainTypeOK
    /\ part = "checks" => ChecksTypeOK
=============================================================================
