------------------------------ MODULE Workbench ------------------------------
(***************************************************************************)
(* Five parts of the program that share no state with each other: what an   *)
(* owner's report says, the address checker, the notices to a client, the   *)
(* policy ramp, and domains that come and go.  Each works on rows of its    *)
(* own and is complete by itself, so a behaviour follows ONE part while the *)
(* others keep their first state, and the behaviours checked are the union  *)
(* of the five, not their product.                                         *)
(***************************************************************************)
EXTENDS OwnerReport, Verifier, ClientNotices, PolicyRamp, DomainLifecycle

VARIABLE part   \* the part this behaviour follows

Parts == {"report", "verifier", "notices", "ramp", "lifecycle"}

\* The parts that stand still have one first state each.
WorkbenchInit ==
    /\ part \in Parts
    /\ ReportInit
    /\ VerifierInit
    /\ NoticesInit
    /\ RampInit
    /\ LifecycleInit
    /\ part # "report" => spoofer = {} /\ raised = {}
    /\ part # "notices" => button = "bounce"
    /\ part # "ramp" => published[0] = Enforced

WorkbenchNext ==
    /\ UNCHANGED part
    /\ \/ /\ part = "report"
          /\ ReportNext
          /\ UNCHANGED <<verifierVars, noticeVars, rampVars, lifecycleVars>>
       \/ /\ part = "verifier"
          /\ VerifierNext
          /\ UNCHANGED <<reportVars, noticeVars, rampVars, lifecycleVars>>
       \/ /\ part = "notices"
          /\ NoticesNext
          /\ UNCHANGED <<reportVars, verifierVars, rampVars, lifecycleVars>>
       \/ /\ part = "ramp"
          /\ RampNext
          /\ UNCHANGED <<reportVars, verifierVars, noticeVars, lifecycleVars>>
       \/ /\ part = "lifecycle"
          /\ LifecycleNext
          /\ UNCHANGED <<reportVars, verifierVars, noticeVars, rampVars>>

workbenchVars ==
    <<part, reportVars, verifierVars, noticeVars, rampVars, lifecycleVars>>

\* VerifierFairness and RampFairness, for the part that moves.
WorkbenchFairness ==
    /\ \A t \in Threads : WF_verifierVars(part = "verifier" /\ BatchThread(t))
    /\ WF_rampVars(part = "ramp" /\ NewDay)
    /\ WF_rampVars(part = "ramp" /\ Analyse)
    /\ WF_rampVars(part = "ramp" /\ Follow)
    /\ WF_rampVars(part = "ramp" /\ Arrive(1, "good"))

WorkbenchSpec == WorkbenchInit /\ [][WorkbenchNext]_workbenchVars /\ WorkbenchFairness

\* Every part keeps its variables in the shape its code gives them.
WorkbenchTypeOK ==
    /\ part \in Parts
    /\ ReportTypeOK
    /\ VerifierTypeOK
    /\ NoticesTypeOK
    /\ RampTypeOK
    /\ LifecycleTypeOK
=============================================================================
