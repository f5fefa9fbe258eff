-------------------------- MODULE WorkbenchProofs ---------------------------
(***************************************************************************)
(* What the five parts promise, they promise in the workbench: each of them *)
(* moves as its own specification allows, or stands still.                  *)
(***************************************************************************)
EXTENDS Workbench, VerifierProofs, OwnerProofs, DomainLifecycleProofs

\* A behaviour of the workbench is a behaviour of each part.
LEMMA EachPartsOwn == WorkbenchSpec =>
    /\ ReportSpec
    /\ VerifierSpec
    /\ NoticesSpec
    /\ RampSpec
    /\ LifecycleSpec
<1>1. WorkbenchInit => /\ ReportInit
                       /\ VerifierInit
                       /\ NoticesInit
                       /\ RampInit
                       /\ LifecycleInit
  BY DEF WorkbenchInit
<1>2. [WorkbenchNext]_workbenchVars => /\ [ReportNext]_reportVars
                                       /\ [VerifierNext]_verifierVars
                                       /\ [NoticesNext]_noticeVars
                                       /\ [RampNext]_rampVars
                                       /\ [LifecycleNext]_lifecycleVars
  BY DEF WorkbenchNext, workbenchVars
<1> QED
  BY <1>1, <1>2, PTL DEF WorkbenchSpec, ReportSpec, VerifierSpec, NoticesSpec, RampSpec,
                         LifecycleSpec

(***************************************************************************)
(* Every part keeps its variables in their shape, and the behaviour follows *)
(* the part it began with.                                                  *)
(***************************************************************************)
THEOREM WorkbenchTyping == WorkbenchSpec => []WorkbenchTypeOK
<1>1. WorkbenchInit => part \in Parts
  BY DEF WorkbenchInit
<1>2. part \in Parts /\ [WorkbenchNext]_workbenchVars => (part \in Parts)'
  BY DEF WorkbenchNext, workbenchVars
<1>3. WorkbenchSpec => [](part \in Parts)
  BY <1>1, <1>2, PTL DEF WorkbenchSpec
<1> QED
  BY <1>3, EachPartsOwn, ReportTyping, VerifierTyping, NoticesTyping, RampTyping,
     LifecycleTyping, PTL DEF WorkbenchTypeOK

(***************************************************************************)
(* The safety of the workbench: every invariant that its run checks, of the *)
(* parts that share no state, in one statement.                             *)
(***************************************************************************)
THEOREM WorkbenchSafety == WorkbenchSpec =>
    /\ [](FixesAreTold /\ SectionsAgree)
    /\ [](OneBatchProbes /\ DoneMeansCounted /\ BucketsAddUp)
    /\ [](NewsIsTold /\ ToldOnce)
    /\ [](AdvisedUpward /\ NoInventedClaim)
    /\ [](OwnRowsOnly /\ CountedIsKept /\ OncePerRun)
BY EachPartsOwn, FixesReachTheOwner, ReportSectionsAgree, OneBatchAtATime, DoneIsCounted,
   SixNumbersAddUp, AllNewsIsTold, NewsIsToldOnce, NeverAdvisedDown,
   ClaimsAreEarned, RowsStayWithTheirDomain, CountedReportsAreKept, RunsMailOnce, PTL
=============================================================================
