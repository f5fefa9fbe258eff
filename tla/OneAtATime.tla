----------------------------- MODULE OneAtATime -----------------------------
(***************************************************************************)
(* What "Only one batch runs at a time" promises (web.py, the comment above *)
(* _verifier_batch_lock), without saying how: someone begins only when      *)
(* nobody is at work, and is alone until the work is over.  Verifier        *)
(* implements this with a lock, threads and a process that can be killed;   *)
(* so does ScheduledSends with _checks_lock, around the sweeps of the job   *)
(* and of the Refresh button.                                               *)
(***************************************************************************)
CONSTANT Workers   \* those who can be at work

VARIABLE working   \* who is at work

Init == working = {}

Start ==
    /\ working = {}
    /\ \E one \in Workers : working' = {one}

Stop ==
    /\ working # {}
    /\ working' = {}

Spec == Init /\ [][Start \/ Stop]_working
=============================================================================
