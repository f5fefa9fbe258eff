---------------------------- MODULE MCWorkbench ----------------------------
(* The instance of Workbench that is checked: values no cfg can write. *)
EXTENDS Workbench

SomeReplies == {<<TRUE, "probe_failed">>, <<FALSE, "accepted">>}
SomeLists   == {{"Ann"}, {"ann", "tmp"}}
=============================================================================
