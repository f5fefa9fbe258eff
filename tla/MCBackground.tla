---------------------------- MODULE MCBackground ----------------------------
(* The instances of Background that are checked: values no cfg can write. *)
EXTENDS Background, MCImapIngest, MCSesDrain
=============================================================================
