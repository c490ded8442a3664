---------------------------- MODULE MCCommandRun ----------------------------
(***************************************************************************)
(* Instances of CommandRun for TLC: an executor attempt, a planner call,   *)
(* two verification commands and two commands of an environment capture.   *)
(* Two pieces through a pipe for one block the command, are cut short and *)
(* are lost.                                                               *)
(***************************************************************************)
EXTENDS CommandRun

MCSessions == {<<"stream">>, <<"capture">>, <<"verify", "verify">>, <<"probe", "probe">>}
=============================================================================
