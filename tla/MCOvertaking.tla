---------------------------- MODULE MCOvertaking ----------------------------
(***************************************************************************)
(* The clients and calls of MCEventLoop, with the history of who was       *)
(* answered while whose call was on its way.                               *)
(***************************************************************************)
EXTENDS MCEventLoop, Overtaking

\* The last answer is read by nobody, with the history as without it.
ViewWithHistory == <<ViewOfLoop, overtaken>>
=============================================================================
