---------------------------- MODULE MCComposeApp ----------------------------
(* Two requests at a time about one app. *)
EXTENDS ComposeApp

MCFaults == {"file", "create", "start", "stop", "undo", "down", "sweep", "mark"}
=============================================================================
