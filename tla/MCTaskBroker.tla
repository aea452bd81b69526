---------------------------- MODULE MCTaskBroker ----------------------------
(* Model values for TaskBroker and its client: two Subscribe calls, a      *)
(* buffer shorter than the stream of events, a channel that overflows.     *)
EXTENDS SubscribeClient
=============================================================================
