---------------------------- MODULE MCTaskStore ----------------------------
(* Instances of TaskStore for TLC.  The retention instance keeps to        *)
(* synchronous calls and leaves Shutdown out, so that three tasks, enough  *)
(* to have two to choose from when the third begins, stay cheap.           *)
EXTENDS SubscribeToTask, TLC

TaskSymmetry == Permutations(Tasks)

SyncCall(t) ==
    Begin(t, "sync") \/ HandlerReturns(t) \/ Report(t) \/ End(t) \/ Cancel(t)

RetentionNext ==
    /\ Tick \/ \E t \in Tasks : SyncCall(t)
    /\ UNCHANGED watch

RetentionSpec == WatchInit /\ [][RetentionNext]_allVars

=============================================================================
