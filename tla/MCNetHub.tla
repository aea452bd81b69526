------------------------------ MODULE MCNetHub ------------------------------
(* The instances of NetHub that TLC checks give its constants values and   *)
(* nothing else.  MCNetHub: one bridge that emits and receives beside      *)
(* events posted from outside, a topic that it does not bridge, a ring of  *)
(* one event, and two event streams, so that a stream breaks and the next  *)
(* replays.  _order: a ring longer than a channel, as in the code, and     *)
(* enough events to pass it.  _restart: a hub restarted once.              *)
EXTENDS NetHub
=============================================================================
