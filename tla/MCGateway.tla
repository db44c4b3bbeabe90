------------------------------- MODULE MCGateway -------------------------------
(* Calls, streams and the two kinds of subscriptions have state of their   *)
(* own: a behaviour is one of the four, chosen at the start.               *)
EXTENDS Gateway

VARIABLE part

MCInit ==
  /\ part \in {"calls", "streams", "local", "remote"}
  /\ CallsInit /\ StreamsInit /\ EventsInit
MCNext ==
  /\ UNCHANGED part
  /\ \/ part = "calls" /\ CallsNext /\ UNCHANGED <<svars, evars>>
     \/ part = "streams" /\ StreamsNext /\ UNCHANGED <<cvars, evars>>
     \/ part = "local" /\ LocalNext /\ UNCHANGED <<cvars, svars>>
     \/ part = "remote" /\ RemoteNext /\ UNCHANGED <<cvars, svars>>
MCSpec == MCInit /\ [][MCNext]_<<part, cvars, svars, evars>>

(* One consumer reads its stream, the other only takes the place of one.   *)
MCNexts == [s \in Streams |-> IF s = 1 THEN {1, 2} ELSE {}]
MCPolicy == <<"Coalesce", "Ordered">>
=============================================================================
