------------------------------- MODULE MCServer -------------------------------
(* Small instances of the server's sessions and of its sockets.            *)
EXTENDS ServerSessions, ServerPeer

MCDevice == <<1, 1>>
MCPolicy == <<"ordered", "coalesce", "drop">>
(* The sessions: two logins and a socket, or a login and two sockets.  The *)
(* socket: streams, or notifications.                                      *)
MCServerBound ==
  /\ login[2].at = "idle" \/ socket[2].at = "idle"
  /\ (\A x \in Pulled : streams[x].at = "idle") \/ \A y \in Subscribers : sub[y].at = "idle"

MCSessionsInit == ServerSessionsInit /\ ServerPeerInit
MCSessionsNext == ServerSessionsNext /\ UNCHANGED rvars
MCSessionsSpec == MCSessionsInit /\ [][MCSessionsNext]_<<svars, rvars>>
=============================================================================
