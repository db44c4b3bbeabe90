------------------------------- MODULE MCClients -------------------------------
(* The parts of a client and of the server share no variables: a behaviour *)
(* is one of them, chosen at the start.                                    *)
EXTENDS Account, Connection, Mobile, Peer, MCServer

VARIABLE part

MCInit ==
  /\ part \in {"account", "connection", "mobile", "peer", "sessions", "server"}
  /\ AccountInit /\ ConnectionInit /\ MobileInit /\ PeerInit /\ ServerSessionsInit /\ ServerPeerInit
MCNext ==
  /\ UNCHANGED part
  /\ \/ part = "account" /\ AccountNext /\ UNCHANGED <<nvars, mvars, pvars, svars, rvars>>
     \/ part = "connection" /\ ConnectionNext /\ UNCHANGED <<avars, mvars, pvars, svars, rvars>>
     \/ part = "mobile" /\ MobileNext /\ UNCHANGED <<avars, nvars, pvars, svars, rvars>>
     \/ part = "peer" /\ PeerNext /\ UNCHANGED <<avars, nvars, mvars, svars, rvars>>
     \/ part = "sessions" /\ ServerSessionsNext /\ UNCHANGED <<avars, nvars, mvars, pvars, rvars>>
     \/ part = "server" /\ ServerPeerNext /\ UNCHANGED <<avars, nvars, mvars, pvars, svars>>
MCSpec == MCInit /\ [][MCNext]_<<part, avars, nvars, mvars, pvars, svars, rvars>>

(* One operation of any kind, and forced maintenance next to it.           *)
MCCommands == <<{"login", "restore", "restoreForced", "logout", "revoke", "force"}, {"force"}>>
(* A caller that waits for the connection and a call that uses it only     *)
(* read its state: neither sees the other.  An account is activated twice, *)
(* or once and stopped.                                                    *)
MCBound ==
  /\ MCServerBound
  /\ wait = NoWait \/ \A c \in Requests : call[c] = NoRequest
  /\ core.generation <= 2
=============================================================================
