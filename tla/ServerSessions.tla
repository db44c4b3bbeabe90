---------------------------- MODULE ServerSessions ----------------------------
(***************************************************************************)
(* The server's sessions (db/sessions.go, auth/auth.go) and the sockets    *)
(* that live on them (httpapi/websocket.go, ws/reply.go): logins that      *)
(* replace a device's session, refreshes and logouts, the notifications    *)
(* that follow a commit, and the checks of a socket's token.  One user; a  *)
(* session has the number of its login, a token is <<session, issue>>.     *)
(***************************************************************************)
EXTENDS Integers, FiniteSets

CONSTANTS
  Logins,         \* login requests: numbers
  Device,         \* Device[l]: the device that logs in
  Sockets,        \* WebSocket connections
  Callers,        \* those whose client logs out on them
  MaxConnections, \* maxConnections
  MaxRefreshes,   \* bound on refreshes, and on tokens that expire
  MaxDbFailures   \* bound on commits that fail, or whose answer is lost

ASSUME ServerSessionsAssumption ==
  /\ Logins \subseteq Nat \ {0} /\ Callers \subseteq Sockets
  /\ MaxConnections \in Nat /\ MaxRefreshes \in Nat /\ MaxDbFailures \in Nat

VARIABLES
  session,  \* auth_sessions: "none", "active" or "revoked"
  login,    \* login[l]: how far it is, and the sessions it replaces
  live,     \* session_access_tokens that have not expired
  told,     \* sessions whose notification is still to run
  socket,   \* ConnectionHub: connections and peers, and a peer's logout
  hub,      \* is the hub open
  unsure,   \* sessions whose revocation got no answer
  failures  \* failures so far

svars == <<session, login, live, told, socket, hub, unsure, failures>>

NoLogin == [at |-> "idle", old |-> {}]
(* check: is the periodic check under way.  request and handler are the    *)
(* two sides of a logout; close and notice the callbacks of its reply;     *)
(* checked: did a check close the socket.                                  *)
NoSocket == [at |-> "idle", token |-> <<0, 0>>, rejected |-> FALSE, check |-> FALSE, terminal |-> FALSE,
             request |-> "none", handler |-> "none", close |-> FALSE, notice |-> FALSE, checked |-> FALSE]

ServerSessionsInit ==
  /\ session = [l \in Logins |-> "none"] /\ login = [l \in Logins |-> NoLogin]
  /\ live = {} /\ told = {} /\ socket = [s \in Sockets |-> NoSocket]
  /\ hub = TRUE /\ unsure = {} /\ failures = 0

(* FindSessionByAccessHash                                                 *)
Valid(t) == t \in live /\ session[t[1]] = "active"
Of(s) == socket[s].token[1]

(* A transaction that replaces a session holds its row until it ends.      *)
RowFree(x) == \A l \in Logins : login[l].at = "replaced" => x \notin login[l].old

-----------------------------------------------------------------------------
(* The upsert of the device's row waits for the logins that hold it.       *)
Serialized(l) ==
  \A m \in Logins \ {l} : Device[m] = Device[l] => login[m].at \notin {"locked", "replaced"}

Lock(l) ==
  /\ login[l].at = "idle" /\ Serialized(l) /\ \A m \in Logins : m < l => login[m].at # "idle"
  /\ login' = [login EXCEPT ![l].at = "locked"]
  /\ UNCHANGED <<session, live, told, socket, hub, unsure, failures>>

ActiveOn(d) == {x \in Logins : Device[x] = d /\ session[x] = "active"}

Replace(l) ==
  /\ login[l].at = "locked" /\ \A x \in ActiveOn(Device[l]) : RowFree(x)
  /\ login' = [login EXCEPT ![l] = [at |-> "replaced", old |-> ActiveOn(Device[l])]]
  /\ UNCHANGED <<session, live, told, socket, hub, unsure, failures>>

(* The insert, under the unique index of a device's active session.        *)
Created(l) ==
  /\ session' = [x \in Logins |-> IF x \in login[l].old THEN "revoked" ELSE IF x = l THEN "active" ELSE session[x]]
  /\ live' = live \cup {<<l, 0>>}
Unique(l) == ActiveOn(Device[l]) \subseteq login[l].old

CommitLogin(l) ==
  /\ login[l].at = "replaced"
  /\ IF Unique(l) THEN Created(l) /\ login' = [login EXCEPT ![l] = [at |-> "notifying", old |-> {}]]
     ELSE login' = [login EXCEPT ![l] = [at |-> "refused", old |-> {}]] /\ UNCHANGED <<session, live>>
  /\ UNCHANGED <<told, socket, hub, unsure, failures>>

(* The transaction fails, or commits and the answer does not arrive: the   *)
(* login is refused without a notification.                                *)
FailLogin(l, committed) ==
  /\ login[l].at = "replaced" /\ failures < MaxDbFailures
  /\ IF committed THEN Unique(l) /\ Created(l) /\ unsure' = unsure \cup login[l].old
     ELSE UNCHANGED <<session, live, unsure>>
  /\ login' = [login EXCEPT ![l] = [at |-> "failed", old |-> {}]]
  /\ failures' = failures + 1
  /\ UNCHANGED <<told, socket, hub>>

(* RefreshSession: the update checks revocation again.                     *)
Refresh(x) ==
  /\ session[x] = "active" /\ RowFree(x) /\ <<x, 1>> \notin live
  /\ Cardinality({t \in live : t[2] = 1}) < MaxRefreshes
  /\ live' = live \cup {<<x, 1>>}
  /\ UNCHANGED <<session, login, told, socket, hub, unsure, failures>>
Expire(t) ==
  /\ t \in live /\ t[2] = 0 /\ <<t[1], 1>> \in live
  /\ live' = live \ {t}
  /\ UNCHANGED <<session, login, told, socket, hub, unsure, failures>>

-----------------------------------------------------------------------------
(* sessionChanged: the registered sockets it concerns are to be rejected.  *)
Listening(s) == socket[s].at \in {"registered", "open"}
Rejects(S) ==
  socket' = [s \in Sockets |-> IF Listening(s) /\ Of(s) \in S THEN [socket[s] EXCEPT !.rejected = TRUE] ELSE socket[s]]

NotifyLogin(l) ==
  /\ login[l].at = "notifying"
  /\ Rejects({x \in Logins : Device[x] = Device[l]} \ {l})
  /\ login' = [login EXCEPT ![l].at = "done"]
  /\ UNCHANGED <<session, live, told, hub, unsure, failures>>
Notify(x) ==
  /\ x \in told
  /\ Rejects({x}) /\ told' = told \ {x}
  /\ UNCHANGED <<session, login, live, hub, unsure, failures>>

(* A logout by HTTP.                                                       *)
Logout(x) ==
  /\ session[x] = "active" /\ RowFree(x)
  /\ session' = [session EXCEPT ![x] = "revoked"] /\ told' = told \cup {x}
  /\ UNCHANGED <<login, live, socket, hub, unsure, failures>>

-----------------------------------------------------------------------------
Held == {s \in Sockets : socket[s].at \notin {"idle", "gone"}}

(* Close: the calls under way are cancelled.                               *)
Closing(k, checked) ==
  IF k.at \in {"closing", "gone"} THEN k ELSE [k EXCEPT !.at = "closing", !.checked = checked]

(* A connection that is gone keeps nothing once its logout is over.        *)
Bare(k) ==
  IF k.at = "gone" /\ k.request \in {"none", "finished"} /\ k.handler \in {"none", "ended"} /\ ~k.check /\ ~k.rejected
  THEN [NoSocket EXCEPT !.at = "gone"] ELSE k

OnSocket(s, k) ==
  /\ socket' = [socket EXCEPT ![s] = Bare(k)]
  /\ UNCHANGED <<session, login, live, hub, unsure, failures>>

Accept(s) ==
  /\ socket[s].at = "idle"
  /\ OnSocket(s, [socket[s] EXCEPT !.at = IF hub /\ Cardinality(Held) < MaxConnections THEN "accepted" ELSE "gone"])
  /\ UNCHANGED told
Handshake(s, t) ==
  /\ socket[s].at = "accepted"
  /\ OnSocket(s, IF Valid(t) THEN [socket[s] EXCEPT !.at = "authenticated", !.token = t] ELSE Closing(socket[s], TRUE))
  /\ UNCHANGED told
Register(s) ==
  /\ socket[s].at = "authenticated"
  /\ OnSocket(s, IF hub THEN [socket[s] EXCEPT !.at = "registered"] ELSE Closing(socket[s], FALSE))
  /\ UNCHANGED told

(* Mutant: the first authentication is trusted.                            *)
Trusted(s) == TRUE
(* Opened: a session revoked before the registration was not told.         *)
Rechecked(s) == Valid(socket[s].token)
Opened(s) ==
  /\ socket[s].at = "registered"
  /\ OnSocket(s, IF Rechecked(s) THEN [socket[s] EXCEPT !.at = "open"] ELSE Closing(socket[s], TRUE))
  /\ UNCHANGED told

Reject(s) ==
  /\ socket[s].rejected
  /\ OnSocket(s, [Closing(socket[s], FALSE) EXCEPT !.rejected = FALSE])
  /\ UNCHANGED told
(* The client goes away, or a write fails.                                 *)
Drop(s) ==
  /\ socket[s].at \in {"accepted", "open"}
  /\ OnSocket(s, Closing(socket[s], FALSE)) /\ UNCHANGED told
(* Closed, and the connection's slot.                                      *)
Leave(s) ==
  /\ socket[s].at = "closing"
  /\ OnSocket(s, [socket[s] EXCEPT !.at = "gone"]) /\ UNCHANGED told

CloseHub ==
  /\ hub /\ hub' = FALSE
  /\ socket' = [s \in Sockets |->
       IF socket[s].at \in {"accepted", "registered", "open"} THEN Closing(socket[s], FALSE) ELSE socket[s]]
  /\ UNCHANGED <<session, login, live, told, unsure, failures>>

-----------------------------------------------------------------------------
(* verify, by the monitor or an ordinary call.                             *)
Check(s) ==
  /\ socket[s].at = "open" /\ ~socket[s].check /\ ~socket[s].terminal
  /\ OnSocket(s, [socket[s] EXCEPT !.check = TRUE]) /\ UNCHANGED told
EndCheck(s) ==
  /\ socket[s].check
  /\ OnSocket(s, [IF Valid(socket[s].token) THEN socket[s] ELSE Closing(socket[s], TRUE) EXCEPT !.check = FALSE])
  /\ UNCHANGED told

(* A logout on the socket: verify, then the handler.                       *)
LogoutCall(s) ==
  /\ s \in Callers /\ socket[s].at = "open" /\ socket[s].request = "none" /\ ~socket[s].terminal
  /\ OnSocket(s, [socket[s] EXCEPT !.request = "serving", !.handler = "verifying"])
  /\ UNCHANGED told
Verified(s) ==
  /\ socket[s].handler = "verifying"
  /\ OnSocket(s, IF Valid(socket[s].token) THEN [socket[s] EXCEPT !.handler = "verified"]
                 ELSE [Closing(socket[s], TRUE) EXCEPT !.handler = "ended"])
  /\ UNCHANGED told

(* The lock waits for the checks that are under way.                       *)
ChecksOver(s) == ~socket[s].check

Serving(s) == socket[s].at = "open" /\ socket[s].request = "serving"
Answered(s) == IF socket[s].request = "serving" THEN "replying" ELSE socket[s].request

EndAfterReply(s) ==
  /\ socket[s].handler = "verified" /\ ChecksOver(s)
  /\ OnSocket(s, IF Serving(s) /\ ~socket[s].terminal
                 THEN [socket[s] EXCEPT !.terminal = TRUE, !.close = TRUE, !.handler = "ending"]
                 ELSE [socket[s] EXCEPT !.handler = "ended", !.request = Answered(s)])
  /\ UNCHANGED told

(* RevokeSession, whose answer may be lost.                                *)
Revoke(s, lost) ==
  /\ socket[s].handler = "ending" /\ RowFree(Of(s))
  /\ lost => failures < MaxDbFailures /\ session[Of(s)] = "active"
  /\ session' = [session EXCEPT ![Of(s)] = "revoked"]
  /\ socket' = [socket EXCEPT ![s] =
       IF session[Of(s)] = "active" /\ ~lost THEN [@ EXCEPT !.handler = "revoked"]
       ELSE [@ EXCEPT !.handler = "ended", !.request = Answered(s)]]
  /\ IF lost THEN unsure' = unsure \cup {Of(s)} /\ failures' = failures + 1 ELSE UNCHANGED <<unsure, failures>>
  /\ UNCHANGED <<login, live, told, hub>>

(* AfterReply: a request that is over takes no callback.                   *)
AfterReply(s) ==
  /\ socket[s].handler = "revoked"
  /\ IF socket[s].request = "finished"
     THEN told' = told \cup {Of(s)} /\ OnSocket(s, [socket[s] EXCEPT !.handler = "ended"])
     ELSE /\ OnSocket(s, [socket[s] EXCEPT !.handler = "ended", !.request = Answered(s), !.notice = TRUE])
          /\ UNCHANGED told

(* The handler's time is over; it runs on.                                 *)
Timeout(s) ==
  /\ Serving(s) /\ socket[s].handler # "verifying"
  /\ OnSocket(s, [socket[s] EXCEPT !.request = "replying"]) /\ UNCHANGED told

(* finish: after the reply was written, or the request was cancelled.      *)
FinishReply(s) ==
  /\ socket[s].request \in {"serving", "replying"}
  /\ OnSocket(s, [IF socket[s].close THEN Closing(socket[s], FALSE) ELSE socket[s]
                  EXCEPT !.request = "finished", !.close = FALSE, !.notice = FALSE])
  /\ told' = IF socket[s].notice THEN told \cup {Of(s)} ELSE told

ServerSessionsNext ==
  \/ \E l \in Logins :
       \/ Lock(l) \/ Replace(l) \/ CommitLogin(l) \/ NotifyLogin(l)
       \/ \E committed \in BOOLEAN : FailLogin(l, committed)
       \/ Refresh(l) \/ Logout(l) \/ Notify(l)
  \/ \E t \in Logins \X {0, 1} :
       \/ Expire(t)
       \/ \E s \in Sockets : Handshake(s, t)
  \/ \E s \in Sockets :
       \/ Accept(s) \/ Register(s) \/ Opened(s) \/ Reject(s) \/ Drop(s) \/ Leave(s)
       \/ Check(s) \/ EndCheck(s)
       \/ LogoutCall(s) \/ Verified(s) \/ EndAfterReply(s) \/ AfterReply(s) \/ Timeout(s) \/ FinishReply(s)
       \/ \E lost \in BOOLEAN : Revoke(s, lost)
  \/ CloseHub

ServerSessionsSpec == ServerSessionsInit /\ [][ServerSessionsNext]_svars

-----------------------------------------------------------------------------
(* Two logins on a device at once both succeed, the later one as the only  *)
(* active session: the index that guarantees it never refuses one.         *)
LoginsTakeTurns ==
  /\ \A l \in Logins : login[l].at # "refused"
  /\ \A d \in {Device[l] : l \in Logins} : Cardinality(ActiveOn(d)) <= 1

(* The notification that will still reach the sockets of a session.        *)
Pending(x) ==
  \/ x \in told
  \/ \E l \in Logins \ {x} : Device[l] = Device[x] /\ login[l].at = "notifying"
  \/ \E s \in Sockets : Of(s) = x /\ (socket[s].notice \/ socket[s].handler = "revoked")

(* A socket that is open on a revoked session is being closed, or will be  *)
(* by a notification.  Only a revocation whose answer was lost is left to  *)
(* the periodic check.  The closed hub has no peer.                        *)
RevokedIsTold ==
  /\ \A s \in Sockets : socket[s].at = "open" /\ session[Of(s)] = "revoked"
       => socket[s].rejected \/ socket[s].close \/ Pending(Of(s)) \/ Of(s) \in unsure
  /\ ~hub => \A s \in Sockets : ~Listening(s)

(* No check closes a socket before the reply of its logout; and a socket   *)
(* that has stopped its checks has a request that will close it.           *)
LogoutAnswered ==
  \A s \in Sockets :
    /\ socket[s].terminal => ~socket[s].checked
    /\ socket[s].terminal /\ socket[s].at = "open" => socket[s].close /\ socket[s].request # "finished"

(* One session of a device at a time, and its sockets end with it, each    *)
(* after what it still has to say.                                         *)
SessionsKept == LoginsTakeTurns /\ RevokedIsTold /\ LogoutAnswered

(* docs/websocket.md: a revocation and a replacement on the device close   *)
(* only the connections they concern.                                      *)
RejectedIsRevoked == \A s \in Sockets : socket[s].rejected => session[Of(s)] # "active"
=============================================================================
