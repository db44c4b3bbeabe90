---------------------------- MODULE ServerProofs -----------------------------
(***************************************************************************)
(* Proofs about the server: the sessions of a device and the sockets that  *)
(* are on them, and the streams and subscriptions of a peer; and about the *)
(* client's end of such a socket.                                          *)
(***************************************************************************)
EXTENDS ServerSessions, ServerPeer, Peer, FiniteSetTheorems, SequenceTheorems, TLAPS

(***************************************************************************)
(* ServerSessions: logins, sessions and sockets.                           *)
(***************************************************************************)

(* What the fields of a login and of a socket range over.                  *)
LoginRecords ==
  [at : {"idle", "locked", "replaced", "notifying", "done", "refused", "failed"}, old : SUBSET Logins]
SocketRecords ==
  [at : {"idle", "accepted", "authenticated", "registered", "open", "closing", "gone"}, token : Nat \X {0, 1},
   rejected : BOOLEAN, check : BOOLEAN, terminal : BOOLEAN, request : {"none", "serving", "replying", "finished"},
   handler : {"none", "verifying", "verified", "ending", "revoked", "ended"},
   close : BOOLEAN, notice : BOOLEAN, checked : BOOLEAN]

(* What the variables range over.                                          *)
SessionTypes ==
  /\ session \in [Logins -> {"none", "active", "revoked"}]
  /\ login \in [Logins -> LoginRecords]
  /\ live \subseteq Logins \X {0, 1}
  /\ socket \in [Sockets -> SocketRecords]
  /\ hub \in BOOLEAN

(* A login holds its device's row, knows what it replaces, and is the only *)
(* one that may create a session there.                                    *)
LoginsHold ==
  /\ \A l \in Logins :
       /\ login[l].at # "refused"
       /\ session[l] # "none" => login[l].at \in {"notifying", "done", "failed"}
       /\ login[l].at = "replaced" => ActiveOn(Device[l]) \subseteq login[l].old
       /\ login[l].at = "replaced" => \A x \in login[l].old : Device[x] = Device[l] /\ x # l /\ session[x] # "none"
  /\ \A l, m \in Logins : l # m /\ Device[l] = Device[m] =>
       login[l].at \notin {"locked", "replaced"} \/ login[m].at \notin {"locked", "replaced"}
  /\ \A x, y \in Logins : session[x] = "active" /\ session[y] = "active" /\ Device[x] = Device[y] => x = y

(* The two sides of a logout agree, and a check closes no socket that has  *)
(* stopped its checks.                                                     *)
SocketOk(k) ==
  /\ k.close \/ k.notice => k.request \in {"serving", "replying"}
  /\ k.handler # "none" => k.request # "none" /\ k.at \in {"open", "closing", "gone"}
  /\ k.notice => k.handler # "none"
  /\ k.checked => k.at \in {"closing", "gone"}
  /\ k.terminal => /\ ~k.checked /\ ~k.check /\ k.at \in {"open", "closing", "gone"}
                   /\ k.handler \in {"ending", "revoked", "ended"}
                   /\ k.at = "open" => k.close

(* Whoever acts on a session has one.                                      *)
HasSession(k) ==
  k.at \in {"authenticated", "registered", "open"} \/ k.handler # "none" =>
    k.token[1] \in Logins /\ session[k.token[1]] # "none"

(* An open socket of a revoked session is told, will be, or nobody knows   *)
(* of the revocation for certain.                                          *)
Told(s) ==
  socket[s].at = "open" /\ session[Of(s)] = "revoked" =>
    socket[s].rejected \/ socket[s].close \/ Pending(Of(s)) \/ Of(s) \in unsure

(* What is true of each socket; a closed hub listens to none.              *)
SocketsInv ==
  /\ \A s \in Sockets : SocketOk(socket[s]) /\ HasSession(socket[s]) /\ Told(s)
  /\ ~hub => \A s \in Sockets : ~Listening(s)

(* The inductive invariant of the server's sessions.                       *)
SessionsInv == SessionTypes /\ LoginsHold /\ SocketsInv

(* What is stated of the sessions follows from it.                         *)
LEMMA SessionsMean == SessionsInv => SessionsKept
<1> SUFFICES ASSUME SessionsInv PROVE SessionsKept OBVIOUS
<1>1. ASSUME NEW d PROVE Cardinality(ActiveOn(d)) <= 1
  <2>1. CASE ActiveOn(d) = {} BY <2>1, FS_EmptySet
  <2>2. CASE ActiveOn(d) # {}
    <3>1. PICK x \in ActiveOn(d) : TRUE BY <2>2
    <3>2. ActiveOn(d) = {x} BY <3>1 DEF ActiveOn, SessionsInv, LoginsHold
    <3>3. Cardinality({x}) = 1 BY FS_Singleton
    <3> QED BY <3>2, <3>3
  <2> QED BY <2>1, <2>2
<1>2. LoginsTakeTurns BY <1>1 DEF SessionsInv, LoginsHold, LoginsTakeTurns
<1>3. RevokedIsTold BY DEF SessionsInv, SocketsInv, Told, RevokedIsTold
<1>4. LogoutAnswered
  <2> SUFFICES ASSUME NEW s \in Sockets
      PROVE /\ socket[s].terminal => ~socket[s].checked
            /\ socket[s].terminal /\ socket[s].at = "open" => socket[s].close /\ socket[s].request # "finished"
    BY DEF LogoutAnswered
  <2>1. SocketOk(socket[s]) BY DEF SessionsInv, SocketsInv
  <2> QED BY <2>1 DEF SocketOk
<1> QED BY <1>2, <1>3, <1>4 DEF SessionsKept

(* A server without sessions satisfies it.                                 *)
LEMMA SessionsStart == ServerSessionsInit => SessionsInv
<1> SUFFICES ASSUME ServerSessionsInit PROVE SessionsInv OBVIOUS
<1>1. NoLogin \in LoginRecords /\ NoLogin.at = "idle" BY DEF NoLogin, LoginRecords
<1>2. NoSocket \in SocketRecords BY DEF NoSocket, SocketRecords
<1>3. SocketOk(NoSocket) /\ NoSocket.at = "idle" /\ NoSocket.handler = "none" BY DEF SocketOk, NoSocket
<1>4. SessionTypes BY <1>1, <1>2 DEF ServerSessionsInit, SessionTypes
<1>5. LoginsHold BY <1>1 DEF ServerSessionsInit, LoginsHold
<1>6. SocketsInv
  <2>1. \A s \in Sockets : socket[s] = NoSocket BY DEF ServerSessionsInit
  <2>2. hub BY DEF ServerSessionsInit
  <2> QED BY <1>3, <2>1, <2>2 DEF SocketsInv, HasSession, Told
<1> QED BY <1>4, <1>5, <1>6 DEF SessionsInv

-----------------------------------------------------------------------------

(* A socket that is gone has no handler left; any other is as it was.      *)
LEMMA BareIs ==
  ASSUME NEW k \in SocketRecords, SocketOk(k)
  PROVE  /\ Bare(k) \in SocketRecords /\ SocketOk(Bare(k)) /\ Bare(k).at = k.at
         /\ k.at # "gone" \/ k.notice \/ k.handler = "revoked" => Bare(k) = k
         /\ Bare(k) = k \/ Bare(k).handler = "none"
<1> DEFINE b == [NoSocket EXCEPT !.at = "gone"]
<1>1. b \in SocketRecords /\ SocketOk(b) /\ b.at = "gone" /\ b.handler = "none"
  BY DEF NoSocket, SocketRecords, SocketOk
<1>2. Bare(k) = k \/ (k.at = "gone" /\ k.request \in {"none", "finished"} /\ k.handler \in {"none", "ended"} /\ Bare(k) = b)
  BY DEF Bare
<1> HIDE DEF b
<1>3. CASE Bare(k) = k BY <1>3
<1>4. CASE k.at = "gone" /\ k.request \in {"none", "finished"} /\ k.handler \in {"none", "ended"} /\ Bare(k) = b
  <2>1. ~k.notice BY <1>4 DEF SocketOk
  <2> QED BY <1>1, <1>4, <2>1
<1> QED BY <1>2, <1>3, <1>4

(* What a close leaves of a socket.                                        *)
LEMMA ClosingIs ==
  ASSUME NEW k \in SocketRecords, SocketOk(k), NEW c \in BOOLEAN, c => ~k.terminal
  PROVE  /\ Closing(k, c) \in SocketRecords /\ SocketOk(Closing(k, c)) /\ Closing(k, c).at \in {"closing", "gone"}
         /\ Closing(k, c).token = k.token /\ Closing(k, c).handler = k.handler /\ Closing(k, c).notice = k.notice
         /\ Closing(k, c).request = k.request /\ Closing(k, c).terminal = k.terminal /\ Closing(k, c).close = k.close
         /\ Closing(k, c).check = k.check /\ Closing(k, c).rejected = k.rejected
<1>1. CASE k.at \in {"closing", "gone"} BY <1>1 DEF Closing
<1>2. CASE k.at \notin {"closing", "gone"}
  <2> DEFINE r == [k EXCEPT !.at = "closing", !.checked = c]
  <2>1. Closing(k, c) = r BY <1>2 DEF Closing
  <2>2. r \in SocketRecords BY DEF SocketRecords
  <2>3. /\ r.at = "closing" /\ r.checked = c /\ r.token = k.token /\ r.handler = k.handler /\ r.notice = k.notice
        /\ r.request = k.request /\ r.terminal = k.terminal /\ r.close = k.close
        /\ r.check = k.check /\ r.rejected = k.rejected
    BY DEF SocketRecords
  <2> HIDE DEF r
  <2>4. SocketOk(r) BY <2>3 DEF SocketOk
  <2> QED BY <2>1, <2>2, <2>3, <2>4
<1> QED BY <1>1, <1>2

(* A step of one socket, as the others and the logins see it.              *)
LEMMA SocketKeeps ==
  ASSUME SessionsInv, NEW s \in Sockets, NEW k \in SocketRecords, SocketOk(k),
         socket' = [socket EXCEPT ![s] = Bare(k)],
         UNCHANGED <<session, login, live, hub, unsure>>, told \subseteq told',
         k.at \in {"authenticated", "registered", "open"} \/ k.handler # "none" =>
           k.token[1] \in Logins /\ session[k.token[1]] # "none",
         k.at = "open" => \/ session[k.token[1]] = "active"
                          \/ /\ socket[s].at = "open" /\ k.token = socket[s].token
                             /\ socket[s].rejected => k.rejected
                             /\ socket[s].close => k.close,
         socket[s].notice \/ socket[s].handler = "revoked" =>
           \/ k.token = socket[s].token /\ (k.notice \/ k.handler = "revoked")
           \/ Of(s) \in told',
         k.at \in {"registered", "open"} => hub
  PROVE  SessionsInv'
<1>1. SessionTypes /\ LoginsHold /\ SocketsInv BY DEF SessionsInv
<1>2. socket'[s] = Bare(k) /\ \A x \in Sockets : x # s => socket'[x] = socket[x] BY <1>1 DEF SessionTypes
<1>3. SessionTypes' BY <1>1, BareIs DEF SessionTypes
<1>4. LoginsHold' BY <1>1 DEF LoginsHold, ActiveOn
<1>5. Bare(k).at = k.at /\ SocketOk(Bare(k)) /\ (Bare(k) = k \/ Bare(k).handler = "none")
      /\ (k.at # "gone" \/ k.notice \/ k.handler = "revoked" => Bare(k) = k)
  BY BareIs
<1>6. ASSUME NEW x \in Logins, Pending(x) PROVE Pending(x)'
  <2>1. CASE x \in told BY <2>1 DEF Pending
  <2>2. CASE \E l \in Logins \ {x} : Device[l] = Device[x] /\ login[l].at = "notifying"
    BY <2>2 DEF Pending
  <2>3. ASSUME NEW z \in Sockets, Of(z) = x, socket[z].notice \/ socket[z].handler = "revoked" PROVE Pending(x)'
    <3>1. CASE z # s
      <4>1. socket'[z] = socket[z] BY <3>1, <1>2
      <4> QED BY <2>3, <4>1 DEF Pending, Of
    <3>2. CASE z = s
      <4>1. CASE x \in told' BY <4>1 DEF Pending
      <4>2. CASE k.token = socket[s].token /\ (k.notice \/ k.handler = "revoked")
        <5>1. socket'[s] = k BY <4>2, <1>2, <1>5
        <5> QED BY <5>1, <4>2, <2>3, <3>2 DEF Pending, Of
      <4> QED BY <4>1, <4>2, <2>3, <3>2
    <3> QED BY <3>1, <3>2
  <2> QED BY <1>6, <2>1, <2>2, <2>3 DEF Pending
<1>7. ASSUME NEW x \in Sockets
      PROVE SocketOk(socket[x])' /\ HasSession(socket[x])' /\ Told(x)' /\ (~hub' => ~Listening(x)')
  <2>1. SocketOk(socket[x]) /\ HasSession(socket[x]) /\ Told(x) /\ (~hub => ~Listening(x))
    BY <1>1 DEF SocketsInv
  <2>2. CASE x # s
    <3>1. socket'[x] = socket[x] BY <1>2, <2>2
    <3>2. Told(x)'
      <4> SUFFICES ASSUME socket[x].at = "open", session[Of(x)] = "revoked"
          PROVE socket[x].rejected \/ socket[x].close \/ Pending(Of(x))' \/ Of(x) \in unsure
        BY <3>1 DEF Told, Of
      <4>1. Of(x) \in Logins BY <2>1 DEF HasSession, Of
      <4>2. Of(x)' = Of(x) BY <3>1 DEF Of
      <4>3. Pending(Of(x)) => Pending(Of(x))'
        <5> HIDE DEF Pending
        <5> DEFINE y == Of(x)
        <5>1. y \in Logins /\ y' = y BY <4>1, <4>2
        <5> QED BY <1>6, <4>1, <4>2
      <4> QED BY <2>1, <4>3 DEF Told
    <3> QED BY <2>1, <3>1, <3>2 DEF SocketOk, HasSession, Listening
  <2>3. CASE x = s
    <3>1. SocketOk(socket[x])' BY <1>2, <1>5, <2>3 DEF SocketOk
    <3>2. HasSession(socket[x])' BY <1>2, <1>5, <2>3 DEF HasSession
    <3>3. ~hub' => ~Listening(x)' BY <1>2, <1>5, <2>3 DEF Listening
    <3>4. Told(x)'
      <4> SUFFICES ASSUME socket'[s].at = "open", session[Of(s)'] = "revoked"
          PROVE socket'[s].rejected \/ socket'[s].close \/ Pending(Of(s))' \/ Of(s)' \in unsure
        BY <2>3 DEF Told, Of
      <4>1. socket'[s] = k /\ k.at = "open" BY <1>2, <1>5
      <4>2. socket[s].at = "open" /\ k.token = socket[s].token /\ Of(s)' = Of(s)
        BY <4>1 DEF Of
      <4>3. Of(s) \in Logins BY <4>2, <2>1, <2>3 DEF HasSession, Of
      <4>4. socket[s].rejected \/ socket[s].close \/ Pending(Of(s)) \/ Of(s) \in unsure
        BY <2>1, <2>3, <4>2 DEF Told
      <4>5. Pending(Of(s)) => Pending(Of(s))' BY <1>6, <4>2, <4>3
      <4>6. (socket[s].rejected => k.rejected) /\ (socket[s].close => k.close) BY <4>1, <4>2 DEF Of
      <4> QED BY <4>1, <4>2, <4>4, <4>5, <4>6
    <3> QED BY <3>1, <3>2, <3>3, <3>4
  <2> QED BY <2>2, <2>3
<1>8. SocketsInv' BY <1>7 DEF SocketsInv
<1> QED BY <1>3, <1>4, <1>8 DEF SessionsInv

(* A step of one socket after which the session is the one it was on.      *)
LEMMA SocketStays ==
  ASSUME SessionsInv, NEW s \in Sockets, NEW k \in SocketRecords, SocketOk(k),
         OnSocket(s, k), told \subseteq told',
         k.token = socket[s].token,
         k.at \in {"authenticated", "registered", "open"} => socket[s].at \in {"authenticated", "registered", "open"},
         k.handler # "none" => socket[s].handler # "none" \/ socket[s].at = "open",
         k.at = "open" => \/ session[k.token[1]] = "active"
                          \/ /\ socket[s].at = "open"
                             /\ socket[s].rejected => k.rejected
                             /\ socket[s].close => k.close,
         socket[s].notice \/ socket[s].handler = "revoked" =>
           k.notice \/ k.handler = "revoked" \/ Of(s) \in told',
         k.at \in {"registered", "open"} => hub \/ Listening(s)
  PROVE  SessionsInv'
<1>1. SessionTypes /\ SocketsInv BY DEF SessionsInv
<1>2. HasSession(socket[s]) /\ (~hub => ~Listening(s)) BY <1>1 DEF SocketsInv
<1>3. k.at \in {"authenticated", "registered", "open"} \/ k.handler # "none" =>
        k.token[1] \in Logins /\ session[k.token[1]] # "none"
  BY <1>2 DEF HasSession
<1>4. k.at \in {"registered", "open"} => hub BY <1>2
<1> QED BY <1>3, <1>4, SocketKeeps DEF OnSocket

(* What the invariant says of one socket.                                  *)
LEMMA SocketIs ==
  ASSUME SessionsInv, NEW s \in Sockets
  PROVE  socket[s] \in SocketRecords /\ SocketOk(socket[s]) /\ HasSession(socket[s]) /\ Told(s) /\ (~hub => ~Listening(s))
BY DEF SessionsInv, SessionTypes, SocketsInv

(* Every step of a connection preserves the invariant,                     *)
LEMMA ConnectionsKeep ==
  ASSUME SessionsInv, NEW s \in Sockets,
         \/ Accept(s) \/ Register(s) \/ Opened(s) \/ Reject(s) \/ Drop(s) \/ Leave(s)
         \/ \E t \in Logins \X {0, 1} : Handshake(s, t)
  PROVE  SessionsInv'
<1>1. /\ socket[s] \in SocketRecords /\ SocketOk(socket[s]) /\ HasSession(socket[s]) /\ Told(s)
      /\ ~hub => ~Listening(s)
  BY SocketIs
<1> DEFINE c == Closing(socket[s], FALSE)
           d == Closing(socket[s], TRUE)
<1>2. /\ c \in SocketRecords /\ SocketOk(c) /\ c.at \in {"closing", "gone"} /\ c.token = socket[s].token
      /\ c.handler = socket[s].handler /\ c.notice = socket[s].notice
  BY <1>1, ClosingIs
<1>3. ~socket[s].terminal =>
        /\ d \in SocketRecords /\ SocketOk(d) /\ d.at \in {"closing", "gone"} /\ d.token = socket[s].token
        /\ d.handler = socket[s].handler /\ d.notice = socket[s].notice
  BY <1>1, ClosingIs
<1> HIDE DEF c, d
<1>4. CASE Accept(s)
  <2> DEFINE a == IF hub /\ Cardinality(Held) < MaxConnections THEN "accepted" ELSE "gone"
             k == [socket[s] EXCEPT !.at = a]
  <2>1. a \in {"accepted", "gone"} OBVIOUS
  <2> HIDE DEF a
  <2>2. k \in SocketRecords /\ k.at = a /\ k.token = socket[s].token /\ k.handler = socket[s].handler /\ k.notice = socket[s].notice
    BY <1>1, <2>1 DEF SocketRecords
  <2>3. SocketOk(k) BY <1>1, <1>4, <2>1 DEF SocketOk, SocketRecords, Accept
  <2>4. OnSocket(s, k) /\ told' = told BY <1>4 DEF Accept, a
  <2> HIDE DEF k
  <2> QED BY <2>1, <2>2, <2>3, <2>4, SocketStays
<1>5. CASE Register(s)
  <2>1. CASE hub
    <3> DEFINE k == [socket[s] EXCEPT !.at = "registered"]
    <3>1. k \in SocketRecords /\ k.at = "registered" /\ k.token = socket[s].token /\ k.handler = socket[s].handler /\ k.notice = socket[s].notice
      BY <1>1 DEF SocketRecords
    <3>2. SocketOk(k) BY <1>1, <1>5 DEF SocketOk, SocketRecords, Register
    <3>3. OnSocket(s, k) /\ told' = told /\ socket[s].at = "authenticated" BY <1>5, <2>1 DEF Register
    <3> HIDE DEF k
    <3> QED BY <2>1, <3>1, <3>2, <3>3, SocketStays
  <2>2. CASE ~hub
    <3>1. OnSocket(s, c) /\ told' = told BY <1>5, <2>2 DEF Register, c
    <3> QED BY <1>2, <3>1, SocketStays
  <2> QED BY <2>1, <2>2
<1>6. CASE Opened(s)
  <2>1. ~socket[s].terminal BY <1>1, <1>6 DEF SocketOk, Opened
  <2>2. CASE Rechecked(s)
    <3> DEFINE k == [socket[s] EXCEPT !.at = "open"]
    <3>1. k \in SocketRecords /\ k.at = "open" /\ k.token = socket[s].token /\ k.handler = socket[s].handler /\ k.notice = socket[s].notice
      BY <1>1 DEF SocketRecords
    <3>2. SocketOk(k) BY <1>1, <1>6 DEF SocketOk, SocketRecords, Opened
    <3>3. OnSocket(s, k) /\ told' = told /\ socket[s].at = "registered" BY <1>6, <2>2 DEF Opened
    <3>4. session[k.token[1]] = "active" BY <2>2, <3>1 DEF Rechecked, Valid
    <3>5. hub BY <1>1, <3>3 DEF Listening
    <3> HIDE DEF k
    <3> QED BY <3>1, <3>2, <3>3, <3>4, <3>5, SocketStays
  <2>3. CASE ~Rechecked(s)
    <3>1. OnSocket(s, d) /\ told' = told BY <1>6, <2>3 DEF Opened, d
    <3> QED BY <1>3, <2>1, <3>1, SocketStays
  <2> QED BY <2>2, <2>3
<1>7. CASE Reject(s)
  <2> DEFINE k == [c EXCEPT !.rejected = FALSE]
  <2>1. k \in SocketRecords /\ k.at = c.at /\ k.token = c.token /\ k.handler = c.handler /\ k.notice = c.notice
    BY <1>2 DEF SocketRecords
  <2>2. SocketOk(k) BY <1>2 DEF SocketOk, SocketRecords
  <2>3. OnSocket(s, k) /\ told' = told BY <1>7 DEF Reject, c
  <2> HIDE DEF k
  <2> QED BY <1>2, <2>1, <2>2, <2>3, SocketStays
<1>8. CASE Drop(s)
  <2>1. OnSocket(s, c) /\ told' = told BY <1>8 DEF Drop, c
  <2> QED BY <1>2, <2>1, SocketStays
<1>9. CASE Leave(s)
  <2> DEFINE k == [socket[s] EXCEPT !.at = "gone"]
  <2>1. k \in SocketRecords /\ k.at = "gone" /\ k.token = socket[s].token /\ k.handler = socket[s].handler /\ k.notice = socket[s].notice
    BY <1>1 DEF SocketRecords
  <2>2. SocketOk(k) BY <1>1 DEF SocketOk, SocketRecords
  <2>3. OnSocket(s, k) /\ told' = told BY <1>9 DEF Leave
  <2> HIDE DEF k
  <2> QED BY <2>1, <2>2, <2>3, SocketStays
<1>10. CASE \E t \in Logins \X {0, 1} : Handshake(s, t)
  <2>1. PICK t \in Logins \X {0, 1} : Handshake(s, t) BY <1>10
  <2>2. ~socket[s].terminal /\ socket[s].at = "accepted" BY <1>1, <2>1 DEF SocketOk, Handshake
  <2>3. CASE Valid(t)
    <3> DEFINE k == [socket[s] EXCEPT !.at = "authenticated", !.token = t]
    <3>1. t \in Nat \X {0, 1} BY ServerSessionsAssumption DEF ServerSessionsAssumption
    <3>2. k \in SocketRecords /\ k.at = "authenticated" /\ k.token = t /\ k.handler = socket[s].handler /\ k.notice = socket[s].notice
      BY <1>1, <3>1 DEF SocketRecords
    <3>3. SocketOk(k) BY <1>1, <2>2, <3>1 DEF SocketOk, SocketRecords
    <3>4. OnSocket(s, k) /\ told' = told BY <2>1, <2>3 DEF Handshake
    <3>5. t[1] \in Logins /\ session[t[1]] # "none" BY <2>3 DEF Valid
    <3>6. ~socket[s].notice /\ socket[s].handler = "none" BY <1>1, <2>2 DEF SocketOk
    <3> HIDE DEF k
    <3> QED BY <3>2, <3>3, <3>4, <3>5, <3>6, SocketKeeps DEF OnSocket
  <2>4. CASE ~Valid(t)
    <3>1. OnSocket(s, d) /\ told' = told BY <2>1, <2>4 DEF Handshake, d
    <3> QED BY <1>3, <2>2, <3>1, SocketStays
  <2> QED BY <2>3, <2>4
<1> QED BY <1>4, <1>5, <1>6, <1>7, <1>8, <1>9, <1>10

(* every step of a check or of a logout over a socket,                     *)
LEMMA LogoutsKeep ==
  ASSUME SessionsInv, NEW s \in Sockets,
         \/ Check(s) \/ EndCheck(s) \/ LogoutCall(s) \/ Verified(s) \/ EndAfterReply(s)
         \/ AfterReply(s) \/ Timeout(s) \/ FinishReply(s)
  PROVE  SessionsInv'
<1>1. /\ socket[s] \in SocketRecords /\ SocketOk(socket[s]) /\ HasSession(socket[s]) /\ Told(s)
      /\ ~hub => ~Listening(s)
  BY SocketIs
<1> DEFINE c == Closing(socket[s], FALSE)
           d == Closing(socket[s], TRUE)
<1>2. /\ c \in SocketRecords /\ SocketOk(c) /\ c.at \in {"closing", "gone"} /\ c.token = socket[s].token
      /\ c.handler = socket[s].handler /\ c.notice = socket[s].notice /\ c.close = socket[s].close
      /\ c.request = socket[s].request
  BY <1>1, ClosingIs
<1>3. ~socket[s].terminal =>
        /\ d \in SocketRecords /\ SocketOk(d) /\ d.at \in {"closing", "gone"} /\ d.token = socket[s].token
        /\ d.handler = socket[s].handler /\ d.notice = socket[s].notice /\ d.terminal = socket[s].terminal
        /\ d.request = socket[s].request
  BY <1>1, ClosingIs
<1> HIDE DEF c, d
<1>4. CASE Check(s)
  <2> DEFINE k == [socket[s] EXCEPT !.check = TRUE]
  <2>1. /\ k \in SocketRecords /\ k.at = socket[s].at /\ k.token = socket[s].token /\ k.handler = socket[s].handler
        /\ k.notice = socket[s].notice /\ k.rejected = socket[s].rejected /\ k.close = socket[s].close
    BY <1>1 DEF SocketRecords
  <2>2. SocketOk(k) BY <1>1, <1>4 DEF SocketOk, SocketRecords, Check
  <2>3. OnSocket(s, k) /\ told' = told /\ socket[s].at = "open" BY <1>4 DEF Check
  <2> HIDE DEF k
  <2> QED BY <2>1, <2>2, <2>3, SocketStays DEF Listening
<1>5. CASE EndCheck(s)
  <2>1. ~socket[s].terminal BY <1>1, <1>5 DEF SocketOk, EndCheck
  <2> DEFINE o == IF Valid(socket[s].token) THEN socket[s] ELSE d
             k == [o EXCEPT !.check = FALSE]
  <2>2. /\ o \in SocketRecords /\ SocketOk(o) /\ o.token = socket[s].token /\ o.handler = socket[s].handler
        /\ o.notice = socket[s].notice
        /\ o.at \in {"authenticated", "registered", "open"} => o = socket[s]
    BY <1>1, <1>3, <2>1
  <2>3. OnSocket(s, k) /\ told' = told BY <1>5 DEF EndCheck, d
  <2> HIDE DEF o
  <2>4. /\ k \in SocketRecords /\ k.at = o.at /\ k.token = o.token /\ k.handler = o.handler
        /\ k.notice = o.notice /\ k.rejected = o.rejected /\ k.close = o.close
    BY <2>2 DEF SocketRecords
  <2>5. SocketOk(k) BY <2>2 DEF SocketOk, SocketRecords
  <2> HIDE DEF k
  <2>6. k.at \in {"registered", "open"} => Listening(s) BY <2>2, <2>4 DEF Listening
  <2> QED BY <2>2, <2>4, <2>3, <2>5, <2>6, SocketStays
<1>6. CASE LogoutCall(s)
  <2> DEFINE k == [socket[s] EXCEPT !.request = "serving", !.handler = "verifying"]
  <2>1. /\ k \in SocketRecords /\ k.at = socket[s].at /\ k.token = socket[s].token /\ k.handler = "verifying"
        /\ k.notice = socket[s].notice /\ k.rejected = socket[s].rejected /\ k.close = socket[s].close
    BY <1>1 DEF SocketRecords
  <2>2. SocketOk(k) BY <1>1, <1>6 DEF SocketOk, SocketRecords, LogoutCall
  <2>3. OnSocket(s, k) /\ told' = told /\ socket[s].at = "open" /\ socket[s].handler = "none"
    BY <1>1, <1>6 DEF LogoutCall, SocketOk
  <2> HIDE DEF k
  <2> QED BY <2>1, <2>2, <2>3, SocketStays DEF Listening
<1>7. CASE Verified(s)
  <2>1. ~socket[s].terminal /\ socket[s].handler = "verifying" BY <1>1, <1>7 DEF SocketOk, Verified
  <2>2. CASE Valid(socket[s].token)
    <3> DEFINE k == [socket[s] EXCEPT !.handler = "verified"]
    <3>1. /\ k \in SocketRecords /\ k.at = socket[s].at /\ k.token = socket[s].token /\ k.handler = "verified"
          /\ k.notice = socket[s].notice /\ k.rejected = socket[s].rejected /\ k.close = socket[s].close
      BY <1>1 DEF SocketRecords
    <3>2. SocketOk(k) BY <1>1, <2>1 DEF SocketOk, SocketRecords
    <3>3. OnSocket(s, k) /\ told' = told BY <1>7, <2>2 DEF Verified
    <3>4. socket[s].at \notin {"authenticated", "registered"} BY <1>1, <2>1 DEF SocketOk
    <3> HIDE DEF k
    <3> QED BY <2>1, <3>1, <3>2, <3>3, <3>4, SocketStays DEF Listening
  <2>3. CASE ~Valid(socket[s].token)
    <3> DEFINE k == [d EXCEPT !.handler = "ended"]
    <3>1. /\ k \in SocketRecords /\ k.at = d.at /\ k.token = d.token /\ k.handler = "ended" /\ k.notice = d.notice
      BY <1>3, <2>1 DEF SocketRecords
    <3>2. SocketOk(k) BY <1>3, <2>1 DEF SocketOk, SocketRecords
    <3>3. OnSocket(s, k) /\ told' = told BY <1>7, <2>3 DEF Verified, d
    <3> HIDE DEF k
    <3> QED BY <1>3, <2>1, <3>1, <3>2, <3>3, SocketStays
  <2> QED BY <2>2, <2>3
<1>8. CASE EndAfterReply(s)
  <2>1. socket[s].handler = "verified" /\ ~socket[s].terminal /\ ~socket[s].check
    BY <1>1, <1>8 DEF SocketOk, EndAfterReply, ChecksOver
  <2>2. CASE Serving(s)
    <3> DEFINE k == [socket[s] EXCEPT !.terminal = TRUE, !.close = TRUE, !.handler = "ending"]
    <3>1. /\ k \in SocketRecords /\ k.at = socket[s].at /\ k.token = socket[s].token /\ k.handler = "ending"
          /\ k.notice = socket[s].notice /\ k.rejected = socket[s].rejected /\ k.close
      BY <1>1 DEF SocketRecords
    <3>2. SocketOk(k) BY <1>1, <2>1, <2>2 DEF SocketOk, SocketRecords, Serving
    <3>3. OnSocket(s, k) /\ told' = told /\ socket[s].at = "open" BY <1>8, <2>1, <2>2 DEF EndAfterReply, Serving
    <3> HIDE DEF k
    <3> QED BY <2>1, <3>1, <3>2, <3>3, SocketStays DEF Listening
  <2>3. CASE ~Serving(s)
    <3> DEFINE a == Answered(s)
               k == [socket[s] EXCEPT !.handler = "ended", !.request = a]
    <3>1. a \in {"none", "serving", "replying", "finished"} /\ (socket[s].request \in {"serving", "replying"} => a = "replying")
          /\ (socket[s].request # "none" => a # "none")
      BY <1>1 DEF Answered, SocketRecords
    <3>2. OnSocket(s, k) /\ told' = told BY <1>8, <2>3 DEF EndAfterReply
    <3> HIDE DEF a
    <3>3. /\ k \in SocketRecords /\ k.at = socket[s].at /\ k.token = socket[s].token /\ k.handler = "ended"
          /\ k.notice = socket[s].notice /\ k.rejected = socket[s].rejected /\ k.close = socket[s].close
      BY <1>1, <3>1 DEF SocketRecords
    <3>4. SocketOk(k) BY <1>1, <2>1, <3>1 DEF SocketOk, SocketRecords
    <3>5. socket[s].at \notin {"authenticated", "registered"} BY <1>1, <2>1 DEF SocketOk
    <3> HIDE DEF k
    <3> QED BY <2>1, <3>3, <3>4, <3>2, <3>5, SocketStays DEF Listening
  <2> QED BY <2>2, <2>3
<1>9. CASE AfterReply(s)
  <2>1. socket[s].handler = "revoked" /\ socket[s].at \notin {"authenticated", "registered"} /\ socket[s].request # "none"
    BY <1>1, <1>9 DEF AfterReply, SocketOk
  <2>2. CASE socket[s].request = "finished"
    <3> DEFINE k == [socket[s] EXCEPT !.handler = "ended"]
    <3>1. /\ k \in SocketRecords /\ k.at = socket[s].at /\ k.token = socket[s].token /\ k.handler = "ended"
          /\ k.notice = socket[s].notice /\ k.rejected = socket[s].rejected /\ k.close = socket[s].close
      BY <1>1 DEF SocketRecords
    <3>2. SocketOk(k) BY <1>1, <2>1 DEF SocketOk, SocketRecords
    <3>3. OnSocket(s, k) /\ told' = told \cup {Of(s)} BY <1>9, <2>2 DEF AfterReply
    <3> HIDE DEF k
    <3> QED BY <2>1, <3>1, <3>2, <3>3, SocketStays DEF Listening
  <2>3. CASE socket[s].request # "finished"
    <3> DEFINE a == Answered(s)
               k == [socket[s] EXCEPT !.handler = "ended", !.request = a, !.notice = TRUE]
    <3>1. a = "replying" BY <1>1, <2>1, <2>3 DEF Answered, SocketRecords
    <3>2. OnSocket(s, k) /\ told' = told BY <1>9, <2>3 DEF AfterReply
    <3> HIDE DEF a
    <3>3. /\ k \in SocketRecords /\ k.at = socket[s].at /\ k.token = socket[s].token /\ k.handler = "ended"
          /\ k.notice /\ k.rejected = socket[s].rejected /\ k.close = socket[s].close
      BY <1>1, <3>1 DEF SocketRecords
    <3>4. SocketOk(k) BY <1>1, <2>1, <3>1 DEF SocketOk, SocketRecords
    <3> HIDE DEF k
    <3> QED BY <2>1, <3>3, <3>4, <3>2, SocketStays DEF Listening
  <2> QED BY <2>2, <2>3
<1>10. CASE Timeout(s)
  <2> DEFINE k == [socket[s] EXCEPT !.request = "replying"]
  <2>1. /\ k \in SocketRecords /\ k.at = socket[s].at /\ k.token = socket[s].token /\ k.handler = socket[s].handler
        /\ k.notice = socket[s].notice /\ k.rejected = socket[s].rejected /\ k.close = socket[s].close
    BY <1>1 DEF SocketRecords
  <2>2. SocketOk(k) BY <1>1, <1>10 DEF SocketOk, SocketRecords, Timeout, Serving
  <2>3. OnSocket(s, k) /\ told' = told /\ socket[s].at = "open" BY <1>10 DEF Timeout, Serving
  <2> HIDE DEF k
  <2> QED BY <2>1, <2>2, <2>3, SocketStays DEF Listening
<1>11. CASE FinishReply(s)
  <2> DEFINE o == IF socket[s].close THEN c ELSE socket[s]
             k == [o EXCEPT !.request = "finished", !.close = FALSE, !.notice = FALSE]
  <2>1. /\ o \in SocketRecords /\ SocketOk(o) /\ o.token = socket[s].token /\ o.handler = socket[s].handler
        /\ o.at \in {"authenticated", "registered", "open"} => o = socket[s] /\ ~socket[s].close
    BY <1>1, <1>2
  <2>2. OnSocket(s, k) /\ told' = IF socket[s].notice THEN told \cup {Of(s)} ELSE told BY <1>11 DEF FinishReply, c
  <2>3. o.terminal => o.at # "open" BY <1>1, <1>2, <2>1 DEF SocketOk
  <2> HIDE DEF o
  <2>4. /\ k \in SocketRecords /\ k.at = o.at /\ k.token = o.token /\ k.handler = o.handler /\ ~k.close
        /\ k.rejected = o.rejected
    BY <2>1 DEF SocketRecords
  <2>5. SocketOk(k) BY <2>1, <2>3 DEF SocketOk, SocketRecords
  <2> HIDE DEF k
  <2>6. k.at \in {"registered", "open"} => Listening(s) BY <2>1, <2>4 DEF Listening
  <2>7. socket[s].notice => Of(s) \in told' BY <2>2
  <2>8. told \subseteq told' BY <2>2
  <2> QED BY <2>1, <2>4, <2>2, <2>5, <2>6, <2>7, <2>8, SocketStays
<1> QED BY <1>4, <1>5, <1>6, <1>7, <1>8, <1>9, <1>10, <1>11

-----------------------------------------------------------------------------
(* A step of the logins: whoever it revokes is told, or unsure.            *)
LEMMA LoginsKeep ==
  ASSUME SessionsInv, SessionTypes', LoginsHold', UNCHANGED <<socket, hub>>,
         unsure \subseteq unsure', told \subseteq told',
         \A l \in Logins : login[l].at = "notifying" => login'[l].at = "notifying",
         \A x \in Logins : session[x] # "none" => session'[x] # "none",
         \A x \in Logins : session'[x] = "revoked" => session[x] = "revoked" \/ Pending(x)' \/ x \in unsure'
  PROVE  SessionsInv'
<1>1. SocketsInv BY DEF SessionsInv
<1>2. ASSUME NEW x \in Logins, Pending(x) PROVE Pending(x)' BY <1>2 DEF Pending, Of
<1>3. ASSUME NEW s \in Sockets
      PROVE SocketOk(socket[s])' /\ HasSession(socket[s])' /\ Told(s)' /\ (~hub' => ~Listening(s)')
  <2>1. SocketOk(socket[s]) /\ HasSession(socket[s]) /\ Told(s) /\ (~hub => ~Listening(s))
    BY <1>1 DEF SocketsInv
  <2>2. HasSession(socket[s])' BY <2>1 DEF HasSession
  <2>3. Told(s)'
    <3> SUFFICES ASSUME socket[s].at = "open", session'[Of(s)] = "revoked"
        PROVE socket[s].rejected \/ socket[s].close \/ Pending(Of(s))' \/ Of(s) \in unsure'
      BY DEF Told, Of
    <3>1. Of(s) \in Logins /\ Of(s)' = Of(s) BY <2>1 DEF HasSession, Of
    <3>2. session[Of(s)] = "revoked" \/ Pending(Of(s))' \/ Of(s) \in unsure' BY <3>1
    <3>3. Pending(Of(s)) => Pending(Of(s))' BY <1>2, <3>1
    <3> QED BY <2>1, <3>2, <3>3 DEF Told
  <2> QED BY <2>1, <2>2, <2>3 DEF SocketOk, Listening
<1> QED BY <1>3 DEF SessionsInv, SocketsInv

(* A login that replaces creates the one active session of its device.     *)
LEMMA CreatedHolds ==
  ASSUME SessionsInv, NEW l \in Logins, login[l].at = "replaced", Unique(l), Created(l),
         NEW a \in {"notifying", "failed"}, login' = [login EXCEPT ![l] = [at |-> a, old |-> {}]], hub' = hub, socket' = socket
  PROVE  /\ SessionTypes' /\ LoginsHold'
         /\ \A x \in Logins : session[x] # "none" => session'[x] # "none"
         /\ \A x \in Logins : session'[x] = "revoked" => session[x] = "revoked" \/ x \in login[l].old
         /\ \A m \in Logins : login[m].at = "notifying" => login'[m].at = "notifying"
<1>1. SessionTypes /\ LoginsHold BY DEF SessionsInv
<1> DEFINE r == [at |-> a, old |-> {}]
<1>2. r \in LoginRecords /\ r.at = a BY DEF LoginRecords
<1>3. login'[l] = r /\ \A m \in Logins : m # l => login'[m] = login[m] BY <1>1 DEF SessionTypes
<1>4. SessionTypes'
  <2>1. login' \in [Logins -> LoginRecords] BY <1>1, <1>2 DEF SessionTypes
  <2>2. session' \in [Logins -> {"none", "active", "revoked"}] BY <1>1 DEF SessionTypes, Created
  <2>3. live' \subseteq Logins \X {0, 1} BY <1>1 DEF SessionTypes, Created
  <2> QED BY <1>1, <2>1, <2>2, <2>3 DEF SessionTypes
<1> HIDE DEF r
<1>5. \A x \in Logins : session'[x] = IF x \in login[l].old THEN "revoked" ELSE IF x = l THEN "active" ELSE session[x]
  BY DEF Created
<1>6. \A x \in Logins : session'[x] = "active" /\ Device[x] = Device[l] => x = l
  BY <1>5 DEF Unique, ActiveOn
<1>7. LoginsHold'
  <2>1. ASSUME NEW m \in Logins
        PROVE /\ login'[m].at # "refused"
              /\ session'[m] # "none" => login'[m].at \in {"notifying", "done", "failed"}
              /\ login'[m].at = "replaced" => ActiveOn(Device[m])' \subseteq login'[m].old
              /\ login'[m].at = "replaced" => \A x \in login'[m].old : Device[x] = Device[m] /\ x # m /\ session'[x] # "none"
    <3>1. CASE m = l BY <1>2, <1>3, <3>1
    <3>2. CASE m # l
      <4>1. session'[m] # "none" => session[m] # "none"
        <5>1. CASE m \in login[l].old BY <1>1, <5>1 DEF LoginsHold
        <5>2. CASE m \notin login[l].old BY <3>2, <5>2, <1>5
        <5> QED BY <5>1, <5>2
      <4>2. login[m].at = "replaced" => Device[m] # Device[l] BY <1>1, <3>2 DEF LoginsHold
      <4>3. login[m].at = "replaced" => ActiveOn(Device[m])' \subseteq ActiveOn(Device[m])
        BY <4>2, <1>5, <1>3 DEF ActiveOn
      <4>4. login[m].at = "replaced" => login[m].old \subseteq Logins BY <1>1 DEF SessionTypes, LoginRecords
      <4>5. login[m].at = "replaced" =>
              \A x \in login[m].old : Device[x] = Device[m] /\ x # m /\ session'[x] # "none"
        BY <1>1, <1>5, <4>4 DEF LoginsHold
      <4> QED BY <1>1, <1>3, <3>2, <4>1, <4>3, <4>5 DEF LoginsHold
    <3> QED BY <3>1, <3>2
  <2>2. ASSUME NEW m \in Logins, NEW n \in Logins, m # n, Device[m] = Device[n]
        PROVE login'[m].at \notin {"locked", "replaced"} \/ login'[n].at \notin {"locked", "replaced"}
    BY <1>1, <1>2, <1>3, <2>2 DEF LoginsHold
  <2>3. ASSUME NEW x \in Logins, NEW y \in Logins, session'[x] = "active", session'[y] = "active", Device[x] = Device[y]
        PROVE x = y
    <3>1. CASE Device[x] = Device[l] BY <1>6, <2>3, <3>1
    <3>2. CASE Device[x] # Device[l]
      <4>1. session[x] = "active" /\ session[y] = "active" BY <1>5, <2>3, <3>2
      <4> QED BY <1>1, <2>3, <4>1 DEF LoginsHold
    <3> QED BY <3>1, <3>2
  <2> QED BY <2>1, <2>2, <2>3 DEF LoginsHold
<1>8. \A x \in Logins : session[x] # "none" => session'[x] # "none" BY <1>5
<1>9. \A x \in Logins : session'[x] = "revoked" => session[x] = "revoked" \/ x \in login[l].old BY <1>5
<1>10. \A m \in Logins : login[m].at = "notifying" => login'[m].at = "notifying" BY <1>3
<1> QED BY <1>4, <1>7, <1>8, <1>9, <1>10

(* every end of a login,                                                   *)
LEMMA CommitsKeep ==
  ASSUME SessionsInv, NEW l \in Logins,
         CommitLogin(l) \/ \E committed \in BOOLEAN : FailLogin(l, committed)
  PROVE  SessionsInv'
<1>1. SessionTypes /\ LoginsHold BY DEF SessionsInv
<1>2. login[l].at = "replaced" => Unique(l) BY <1>1 DEF LoginsHold, Unique
<1>3. login[l].old \subseteq Logins /\ \A x \in login[l].old : login[l].at = "replaced" => Device[x] = Device[l] /\ x # l
  BY <1>1 DEF LoginsHold, SessionTypes, LoginRecords
<1>4. CASE CommitLogin(l)
  <2>1. Created(l) /\ login' = [login EXCEPT ![l] = [at |-> "notifying", old |-> {}]] /\ login[l].at = "replaced"
        /\ UNCHANGED <<told, socket, hub, unsure>>
    BY <1>2, <1>4 DEF CommitLogin
  <2>2. login'[l].at = "notifying" BY <1>1, <2>1 DEF SessionTypes
  <2>3. \A x \in login[l].old : Pending(x)' BY <1>3, <2>1, <2>2 DEF Pending
  <2> QED BY <1>2, <2>1, <2>3, CreatedHolds, LoginsKeep
<1>5. CASE \E committed \in BOOLEAN : FailLogin(l, committed)
  <2>1. PICK committed \in BOOLEAN : FailLogin(l, committed) BY <1>5
  <2>2. CASE committed
    <3>1. Created(l) /\ login' = [login EXCEPT ![l] = [at |-> "failed", old |-> {}]] /\ login[l].at = "replaced"
          /\ UNCHANGED <<told, socket, hub>> /\ unsure' = unsure \cup login[l].old
      BY <2>1, <2>2 DEF FailLogin
    <3> QED BY <1>2, <3>1, CreatedHolds, LoginsKeep
  <2>3. CASE ~committed
    <3>1. UNCHANGED <<told, socket, hub, session, live, unsure>> /\ login[l].at = "replaced"
          /\ login' = [login EXCEPT ![l] = [at |-> "failed", old |-> {}]]
      BY <2>1, <2>3 DEF FailLogin
    <3>2. [at |-> "failed", old |-> {}] \in LoginRecords BY DEF LoginRecords
    <3>3. SessionTypes' BY <1>1, <3>1, <3>2 DEF SessionTypes
    <3>4. login'[l].at = "failed" /\ \A m \in Logins : m # l => login'[m] = login[m] BY <1>1, <3>1 DEF SessionTypes
    <3>5. LoginsHold' BY <1>1, <3>1, <3>4 DEF LoginsHold, ActiveOn
    <3>6. \A m \in Logins : login[m].at = "notifying" => login'[m].at = "notifying" BY <3>1, <3>4
    <3> QED BY <3>1, <3>3, <3>5, <3>6, LoginsKeep
  <2> QED BY <2>2, <2>3
<1> QED BY <1>4, <1>5

(* Whoever takes the lock or reads what it replaces.                       *)
LEMMA StartsKeep ==
  ASSUME SessionsInv, NEW l \in Logins, Lock(l) \/ Replace(l) PROVE SessionsInv'
<1>1. SessionTypes /\ LoginsHold BY DEF SessionsInv
<1>2. UNCHANGED <<told, socket, hub, session, live, unsure>> /\ login[l].at \in {"idle", "locked"}
  BY DEF Lock, Replace
<1>3. CASE Lock(l)
  <2> DEFINE r == [login[l] EXCEPT !.at = "locked"]
  <2>1. login' = [login EXCEPT ![l] = r] /\ r \in LoginRecords /\ r.at = "locked"
    BY <1>1, <1>3 DEF Lock, SessionTypes, LoginRecords
  <2> HIDE DEF r
  <2>2. login'[l] = r /\ \A m \in Logins : m # l => login'[m] = login[m] BY <1>1, <2>1 DEF SessionTypes
  <2>3. SessionTypes' BY <1>1, <1>2, <2>1 DEF SessionTypes
  <2>4. LoginsHold' BY <1>1, <1>2, <1>3, <2>1, <2>2 DEF LoginsHold, ActiveOn, Lock, Serialized
  <2>5. \A m \in Logins : login[m].at = "notifying" => login'[m].at = "notifying" BY <1>2, <2>2
  <2> QED BY <1>2, <2>3, <2>4, <2>5, LoginsKeep
<1>4. CASE Replace(l)
  <2> DEFINE r == [at |-> "replaced", old |-> ActiveOn(Device[l])]
  <2>1. login' = [login EXCEPT ![l] = r] /\ r.at = "replaced" /\ r.old = ActiveOn(Device[l]) BY <1>4 DEF Replace
  <2>2. ActiveOn(Device[l]) \subseteq Logins BY DEF ActiveOn
  <2>3. r \in LoginRecords BY <2>2 DEF LoginRecords
  <2> HIDE DEF r
  <2>4. login'[l] = r /\ \A m \in Logins : m # l => login'[m] = login[m] BY <1>1, <2>1 DEF SessionTypes
  <2>5. SessionTypes' BY <1>1, <1>2, <2>3, <2>1 DEF SessionTypes
  <2>6. login[l].at = "locked" /\ session[l] = "none" BY <1>1, <1>4 DEF LoginsHold, Replace
  <2>7. \A x \in ActiveOn(Device[l]) : Device[x] = Device[l] /\ x # l /\ session[x] # "none"
    BY <2>6 DEF ActiveOn
  <2>8. LoginsHold'
    <3>1. ASSUME NEW m \in Logins
          PROVE /\ login'[m].at # "refused"
                /\ session'[m] # "none" => login'[m].at \in {"notifying", "done", "failed"}
                /\ login'[m].at = "replaced" => ActiveOn(Device[m])' \subseteq login'[m].old
                /\ login'[m].at = "replaced" => \A x \in login'[m].old : Device[x] = Device[m] /\ x # m /\ session'[x] # "none"
      <4>1. ActiveOn(Device[m])' = ActiveOn(Device[m]) BY <1>2 DEF ActiveOn
      <4>2. CASE m = l BY <1>2, <2>1, <2>4, <2>6, <2>7, <4>1, <4>2
      <4>3. CASE m # l BY <1>1, <1>2, <2>4, <4>1, <4>3 DEF LoginsHold
      <4> QED BY <4>2, <4>3
    <3>2. ASSUME NEW m \in Logins, NEW n \in Logins, m # n, Device[m] = Device[n]
          PROVE login'[m].at \notin {"locked", "replaced"} \/ login'[n].at \notin {"locked", "replaced"}
      BY <1>1, <2>4, <2>6, <3>2 DEF LoginsHold
    <3> QED BY <1>1, <1>2, <3>1, <3>2 DEF LoginsHold
  <2>9. \A m \in Logins : login[m].at = "notifying" => login'[m].at = "notifying" BY <1>2, <2>4
  <2> QED BY <1>2, <2>5, <2>8, <2>9, LoginsKeep
<1> QED BY <1>3, <1>4

(* A session that is revoked, refreshed, or whose token expires.           *)
LEMMA RevokedHolds ==
  ASSUME SessionsInv, NEW x \in Logins, session[x] # "none", RowFree(x) \/ session[x] = "revoked",
         session' = [session EXCEPT ![x] = "revoked"], UNCHANGED <<login, live, hub>>, socket' \in [Sockets -> SocketRecords]
  PROVE  /\ SessionTypes' /\ LoginsHold'
         /\ \A y \in Logins : session[y] # "none" => session'[y] # "none"
         /\ \A y \in Logins : session'[y] = "revoked" => session[y] = "revoked" \/ y = x
<1>1. SessionTypes /\ LoginsHold BY DEF SessionsInv
<1>2. SessionTypes' BY <1>1 DEF SessionTypes
<1>3. session'[x] = "revoked" /\ \A y \in Logins : y # x => session'[y] = session[y] BY <1>1 DEF SessionTypes
<1>4. \A d : ActiveOn(d)' \subseteq ActiveOn(d) BY <1>3 DEF ActiveOn
<1>5. LoginsHold'
  <2>1. ASSUME NEW m \in Logins
        PROVE /\ login'[m].at # "refused"
              /\ session'[m] # "none" => login'[m].at \in {"notifying", "done", "failed"}
              /\ login'[m].at = "replaced" => ActiveOn(Device[m])' \subseteq login'[m].old
              /\ login'[m].at = "replaced" => \A y \in login'[m].old : Device[y] = Device[m] /\ y # m /\ session'[y] # "none"
    <3>1. session'[m] # "none" => session[m] # "none" BY <1>3
    <3>2. ActiveOn(Device[m])' \subseteq ActiveOn(Device[m]) BY <1>4
    <3>3. login[m].old \subseteq Logins BY <1>1 DEF SessionTypes, LoginRecords
    <3>4. login[m].at = "replaced" => \A y \in login[m].old : Device[y] = Device[m] /\ y # m /\ session'[y] # "none"
      BY <1>1, <1>3, <3>3 DEF LoginsHold
    <3> QED BY <1>1, <3>1, <3>2, <3>4 DEF LoginsHold
  <2>2. ASSUME NEW m \in Logins, NEW n \in Logins, m # n, Device[m] = Device[n]
        PROVE login'[m].at \notin {"locked", "replaced"} \/ login'[n].at \notin {"locked", "replaced"}
    BY <1>1, <2>2 DEF LoginsHold
  <2>3. ASSUME NEW y \in Logins, NEW z \in Logins, session'[y] = "active", session'[z] = "active", Device[y] = Device[z]
        PROVE y = z
    BY <1>1, <1>3, <2>3 DEF LoginsHold
  <2> QED BY <2>1, <2>2, <2>3 DEF LoginsHold
<1> QED BY <1>2, <1>3, <1>5

(* what else is done to a session,                                         *)
LEMMA SessionsKeep ==
  ASSUME SessionsInv, NEW x \in Logins,
         Logout(x) \/ Refresh(x) \/ \E t \in Logins \X {0, 1} : Expire(t)
  PROVE  SessionsInv'
<1>1. SessionTypes /\ LoginsHold BY DEF SessionsInv
<1>2. CASE Logout(x)
  <2>1. /\ session[x] = "active" /\ RowFree(x) /\ session' = [session EXCEPT ![x] = "revoked"]
        /\ UNCHANGED <<login, live, hub, socket, unsure>> /\ told' = told \cup {x} /\ socket' \in [Sockets -> SocketRecords]
    BY <1>1, <1>2 DEF Logout, SessionTypes
  <2>2. Pending(x)' BY <2>1 DEF Pending
  <2> QED BY <2>1, <2>2, RevokedHolds, LoginsKeep
<1>3. CASE Refresh(x) \/ \E t \in Logins \X {0, 1} : Expire(t)
  <2>1. UNCHANGED <<session, login, told, socket, hub, unsure>> BY <1>3 DEF Refresh, Expire
  <2>2. live' \subseteq Logins \X {0, 1}
    <3>1. live \subseteq Logins \X {0, 1} /\ <<x, 1>> \in Logins \X {0, 1} BY <1>1 DEF SessionTypes
    <3>2. CASE Refresh(x)
      <4>1. live' = live \cup {<<x, 1>>} BY <3>2 DEF Refresh
      <4> QED BY <3>1, <4>1
    <3>3. CASE \E t \in Logins \X {0, 1} : Expire(t)
      <4>1. live' \subseteq live BY <3>3 DEF Expire
      <4> QED BY <3>1, <4>1
    <3> QED BY <1>3, <3>2, <3>3
  <2>3. SessionTypes' BY <1>1, <2>1, <2>2 DEF SessionTypes
  <2>4. LoginsHold' BY <1>1, <2>1 DEF LoginsHold, ActiveOn
  <2> QED BY <2>1, <2>3, <2>4, LoginsKeep
<1> QED BY <1>2, <1>3

-----------------------------------------------------------------------------
(* A notification reaches every socket of the sessions it is about.        *)
LEMMA RejectsKeep ==
  ASSUME SessionsInv, NEW S, Rejects(S), SessionTypes', LoginsHold', UNCHANGED <<session, hub, unsure>>,
         \A x \in Logins : Pending(x) => x \in S \/ Pending(x)'
  PROVE  SessionsInv'
<1>1. SessionTypes /\ SocketsInv BY DEF SessionsInv
<1>2. ASSUME NEW s \in Sockets
      PROVE SocketOk(socket[s])' /\ HasSession(socket[s])' /\ Told(s)' /\ (~hub' => ~Listening(s)')
  <2>1. SocketOk(socket[s]) /\ HasSession(socket[s]) /\ Told(s) /\ (~hub => ~Listening(s)) /\ socket[s] \in SocketRecords
    BY <1>1 DEF SocketsInv, SessionTypes
  <2> DEFINE r == [socket[s] EXCEPT !.rejected = TRUE]
  <2>2. r \in SocketRecords /\ r.rejected /\ r.at = socket[s].at /\ r.token = socket[s].token /\ r.close = socket[s].close
    BY <2>1 DEF SocketRecords
  <2>3. SocketOk(r) BY <2>1 DEF SocketOk, SocketRecords
  <2>4. HasSession(r) BY <2>1 DEF HasSession, SocketRecords
  <2>5. socket'[s] = IF Listening(s) /\ Of(s) \in S THEN r ELSE socket[s] BY DEF Rejects
  <2> HIDE DEF r
  <2>6. socket'[s].at = socket[s].at /\ socket'[s].token = socket[s].token /\ socket'[s].close = socket[s].close
        /\ (socket[s].rejected => socket'[s].rejected)
    BY <2>2, <2>5
  <2>7. Told(s)'
    <3> SUFFICES ASSUME socket[s].at = "open", session[Of(s)] = "revoked"
        PROVE socket'[s].rejected \/ socket'[s].close \/ Pending(Of(s))' \/ Of(s) \in unsure
      BY <2>6 DEF Told, Of
    <3>1. Of(s) \in Logins /\ Of(s)' = Of(s) BY <2>1, <2>6 DEF HasSession, Of
    <3>2. CASE Of(s) \in S
      <4>1. Listening(s) BY DEF Listening
      <4> QED BY <2>2, <2>5, <3>2, <4>1
    <3>3. CASE Of(s) \notin S
      <4>1. Pending(Of(s)) => Pending(Of(s))' BY <3>1, <3>3
      <4> QED BY <2>1, <2>6, <4>1 DEF Told
    <3> QED BY <3>2, <3>3
  <2>8. SocketOk(socket[s])' /\ HasSession(socket[s])'
    <3>1. CASE socket'[s] = r BY <2>3, <2>4, <3>1 DEF SocketOk, HasSession
    <3>2. CASE socket'[s] = socket[s] BY <2>1, <3>2 DEF SocketOk, HasSession
    <3> QED BY <2>5, <3>1, <3>2
  <2>9. ~hub' => ~Listening(s)' BY <2>1, <2>6 DEF Listening
  <2> QED BY <2>7, <2>8, <2>9
<1> QED BY <1>2 DEF SessionsInv, SocketsInv

(* A notification leaves of a socket what says who it belongs to.          *)
LEMMA RejectedFields ==
  ASSUME SessionTypes, NEW S, Rejects(S)
  PROVE  /\ socket' \in [Sockets -> SocketRecords]
         /\ \A s \in Sockets : /\ socket'[s].token = socket[s].token
                               /\ socket'[s].notice = socket[s].notice /\ socket'[s].handler = socket[s].handler
<1>1. ASSUME NEW s \in Sockets
      PROVE /\ socket'[s] \in SocketRecords /\ socket'[s].token = socket[s].token
            /\ socket'[s].notice = socket[s].notice /\ socket'[s].handler = socket[s].handler
  <2> DEFINE r == [socket[s] EXCEPT !.rejected = TRUE]
  <2>1. socket[s] \in SocketRecords BY DEF SessionTypes
  <2>2. r \in SocketRecords /\ r.token = socket[s].token /\ r.notice = socket[s].notice /\ r.handler = socket[s].handler
    BY <2>1 DEF SocketRecords
  <2>3. socket'[s] = IF Listening(s) /\ Of(s) \in S THEN r ELSE socket[s] BY DEF Rejects
  <2> HIDE DEF r
  <2> QED BY <2>1, <2>2, <2>3
<1>2. socket' = [s \in Sockets |-> socket'[s]] BY DEF Rejects
<1> QED BY <1>1, <1>2

(* and every notification.                                                 *)
LEMMA NotificationsKeep ==
  ASSUME SessionsInv, NEW l \in Logins, NotifyLogin(l) \/ Notify(l) PROVE SessionsInv'
<1>1. SessionTypes /\ LoginsHold BY DEF SessionsInv
<1>2. CASE NotifyLogin(l)
  <2> DEFINE r == [login[l] EXCEPT !.at = "done"]
             S == {x \in Logins : Device[x] = Device[l]} \ {l}
  <2>1. login' = [login EXCEPT ![l] = r] /\ Rejects(S) /\ UNCHANGED <<session, live, told, hub, unsure>> /\ login[l].at = "notifying"
    BY <1>2 DEF NotifyLogin
  <2>2. r \in LoginRecords /\ r.at = "done" BY <1>1 DEF SessionTypes, LoginRecords
  <2> HIDE DEF r
  <2>3. login'[l] = r /\ \A m \in Logins : m # l => login'[m] = login[m] BY <1>1, <2>1 DEF SessionTypes
  <2>4. SessionTypes' BY <1>1, <2>1, <2>2, RejectedFields DEF SessionTypes
  <2>5. LoginsHold' BY <1>1, <2>1, <2>2, <2>3 DEF LoginsHold, ActiveOn
  <2>6. ASSUME NEW x \in Logins, Pending(x), x \notin S PROVE Pending(x)'
    <3>1. CASE \E m \in Logins \ {x} : Device[m] = Device[x] /\ login[m].at = "notifying"
      BY <2>3, <2>6, <3>1 DEF Pending
    <3>2. CASE \E s \in Sockets : Of(s) = x /\ (socket[s].notice \/ socket[s].handler = "revoked")
      BY <3>2, <2>1, <1>1, RejectedFields DEF Pending, Of
    <3> QED BY <2>1, <2>6, <3>1, <3>2 DEF Pending
  <2> HIDE DEF S
  <2> QED BY <2>1, <2>4, <2>5, <2>6, RejectsKeep
<1>3. CASE Notify(l)
  <2>1. Rejects({l}) /\ told' = told \ {l} /\ UNCHANGED <<session, login, live, hub, unsure>> BY <1>3 DEF Notify
  <2>2. SessionTypes' BY <1>1, <2>1, RejectedFields DEF SessionTypes
  <2>3. LoginsHold' BY <1>1, <2>1 DEF LoginsHold, ActiveOn
  <2>4. ASSUME NEW x \in Logins, Pending(x), x \notin {l} PROVE Pending(x)'
    <3>1. CASE \E s \in Sockets : Of(s) = x /\ (socket[s].notice \/ socket[s].handler = "revoked")
      BY <3>1, <2>1, <1>1, RejectedFields DEF Pending, Of
    <3> QED BY <2>1, <2>4, <3>1 DEF Pending
  <2> QED BY <2>1, <2>2, <2>3, <2>4, RejectsKeep
<1> QED BY <1>2, <1>3

(* A closed hub listens to nobody.                                         *)
LEMMA CloseHubKeeps == ASSUME SessionsInv, CloseHub PROVE SessionsInv'
<1>1. SessionTypes /\ LoginsHold /\ SocketsInv BY DEF SessionsInv
<1>2. ASSUME NEW s \in Sockets
      PROVE /\ socket'[s] \in SocketRecords /\ SocketOk(socket'[s]) /\ socket'[s].token = socket[s].token
            /\ socket'[s].notice = socket[s].notice /\ socket'[s].handler = socket[s].handler
            /\ socket'[s].at \notin {"registered", "open"}
            /\ socket'[s].at = "authenticated" => socket[s].at = "authenticated"
  <2> DEFINE c == Closing(socket[s], FALSE)
  <2>1. socket[s] \in SocketRecords /\ SocketOk(socket[s]) BY SocketIs
  <2>2. /\ c \in SocketRecords /\ SocketOk(c) /\ c.at \in {"closing", "gone"} /\ c.token = socket[s].token
        /\ c.handler = socket[s].handler /\ c.notice = socket[s].notice
    BY <2>1, ClosingIs
  <2>3. socket'[s] = IF socket[s].at \in {"accepted", "registered", "open"} THEN c ELSE socket[s] BY DEF CloseHub
  <2> HIDE DEF c
  <2> QED BY <2>1, <2>2, <2>3
<1>3. SessionTypes'
  <2>1. socket' = [s \in Sockets |-> socket'[s]] BY DEF CloseHub
  <2> QED BY <1>1, <1>2, <2>1 DEF SessionTypes, CloseHub
<1>4. LoginsHold' BY <1>1 DEF LoginsHold, ActiveOn, CloseHub
<1>5. ASSUME NEW s \in Sockets
      PROVE SocketOk(socket[s])' /\ HasSession(socket[s])' /\ Told(s)' /\ ~Listening(s)'
  <2>1. HasSession(socket[s]) /\ session' = session BY <1>1 DEF SocketsInv, CloseHub
  <2> QED BY <1>2, <2>1 DEF SocketOk, HasSession, Told, Listening
<1> QED BY <1>3, <1>4, <1>5 DEF SessionsInv, SocketsInv

(* A revocation by a socket: its answer arrives, or is lost.               *)
LEMMA RevokeKeeps ==
  ASSUME SessionsInv, NEW s \in Sockets, NEW lost \in BOOLEAN, Revoke(s, lost) PROVE SessionsInv'
<1>1. SessionTypes /\ LoginsHold /\ SocketsInv BY DEF SessionsInv
<1>2. /\ socket[s] \in SocketRecords /\ SocketOk(socket[s]) /\ HasSession(socket[s]) /\ socket[s].handler = "ending"
      /\ Of(s) \in Logins /\ session[Of(s)] # "none"
  BY <1>1 DEF SocketsInv, SessionTypes, Revoke, HasSession, Of
<1>3. PICK x \in Logins : x = Of(s) /\ session[x] # "none" BY <1>2
<1> DEFINE a == Answered(s)
           k == [socket[s] EXCEPT !.handler = "ended", !.request = a]
           v == [socket[s] EXCEPT !.handler = "revoked"]
           n == IF session[x] = "active" /\ ~lost THEN v ELSE k
<1>4. a \in {"none", "serving", "replying", "finished"} /\ (socket[s].request \in {"serving", "replying"} => a = "replying")
      /\ (socket[s].request # "none" => a # "none")
  BY <1>2 DEF Answered, SocketRecords
<1>5. /\ RowFree(x) /\ session' = [session EXCEPT ![x] = "revoked"] /\ UNCHANGED <<login, live, told, hub>>
      /\ unsure \subseteq unsure'
      /\ lost => x \in unsure'
  BY <1>3 DEF Revoke
<1>6. socket' = [socket EXCEPT ![s] = n] BY <1>3, <1>1 DEF Revoke, SessionTypes
<1> HIDE DEF a
<1>7. /\ k \in SocketRecords /\ SocketOk(k) /\ k.at = socket[s].at /\ k.token = socket[s].token /\ k.handler = "ended"
      /\ k.notice = socket[s].notice /\ k.rejected = socket[s].rejected /\ k.close = socket[s].close
  <2>1. k \in SocketRecords BY <1>2, <1>4 DEF SocketRecords
  <2> QED BY <1>2, <1>4, <2>1 DEF SocketOk, SocketRecords
<1>8. /\ v \in SocketRecords /\ SocketOk(v) /\ v.at = socket[s].at /\ v.token = socket[s].token /\ v.handler = "revoked"
      /\ v.notice = socket[s].notice /\ v.rejected = socket[s].rejected /\ v.close = socket[s].close
  BY <1>2 DEF SocketOk, SocketRecords
<1> HIDE DEF k, v
<1>9. /\ n \in SocketRecords /\ SocketOk(n) /\ n.at = socket[s].at /\ n.token = socket[s].token /\ n.handler \in {"ended", "revoked"}
      /\ n.notice = socket[s].notice /\ n.rejected = socket[s].rejected /\ n.close = socket[s].close
      /\ session[x] = "active" /\ ~lost => n.handler = "revoked"
  BY <1>7, <1>8
<1> HIDE DEF n
<1>10. socket'[s] = n /\ \A z \in Sockets : z # s => socket'[z] = socket[z] BY <1>1, <1>6 DEF SessionTypes
<1>11. socket' \in [Sockets -> SocketRecords] BY <1>1, <1>6, <1>9 DEF SessionTypes
<1>12. /\ SessionTypes' /\ LoginsHold'
       /\ \A y \in Logins : session[y] # "none" => session'[y] # "none"
       /\ \A y \in Logins : session'[y] = "revoked" => session[y] = "revoked" \/ y = x
  BY <1>3, <1>5, <1>11, RevokedHolds
<1>13. \A z \in Sockets : /\ socket'[z].token = socket[z].token /\ socket'[z].at = socket[z].at
                          /\ socket'[z].notice = socket[z].notice /\ socket'[z].rejected = socket[z].rejected
                          /\ socket'[z].close = socket[z].close
                          /\ socket'[z].handler # "none" => socket[z].handler # "none"
                          /\ socket[z].handler = "revoked" => socket'[z].handler = "revoked"
                          /\ SocketOk(socket'[z])
  BY <1>1, <1>2, <1>9, <1>10 DEF SocketsInv
<1>14. \A y \in Logins : Pending(y) => Pending(y)' BY <1>5, <1>13 DEF Pending, Of
<1>15. session[x] = "active" => Pending(x)' \/ x \in unsure'
  <2>1. CASE lost BY <1>5, <2>1
  <2>2. CASE session[x] = "active" /\ ~lost
    <3>1. socket'[s].handler = "revoked" /\ Of(s)' = x BY <1>3, <1>9, <1>10, <2>2 DEF Of
    <3> QED BY <3>1 DEF Pending
  <2> QED BY <2>1, <2>2
<1>16. ASSUME NEW z \in Sockets
       PROVE SocketOk(socket[z])' /\ HasSession(socket[z])' /\ Told(z)' /\ (~hub' => ~Listening(z)')
  <2>1. HasSession(socket[z]) /\ Told(z) /\ (~hub => ~Listening(z)) /\ SocketOk(socket'[z]) BY <1>1, <1>13 DEF SocketsInv
  <2>2. HasSession(socket[z])' BY <1>12, <1>13, <2>1 DEF HasSession
  <2>3. SocketOk(socket[z])' BY <2>1 DEF SocketOk
  <2>4. ~hub' => ~Listening(z)' BY <1>5, <1>13, <2>1 DEF Listening
  <2>5. Told(z)'
    <3> SUFFICES ASSUME socket[z].at = "open", session'[Of(z)] = "revoked"
        PROVE socket[z].rejected \/ socket[z].close \/ Pending(Of(z))' \/ Of(z) \in unsure'
      BY <1>13 DEF Told, Of
    <3>1. Of(z) \in Logins /\ Of(z)' = Of(z) BY <1>13, <2>1 DEF HasSession, Of
    <3>2. CASE session[Of(z)] = "revoked"
      <4>1. Pending(Of(z)) => Pending(Of(z))' BY <1>14, <3>1
      <4> QED BY <1>5, <2>1, <3>2, <4>1 DEF Told
    <3>3. CASE session[Of(z)] # "revoked"
      <4>1. Of(z) = x BY <1>12, <3>1, <3>3
      <4>2. session[x] = "active" BY <1>1, <1>3, <3>3, <4>1 DEF SessionTypes
      <4>3. Of(z)' = x BY <3>1, <4>1
      <4>4. Pending(x)' => Pending(Of(z))' BY <4>3 DEF Pending
      <4> QED BY <1>15, <4>1, <4>2, <4>3, <4>4
    <3> QED BY <3>2, <3>3
  <2> QED BY <2>2, <2>3, <2>4, <2>5
<1> QED BY <1>12, <1>16 DEF SessionsInv, SocketsInv

-----------------------------------------------------------------------------

(* So every step preserves it.                                             *)
LEMMA SessionsStep == SessionsInv /\ [ServerSessionsNext]_svars => SessionsInv'
<1> SUFFICES ASSUME SessionsInv, [ServerSessionsNext]_svars PROVE SessionsInv' OBVIOUS
<1>1. ASSUME NEW l \in Logins, Lock(l) \/ Replace(l) PROVE SessionsInv' BY <1>1, StartsKeep
<1>2. ASSUME NEW l \in Logins, CommitLogin(l) \/ \E committed \in BOOLEAN : FailLogin(l, committed) PROVE SessionsInv'
  BY <1>2, CommitsKeep
<1>3. ASSUME NEW l \in Logins, NotifyLogin(l) \/ Notify(l) PROVE SessionsInv' BY <1>3, NotificationsKeep
<1>4. ASSUME NEW l \in Logins, Refresh(l) \/ Logout(l) PROVE SessionsInv' BY <1>4, SessionsKeep
<1>5. ASSUME NEW t \in Logins \X {0, 1}, Expire(t) PROVE SessionsInv'
  <2>1. t[1] \in Logins OBVIOUS
  <2> QED BY <1>5, <2>1, SessionsKeep
<1>6. ASSUME NEW s \in Sockets, NEW t \in Logins \X {0, 1}, Handshake(s, t) PROVE SessionsInv' BY <1>6, ConnectionsKeep
<1>7. ASSUME NEW s \in Sockets, Accept(s) \/ Register(s) \/ Opened(s) \/ Reject(s) \/ Drop(s) \/ Leave(s) PROVE SessionsInv'
  BY <1>7, ConnectionsKeep
<1>8. ASSUME NEW s \in Sockets,
             Check(s) \/ EndCheck(s) \/ LogoutCall(s) \/ Verified(s) \/ EndAfterReply(s) \/ AfterReply(s) \/ Timeout(s) \/ FinishReply(s)
      PROVE SessionsInv'
  BY <1>8, LogoutsKeep
<1>9. ASSUME NEW s \in Sockets, NEW lost \in BOOLEAN, Revoke(s, lost) PROVE SessionsInv' BY <1>9, RevokeKeeps
<1>10. CASE CloseHub BY <1>10, CloseHubKeeps
<1>11. CASE UNCHANGED svars
  BY <1>11 DEF svars, SessionsInv, SessionTypes, LoginsHold, SocketsInv, SocketOk, HasSession, Told, Listening, ActiveOn, Pending, Of
<1> QED BY <1>1, <1>2, <1>3, <1>4, <1>5, <1>6, <1>7, <1>8, <1>9, <1>10, <1>11 DEF ServerSessionsNext

(* One active session per device, and no open socket of a revoked session  *)
(* that nobody will tell: SessionsKept in every reachable state, for any   *)
(* logins, devices and sockets.                                            *)
THEOREM SessionsAreKept == ServerSessionsSpec => []SessionsKept
<1>1. ServerSessionsInit => SessionsInv BY SessionsStart
<1>2. SessionsInv /\ [ServerSessionsNext]_svars => SessionsInv' BY SessionsStep
<1>3. SessionsInv => SessionsKept BY SessionsMean
<1> QED BY <1>1, <1>2, <1>3, PTL DEF ServerSessionsSpec

(***************************************************************************)
(* ServerPeer: streams and subscriptions.                                  *)
(***************************************************************************)

(* What the fields of a pulled stream and of a subscription range over.    *)
StreamRecords ==
  [at : {"idle", "opening", "open", "finished", "late", "failed"}, counted : BOOLEAN, stop : BOOLEAN,
   factory : {"none", "running", "source", "failed"}, source : {"none", "held", "closed"},
   producer : {"none", "running", "chunk", "end"}, next : BOOLEAN]
SubRecords ==
  [at : {"idle", "on", "gone"}, from : Nat, queue : Seq(Nat \ {0}), wake : BOOLEAN, sending : Nat, got : Seq(Nat \ {0})]

(* What the variables range over.                                          *)
PeerTypes ==
  /\ ended \in BOOLEAN
  /\ streams \in [Pulled -> StreamRecords]
  /\ cancel \in [Pulled -> {"none", "opening", "open", "waiting", "done", "timeout"}]
  /\ sub \in [Subscribers -> SubRecords]
  /\ published \in Nat

(* What is there of a stream, by how far it is: the slot is kept as long.  *)
StreamOk(k) ==
  /\ k.factory # "none" => k.at \in {"opening", "late"}
  /\ k.at \in {"opening", "late"} => k.counted /\ k.source = "none"
  /\ k.at = "open" => k.source = "held"
  /\ k.source = "held" => k.counted /\ k.at \in {"open", "finished"}
  /\ k.source = "closed" => k.at \in {"finished", "failed"}
  /\ k.producer = "running" => k.source = "held"

(* A stream ends by its own end, by the peer's, or by a cancellation.      *)
StreamEnds(x) ==
  /\ streams[x].at = "open" => ~ended
  /\ streams[x].at = "finished" => ended \/ x \in ends
  /\ cancel[x] = "done" => streams[x].source = "closed" \/ streams[x].stop

(* The streams that hold a slot,                                           *)
Counted == {x \in Pulled : streams[x].counted}
(* of which there are no more than are admitted.                           *)
Slots == IsFiniteSet(Counted) /\ Cardinality(Counted) <= MaxSlots

(* What is true of the streams.                                            *)
StreamsInv == (\A x \in Pulled : StreamOk(streams[x]) /\ StreamEnds(x)) /\ Slots

(* What an ordered subscription got, sends and holds: everything from f on *)
(* up to p, in its order.                                                  *)
Sendings(n) == IF n = 0 THEN 0 ELSE 1

Ordered(f, p, g, n, q) ==
  /\ p >= f
  /\ Len(g) + Sendings(n) + Len(q) = p - f
  /\ \A i \in 1..Len(g) : g[i] = f + i
  /\ n # 0 => n = f + Len(g) + 1
  /\ \A i \in 1..Len(q) : q[i] = f + Len(g) + Sendings(n) + i

(* The last of one that coalesces is the newest.                           *)
Newest(f, p, g, n, q) ==
  /\ p >= f
  /\ p > f =>
       \/ q # <<>> /\ q[Len(q)] = p
       \/ q = <<>> /\ n = p
       \/ q = <<>> /\ n = 0 /\ g # <<>> /\ g[Len(g)] = p

(* The same of a subscription.                                             *)
OrderedOk(k) == Ordered(k.from, published, k.got, k.sending, k.queue)
NewestOk(k) == Newest(k.from, published, k.got, k.sending, k.queue)

(* What is true of each subscription.                                      *)
SubOk(y) ==
  /\ sub[y].at = "idle" => sub[y].queue = <<>> /\ sub[y].sending = 0 /\ sub[y].got = <<>>
  /\ sub[y].at = "on" =>
       /\ Policy[y] = "ordered" => OrderedOk(sub[y])
       /\ Policy[y] = "coalesce" => NewestOk(sub[y])
       /\ sub[y].queue # <<>> => sub[y].wake

(* The inductive invariant of the server's peer.                           *)
PeerInv == PeerTypes /\ StreamsInv /\ \A y \in Subscribers : SubOk(y)

(* A fresh peer satisfies it.                                              *)
LEMMA PeerStarts == ServerPeerInit => PeerInv
<1> SUFFICES ASSUME ServerPeerInit PROVE PeerInv OBVIOUS
<1>1. NoStream \in StreamRecords /\ StreamOk(NoStream) /\ NoStream.at = "idle" /\ ~NoStream.counted
  BY DEF NoStream, StreamRecords, StreamOk
<1>2. NoSub \in SubRecords /\ NoSub.at = "idle"
  <2>1. <<>> \in Seq(Nat \ {0}) OBVIOUS
  <2> QED BY <2>1 DEF NoSub, SubRecords
<1>3. PeerTypes BY <1>1, <1>2 DEF ServerPeerInit, PeerTypes
<1>4. ASSUME NEW x \in Pulled PROVE StreamOk(streams[x]) /\ StreamEnds(x)
  <2>1. streams[x] = NoStream /\ cancel[x] = "none" BY DEF ServerPeerInit
  <2> QED BY <1>1, <2>1 DEF StreamEnds
<1>5. Slots
  <2>1. Counted = {} BY <1>1 DEF Counted, ServerPeerInit
  <2> QED BY <2>1, FS_EmptySet, ServerPeerAssumption DEF Slots, ServerPeerAssumption
<1>6. \A y \in Subscribers : SubOk(y)
  <2>1. NoSub.queue = <<>> /\ NoSub.sending = 0 /\ NoSub.got = <<>> BY DEF NoSub
  <2> QED BY <1>2, <2>1 DEF ServerPeerInit, SubOk
<1> QED BY <1>3, <1>4, <1>5, <1>6 DEF PeerInv, StreamsInv

-----------------------------------------------------------------------------

(* What is stated of the streams follows from it,                          *)
LEMMA SlotsMean ==
  ASSUME PeerInv PROVE SlotsHeld /\ StreamsEnd
<1>1. ASSUME NEW x \in Pulled PROVE StreamOk(streams[x]) /\ StreamEnds(x) /\ streams[x] \in StreamRecords
  BY DEF PeerInv, StreamsInv, PeerTypes
<1>2. {x \in Pulled : Alive(x)} \subseteq Counted BY <1>1 DEF Alive, Counted, StreamOk
<1>3. Slots BY DEF PeerInv, StreamsInv
<1>4. IsFiniteSet({x \in Pulled : Alive(x)}) /\ Cardinality({x \in Pulled : Alive(x)}) <= Cardinality(Counted)
  BY <1>2, <1>3, FS_Subset DEF Slots
<1>5. Cardinality({x \in Pulled : Alive(x)}) \in Nat /\ Cardinality(Counted) \in Nat
  BY <1>3, <1>4, FS_CardinalityType DEF Slots
<1>6. Cardinality({x \in Pulled : Alive(x)}) <= MaxSlots
  BY <1>3, <1>4, <1>5, ServerPeerAssumption DEF Slots, ServerPeerAssumption
<1>7. \A x \in Pulled : streams[x].source = "closed" => streams[x].producer # "running" BY <1>1 DEF StreamOk
<1> QED BY <1>1, <1>6, <1>7 DEF SlotsHeld, StreamsEnd, StreamEnds

(* A concatenation, as a name the provers do not look into.                *)
Joined(s, t) == s \o t

(* What a concatenation is, without a look into it.                        *)
LEMMA JoinedIs ==
  ASSUME NEW s \in Seq(Nat), NEW t \in Seq(Nat)
  PROVE  /\ Joined(s, t) \in Seq(Nat) /\ Len(Joined(s, t)) = Len(s) + Len(t)
         /\ \A i \in 1..Len(s) : Joined(s, t)[i] = s[i]
         /\ \A i \in 1..Len(t) : Joined(s, t)[Len(s) + i] = t[i]
<1>1. Len(s) \in Nat /\ Len(t) \in Nat OBVIOUS
<1>2. /\ s \o t \in Seq(Nat) /\ Len(s \o t) = Len(s) + Len(t)
      /\ \A i \in 1 .. Len(s) + Len(t) : (s \o t)[i] = IF i <= Len(s) THEN s[i] ELSE t[i - Len(s)]
  BY ConcatProperties
<1>3. ASSUME NEW i \in 1..Len(s) PROVE (s \o t)[i] = s[i] BY <1>1, <1>2
<1>4. ASSUME NEW i \in 1..Len(t) PROVE (s \o t)[Len(s) + i] = t[i]
  <2>1. Len(s) + i \in 1..Len(s) + Len(t) /\ ~(Len(s) + i <= Len(s)) /\ (Len(s) + i) - Len(s) = i BY <1>1
  <2> QED BY <1>2, <2>1
<1> QED BY <1>2, <1>3, <1>4 DEF Joined

(* and what is stated of the subscriptions:                                *)
LEMMA EventsMean ==
  ASSUME PeerInv PROVE EventsKept
<1> SUFFICES ASSUME NEW y \in Subscribers, sub[y].at = "on"
    PROVE LET k == sub[y]
              all == k.got \o (IF k.sending = 0 THEN <<>> ELSE <<k.sending>>) \o k.queue IN
          /\ Policy[y] = "ordered" => all = [i \in 1..(published - k.from) |-> k.from + i]
          /\ Policy[y] = "coalesce" /\ published > k.from => all # <<>> /\ all[Len(all)] = published
          /\ k.queue # <<>> => k.wake
  BY DEF EventsKept
<1> DEFINE f == sub[y].from
           g == sub[y].got
           n == sub[y].sending
           q == sub[y].queue
           mid == IF n = 0 THEN <<>> ELSE <<n>>
           all == g \o mid \o q
<1>1. /\ f \in Nat /\ g \in Seq(Nat) /\ n \in Nat /\ q \in Seq(Nat) /\ published \in Nat
  <2>1. sub[y] \in SubRecords /\ published \in Nat BY DEF PeerInv, PeerTypes
  <2> QED BY <2>1 DEF SubRecords
<1>2. /\ Policy[y] = "ordered" => Ordered(f, published, g, n, q)
      /\ Policy[y] = "coalesce" => Newest(f, published, g, n, q)
      /\ q # <<>> => sub[y].wake
  BY DEF PeerInv, SubOk, OrderedOk, NewestOk
<1> HIDE DEF f, g, n, q
<1>3. mid \in Seq(Nat) /\ Len(mid) = Sendings(n) /\ (n # 0 => mid[1] = n)
  <2>1. CASE n = 0 BY <2>1 DEF Sendings
  <2>2. CASE n # 0
    <3>1. mid = <<n>> BY <2>2
    <3> QED BY <1>1, <2>2, <3>1 DEF Sendings
  <2> QED BY <2>1, <2>2
<1>4. Sendings(n) \in Nat /\ Sendings(n) \in {0, 1} /\ (Sendings(n) = 1 <=> n # 0) BY DEF Sendings
<1> HIDE DEF mid
<1>5. Len(g) \in Nat /\ Len(q) \in Nat BY <1>1
<1>6. /\ Len(all) = Len(g) + Sendings(n) + Len(q)
      /\ all \in Seq(Nat)
      /\ \A i \in 1..Len(g) : all[i] = g[i]
      /\ n # 0 => all[Len(g) + 1] = n
      /\ \A i \in 1..Len(q) : all[Len(g) + Sendings(n) + i] = q[i]
  <2> DEFINE two == Joined(g, mid)
  <2>1. /\ two \in Seq(Nat) /\ Len(two) = Len(g) + Len(mid)
        /\ \A i \in 1..Len(g) : two[i] = g[i]
        /\ \A i \in 1..Len(mid) : two[Len(g) + i] = mid[i]
    BY <1>1, <1>3, JoinedIs
  <2>2. all = Joined(two, q) BY DEF Joined
  <2> HIDE DEF two, all
  <2>3. /\ Len(two) = Len(g) + Sendings(n)
        /\ n # 0 => two[Len(g) + 1] = n
    BY <1>3, <1>4, <1>5, <2>1
  <2>4. /\ all \in Seq(Nat) /\ Len(all) = Len(two) + Len(q)
        /\ \A i \in 1..Len(two) : all[i] = two[i]
        /\ \A i \in 1..Len(q) : all[Len(two) + i] = q[i]
    BY <1>1, <2>1, <2>2, JoinedIs
  <2>5. \A i \in 1..Len(g) : i \in 1..Len(two) BY <1>4, <1>5, <2>3
  <2>6. n # 0 => Len(g) + 1 \in 1..Len(two) BY <1>4, <1>5, <2>3
  <2> QED BY <2>1, <2>3, <2>4, <2>5, <2>6
<1> HIDE DEF all
<1>7. ASSUME Policy[y] = "ordered" PROVE all = [i \in 1..(published - f) |-> f + i]
  <2>1. Ordered(f, published, g, n, q) BY <1>2, <1>7
  <2>2. Len(all) = published - f BY <1>6, <2>1 DEF Ordered
  <2>3. ASSUME NEW i \in 1..Len(all) PROVE all[i] = f + i
    <3>1. CASE i <= Len(g)
      <4>1. i \in 1..Len(g) BY <1>5, <3>1
      <4> QED BY <1>6, <2>1, <4>1 DEF Ordered
    <3>2. CASE i > Len(g) /\ i <= Len(g) + Sendings(n)
      <4>1. i = Len(g) + 1 /\ n # 0 BY <1>4, <1>5, <3>2
      <4>2. all[i] = n /\ n = f + Len(g) + 1 BY <1>6, <2>1, <4>1 DEF Ordered
      <4> QED BY <1>1, <1>5, <4>1, <4>2
    <3>3. CASE i > Len(g) + Sendings(n)
      <4> DEFINE j == i - Len(g) - Sendings(n)
      <4>1. j \in 1..Len(q) /\ i = Len(g) + Sendings(n) + j
        <5>1. Len(all) = Len(g) + Sendings(n) + Len(q) /\ i \in Int BY <1>6
        <5>2. i <= Len(all) BY <1>4, <1>5, <5>1
        <5> QED BY <1>4, <1>5, <3>3, <5>1, <5>2
      <4> HIDE DEF j
      <4>2. all[i] = q[j] BY <1>6, <4>1
      <4>3. q[j] = f + Len(g) + Sendings(n) + j BY <2>1, <4>1 DEF Ordered
      <4> QED BY <1>1, <1>4, <1>5, <4>1, <4>2, <4>3
    <3> QED BY <1>4, <1>5, <3>1, <3>2, <3>3
  <2>4. all = [i \in 1..Len(all) |-> all[i]] BY <1>6
  <2> QED BY <2>2, <2>3, <2>4
<1>8. ASSUME Policy[y] = "coalesce", published > f PROVE all # <<>> /\ all[Len(all)] = published
  <2>1. Newest(f, published, g, n, q) BY <1>2, <1>8
  <2>2. CASE q # <<>> /\ q[Len(q)] = published
    <3>1. Len(q) \in 1..Len(q) BY <1>1, <2>2
    <3>2. all[Len(g) + Sendings(n) + Len(q)] = q[Len(q)] BY <1>6, <3>1
    <3>3. Len(all) > 0 BY <1>4, <1>5, <1>6, <3>1
    <3> QED BY <1>6, <2>2, <3>2, <3>3
  <2>3. CASE q = <<>> /\ n = published
    <3>1. n # 0 BY <1>1, <1>8, <2>3
    <3>2. Len(all) = Len(g) + 1 BY <1>4, <1>5, <1>6, <2>3, <3>1
    <3> QED BY <1>5, <1>6, <2>3, <3>1, <3>2
  <2>4. CASE q = <<>> /\ n = 0 /\ g # <<>> /\ g[Len(g)] = published
    <3>1. Len(g) \in 1..Len(g) BY <1>1, <2>4
    <3>2. Len(all) = Len(g) BY <1>4, <1>5, <1>6, <2>4
    <3> QED BY <1>6, <2>4, <3>1, <3>2
  <2> QED BY <1>8, <2>1, <2>2, <2>3, <2>4 DEF Newest
<1> QED BY <1>2, <1>7, <1>8 DEF f, g, n, q, mid, all

(* all that is stated.                                                     *)
LEMMA PeerMeans == PeerInv => ServerPeerKept
BY SlotsMean, EventsMean DEF ServerPeerKept

-----------------------------------------------------------------------------

(* A step that takes no slot keeps the limit.                              *)
LEMMA SlotsKept == ASSUME Slots, Counted' \subseteq Counted PROVE Slots'
<1>1. IsFiniteSet(Counted') /\ Cardinality(Counted') <= Cardinality(Counted) BY FS_Subset DEF Slots
<1>2. Cardinality(Counted) \in Nat /\ Cardinality(Counted') \in Nat BY <1>1, FS_CardinalityType DEF Slots
<1> QED BY <1>1, <1>2, ServerPeerAssumption DEF Slots, ServerPeerAssumption

(* A step of one stream, and of its cancellation.                          *)
LEMMA StreamKeeps ==
  ASSUME PeerInv, NEW x \in Pulled, NEW k \in StreamRecords, StreamOk(k), OnStream(x, k),
         NEW c \in {"none", "opening", "open", "waiting", "done", "timeout"}, cancel' = [cancel EXCEPT ![x] = c],
         ends \subseteq ends',
         k.at = "open" => ~ended, k.at = "finished" => ended \/ x \in ends',
         c = "done" => k.source = "closed" \/ k.stop,
         Slots'
  PROVE  PeerInv'
<1>1. PeerTypes /\ StreamsInv BY DEF PeerInv
<1>2. streams' = [streams EXCEPT ![x] = k] /\ UNCHANGED <<ended, sub, published>> BY DEF OnStream
<1>3. /\ streams'[x] = k /\ cancel'[x] = c
      /\ \A z \in Pulled : z # x => streams'[z] = streams[z] /\ cancel'[z] = cancel[z]
  BY <1>1, <1>2 DEF PeerTypes
<1>4. PeerTypes' BY <1>1, <1>2 DEF PeerTypes
<1>5. ASSUME NEW z \in Pulled PROVE StreamOk(streams[z])' /\ StreamEnds(z)'
  <2>1. CASE z = x BY <1>2, <1>3, <2>1 DEF StreamOk, StreamEnds
  <2>2. CASE z # x
    <3>1. StreamOk(streams[z]) /\ StreamEnds(z) BY <1>1 DEF StreamsInv
    <3>2. streams'[z] = streams[z] /\ cancel'[z] = cancel[z] BY <1>3, <2>2
    <3> QED BY <1>2, <3>1, <3>2 DEF StreamOk, StreamEnds
  <2> QED BY <2>1, <2>2
<1>6. \A y \in Subscribers : SubOk(y)' BY <1>2 DEF PeerInv, SubOk, OrderedOk, NewestOk
<1> QED BY <1>4, <1>5, <1>6 DEF PeerInv, StreamsInv

(* ... that takes no slot.                                                 *)
LEMMA StreamKeepsSlot ==
  ASSUME PeerInv, NEW x \in Pulled, NEW k \in StreamRecords, StreamOk(k), OnStream(x, k),
         NEW c \in {"none", "opening", "open", "waiting", "done", "timeout"}, cancel' = [cancel EXCEPT ![x] = c],
         ends \subseteq ends',
         k.at = "open" => ~ended, k.at = "finished" => ended \/ x \in ends',
         c = "done" => k.source = "closed" \/ k.stop,
         k.counted => streams[x].counted
  PROVE  PeerInv'
<1>1. Counted' \subseteq Counted BY DEF Counted, OnStream, PeerInv, PeerTypes
<1>2. Slots' BY <1>1, SlotsKept DEF PeerInv, StreamsInv
<1> QED BY <1>2, StreamKeeps

(* ... that leaves the cancellation alone.                                 *)
LEMMA StreamKeepsAlone ==
  ASSUME PeerInv, NEW x \in Pulled, NEW k \in StreamRecords, StreamOk(k), OnStream(x, k), cancel' = cancel,
         ends \subseteq ends',
         k.at = "open" => ~ended, k.at = "finished" => ended \/ x \in ends' \/ streams[x].at = "finished",
         k.source = "closed" \/ streams[x].source # "closed", streams[x].stop => k.stop,
         k.counted => streams[x].counted
  PROVE  PeerInv'
<1>1. cancel' = [cancel EXCEPT ![x] = cancel[x]]
      /\ cancel[x] \in {"none", "opening", "open", "waiting", "done", "timeout"}
  BY DEF PeerInv, PeerTypes
<1>2. StreamEnds(x) BY DEF PeerInv, StreamsInv
<1>3. cancel[x] = "done" => k.source = "closed" \/ k.stop BY <1>2 DEF StreamEnds
<1>4. k.at = "finished" => ended \/ x \in ends' BY <1>2 DEF StreamEnds
<1> QED BY <1>1, <1>3, <1>4, StreamKeepsSlot

(* What the end of a stream leaves of it.                                  *)
LEMMA FinishedIs ==
  ASSUME NEW k \in StreamRecords, StreamOk(k)
  PROVE  /\ FinishedStream(k) \in StreamRecords /\ StreamOk(FinishedStream(k))
         /\ FinishedStream(k).at = IF k.at = "open" THEN "finished" ELSE k.at
         /\ FinishedStream(k).source = k.source /\ FinishedStream(k).stop = k.stop
         /\ FinishedStream(k).counted = k.counted
<1>1. CASE k.at = "open"
  <2> DEFINE r == [k EXCEPT !.at = "finished"]
  <2>1. /\ r \in StreamRecords /\ r.at = "finished" /\ r.source = k.source /\ r.stop = k.stop /\ r.counted = k.counted
        /\ r.factory = k.factory /\ r.producer = k.producer
    BY DEF StreamRecords
  <2>2. FinishedStream(k) = r BY <1>1 DEF FinishedStream
  <2> HIDE DEF r
  <2>3. StreamOk(r) BY <1>1, <2>1 DEF StreamOk
  <2> QED BY <1>1, <2>1, <2>2, <2>3
<1>2. CASE k.at # "open" BY <1>2 DEF FinishedStream
<1> QED BY <1>1, <1>2

(* What the invariant says of one stream.                                  *)
LEMMA StreamIs ==
  ASSUME PeerInv, NEW x \in Pulled
  PROVE  streams[x] \in StreamRecords /\ StreamOk(streams[x]) /\ StreamEnds(x)
BY DEF PeerInv, StreamsInv, PeerTypes

(* Only an open that is admitted takes a slot.                             *)
LEMMA OpenKeeps == ASSUME PeerInv, NEW x \in Pulled, OpenStream(x) PROVE PeerInv'
<1>1. streams[x] \in StreamRecords /\ StreamOk(streams[x]) /\ streams[x].at = "idle" BY StreamIs DEF OpenStream
<1>2. CASE Active >= MaxStreams \/ Active >= MaxSlots
  <2> DEFINE k == [streams[x] EXCEPT !.at = "failed"]
  <2>1. /\ k \in StreamRecords /\ k.at = "failed" /\ k.source = streams[x].source /\ k.stop = streams[x].stop
        /\ k.counted = streams[x].counted /\ k.factory = streams[x].factory /\ k.producer = streams[x].producer
    BY <1>1 DEF StreamRecords
  <2>2. OnStream(x, k) /\ UNCHANGED <<cancel, ends>> BY <1>2 DEF OpenStream
  <2> HIDE DEF k
  <2>3. StreamOk(k) BY <1>1, <2>1 DEF StreamOk
  <2> QED BY <1>1, <2>1, <2>2, <2>3, StreamKeepsAlone
<1>3. CASE ~(Active >= MaxStreams \/ Active >= MaxSlots)
  <2> DEFINE k == [streams[x] EXCEPT !.at = "opening", !.counted = TRUE, !.factory = "running"]
  <2>1. /\ k \in StreamRecords /\ k.at = "opening" /\ k.source = streams[x].source /\ k.stop = streams[x].stop
        /\ k.counted /\ k.factory = "running" /\ k.producer = streams[x].producer
    BY <1>1 DEF StreamRecords
  <2>2. OnStream(x, k) /\ UNCHANGED <<cancel, ends>> BY <1>3 DEF OpenStream
  <2> HIDE DEF k
  <2>3. StreamOk(k) BY <1>1, <2>1 DEF StreamOk, StreamRecords
  <2>4. Slots'
    <3>1. Counted' = Counted \cup {x} BY <2>1, <2>2 DEF Counted, OnStream, PeerInv, PeerTypes
    <3>2. Slots /\ ~(Cardinality(Counted) >= MaxSlots) BY <1>3 DEF PeerInv, StreamsInv, Active, Counted
    <3>3. IsFiniteSet(Counted') /\ (Cardinality(Counted') = Cardinality(Counted) \/ Cardinality(Counted') = Cardinality(Counted) + 1)
      BY <3>1, <3>2, FS_AddElement DEF Slots
    <3>4. Cardinality(Counted) \in Nat BY <3>2, FS_CardinalityType DEF Slots
    <3> QED BY <3>2, <3>3, <3>4, ServerPeerAssumption DEF Slots, ServerPeerAssumption
  <2>5. cancel' = [cancel EXCEPT ![x] = cancel[x]]
        /\ cancel[x] \in {"none", "opening", "open", "waiting", "done", "timeout"}
    BY <2>2 DEF PeerInv, PeerTypes
  <2>6. cancel[x] = "done" => k.source = "closed" \/ k.stop
    BY <2>1, StreamIs DEF StreamEnds
  <2> QED BY <2>1, <2>2, <2>3, <2>4, <2>5, <2>6, StreamKeeps
<1> QED BY <1>2, <1>3

(* Every step of a factory preserves the invariant,                        *)
LEMMA FactoriesKeep ==
  ASSUME PeerInv, NEW x \in Pulled,
         \/ \E result \in {"source", "failed"} : Factory(x, result)
         \/ OpenFails(x) \/ Late(x)
  PROVE  PeerInv'
<1>1. streams[x] \in StreamRecords /\ StreamOk(streams[x]) BY StreamIs
<1>2. CASE \E result \in {"source", "failed"} : Factory(x, result)
  <2>1. PICK result \in {"source", "failed"} : Factory(x, result) BY <1>2
  <2> DEFINE k == [streams[x] EXCEPT !.factory = result]
  <2>2. /\ k \in StreamRecords /\ k.at = streams[x].at /\ k.source = streams[x].source /\ k.stop = streams[x].stop
        /\ k.counted = streams[x].counted /\ k.factory = result /\ k.producer = streams[x].producer
    BY <1>1 DEF StreamRecords
  <2>3. OnStream(x, k) /\ UNCHANGED <<cancel, ends>> /\ streams[x].factory = "running" BY <2>1 DEF Factory
  <2> HIDE DEF k
  <2>4. StreamOk(k) BY <1>1, <2>2, <2>3 DEF StreamOk
  <2>5. k.at \in {"opening", "late"} BY <1>1, <2>2, <2>3 DEF StreamOk
  <2> QED BY <1>1, <2>2, <2>3, <2>4, <2>5, StreamKeepsAlone
<1>3. CASE OpenFails(x)
  <2>1. streams[x].at = "opening" BY <1>3 DEF OpenFails
  <2> DEFINE k == [streams[x] EXCEPT !.at = "failed", !.counted = FALSE, !.factory = "none"]
             j == [streams[x] EXCEPT !.at = "late"]
  <2>2. /\ k \in StreamRecords /\ k.at = "failed" /\ k.source = streams[x].source /\ k.stop = streams[x].stop
        /\ ~k.counted /\ k.factory = "none" /\ k.producer = streams[x].producer
    BY <1>1 DEF StreamRecords
  <2>3. /\ j \in StreamRecords /\ j.at = "late" /\ j.source = streams[x].source /\ j.stop = streams[x].stop
        /\ j.counted = streams[x].counted /\ j.factory = streams[x].factory /\ j.producer = streams[x].producer
    BY <1>1 DEF StreamRecords
  <2>4. (OnStream(x, k) \/ OnStream(x, j)) /\ UNCHANGED <<cancel, ends>> BY <1>3 DEF OpenFails
  <2> HIDE DEF k, j
  <2>5. StreamOk(k) /\ StreamOk(j) BY <1>1, <2>1, <2>2, <2>3 DEF StreamOk
  <2>6. CASE OnStream(x, k) BY <1>1, <2>1, <2>2, <2>4, <2>5, <2>6, StreamKeepsAlone
  <2>7. CASE OnStream(x, j) BY <1>1, <2>1, <2>3, <2>4, <2>5, <2>7, StreamKeepsAlone
  <2> QED BY <2>4, <2>6, <2>7
<1>4. CASE Late(x)
  <2>1. streams[x].at = "late" BY <1>4 DEF Late
  <2> DEFINE c == IF streams[x].factory = "source" THEN "closed" ELSE "none"
             k == [streams[x] EXCEPT !.at = "failed", !.counted = FALSE, !.factory = "none", !.source = c]
  <2>2. c \in {"closed", "none"} OBVIOUS
  <2>3. OnStream(x, k) /\ UNCHANGED <<cancel, ends>> BY <1>4 DEF Late
  <2> HIDE DEF c
  <2>4. /\ k \in StreamRecords /\ k.at = "failed" /\ k.source = c /\ k.stop = streams[x].stop
        /\ ~k.counted /\ k.factory = "none" /\ k.producer = streams[x].producer
    BY <1>1, <2>2 DEF StreamRecords
  <2> HIDE DEF k
  <2>5. StreamOk(k) /\ streams[x].source = "none" BY <1>1, <2>1, <2>2, <2>4 DEF StreamOk
  <2> QED BY <1>1, <2>3, <2>4, <2>5, StreamKeepsAlone
<1> QED BY <1>2, <1>3, <1>4

(* the installation of its source,                                         *)
LEMMA InstallKeeps == ASSUME PeerInv, NEW x \in Pulled, Install(x) PROVE PeerInv'
<1>1. streams[x] \in StreamRecords /\ StreamOk(streams[x]) /\ streams[x].at = "opening" /\ cancel' = cancel
  BY StreamIs DEF Install
<1> DEFINE k == [streams[x] EXCEPT !.at = "open", !.factory = "none", !.source = "held"]
<1>2. /\ k \in StreamRecords /\ k.at = "open" /\ k.source = "held" /\ k.stop = streams[x].stop
      /\ k.counted = streams[x].counted /\ k.factory = "none" /\ k.producer = streams[x].producer
  BY <1>1 DEF StreamRecords
<1>3. IF Installed(x) THEN OnStream(x, k) /\ UNCHANGED ends ELSE OnStream(x, FinishedStream(k)) /\ SendEnd(x)
  BY DEF Install
<1> HIDE DEF k
<1>4. StreamOk(k) /\ streams[x].source = "none" BY <1>1, <1>2 DEF StreamOk
<1>5. CASE Installed(x)
  <2>1. OnStream(x, k) /\ ends' = ends /\ ~ended BY <1>3, <1>5 DEF Installed
  <2> QED BY <1>1, <1>2, <1>4, <2>1, StreamKeepsAlone
<1>6. CASE ~Installed(x)
  <2>1. OnStream(x, FinishedStream(k)) /\ ends \subseteq ends' /\ (ended \/ x \in ends')
    BY <1>3, <1>6 DEF SendEnd
  <2> QED BY <1>1, <1>2, <1>4, <2>1, FinishedIs, StreamKeepsAlone
<1> QED BY <1>5, <1>6

(* every step of a call of next,                                           *)
LEMMA NextsKeep ==
  ASSUME PeerInv, NEW x \in Pulled,
         \/ FinishStream(x) \/ Next(x) \/ NextReturns(x) \/ Cleaned(x)
         \/ \E result \in {"chunk", "end"} : Produce(x, result)
  PROVE  PeerInv'
<1>1. streams[x] \in StreamRecords /\ StreamOk(streams[x]) /\ StreamEnds(x) BY StreamIs
<1>2. CASE FinishStream(x)
  <2>1. OnStream(x, FinishedStream(streams[x])) /\ ends \subseteq ends' /\ (ended \/ x \in ends') /\ cancel' = cancel
        /\ streams[x].at = "open"
    BY <1>2 DEF FinishStream, SendEnd
  <2> QED BY <1>1, <2>1, FinishedIs, StreamKeepsAlone
<1>3. CASE Next(x)
  <2> DEFINE k == [streams[x] EXCEPT !.producer = "running", !.next = TRUE]
  <2>1. /\ k \in StreamRecords /\ k.at = streams[x].at /\ k.source = streams[x].source /\ k.stop = streams[x].stop
        /\ k.counted = streams[x].counted /\ k.factory = streams[x].factory /\ k.producer = "running"
    BY <1>1 DEF StreamRecords
  <2>2. OnStream(x, k) /\ UNCHANGED <<cancel, ends>> /\ streams[x].at = "open" /\ ~ended BY <1>3 DEF Next
  <2> HIDE DEF k
  <2>3. StreamOk(k) BY <1>1, <2>1, <2>2 DEF StreamOk
  <2> QED BY <1>1, <2>1, <2>2, <2>3, StreamKeepsAlone
<1>4. CASE \E result \in {"chunk", "end"} : Produce(x, result)
  <2>1. PICK result \in {"chunk", "end"} : Produce(x, result) BY <1>4
  <2> DEFINE k == [streams[x] EXCEPT !.producer = result]
  <2>2. /\ k \in StreamRecords /\ k.at = streams[x].at /\ k.source = streams[x].source /\ k.stop = streams[x].stop
        /\ k.counted = streams[x].counted /\ k.factory = streams[x].factory /\ k.producer = result
    BY <1>1 DEF StreamRecords
  <2>3. OnStream(x, k) /\ UNCHANGED <<cancel, ends>> /\ streams[x].producer = "running" BY <2>1 DEF Produce
  <2> HIDE DEF k
  <2>4. StreamOk(k) BY <1>1, <2>2, <2>3 DEF StreamOk
  <2>5. k.at = "open" => ~ended BY <1>1, <2>2 DEF StreamEnds
  <2> QED BY <1>1, <2>2, <2>3, <2>4, <2>5, StreamKeepsAlone
<1>5. CASE Cleaned(x)
  <2> DEFINE k == [streams[x] EXCEPT !.source = "closed", !.counted = FALSE]
  <2>1. /\ k \in StreamRecords /\ k.at = streams[x].at /\ k.source = "closed" /\ k.stop = streams[x].stop
        /\ ~k.counted /\ k.factory = streams[x].factory /\ k.producer = streams[x].producer
    BY <1>1 DEF StreamRecords
  <2>2. OnStream(x, k) /\ UNCHANGED <<cancel, ends>> /\ streams[x].at = "finished" /\ streams[x].producer # "running"
    BY <1>5 DEF Cleaned, ProducerOver
  <2> HIDE DEF k
  <2>3. StreamOk(k) BY <1>1, <2>1, <2>2 DEF StreamOk
  <2> QED BY <1>1, <2>1, <2>2, <2>3, StreamKeepsAlone
<1>6. CASE NextReturns(x)
  <2> DEFINE k == [streams[x] EXCEPT !.next = FALSE, !.producer = "none"]
             j == [streams[x] EXCEPT !.next = FALSE]
  <2>1. /\ k \in StreamRecords /\ k.at = streams[x].at /\ k.source = streams[x].source /\ k.stop = streams[x].stop
        /\ k.counted = streams[x].counted /\ k.factory = streams[x].factory /\ k.producer = "none"
    BY <1>1 DEF StreamRecords
  <2>2. /\ j \in StreamRecords /\ j.at = streams[x].at /\ j.source = streams[x].source /\ j.stop = streams[x].stop
        /\ j.counted = streams[x].counted /\ j.factory = streams[x].factory /\ j.producer = streams[x].producer
    BY <1>1 DEF StreamRecords
  <2>3. cancel' = cancel
        /\ \/ OnStream(x, k) /\ UNCHANGED ends
           \/ OnStream(x, j) /\ UNCHANGED ends
           \/ OnStream(x, FinishedStream(k)) /\ SendEnd(x)
           \/ OnStream(x, FinishedStream(j)) /\ SendEnd(x)
    BY <1>6 DEF NextReturns
  <2> HIDE DEF k, j
  <2>4. StreamOk(k) /\ StreamOk(j) BY <1>1, <2>1, <2>2 DEF StreamOk
  <2>5. streams[x].at = "open" => ~ended BY <1>1 DEF StreamEnds
  <2>6. SendEnd(x) => ends \subseteq ends' /\ (ended \/ x \in ends') BY DEF SendEnd
  <2>7. CASE OnStream(x, k) /\ UNCHANGED ends BY <1>1, <2>1, <2>3, <2>4, <2>5, <2>7, StreamKeepsAlone
  <2>8. CASE OnStream(x, j) /\ UNCHANGED ends BY <1>1, <2>2, <2>3, <2>4, <2>5, <2>8, StreamKeepsAlone
  <2>9. CASE OnStream(x, FinishedStream(k)) /\ SendEnd(x)
    BY <1>1, <2>1, <2>3, <2>4, <2>6, <2>9, FinishedIs, StreamKeepsAlone
  <2>10. CASE OnStream(x, FinishedStream(j)) /\ SendEnd(x)
    BY <1>1, <2>2, <2>3, <2>4, <2>6, <2>10, FinishedIs, StreamKeepsAlone
  <2> QED BY <2>3, <2>7, <2>8, <2>9, <2>10
<1> QED BY <1>2, <1>3, <1>4, <1>5, <1>6

(* and every step of a cancellation.                                       *)
LEMMA CancelsKeep ==
  ASSUME PeerInv, NEW x \in Pulled, ReadTables(x) \/ Cancel(x) \/ CancelEnds(x) PROVE PeerInv'
<1>1. streams[x] \in StreamRecords /\ StreamOk(streams[x]) /\ StreamEnds(x) BY StreamIs
<1>2. CASE Cancel(x)
  <2>1. CASE cancel[x] = "open"
    <3>1. cancel' = [cancel EXCEPT ![x] = "waiting"] /\ OnStream(x, FinishedStream(streams[x]))
          /\ ends \subseteq ends' /\ (streams[x].at = "open" => ended \/ x \in ends')
      BY <1>2, <2>1 DEF Cancel, SendEnd
    <3>2. streams[x].at = "finished" => ended \/ x \in ends' BY <1>1, <3>1 DEF StreamEnds
    <3>3. FinishedStream(streams[x]).at # "open" BY <1>1, FinishedIs
    <3>4. FinishedStream(streams[x]).at = "finished" => ended \/ x \in ends' BY <1>1, <3>1, <3>2, FinishedIs
    <3> QED BY <1>1, <3>1, <3>3, <3>4, FinishedIs, StreamKeepsSlot, ZenonT(60)
  <2>2. CASE cancel[x] # "open"
    <3> DEFINE k == [streams[x] EXCEPT !.stop = TRUE]
    <3>1. /\ k \in StreamRecords /\ k.at = streams[x].at /\ k.source = streams[x].source /\ k.stop
          /\ k.counted = streams[x].counted /\ k.factory = streams[x].factory /\ k.producer = streams[x].producer
      BY <1>1 DEF StreamRecords
    <3>2. cancel' = [cancel EXCEPT ![x] = "done"] /\ OnStream(x, k) /\ ends' = ends BY <1>2, <2>2 DEF Cancel
    <3> HIDE DEF k
    <3>3. StreamOk(k) BY <1>1, <3>1 DEF StreamOk
    <3>4. (k.at = "open" => ~ended) /\ (k.at = "finished" => ended \/ x \in ends') BY <1>1, <3>1, <3>2 DEF StreamEnds
    <3> QED BY <3>1, <3>2, <3>3, <3>4, StreamKeepsSlot
  <2> QED BY <2>1, <2>2
<1>3. CASE ReadTables(x) \/ CancelEnds(x)
  <2> DEFINE c == IF ReadTables(x) THEN streams[x].at ELSE IF streams[x].source = "closed" THEN "done" ELSE "timeout"
  <2>1. c \in {"none", "opening", "open", "waiting", "done", "timeout"} /\ (c = "done" => streams[x].source = "closed")
    BY <1>3 DEF ReadTables
  <2>2. cancel' = [cancel EXCEPT ![x] = c] /\ UNCHANGED <<ended, streams, sub, published, ends>>
    BY <1>3 DEF ReadTables, CancelEnds
  <2> HIDE DEF c
  <2>3. OnStream(x, streams[x]) BY <2>2 DEF OnStream, PeerInv, PeerTypes
  <2>4. (streams[x].at = "open" => ~ended) /\ (streams[x].at = "finished" => ended \/ x \in ends') BY <1>1, <2>2 DEF StreamEnds
  <2> QED BY <1>1, <2>1, <2>2, <2>3, <2>4, StreamKeepsSlot
<1> QED BY <1>2, <1>3

-----------------------------------------------------------------------------

(* What the invariant says of one subscription.                            *)
LEMMA SubIs == ASSUME PeerInv, NEW y \in Subscribers PROVE sub[y] \in SubRecords /\ SubOk(y)
BY DEF PeerInv, PeerTypes

(* What is left of a subscription that is over.                            *)
LEMMA GoneIs == [NoSub EXCEPT !.at = "gone"] \in SubRecords /\ [NoSub EXCEPT !.at = "gone"].at = "gone"
<1>1. <<>> \in Seq(Nat \ {0}) OBVIOUS
<1> QED BY <1>1 DEF NoSub, SubRecords

(* A step of one subscription.                                             *)
LEMMA SubKeeps ==
  ASSUME PeerInv, NEW y \in Subscribers, NEW k \in SubRecords,
         sub' = [sub EXCEPT ![y] = k], UNCHANGED <<ended, streams, cancel, published, ends>>, SubOk(y)'
  PROVE  PeerInv'
<1>1. PeerTypes' BY DEF PeerInv, PeerTypes
<1>2. StreamsInv' BY DEF PeerInv, StreamsInv, StreamOk, StreamEnds, Slots, Counted
<1>3. ASSUME NEW z \in Subscribers PROVE SubOk(z)'
  <2>1. CASE z = y BY <2>1
  <2>2. CASE z # y
    <3>1. SubOk(z) /\ sub'[z] = sub[z] BY <2>2 DEF PeerInv, PeerTypes
    <3> QED BY <3>1 DEF SubOk, OrderedOk, NewestOk
  <2> QED BY <2>1, <2>2
<1> QED BY <1>1, <1>2, <1>3 DEF PeerInv

(* A subscription begins with nothing held and ends with nothing.          *)
LEMMA SubscriptionsKeep ==
  ASSUME PeerInv, NEW y \in Subscribers, Subscribe(y) \/ Unsubscribe(y) PROVE PeerInv'
<1>1. sub[y] \in SubRecords /\ SubOk(y) BY SubIs
<1>2. CASE Subscribe(y)
  <2> DEFINE k == [sub[y] EXCEPT !.at = "on", !.from = published]
  <2>1. /\ k \in SubRecords /\ k.at = "on" /\ k.from = published /\ k.queue = sub[y].queue
        /\ k.sending = sub[y].sending /\ k.got = sub[y].got /\ k.wake = sub[y].wake
    BY <1>1 DEF SubRecords, PeerInv, PeerTypes
  <2>2. sub' = [sub EXCEPT ![y] = k] BY <1>2 DEF Subscribe, PeerInv, PeerTypes
  <2>3. UNCHANGED <<ended, streams, cancel, published, ends>> BY <1>2 DEF Subscribe
  <2>4. sub'[y] = k BY <2>2 DEF PeerInv, PeerTypes
  <2> HIDE DEF k
  <2>5. k.queue = <<>> /\ k.sending = 0 /\ k.got = <<>> /\ published \in Nat
    BY <1>1, <1>2, <2>1 DEF SubOk, Subscribe, PeerInv, PeerTypes
  <2>6. OrderedOk(k) /\ NewestOk(k) BY <2>1, <2>5 DEF OrderedOk, NewestOk, Ordered, Newest, Sendings
  <2>7. SubOk(y)' BY <2>1, <2>3, <2>4, <2>5, <2>6 DEF SubOk, OrderedOk, NewestOk
  <2> QED BY <2>1, <2>2, <2>3, <2>7, SubKeeps
<1>3. CASE Unsubscribe(y)
  <2> DEFINE k == [NoSub EXCEPT !.at = "gone"]
  <2>1. sub' = [sub EXCEPT ![y] = k] /\ UNCHANGED <<ended, streams, cancel, published, ends>> BY <1>3 DEF Unsubscribe
  <2>2. sub'[y] = k BY <2>1 DEF PeerInv, PeerTypes
  <2> HIDE DEF k
  <2>3. k \in SubRecords /\ k.at = "gone" BY GoneIs DEF k
  <2>4. SubOk(y)' BY <2>2, <2>3 DEF SubOk
  <2> QED BY <2>1, <2>3, <2>4, SubKeeps
<1> QED BY <1>2, <1>3

(* The worker takes the oldest of what is held.                            *)
LEMMA TakenInTurn ==
  ASSUME NEW f \in Nat, NEW p \in Nat, NEW g \in Seq(Nat \ {0}), NEW q \in Seq(Nat \ {0}), q # <<>>
  PROVE  /\ Head(q) \in Nat \ {0} /\ Tail(q) \in Seq(Nat \ {0})
         /\ Ordered(f, p, g, 0, q) => Ordered(f, p, g, Head(q), Tail(q))
         /\ Newest(f, p, g, 0, q) => Newest(f, p, g, Head(q), Tail(q))
<1> DEFINE h == Head(q)
           t == Tail(q)
<1>1. Len(q) \in Nat /\ Len(q) >= 1 /\ Len(g) \in Nat /\ h = q[1] OBVIOUS
<1>2. /\ h \in Nat \ {0} /\ t \in Seq(Nat \ {0}) /\ Len(t) = Len(q) - 1
      /\ \A i \in 1..Len(t) : t[i] = q[i + 1]
  BY HeadTailProperties
<1>3. (t = <<>> <=> Len(t) = 0) /\ Len(t) = Len(q) - 1 BY <1>2, EmptySeq
<1> HIDE DEF h, t
<1>4. ASSUME Ordered(f, p, g, 0, q) PROVE Ordered(f, p, g, h, t)
  <2>1. Sendings(0) = 0 /\ Sendings(h) = 1 BY <1>2 DEF Sendings
  <2>2. p >= f /\ Len(g) + 0 + Len(q) = p - f BY <1>4, <2>1 DEF Ordered
  <2>3. Len(g) + 1 + Len(t) = p - f BY <1>1, <1>3, <2>2, SMTT(30)
  <2>4. \A i \in 1..Len(g) : g[i] = f + i BY <1>4 DEF Ordered
  <2>5. h = f + Len(g) + 1
    <3>1. q[1] = f + Len(g) + 0 + 1 BY <1>1, <1>4, <2>1 DEF Ordered
    <3> QED BY <1>1, <3>1
  <2>6. ASSUME NEW i \in 1..Len(t) PROVE t[i] = f + Len(g) + 1 + i
    <3>1. i + 1 \in 1..Len(q) BY <1>1, <1>2
    <3>2. q[i + 1] = f + Len(g) + 0 + (i + 1) BY <1>4, <2>1, <3>1 DEF Ordered
    <3> QED BY <1>1, <1>2, <3>2
  <2> QED BY <2>1, <2>2, <2>3, <2>4, <2>5, <2>6 DEF Ordered
<1>5. ASSUME Newest(f, p, g, 0, q) PROVE Newest(f, p, g, h, t)
  <2>1. p >= f /\ (p > f => q[Len(q)] = p) BY <1>5 DEF Newest
  <2>2. CASE Len(q) = 1 BY <1>1, <1>2, <1>3, <2>1, <2>2 DEF Newest
  <2>3. CASE Len(q) # 1
    <3>1. Len(t) \in 1..Len(t) /\ Len(t) + 1 = Len(q) /\ t # <<>> BY <1>1, <1>2, <1>3, <2>3
    <3>2. t[Len(t)] = q[Len(q)] BY <1>2, <3>1
    <3> QED BY <2>1, <3>1, <3>2 DEF Newest
  <2> QED BY <2>2, <2>3
<1> QED BY <1>2, <1>4, <1>5 DEF h, t

(* What was sent is acknowledged.                                          *)
LEMMA GotInTurn ==
  ASSUME NEW f \in Nat, NEW p \in Nat, NEW g \in Seq(Nat \ {0}), NEW q \in Seq(Nat \ {0}), NEW n \in Nat \ {0}
  PROVE  /\ Append(g, n) \in Seq(Nat \ {0})
         /\ Ordered(f, p, g, n, q) => Ordered(f, p, Append(g, n), 0, q)
         /\ Newest(f, p, g, n, q) => Newest(f, p, Append(g, n), 0, q)
<1> DEFINE a == Append(g, n)
<1>1. Len(q) \in Nat /\ Len(g) \in Nat OBVIOUS
<1>2. /\ a \in Seq(Nat \ {0}) /\ a # <<>> /\ Len(a) = Len(g) + 1
      /\ \A i \in 1..Len(g) : a[i] = g[i]
      /\ a[Len(g) + 1] = n
  BY AppendProperties, SMTT(30)
<1> HIDE DEF a
<1>3. ASSUME Ordered(f, p, g, n, q) PROVE Ordered(f, p, a, 0, q)
  <2>1. Sendings(0) = 0 /\ Sendings(n) = 1 BY DEF Sendings
  <2>2. p >= f /\ Len(g) + 1 + Len(q) = p - f /\ n = f + Len(g) + 1 BY <1>3, <2>1 DEF Ordered
  <2>3. Len(a) + 0 + Len(q) = p - f BY <1>1, <1>2, <2>2
  <2>4. ASSUME NEW i \in 1..Len(a) PROVE a[i] = f + i
    <3>1. CASE i \in 1..Len(g) BY <1>2, <1>3, <3>1 DEF Ordered
    <3>2. CASE i = Len(g) + 1 BY <1>1, <1>2, <2>2, <3>2
    <3> QED BY <1>1, <1>2, <3>1, <3>2
  <2>5. ASSUME NEW i \in 1..Len(q) PROVE q[i] = f + Len(a) + 0 + i
    <3>1. q[i] = f + Len(g) + 1 + i BY <1>3, <2>1 DEF Ordered
    <3> QED BY <1>1, <1>2, <3>1
  <2> QED BY <2>1, <2>2, <2>3, <2>4, <2>5 DEF Ordered
<1>4. ASSUME Newest(f, p, g, n, q) PROVE Newest(f, p, a, 0, q)
  BY <1>2, <1>4 DEF Newest
<1> QED BY <1>2, <1>3, <1>4 DEF a

(* An event joins what is held, or takes its place.                        *)
LEMMA HeldInTurn ==
  ASSUME NEW f \in Nat, NEW p \in Nat, NEW g \in Seq(Nat \ {0}), NEW q \in Seq(Nat \ {0}), NEW n \in Nat
  PROVE  /\ q \o <<p + 1>> \in Seq(Nat \ {0}) /\ q \o <<p + 1>> # <<>>
         /\ Ordered(f, p, g, n, q) => Ordered(f, p + 1, g, n, q \o <<p + 1>>)
         /\ Newest(f, p, g, n, q) => Newest(f, p + 1, g, n, <<>> \o <<p + 1>>)
<1> DEFINE a == Append(q, p + 1)
<1>1. p + 1 \in Nat \ {0} OBVIOUS
<1>2. Len(q) \in Nat /\ Len(g) \in Nat /\ Sendings(n) \in Nat BY DEF Sendings
<1>3. /\ a \in Seq(Nat \ {0}) /\ a # <<>> /\ Len(a) = Len(q) + 1
      /\ \A i \in 1..Len(q) : a[i] = q[i]
      /\ a[Len(q) + 1] = p + 1
  <2>1. PICK m \in Nat \ {0} : m = p + 1 BY <1>1
  <2> DEFINE b == Append(q, m)
  <2>2. /\ b \in Seq(Nat \ {0}) /\ b # <<>> /\ Len(b) = Len(q) + 1
        /\ \A i \in 1..Len(q) : b[i] = q[i]
        /\ b[Len(q) + 1] = m
    BY AppendProperties, SMTT(30)
  <2>3. a = b BY <2>1
  <2> HIDE DEF a, b
  <2> QED BY <2>1, <2>2, <2>3
<1>4. Len(a) = Len(q) + 1 /\ a[Len(q) + 1] = p + 1 BY <1>3
<1>5. a = q \o <<p + 1>> BY <1>1, AppendIsConcat
<1> HIDE DEF a
<1>6. ASSUME Ordered(f, p, g, n, q) PROVE Ordered(f, p + 1, g, n, a)
  <2>1. p >= f /\ Len(g) + Sendings(n) + Len(q) = p - f BY <1>6 DEF Ordered
  <2> DEFINE x == Len(g)
             y == Sendings(n)
             z == Len(q)
             w == Len(a)
  <2>2. x \in Nat /\ y \in Nat /\ z \in Nat /\ w = z + 1 /\ x + y + z = p - f /\ p >= f BY <1>2, <1>4, <2>1
  <2> HIDE DEF x, y, z, w
  <2>3. p + 1 >= f /\ x + y + w = (p + 1) - f /\ f + x + y + (z + 1) = p + 1 BY <2>2
  <2>4. p + 1 >= f /\ Len(g) + Sendings(n) + Len(a) = (p + 1) - f BY <2>3 DEF x, y, w
  <2>5. ASSUME NEW i \in 1..Len(a) PROVE a[i] = f + Len(g) + Sendings(n) + i
    <3>1. CASE i \in 1..Len(q) BY <1>3, <1>6, <3>1 DEF Ordered
    <3>2. CASE i = Len(q) + 1
      <4>1. f + Len(g) + Sendings(n) + (Len(q) + 1) = p + 1 BY <2>3 DEF x, y, z
      <4> QED BY <1>4, <3>2, <4>1
    <3> QED BY <1>2, <1>4, <3>1, <3>2
  <2> QED BY <1>6, <2>4, <2>5 DEF Ordered
<1>7. ASSUME Newest(f, p, g, n, q) PROVE Newest(f, p + 1, g, n, <<>> \o <<p + 1>>)
  <2>1. <<>> \o <<p + 1>> = <<p + 1>> OBVIOUS
  <2>2. <<p + 1>> # <<>> /\ Len(<<p + 1>>) = 1 /\ <<p + 1>>[1] = p + 1 OBVIOUS
  <2>3. p + 1 >= f BY <1>7 DEF Newest
  <2> QED BY <2>1, <2>2, <2>3 DEF Newest
<1> QED BY <1>3, <1>5, <1>6, <1>7

(* A delivery takes events in their turn,                                  *)
LEMMA DeliveriesKeep ==
  ASSUME PeerInv, NEW y \in Subscribers, DeliverNext(y) PROVE PeerInv'
<1>1. sub[y] \in SubRecords /\ SubOk(y) /\ sub[y].at = "on" /\ sub[y].sending = 0 BY SubIs DEF DeliverNext
<1>2. UNCHANGED <<ended, streams, cancel, published, ends>> BY DEF DeliverNext
<1>3. CASE sub[y].queue = <<>>
  <2> DEFINE k == [sub[y] EXCEPT !.wake = FALSE]
  <2>1. /\ k \in SubRecords /\ k.at = "on" /\ k.from = sub[y].from /\ k.queue = sub[y].queue
        /\ k.sending = sub[y].sending /\ k.got = sub[y].got
    BY <1>1 DEF SubRecords
  <2>2. sub' = [sub EXCEPT ![y] = k] BY <1>3 DEF DeliverNext, PeerInv, PeerTypes
  <2>3. sub'[y] = k BY <2>2 DEF PeerInv, PeerTypes
  <2> HIDE DEF k
  <2>4. SubOk(y)' BY <1>1, <1>2, <1>3, <2>1, <2>3 DEF SubOk, OrderedOk, NewestOk
  <2> QED BY <1>2, <2>1, <2>2, <2>4, SubKeeps
<1>4. CASE sub[y].queue # <<>>
  <2> DEFINE h == Head(sub[y].queue)
             t == Tail(sub[y].queue)
             k == [sub[y] EXCEPT !.sending = h, !.queue = t]
  <2>1. sub[y].queue \in Seq(Nat \ {0}) /\ sub[y].got \in Seq(Nat \ {0}) /\ sub[y].from \in Nat BY <1>1 DEF SubRecords
  <2>2. published \in Nat BY DEF PeerInv, PeerTypes
  <2>3. sub' = [sub EXCEPT ![y] = k] BY <1>4 DEF DeliverNext
  <2>4. /\ h \in Nat \ {0} /\ t \in Seq(Nat \ {0})
        /\ OrderedOk(sub[y]) => Ordered(sub[y].from, published, sub[y].got, h, t)
        /\ NewestOk(sub[y]) => Newest(sub[y].from, published, sub[y].got, h, t)
    BY <1>1, <1>4, <2>1, <2>2, TakenInTurn DEF OrderedOk, NewestOk
  <2> HIDE DEF h, t
  <2>5. /\ k \in SubRecords /\ k.at = "on" /\ k.from = sub[y].from /\ k.queue = t
        /\ k.sending = h /\ k.got = sub[y].got /\ k.wake = sub[y].wake
    BY <1>1, <2>4 DEF SubRecords
  <2>6. sub'[y] = k BY <2>3 DEF PeerInv, PeerTypes
  <2> HIDE DEF k
  <2>7. SubOk(y)'
    <3>1. Policy[y] = "ordered" => OrderedOk(sub[y])' BY <1>1, <1>2, <2>4, <2>5, <2>6 DEF SubOk, OrderedOk
    <3>2. Policy[y] = "coalesce" => NewestOk(sub[y])' BY <1>1, <1>2, <2>4, <2>5, <2>6 DEF SubOk, NewestOk
    <3>3. sub[y].wake BY <1>1, <1>4 DEF SubOk
    <3> QED BY <2>5, <2>6, <3>1, <3>2, <3>3 DEF SubOk
  <2> QED BY <1>2, <2>3, <2>5, <2>7, SubKeeps
<1> QED BY <1>3, <1>4

(* an acknowledgement accounts for the one that was sent,                  *)
LEMMA AcknowledgementsKeep ==
  ASSUME PeerInv, NEW y \in Subscribers, Acknowledge(y) PROVE PeerInv'
<1>1. sub[y] \in SubRecords /\ SubOk(y) /\ sub[y].at = "on" /\ sub[y].sending # 0 BY SubIs DEF Acknowledge
<1>2. UNCHANGED <<ended, streams, cancel, published, ends>> BY DEF Acknowledge
<1> DEFINE a == Append(sub[y].got, sub[y].sending)
           k == [sub[y] EXCEPT !.sending = 0, !.got = a]
<1>3. sub[y].queue \in Seq(Nat \ {0}) /\ sub[y].got \in Seq(Nat \ {0}) /\ sub[y].from \in Nat /\ sub[y].sending \in Nat \ {0}
  BY <1>1 DEF SubRecords
<1>4. published \in Nat BY DEF PeerInv, PeerTypes
<1>5. sub' = [sub EXCEPT ![y] = k]  BY DEF Acknowledge, PeerInv, PeerTypes
<1>6. /\ a \in Seq(Nat \ {0})
      /\ OrderedOk(sub[y]) => Ordered(sub[y].from, published, a, 0, sub[y].queue)
      /\ NewestOk(sub[y]) => Newest(sub[y].from, published, a, 0, sub[y].queue)
  BY <1>4, <1>3, GotInTurn DEF OrderedOk, NewestOk
<1> HIDE DEF a
<1>7. /\ k \in SubRecords /\ k.at = "on" /\ k.from = sub[y].from /\ k.queue = sub[y].queue
      /\ k.sending = 0 /\ k.got = a /\ k.wake = sub[y].wake
  BY <1>1, <1>6 DEF SubRecords
<1>8. sub'[y] = k BY <1>5 DEF PeerInv, PeerTypes
<1> HIDE DEF k
<1>9. Policy[y] = "ordered" => OrderedOk(sub[y])' BY <1>1, <1>2, <1>6, <1>7, <1>8 DEF SubOk, OrderedOk
<1>10. Policy[y] = "coalesce" => NewestOk(sub[y])' BY <1>1, <1>2, <1>6, <1>7, <1>8 DEF SubOk, NewestOk
<1>11. SubOk(y)' BY <1>1, <1>7, <1>8, <1>9, <1>10 DEF SubOk
<1> QED BY <1>2, <1>5, <1>7, <1>11, SubKeeps

(* A peer that closes.                                                     *)
LEMMA ClosedKeeps ==
  ASSUME PeerInv, ended' = TRUE, streams' = ClosedStreams, sub' = NobodySubscribed, UNCHANGED <<cancel, ends>>, published' \in Nat
  PROVE  PeerInv'
<1>1. ASSUME NEW x \in Pulled
      PROVE /\ streams'[x] \in StreamRecords /\ StreamOk(streams'[x]) /\ StreamEnds(x)'
            /\ streams'[x].counted = streams[x].counted
  <2> DEFINE k == [streams[x] EXCEPT !.stop = TRUE]
  <2>1. streams[x] \in StreamRecords /\ StreamOk(streams[x]) /\ StreamEnds(x) BY StreamIs
  <2>2. /\ k \in StreamRecords /\ k.at = streams[x].at /\ k.source = streams[x].source /\ k.stop
        /\ k.counted = streams[x].counted /\ k.factory = streams[x].factory /\ k.producer = streams[x].producer
    BY <2>1 DEF StreamRecords
  <2>3. streams'[x] = FinishedStream(k) BY DEF ClosedStreams
  <2> HIDE DEF k
  <2>4. StreamOk(k) BY <2>1, <2>2 DEF StreamOk
  <2>5. /\ streams'[x] \in StreamRecords /\ StreamOk(streams'[x]) /\ streams'[x].stop /\ streams'[x].at # "open"
        /\ streams'[x].counted = k.counted
    BY <2>2, <2>3, <2>4, FinishedIs
  <2> QED BY <2>2, <2>5 DEF StreamEnds
<1>2. ASSUME NEW y \in Subscribers PROVE sub'[y] \in SubRecords /\ SubOk(y)'
  <2>1. sub[y] \in SubRecords /\ SubOk(y) BY SubIs
  <2> DEFINE k == [NoSub EXCEPT !.at = "gone"]
  <2>2. sub'[y] = IF sub[y].at = "on" THEN k ELSE sub[y] BY DEF NobodySubscribed
  <2>3. k \in SubRecords /\ k.at = "gone" BY GoneIs
  <2> HIDE DEF k
  <2>4. CASE sub[y].at = "on" BY <2>2, <2>3, <2>4 DEF SubOk
  <2>5. CASE sub[y].at # "on" BY <2>1, <2>2, <2>5 DEF SubOk
  <2> QED BY <2>4, <2>5
<1>3. PeerTypes'
  <2>1. streams' = [x \in Pulled |-> streams'[x]] BY DEF ClosedStreams
  <2>2. sub' = [y \in Subscribers |-> sub'[y]] BY DEF NobodySubscribed
  <2> QED BY <1>1, <1>2, <2>1, <2>2 DEF PeerInv, PeerTypes
<1>4. Slots'
  <2>1. Counted' \subseteq Counted BY <1>1 DEF Counted
  <2> QED BY <2>1, SlotsKept DEF PeerInv, StreamsInv
<1>5. \A x \in Pulled : StreamOk(streams[x])' /\ StreamEnds(x)' BY <1>1 DEF StreamOk
<1> QED BY <1>2, <1>3, <1>4, <1>5 DEF PeerInv, StreamsInv

(* and an event that is published joins every subscription by its policy.  *)
LEMMA PublishKeeps == ASSUME PeerInv, PublishEvent PROVE PeerInv'
<1> DEFINE on == {y \in Subscribers : sub[y].at = "on" /\ ~Drops(y)}
<1>1. published \in Nat /\ published' = published + 1 /\ UNCHANGED <<cancel, ends>> BY DEF PublishEvent, PeerInv, PeerTypes
<1>2. CASE \E y \in on : Full(y)
  <2>1. ended' = TRUE /\ streams' = ClosedStreams /\ sub' = NobodySubscribed BY <1>2 DEF PublishEvent
  <2> QED BY <1>1, <2>1, ClosedKeeps
<1>3. CASE ~\E y \in on : Full(y)
  <2>1. /\ sub' = [y \in Subscribers |-> IF y \in on THEN Queued(sub[y], Policy[y] = "coalesce") ELSE sub[y]]
        /\ UNCHANGED <<ended, streams>>
    BY <1>3 DEF PublishEvent
  <2>2. ASSUME NEW y \in Subscribers PROVE sub'[y] \in SubRecords /\ SubOk(y)'
    <3>1. sub[y] \in SubRecords /\ SubOk(y) BY SubIs
    <3>2. CASE y \notin on
      <4>1. sub'[y] = sub[y] BY <2>1, <3>2
      <4>2. sub[y].at # "on" \/ Policy[y] = "drop" BY <3>2 DEF Drops
      <4> QED BY <3>1, <4>1, <4>2 DEF SubOk
    <3>3. CASE y \in on
      <4> DEFINE q == IF Policy[y] = "coalesce" THEN <<>> \o <<published + 1>> ELSE sub[y].queue \o <<published + 1>>
                 k == [sub[y] EXCEPT !.queue = q, !.wake = TRUE]
      <4>1. sub'[y] = k BY <1>1, <2>1, <3>3 DEF Queued
      <4>2. sub[y].queue \in Seq(Nat \ {0}) /\ sub[y].got \in Seq(Nat \ {0}) /\ sub[y].from \in Nat /\ sub[y].sending \in Nat
        BY <3>1 DEF SubRecords
      <4>3. /\ Policy[y] = "ordered" /\ OrderedOk(sub[y]) => Ordered(sub[y].from, published + 1, sub[y].got, sub[y].sending, q)
            /\ Policy[y] = "coalesce" /\ NewestOk(sub[y]) => Newest(sub[y].from, published + 1, sub[y].got, sub[y].sending, q)
        BY <1>1, <4>2, HeldInTurn DEF OrderedOk, NewestOk
      <4>4. q \in Seq(Nat \ {0})
        <5>1. <<>> \in Seq(Nat \ {0}) OBVIOUS
        <5> QED BY <1>1, <4>2, <5>1, HeldInTurn
      <4> HIDE DEF q
      <4>5. /\ k \in SubRecords /\ k.at = sub[y].at /\ k.from = sub[y].from /\ k.queue = q
            /\ k.sending = sub[y].sending /\ k.got = sub[y].got /\ k.wake
        BY <3>1, <4>4 DEF SubRecords
      <4> HIDE DEF k
      <4>6. sub[y].at = "on" BY <3>3
      <4>7. Policy[y] = "ordered" => OrderedOk(sub[y])' BY <1>1, <3>1, <4>1, <4>3, <4>5, <4>6 DEF SubOk, OrderedOk
      <4>8. Policy[y] = "coalesce" => NewestOk(sub[y])' BY <1>1, <3>1, <4>1, <4>3, <4>5, <4>6 DEF SubOk, NewestOk
      <4> QED BY <4>1, <4>5, <4>6, <4>7, <4>8 DEF SubOk
    <3> QED BY <3>2, <3>3
  <2>3. PeerTypes'
    <3>1. sub' = [y \in Subscribers |-> sub'[y]] BY <2>1
    <3> QED BY <1>1, <2>1, <2>2, <3>1 DEF PeerInv, PeerTypes
  <2>4. StreamsInv' BY <1>1, <2>1 DEF PeerInv, StreamsInv, StreamOk, StreamEnds, Slots, Counted
  <2> QED BY <2>2, <2>3, <2>4 DEF PeerInv
<1> QED BY <1>2, <1>3

-----------------------------------------------------------------------------

(* So every step preserves the invariant.                                  *)
LEMMA PeerStep == PeerInv /\ [ServerPeerNext]_rvars => PeerInv'
<1> SUFFICES ASSUME PeerInv, [ServerPeerNext]_rvars PROVE PeerInv' OBVIOUS
<1>1. ASSUME NEW x \in Pulled, OpenStream(x) PROVE PeerInv' BY <1>1, OpenKeeps
<1>2. ASSUME NEW x \in Pulled, OpenFails(x) \/ Late(x) \/ \E result \in {"source", "failed"} : Factory(x, result)
      PROVE PeerInv'
  BY <1>2, FactoriesKeep
<1>3. ASSUME NEW x \in Pulled, Install(x) PROVE PeerInv' BY <1>3, InstallKeeps
<1>4. ASSUME NEW x \in Pulled,
             FinishStream(x) \/ Next(x) \/ NextReturns(x) \/ Cleaned(x) \/ \E result \in {"chunk", "end"} : Produce(x, result)
      PROVE PeerInv'
  BY <1>4, NextsKeep
<1>5. ASSUME NEW x \in Pulled, ReadTables(x) \/ Cancel(x) \/ CancelEnds(x) PROVE PeerInv' BY <1>5, CancelsKeep
<1>6. ASSUME NEW y \in Subscribers, Subscribe(y) \/ Unsubscribe(y) PROVE PeerInv' BY <1>6, SubscriptionsKeep
<1>7. ASSUME NEW y \in Subscribers, DeliverNext(y) PROVE PeerInv' BY <1>7, DeliveriesKeep
<1>8. ASSUME NEW y \in Subscribers, Acknowledge(y) PROVE PeerInv' BY <1>8, AcknowledgementsKeep
<1>9. CASE PublishEvent BY <1>9, PublishKeeps
<1>10. CASE ClosePeer
  <2>1. published' \in Nat BY <1>10 DEF ClosePeer, PeerInv, PeerTypes
  <2> QED BY <1>10, <2>1, ClosedKeeps DEF ClosePeer
<1>11. CASE UNCHANGED rvars
  BY <1>11 DEF rvars, PeerInv, PeerTypes, StreamsInv, StreamOk, StreamEnds, Slots, Counted, SubOk, OrderedOk, NewestOk
<1> QED BY <1>1, <1>2, <1>3, <1>4, <1>5, <1>6, <1>7, <1>8, <1>9, <1>10, <1>11 DEF ServerPeerNext

(* An ordered subscription gets every event in its order, a coalescing one *)
(* the newest, slots are held exactly as long as a source may live:        *)
(* ServerPeerKept in every reachable state, for any streams, subscriptions *)
(* and events.                                                             *)
THEOREM ServerPeerIsKept == ServerPeerSpec => []ServerPeerKept
<1>1. ServerPeerInit => PeerInv BY PeerStarts
<1>2. PeerInv /\ [ServerPeerNext]_rvars => PeerInv' BY PeerStep
<1>3. PeerInv => ServerPeerKept BY PeerMeans
<1> QED BY <1>1, <1>2, <1>3, PTL DEF ServerPeerSpec

(***************************************************************************)
(* Peer: the client's end of the socket.                                   *)
(***************************************************************************)

(* What travels, and what the variables range over.                        *)
OutFrames ==
  {Frame(op, r) : op \in {"request", "cancel"}, r \in Requested} \cup {Frame("event", e) : e \in Events}
InFrames ==
  {Frame(op, r) : op \in {"ok", "done", "failed"}, r \in Requested} \cup {Frame("end", Open)}
    \cup {Frame("event", e) : e \in Events}
Items(s) == {s[i] : i \in 1..Len(s)}

Answers == {"none", "ok", "done", "failed", "closed"}
PeerRecords == [closed : BOOLEAN, pending : SUBSET Int, registered : BOOLEAN, serving : SUBSET Events]
ReqRecords ==
  [at : {"none", "inserted", "waiting", "done"},
   reply : Answers \cup {"refused", "abandoned", "end", "error"}]
ClientStreams ==
  [at : {"none", "opening", "open", "finished"}, terminal : {"none", "end", "error"}, ended : BOOLEAN]
ServedRecords ==
  [got : SUBSET Requested, has : SUBSET Requested, told : SUBSET Requested, sent : SUBSET Events,
   over : BOOLEAN]

ClientTypes ==
  /\ peer \in PeerRecords /\ req \in [Requested -> ReqRecords]
  /\ stream \in ClientStreams /\ served \in ServedRecords
  /\ out \in Seq(OutFrames) /\ in \in Seq(InFrames)

(* The server has the request, or it is on its way.                        *)
Sent(r) == r \in served.got \/ Frame("request", r) \in Items(out)

(* It was told that nobody waits for it, or will be.                       *)
Informed(r) == r \in served.told \/ Control(r) \in peer.pending \/ Frame("cancel", r) \in Items(out)

(* A request: in the table exactly while it has no answer; sent only after *)
(* that; left behind only with a word to the server.                       *)
AskedOK(r) ==
  /\ req[r].at \in {"inserted", "waiting"} /\ req[r].reply = "none" => r \in peer.pending /\ ~peer.closed
  /\ r \in peer.pending => req[r].at \in {"inserted", "waiting"} /\ req[r].reply = "none"
  /\ req[r].at \in {"inserted", "waiting"} => req[r].reply \in Answers
  /\ req[r].at = "none" => req[r].reply = "none"
  /\ req[r].at \in {"none", "inserted"} \/ req[r].reply = "refused" => ~Sent(r)
  /\ req[r].reply = "closed" => peer.closed
  /\ req[r].reply = "done" => served.over
  /\ req[r].reply = "abandoned" /\ ~peer.closed => Informed(r)
  /\ r \in Nexts /\ req[r].at # "none" => req[Open].at = "done"

(* The stream: it goes with the request that opens it, hears of its end    *)
(* from when it is entered, and knows one only if there is one.            *)
StreamOK ==
  /\ stream.at = "none" <=> req[Open].at = "none"
  /\ stream.at = "opening" <=> req[Open].at \in {"inserted", "waiting"}
  /\ stream.at \in {"opening", "open"} => peer.registered \/ stream.terminal # "none"
  /\ peer.closed => ~peer.registered
  /\ stream.at \in {"opening", "open"} /\ stream.ended => stream.terminal # "none"
  /\ stream.ended => Open \in served.got
  /\ stream.terminal # "none" => served.over \/ peer.closed
  /\ stream.at = "finished" /\ Sent(Open) => served.over \/ peer.closed \/ Informed(Open)

(* What the server has sent it has reason to.                              *)
FrameOK(f) ==
  /\ f.op = "end" => Open \in served.got
  /\ f.op \in {"end", "done"} => served.over

ClientInv ==
  /\ ClientTypes /\ StreamOK
  /\ \A r \in Requested : AskedOK(r)
  /\ \A f \in Items(in) : FrameOK(f)

-----------------------------------------------------------------------------
(* The ids: requests and what tells of them are apart.                     *)
LEMMA Ids ==
  /\ Open \in Requested /\ Nexts \subseteq Requested /\ Invokes \subseteq Requested
  /\ Open \notin Nexts /\ Open \notin Invokes /\ Nexts \cap Invokes = {}
  /\ Requested \subseteq Int
  /\ \A r \in Requested : Control(r) \in Int /\ Control(r) \notin Requested
  /\ \A r, q \in Requested : Control(r) = Control(q) => r = q
<1>1. Requested \subseteq Nat
  <2>1. Requested = Nexts \cup Invokes \cup {Open}  BY DEF Requested
  <2>. QED  BY <2>1, PeerAssumption
<1>2. \A r \in Requested : r \in Nat /\ Control(r) = -1 - r
  BY <1>1 DEF Control
<1>3. \A r \in Requested : Control(r) \in Int /\ Control(r) \notin Requested
  <2>1. \A n \in Nat : -1 - n \notin Nat /\ -1 - n \in Int  OBVIOUS
  <2>. QED  BY <1>1, <1>2, <2>1
<1>4. \A r, q \in Requested : Control(r) = Control(q) => r = q
  <2>1. \A n, m \in Nat : -1 - n = -1 - m => n = m  OBVIOUS
  <2>. QED  BY <1>2, <2>1
<1>5. Requested \subseteq Int  BY <1>1
<1>. QED  BY <1>3, <1>4, <1>5, PeerAssumption DEF Requested

(* Two frames are the same if both parts are.                              *)
LEMMA Frames ==
  ASSUME NEW a, NEW b, NEW c, NEW d
  PROVE  /\ Frame(a, b) = Frame(c, d) => a = c /\ b = d
         /\ Frame(a, b).op = a /\ Frame(a, b).id = b
<1>1. Frame(a, b).op = a /\ Frame(a, b).id = b  BY DEF Frame
<1>2. Frame(c, d).op = c /\ Frame(c, d).id = d  BY DEF Frame
<1>. QED  BY <1>1, <1>2

(* What is in a queue after a step.                                        *)
LEMMA ItemsAppend ==
  ASSUME NEW S, NEW s \in Seq(S), NEW e \in S
  PROVE  Append(s, e) \in Seq(S) /\ Items(Append(s, e)) = Items(s) \cup {e}
<1>1. /\ Append(s, e) \in Seq(S) /\ Len(s) \in Nat /\ Len(Append(s, e)) = Len(s) + 1
      /\ \A i \in 1..Len(s) : Append(s, e)[i] = s[i]
      /\ Append(s, e)[Len(s) + 1] = e
  BY AppendProperties
<1>2. 1..Len(Append(s, e)) = 1..Len(s) \cup {Len(s) + 1}  BY <1>1
<1>. QED  BY <1>1, <1>2 DEF Items

LEMMA ItemsTail ==
  ASSUME NEW S, NEW s \in Seq(S), s # <<>>
  PROVE  /\ Tail(s) \in Seq(S) /\ Head(s) \in S /\ Head(s) \in Items(s)
         /\ Items(s) = Items(Tail(s)) \cup {Head(s)}
<1>1. /\ Tail(s) \in Seq(S) /\ Head(s) \in S /\ Head(s) = s[1] /\ Len(s) \in Nat /\ Len(s) > 0
      /\ Len(Tail(s)) = Len(s) - 1
      /\ \A i \in 1..Len(Tail(s)) : Tail(s)[i] = s[i + 1]
  BY HeadTailProperties
<1>2. \A i \in 1..Len(s) : i = 1 \/ (i - 1 \in 1..Len(Tail(s)) /\ Tail(s)[i - 1] = s[i])
  <2>. SUFFICES ASSUME NEW i \in 1..Len(s), i # 1
       PROVE  i - 1 \in 1..Len(Tail(s)) /\ Tail(s)[i - 1] = s[i]
    OBVIOUS
  <2>1. i - 1 \in 1..Len(Tail(s)) /\ (i - 1) + 1 = i  BY <1>1
  <2>. QED  BY <1>1, <2>1
<1>3. \A i \in 1..Len(Tail(s)) : i + 1 \in 1..Len(s) /\ Tail(s)[i] = s[i + 1]  BY <1>1
<1>4. 1 \in 1..Len(s)  BY <1>1
<1>5. Items(Tail(s)) \subseteq Items(s)  BY <1>3 DEF Items
<1>6. Head(s) \in Items(s)  BY <1>1, <1>4 DEF Items
<1>7. \A x \in Items(s) : x = Head(s) \/ x \in Items(Tail(s))
  BY <1>1, <1>2 DEF Items
<1>. QED  BY <1>1, <1>5, <1>6, <1>7

LEMMA ItemsEmpty == ASSUME NEW S PROVE <<>> \in Seq(S) /\ Items(<<>>) = {}
<1>1. Len(<<>>) = 0  OBVIOUS
<1>2. 1..0 = {}  OBVIOUS
<1>. QED  BY <1>1, <1>2 DEF Items

(* It holds at first.                                                      *)
LEMMA ClientStarts ==
  ASSUME PeerInit
  PROVE  ClientInv
<1>1. out = <<>> /\ in = <<>> /\ Items(out) = {} /\ Items(in) = {}
  BY ItemsEmpty DEF PeerInit
<1>2. /\ peer = [closed |-> FALSE, pending |-> {}, registered |-> FALSE, serving |-> {}]
      /\ stream = [at |-> "none", terminal |-> "none", ended |-> FALSE]
      /\ served = [got |-> {}, has |-> {}, told |-> {}, sent |-> {}, over |-> FALSE]
      /\ req = [r \in Requested |-> [at |-> "none", reply |-> "none"]]
  BY DEF PeerInit
<1>3. peer \in PeerRecords /\ stream \in ClientStreams /\ served \in ServedRecords
  BY <1>2 DEF PeerRecords, ClientStreams, ServedRecords
<1>4. [at |-> "none", reply |-> "none"] \in ReqRecords  BY DEF ReqRecords, Answers
<1>5. ClientTypes  BY <1>1, <1>2, <1>3, <1>4, ItemsEmpty DEF ClientTypes
<1>6. StreamOK  BY <1>1, <1>2, Ids DEF StreamOK, Sent
<1>7. \A r \in Requested : AskedOK(r)
  BY <1>1, <1>2 DEF AskedOK, Sent, Answers
<1>. QED  BY <1>1, <1>5, <1>6, <1>7 DEF ClientInv

(* What is known of the variables.                                         *)
LEMMA Known ==
  ASSUME ClientInv
  PROVE  /\ peer \in PeerRecords /\ req \in [Requested -> ReqRecords]
         /\ stream \in ClientStreams /\ served \in ServedRecords
         /\ out \in Seq(OutFrames) /\ in \in Seq(InFrames)
         /\ peer.closed \in BOOLEAN /\ peer.pending \subseteq Int /\ peer.registered \in BOOLEAN
         /\ stream.at \in {"none", "opening", "open", "finished"}
         /\ stream.terminal \in {"none", "end", "error"} /\ stream.ended \in BOOLEAN
         /\ served.over \in BOOLEAN /\ served.got \subseteq Requested /\ served.has \subseteq Requested
         /\ served.told \subseteq Requested /\ StreamOK
         /\ \A r \in Requested : AskedOK(r) /\ req[r] \in ReqRecords
         /\ \A r \in Requested : req[r].at \in {"none", "inserted", "waiting", "done"}
<1>1. ClientTypes  BY DEF ClientInv
<1>2. /\ peer.closed \in BOOLEAN /\ peer.pending \subseteq Int /\ peer.registered \in BOOLEAN
  BY <1>1 DEF ClientTypes, PeerRecords
<1>3. /\ stream.at \in {"none", "opening", "open", "finished"}
      /\ stream.terminal \in {"none", "end", "error"} /\ stream.ended \in BOOLEAN
  BY <1>1 DEF ClientTypes, ClientStreams
<1>4. /\ served.over \in BOOLEAN /\ served.got \subseteq Requested /\ served.has \subseteq Requested
      /\ served.told \subseteq Requested
  BY <1>1 DEF ClientTypes, ServedRecords
<1>5. /\ \A r \in Requested : AskedOK(r) /\ req[r] \in ReqRecords
      /\ \A r \in Requested : req[r].at \in {"none", "inserted", "waiting", "done"}
  BY <1>1 DEF ClientInv, ClientTypes, ReqRecords
<1>. QED  BY <1>1, <1>2, <1>3, <1>4, <1>5 DEF ClientInv, ClientTypes

(* A request a step does not touch.                                        *)
LEMMA AskedStays ==
  ASSUME NEW r \in Requested, AskedOK(r), req'[r] = req[r],
         r \in peer'.pending <=> r \in peer.pending,
         peer'.closed = peer.closed,
         served.over => served'.over,
         Sent(r)' => Sent(r),
         Informed(r) => Informed(r)' \/ peer.closed,
         req[Open].at = "done" => req'[Open].at = "done"
  PROVE  AskedOK(r)'
<1>1. Sent(r)' = Sent(r)' /\ Informed(r)' \in BOOLEAN /\ Sent(r) \in BOOLEAN /\ Sent(r)' \in BOOLEAN
  BY DEF Sent, Informed
<1>. QED  BY <1>1 DEF AskedOK

(* The connection closes, whatever step does it: everybody has an answer.  *)
LEMMA CloseKeeps ==
  ASSUME ClientInv, CloseWith, in' \in Seq(InFrames), Items(in') \subseteq Items(in), served' = served
  PROVE  ClientInv'
<1>1. /\ peer' = [closed |-> TRUE, pending |-> {}, registered |-> FALSE, serving |-> {}]
      /\ req' = [r \in Requested |-> IF r \in peer.pending THEN [req[r] EXCEPT !.reply = "closed"] ELSE req[r]]
      /\ stream' = IF peer.registered THEN [stream EXCEPT !.terminal = "error"] ELSE stream
      /\ out' = <<>>
  BY DEF CloseWith, AnswerAll
<1>2. peer'.closed /\ peer'.pending = {} /\ ~peer'.registered /\ peer' \in PeerRecords
  BY <1>1 DEF PeerRecords
<1>3. ASSUME NEW r \in Requested
      PROVE  /\ req'[r] \in ReqRecords /\ req'[r].at = req[r].at
             /\ req'[r].reply = IF r \in peer.pending THEN "closed" ELSE req[r].reply
  <2>1. req[r] \in ReqRecords  BY Known
  <2>2. CASE r \in peer.pending
    <3>1. req'[r] = [req[r] EXCEPT !.reply = "closed"]  BY <1>1, <2>2
    <3>2. [req[r] EXCEPT !.reply = "closed"] \in ReqRecords  BY <2>1 DEF ReqRecords, Answers
    <3>3. req'[r].at = req[r].at /\ req'[r].reply = "closed"  BY <2>1, <3>1 DEF ReqRecords
    <3>. QED  BY <2>2, <3>1, <3>2, <3>3
  <2>3. CASE r \notin peer.pending  BY <1>1, <2>1, <2>3
  <2>. QED  BY <2>2, <2>3
<1>4. /\ stream' \in ClientStreams /\ stream'.at = stream.at /\ stream'.ended = stream.ended
      /\ stream'.terminal = IF peer.registered THEN "error" ELSE stream.terminal
  <2>1. stream \in ClientStreams /\ peer.registered \in BOOLEAN  BY Known
  <2>2. CASE peer.registered
    <3>1. stream' = [stream EXCEPT !.terminal = "error"]  BY <1>1, <2>2
    <3>2. [stream EXCEPT !.terminal = "error"] \in ClientStreams  BY <2>1 DEF ClientStreams
    <3>. QED  BY <2>1, <2>2, <3>1, <3>2 DEF ClientStreams
  <2>3. CASE ~peer.registered  BY <1>1, <2>1, <2>3
  <2>. QED  BY <2>1, <2>2, <2>3
<1>5. out' \in Seq(OutFrames) /\ Items(out') = {}  BY <1>1, ItemsEmpty
<1>6. ClientTypes'
  <2>1. req' \in [Requested -> ReqRecords]  BY <1>1, <1>3
  <2>. QED  BY <1>2, <1>4, <1>5, <2>1, Known DEF ClientTypes
<1>7. ASSUME NEW r \in Requested PROVE AskedOK(r)'
  <2>1. AskedOK(r) /\ req'[Open].at = req[Open].at  BY <1>3, Known, Ids
  <2>2. Sent(r)' => Sent(r)  BY <1>5 DEF Sent
  <2>. QED  BY <1>2, <1>3, <2>1, <2>2 DEF AskedOK, Answers
<1>8. StreamOK'
  <2>1. req'[Open].at = req[Open].at /\ StreamOK  BY <1>3, Known, Ids
  <2>. QED  BY <1>2, <1>4, <2>1 DEF StreamOK
<1>9. \A f \in Items(in') : FrameOK(f)'
  BY DEF ClientInv, FrameOK
<1>. QED  BY <1>6, <1>7, <1>8, <1>9 DEF ClientInv

(* What the fields of a call and of the stream are after a step.           *)
LEMMA AnswerStep ==
  ASSUME NEW x \in ReqRecords, NEW a \in {"none", "inserted", "waiting", "done"}, NEW y,
         y = [x EXCEPT !.at = a]
  PROVE  y \in ReqRecords /\ y.at = a /\ y.reply = x.reply
<1>1. [x EXCEPT !.at = a] \in ReqRecords  BY DEF ReqRecords
<1>. QED  BY <1>1 DEF ReqRecords

LEMMA StreamStep ==
  ASSUME stream \in ClientStreams, NEW a \in {"none", "opening", "open", "finished"}, NEW y,
         y = [stream EXCEPT !.at = a]
  PROVE  y \in ClientStreams /\ y.at = a /\ y.terminal = stream.terminal /\ y.ended = stream.ended
<1>1. [stream EXCEPT !.at = a] \in ClientStreams  BY DEF ClientStreams
<1>. QED  BY <1>1 DEF ClientStreams

(* A request is refused: it was never sent.                                *)
LEMMA InsertKeeps ==
  ASSUME ClientInv, NEW r \in Requested, Insert(r)
  PROVE  ClientInv'
<1>1. /\ req[r].at = "none" /\ (r \in Nexts => stream.at = "open")
      /\ UNCHANGED <<event, out, in, served>>
  BY DEF Insert
<1>2. /\ AskedOK(r) /\ ~Sent(r) /\ req[r].reply = "none" /\ r \notin peer.pending
      /\ r = Open => stream.at = "none"
      /\ r \in Nexts => req[Open].at = "done" /\ r # Open
  <2>1. AskedOK(r) /\ StreamOK /\ req[Open].at \in {"none", "inserted", "waiting", "done"}
    BY Known, Ids
  <2>2. ~Sent(r) /\ req[r].reply = "none" /\ r \notin peer.pending
    BY <1>1, <2>1 DEF AskedOK
  <2>3. r \in Nexts => req[Open].at = "done" /\ r # Open  BY <1>1, <2>1, Ids DEF StreamOK
  <2>. QED  BY <1>1, <2>1, <2>2, <2>3 DEF StreamOK
<1>3. \A q \in Requested : (Sent(q)' <=> Sent(q))
  BY <1>1 DEF Sent
<1>4. \A f \in Items(in') : FrameOK(f)'  BY <1>1 DEF ClientInv, FrameOK
<1>5. CASE peer.closed \/ Cardinality(peer.pending) >= Limit
  <2>1. /\ req' = [req EXCEPT ![r] = [at |-> "done", reply |-> "refused"]] /\ peer' = peer
        /\ stream' = IF r = Open THEN [stream EXCEPT !.at = "finished"] ELSE stream
    BY <1>5 DEF Insert
  <2>2. [at |-> "done", reply |-> "refused"] \in ReqRecords  BY DEF ReqRecords
  <2>3. /\ req' \in [Requested -> ReqRecords] /\ req'[r].at = "done" /\ req'[r].reply = "refused"
        /\ \A q \in Requested : q # r => req'[q] = req[q]
    BY <2>1, <2>2, Known
  <2>4. /\ stream' \in ClientStreams /\ stream'.terminal = stream.terminal /\ stream'.ended = stream.ended
        /\ stream'.at = IF r = Open THEN "finished" ELSE stream.at
    BY <2>1, Known, StreamStep
  <2>5. ClientTypes'  BY <1>1, <2>1, <2>3, <2>4, Known DEF ClientTypes
  <2>6. AskedOK(r)'
    BY <1>1, <1>2, <1>3, <2>1, <2>3 DEF AskedOK
  <2>7. ASSUME NEW q \in Requested, q # r PROVE AskedOK(q)'
    <3>1. AskedOK(q) /\ req'[q] = req[q] /\ peer' = peer /\ (req[Open].at = "done" => req'[Open].at = "done")
      BY <2>1, <2>3, <2>7, Known, Ids
    <3>2. Informed(q) => Informed(q)'  BY <1>1, <2>1 DEF Informed
    <3>. QED  BY <1>1, <1>3, <3>1, <3>2, AskedStays
  <2>8. StreamOK'
    <3>1. StreamOK  BY Known
    <3>2. Informed(Open)' <=> Informed(Open)  BY <1>1, <2>1 DEF Informed
    <3>3. CASE r = Open
      <4>1. ~Sent(Open)'  BY <1>2, <1>3, <3>3, Ids
      <4>2. stream'.at = "finished" /\ req'[Open].at = "done"  BY <2>3, <2>4, <3>3
      <4>. QED  BY <1>1, <2>1, <2>4, <3>1, <4>1, <4>2 DEF StreamOK
    <3>4. CASE r # Open
      <4>1. req'[Open] = req[Open] /\ stream'.at = stream.at  BY <2>3, <2>4, <3>4, Ids
      <4>2. Sent(Open)' <=> Sent(Open)  BY <1>3, Ids
      <4>. QED  BY <1>1, <2>1, <2>4, <3>1, <3>2, <4>1, <4>2 DEF StreamOK
    <3>. QED  BY <3>3, <3>4
  <2>. QED  BY <1>4, <2>5, <2>6, <2>7, <2>8 DEF ClientInv
<1>6. CASE ~(peer.closed \/ Cardinality(peer.pending) >= Limit)
  <2>1. /\ req' = [req EXCEPT ![r].at = "inserted"]
        /\ peer' = [peer EXCEPT !.pending = @ \cup {r}, !.registered = IF r = Open THEN TRUE ELSE @]
        /\ stream' = IF r = Open THEN [stream EXCEPT !.at = "opening"] ELSE stream
    BY <1>6 DEF Insert, Registered
  <2>2. PICK x : x = [req[r] EXCEPT !.at = "inserted"]  OBVIOUS
  <2>3. x \in ReqRecords /\ x.at = "inserted" /\ x.reply = "none"
    BY <1>2, <2>2, Known, AnswerStep
  <2>4. /\ req' \in [Requested -> ReqRecords] /\ req'[r] = x
        /\ \A q \in Requested : q # r => req'[q] = req[q]
    BY <2>1, <2>2, <2>3, Known
  <2>5. PICK b \in BOOLEAN : b = IF r = Open THEN TRUE ELSE peer.registered
    BY Known
  <2>6. /\ peer' \in PeerRecords /\ peer'.pending = peer.pending \cup {r} /\ peer'.registered = b
        /\ peer'.closed = peer.closed
    <3>1. PICK p : p = peer.pending \cup {r}  OBVIOUS
    <3>2. peer' = [peer EXCEPT !.pending = p, !.registered = b]  BY <2>1, <2>5, <3>1
    <3>3. p \in SUBSET Int /\ peer \in PeerRecords  BY <3>1, Known, Ids
    <3>4. /\ peer' \in PeerRecords /\ peer'.pending = p /\ peer'.registered = b
          /\ peer'.closed = peer.closed
      <4>1. [peer EXCEPT !.pending = p, !.registered = b] \in PeerRecords  BY <3>3 DEF PeerRecords
      <4>. QED  BY <3>2, <3>3, <4>1 DEF PeerRecords
    <3>. QED  BY <3>1, <3>4
  <2>7. /\ stream' \in ClientStreams /\ stream'.terminal = stream.terminal /\ stream'.ended = stream.ended
        /\ stream'.at = IF r = Open THEN "opening" ELSE stream.at
    BY <2>1, Known, StreamStep
  <2>8. ClientTypes'  BY <1>1, <2>4, <2>6, <2>7, Known DEF ClientTypes
  <2>9. AskedOK(r)'
    <3>1. ~Sent(r)' /\ ~peer'.closed /\ r \in peer'.pending /\ req'[r].at = "inserted" /\ req'[r].reply = "none"
      BY <1>2, <1>3, <1>6, <2>3, <2>4, <2>6
    <3>2. r \in Nexts => req'[Open].at = "done"  BY <1>2, <2>4, Ids
    <3>. QED  BY <3>1, <3>2 DEF AskedOK, Answers
  <2>10. ASSUME NEW q \in Requested, q # r PROVE AskedOK(q)'
    <3>1. /\ AskedOK(q) /\ req'[q] = req[q] /\ (req[Open].at = "done" => req'[Open].at = "done")
          /\ (q \in peer'.pending <=> q \in peer.pending) /\ peer'.closed = peer.closed
      BY <1>1, <2>4, <2>6, <2>10, Known, Ids
    <3>2. Informed(q) => Informed(q)'  BY <1>1, <2>6 DEF Informed
    <3>. QED  BY <1>1, <1>3, <3>1, <3>2, AskedStays
  <2>11. StreamOK'
    <3>1. StreamOK  BY Known
    <3>2. Informed(Open) => Informed(Open)'  BY <1>1, <2>6 DEF Informed
    <3>3. CASE r = Open
      <4>1. stream'.at = "opening" /\ req'[Open].at = "inserted" /\ peer'.registered /\ ~peer'.closed
        BY <1>6, <2>3, <2>4, <2>5, <2>6, <2>7, <3>3
      <4>2. ~stream'.ended
        <5>1. Open \notin served.got  BY <1>2, <3>3 DEF Sent
        <5>. QED  BY <2>7, <3>1, <5>1 DEF StreamOK
      <4>3. stream'.terminal # "none" => served'.over
        BY <1>1, <1>6, <2>7, <3>1 DEF StreamOK
      <4>. QED  BY <4>1, <4>2, <4>3 DEF StreamOK
    <3>4. CASE r # Open
      <4>1. req'[Open] = req[Open] /\ stream'.at = stream.at /\ peer'.registered = peer.registered
        BY <2>4, <2>5, <2>6, <2>7, <3>4, Ids
      <4>2. Sent(Open)' <=> Sent(Open)  BY <1>3, Ids
      <4>. QED  BY <1>1, <2>6, <2>7, <3>1, <3>2, <4>1, <4>2 DEF StreamOK
    <3>. QED  BY <3>3, <3>4
  <2>. QED  BY <1>4, <2>8, <2>9, <2>10, <2>11 DEF ClientInv
<1>. QED  BY <1>5, <1>6

(* What the server is still owed in a step that sends and receives         *)
(* nothing: what was on its way is.                                        *)
LEMMA SentSame ==
  ASSUME UNCHANGED <<out, served>>, NEW r
  PROVE  Sent(r)' <=> Sent(r)
BY DEF Sent

(* A call returns, or its stream is left: it is taken out of the table and *)
(* the server is told, where it has to be.                                 *)
LEMMA LeaveKeeps ==
  ASSUME ClientInv, NEW r \in Requested, NEW x \in ReqRecords, x.at = "done",
         req' = [req EXCEPT ![r] = x],
         NEW C \in SUBSET {Control(q) : q \in Requested},
         peer' \in PeerRecords, peer'.pending = (peer.pending \ {r}) \cup C,
         peer'.closed = peer.closed, peer'.registered => peer.registered,
         stream' \in ClientStreams, stream'.terminal = stream.terminal, stream'.ended = stream.ended,
         UNCHANGED <<out, in, served>>,
         x # req[r] =>
           /\ x.reply \notin {"none", "refused"}
           /\ x.reply = "closed" => peer.closed
           /\ x.reply = "done" => served.over
           /\ x.reply = "abandoned" => peer.closed \/ Control(r) \in C,
         r \in Nexts => req[Open].at = "done",
         r = Open => stream'.at \in {"open", "finished"},
         r # Open => stream'.at = stream.at \/ (stream.at = "open" /\ stream'.at = "finished"),
         stream'.at \in {"opening", "open"} =>
           stream.at \in {"opening", "open"} /\ peer'.registered = peer.registered,
         stream'.at = "finished" =>
           stream.at = "finished" \/ peer.closed \/ served.over \/ Control(Open) \in C
  PROVE  ClientInv'
<1>1. /\ \A q \in Requested : Control(q) \notin Requested
      /\ \A q \in Requested : (Sent(q)' <=> Sent(q))
  BY Ids, SentSame
<1>2. /\ req' \in [Requested -> ReqRecords] /\ req'[r] = x
      /\ \A q \in Requested : q # r => req'[q] = req[q]
  BY Known
<1>3. /\ r \notin peer'.pending
      /\ \A q \in Requested : q # r => (q \in peer'.pending <=> q \in peer.pending)
      /\ \A q \in Requested : Control(q) \in peer.pending \/ Control(q) \in C <=> Control(q) \in peer'.pending
  BY <1>1
<1>4. \A q \in Requested : Informed(q) => Informed(q)'
  BY <1>3 DEF Informed
<1>5. ClientTypes'  BY <1>2, Known DEF ClientTypes
<1>6. AskedOK(r)'
  <2>1. AskedOK(r)  BY Known
  <2>2. CASE x = req[r]
    <3>1. r \notin peer.pending  BY <2>1, <2>2 DEF AskedOK
    <3>2. req'[r] = req[r] /\ (req[Open].at = "done" => req'[Open].at = "done")
      BY <1>2, <2>2, Ids
    <3>. QED  BY <1>1, <1>3, <1>4, <2>1, <3>1, <3>2, AskedStays
  <2>3. CASE x # req[r]
    <3>1. x.reply = "abandoned" /\ ~peer.closed => Informed(r)'  BY <1>3, <2>3 DEF Informed
    <3>2. r \in Nexts => req'[Open].at = "done"  BY <1>2, Ids
    <3>3. req'[r].at = "done" /\ req'[r].reply = x.reply  BY <1>2
    <3>4. x.reply = "closed" => peer'.closed  BY <2>3
    <3>5. x.reply = "done" => served'.over  BY <2>3
    <3>. QED  BY <1>3, <2>3, <3>1, <3>2, <3>3, <3>4, <3>5 DEF AskedOK
  <2>. QED  BY <2>2, <2>3
<1>7. ASSUME NEW q \in Requested, q # r PROVE AskedOK(q)'
  <2>1. /\ AskedOK(q) /\ req'[q] = req[q] /\ (req[Open].at = "done" => req'[Open].at = "done")
        /\ (q \in peer'.pending <=> q \in peer.pending)
    BY <1>2, <1>3, <1>7, Known, Ids
  <2>. QED  BY <1>1, <1>4, <2>1, AskedStays
<1>8. StreamOK'
  <2>1. StreamOK /\ stream.at \in {"none", "opening", "open", "finished"} /\ Open \in Requested
    BY Known, Ids
  <2>2. Informed(Open) => Informed(Open)'  BY <1>4, <2>1
  <2>3. Control(Open) \in C => Informed(Open)'  BY <1>3, <2>1 DEF Informed
  <2>4. /\ stream'.at = "none" <=> req'[Open].at = "none"
        /\ stream'.at = "opening" <=> req'[Open].at \in {"inserted", "waiting"}
    <3>1. CASE r = Open  BY <1>2, <3>1
    <3>2. CASE r # Open
      <4>1. req'[Open] = req[Open]  BY <1>2, <2>1, <3>2
      <4>. QED  BY <2>1, <3>2, <4>1 DEF StreamOK
    <3>. QED  BY <3>1, <3>2
  <2>5. /\ stream'.at \in {"opening", "open"} => peer'.registered \/ stream'.terminal # "none"
        /\ peer'.closed => ~peer'.registered
        /\ stream'.at \in {"opening", "open"} /\ stream'.ended => stream'.terminal # "none"
        /\ stream'.ended => Open \in served'.got
        /\ stream'.terminal # "none" => served'.over \/ peer'.closed
    BY <2>1 DEF StreamOK
  <2>6. stream'.at = "finished" /\ Sent(Open)' => served'.over \/ peer'.closed \/ Informed(Open)'
    BY <1>1, <2>1, <2>2, <2>3 DEF StreamOK
  <2>. QED  BY <2>4, <2>5, <2>6 DEF StreamOK
<1>9. \A f \in Items(in') : FrameOK(f)'  BY DEF ClientInv, FrameOK
<1>. QED  BY <1>5, <1>6, <1>7, <1>8, <1>9 DEF ClientInv

(* The frame of a request is put in the queue, or closes the connection.   *)
LEMMA WriteKeeps ==
  ASSUME ClientInv, NEW r \in Requested, Write(r)
  PROVE  ClientInv'
<1>1. req[r].at = "inserted" /\ ~peer.closed /\ in' = in /\ served' = served
  BY DEF Write
<1>2. CASE ~Fits
  BY <1>1, <1>2, Known, CloseKeeps DEF Write
<1>3. CASE Fits
  <2>1. /\ out' = Append(out, Frame("request", r)) /\ req' = [req EXCEPT ![r].at = "waiting"]
        /\ peer' = peer /\ stream' = stream
    BY <1>3 DEF Write
  <2>2. PICK x : x = [req[r] EXCEPT !.at = "waiting"]  OBVIOUS
  <2>3. x \in ReqRecords /\ x.at = "waiting" /\ x.reply = req[r].reply
    BY <2>2, Known, AnswerStep
  <2>4. /\ req' \in [Requested -> ReqRecords] /\ req'[r] = x
        /\ \A q \in Requested : q # r => req'[q] = req[q]
    BY <2>1, <2>2, <2>3, Known
  <2>5. Frame("request", r) \in OutFrames  BY DEF OutFrames
  <2>6. out' \in Seq(OutFrames) /\ Items(out') = Items(out) \cup {Frame("request", r)}
    BY <2>1, <2>5, Known, ItemsAppend
  <2>7. ClientTypes'  BY <1>1, <2>1, <2>4, <2>6, Known DEF ClientTypes
  <2>8. \A q \in Requested : (Informed(q) => Informed(q)') /\ (q # r => (Sent(q)' => Sent(q)))
    BY <1>1, <2>1, <2>6, Frames DEF Informed, Sent
  <2>9. AskedOK(r)'
    <3>1. AskedOK(r)  BY Known
    <3>2. req'[r].at = "waiting" /\ req'[r].reply = req[r].reply  BY <2>3, <2>4
    <3>3. r \in Nexts => req'[Open].at = "done"
      BY <1>1, <2>4, <3>1, Ids DEF AskedOK
    <3>4. /\ req[r].reply \in Answers
          /\ req[r].reply = "none" <=> r \in peer.pending
          /\ req[r].reply # "closed"
          /\ req[r].reply = "done" => served.over
      BY <1>1, <3>1 DEF AskedOK
    <3>. QED  BY <1>1, <2>1, <3>2, <3>3, <3>4 DEF AskedOK, Answers
  <2>10. ASSUME NEW q \in Requested, q # r PROVE AskedOK(q)'
    <3>1. AskedOK(q) /\ req'[q] = req[q] /\ (req[Open].at = "done" => req'[Open].at = "done")
      BY <1>1, <2>4, <2>10, Known, Ids
    <3>. QED  BY <1>1, <2>1, <2>8, <2>10, <3>1, AskedStays
  <2>11. StreamOK'
    <3>1. StreamOK /\ Open \in Requested  BY Known, Ids
    <3>2. CASE r = Open
      <4>1. stream.at = "opening" /\ req'[Open].at = "waiting"
        BY <1>1, <2>3, <2>4, <3>1, <3>2 DEF StreamOK
      <4>. QED  BY <1>1, <2>1, <3>1, <4>1 DEF StreamOK
    <3>3. CASE r # Open
      <4>1. req'[Open] = req[Open] /\ (Sent(Open)' => Sent(Open)) /\ (Informed(Open) => Informed(Open)')
        BY <2>4, <2>8, <3>1, <3>3
      <4>. QED  BY <1>1, <2>1, <3>1, <4>1 DEF StreamOK
    <3>. QED  BY <3>2, <3>3
  <2>12. \A f \in Items(in') : FrameOK(f)'  BY <1>1 DEF ClientInv, FrameOK
  <2>. QED  BY <2>7, <2>9, <2>10, <2>11, <2>12 DEF ClientInv
<1>. QED  BY <1>2, <1>3

(* The call is given up: the server is told of it and of its stream.       *)
LEMMA GiveUpKeeps ==
  ASSUME ClientInv, NEW r \in Requested, GiveUp(r)
  PROVE  ClientInv'
<1>1. /\ req[r].at \in {"inserted", "waiting"} /\ (req[r].at = "inserted" => peer.closed)
      /\ UNCHANGED <<event, out, in, served>>
      /\ req' = [req EXCEPT ![r] = [at |-> "done", reply |-> "abandoned"]]
  BY DEF GiveUp
<1>2. PICK x : x = [at |-> "done", reply |-> "abandoned"]  OBVIOUS
<1>3. x \in ReqRecords /\ x.at = "done" /\ x.reply = "abandoned"  BY <1>2 DEF ReqRecords
<1>4. r \in Nexts => req[Open].at = "done"  BY <1>1, Known DEF AskedOK
<1>5. StreamOK /\ Open \in Requested /\ req[Open].at \in {"none", "inserted", "waiting", "done"}
      /\ stream.at \in {"none", "opening", "open", "finished"}
  BY Known, Ids
<1>6. PICK C : C = IF r \in Invokes THEN Tells(r) ELSE Tells(r) \cup ToldStream  OBVIOUS
<1>7. /\ C \in SUBSET {Control(q) : q \in Requested}
      /\ peer.closed \/ Control(r) \in C
      /\ r \notin Invokes => stream.at = "finished" \/ peer.closed \/ Control(Open) \in C
  BY <1>5, <1>6 DEF Tells, ToldStream
<1>8. PICK p : p = (peer.pending \ {r}) \cup C  OBVIOUS
<1>9. p \in SUBSET Int  BY <1>7, <1>8, Known, Ids
<1>10. CASE r \in Invokes
  <2>1. peer' = [peer EXCEPT !.pending = (@ \ {r}) \cup Tells(r)] /\ stream' = stream
    BY <1>10 DEF GiveUp
  <2>2. peer' = [peer EXCEPT !.pending = p]
    BY <1>6, <1>8, <1>10, <2>1
  <2>3. peer' \in PeerRecords /\ peer'.pending = p /\ peer'.registered = peer.registered /\ peer'.closed = peer.closed
    <3>1. peer \in PeerRecords  BY Known
    <3>2. [peer EXCEPT !.pending = p] \in PeerRecords  BY <1>9, <3>1 DEF PeerRecords
    <3>. QED  BY <2>2, <3>1, <3>2 DEF PeerRecords
  <2>4. stream' \in ClientStreams /\ r # Open /\ r \notin Nexts /\ stream'.at = stream.at
    BY <1>10, <2>1, Known, Ids
  <2>. QED  BY <1>1, <1>2, <1>3, <1>4, <1>7, <1>8, <2>1, <2>3, <2>4, LeaveKeeps
<1>11. CASE r \notin Invokes
  <2>1. /\ peer' = [peer EXCEPT !.pending = (@ \ {r}) \cup Tells(r) \cup ToldStream, !.registered = FALSE]
        /\ stream' = [stream EXCEPT !.at = "finished"]
    BY <1>11 DEF GiveUp
  <2>2. peer' = [peer EXCEPT !.pending = p, !.registered = FALSE]
    <3>1. p = (peer.pending \ {r}) \cup Tells(r) \cup ToldStream  BY <1>6, <1>8, <1>11
    <3>. QED  BY <2>1, <3>1
  <2>3. peer' \in PeerRecords /\ peer'.pending = p /\ ~peer'.registered /\ peer'.closed = peer.closed
    <3>1. peer \in PeerRecords  BY Known
    <3>2. [peer EXCEPT !.pending = p, !.registered = FALSE] \in PeerRecords
      BY <1>9, <3>1 DEF PeerRecords
    <3>. QED  BY <2>2, <3>1, <3>2 DEF PeerRecords
  <2>4. /\ stream' \in ClientStreams /\ stream'.at = "finished"
        /\ stream'.terminal = stream.terminal /\ stream'.ended = stream.ended
    BY <2>1, Known, StreamStep
  <2>5. r # Open => stream.at \in {"open", "finished"}
    <3>1. r # Open => r \in Nexts  BY <1>11 DEF Requested
    <3>. QED  BY <1>4, <1>5, <3>1 DEF StreamOK
  <2>6. stream'.at = "finished" =>
          stream.at = "finished" \/ peer.closed \/ served.over \/ Control(Open) \in C
    BY <1>7, <1>11
  <2>. QED  BY <1>1, <1>2, <1>3, <1>4, <1>7, <1>8, <2>3, <2>4, <2>5, <2>6, LeaveKeeps
<1>. QED  BY <1>10, <1>11

(* A read finds that the stream is over.                                   *)
LEMMA EndReadKeeps ==
  ASSUME ClientInv, NEW n \in Requested, EndRead(n)
  PROVE  ClientInv'
<1>1. /\ n \in Nexts /\ stream.at = "open" /\ stream.terminal # "none"
      /\ UNCHANGED <<event, out, in, served>>
      /\ stream' = [stream EXCEPT !.at = "finished"]
  BY DEF EndRead
<1>2. PICK x : x = [at |-> "done", reply |-> stream.terminal]  OBVIOUS
<1>3. /\ x \in ReqRecords /\ x.at = "done" /\ x.reply \in {"end", "error"}
      /\ req' = [req EXCEPT ![n] = x]
  <2>1. stream.terminal \in {"end", "error"}  BY <1>1, Known
  <2>2. x.at = "done" /\ x.reply = stream.terminal  BY <1>2
  <2>3. [at |-> "done", reply |-> stream.terminal] \in ReqRecords  BY <2>1 DEF ReqRecords
  <2>. QED  BY <1>2, <2>1, <2>2, <2>3 DEF EndRead
<1>4. PICK C : C = IF req[n].at # "none" THEN {Control(n)} ELSE {}  OBVIOUS
<1>5. C \in SUBSET {Control(q) : q \in Requested}  BY <1>4
<1>6. PICK p : p = (peer.pending \ {n}) \cup C  OBVIOUS
<1>7. peer' \in PeerRecords /\ peer'.pending = p /\ peer'.registered = peer.registered /\ peer'.closed = peer.closed
  <2>1. peer' = [peer EXCEPT !.pending = p]  BY <1>4, <1>6 DEF EndRead
  <2>2. peer \in PeerRecords /\ p \in SUBSET Int  BY <1>5, <1>6, Known, Ids
  <2>3. [peer EXCEPT !.pending = p] \in PeerRecords  BY <2>2 DEF PeerRecords
  <2>. QED  BY <2>1, <2>2, <2>3 DEF PeerRecords
<1>8. /\ stream' \in ClientStreams /\ stream'.at = "finished"
      /\ stream'.terminal = stream.terminal /\ stream'.ended = stream.ended
  BY <1>1, Known, StreamStep
<1>9. req[Open].at = "done" /\ n # Open /\ (served.over \/ peer.closed)
  <2>1. StreamOK /\ req[Open].at \in {"none", "inserted", "waiting", "done"}  BY Known, Ids
  <2>. QED  BY <1>1, <2>1, Ids DEF StreamOK
<1>10. /\ x.reply \notin {"none", "refused"} /\ x.reply # "closed" /\ x.reply # "done"
       /\ x.reply # "abandoned"
  BY <1>3
<1>. QED  BY <1>1, <1>3, <1>5, <1>6, <1>7, <1>8, <1>9, <1>10, LeaveKeeps

(* The stream is dropped between two reads.                                *)
LEMMA DropStreamKeeps ==
  ASSUME ClientInv, DropStream
  PROVE  ClientInv'
<1>1. /\ stream.at = "open" /\ UNCHANGED <<req, event, out, in, served>>
      /\ peer' = [peer EXCEPT !.pending = @ \cup ToldStream, !.registered = FALSE]
      /\ stream' = [stream EXCEPT !.at = "finished"]
  BY DEF DropStream
<1>2. PICK x : x = req[Open]  OBVIOUS
<1>3. /\ Open \in Requested /\ x \in ReqRecords /\ x.at = "done" /\ Open \notin peer.pending
      /\ Open \notin Nexts
  <2>1. StreamOK /\ AskedOK(Open) /\ Open \in Requested /\ Open \notin Nexts
        /\ req[Open].at \in {"none", "inserted", "waiting", "done"} /\ req[Open] \in ReqRecords
    BY Known, Ids
  <2>2. req[Open].at = "done"  BY <1>1, <2>1 DEF StreamOK
  <2>. QED  BY <1>2, <2>1, <2>2 DEF AskedOK
<1>4. req' = [req EXCEPT ![Open] = x]  BY <1>1, <1>2, Known
<1>5. PICK C : C = ToldStream  OBVIOUS
<1>6. C \in SUBSET {Control(q) : q \in Requested} /\ (peer.closed \/ Control(Open) \in C)
  BY <1>1, <1>3, <1>5 DEF ToldStream
<1>7. PICK p : p = (peer.pending \ {Open}) \cup C  OBVIOUS
<1>8. peer' \in PeerRecords /\ peer'.pending = p /\ ~peer'.registered /\ peer'.closed = peer.closed
  <2>1. p = peer.pending \cup ToldStream  BY <1>3, <1>5, <1>7
  <2>2. peer' = [peer EXCEPT !.pending = p, !.registered = FALSE]  BY <1>1, <2>1
  <2>3. peer \in PeerRecords /\ p \in SUBSET Int  BY <1>6, <1>7, Known, Ids
  <2>4. [peer EXCEPT !.pending = p, !.registered = FALSE] \in PeerRecords  BY <2>3 DEF PeerRecords
  <2>. QED  BY <2>2, <2>3, <2>4 DEF PeerRecords
<1>9. /\ stream' \in ClientStreams /\ stream'.at = "finished"
      /\ stream'.terminal = stream.terminal /\ stream'.ended = stream.ended
  BY <1>1, Known, StreamStep
<1>. QED  BY <1>1, <1>2, <1>3, <1>4, <1>6, <1>7, <1>8, <1>9, LeaveKeeps

(* The answer is read.                                                     *)
LEMMA FinishKeeps ==
  ASSUME ClientInv, NEW r \in Requested, Finish(r)
  PROVE  ClientInv'
<1>1. /\ req[r].at = "waiting" /\ req[r].reply # "none" /\ req' = [req EXCEPT ![r].at = "done"]
      /\ UNCHANGED <<event, out, in, served>>
  BY DEF Finish
<1>2. /\ StreamOK /\ AskedOK(r) /\ req[r] \in ReqRecords /\ stream \in ClientStreams /\ peer \in PeerRecords
      /\ stream.at \in {"none", "opening", "open", "finished"}
      /\ Open \in Requested /\ Open \notin Nexts /\ req[Open].at \in {"none", "inserted", "waiting", "done"}
      /\ peer.registered \in BOOLEAN
  BY Known, Ids
<1>3. /\ req[r].reply \in {"ok", "done", "failed", "closed"} /\ r \notin peer.pending
      /\ req[r].reply = "closed" => peer.closed
      /\ req[r].reply = "done" => served.over
      /\ r \in Nexts => req[Open].at = "done" /\ stream.at \in {"open", "finished"}
      /\ r = Open => stream.at = "opening"
  <2>1. r \in Nexts => req[Open].at = "done"  BY <1>1, <1>2 DEF AskedOK
  <2>2. req[r].reply \in {"ok", "done", "failed", "closed"} /\ r \notin peer.pending
    BY <1>1, <1>2 DEF AskedOK, Answers
  <2>3. r \in Nexts => stream.at \in {"open", "finished"}  BY <1>2, <2>1 DEF StreamOK
  <2>4. r = Open => stream.at = "opening"  BY <1>1, <1>2 DEF StreamOK
  <2>. QED  BY <1>2, <2>1, <2>2, <2>3, <2>4 DEF AskedOK
<1>4. PICK x : x = [req[r] EXCEPT !.at = "done"]  OBVIOUS
<1>5. /\ x \in ReqRecords /\ x.at = "done" /\ x.reply = req[r].reply
      /\ req' = [req EXCEPT ![r] = x]
  BY <1>1, <1>2, <1>4, AnswerStep
<1>6. PICK a \in {"none", "opening", "open", "finished"} :
        a = IF r = Open /\ req[r].reply = "ok" THEN "open"
            ELSE IF r \in Nexts \cup {Open} /\ req[r].reply # "ok" THEN "finished" ELSE stream.at
  BY <1>2
<1>7. /\ stream' \in ClientStreams /\ stream'.at = a
      /\ stream'.terminal = stream.terminal /\ stream'.ended = stream.ended
  <2>1. stream' = CASE r = Open /\ req[r].reply = "ok" -> [stream EXCEPT !.at = "open"]
                    [] r = Open /\ req[r].reply # "ok" -> [stream EXCEPT !.at = "finished"]
                    [] r \in Nexts /\ req[r].reply # "ok" -> [stream EXCEPT !.at = "finished"]
                    [] OTHER -> stream
    BY DEF Finish
  <2>2. CASE r = Open /\ req[r].reply = "ok"
    <3>1. stream' = [stream EXCEPT !.at = "open"] /\ a = "open"  BY <1>6, <2>1, <2>2
    <3>. QED  BY <1>2, <3>1, StreamStep
  <2>3. CASE r \in Nexts \cup {Open} /\ req[r].reply # "ok"
    <3>1. stream' = [stream EXCEPT !.at = "finished"] /\ a = "finished"  BY <1>6, <2>1, <2>3
    <3>. QED  BY <1>2, <3>1, StreamStep
  <2>4. CASE r \notin Nexts \cup {Open} \/ (r # Open /\ req[r].reply = "ok")
    <3>1. stream' = stream /\ a = stream.at  BY <1>6, <2>1, <2>4
    <3>. QED  BY <1>2, <3>1
  <2>. QED  BY <2>2, <2>3, <2>4
<1>8. PICK C : C = IF r \in Nexts \cup {Open} /\ req[r].reply = "failed" THEN ToldStream ELSE {}  OBVIOUS
<1>9. C \in SUBSET {Control(q) : q \in Requested}  BY <1>2, <1>8 DEF ToldStream
<1>10. PICK p : p = (peer.pending \ {r}) \cup C  OBVIOUS
<1>11. PICK b \in BOOLEAN : b = (peer.registered /\ a # "finished")  BY <1>2
<1>12. peer' \in PeerRecords /\ peer'.pending = p /\ peer'.registered = b /\ peer'.closed = peer.closed
  <2>1. p = peer.pending \cup C  BY <1>3, <1>10
  <2>2. peer' = [peer EXCEPT !.pending = p, !.registered = b]
    <3>1. peer' = [peer EXCEPT !.registered = (@ \/ (r = Open /\ req[r].reply = "ok" /\ ~TRUE)) /\ stream'.at # "finished",
                               !.pending = @ \cup C]
      BY <1>8 DEF Finish, Registered
    <3>2. ((peer.registered \/ (r = Open /\ req[r].reply = "ok" /\ ~TRUE)) /\ stream'.at # "finished") = b
      BY <1>2, <1>7, <1>11
    <3>3. peer' = [peer EXCEPT !.registered = b, !.pending = p]  BY <2>1, <3>1, <3>2
    <3>. QED  BY <1>2, <3>3 DEF PeerRecords
  <2>3. p \in SUBSET Int  BY <1>9, <1>10, Known, Ids
  <2>4. [peer EXCEPT !.pending = p, !.registered = b] \in PeerRecords  BY <1>2, <2>3 DEF PeerRecords
  <2>. QED  BY <1>2, <2>2, <2>4 DEF PeerRecords
<1>13. /\ x.reply \notin {"none", "refused"} /\ x.reply # "abandoned"
       /\ x.reply = "closed" => peer.closed
       /\ x.reply = "done" => served.over
  BY <1>3, <1>5
<1>14. /\ r = Open => stream'.at \in {"open", "finished"}
       /\ r # Open => stream'.at = stream.at \/ (stream.at = "open" /\ stream'.at = "finished")
       /\ stream'.at \in {"opening", "open"} =>
            stream.at \in {"opening", "open"} /\ peer'.registered = peer.registered
  BY <1>2, <1>3, <1>6, <1>7, <1>11, <1>12
<1>15. stream'.at = "finished" =>
         stream.at = "finished" \/ peer.closed \/ served.over \/ Control(Open) \in C
  <2>1. CASE a = "finished" /\ stream.at # "finished"
    <3>1. r \in Nexts \cup {Open} /\ req[r].reply # "ok"  BY <1>6, <2>1
    <3>2. CASE req[r].reply = "failed"
      BY <1>8, <2>1, <3>1, <3>2 DEF ToldStream
    <3>. QED  BY <1>3, <3>1, <3>2
  <2>. QED  BY <1>7, <2>1
<1>. QED  BY <1>1, <1>3, <1>5, <1>7, <1>9, <1>10, <1>12, <1>11, <1>13, <1>14, <1>15, LeaveKeeps, ZenonT(60)

(* A step of the queues, the server or the events, which no call sees.     *)
LEMMA MessagesKeep ==
  ASSUME ClientInv, req' = req, stream' = stream,
         peer' \in PeerRecords, peer'.closed = peer.closed, peer'.registered = peer.registered,
         \A q \in Requested : q \in peer'.pending <=> q \in peer.pending,
         served' \in ServedRecords, served.over => served'.over, served.got \subseteq served'.got,
         out' \in Seq(OutFrames), in' \in Seq(InFrames),
         \A q \in Requested : (Sent(q)' => Sent(q)) /\ (Informed(q) => Informed(q)'),
         \A f \in Items(in') : FrameOK(f)'
  PROVE  ClientInv'
<1>1. ClientTypes'  BY Known DEF ClientTypes
<1>2. ASSUME NEW q \in Requested PROVE AskedOK(q)'
  <2>1. /\ AskedOK(q) /\ req'[q] = req[q] /\ (req[Open].at = "done" => req'[Open].at = "done")
        /\ (Sent(q)' => Sent(q)) /\ (Informed(q) => Informed(q)')
    BY Known
  <2>. QED  BY <2>1, AskedStays
<1>3. StreamOK'
  <2>1. StreamOK /\ (Sent(Open)' => Sent(Open)) /\ (Informed(Open) => Informed(Open)')  BY Known, Ids
  <2>. QED  BY <2>1 DEF StreamOK
<1>. QED  BY <1>1, <1>2, <1>3 DEF ClientInv

(* The server is told that nobody waits.                                   *)
LEMMA TellKeeps ==
  ASSUME ClientInv, NEW r \in Requested, Tell(r)
  PROVE  ClientInv'
<1>1. in' = in /\ served' = served  BY DEF Tell
<1>2. CASE ~Fits
  BY <1>1, <1>2, Known, CloseKeeps DEF Tell
<1>3. CASE Fits
  <2>1. /\ out' = Append(out, Frame("cancel", r)) /\ req' = req /\ stream' = stream
        /\ peer' = [peer EXCEPT !.pending = @ \ {Control(r)}]
    BY <1>3 DEF Tell
  <2>2. Frame("cancel", r) \in OutFrames  BY DEF OutFrames
  <2>3. out' \in Seq(OutFrames) /\ Items(out') = Items(out) \cup {Frame("cancel", r)}
    BY <2>1, <2>2, Known, ItemsAppend
  <2>4. /\ peer' \in PeerRecords /\ peer'.pending = peer.pending \ {Control(r)}
        /\ peer'.closed = peer.closed /\ peer'.registered = peer.registered
    <3>1. peer \in PeerRecords  BY Known
    <3>2. [peer EXCEPT !.pending = peer.pending \ {Control(r)}] \in PeerRecords  BY <3>1 DEF PeerRecords
    <3>. QED  BY <2>1, <3>1, <3>2 DEF PeerRecords
  <2>5. \A q \in Requested : q \in peer'.pending <=> q \in peer.pending  BY <2>4, Ids
  <2>6. ASSUME NEW q \in Requested PROVE (Sent(q)' => Sent(q)) /\ (Informed(q) => Informed(q)')
    <3>1. Frame("request", q) # Frame("cancel", r)  BY Frames
    <3>2. Sent(q)' => Sent(q)  BY <1>1, <2>3, <3>1 DEF Sent
    <3>3. Informed(q) => Informed(q)'
      <4>1. CASE q = r  BY <2>3, <4>1 DEF Informed
      <4>2. CASE q # r
        <5>1. Control(q) # Control(r)  BY <4>2, Ids
        <5>. QED  BY <1>1, <2>3, <2>4, <5>1 DEF Informed
      <4>. QED  BY <4>1, <4>2
    <3>. QED  BY <3>2, <3>3
  <2>7. \A f \in Items(in') : FrameOK(f)'  BY <1>1 DEF ClientInv, FrameOK
  <2>8. served' \in ServedRecords /\ in' \in Seq(InFrames)  BY <1>1, Known
  <2>. QED  BY <1>1, <2>1, <2>3, <2>4, <2>5, <2>6, <2>7, <2>8, MessagesKeep
<1>. QED  BY <1>2, <1>3

(* The server reads a frame.                                               *)
LEMMA ServerReadsKeeps ==
  ASSUME ClientInv, ServerReads
  PROVE  ClientInv'
<1>1. out # <<>> /\ out' = Tail(out) /\ UNCHANGED <<peer, req, stream, event, in>>
  BY DEF ServerReads
<1>2. PICK f : f = Head(out)  OBVIOUS
<1>3. /\ f \in OutFrames /\ f \in Items(out) /\ out' \in Seq(OutFrames)
      /\ Items(out) = Items(out') \cup {f}
  BY <1>1, <1>2, Known, ItemsTail
<1>4. served' = CASE f.op = "request" -> [served EXCEPT !.has = @ \cup {f.id}, !.got = @ \cup {f.id}]
                  [] f.op = "cancel" -> [served EXCEPT !.told = @ \cup {f.id}]
                  [] f.op = "event" -> served
  BY <1>2 DEF ServerReads
<1>5. served \in ServedRecords  BY Known
<1>6. /\ served' \in ServedRecords /\ served'.over = served.over /\ served.got \subseteq served'.got
      /\ \A q \in Requested : (Sent(q)' => Sent(q)) /\ (Informed(q) => Informed(q)')
  <2>1. ASSUME NEW r \in Requested, f = Frame("request", r)
        PROVE  /\ served' \in ServedRecords /\ served'.over = served.over /\ served.got \subseteq served'.got
               /\ \A q \in Requested : (Sent(q)' => Sent(q)) /\ (Informed(q) => Informed(q)')
    <3>1. f.op = "request" /\ f.id = r  BY <2>1, Frames
    <3>2. served' = [served EXCEPT !.has = @ \cup {r}, !.got = @ \cup {r}]  BY <1>4, <3>1
    <3>3. served' \in ServedRecords
      <4>1. [served EXCEPT !.has = served.has \cup {r}, !.got = served.got \cup {r}] \in ServedRecords
        BY <1>5 DEF ServedRecords
      <4>. QED  BY <3>2, <4>1
    <3>4. served'.over = served.over /\ served'.got = served.got \cup {r} /\ served'.told = served.told
      BY <1>5, <3>2 DEF ServedRecords
    <3>5. \A q \in Requested : Sent(q)' => Sent(q)
      BY <1>3, <2>1, <3>4 DEF Sent
    <3>6. \A q \in Requested : Frame("cancel", q) # f  BY <2>1, Frames
    <3>7. \A q \in Requested : Informed(q) => Informed(q)'
      BY <1>1, <1>3, <3>4, <3>6 DEF Informed
    <3>. QED  BY <3>3, <3>4, <3>5, <3>7
  <2>2. ASSUME NEW r \in Requested, f = Frame("cancel", r)
        PROVE  /\ served' \in ServedRecords /\ served'.over = served.over /\ served.got \subseteq served'.got
               /\ \A q \in Requested : (Sent(q)' => Sent(q)) /\ (Informed(q) => Informed(q)')
    <3>1. f.op = "cancel" /\ f.id = r  BY <2>2, Frames
    <3>2. served' = [served EXCEPT !.told = @ \cup {r}]  BY <1>4, <3>1
    <3>3. served' \in ServedRecords
      <4>1. [served EXCEPT !.told = served.told \cup {r}] \in ServedRecords
        BY <1>5 DEF ServedRecords
      <4>. QED  BY <3>2, <4>1
    <3>4. served'.over = served.over /\ served'.got = served.got /\ served'.told = served.told \cup {r}
      BY <1>5, <3>2 DEF ServedRecords
    <3>5. \A q \in Requested : Sent(q)' => Sent(q)
      BY <1>3, <3>4 DEF Sent
    <3>6. \A q \in Requested : Frame("cancel", q) = f => q = r  BY <2>2, Frames
    <3>7. \A q \in Requested : Informed(q) => Informed(q)'
      BY <1>1, <1>3, <3>4, <3>6 DEF Informed
    <3>. QED  BY <3>3, <3>4, <3>5, <3>7
  <2>3. ASSUME NEW e \in Events, f = Frame("event", e)
        PROVE  /\ served' \in ServedRecords /\ served'.over = served.over /\ served.got \subseteq served'.got
               /\ \A q \in Requested : (Sent(q)' => Sent(q)) /\ (Informed(q) => Informed(q)')
    <3>1. f.op = "event"  BY <2>3, Frames
    <3>2. served' = served  BY <1>4, <3>1
    <3>3. \A q \in Requested : Frame("cancel", q) # f  BY <2>3, Frames
    <3>4. \A q \in Requested : Informed(q) => Informed(q)'  BY <1>1, <1>3, <3>2, <3>3 DEF Informed
    <3>5. \A q \in Requested : Sent(q)' => Sent(q)  BY <1>3, <3>2 DEF Sent
    <3>. QED  BY <1>5, <3>2, <3>4, <3>5
  <2>4. \/ \E r \in Requested : f = Frame("request", r) \/ f = Frame("cancel", r)
        \/ \E e \in Events : f = Frame("event", e)
    BY <1>3 DEF OutFrames
  <2>. QED  BY <2>1, <2>2, <2>3, <2>4
<1>7. \A g \in Items(in') : FrameOK(g)'
  BY <1>1, <1>6 DEF ClientInv, FrameOK
<1>8. peer' \in PeerRecords /\ in' \in Seq(InFrames)  BY <1>1, Known
<1>. QED  BY <1>1, <1>3, <1>6, <1>7, <1>8, MessagesKeep

(* The server answers, ends its stream, or sends an event.                 *)
LEMMA ServerSendsKeeps ==
  ASSUME ClientInv, ServerSends
  PROVE  ClientInv'
<1>1. UNCHANGED <<peer, req, stream, event, out>>  BY DEF ServerSends
<1>2. served \in ServedRecords /\ served.over \in BOOLEAN /\ served.has \subseteq Requested  BY Known
<1>3. PICK f \in InFrames :
        /\ in' = Append(in, f) /\ FrameOK(f)'
        /\ served' \in ServedRecords /\ (served.over => served'.over)
        /\ served'.got = served.got /\ served'.told = served.told
  <2>1. ASSUME NEW r \in served.has, NEW op \in {"ok", "failed"} \cup IF r \in Nexts THEN {"done"} ELSE {},
               in' = Append(in, Frame(op, r)),
               served' = [served EXCEPT !.has = @ \ {r}, !.over = @ \/ op = "done" \/ <<op, r>> = <<"failed", Open>>]
        PROVE  /\ Frame(op, r) \in InFrames /\ FrameOK(Frame(op, r))'
               /\ served' \in ServedRecords /\ (served.over => served'.over)
               /\ served'.got = served.got /\ served'.told = served.told
    <3>1. r \in Requested /\ op \in {"ok", "failed", "done"}  BY <1>2, <2>1
    <3>2. Frame(op, r) \in InFrames  BY <3>1 DEF InFrames
    <3>3. PICK b \in BOOLEAN : b = (served.over \/ op = "done" \/ <<op, r>> = <<"failed", Open>>)
      OBVIOUS
    <3>4. served' = [served EXCEPT !.has = @ \ {r}, !.over = b]  BY <2>1, <3>3
    <3>5. served' \in ServedRecords
      <4>1. [served EXCEPT !.has = served.has \ {r}, !.over = b] \in ServedRecords  BY <1>2 DEF ServedRecords
      <4>. QED  BY <3>4, <4>1
    <3>6. served'.over = b /\ served'.got = served.got /\ served'.told = served.told
      BY <1>2, <3>4 DEF ServedRecords
    <3>7. FrameOK(Frame(op, r))'
      <4>1. Frame(op, r).op = op  BY Frames
      <4>. QED  BY <3>1, <3>3, <3>6, <4>1 DEF FrameOK
    <3>. QED  BY <3>2, <3>3, <3>5, <3>6, <3>7
  <2>2. ASSUME Open \in served.got \ served.has, in' = Append(in, Frame("end", Open)),
               served' = [served EXCEPT !.over = TRUE]
        PROVE  /\ Frame("end", Open) \in InFrames /\ FrameOK(Frame("end", Open))'
               /\ served' \in ServedRecords /\ (served.over => served'.over)
               /\ served'.got = served.got /\ served'.told = served.told
    <3>1. [served EXCEPT !.over = TRUE] \in ServedRecords  BY <1>2 DEF ServedRecords
    <3>2. served'.over /\ served'.got = served.got /\ served'.told = served.told
      BY <1>2, <2>2 DEF ServedRecords
    <3>. QED  BY <2>2, <3>1, <3>2 DEF InFrames, FrameOK
  <2>3. ASSUME NEW e \in Events, in' = Append(in, Frame("event", e)),
               served' = [served EXCEPT !.sent = @ \cup {e}]
        PROVE  /\ Frame("event", e) \in InFrames /\ FrameOK(Frame("event", e))'
               /\ served' \in ServedRecords /\ (served.over => served'.over)
               /\ served'.got = served.got /\ served'.told = served.told
    <3>1. [served EXCEPT !.sent = served.sent \cup {e}] \in ServedRecords  BY <1>2 DEF ServedRecords
    <3>2. served'.over = served.over /\ served'.got = served.got /\ served'.told = served.told
      BY <1>2, <2>3 DEF ServedRecords
    <3>3. Frame("event", e).op = "event"  BY Frames
    <3>. QED  BY <2>3, <3>1, <3>2, <3>3 DEF InFrames, FrameOK
  <2>. QED  BY <2>1, <2>2, <2>3 DEF ServerSends
<1>4. in' \in Seq(InFrames) /\ Items(in') = Items(in) \cup {f}
  BY <1>3, Known, ItemsAppend
<1>5. \A g \in Items(in') : FrameOK(g)'
  <2>1. \A g \in Items(in) : FrameOK(g)'  BY <1>3 DEF ClientInv, FrameOK
  <2>. QED  BY <1>3, <1>4, <2>1
<1>6. \A q \in Requested : (Sent(q)' => Sent(q)) /\ (Informed(q) => Informed(q)')
  BY <1>1, <1>3 DEF Sent, Informed
<1>7. peer' \in PeerRecords /\ out' \in Seq(OutFrames)  BY <1>1, Known
<1>. QED  BY <1>1, <1>3, <1>4, <1>5, <1>6, <1>7, MessagesKeep

(* An answer comes for a request that is in the table, or for none.        *)
LEMMA AnsweredKeeps ==
  ASSUME ClientInv, NEW r \in Requested, NEW op \in {"ok", "done", "failed"},
         op = "done" => served.over,
         req' = IF r \in peer.pending THEN [req EXCEPT ![r].reply = op] ELSE req,
         peer' = [peer EXCEPT !.pending = @ \ {r}],
         in' \in Seq(InFrames), Items(in') \subseteq Items(in),
         UNCHANGED <<stream, out, served>>
  PROVE  ClientInv'
<1>1. /\ peer' \in PeerRecords /\ peer'.pending = peer.pending \ {r}
      /\ peer'.closed = peer.closed /\ peer'.registered = peer.registered
  <2>1. peer \in PeerRecords  BY Known
  <2>2. [peer EXCEPT !.pending = peer.pending \ {r}] \in PeerRecords  BY <2>1 DEF PeerRecords
  <2>. QED  BY <2>1, <2>2 DEF PeerRecords
<1>2. PICK x : x = [req[r] EXCEPT !.reply = op]  OBVIOUS
<1>3. x \in ReqRecords /\ x.at = req[r].at /\ x.reply = op
  <2>1. req[r] \in ReqRecords  BY Known
  <2>2. [req[r] EXCEPT !.reply = op] \in ReqRecords  BY <2>1 DEF ReqRecords, Answers
  <2>. QED  BY <1>2, <2>1, <2>2 DEF ReqRecords
<1>4. /\ req' \in [Requested -> ReqRecords]
      /\ req'[r] = IF r \in peer.pending THEN x ELSE req[r]
      /\ \A q \in Requested : q # r => req'[q] = req[q]
  BY <1>2, <1>3, Known
<1>5. \A q \in Requested : req'[q].at = req[q].at  BY <1>3, <1>4
<1>6. \A q \in Requested : (Sent(q)' <=> Sent(q)) /\ (Informed(q) <=> Informed(q)')
  <2>1. \A q \in Requested : Control(q) # r  BY Ids
  <2>. QED  BY <1>1, <2>1 DEF Sent, Informed
<1>7. ClientTypes'  BY <1>1, <1>4, Known DEF ClientTypes
<1>8. AskedOK(r)'
  <2>1. AskedOK(r) /\ req'[Open].at = req[Open].at  BY <1>5, Known, Ids
  <2>2. CASE r \in peer.pending
    <3>1. req'[r].reply = op /\ req'[r].at = req[r].at /\ req[r].at \in {"inserted", "waiting"}
      BY <1>3, <1>4, <2>1, <2>2 DEF AskedOK
    <3>2. r \notin peer'.pending  BY <1>1
    <3>3. req[r].at = "inserted" => ~Sent(r)'  BY <1>6, <2>1 DEF AskedOK
    <3>. QED  BY <2>1, <3>1, <3>2, <3>3 DEF AskedOK, Answers
  <2>3. CASE r \notin peer.pending
    <3>1. req'[r] = req[r] /\ (r \in peer'.pending <=> r \in peer.pending)  BY <1>1, <1>4, <2>3
    <3>. QED  BY <1>1, <1>6, <2>1, <3>1, AskedStays
  <2>. QED  BY <2>2, <2>3
<1>9. ASSUME NEW q \in Requested, q # r PROVE AskedOK(q)'
  <2>1. /\ AskedOK(q) /\ req'[q] = req[q] /\ (req[Open].at = "done" => req'[Open].at = "done")
        /\ (q \in peer'.pending <=> q \in peer.pending)
    BY <1>1, <1>4, <1>5, <1>9, Known, Ids
  <2>. QED  BY <1>1, <1>6, <2>1, AskedStays
<1>10. StreamOK'
  <2>1. StreamOK /\ req'[Open].at = req[Open].at /\ (Sent(Open)' <=> Sent(Open)) /\ (Informed(Open) <=> Informed(Open)')
    BY <1>5, <1>6, Known, Ids
  <2>. QED  BY <1>1, <2>1 DEF StreamOK
<1>11. \A f \in Items(in') : FrameOK(f)'  BY DEF ClientInv, FrameOK
<1>. QED  BY <1>7, <1>8, <1>9, <1>10, <1>11 DEF ClientInv

(* The stream hears of its end.                                            *)
LEMMA EndedKeeps ==
  ASSUME ClientInv, served.over, Open \in served.got,
         stream' = [stream EXCEPT !.terminal = IF peer.registered THEN "end" ELSE @, !.ended = TRUE],
         peer' = [peer EXCEPT !.registered = FALSE],
         in' \in Seq(InFrames), Items(in') \subseteq Items(in),
         UNCHANGED <<req, out, served>>
  PROVE  ClientInv'
<1>1. /\ peer' \in PeerRecords /\ peer'.pending = peer.pending
      /\ peer'.closed = peer.closed /\ ~peer'.registered
  <2>1. peer \in PeerRecords  BY Known
  <2>2. [peer EXCEPT !.registered = FALSE] \in PeerRecords  BY <2>1 DEF PeerRecords
  <2>. QED  BY <2>1, <2>2 DEF PeerRecords
<1>2. PICK t \in {"none", "end", "error"} : t = IF peer.registered THEN "end" ELSE stream.terminal
  BY Known
<1>3. /\ stream' \in ClientStreams /\ stream'.at = stream.at /\ stream'.terminal = t /\ stream'.ended
  <2>1. stream \in ClientStreams  BY Known
  <2>2. stream' = [stream EXCEPT !.terminal = t, !.ended = TRUE]  BY <1>2
  <2>3. [stream EXCEPT !.terminal = t, !.ended = TRUE] \in ClientStreams  BY <2>1 DEF ClientStreams
  <2>. QED  BY <2>1, <2>2, <2>3 DEF ClientStreams
<1>4. ClientTypes'  BY <1>1, <1>3, Known DEF ClientTypes
<1>5. \A q \in Requested : (Sent(q)' <=> Sent(q)) /\ (Informed(q) <=> Informed(q)')
  BY <1>1 DEF Sent, Informed
<1>6. ASSUME NEW q \in Requested PROVE AskedOK(q)'
  <2>1. AskedOK(q) /\ req'[q] = req[q] /\ (req[Open].at = "done" => req'[Open].at = "done")  BY Known
  <2>. QED  BY <1>1, <1>5, <2>1, AskedStays
<1>7. StreamOK'
  <2>1. StreamOK /\ (Sent(Open)' <=> Sent(Open)) /\ (Informed(Open) <=> Informed(Open)')  BY <1>5, Known, Ids
  <2>. QED  BY <1>1, <1>2, <1>3, <2>1 DEF StreamOK
<1>8. \A f \in Items(in') : FrameOK(f)'  BY DEF ClientInv, FrameOK
<1>. QED  BY <1>4, <1>6, <1>7, <1>8 DEF ClientInv

(* The client reads a frame.                                               *)
LEMMA ReceiveKeeps ==
  ASSUME ClientInv, Receive
  PROVE  ClientInv'
<1>1. in # <<>> /\ in' = Tail(in) /\ served' = served  BY DEF Receive
<1>2. PICK f : f = Head(in)  OBVIOUS
<1>3. /\ f \in InFrames /\ f \in Items(in) /\ in' \in Seq(InFrames)
      /\ Items(in') \subseteq Items(in)
  BY <1>1, <1>2, Known, ItemsTail
<1>4. FrameOK(f)  BY <1>3 DEF ClientInv
<1>5. ASSUME NEW r \in Requested, NEW op \in {"ok", "done", "failed"}, f = Frame(op, r) PROVE ClientInv'
  <2>1. f.op = op /\ f.id = r  BY <1>5, Frames
  <2>2. op = "done" => served.over  BY <1>4, <2>1 DEF FrameOK
  <2>3. /\ req' = IF r \in peer.pending THEN [req EXCEPT ![r].reply = op] ELSE req
        /\ peer' = [peer EXCEPT !.pending = @ \ {r}]
        /\ UNCHANGED <<stream, out>>
    BY <1>2, <2>1 DEF Receive
  <2>. QED  BY <1>1, <1>3, <2>2, <2>3, AnsweredKeeps
<1>6. ASSUME f = Frame("end", Open) PROVE ClientInv'
  <2>1. f.op = "end"  BY <1>6, Frames
  <2>2. served.over /\ Open \in served.got  BY <1>4, <2>1 DEF FrameOK
  <2>3. /\ stream' = [stream EXCEPT !.terminal = IF peer.registered THEN "end" ELSE @, !.ended = TRUE]
        /\ peer' = [peer EXCEPT !.registered = FALSE]
        /\ UNCHANGED <<req, out>>
    BY <1>2, <2>1 DEF Receive
  <2>. QED  BY <1>1, <1>3, <2>2, <2>3, EndedKeeps
<1>7. ASSUME NEW e \in Events, f = Frame("event", e) PROVE ClientInv'
  <2>1. f.op = "event" /\ f.id = e  BY <1>7, Frames
  <2>2. CASE Cardinality(peer.serving) >= Limit
    <3>1. CloseWith  BY <1>2, <2>1, <2>2 DEF Receive
    <3>. QED  BY <1>1, <1>3, <3>1, CloseKeeps
  <2>3. CASE ~(Cardinality(peer.serving) >= Limit)
    <3>1. /\ peer' = [peer EXCEPT !.serving = @ \cup {e}]
          /\ UNCHANGED <<req, stream, out>>
      BY <1>2, <2>1, <2>3 DEF Receive
    <3>2. /\ peer' \in PeerRecords /\ peer'.closed = peer.closed /\ peer'.registered = peer.registered
          /\ peer'.pending = peer.pending
      <4>1. peer \in PeerRecords  BY Known
      <4>2. [peer EXCEPT !.serving = peer.serving \cup {e}] \in PeerRecords  BY <4>1 DEF PeerRecords
      <4>. QED  BY <3>1, <4>1, <4>2 DEF PeerRecords
    <3>3. \A q \in Requested : (Sent(q)' => Sent(q)) /\ (Informed(q) => Informed(q)')
      BY <1>1, <3>1, <3>2 DEF Sent, Informed
    <3>4. \A g \in Items(in') : FrameOK(g)'  BY <1>1, <1>3 DEF ClientInv, FrameOK
    <3>5. served' \in ServedRecords /\ out' \in Seq(OutFrames)  BY <1>1, <3>1, Known
    <3>. QED  BY <1>1, <1>3, <3>1, <3>2, <3>3, <3>4, <3>5, MessagesKeep
  <2>. QED  BY <2>2, <2>3
<1>8. \/ \E r \in Requested, op \in {"ok", "done", "failed"} : f = Frame(op, r)
      \/ f = Frame("end", Open)
      \/ \E e \in Events : f = Frame("event", e)
  BY <1>3 DEF InFrames
<1>. QED  BY <1>5, <1>6, <1>7, <1>8

(* The task of an event answers, or finds the connection closed.           *)
LEMMA DeliverKeeps ==
  ASSUME ClientInv, NEW e \in Events, Deliver(e)
  PROVE  ClientInv'
<1>1. in' = in /\ served' = served  BY DEF Deliver
<1>2. \A g \in Items(in') : FrameOK(g)'  BY <1>1 DEF ClientInv, FrameOK
<1>3. CASE peer.closed
  <2>1. UNCHANGED <<peer, req, stream, out>>  BY <1>3 DEF Deliver
  <2>2. \A q \in Requested : (Sent(q)' => Sent(q)) /\ (Informed(q) => Informed(q)')
    BY <1>1, <2>1 DEF Sent, Informed
  <2>. QED  BY <1>1, <1>2, <2>1, <2>2, Known, MessagesKeep
<1>4. CASE ~peer.closed /\ ~Fits
  BY <1>1, <1>4, Known, CloseKeeps DEF Deliver
<1>5. CASE ~peer.closed /\ Fits
  <2>1. /\ peer' = [peer EXCEPT !.serving = @ \ {e}] /\ out' = Append(out, Frame("event", e))
        /\ UNCHANGED <<req, stream>>
    BY <1>5 DEF Deliver
  <2>2. /\ peer' \in PeerRecords /\ peer'.closed = peer.closed /\ peer'.registered = peer.registered
        /\ peer'.pending = peer.pending
    <3>1. peer \in PeerRecords  BY Known
    <3>2. [peer EXCEPT !.serving = peer.serving \ {e}] \in PeerRecords  BY <3>1 DEF PeerRecords
    <3>. QED  BY <2>1, <3>1, <3>2 DEF PeerRecords
  <2>3. Frame("event", e) \in OutFrames  BY DEF OutFrames
  <2>4. out' \in Seq(OutFrames) /\ Items(out') = Items(out) \cup {Frame("event", e)}
    BY <2>1, <2>3, Known, ItemsAppend
  <2>5. \A q \in Requested : Frame("request", q) # Frame("event", e)  BY Frames
  <2>6. \A q \in Requested : (Sent(q)' => Sent(q)) /\ (Informed(q) => Informed(q)')
    BY <1>1, <2>2, <2>4, <2>5 DEF Sent, Informed
  <2>7. served' \in ServedRecords /\ in' \in Seq(InFrames)  BY <1>1, Known
  <2>. QED  BY <1>1, <1>2, <2>1, <2>2, <2>4, <2>6, <2>7, MessagesKeep
<1>6. peer.closed \in BOOLEAN  BY Known
<1>. QED  BY <1>3, <1>4, <1>5, <1>6

(* Every step keeps it.                                                    *)
LEMMA ClientKeeps ==
  ASSUME ClientInv, [PeerNext]_pvars
  PROVE  ClientInv'
<1>1. CASE UNCHANGED pvars
  <2>1. UNCHANGED <<peer, req, stream, event, out, in, served>>  BY <1>1 DEF pvars
  <2>2. \A q \in Requested : (Sent(q)' => Sent(q)) /\ (Informed(q) => Informed(q)')
    BY <2>1 DEF Sent, Informed
  <2>3. \A g \in Items(in') : FrameOK(g)'  BY <2>1 DEF ClientInv, FrameOK
  <2>. QED  BY <2>1, <2>2, <2>3, Known, MessagesKeep
<1>2. CASE Close
  BY <1>2, Known, CloseKeeps DEF Close
<1>3. CASE PeerNext /\ ~Close
  BY <1>3, InsertKeeps, EndReadKeeps, WriteKeeps, GiveUpKeeps, TellKeeps, FinishKeeps, DeliverKeeps,
     DropStreamKeeps, ServerReadsKeeps, ServerSendsKeeps, ReceiveKeeps
  DEF PeerNext
<1>. QED  BY <1>1, <1>2, <1>3

(* However calls are given up, streams dropped and sockets lost: whoever   *)
(* waits is in the table or answered, a stream knows its end, and the      *)
(* server is told of whoever left.                                         *)
THEOREM PeerIsKept == PeerSpec => []PeerKept
<1>1. PeerInit => ClientInv
  BY ClientStarts
<1>2. ClientInv /\ [PeerNext]_pvars => ClientInv'
  BY ClientKeeps
<1>3. ClientInv => PeerKept
  <2>. SUFFICES ASSUME ClientInv PROVE PeerKept
    OBVIOUS
  <2>1. \A r \in Requested : AskedOK(r)  BY DEF ClientInv
  <2>2. StreamOK /\ peer.closed \in BOOLEAN /\ Open \in Requested  BY Known, Ids
  <2>3. NobodyForgotten  BY <2>1 DEF NobodyForgotten, AskedOK
  <2>4. EndIsKnown  BY <2>2 DEF EndIsKnown, StreamOK
  <2>5. LeftIsTold
    <3>. SUFFICES ASSUME NEW r \in Requested, ~peer.closed,
                         \/ req[r].reply = "abandoned" /\ r \in served.has
                         \/ r = Open /\ stream.at = "finished" /\ Open \in served.got /\ ~served.over
         PROVE  Informed(r)
      BY DEF LeftIsTold, Informed, Items
    <3>1. CASE req[r].reply = "abandoned"  BY <2>1, <3>1 DEF AskedOK
    <3>2. CASE r = Open /\ stream.at = "finished" /\ Open \in served.got /\ ~served.over
      BY <2>2, <3>2 DEF StreamOK, Sent
    <3>. QED  BY <3>1, <3>2
  <2>. QED  BY <2>3, <2>4, <2>5 DEF PeerKept
<1>. QED  BY <1>1, <1>2, <1>3, PTL DEF PeerSpec
=============================================================================
