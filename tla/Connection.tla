------------------------------- MODULE Connection -------------------------------
(***************************************************************************)
(* The one authenticated connection of xw-api (connection.rs) and the way  *)
(* a call chooses its transport (methods.rs, Client::invoke).  A target's  *)
(* key stands for its server, session and unexpired access token;       *)
(* "none" is the key of the target that has none.  The task that maintains *)
(* generation g, and the peer it has open, are named g.                    *)
(***************************************************************************)
EXTENDS Integers, FiniteSets

CONSTANTS
  Keys,            \* session keys of usable targets
  Requests,        \* ids of calls: numbers, taken in their order
  MaxGenerations,  \* bound on targets
  MaxFailures      \* bound on a task's failed connections

ASSUME ConnectionAssumption ==
  /\ "none" \notin Keys /\ Requests \subseteq Nat
  /\ MaxGenerations \in Nat \ {0} /\ MaxFailures \in Nat

VARIABLES
  conn,       \* State of Connection, and the updates channel's snapshot
  task,       \* task[g]: maintain
  wait,       \* a call of authenticate
  call        \* call[c]: a call of Client::invoke (task[g].said is history: what g published)

nvars == <<conn, task, wait, call>>

Generations == 1..MaxGenerations
Snapshot(generation, status, auth) == [generation |-> generation, status |-> status, auth |-> auth]
NoTask == [at |-> "none", key |-> "none", cancel |-> FALSE, open |-> FALSE, failures |-> 0, said |-> {}]
NoWait == [at |-> "none", generation |-> 0, auth |-> "none"]
NoRequest == [at |-> "none", transport |-> "none", key |-> "none", peer |-> 0, ws |-> 0, http |-> 0]

ConnectionInit ==
  /\ conn = [key |-> "none", generation |-> 0, peer |-> 0, closed |-> "no",
             snapshot |-> Snapshot(0, "Disconnected", "Unavailable")]
  /\ task = [g \in Generations |-> NoTask]
  /\ wait = NoWait /\ call = [c \in Requests |-> NoRequest]

-----------------------------------------------------------------------------
(* The current task is cancelled and its published peer closed.            *)
Cancelled ==
  [g \in Generations |->
     IF g # conn.generation THEN task[g]
     ELSE [task[g] EXCEPT !.cancel = TRUE, !.open = @ /\ conn.peer # g]]

(* set_target                                                              *)
SetTarget(key) ==
  /\ conn.closed = "no" /\ key # conn.key /\ conn.generation < MaxGenerations
  /\ LET g == conn.generation + 1 IN
     /\ conn' = [conn EXCEPT !.generation = g, !.key = key, !.peer = 0,
                             !.snapshot = IF key = "none" THEN Snapshot(g, "Disconnected", "Unavailable")
                                          ELSE Snapshot(g, "Connecting", "none")]
     /\ task' = IF key = "none" THEN Cancelled
                ELSE [Cancelled EXCEPT ![g] = [NoTask EXCEPT !.at = "top", !.key = key]]
  /\ UNCHANGED <<wait, call>>

(* Mutant: whichever connection is ready is the current one.               *)
CurrentWhenOpen(g) == conn.closed = "no"
(* publish: nothing is said for a generation that was replaced.            *)
Current(g) == conn.closed = "no" /\ conn.generation = g

Publish(g, status, auth, peer) ==
  conn' = IF Current(g)
          THEN [conn EXCEPT !.peer = peer, !.snapshot = Snapshot(g, status, auth)] ELSE conn
Said(g, auth) == IF Current(g) THEN task[g].said \cup {auth} ELSE task[g].said

(* maintain, the top of its loop.                                          *)
Top(g) ==
  /\ task[g].at = "top"
  /\ IF task[g].cancel \/ ~Current(g)
     THEN /\ task' = [task EXCEPT ![g].at = "done"] /\ UNCHANGED conn
     ELSE /\ task' = [task EXCEPT ![g].at = "connecting"]
          /\ conn' = [conn EXCEPT !.snapshot =
               Snapshot(g, IF task[g].failures = 0 THEN "Connecting" ELSE "Reconnecting", "none")]
  /\ UNCHANGED <<wait, call>>

(* Peer::connect has an answer, or its cancellation is noticed.            *)
Connect(g) ==
  /\ task[g].at = "connecting"
  /\ \/ task' = [task EXCEPT ![g].at = "opened", ![g].open = TRUE]
     \/ \E at \in {"rejected", "lost"} : task' = [task EXCEPT ![g].at = at]
  /\ UNCHANGED <<conn, wait, call>>

(* The task ends, and its peer with it: by close or by its last reference. *)
Ends(g) == [task EXCEPT ![g].at = "done", ![g].open = FALSE]

(* The cancellation is read after every wait.                              *)
Stop(g) ==
  /\ task[g].at \in {"opened", "up", "rejected", "lost", "backoff"} /\ task[g].cancel
  /\ task' = Ends(g)
  /\ UNCHANGED <<conn, wait, call>>

(* The peer is there; between the check and the lock it may be replaced.   *)
Ready(g) ==
  /\ task[g].at = "opened" /\ ~task[g].cancel
  /\ task' = [task EXCEPT ![g].at = "publishing"]
  /\ UNCHANGED <<conn, wait, call>>

Up(g) ==
  /\ task[g].at = "publishing"
  /\ Publish(g, "Connected", "Authenticated", g)
  /\ task' = [task EXCEPT ![g].at = "up", ![g].failures = 0,
                            ![g].said = Said(g, "Authenticated")]
  /\ UNCHANGED <<wait, call>>

(* The peer is closed: by its socket, a failed heartbeat or the end of the *)
(* access token.                                                           *)
PeerCloses(g) ==
  /\ task[g].at \in {"publishing", "up"} /\ task[g].open
  /\ task' = [task EXCEPT ![g].open = FALSE]
  /\ UNCHANGED <<conn, wait, call>>

Noticed(g) ==
  /\ task[g].at = "up" /\ ~task[g].open /\ ~task[g].cancel
  /\ \E at \in {"rejected", "lost"} : task' = [task EXCEPT ![g].at = at]
  /\ UNCHANGED <<conn, wait, call>>

(* A rejection waits for other credentials, anything else for a while.     *)
Down(g) ==
  /\ task[g].at \in {"rejected", "lost"} /\ ~task[g].cancel
  /\ IF task[g].at = "lost"
     THEN /\ task[g].failures < MaxFailures
          /\ Publish(g, "Reconnecting", "Unavailable", 0)
          /\ task' = [task EXCEPT ![g].at = "backoff", ![g].failures = @ + 1]
     ELSE /\ Publish(g, "Disconnected", "Rejected", 0)
          /\ task' = [task EXCEPT ![g].at = "done", ![g].said = Said(g, "Rejected")]
  /\ UNCHANGED <<wait, call>>

Backoff(g) ==
  /\ task[g].at = "backoff" /\ ~task[g].cancel
  /\ task' = [task EXCEPT ![g].at = "top"]
  /\ UNCHANGED <<conn, wait, call>>

(* close: the state, then every task that is still there.                  *)
CloseConnection ==
  /\ conn.closed = "no"
  /\ conn' = [conn EXCEPT !.closed = "closing", !.peer = 0,
                          !.snapshot = Snapshot(conn.generation, "Disconnected", "Unavailable")]
  /\ task' = IF conn.generation = 0 THEN task ELSE Cancelled
  /\ UNCHANGED <<wait, call>>

Joined ==
  /\ conn.closed = "closing" /\ \A g \in Generations : task[g].at \in {"none", "done"}
  /\ conn' = [conn EXCEPT !.closed = "yes"]
  /\ UNCHANGED <<task, wait, call>>

-----------------------------------------------------------------------------
(* authenticate: the generation, then the updates until one says more.     *)
Authenticate ==
  /\ wait.at = "none"
  /\ wait' = [NoWait EXCEPT !.at = "waiting", !.generation = conn.snapshot.generation]
  /\ UNCHANGED <<conn, task, call>>

(* Another generation answers for nobody, nor does a peer that is gone.    *)
AuthAnswer ==
  IF conn.snapshot.generation # wait.generation THEN "Unavailable"
  ELSE IF conn.snapshot.auth = "Authenticated" /\ conn.peer = 0 THEN "Unavailable"
  ELSE conn.snapshot.auth

AuthReturns ==
  /\ wait.at = "waiting" /\ AuthAnswer # "none"
  /\ wait' = [wait EXCEPT !.at = "returned", !.auth = AuthAnswer]
  /\ UNCHANGED <<conn, task, call>>

-----------------------------------------------------------------------------
(* peer: the current one, if the caller's own target is the current one.   *)
PeerFor(key) ==
  IF conn.closed = "no" /\ conn.key # "none" /\ conn.key = key /\ conn.peer # 0 /\ task[conn.peer].open
  THEN conn.peer ELSE 0

(* invoke: the transport is chosen before anything is sent.                *)
Choose(c) ==
  /\ call[c].at = "none" /\ \A x \in Requests : x < c => call[x].at # "none"
  /\ \E key \in Keys, transport \in {"Auto", "Http", "Websocket"} :
       call' = [call EXCEPT ![c] = [@ EXCEPT !.key = key, !.transport = transport,
         !.at = IF transport = "Websocket" \/ (transport = "Auto" /\ PeerFor(key) # 0) THEN "ws" ELSE "http"]]
  /\ UNCHANGED <<conn, task, wait>>

(* A failure is terminal once the WebSocket was chosen.                    *)
WsFailed(c) == [call EXCEPT ![c].at = "failed"]

Dispatch(c) ==
  /\ call[c].at = "ws"
  /\ call' = IF PeerFor(call[c].key) = 0 THEN WsFailed(c)
             ELSE [call EXCEPT ![c].at = "sent", ![c].peer = PeerFor(call[c].key), ![c].ws = @ + 1]
  /\ UNCHANGED <<conn, task, wait>>

PostHttp(c) ==
  /\ call[c].at = "http"
  /\ call' = [call EXCEPT ![c].at = "sent", ![c].http = @ + 1]
  /\ UNCHANGED <<conn, task, wait>>

(* The answer, or an error of the transport that was used.                 *)
CallEnds(c) ==
  /\ call[c].at = "sent"
  /\ \/ /\ call[c].peer # 0 => task[call[c].peer].open
        /\ call' = [call EXCEPT ![c].at = "answered"]
     \/ call' = IF call[c].peer # 0 THEN WsFailed(c) ELSE [call EXCEPT ![c].at = "failed"]
  /\ UNCHANGED <<conn, task, wait>>

ConnectionNext ==
  \/ \E key \in Keys \cup {"none"} : SetTarget(key)
  \/ \E g \in Generations :
       Top(g) \/ Connect(g) \/ Stop(g) \/ Ready(g) \/ Up(g) \/ PeerCloses(g) \/ Noticed(g) \/ Down(g) \/ Backoff(g)
  \/ CloseConnection \/ Joined \/ Authenticate \/ AuthReturns
  \/ \E c \in Requests : Choose(c) \/ Dispatch(c) \/ PostHttp(c) \/ CallEnds(c)

ConnectionSpec == ConnectionInit /\ [][ConnectionNext]_nvars

-----------------------------------------------------------------------------
(* The peer that calls are given was opened with the current credentials,  *)
(* however late a connection attempt of a replaced target succeeds.        *)
PeerOfTarget == conn.peer # 0 => conn.peer = conn.generation /\ task[conn.peer].key = conn.key

(* A socket is open only while its task is there to close it: replacing or *)
(* closing the connection leaves none behind.                              *)
NoOrphanSocket ==
  /\ \A g \in Generations : task[g].open => task[g].at \in {"opened", "publishing", "up"}
  /\ conn.closed = "yes" => \A g \in Generations : ~task[g].open

(* A call goes over a connection that carries its own credentials, and is  *)
(* never sent a second time by another transport (README.md:9).            *)
SentAsOwn == \A c \in Requests : call[c].peer # 0 => task[call[c].peer].key = call[c].key
SentOnce == \A c \in Requests : call[c].ws + call[c].http <= 1

(* authenticate never answers with what became of other credentials: a     *)
(* rejection costs its session a forced refresh.                           *)
AnswerOfOwnKey ==
  wait.auth \in {"Authenticated", "Rejected"}
    => wait.generation # 0 /\ wait.auth \in task[wait.generation].said

(* Nothing is done with, or said of, credentials that are not the caller's,*)
(* and no socket outlives them.                                            *)
CredentialsKept == PeerOfTarget /\ SentAsOwn /\ SentOnce /\ AnswerOfOwnKey /\ NoOrphanSocket
=============================================================================
