---------------------------------- MODULE Peer ----------------------------------
(***************************************************************************)
(* The client's end of the authenticated WebSocket (xw-api websocket.rs):  *)
(* requests and their answers, one response stream that is read by the     *)
(* requests of Nexts, and events the server delivers.  Frames of one       *)
(* direction arrive in order; a request can be given up, time out or find  *)
(* the socket gone at any moment.                                          *)
(***************************************************************************)
EXTENDS Integers, Sequences, FiniteSets

CONSTANTS
  Invokes,      \* unary requests; all ids are numbers
  Open, Nexts,  \* the request that opens the stream, and those that read it
  Events,       \* ids of events
  Limit,        \* LIMIT, of pending requests and of served events
  QueueLimit    \* capacity of the outgoing queue

ASSUME PeerAssumption ==
  /\ Nexts \cup Invokes \cup {Open} \subseteq Nat /\ Open \notin Nexts \cup Invokes /\ Nexts \cap Invokes = {}
  /\ Limit \in Nat \ {0} /\ QueueLimit \in Nat \ {0}

VARIABLES
  peer,     \* State of Peer
  req,      \* req[r]: the call that waits
  stream,   \* ResponseStream and its terminal channel
  event,    \* event[e]: its delivery
  out,      \* the outgoing queue
  in,       \* frames the server has sent
  served    \* server: requests it has, cancellations it was told, events it sent

pvars == <<peer, req, stream, event, out, in, served>>

Requested == Invokes \cup {Open} \cup Nexts
Control(r) == -1 - r   \* the request that tells the server of r
Frame(op, id) == [op |-> op, id |-> id]

PeerInit ==
  /\ peer = [closed |-> FALSE, pending |-> {}, registered |-> FALSE, serving |-> {}]
  /\ req = [r \in Requested |-> [at |-> "none", reply |-> "none"]]
  /\ stream = [at |-> "none", terminal |-> "none", ended |-> FALSE]
  /\ event = [e \in Events |-> "none"]
  /\ out = <<>> /\ in = <<>>
  /\ served = [got |-> {}, has |-> {}, told |-> {}, sent |-> {}, over |-> FALSE]

-----------------------------------------------------------------------------
(* close_with: every pending request gets the reason.                      *)
AnswerAll ==
  req' = [r \in Requested |-> IF r \in peer.pending THEN [req[r] EXCEPT !.reply = "closed"] ELSE req[r]]

CloseWith ==
  /\ AnswerAll
  /\ peer' = [closed |-> TRUE, pending |-> {}, registered |-> FALSE, serving |-> {}]
  /\ stream' = IF peer.registered THEN [stream EXCEPT !.terminal = "error"] ELSE stream
  /\ out' = <<>>

(* The socket breaks, connection.end arrives, or the owner closes.         *)
Close ==
  /\ ~peer.closed /\ CloseWith
  /\ UNCHANGED <<event, in, served>>

(* send: what does not fit closes the connection.                          *)
Fits == Len(out) < QueueLimit

-----------------------------------------------------------------------------
(* Mutant: the stream is entered when its opening has been answered.       *)
RegisteredLate == FALSE
(* stream: it is entered before the request is, so no end is missed.       *)
Registered == TRUE

(* request: the entry comes before the frame.                              *)
Insert(r) ==
  /\ req[r].at = "none"
  /\ r \in Nexts => stream.at = "open" /\ \A n \in Nexts : n < r => req[n].at = "done"
  /\ IF peer.closed \/ Cardinality(peer.pending) >= Limit
     THEN /\ req' = [req EXCEPT ![r] = [at |-> "done", reply |-> "refused"]]
          /\ stream' = IF r = Open THEN [stream EXCEPT !.at = "finished"] ELSE stream
          /\ UNCHANGED peer
     ELSE /\ req' = [req EXCEPT ![r].at = "inserted"]
          /\ peer' = [peer EXCEPT !.pending = @ \cup {r}, !.registered = IF r = Open THEN Registered ELSE @]
          /\ stream' = IF r = Open THEN [stream EXCEPT !.at = "opening"] ELSE stream
  /\ UNCHANGED <<event, out, in, served>>

(* A stream that is read finds its terminal state first.                   *)
EndRead(n) ==
  /\ n \in Nexts /\ req[n].at \in {"none", "inserted", "waiting"}
  /\ \A m \in Nexts : m < n => req[m].at = "done"
  /\ stream.at = "open" /\ stream.terminal # "none"
  /\ req' = [req EXCEPT ![n] = [at |-> "done", reply |-> stream.terminal]]
  /\ stream' = [stream EXCEPT !.at = "finished"]
  /\ peer' = [peer EXCEPT !.pending = (@ \ {n}) \cup IF req[n].at # "none" THEN {Control(n)} ELSE {}]
  /\ UNCHANGED <<event, out, in, served>>

Write(r) ==
  /\ req[r].at = "inserted" /\ ~peer.closed
  /\ IF Fits
     THEN /\ out' = Append(out, Frame("request", r))
          /\ req' = [req EXCEPT ![r].at = "waiting"]
          /\ UNCHANGED <<peer, stream>>
     ELSE CloseWith
  /\ UNCHANGED <<event, in, served>>

(* Pending::drop: the entry goes, and the server is told.                  *)
Tells(r) == IF peer.closed THEN {} ELSE {Control(r)}

(* ResponseStream::cancel, when the stream is given up or dropped.         *)
ToldStream == IF peer.closed \/ stream.at = "finished" THEN {} ELSE {Control(Open)}

(* The caller cancels, the time is over, or the socket is gone meanwhile.  *)
GiveUp(r) ==
  /\ req[r].at \in {"inserted", "waiting"} /\ (req[r].at = "inserted" => peer.closed)
  /\ req' = [req EXCEPT ![r] = [at |-> "done", reply |-> "abandoned"]]
  /\ IF r \in Invokes
     THEN peer' = [peer EXCEPT !.pending = (@ \ {r}) \cup Tells(r)] /\ UNCHANGED stream
     ELSE /\ peer' = [peer EXCEPT !.pending = (@ \ {r}) \cup Tells(r) \cup ToldStream, !.registered = FALSE]
          /\ stream' = [stream EXCEPT !.at = "finished"]
  /\ UNCHANGED <<event, out, in, served>>

(* The stream is dropped between two reads.                                *)
DropStream ==
  /\ stream.at = "open" /\ \A n \in Nexts : req[n].at \in {"none", "done"}
  /\ peer' = [peer EXCEPT !.pending = @ \cup ToldStream, !.registered = FALSE]
  /\ stream' = [stream EXCEPT !.at = "finished"]
  /\ UNCHANGED <<req, event, out, in, served>>

(* cancel_remote: a request nobody waits for (one more when the table and  *)
(* its reserve are full is not sent at all).                               *)
Tell(r) ==
  /\ Control(r) \in peer.pending
  /\ IF Fits
     THEN /\ out' = Append(out, Frame("cancel", r))
          /\ peer' = [peer EXCEPT !.pending = @ \ {Control(r)}]
          /\ UNCHANGED <<req, stream>>
     ELSE CloseWith
  /\ UNCHANGED <<event, in, served>>

(* The answer is read.                                                     *)
Finish(r) ==
  /\ req[r].at = "waiting" /\ req[r].reply # "none"
  /\ r \in Nexts => stream.terminal = "none"
  /\ req' = [req EXCEPT ![r].at = "done"]
  /\ stream' = CASE r = Open /\ req[r].reply = "ok" -> [stream EXCEPT !.at = "open"]
                 [] r = Open /\ req[r].reply # "ok" -> [stream EXCEPT !.at = "finished"]
                 [] r \in Nexts /\ req[r].reply # "ok" -> [stream EXCEPT !.at = "finished"]
                 [] OTHER -> stream
  /\ peer' = [peer EXCEPT !.registered = (@ \/ (r = Open /\ req[r].reply = "ok" /\ ~Registered))
                                           /\ stream'.at # "finished",
                          !.pending = @ \cup IF r \in Nexts \cup {Open} /\ req[r].reply = "failed" THEN ToldStream ELSE {}]
  /\ UNCHANGED <<event, out, in, served>>

-----------------------------------------------------------------------------
(* The server reads a frame; answers, ends its stream, or sends an event.  *)
ServerReads ==
  /\ out # <<>>
  /\ LET f == Head(out) IN
       served' = CASE f.op = "request" -> [served EXCEPT !.has = @ \cup {f.id}, !.got = @ \cup {f.id}]
                   [] f.op = "cancel" -> [served EXCEPT !.told = @ \cup {f.id}]
                   [] f.op = "event" -> served
  /\ out' = Tail(out)
  /\ UNCHANGED <<peer, req, stream, event, in>>

ServerSends ==
  /\ ~peer.closed
  /\ \/ \E r \in served.has : \E op \in {"ok", "failed"} \cup IF r \in Nexts THEN {"done"} ELSE {} :
          /\ in' = Append(in, Frame(op, r))
          /\ served' = [served EXCEPT !.has = @ \ {r}, !.over = @ \/ op = "done" \/ <<op, r>> = <<"failed", Open>>]
     \/ /\ Open \in served.got \ served.has /\ ~served.over
        /\ in' = Append(in, Frame("end", Open)) /\ served' = [served EXCEPT !.over = TRUE]
     \/ \E e \in Events \ served.sent :
          /\ in' = Append(in, Frame("event", e)) /\ served' = [served EXCEPT !.sent = @ \cup {e}]
  /\ UNCHANGED <<peer, req, stream, event, out>>

(* receive                                                                 *)
Receive ==
  /\ in # <<>> /\ ~peer.closed
  /\ in' = Tail(in)
  /\ LET f == Head(in) IN
     CASE f.op \in {"ok", "done", "failed"} ->
            /\ req' = IF f.id \in peer.pending THEN [req EXCEPT ![f.id].reply = f.op] ELSE req
            /\ peer' = [peer EXCEPT !.pending = @ \ {f.id}]
            /\ UNCHANGED <<stream, event, out>>
       [] f.op = "end" ->
            /\ stream' = [stream EXCEPT !.terminal = IF peer.registered THEN "end" ELSE @, !.ended = TRUE]
            /\ peer' = [peer EXCEPT !.registered = FALSE]
            /\ UNCHANGED <<req, event, out>>
       [] f.op = "event" /\ Cardinality(peer.serving) >= Limit -> CloseWith /\ UNCHANGED event
       [] f.op = "event" /\ ~(Cardinality(peer.serving) >= Limit) ->
            /\ peer' = [peer EXCEPT !.serving = @ \cup {f.id}]
            /\ event' = [event EXCEPT ![f.id] = "serving"]
            /\ UNCHANGED <<req, stream, out>>
  /\ UNCHANGED served

(* The event's task: its sink has an answer, or the connection is closed.  *)
Deliver(e) ==
  /\ event[e] = "serving"
  /\ event' = [event EXCEPT ![e] = IF peer.closed THEN "dropped" ELSE "answered"]
  /\ IF peer.closed THEN UNCHANGED <<peer, req, stream, out>>
     ELSE IF Fits
     THEN /\ peer' = [peer EXCEPT !.serving = @ \ {e}]
          /\ out' = Append(out, Frame("event", e))
          /\ UNCHANGED <<req, stream>>
     ELSE CloseWith
  /\ UNCHANGED <<in, served>>

PeerNext ==
  \/ \E r \in Requested : Insert(r) \/ EndRead(r) \/ Write(r) \/ GiveUp(r) \/ Tell(r) \/ Finish(r)
  \/ \E e \in Events : Deliver(e)
  \/ DropStream \/ Close \/ ServerReads \/ ServerSends \/ Receive

PeerSpec == PeerInit /\ [][PeerNext]_pvars

-----------------------------------------------------------------------------
(* Who waits is either in the table of an open connection or has an answer,*)
(* so closing leaves nobody to a timeout; and the table holds nobody else. *)
NobodyForgotten ==
  \A r \in Requested :
    /\ req[r].at = "waiting" /\ req[r].reply = "none" => r \in peer.pending /\ ~peer.closed
    /\ r \in peer.pending => req[r].at \in {"inserted", "waiting"}

(* A stream that its server has ended, or whose connection is closed, is   *)
(* known to have ended, even when the end overtakes the opening's answer.  *)
EndIsKnown == stream.at \in {"opening", "open"} /\ (stream.ended \/ peer.closed) => stream.terminal # "none"

(* A server that works on a request or a stream its client has left is     *)
(* told, unless the connection goes first.                                 *)
LeftIsTold ==
  \A r \in Requested :
    /\ ~peer.closed
    /\ \/ req[r].reply = "abandoned" /\ r \in served.has
       \/ r = Open /\ stream.at = "finished" /\ Open \in served.got /\ ~served.over
    => \/ r \in served.told \/ Control(r) \in peer.pending
       \/ Frame("cancel", r) \in {out[i] : i \in 1..Len(out)}

(* The client's end of a connection keeps its promises to both sides.      *)
PeerKept == NobodyForgotten /\ EndIsKnown /\ LeftIsTold
=============================================================================
