------------------------------ MODULE ServerPeer ------------------------------
(***************************************************************************)
(* The server's end of a socket (ws/peer.go, runtime.go, events.go): the   *)
(* streams that a client opens, pulls and cancels while their producers    *)
(* run, and the notifications that it acknowledges.  Methods share their   *)
(* slots among all peers; one peer is modelled.                            *)
(***************************************************************************)
EXTENDS Integers, FiniteSets, Sequences

CONSTANTS
  Pulled,       \* streams the client opens
  MaxStreams,   \* MaxCallerStreams
  MaxSlots,     \* MaxConcurrency of the method
  Subscribers,  \* subscriptions
  Policy,       \* Policy[y]: "ordered", "drop" or "coalesce"
  MaxQueue,     \* events a subscription may hold
  MaxPublished  \* bound on events

ASSUME ServerPeerAssumption ==
  /\ {MaxStreams, MaxSlots, MaxPublished} \subseteq Nat /\ MaxQueue \in Nat \ {0}
  /\ \A y \in Subscribers : Policy[y] \in {"ordered", "drop", "coalesce"}

VARIABLES
  ended,      \* Peer::ended
  streams,     \* streams[x]: its open request, streamState and producer
  cancel,     \* cancel[x]: the request that cancels it
  sub,        \* sub[y]: its queue and worker, and what the client got
  published,  \* events so far
  ends        \* streams whose stream.end was sent

rvars == <<ended, streams, cancel, sub, published, ends>>

(* stop: is the context of the open request cancelled.  factory: "running",*)
(* "source" or "failed".  producer: a Next of the source.  next: the       *)
(* request that waits for it.                                              *)
NoStream == [at |-> "idle", counted |-> FALSE, stop |-> FALSE, factory |-> "none", source |-> "none",
             producer |-> "none", next |-> FALSE]
NoSub == [at |-> "idle", from |-> 0, queue |-> <<>>, wake |-> FALSE, sending |-> 0, got |-> <<>>]

ServerPeerInit ==
  /\ ended = FALSE /\ streams = [x \in Pulled |-> NoStream] /\ cancel = [x \in Pulled |-> "none"]
  /\ sub = [y \in Subscribers |-> NoSub] /\ published = 0 /\ ends = {}

Active == Cardinality({x \in Pulled : streams[x].counted})

-----------------------------------------------------------------------------
OnStream(x, k) == streams' = [streams EXCEPT ![x] = k] /\ UNCHANGED <<ended, sub, published>>

(* openStream: the quota, the method's slot, the factory.                  *)
OpenStream(x) ==
  /\ streams[x].at = "idle" /\ ~ended
  /\ OnStream(x, IF Active >= MaxStreams \/ Active >= MaxSlots THEN [streams[x] EXCEPT !.at = "failed"]
                 ELSE [streams[x] EXCEPT !.at = "opening", !.counted = TRUE, !.factory = "running"])
  /\ UNCHANGED <<cancel, ends>>
Factory(x, result) ==
  /\ streams[x].factory = "running"
  /\ OnStream(x, [streams[x] EXCEPT !.factory = result]) /\ UNCHANGED <<cancel, ends>>

(* The factory fails, or the request ends first; then a goroutine waits    *)
(* for the factory, closes what it made and releases the slot.             *)
OpenFails(x) ==
  /\ streams[x].at = "opening"
  /\ \/ streams[x].factory = "failed"
        /\ OnStream(x, [streams[x] EXCEPT !.at = "failed", !.counted = FALSE, !.factory = "none"])
     \/ OnStream(x, [streams[x] EXCEPT !.at = "late"])
  /\ UNCHANGED <<cancel, ends>>
Late(x) ==
  /\ streams[x].at = "late" /\ streams[x].factory \in {"source", "failed"}
  /\ OnStream(x, [streams[x] EXCEPT !.at = "failed", !.counted = FALSE, !.factory = "none",
                                   !.source = IF streams[x].factory = "source" THEN "closed" ELSE "none"])
  /\ UNCHANGED <<cancel, ends>>

(* finish: once, whoever calls it.  The end is sent if the peer still is.  *)
FinishedStream(k) == IF k.at = "open" THEN [k EXCEPT !.at = "finished"] ELSE k
SendEnd(x) == ends' = IF ended THEN ends ELSE ends \cup {x}
FinishStream(x) ==
  /\ streams[x].at = "open"
  /\ OnStream(x, FinishedStream(streams[x])) /\ SendEnd(x) /\ UNCHANGED cancel

(* A peer that closed meanwhile has not seen this stream.                  *)
Installed(x) == ~ended /\ ~streams[x].stop

Install(x) ==
  /\ streams[x].at = "opening" /\ streams[x].factory = "source"
  /\ LET k == [streams[x] EXCEPT !.at = "open", !.factory = "none", !.source = "held"] IN
     IF Installed(x) THEN OnStream(x, k) /\ UNCHANGED ends
     ELSE OnStream(x, FinishedStream(k)) /\ SendEnd(x)
  /\ UNCHANGED cancel

Next(x) ==
  /\ streams[x].at = "open" /\ streams[x].producer = "none" /\ ~streams[x].next /\ ~ended
  /\ OnStream(x, [streams[x] EXCEPT !.producer = "running", !.next = TRUE]) /\ UNCHANGED <<cancel, ends>>
Produce(x, result) ==
  /\ streams[x].producer = "running"
  /\ OnStream(x, [streams[x] EXCEPT !.producer = result]) /\ UNCHANGED <<cancel, ends>>

(* next returns: with the producer's answer, or because the stream or the  *)
(* request has ended.                                                      *)
NextReturns(x) ==
  /\ streams[x].next
  /\ \/ /\ streams[x].producer \in {"chunk", "end"}
        /\ LET k == [streams[x] EXCEPT !.next = FALSE, !.producer = "none"] IN
           IF streams[x].producer = "end" /\ k.at = "open" THEN OnStream(x, FinishedStream(k)) /\ SendEnd(x)
           ELSE OnStream(x, k) /\ UNCHANGED ends
     \/ /\ streams[x].at = "finished" \/ streams[x].stop
        /\ OnStream(x, [streams[x] EXCEPT !.next = FALSE]) /\ UNCHANGED ends
     \/ /\ streams[x].at = "open"
        /\ OnStream(x, FinishedStream([streams[x] EXCEPT !.next = FALSE])) /\ SendEnd(x)
  /\ UNCHANGED cancel

(* Mutant: the source is closed under its producer.                        *)
AtOnce(x) == TRUE
(* finish waits for the next that was under way.                           *)
ProducerOver(x) == streams[x].producer # "running"

Cleaned(x) ==
  /\ streams[x].at = "finished" /\ streams[x].source = "held" /\ ProducerOver(x)
  /\ OnStream(x, [streams[x] EXCEPT !.source = "closed", !.counted = FALSE]) /\ UNCHANGED <<cancel, ends>>

(* stream.cancel: it reads the tables, then cancels the open request and   *)
(* finishes the stream, and waits for the cleanup, though not for ever.    *)
ReadTables(x) ==
  /\ cancel[x] = "none" /\ streams[x].at \in {"opening", "open"} /\ ~ended
  /\ cancel' = [cancel EXCEPT ![x] = streams[x].at] /\ UNCHANGED <<ended, streams, sub, published, ends>>
Cancel(x) ==
  /\ cancel[x] \in {"opening", "open"}
  /\ IF cancel[x] = "open"
     THEN /\ cancel' = [cancel EXCEPT ![x] = "waiting"]
          /\ OnStream(x, FinishedStream(streams[x])) /\ IF streams[x].at = "open" THEN SendEnd(x) ELSE UNCHANGED ends
     ELSE /\ cancel' = [cancel EXCEPT ![x] = "done"]
          /\ OnStream(x, [streams[x] EXCEPT !.stop = TRUE]) /\ UNCHANGED ends
CancelEnds(x) ==
  /\ cancel[x] = "waiting"
  /\ cancel' = [cancel EXCEPT ![x] = IF streams[x].source = "closed" THEN "done" ELSE "timeout"]
  /\ UNCHANGED <<ended, streams, sub, published, ends>>

-----------------------------------------------------------------------------
(* Close: the streams finish, the subscriptions and the opens are          *)
(* cancelled.                                                              *)
ClosedStreams == [x \in Pulled |-> FinishedStream([streams[x] EXCEPT !.stop = TRUE])]
NobodySubscribed ==
  [y \in Subscribers |-> IF sub[y].at = "on" THEN [NoSub EXCEPT !.at = "gone"] ELSE sub[y]]
ClosePeer ==
  /\ ~ended /\ ended' = TRUE /\ streams' = ClosedStreams
  /\ sub' = NobodySubscribed
  /\ UNCHANGED <<cancel, published, ends>>

Subscribe(y) ==
  /\ sub[y].at = "idle" /\ ~ended
  /\ sub' = [sub EXCEPT ![y].at = "on", ![y].from = published]
  /\ UNCHANGED <<ended, streams, cancel, published, ends>>

Unsubscribe(y) ==
  /\ sub[y].at = "on" /\ sub' = [sub EXCEPT ![y] = [NoSub EXCEPT !.at = "gone"]]
  /\ UNCHANGED <<ended, streams, cancel, published, ends>>

Drops(y) == Policy[y] = "drop" /\ sub[y].queue # <<>>
Full(y) == Policy[y] # "coalesce" /\ Len(sub[y].queue) >= MaxQueue

Queued(k, coalesce) ==
  [k EXCEPT !.queue = (IF coalesce THEN <<>> ELSE @) \o <<published'>>, !.wake = TRUE]

(* Publish: a full queue closes the connection.                            *)
PublishEvent ==
  /\ published < MaxPublished /\ published' = published + 1
  /\ LET on == {y \in Subscribers : sub[y].at = "on" /\ ~Drops(y)} IN
     IF \E y \in on : Full(y)
     THEN /\ ended' = TRUE /\ streams' = ClosedStreams
          /\ sub' = NobodySubscribed
     ELSE /\ sub' = [y \in Subscribers |-> IF y \in on THEN Queued(sub[y], Policy[y] = "coalesce") ELSE sub[y]]
          /\ UNCHANGED <<ended, streams>>
  /\ UNCHANGED <<cancel, ends>>

(* The worker takes the wake, drains the queue, and waits for each         *)
(* acknowledgement; an answer that does not come closes the connection.    *)
DeliverNext(y) ==
  /\ sub[y].at = "on" /\ sub[y].wake /\ sub[y].sending = 0
  /\ sub' = [sub EXCEPT ![y] = IF @.queue = <<>> THEN [@ EXCEPT !.wake = FALSE]
                               ELSE [@ EXCEPT !.sending = Head(sub[y].queue), !.queue = Tail(sub[y].queue)]]
  /\ UNCHANGED <<ended, streams, cancel, published, ends>>
Acknowledge(y) ==
  /\ sub[y].at = "on" /\ sub[y].sending # 0
  /\ sub' = [sub EXCEPT ![y].sending = 0, ![y].got = Append(@, sub[y].sending)]
  /\ UNCHANGED <<ended, streams, cancel, published, ends>>

ServerPeerNext ==
  \/ \E x \in Pulled :
       \/ OpenStream(x) \/ OpenFails(x) \/ Late(x) \/ Install(x) \/ FinishStream(x)
       \/ Next(x) \/ NextReturns(x) \/ Cleaned(x)
       \/ ReadTables(x) \/ Cancel(x) \/ CancelEnds(x)
       \/ \E result \in {"source", "failed"} : Factory(x, result)
       \/ \E result \in {"chunk", "end"} : Produce(x, result)
  \/ \E y \in Subscribers : Subscribe(y) \/ Unsubscribe(y) \/ DeliverNext(y) \/ Acknowledge(y)
  \/ PublishEvent \/ ClosePeer

ServerPeerSpec == ServerPeerInit /\ [][ServerPeerNext]_rvars

-----------------------------------------------------------------------------
(* A slot is given away only when the factory, the producer and the source *)
(* it was taken for are done, however the stream was left; so no more of   *)
(* them run than the method allows.                                        *)
Alive(x) == streams[x].factory \in {"running", "source"} \/ streams[x].producer = "running" \/ streams[x].source = "held"
SlotsHeld ==
  /\ Cardinality({x \in Pulled : Alive(x)}) <= MaxSlots
  /\ \A x \in Pulled : streams[x].source = "closed" => streams[x].producer # "running"

(* A closed peer has no open stream; a stream that ended before had its    *)
(* end sent; and a cancellation that was answered has left none open, but  *)
(* for one that crossed the opening: its stream is stopped.                *)
StreamsEnd ==
  \A x \in Pulled :
    /\ streams[x].at = "open" => ~ended
    /\ streams[x].at = "finished" => ended \/ x \in ends
    /\ cancel[x] = "done" => streams[x].source = "closed" \/ streams[x].stop

(* What an ordered subscription received, is sending and still holds is    *)
(* everything published since; of one that coalesces, it ends with the     *)
(* newest; and while something is held, its worker is awake.               *)
EventsKept ==
  \A y \in Subscribers : sub[y].at = "on" =>
    LET k == sub[y]
        all == k.got \o (IF k.sending = 0 THEN <<>> ELSE <<k.sending>>) \o k.queue IN
    /\ Policy[y] = "ordered" => all = [i \in 1..(published - k.from) |-> k.from + i]
    /\ Policy[y] = "coalesce" /\ published > k.from => all # <<>> /\ all[Len(all)] = published
    /\ k.queue # <<>> => k.wake

(* A peer is left with no slot, stream or notification unaccounted for.    *)
ServerPeerKept == SlotsHeld /\ StreamsEnd /\ EventsKept
=============================================================================
