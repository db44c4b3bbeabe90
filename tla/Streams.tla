-------------------------------- MODULE Streams --------------------------------
(***************************************************************************)
(* Response streams of the Gateway (gateway/rust: stream.rs, open_stream,  *)
(* napi/streams.rs).  A stream is opened under an admission, becomes an    *)
(* actor that polls its source once per next, and ends by its source, a    *)
(* cancellation, its owner, its caller's cleanup or a time limit, while    *)
(* other threads are inside next, drop it, or are still opening.           *)
(***************************************************************************)
EXTENDS Integers, Sequences, FiniteSets

CONSTANTS
  Streams,        \* ids of streams: numbers, taken in their order
  Nexts,          \* Nexts[s]: calls of next on stream s: numbers, taken in their order
  MaxStreams,     \* max_caller_streams
  MaxInstances    \* bound on registrations of the owner

ASSUME StreamsAssumption ==
  Streams \subseteq Nat /\ Nexts \in [Streams -> SUBSET (Nat \ {0})]
  /\ MaxStreams \in Nat \ {0} /\ MaxInstances \in Nat \ {0}

VARIABLES
  owner,      \* the instance that has the name; a former one is closed
  stream,     \* stream[s]: its opening, its Life and its actor
  next,       \* next[s][n]
  cleaned     \* history: streams that were there when their caller was cleaned up

svars == <<owner, stream, next, cleaned>>

NoStream == [at |-> "none", via |-> "unset", inst |-> 0, session |-> "none", bound |-> FALSE, adm |-> FALSE,
             cancel |-> FALSE, tracked |-> FALSE, busy |-> FALSE, queue |-> <<>>,
             actor |-> "idle", request |-> 0, made |-> 0, terminal |-> "unset"]
NoNext == [at |-> "none", late |-> FALSE, got |-> "unset"]

StreamsInit ==
  /\ owner = 1
  /\ stream = [s \in Streams |-> NoStream]
  /\ next = [s \in Streams |-> [n \in Nexts[s] |-> NoNext]]
  /\ cleaned = {}

OwnerClosed(s) == stream[s].inst # owner
NewestStream(s) == stream[s] = NoStream /\ \A x \in Streams : x < s => stream[x] # NoStream

-----------------------------------------------------------------------------

(* An admission lasts until the actor has dropped its source.              *)
Admitted == {s \in Streams : stream[s].at \in {"opening", "opened", "live"}}

(* prepare_stream, on the host's thread.                                   *)
PrepareStream(s) ==
  /\ NewestStream(s)
  /\ stream' = [stream EXCEPT ![s].at = "prepared", ![s].via = "native", ![s].session = "prepared"]
  /\ UNCHANGED <<owner, next, cleaned>>

(* open_stream, up to the handler; a session that was cancelled is gone.   *)
OpenStream(s) ==
  /\ stream[s].at = "prepared" \/ NewestStream(s)
  /\ stream' = [stream EXCEPT ![s] =
       IF (@.at = "prepared" /\ @.session = "removed") \/ Cardinality(Admitted) >= MaxStreams
       THEN [@ EXCEPT !.at = "refused", !.session = "removed"]
       ELSE [@ EXCEPT !.at = "opening", !.inst = owner]]
  /\ UNCHANGED <<owner, next, cleaned>>

(* open_stream, its select: the caller, the owner, then the handler, which *)
(* opens, fails or takes too long; outside it, the session's cancellation. *)
Opened(s) ==
  /\ stream[s].at = "opening"
  /\ LET r == stream[s] IN
     \/ /\ ~r.adm /\ ~OwnerClosed(s) /\ r.session # "removed"
        /\ stream' = [stream EXCEPT ![s].at = "opened"]
     \/ stream' = [stream EXCEPT ![s].at = "refused",
                                 ![s].session = IF @ = "prepared" THEN "removed" ELSE @]
  /\ UNCHANGED <<owner, next, cleaned>>

(* start and track_stream.                                                 *)
StartStream(s) ==
  /\ stream[s].at = "opened"
  /\ stream' = [stream EXCEPT ![s].at = "live", ![s].tracked = TRUE]
  /\ UNCHANGED <<owner, next, cleaned>>

(* stream_control: the handle belongs to the session, or is dropped.       *)
AttachHandle(s) ==
  stream' = [stream EXCEPT ![s] =
    IF @.session = "prepared" THEN [@ EXCEPT !.session = "attached", !.bound = TRUE]
    ELSE [@ EXCEPT !.session = "dropped", !.bound = TRUE, !.cancel = TRUE]]

Attach(s) ==
  /\ stream[s].via = "native" /\ stream[s].tracked /\ ~stream[s].bound
  /\ AttachHandle(s)
  /\ UNCHANGED <<owner, next, cleaned>>

-----------------------------------------------------------------------------
Terminal(s) == stream[s].terminal
Usable(s) == stream[s].tracked /\ (stream[s].via = "native" => stream[s].session = "attached")

(* StreamHandle::next: the terminal state, then one at a time ...          *)
Ask(s, n) ==
  /\ Usable(s) /\ next[s][n] = NoNext /\ \A m \in Nexts[s] : m < n => next[s][m] # NoNext
  /\ LET late == \E m \in Nexts[s] : next[s][m].at = "dropped" IN
     IF Terminal(s) # "unset" \/ stream[s].busy
     THEN /\ next' = [next EXCEPT ![s][n] =
                [at |-> "over", late |-> late, got |-> IF Terminal(s) # "unset" THEN Terminal(s) ELSE "full"]]
          /\ UNCHANGED stream
     ELSE /\ next' = [next EXCEPT ![s][n] = [at |-> "asking", late |-> late, got |-> "unset"]]
          /\ stream' = [stream EXCEPT ![s].busy = TRUE]
  /\ UNCHANGED <<owner, cleaned>>

(* ... and the request, if the actor is still there and has room.          *)
Send(s, n) ==
  /\ next[s][n].at = "asking"
  /\ IF stream[s].at = "live" /\ stream[s].queue = <<>>
     THEN /\ stream' = [stream EXCEPT ![s].queue = <<n>>]
          /\ next' = [next EXCEPT ![s][n].at = "waiting"]
     ELSE /\ stream' = [stream EXCEPT ![s].busy = FALSE]
          /\ next' = [next EXCEPT ![s][n].at = "over",
                                  ![s][n].got = IF Terminal(s) # "unset" THEN Terminal(s) ELSE "closed"]
  /\ UNCHANGED <<owner, cleaned>>

(* The answer is there and the future is polled.                           *)
GetAnswer(s, n) ==
  /\ next[s][n].at = "answered"
  /\ next' = [next EXCEPT ![s][n].at = "over"]
  /\ stream' = [stream EXCEPT ![s].busy = FALSE]
  /\ UNCHANGED <<owner, cleaned>>

(* Or the future is dropped: the next one may begin, then the stream is    *)
(* cancelled (Pending::drop).                                              *)
DropNext(s, n) ==
  /\ next[s][n].at \in {"waiting", "answered"}
  /\ next' = [next EXCEPT ![s][n].at = "dropping", ![s][n].got = "unset"]
  /\ stream' = [stream EXCEPT ![s].busy = FALSE]
  /\ UNCHANGED <<owner, cleaned>>

(* Mutant: dropping a request does not end the stream.                     *)
DroppedQuietly(s) == UNCHANGED stream

DroppedCancels(s) == stream' = [stream EXCEPT ![s].cancel = TRUE]

EndDrop(s, n) ==
  /\ next[s][n].at = "dropping"
  /\ next' = [next EXCEPT ![s][n].at = "dropped"]
  /\ DroppedCancels(s)
  /\ UNCHANGED <<owner, cleaned>>

-----------------------------------------------------------------------------
(* The actor.  Its select looks at the cancellation and at the owner       *)
(* before it does any work.                                                *)
(* Mutant: the work is looked at first.                                    *)
GoesOnBlindly(s) == stream[s].at = "live"

GoesOn(s) == stream[s].at = "live" /\ ~stream[s].cancel /\ ~OwnerClosed(s)

Take(s) ==
  /\ GoesOn(s) /\ stream[s].actor = "idle" /\ stream[s].queue # <<>>
  /\ stream' = [stream EXCEPT ![s].actor = "producing", ![s].request = Head(stream[s].queue),
                             ![s].queue = <<>>]
  /\ UNCHANGED <<owner, next, cleaned>>

Produce(s) ==
  /\ GoesOn(s) /\ stream[s].actor = "producing"
  /\ stream' = [stream EXCEPT ![s].actor = "made", ![s].made = @ + 1]
  /\ UNCHANGED <<owner, next, cleaned>>

Answered(s, n, got) ==
  IF n # 0 /\ next[s][n].at = "waiting" THEN [next[s] EXCEPT ![n].at = "answered", ![n].got = got] ELSE next[s]

Deliver(s) ==
  /\ stream[s].at = "live" /\ stream[s].actor = "made"
  /\ next' = [next EXCEPT ![s] = Answered(s, stream[s].request, "chunk")]
  /\ stream' = [stream EXCEPT ![s].actor = "idle", ![s].request = 0]
  /\ UNCHANGED <<owner, cleaned>>

Endings(s) ==
  IF stream[s].cancel THEN {"cancelled"}
  ELSE IF OwnerClosed(s) THEN {"unavailable"}
  ELSE {"timeout"} \cup IF stream[s].actor = "producing" THEN {"end", "failed"} ELSE {}

(* The request that was taken gets the ending; one that was not is dropped *)
(* with the channel.                                                       *)
Answers(s, got) ==
  [n \in Nexts[s] |->
     IF next[s][n].at # "waiting" THEN next[s][n]
     ELSE [next[s][n] EXCEPT !.at = "answered", !.got = IF n = stream[s].request THEN got ELSE "closed"]]

Finish(s) ==
  /\ stream[s].at = "live" /\ stream[s].actor # "made"
  /\ \E got \in Endings(s) :
       /\ stream' = [stream EXCEPT ![s].at = "gone", ![s].terminal = got, ![s].actor = "idle",
                                   ![s].request = 0, ![s].queue = <<>>]
       /\ next' = [next EXCEPT ![s] = Answers(s, got)]
  /\ UNCHANGED <<owner, cleaned>>

-----------------------------------------------------------------------------
(* cancel, a dropped stream, stream.cancel (the session goes at once).     *)
SessionLeft(s) == IF stream[s].session = "attached" THEN "dropped" ELSE "removed"

CancelStream(s) ==
  /\ stream[s].at \in {"prepared", "opening", "opened", "live"}
  /\ stream[s].via # "native" => Usable(s)
  /\ stream[s].session # "removed"
  /\ stream' = [stream EXCEPT ![s].session = IF stream[s].via = "native" THEN SessionLeft(s) ELSE @,
                              ![s].cancel = @ \/ Usable(s)]
  /\ UNCHANGED <<owner, next, cleaned>>

(* cleanup_stream_caller: admissions, then the streams that are tracked.   *)
CleanupStreams ==
  /\ cleaned = {} /\ Admitted # {} /\ cleaned' = Admitted
  /\ stream' = [s \in Streams |->
       IF s \notin Admitted THEN stream[s]
       ELSE [stream[s] EXCEPT !.adm = TRUE, !.cancel = @ \/ stream[s].tracked]]
  /\ UNCHANGED <<owner, next>>

ReplaceOwner ==
  /\ owner < MaxInstances /\ owner' = owner + 1
  /\ UNCHANGED <<stream, next, cleaned>>

(* The session of a stream that has ended is removed.                      *)
Forget(s) ==
  /\ stream[s].at = "gone" /\ stream[s].session = "attached"
  /\ stream' = [stream EXCEPT ![s].session = "dropped"]
  /\ UNCHANGED <<owner, next, cleaned>>

Actor(s) == Take(s) \/ Produce(s) \/ Deliver(s) \/ Finish(s)
StreamsNext ==
  \/ \E s \in Streams : PrepareStream(s) \/ OpenStream(s) \/ Opened(s) \/ StartStream(s) \/ Attach(s)
                        \/ Actor(s) \/ CancelStream(s) \/ Forget(s)
  \/ \E s \in Streams : \E n \in Nexts[s] : Ask(s, n) \/ Send(s, n) \/ GetAnswer(s, n) \/ DropNext(s, n) \/ EndDrop(s, n)
  \/ CleanupStreams \/ ReplaceOwner

StreamsSpec == StreamsInit /\ [][StreamsNext]_svars

-----------------------------------------------------------------------------
(* A caller never has more streams at work than it may have, cancelled     *)
(* ones included until their source is dropped.                            *)
StreamsWithin ==
  Cardinality({s \in Streams : stream[s].at \in {"opening", "opened", "live"}}) <= MaxStreams

(* A next that begins after another was dropped gets no chunk: the chunk   *)
(* that went with the dropped one is never skipped in silence.             *)
NoSilentGap == \A s \in Streams : \A n \in Nexts[s] : next[s][n].late => next[s][n].got # "chunk"

(* Nobody waits on a stream that has ended.                                *)
NobodyLeftWaiting == \A s \in Streams : stream[s].at = "gone" => \A n \in Nexts[s] : next[s][n].at # "waiting"

(* A stream whose session went away while it was being opened does not     *)
(* outlive it: nobody could end it any more.                               *)
LateOpenEnds ==
  \A s \in Streams :
    stream[s].at = "live" /\ stream[s].bound => stream[s].session = "attached" \/ stream[s].cancel

(* A stream lives as long as somebody can end it, and ends for all of them.*)
StreamsKept == StreamsWithin /\ NoSilentGap /\ NobodyLeftWaiting /\ LateOpenEnds

(* A stream makes no chunk once it was cancelled or its owner was replaced. *)
NoLateChunk ==
  [][\A s \in Streams : stream'[s].made # stream[s].made
       => ~stream[s].cancel /\ stream[s].inst = owner]_svars

(* docs/gateway.md: the cleanup of a caller ends its streams, those that   *)
(* are being opened included.                                              *)
CleanupEnds == \A s \in cleaned : stream[s].at = "live" => stream[s].cancel
=============================================================================
