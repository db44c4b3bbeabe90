--------------------------------- MODULE Events ---------------------------------
(***************************************************************************)
(* Events of the Gateway (gateway/rust/src/event.rs, and the subscriptions *)
(* of napi/mod.rs).  Every subscription has a queue that one task drains,  *)
(* one sink at a time.  A local one hears the owner that exports the event *)
(* in this registry; a remote one hears the host, over the transport it    *)
(* was last attached to, while transports and owners come and go.          *)
(***************************************************************************)
EXTENDS Integers, Sequences, SequencesExt

CONSTANTS
  Local, Remote,  \* ids of subscriptions of either kind
  Persistent,     \* those that outlive their source
  Policy,         \* Policy[k]: "Ordered", "Coalesce" or "Drop", of source or transport k
  MaxSources,     \* bound on the instances of the exporting owner
  MaxTransports,  \* bound on transports
  MaxEvents,      \* bound on events
  MaxAttempts     \* bound on the attempts to attach one consumer

Subs == Local \cup Remote
Policies == {"Ordered", "Coalesce", "Drop"}

ASSUME EventsAssumption ==
  /\ Local \cap Remote = {} /\ Persistent \subseteq Subs
  /\ MaxSources \in Nat \ {0} /\ MaxTransports \in Nat /\ MaxEvents \in Nat /\ MaxAttempts \in Nat
  /\ \A k \in 1..MaxSources \cup 1..MaxTransports : Policy[k] \in Policies

VARIABLES
  sources,    \* instances of the owner so far
  source,     \* the one that exports the event, 0: none
  transports, \* transports so far
  transport,  \* RemoteState.transport, 0: none
  sub,        \* sub[i]: whether it is there; of a consumer its generation and binding
  attempt,    \* activations that await their transport
  replay,     \* replay[t]: the ids set_transport has yet to activate
  queue,      \* queue[i]: the DeliveryQueue
  events      \* events so far

evars == <<sources, source, transports, transport, sub, attempt, replay, queue, events>>

NoSub == [at |-> "none", gen |-> 0, bound |-> 0, lent |-> {}]
NoQueue == [policy |-> "Drop", pending |-> <<>>, draining |-> FALSE, active |-> FALSE,
            tasks |-> 0, sinking |-> 0, offered |-> 0, got |-> 0]

EventsInit ==
  /\ sources = 1 /\ source = 1 /\ transports = 0 /\ transport = 0
  /\ sub = [i \in Subs |-> NoSub] /\ queue = [i \in Subs |-> NoQueue]
  /\ attempt = {} /\ replay = [t \in 1..MaxTransports |-> {}] /\ events = 0

-----------------------------------------------------------------------------
(* DeliveryQueue.                                                          *)

(* A task is spawned if none is there.                                     *)
Scheduled(q) == IF q.draining THEN q ELSE [q EXCEPT !.draining = TRUE, !.tasks = @ + 1]

Queued(q, item) ==
  CASE q.policy = "Drop" /\ q.pending # <<>> -> q.pending
    [] q.policy = "Coalesce" -> <<item>>
    [] OTHER -> Append(q.pending, item)

Enqueue(q, from) ==
  IF ~q.active THEN q
  ELSE Scheduled([q EXCEPT !.offered = @ + 1, !.pending = Queued(q, [n |-> q.offered + 1, from |-> from])])

(* What is cleared is no longer owed.                                      *)
Cleared(q) == [q EXCEPT !.pending = <<>>, !.got = q.offered]

ClosedQueue(q) == [q EXCEPT !.active = FALSE, !.pending = <<>>]

(* The task takes the next one, or leaves.                                 *)
Popped(q) ==
  IF q.pending = <<>> \/ ~q.active THEN [q EXCEPT !.tasks = @ - 1, !.draining = FALSE]
  ELSE [q EXCEPT !.tasks = @ - 1, !.sinking = @ + 1, !.pending = Tail(@), !.got = Head(q.pending).n]

Pop(i) ==
  /\ queue[i].tasks > 0
  /\ queue' = [queue EXCEPT ![i] = Popped(@)]
  /\ UNCHANGED <<sources, source, transports, transport, sub, attempt, replay, events>>

(* Mutant: a sink that panics takes the task with it.                      *)
DiesWith(q) == {q, [q EXCEPT !.tasks = @ + 1]}

Resumes(q) == {[q EXCEPT !.tasks = @ + 1]}

SinkEnds(i) ==
  /\ queue[i].sinking > 0
  /\ \E q \in Resumes([queue[i] EXCEPT !.sinking = @ - 1]) : queue' = [queue EXCEPT ![i] = q]
  /\ UNCHANGED <<sources, source, transports, transport, sub, attempt, replay, events>>

-----------------------------------------------------------------------------
(* The registry.                                                           *)
SubscribeLocal(i) ==
  /\ i \in Local /\ sub[i].at = "none"
  /\ IF source = 0 /\ i \notin Persistent THEN sub' = [sub EXCEPT ![i].at = "closed"] /\ UNCHANGED queue
     ELSE /\ sub' = [sub EXCEPT ![i].at = "open"]
          /\ queue' = [queue EXCEPT ![i].active = TRUE,
                                    ![i].policy = IF source = 0 THEN "Drop" ELSE Policy[source]]
  /\ UNCHANGED <<sources, source, transports, transport, attempt, replay, events>>

MayPublish(k) == k = source

(* publish, all queues under the lock of the registry.                     *)
Publish ==
  /\ events < MaxEvents /\ events' = events + 1
  /\ \E k \in 1..sources :
       /\ MayPublish(k)
       /\ queue' = [i \in Subs |->
            IF i \in Local /\ sub[i].at = "open" THEN Enqueue(queue[i], k) ELSE queue[i]]
  /\ UNCHANGED <<sources, source, transports, transport, sub, attempt, replay>>

(* remove_owner: of the subscriptions only the persistent ones stay.       *)
Ends(i) == i \in Local \ Persistent /\ sub[i].at = "open"
SourceLeft(i) == IF Ends(i) THEN ClosedQueue(Cleared(queue[i])) ELSE Cleared(queue[i])

RemoveOwner ==
  /\ source # 0 /\ source' = 0
  /\ sub' = [i \in Subs |-> IF Ends(i) THEN [sub[i] EXCEPT !.at = "closed"] ELSE sub[i]]
  /\ queue' = [i \in Subs |-> IF i \in Local THEN SourceLeft(i) ELSE queue[i]]
  /\ UNCHANGED <<sources, transports, transport, attempt, replay, events>>

(* register_owner, in place of the former instance or of none.             *)
InstallOwner ==
  /\ sources < MaxSources /\ sources' = sources + 1 /\ source' = sources + 1
  /\ sub' = [i \in Subs |->
       IF source # 0 /\ Ends(i) THEN [sub[i] EXCEPT !.at = "closed"] ELSE sub[i]]
  /\ queue' = [i \in Subs |->
       IF i \notin Local THEN queue[i]
       ELSE [IF source # 0 THEN SourceLeft(i) ELSE queue[i] EXCEPT
               !.policy = IF sub'[i].at = "open" THEN Policy[sources + 1] ELSE @]]
  /\ UNCHANGED <<transports, transport, attempt, replay, events>>

-----------------------------------------------------------------------------
(* RemoteEvents.                                                           *)
SubscribeRemote(i) ==
  /\ i \in Remote /\ sub[i].at = "none"
  /\ sub' = [sub EXCEPT ![i].at = "new"]
  /\ queue' = [queue EXCEPT ![i].active = TRUE]
  /\ UNCHANGED <<sources, source, transports, transport, attempt, replay, events>>

There(i) == sub[i].at \in {"new", "open"}

(* activate, up to its await.                                              *)
Attempts(i, by) ==
  /\ sub' = [sub EXCEPT ![i].gen = @ + 1, ![i].lent = @ \cup {[gen |-> sub[i].gen + 1, via |-> transport]},
                        ![i].at = IF by = 0 THEN "open" ELSE @]
  /\ attempt' = attempt \cup {[id |-> i, gen |-> sub[i].gen + 1, via |-> transport, by |-> by]}

(* ... of subscribe: without a transport only a persistent one is kept.    *)
Activate(i) ==
  /\ sub[i].at = "new" /\ sub[i].gen < MaxAttempts
  /\ IF transport # 0 THEN Attempts(i, 0) /\ UNCHANGED queue
     ELSE /\ sub' = [sub EXCEPT ![i].at = IF i \in Persistent THEN "open" ELSE "closed"]
          /\ queue' = IF i \in Persistent THEN queue ELSE [queue EXCEPT ![i] = ClosedQueue(@)]
          /\ UNCHANGED attempt
  /\ UNCHANGED <<sources, source, transports, transport, replay, events>>

(* ... of set_transport, one id after the other.                           *)
Replay(t, i) ==
  /\ i \in replay[t] /\ \A a \in attempt : a.by # t
  /\ There(i) => sub[i].gen < MaxAttempts
  /\ replay' = [replay EXCEPT ![t] = @ \ {i}]
  /\ IF There(i) /\ transport # 0 THEN Attempts(i, t) ELSE UNCHANGED <<sub, attempt>>
  /\ UNCHANGED <<sources, source, transports, transport, queue, events>>

Current(a) == There(a.id) /\ sub[a.id].gen = a.gen

(* ... from its await on: attached, no such route, or another failure.     *)
Attached(a) ==
  /\ a \in attempt /\ attempt' = attempt \ {a}
  /\ IF Current(a)
     THEN /\ sub' = [sub EXCEPT ![a.id].bound = a.gen]
          /\ queue' = [queue EXCEPT ![a.id].policy = Policy[a.via]]
     ELSE UNCHANGED <<sub, queue>>
  /\ UNCHANGED <<sources, source, transports, transport, replay, events>>

Failed(a) ==
  /\ a \in attempt /\ attempt' = attempt \ {a}
  /\ \E code \in {"UnknownRoute", "HandlerError"} :
       IF Current(a) /\ a.by = 0 /\ (a.id \notin Persistent \/ code = "HandlerError")
       THEN /\ sub' = [sub EXCEPT ![a.id].at = "closed", ![a.id].bound = 0]
            /\ queue' = [queue EXCEPT ![a.id] = ClosedQueue(@)]
       ELSE UNCHANGED <<sub, queue>>
  /\ UNCHANGED <<sources, source, transports, transport, replay, events>>

(* The sink of a generation, however late the host calls it.               *)
Heard(i, lease) == There(i) /\ sub[i].bound # 0 /\ sub[i].gen = lease.gen

DeliverEvent(i, lease) ==
  /\ events < MaxEvents /\ events' = events + 1
  /\ Heard(i, lease) /\ queue' = [queue EXCEPT ![i] = Enqueue(@, lease.via)]
  /\ UNCHANGED <<sources, source, transports, transport, sub, attempt, replay>>

(* set_transport, up to the first activation.                              *)
Expires(i) == There(i) /\ i \notin Persistent

SetTransport ==
  /\ transports < MaxTransports /\ transports' = transports + 1
  /\ transport' \in {transports + 1, 0}
  /\ sub' = [i \in Subs |->
       IF i \notin Remote \/ ~There(i) THEN sub[i]
       ELSE [sub[i] EXCEPT !.gen = @ + 1, !.bound = 0, !.at = IF Expires(i) THEN "closed" ELSE @]]
  /\ queue' = [i \in Subs |->
       IF i \notin Remote \/ ~There(i) THEN queue[i]
       ELSE IF Expires(i) THEN ClosedQueue(Cleared(queue[i])) ELSE Cleared(queue[i])]
  /\ replay' = [replay EXCEPT ![transports + 1] = {i \in Remote \cap Persistent : There(i)}]
  /\ UNCHANGED <<sources, source, attempt, events>>

-----------------------------------------------------------------------------
(* close, a dropped handle, or the cleanup of its caller, at any time.     *)
Unsubscribe(i) ==
  /\ There(i)
  /\ sub' = [sub EXCEPT ![i].at = "closed", ![i].bound = 0]
  /\ queue' = [queue EXCEPT ![i] = ClosedQueue(@)]
  /\ UNCHANGED <<sources, source, transports, transport, attempt, replay, events>>

(* Endpoint::shutdown: no transport, no consumers.                         *)
CloseRemote ==
  /\ transport # 0 /\ transport' = 0
  /\ sub' = [i \in Subs |-> IF i \in Remote /\ There(i) THEN [sub[i] EXCEPT !.at = "closed", !.bound = 0]
                                                        ELSE sub[i]]
  /\ queue' = [i \in Subs |-> IF i \in Remote /\ There(i) THEN ClosedQueue(queue[i]) ELSE queue[i]]
  /\ UNCHANGED <<sources, source, transports, attempt, replay, events>>

(* The registry and the consumers of remote events share nothing.          *)
QueueNext(subs) == \E i \in subs : Unsubscribe(i) \/ Pop(i) \/ SinkEnds(i)
LocalNext ==
  \/ QueueNext(Local)
  \/ \E i \in Local : SubscribeLocal(i)
  \/ Publish \/ RemoveOwner \/ InstallOwner
RemoteNext ==
  \/ QueueNext(Remote)
  \/ \E i \in Remote : SubscribeRemote(i) \/ Activate(i) \/ \E lease \in sub[i].lent : DeliverEvent(i, lease)
  \/ \E a \in attempt : Attached(a) \/ Failed(a)
  \/ \E t \in 1..MaxTransports : \E i \in replay[t] : Replay(t, i)
  \/ SetTransport \/ CloseRemote

EventsSpec == EventsInit /\ [][LocalNext \/ RemoteNext]_evars

-----------------------------------------------------------------------------
(* A subscriber is never inside its sink twice.                            *)
OneSink == \A i \in Subs : queue[i].sinking <= 1

(* What is in a queue is on its way: a task is there to take it.           *)
NobodyStranded == \A i \in Subs : queue[i].pending # <<>> => queue[i].tasks + queue[i].sinking > 0

(* A subscriber is handed nothing of a source or a transport that is gone, *)
(* unless its sink was at it already.                                      *)
OnlyFromPresent ==
  \A i \in Subs : \A k \in 1..Len(queue[i].pending) :
    queue[i].pending[k].from = IF i \in Local THEN source ELSE transport

(* Ordered delivers everything, Coalesce the newest, each in its turn.     *)
PromiseKept ==
  \A i \in Subs :
    LET q == queue[i] IN
    /\ q.active /\ q.policy = "Ordered" =>
         /\ Len(q.pending) = q.offered - q.got
         /\ \A k \in 1..Len(q.pending) : q.pending[k].n = q.got + k
    /\ q.active /\ q.policy = "Coalesce" =>
         q.offered = IF q.pending = <<>> THEN q.got ELSE Last(q.pending).n

(* A subscriber gets what its policy promises, and nothing else.           *)
SubscriptionsKept == OneSink /\ NobodyStranded /\ OnlyFromPresent /\ PromiseKept
=============================================================================
