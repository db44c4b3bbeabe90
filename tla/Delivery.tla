------------------------------- MODULE Delivery -------------------------------
(***************************************************************************)
(* Delivery of a session's questions to the clients that observe it        *)
(* (crates/xw-agent: interaction_delivery.rs).  Each observer pulls: it    *)
(* looks at the session, returns a question it has no receipt for, or      *)
(* sleeps until it is notified or a heartbeat is due.  Clients acknowledge *)
(* what they got late, twice, after their stream was closed or replaced,   *)
(* or after the service has been started again.                            *)
(***************************************************************************)
EXTENDS Integers, Sequences, FiniteSets, SequencesExt

CONSTANTS
  Clients,        \* callers
  Streams,        \* ids of observers: numbers, taken in their order
  Caller,         \* Caller[o]: the client that opens observer o
  Questions,      \* interaction ids; a run asks one at a time
  MaxStreams,     \* MAX_OBSERVERS: open ones, and retired ones that are kept
  MaxReceipts,    \* MAX_DELIVERIES
  MaxRestarts     \* bound on restarts of the service

ASSUME LimitsAssumption ==
  /\ Streams \subseteq Nat /\ Caller \in [Streams -> Clients]
  /\ MaxStreams \in Nat \ {0} /\ MaxReceipts \in Nat \ {0} /\ MaxRestarts \in Nat

VARIABLES
  questions,      \* questions[q]: unasked, pending, ended
  service,    \* the session can be read, is archived or deleted; the service is cancelled
  instance,   \* State.interaction_instance
  listed,     \* State.interaction_observers; their numbers are their order
  stream      \* stream[o]: the observer, its receipts, and what its client was sent

dvars == <<questions, service, instance, listed, stream>>

(* shown[n] is the question of delivery n; a receipt is its delivery and   *)
(* the caller that has acknowledged it.                                    *)
NoStream == [at |-> "unborn", caller |-> "nobody", born |-> 0, ready |-> FALSE, closed |-> FALSE,
             permit |-> FALSE, receipts |-> <<>>, shown |-> <<>>]

DeliveryInit ==
  /\ questions = [q \in Questions |-> "unasked"]
  /\ service = "live" /\ instance = 1
  /\ listed = {} /\ stream = [o \in Streams |-> NoStream]

Wake == [o \in Streams |-> IF o \in listed THEN [stream[o] EXCEPT !.permit = TRUE] ELSE stream[o]]

(* A question is asked, answered or expires; all observers are notified.   *)
Ask(q) ==
  /\ service = "live" /\ questions[q] = "unasked" /\ \A x \in Questions : questions[x] # "pending"
  /\ questions' = [questions EXCEPT ![q] = "pending"]
  /\ stream' = Wake
  /\ UNCHANGED <<service, instance, listed>>
Settle(q) ==
  /\ questions[q] = "pending" /\ questions' = [questions EXCEPT ![q] = "ended"]
  /\ stream' = Wake
  /\ UNCHANGED <<service, instance, listed>>

(* The session is archived or deleted; its question has ended before.      *)
Depart ==
  /\ service = "live" /\ \A q \in Questions : questions[q] # "pending"
  /\ service' = "gone"
  /\ stream' = Wake
  /\ UNCHANGED <<questions, instance, listed>>

-----------------------------------------------------------------------------
Open(o) == o \in listed /\ ~stream[o].closed
Retired == {o \in listed : stream[o].closed}

(* Mutant: the oldest of the retired observers are kept.                   *)
KeptOldest(o) == Open(o) \/ Cardinality({x \in Retired : x < o}) < MaxStreams

(* Of the retired observers the newest are kept, for late receipts.        *)
Kept(o) == Open(o) \/ Cardinality({x \in Retired : x > o}) < MaxStreams

(* A receipt is found only through an observer that is listed.             *)
Forgotten(s) == [s EXCEPT !.receipts = <<>>, !.shown = <<>>]

Observe(o) ==
  /\ service = "live" /\ stream[o].at = "unborn" /\ \A x \in Streams : x < o => stream[x].at # "unborn"
  /\ Cardinality({x \in Streams : Open(x)}) < MaxStreams
  /\ listed' = {x \in listed : Kept(x)} \cup {o}
  /\ stream' = [x \in Streams |->
       IF x = o THEN [NoStream EXCEPT !.at = "looking", !.caller = Caller[o], !.born = instance]
       ELSE IF x \in listed \ listed' THEN Forgotten(stream[x]) ELSE stream[x]]
  /\ UNCHANGED <<questions, service, instance>>

Shown(o, n) == stream[o].shown[n]

Owed(o) ==
  {q \in Questions : questions[q] = "pending" /\ \A r \in ToSet(stream[o].receipts) : Shown(o, r[1]) # q}
Over(o) == service # "live" \/ stream[o].closed

(* The oldest receipt makes room for the next.                             *)
Room(receipts) == IF Len(receipts) >= MaxReceipts THEN Tail(receipts) ELSE receipts

(* recv, one look: the end, the ready frame, a question it has no receipt  *)
(* for, or sleep.                                                          *)
Look(o) ==
  LET s == stream[o] IN
  /\ s.at = "looking"
  /\ \/ Over(o) /\ stream' = [stream EXCEPT ![o].at = "ended", ![o].permit = FALSE]
     \/ ~Over(o) /\ ~s.ready /\ stream' = [stream EXCEPT ![o].ready = TRUE]
     \/ ~Over(o) /\ s.ready /\ Owed(o) = {} /\ stream' = [stream EXCEPT ![o].at = "waiting"]
     \/ /\ ~Over(o) /\ s.ready
        /\ \E q \in Owed(o) :
             stream' = [stream EXCEPT ![o].receipts = Append(Room(s.receipts), <<Len(s.shown) + 1, "nobody">>),
                                      ![o].shown = Append(@, q)]
  /\ UNCHANGED <<questions, service, instance, listed>>

Notified(o) ==
  /\ stream[o].at = "waiting" /\ stream[o].permit
  /\ stream' = [stream EXCEPT ![o].at = "looking", ![o].permit = FALSE]
  /\ UNCHANGED <<questions, service, instance, listed>>

(* Twenty seconds have passed; the client pulls again.                     *)
Heartbeat(o) ==
  /\ stream[o].at = "waiting"
  /\ stream' = [stream EXCEPT ![o].at = "looking"]
  /\ UNCHANGED <<questions, service, instance, listed>>

(* close, by the client or with the stream; the observer stays listed.     *)
Closing(o) == [stream EXCEPT ![o].closed = TRUE, ![o].permit = TRUE]
Unobserve(o) ==
  /\ Open(o) /\ stream' = Closing(o)
  /\ UNCHANGED <<questions, service, instance, listed>>

(* Mutant: any caller may acknowledge.                                     *)
KnownToAnyone(o, c) == stream[o].born = instance /\ o \in listed

(* acknowledge_interaction: this instance, an observer of this caller that *)
(* is still listed, a receipt that is still kept.  Repeating it is fine.   *)
Known(o, c) == stream[o].born = instance /\ o \in listed /\ stream[o].caller = c

Acknowledge(o, n, c) ==
  /\ service # "closed" /\ n \in 1..Len(stream[o].shown)
  /\ Known(o, c)
  /\ stream' = [stream EXCEPT ![o].receipts =
       [i \in DOMAIN @ |-> IF @[i] = <<n, "nobody">> THEN <<n, c>> ELSE @[i]]]
  /\ UNCHANGED <<questions, service, instance, listed>>

(* cancel_all: nobody is notified.  close waits for the run; then every    *)
(* observer is closed and gone.                                            *)
CancelService ==
  /\ service = "live" /\ service' = "closed"
  /\ UNCHANGED <<questions, instance, listed, stream>>
CloseService ==
  /\ service = "closed" /\ \A q \in Questions : questions[q] # "pending"
  /\ stream' = [o \in Streams |->
       IF o \in listed THEN Forgotten([stream[o] EXCEPT !.closed = TRUE, !.permit = TRUE])
       ELSE stream[o]]
  /\ listed' = {}
  /\ UNCHANGED <<questions, service, instance>>

(* Another process: new identifiers, and recovery has ended the question.  *)
Restart ==
  /\ instance <= MaxRestarts /\ instance' = instance + 1
  /\ service' = "live" /\ listed' = {}
  /\ stream' = [o \in Streams |-> IF stream[o].at = "unborn" THEN NoStream
                            ELSE [NoStream EXCEPT !.at = "ended", !.born = instance]]
  /\ questions' = [q \in Questions |-> IF questions[q] = "pending" THEN "ended" ELSE questions[q]]

Pull(o) == Look(o) \/ Notified(o)
DeliveryNext ==
  \/ \E q \in Questions : Ask(q) \/ Settle(q)
  \/ \E o \in Streams : Pull(o) \/ Heartbeat(o) \/ Unobserve(o) \/ Observe(o)
  \/ \E o \in Streams, c \in Clients : \E n \in 1..Len(stream[o].shown) : Acknowledge(o, n, c)
  \/ Depart \/ CancelService \/ CloseService \/ Restart

DeliverySpec == DeliveryInit /\ [][DeliveryNext]_dvars

-----------------------------------------------------------------------------
(* An observer gets a question once, although its oldest receipts go.      *)
DeliveredOnce == \A o \in Streams : \A i, j \in 1..Len(stream[o].shown) :
  stream[o].shown[i] = stream[o].shown[j] => i = j

(* No observer sleeps on a question it owes its client, on its own end or  *)
(* on that of its session: the heartbeat is never needed for them.         *)
ObserverAwake == \A o \in listed :
  stream[o].at = "waiting" /\ ~stream[o].permit
    => ~stream[o].closed /\ service # "gone" /\ (service = "live" => Owed(o) = {})

(* A delivery is acknowledged only by the client it went to, however late  *)
(* and whichever observers and instances came in between.                  *)
ReceiptsMatch ==
  \A o \in Streams : \A r \in ToSet(stream[o].receipts) : r[2] \in {"nobody", stream[o].caller}

(* A question reaches the clients that are there, each of them once.       *)
DeliveryKept == DeliveredOnce /\ ObserverAwake /\ ReceiptsMatch

(* A retired observer, whose client may still owe a receipt, is forgotten  *)
(* only when MaxStreams of those after it have retired: a receipt that is  *)
(* not later than that finds its delivery.                                 *)
Later(o) == {x \in Streams : x > o /\ stream[x].born = instance /\ stream[x].closed}
NewestRetained ==
  service # "closed" =>
    \A o \in Streams : stream[o].born = instance /\ o \notin listed => Cardinality(Later(o)) >= MaxStreams
=============================================================================
