--------------------------------- MODULE Calls ---------------------------------
(***************************************************************************)
(* Unary calls of the Gateway (gateway/rust: invoke.rs, rpc.rs, napi).  A  *)
(* call is a local handle (Rpc) or a session of the native endpoint; its   *)
(* work looks up the route, takes a permit and waits for a handler that    *)
(* nobody ever aborts.  Threads cancel, callers go away, and the owner is  *)
(* replaced under its name, in the middle of all that.                     *)
(***************************************************************************)
EXTENDS Integers, FiniteSets

CONSTANTS
  Users,          \* callers
  Calls,          \* ids of calls: numbers, taken in their order
  MaxConcurrency, \* InvokeRegistration.max_concurrency of the one route
  MaxOwners       \* bound on registrations of its owner

ASSUME CallsAssumption == Calls \subseteq Nat \ {0} /\ MaxConcurrency \in Nat \ {0} /\ MaxOwners \in Nat \ {0}

VARIABLES
  registered,  \* State.next_owner
  current,     \* the instance that has the name, 0: none
  endpoint,    \* the native endpoint, of instance 1: ready or closed
  call,        \* call[k]: the handle and the work
  handler      \* handler[k]: none, running, done; remote: running at the host

cvars == <<registered, current, endpoint, call, handler>>

NoCall == [at |-> "none", via |-> "unset", user |-> "unset", parent |-> 0, inst |-> 0,
           pending |-> TRUE, cancelled |-> FALSE, exec |-> FALSE,
           result |-> "unset", first |-> "unset", seen |-> "unset"]

CallsInit ==
  /\ registered = 1 /\ current = 1 /\ endpoint = "ready"
  /\ call = [k \in Calls |-> NoCall] /\ handler = [k \in Calls |-> "none"]

Closed(i) == i # current
Newest(k) == call[k] = NoCall /\ \A j \in Calls : j < k => call[j] # NoCall

-----------------------------------------------------------------------------

(* CancelHandle::cancel: who has the lock first decides.                   *)
CancelHandle(r) ==
  IF r.pending THEN [r EXCEPT !.pending = FALSE, !.cancelled = TRUE, !.first = "cancelled"] ELSE r

(* Rpc::new.  A handler's calls have its execution as their parent.        *)
Begin(k, u) ==
  /\ Newest(k)
  /\ \E p \in {0} \cup {j \in Calls : handler[j] = "running" /\ call[j].user = u} :
       call' = [call EXCEPT ![k] = [NoCall EXCEPT !.at = "ready", !.via = "local", !.user = u, !.parent = p]]
  /\ UNCHANGED <<registered, current, endpoint, handler>>

(* Endpoint::prepare_rpc, on the host's thread: invoke, or invoke.cancel,  *)
(* which can come before the work that the invoke has spawned.             *)
Prepare(k, u) ==
  /\ Newest(k) /\ endpoint = "ready"
  /\ call' = [call EXCEPT ![k] = [NoCall EXCEPT !.at = "ready", !.via = "native", !.user = u]]
  /\ UNCHANGED <<registered, current, endpoint, handler>>

(* cancel, or the handle is dropped; a native session must still be there. *)
CancelCall(k) ==
  /\ call[k].at # "none" /\ (call[k].via = "native" => call[k].at # "end" /\ endpoint = "ready")
  /\ call' = [call EXCEPT ![k] = CancelHandle(@)]
  /\ UNCHANGED <<registered, current, endpoint, handler>>

(* The work is dropped, or returns: what runs is told (CancelOnDrop, and   *)
(* at the host invoke.cancel, unless the answer or a closed endpoint came  *)
(* first).                                                                 *)
Told(k, r) ==
  IF call[k].at = "waiting" /\ (handler[k] = "remote" => endpoint = "ready")
  THEN [r EXCEPT !.exec = TRUE] ELSE r

Abandoned(k, r) == Told(k, r)

Awaiting(k) == call[k].at \in {"ready", "waiting"}
Orphaned(k) == call[k].parent # 0 /\ call[call[k].parent].exec

(* Rpc's task: it was cancelled, or its parent was.                        *)
Stop(k) ==
  /\ Awaiting(k) /\ call[k].via = "local" /\ (call[k].cancelled \/ Orphaned(k))
  /\ call' = [call EXCEPT ![k] = [Abandoned(k, CancelHandle(@)) EXCEPT !.at = "end"]]
  /\ UNCHANGED <<registered, current, endpoint, handler>>

Polled(k) == call[k].via = "local" => ~call[k].cancelled /\ ~Orphaned(k)
Return(k, result) == [call EXCEPT ![k].at = "over", ![k].result = result]

(* call_cancellable, rpc_control and dispatch_local_cancellable, up to the *)
(* entry: a native call reaches its own instance only, a local one goes to *)
(* the host when the route is not here.                                    *)
Check(k) ==
  /\ call[k].at = "ready" /\ Polled(k)
  /\ IF call[k].cancelled THEN call' = Return(k, "cancelled") /\ UNCHANGED handler
     ELSE IF call[k].via = "native" /\ current # 1
          THEN call' = Return(k, "unavailable") /\ UNCHANGED handler
     ELSE IF current # 0
          THEN call' = [call EXCEPT ![k].at = "checked", ![k].inst = current] /\ UNCHANGED handler
     ELSE IF endpoint = "ready"
          THEN call' = [call EXCEPT ![k].at = "waiting"] /\ handler' = [handler EXCEPT ![k] = "remote"]
     ELSE call' = Return(k, "unavailable") /\ UNCHANGED handler
  /\ UNCHANGED <<registered, current, endpoint>>

(* Mutant: the permit goes with the one who waits.                         *)
TakenWhileAwaited(i) ==
  Cardinality({k \in Calls : handler[k] = "running" /\ call[k].inst = i /\ call[k].at = "waiting"})

(* The permits of an instance's route: they return when the handler ends.  *)
Taken(i) == Cardinality({k \in Calls : handler[k] = "running" /\ call[k].inst = i})

(* execute, up to the spawned handler.                                     *)
Start(k) ==
  /\ call[k].at = "checked"
  /\ IF Closed(call[k].inst) THEN call' = Return(k, "unavailable") /\ UNCHANGED handler
     ELSE IF Taken(call[k].inst) >= MaxConcurrency THEN call' = Return(k, "full") /\ UNCHANGED handler
     ELSE call' = [call EXCEPT ![k].at = "waiting"] /\ handler' = [handler EXCEPT ![k] = "running"]
  /\ UNCHANGED <<registered, current, endpoint>>

(* Mutant: the handler's result is looked at first.                        *)
OutcomesUnordered(k) ==
  IF handler[k] = "done" THEN {"ok", "failed"}
  ELSE IF call[k].cancelled \/ call[k].exec THEN {"cancelled"}
  ELSE IF Closed(call[k].inst) THEN {"unavailable"}
  ELSE {"timeout"}

(* execute, its select: cancellation, the caller's cleanup, the owner and  *)
(* only then the handler, or the time limit.                               *)
Outcomes(k) ==
  IF call[k].cancelled \/ call[k].exec THEN {"cancelled"}
  ELSE IF Closed(call[k].inst) THEN {"unavailable"}
  ELSE IF handler[k] = "done" THEN {"ok", "failed"}
  ELSE {"timeout"}

(* At the host: the endpoint closes, or the host answers.                  *)
RemoteOutcomes(k) ==
  IF call[k].cancelled THEN {"cancelled"}
  ELSE IF endpoint = "closed" THEN {"unavailable"}
  ELSE IF handler[k] = "done" THEN {"ok", "failed"}
  ELSE {}

Conclude(k) ==
  /\ call[k].at = "waiting" /\ Polled(k)
  /\ \E result \in IF call[k].inst = 0 THEN RemoteOutcomes(k) ELSE Outcomes(k) :
       call' = [Return(k, result) EXCEPT ![k] = Abandoned(k, @)]
  /\ UNCHANGED <<registered, current, endpoint, handler>>

(* Nobody aborts a handler; it ends when it likes, told or not.            *)
EndHandler(k) ==
  /\ handler[k] \in {"running", "remote"}
  /\ handler' = [handler EXCEPT ![k] = "done"]
  /\ UNCHANGED <<registered, current, endpoint, call>>

(* Rpc's task accepts its result under the handle's lock; a session ends.  *)
Complete(k) ==
  /\ call[k].at = "over"
  /\ call' = [call EXCEPT ![k] =
       IF @.via = "native" THEN [@ EXCEPT !.at = "end", !.seen = call[k].result]
       ELSE IF @.pending THEN [@ EXCEPT !.at = "end", !.pending = FALSE, !.first = "completed"]
       ELSE [@ EXCEPT !.at = "end"]]
  /\ UNCHANGED <<registered, current, endpoint, handler>>

(* Whoever awaits the handle looks, however late.                          *)
Await(k) ==
  LET r == call[k] IN
  /\ r.via = "local" /\ r.seen = "unset" /\ (r.cancelled \/ r.at = "end")
  /\ call' = [call EXCEPT ![k].seen = IF r.cancelled THEN "cancelled" ELSE r.result]
  /\ UNCHANGED <<registered, current, endpoint, handler>>

-----------------------------------------------------------------------------
(* cleanup_stream_caller: every execution of the caller that goes on.      *)
CleanupCalls(u) ==
  /\ \E k \in Calls : call[k].user = u
  /\ call' = [k \in Calls |->
       IF call[k].user = u /\ handler[k] = "running" THEN [call[k] EXCEPT !.exec = TRUE] ELSE call[k]]
  /\ UNCHANGED <<registered, current, endpoint, handler>>

(* register_owner replaces the instance of the name; unregister_owner.     *)
Replace ==
  /\ registered < MaxOwners
  /\ registered' = registered + 1 /\ current' = registered + 1
  /\ UNCHANGED <<endpoint, call, handler>>
Unregister ==
  /\ current # 0 /\ current' = 0
  /\ UNCHANGED <<registered, endpoint, call, handler>>

(* Endpoint::shutdown: the sessions are cancelled, its instance leaves.    *)
Shutdown ==
  /\ endpoint = "ready" /\ endpoint' = "closed"
  /\ call' = [k \in Calls |-> IF call[k].via = "native" /\ call[k].at # "end"
                              THEN CancelHandle(call[k]) ELSE call[k]]
  /\ current' = IF current = 1 THEN 0 ELSE current
  /\ UNCHANGED <<registered, handler>>

CallsNext ==
  \/ \E k \in Calls, u \in Users : Begin(k, u) \/ Prepare(k, u)
  \/ \E k \in Calls : CancelCall(k) \/ Stop(k) \/ Check(k) \/ Start(k) \/ Conclude(k)
                      \/ EndHandler(k) \/ Complete(k) \/ Await(k)
  \/ \E u \in Users : CleanupCalls(u)
  \/ Replace \/ Unregister \/ Shutdown

CallsSpec == CallsInit /\ [][CallsNext]_cvars

-----------------------------------------------------------------------------
(* However its waiter leaves, a handler counts until it has ended: an      *)
(* instance never runs more of them than its route allows.                 *)
AdmissionIsWork ==
  \A i \in 1..registered :
    Cardinality({k \in Calls : handler[k] = "running" /\ call[k].inst = i}) <= MaxConcurrency

(* What nobody waits for has been told so, here and at the host, through   *)
(* every level of nested calls that has come to its end.                   *)
AbandonedIsTold ==
  \A k \in Calls :
    /\ handler[k] \in {"running", "remote"} /\ call[k].at \in {"over", "end"}
    /\ call[k].inst = 0 => endpoint = "ready"
    => call[k].exec

(* A handle has one outcome, the one that came first, no matter when it is *)
(* awaited: a completed call cannot be cancelled nor a cancelled one end   *)
(* otherwise.                                                              *)
FirstStands ==
  \A k \in Calls :
    call[k].via = "local" /\ call[k].seen # "unset"
      => call[k].seen = IF call[k].first = "completed" THEN call[k].result ELSE "cancelled"

(* What a call is said to be is what its work is.                          *)
CallsKept == AdmissionIsWork /\ AbandonedIsTold /\ FirstStands

(* The result of a replaced instance, or of an execution that was told to  *)
(* stop, completes no call, although the handler has run to its end.       *)
NoLateResult ==
  [][\A k \in Calls :
       call'[k].result = "ok" /\ call[k].result # "ok"
       => ~call[k].cancelled /\ ~call[k].exec /\ (call[k].inst # 0 => call[k].inst = current)]_cvars
=============================================================================
