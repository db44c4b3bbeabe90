---------------------------- MODULE GatewayProofs ----------------------------
(***************************************************************************)
(* Proofs about the gateway: calls and streams, their cancellation, their  *)
(* owners and their limits, and the subscriptions to its events.           *)
(***************************************************************************)
EXTENDS Gateway, FiniteSetTheorems, SequenceTheorems, TLAPS

(***************************************************************************)
(* Calls.                                                                  *)
(***************************************************************************)

(* What the fields of a call range over.                                   *)
Results == {"unset", "cancelled", "unavailable", "full", "ok", "failed", "timeout"}
CallRecords ==
  [at : {"none", "ready", "checked", "waiting", "over", "end"}, via : {"unset", "local", "native"},
   user : Users \cup {"unset"}, parent : Nat, inst : Nat, pending : BOOLEAN, cancelled : BOOLEAN,
   exec : BOOLEAN, result : Results, first : {"unset", "cancelled", "completed"}, seen : Results]

(* What the variables range over.                                          *)
CallTypes ==
  /\ registered \in Nat \ {0} /\ current \in Nat /\ endpoint \in {"ready", "closed"}
  /\ call \in [Calls -> CallRecords]
  /\ handler \in [Calls -> {"none", "running", "remote", "done"}]

(* A handler is there once the work awaits it, at one instance or the host.*)
HandlerPlaced(k) ==
  /\ call[k].at \in {"none", "ready", "checked"} => handler[k] = "none"
  /\ call[k].at = "waiting" => handler[k] # "none"
  /\ call[k].at \in {"none", "ready"} => call[k].inst = 0
  /\ call[k].at = "checked" \/ handler[k] = "running" => call[k].inst # 0
  /\ handler[k] = "remote" => call[k].inst = 0

(* What was left is told; what runs at the host is told by being left.     *)
ToldOnceLeft(k) ==
  /\ handler[k] \in {"running", "remote"} /\ call[k].at \in {"over", "end"}
     /\ (call[k].inst = 0 => endpoint = "ready") => call[k].exec
  /\ call[k].inst = 0 /\ call[k].at \notin {"over", "end"} => ~call[k].exec

(* A handle is pending until its first outcome; one that has ended has one.*)
FirstOutcome(k) ==
  /\ call[k].pending <=> call[k].first = "unset"
  /\ call[k].cancelled <=> call[k].first = "cancelled"
  /\ call[k].via = "local" =>
       /\ call[k].at = "end" => ~call[k].pending
       /\ call[k].first = "completed" => call[k].at = "end"
       /\ call[k].seen # "unset" => call[k].seen = IF call[k].first = "completed" THEN call[k].result ELSE "cancelled"
       /\ call[k].seen # "unset" => ~call[k].pending

(* What is true of each call, whatever the others do.                      *)
CallInv(k) == HandlerPlaced(k) /\ ToldOnceLeft(k) /\ FirstOutcome(k)

(* The handlers at work for an instance hold its permits.                  *)
Running(i) == {k \in Calls : handler[k] = "running" /\ call[k].inst = i}
(* There are never more of them than the instance admits.                  *)
Admission ==
  \A i \in Nat \ {0} : IsFiniteSet(Running(i)) /\ Cardinality(Running(i)) <= MaxConcurrency

(* The inductive invariant of the gateway's calls.                         *)
CallsInv == CallTypes /\ (\A k \in Calls : CallInv(k)) /\ Admission

(* An empty gateway satisfies it.                                          *)
LEMMA CallsStart == CallsInit => CallsInv
<1> SUFFICES ASSUME CallsInit PROVE CallsInv OBVIOUS
<1>1. NoCall \in CallRecords BY DEF NoCall, CallRecords, Results
<1>2. CallTypes BY <1>1 DEF CallsInit, CallTypes
<1>3. ASSUME NEW k \in Calls PROVE CallInv(k)
  BY <1>3 DEF CallsInit, NoCall, CallInv, HandlerPlaced, ToldOnceLeft, FirstOutcome
<1>4. ASSUME NEW i \in Nat \ {0} PROVE Running(i) = {}
  BY DEF CallsInit, Running
<1>5. Admission BY <1>4, FS_EmptySet, CallsAssumption DEF Admission
<1> QED BY <1>2, <1>3, <1>5 DEF CallsInv

(* No handler is admitted.                                                 *)
LEMMA NoneAdmitted ==
  ASSUME Admission, \A i \in Nat \ {0} : Running(i)' \subseteq Running(i) PROVE Admission'
<1> SUFFICES ASSUME NEW i \in Nat \ {0}
             PROVE  IsFiniteSet(Running(i)') /\ Cardinality(Running(i)') <= MaxConcurrency
  BY DEF Admission
<1>1. IsFiniteSet(Running(i)) /\ Cardinality(Running(i)) <= MaxConcurrency BY DEF Admission
<1>2. IsFiniteSet(Running(i)') /\ Cardinality(Running(i)') <= Cardinality(Running(i))
  BY <1>1, FS_Subset
<1>3. Cardinality(Running(i)) \in Nat /\ Cardinality(Running(i)') \in Nat BY <1>1, <1>2, FS_CardinalityType
<1> QED BY <1>1, <1>2, <1>3, CallsAssumption

(* A step of one call.                                                     *)
LEMMA CallKeeps ==
  ASSUME CallsInv, NEW k \in Calls, NEW r \in CallRecords, NEW h \in {"none", "running", "remote", "done"},
         call' = [call EXCEPT ![k] = r], handler' = [handler EXCEPT ![k] = h],
         UNCHANGED <<registered, current, endpoint>>,
         CallInv(k)', Admission'
  PROVE  CallsInv'
<1>1. CallTypes' BY DEF CallTypes, CallsInv
<1>2. ASSUME NEW j \in Calls PROVE CallInv(j)'
  <2>1. CASE j = k BY <2>1
  <2>2. CASE j # k
    <3>1. call'[j] = call[j] /\ handler'[j] = handler[j] BY <2>2 DEF CallsInv, CallTypes
    <3>2. CallInv(j) /\ endpoint' = endpoint BY DEF CallsInv
    <3> QED BY <3>1, <3>2 DEF CallInv, HandlerPlaced, ToldOnceLeft, FirstOutcome
  <2> QED BY <2>1, <2>2
<1> QED BY <1>1, <1>2 DEF CallsInv

(* A step of one call that admits no handler.                              *)
LEMMA CallKeepsAdmitted ==
  ASSUME CallsInv, NEW k \in Calls, NEW r \in CallRecords, NEW h \in {"none", "running", "remote", "done"},
         call' = [call EXCEPT ![k] = r], handler' = [handler EXCEPT ![k] = h],
         UNCHANGED <<registered, current, endpoint>>,
         CallInv(k)', h = "running" => handler[k] = "running" /\ r.inst = call[k].inst
  PROVE  CallsInv'
<1>1. \A i \in Nat \ {0} : Running(i)' \subseteq Running(i) BY DEF Running, CallsInv, CallTypes
<1> QED BY <1>1, NoneAdmitted, CallKeeps DEF CallsInv

(* The ways a call's record changes.                                       *)
LEMMA Handle ==
  ASSUME NEW r \in CallRecords
  PROVE  /\ CancelHandle(r) \in CallRecords
         /\ [r EXCEPT !.exec = TRUE] \in CallRecords
BY ZenonT(60) DEF CancelHandle, CallRecords

(* Every step of a call, its handler or its caller preserves it,           *)
LEMMA CallSteps ==
  ASSUME CallsInv, NEW k \in Calls,
         (\E u \in Users : Begin(k, u) \/ Prepare(k, u))
         \/ CancelCall(k) \/ Stop(k) \/ Check(k) \/ Start(k) \/ Conclude(k)
         \/ EndHandler(k) \/ Complete(k) \/ Await(k)
  PROVE  CallsInv'
<1>1. CallTypes /\ CallInv(k) BY DEF CallsInv
<1>2. call[k] \in CallRecords /\ handler[k] \in {"none", "running", "remote", "done"}
      /\ handler = [handler EXCEPT ![k] = handler[k]]
  BY <1>1 DEF CallTypes
<1>3. UNCHANGED <<registered, current, endpoint>>
  BY DEF Begin, Prepare, CancelCall, Stop, Check, Start, Conclude, EndHandler, Complete, Await
<1>4. ASSUME NEW u \in Users, Begin(k, u) PROVE CallsInv'
  <2>1. PICK p \in {0} \cup {j \in Calls : handler[j] = "running" /\ call[j].user = u} :
          call' = [call EXCEPT ![k] = [NoCall EXCEPT !.at = "ready", !.via = "local", !.user = u, !.parent = p]]
    BY <1>4 DEF Begin
  <2> DEFINE r == [NoCall EXCEPT !.at = "ready", !.via = "local", !.user = u, !.parent = p]
  <2>2. r \in CallRecords /\ r.at = "ready" /\ r.via = "local" /\ r.inst = 0 /\ ~r.exec /\ r.pending
        /\ ~r.cancelled /\ r.first = "unset" /\ r.seen = "unset"
    <3>1. p \in Nat BY <2>1, CallsAssumption
    <3> QED BY <3>1 DEF NoCall, CallRecords, Results
  <2>3. call[k].at = "none"
    <3>1. call[k] = NoCall BY <1>4 DEF Begin, Newest
    <3>2. NoCall.at = "none" BY DEF NoCall
    <3> QED BY <3>1, <3>2
  <2>4. handler' = [handler EXCEPT ![k] = handler[k]] /\ handler[k] = "none"
    BY <1>1, <1>2, <1>4, <2>3 DEF Begin, CallInv, HandlerPlaced
  <2> HIDE DEF r
  <2>5. CallInv(k)' BY <1>1, <2>1, <2>2, <2>4 DEF r, CallTypes, CallInv, HandlerPlaced, ToldOnceLeft, FirstOutcome
  <2> QED BY <1>2, <1>3, <2>1, <2>2, <2>4, <2>5, CallKeepsAdmitted DEF r
<1>5. ASSUME NEW u \in Users, Prepare(k, u) PROVE CallsInv'
  <2> DEFINE r == [NoCall EXCEPT !.at = "ready", !.via = "native", !.user = u]
  <2>1. call' = [call EXCEPT ![k] = r] BY <1>5 DEF Prepare
  <2>2. r \in CallRecords /\ r.at = "ready" /\ r.via = "native" /\ r.inst = 0 /\ ~r.exec /\ r.pending
        /\ ~r.cancelled /\ r.first = "unset" /\ r.seen = "unset"
    BY DEF NoCall, CallRecords, Results
  <2>3. call[k].at = "none"
    <3>1. call[k] = NoCall BY <1>5 DEF Prepare, Newest
    <3>2. NoCall.at = "none" BY DEF NoCall
    <3> QED BY <3>1, <3>2
  <2>4. handler' = [handler EXCEPT ![k] = handler[k]] /\ handler[k] = "none"
    BY <1>1, <1>2, <1>5, <2>3 DEF Prepare, CallInv, HandlerPlaced
  <2> HIDE DEF r
  <2>5. CallInv(k)' BY <1>1, <2>1, <2>2, <2>4 DEF CallTypes, CallInv, HandlerPlaced, ToldOnceLeft, FirstOutcome
  <2> QED BY <1>2, <1>3, <2>1, <2>2, <2>4, <2>5, CallKeepsAdmitted
<1>6. CASE CancelCall(k)
  <2> DEFINE r == CancelHandle(call[k])
  <2>1. call' = [call EXCEPT ![k] = r] BY <1>6 DEF CancelCall
  <2>2. r \in CallRecords BY <1>2, Handle
  <2>3. r.at = call[k].at /\ r.via = call[k].via /\ r.inst = call[k].inst /\ r.exec = call[k].exec
        /\ r.result = call[k].result /\ r.seen = call[k].seen /\ ~r.pending
        /\ (call[k].pending => r.cancelled /\ r.first = "cancelled")
        /\ (~call[k].pending => r = call[k])
    BY <1>2 DEF CancelHandle, CallRecords
  <2>4. handler' = [handler EXCEPT ![k] = handler[k]] BY <1>2, <1>6 DEF CancelCall
  <2> HIDE DEF r
  <2>5. CallInv(k)'
    BY <1>1, <1>3, <2>1, <2>2, <2>3, <2>4 DEF CallTypes, CallInv, HandlerPlaced, ToldOnceLeft, FirstOutcome
  <2> QED BY <1>2, <1>3, <2>1, <2>2, <2>3, <2>4, <2>5, CallKeepsAdmitted
<1>7. CASE Stop(k)
  <2> DEFINE c == CancelHandle(call[k])
             e == Abandoned(k, c)
             r == [e EXCEPT !.at = "end"]
  <2>1. call' = [call EXCEPT ![k] = r] BY <1>7 DEF Stop
  <2>2. c \in CallRecords /\ c.inst = call[k].inst /\ ~c.pending /\ c.via = call[k].via /\ c.seen = call[k].seen
        /\ c.exec = call[k].exec /\ c.result = call[k].result
        /\ (call[k].pending => c.cancelled /\ c.first = "cancelled")
        /\ (~call[k].pending => c = call[k])
    BY <1>2, Handle, ZenonT(60) DEF CancelHandle, CallRecords
  <2> HIDE DEF c
  <2>3. e \in CallRecords /\ e.inst = c.inst /\ e.pending = c.pending /\ e.via = c.via /\ e.seen = c.seen
        /\ e.result = c.result /\ e.cancelled = c.cancelled /\ e.first = c.first
        /\ (call[k].at = "waiting" /\ (handler[k] = "remote" => endpoint = "ready") => e.exec)
    BY <2>2 DEF Abandoned, Told, CallRecords
  <2> HIDE DEF e
  <2>4. r \in CallRecords /\ r.at = "end" /\ r.inst = e.inst /\ r.pending = e.pending /\ r.via = e.via
        /\ r.seen = e.seen /\ r.result = e.result /\ r.cancelled = e.cancelled /\ r.first = e.first
        /\ r.exec = e.exec
    BY <2>3 DEF CallRecords
  <2> HIDE DEF r
  <2>5. handler' = [handler EXCEPT ![k] = handler[k]] /\ call[k].at \in {"ready", "waiting"}
        /\ call[k].via = "local"
    BY <1>2, <1>7 DEF Stop, Awaiting
  <2>6. call'[k] = r /\ handler'[k] = handler[k] BY <1>1, <2>1, <2>5 DEF CallTypes
  <2>7. HandlerPlaced(k)'
    BY <1>1, <2>2, <2>3, <2>4, <2>5, <2>6 DEF CallInv, HandlerPlaced
  <2>8. ToldOnceLeft(k)'
    BY <1>1, <1>3, <2>2, <2>3, <2>4, <2>5, <2>6 DEF CallInv, HandlerPlaced, ToldOnceLeft
  <2>9. ~r.pending /\ r.via = call[k].via /\ r.seen = call[k].seen /\ r.result = call[k].result
        /\ (call[k].pending => r.cancelled /\ r.first = "cancelled")
        /\ (~call[k].pending => r.cancelled = call[k].cancelled /\ r.first = call[k].first)
    BY <2>2, <2>3, <2>4
  <2>10. FirstOutcome(k)'
    BY <1>1, <2>4, <2>5, <2>6, <2>9 DEF CallInv, FirstOutcome
  <2> QED BY <1>2, <1>3, <2>1, <2>2, <2>3, <2>4, <2>5, <2>7, <2>8, <2>10, CallKeepsAdmitted DEF CallInv
<1>8. ASSUME NEW result \in Results, NEW h \in {"none"}, handler[k] = "none",
             call[k].at \in {"ready", "checked"},
             call' = Return(k, result), UNCHANGED handler
      PROVE  CallsInv'
  <2> DEFINE r == [call[k] EXCEPT !.at = "over", !.result = result]
  <2>1. call' = [call EXCEPT ![k] = r] BY <1>8 DEF Return
  <2>2. r \in CallRecords /\ r.at = "over" /\ r.inst = call[k].inst /\ r.pending = call[k].pending
        /\ r.via = call[k].via /\ r.seen = call[k].seen /\ r.cancelled = call[k].cancelled
        /\ r.first = call[k].first /\ r.exec = call[k].exec
    BY <1>2, <1>8 DEF CallRecords
  <2>3. handler' = [handler EXCEPT ![k] = handler[k]] BY <1>2, <1>8
  <2> HIDE DEF r
  <2>4. call'[k] = r /\ handler'[k] = "none" BY <1>1, <1>8, <2>1 DEF CallTypes
  <2>5. CallInv(k)'
    BY <1>1, <1>8, <2>2, <2>4 DEF CallInv, HandlerPlaced, ToldOnceLeft, FirstOutcome
  <2> QED BY <1>2, <1>3, <2>1, <2>2, <2>3, <2>5, CallKeepsAdmitted
<1>9. CASE Check(k)
  <2>1. handler[k] = "none" /\ call[k].inst = 0 /\ call[k].at = "ready"
    BY <1>1, <1>9 DEF Check, CallInv, HandlerPlaced
  <2>2. CASE \E result \in {"cancelled", "unavailable"} : call' = Return(k, result) /\ UNCHANGED handler
    BY <1>8, <2>1, <2>2 DEF Results
  <2>3. CASE current # 0 /\ call' = [call EXCEPT ![k].at = "checked", ![k].inst = current] /\ UNCHANGED handler
    <3> DEFINE r == [call[k] EXCEPT !.at = "checked", !.inst = current]
    <3>1. call' = [call EXCEPT ![k] = r] BY <2>3
    <3>2. r \in CallRecords /\ r.at = "checked" /\ r.inst # 0 /\ r.pending = call[k].pending
          /\ r.via = call[k].via /\ r.seen = call[k].seen /\ r.cancelled = call[k].cancelled
          /\ r.first = call[k].first /\ r.exec = call[k].exec
      BY <1>1, <1>2, <2>3 DEF CallRecords, CallTypes
    <3>3. handler' = [handler EXCEPT ![k] = handler[k]] BY <1>2, <2>3
    <3> HIDE DEF r
    <3>4. CallInv(k)'
      BY <1>1, <2>1, <3>1, <3>2, <3>3 DEF CallTypes, CallInv, HandlerPlaced, ToldOnceLeft, FirstOutcome
    <3> QED BY <1>2, <1>3, <2>1, <3>1, <3>2, <3>3, <3>4, CallKeepsAdmitted
  <2>4. CASE call' = [call EXCEPT ![k].at = "waiting"] /\ handler' = [handler EXCEPT ![k] = "remote"]
    <3> DEFINE r == [call[k] EXCEPT !.at = "waiting"]
    <3>1. call' = [call EXCEPT ![k] = r] BY <2>4
    <3>2. r \in CallRecords /\ r.at = "waiting" /\ r.inst = 0 /\ r.pending = call[k].pending
          /\ r.via = call[k].via /\ r.seen = call[k].seen /\ r.cancelled = call[k].cancelled
          /\ r.first = call[k].first /\ r.exec = call[k].exec
      BY <1>2, <2>1 DEF CallRecords
    <3> HIDE DEF r
    <3>3. call'[k] = r /\ handler'[k] = "remote" BY <1>1, <2>4, <3>1 DEF CallTypes
    <3>4. CallInv(k)'
      BY <1>1, <2>1, <3>2, <3>3 DEF CallInv, HandlerPlaced, ToldOnceLeft, FirstOutcome
    <3> QED BY <1>3, <2>4, <3>1, <3>2, <3>4, CallKeepsAdmitted
  <2> QED BY <1>9, <2>2, <2>3, <2>4 DEF Check
<1>10. CASE Start(k)
  <2>1. handler[k] = "none" /\ call[k].inst \in Nat \ {0} /\ call[k].at = "checked"
    BY <1>1, <1>2, <1>10 DEF Start, CallInv, HandlerPlaced, CallRecords
  <2>2. CASE \E result \in {"unavailable", "full"} : call' = Return(k, result) /\ UNCHANGED handler
    BY <1>8, <2>1, <2>2 DEF Results
  <2>3. CASE /\ ~(Taken(call[k].inst) >= MaxConcurrency)
             /\ call' = [call EXCEPT ![k].at = "waiting"] /\ handler' = [handler EXCEPT ![k] = "running"]
    <3> DEFINE r == [call[k] EXCEPT !.at = "waiting"]
    <3>1. call' = [call EXCEPT ![k] = r] BY <2>3
    <3>2. r \in CallRecords /\ r.at = "waiting" /\ r.inst = call[k].inst /\ r.pending = call[k].pending
          /\ r.via = call[k].via /\ r.seen = call[k].seen /\ r.cancelled = call[k].cancelled
          /\ r.first = call[k].first /\ r.exec = call[k].exec
      BY <1>2, <2>1 DEF CallRecords
    <3> HIDE DEF r
    <3>3. call'[k] = r /\ handler'[k] = "running" BY <1>1, <2>3, <3>1 DEF CallTypes
    <3>4. CallInv(k)'
      BY <1>1, <2>1, <3>2, <3>3 DEF CallInv, HandlerPlaced, ToldOnceLeft, FirstOutcome
    <3>5. ASSUME NEW i \in Nat \ {0} PROVE IsFiniteSet(Running(i)') /\ Cardinality(Running(i)') <= MaxConcurrency
      <4>1. IsFiniteSet(Running(i)) /\ Cardinality(Running(i)) <= MaxConcurrency
        BY DEF CallsInv, Admission
      <4>2. CASE i = call[k].inst
        <5>1. Running(i)' = Running(i) \cup {k} BY <1>1, <2>3, <3>1, <3>2, <4>2 DEF Running, CallTypes
        <5>2. k \notin Running(i) BY <2>1 DEF Running
        <5>3. IsFiniteSet(Running(i)') /\ Cardinality(Running(i)') = Cardinality(Running(i)) + 1
          BY <4>1, <5>1, <5>2, FS_AddElement
        <5>4. Cardinality(Running(i)) < MaxConcurrency
          BY <2>3, <4>1, <4>2, FS_CardinalityType, CallsAssumption DEF Taken, Running
        <5> QED BY <4>1, <5>3, <5>4, FS_CardinalityType, CallsAssumption
      <4>3. CASE i # call[k].inst
        <5>1. Running(i)' = Running(i) BY <1>1, <2>1, <2>3, <3>1, <3>2, <4>3 DEF Running, CallTypes
        <5> QED BY <4>1, <5>1
      <4> QED BY <4>2, <4>3
    <3> QED BY <1>3, <2>3, <3>1, <3>2, <3>4, <3>5, CallKeeps DEF Admission
  <2> QED BY <1>10, <2>2, <2>3 DEF Start
<1>11. CASE Conclude(k)
  <2>1. PICK result \in Results :
          call' = [Return(k, result) EXCEPT ![k] = Abandoned(k, @)]
    BY <1>11 DEF Conclude, Outcomes, RemoteOutcomes, Results
  <2> DEFINE e == [call[k] EXCEPT !.at = "over", !.result = result]
             r == Abandoned(k, e)
  <2>2. call' = [call EXCEPT ![k] = r]
    <3>1. Return(k, result) = [call EXCEPT ![k] = e] BY DEF Return
    <3>2. call' = [[call EXCEPT ![k] = e] EXCEPT ![k] = Abandoned(k, [call EXCEPT ![k] = e][k])]
      BY <2>1, <3>1
    <3>3. [call EXCEPT ![k] = e][k] = e BY <1>1 DEF CallTypes
    <3> QED BY <1>1, <3>2, <3>3 DEF CallTypes
  <2>3. e \in CallRecords /\ e.at = "over" /\ e.inst = call[k].inst /\ e.pending = call[k].pending
        /\ e.via = call[k].via /\ e.seen = call[k].seen /\ e.cancelled = call[k].cancelled
        /\ e.first = call[k].first /\ e.exec = call[k].exec
    BY <1>2 DEF CallRecords
  <2>4. call[k].at = "waiting" BY <1>11 DEF Conclude
  <2> HIDE DEF e
  <2>5. r \in CallRecords /\ r.at = "over" /\ r.inst = e.inst /\ r.pending = e.pending
        /\ r.via = e.via /\ r.seen = e.seen /\ r.cancelled = e.cancelled /\ r.first = e.first
        /\ ((handler[k] = "remote" => endpoint = "ready") => r.exec)
    BY <2>3, <2>4 DEF Abandoned, Told, CallRecords
  <2> HIDE DEF r
  <2>6. handler' = [handler EXCEPT ![k] = handler[k]] BY <1>2, <1>11 DEF Conclude
  <2>7. call'[k] = r /\ handler'[k] = handler[k] BY <1>1, <2>2, <2>6 DEF CallTypes
  <2>8. HandlerPlaced(k)' BY <1>1, <2>3, <2>4, <2>5, <2>7 DEF CallInv, HandlerPlaced
  <2>9. ToldOnceLeft(k)' BY <1>1, <1>3, <2>3, <2>4, <2>5, <2>7 DEF CallInv, HandlerPlaced, ToldOnceLeft
  <2>10. FirstOutcome(k)' BY <1>1, <2>3, <2>4, <2>5, <2>7 DEF CallInv, FirstOutcome
  <2> QED BY <1>2, <1>3, <2>2, <2>3, <2>5, <2>6, <2>8, <2>9, <2>10, CallKeepsAdmitted DEF CallInv
<1>12. CASE EndHandler(k)
  <2>1. call' = [call EXCEPT ![k] = call[k]] /\ handler' = [handler EXCEPT ![k] = "done"]
        /\ handler[k] \in {"running", "remote"}
    BY <1>1, <1>12 DEF EndHandler, CallTypes
  <2>2. CallInv(k)'
    BY <1>1, <1>2, <2>1 DEF CallTypes, CallInv, HandlerPlaced, ToldOnceLeft, FirstOutcome
  <2> QED BY <1>2, <1>3, <2>1, <2>2, CallKeepsAdmitted
<1>13. CASE Complete(k)
  <2> DEFINE r == IF call[k].via = "native" THEN [call[k] EXCEPT !.at = "end", !.seen = call[k].result]
                  ELSE IF call[k].pending THEN [call[k] EXCEPT !.at = "end", !.pending = FALSE, !.first = "completed"]
                  ELSE [call[k] EXCEPT !.at = "end"]
  <2>1. call' = [call EXCEPT ![k] = r] BY <1>13 DEF Complete
  <2>2. r \in CallRecords /\ r.at = "end" /\ r.via = call[k].via /\ r.inst = call[k].inst /\ r.exec = call[k].exec
        /\ r.cancelled = call[k].cancelled
        /\ (call[k].via # "native" /\ call[k].pending => ~r.pending /\ r.first = "completed")
        /\ (call[k].via # "native" => r.seen = call[k].seen)
        /\ (call[k].via = "native" \/ ~call[k].pending => r.pending = call[k].pending /\ r.first = call[k].first)
        /\ r.result = call[k].result
    BY <1>2 DEF CallRecords
  <2>3. handler' = [handler EXCEPT ![k] = handler[k]] /\ call[k].at = "over" BY <1>2, <1>13 DEF Complete
  <2> HIDE DEF r
  <2>4. call'[k] = r /\ handler'[k] = handler[k] BY <1>1, <2>1, <2>3 DEF CallTypes
  <2>5. CallInv(k)'
    BY <1>1, <1>3, <2>2, <2>3, <2>4 DEF CallInv, HandlerPlaced, ToldOnceLeft, FirstOutcome
  <2> QED BY <1>2, <1>3, <2>1, <2>2, <2>3, <2>5, CallKeepsAdmitted
<1>14. CASE Await(k)
  <2> DEFINE s == IF call[k].cancelled THEN "cancelled" ELSE call[k].result
             r == [call[k] EXCEPT !.seen = s]
  <2>1. call' = [call EXCEPT ![k] = r] BY <1>14 DEF Await
  <2>2. r \in CallRecords /\ r.at = call[k].at /\ r.via = call[k].via /\ r.inst = call[k].inst
        /\ r.exec = call[k].exec /\ r.cancelled = call[k].cancelled /\ r.pending = call[k].pending
        /\ r.first = call[k].first /\ r.result = call[k].result /\ r.seen = s
    BY <1>2 DEF CallRecords, Results
  <2>3. handler' = [handler EXCEPT ![k] = handler[k]] /\ (call[k].cancelled \/ call[k].at = "end")
        /\ call[k].via = "local"
    BY <1>2, <1>14 DEF Await
  <2> HIDE DEF r
  <2>4. call'[k] = r /\ handler'[k] = handler[k] BY <1>1, <2>1, <2>3 DEF CallTypes
  <2>5. CallInv(k)'
    BY <1>1, <1>2, <1>3, <2>2, <2>3, <2>4 DEF CallInv, HandlerPlaced, ToldOnceLeft, FirstOutcome, CallRecords
  <2> QED BY <1>2, <1>3, <2>1, <2>2, <2>3, <2>5, CallKeepsAdmitted
<1> QED BY <1>4, <1>5, <1>6, <1>7, <1>9, <1>10, <1>11, <1>12, <1>13, <1>14

(* The steps that concern every call.                                      *)
LEMMA EveryCall ==
  ASSUME CallsInv,
         \A k \in Calls :
           /\ call'[k] \in CallRecords /\ CallInv(k)'
           /\ call'[k].inst = call[k].inst,
         registered' \in Nat \ {0}, current' \in Nat, endpoint' \in {"ready", "closed"}, handler' = handler,
         \E f \in [Calls -> CallRecords] : call' = f
  PROVE  CallsInv'
<1>1. CallTypes' BY DEF CallTypes, CallsInv
<1>2. \A i \in Nat \ {0} : Running(i)' \subseteq Running(i) BY DEF Running
<1>3. Admission' BY <1>2, NoneAdmitted DEF CallsInv
<1> QED BY <1>1, <1>3 DEF CallsInv

(* and so does every step that concerns all calls at once.                 *)
LEMMA GatewaySteps ==
  ASSUME CallsInv, (\E u \in Users : CleanupCalls(u)) \/ Replace \/ Unregister \/ Shutdown
  PROVE  CallsInv'
<1>1. CallTypes BY DEF CallsInv
<1>2. CASE \E u \in Users : CleanupCalls(u)
  <2>1. PICK u \in Users : CleanupCalls(u) BY <1>2
  <2> DEFINE f == [k \in Calls |->
                     IF call[k].user = u /\ handler[k] = "running" THEN [call[k] EXCEPT !.exec = TRUE] ELSE call[k]]
  <2>2. call' = f /\ UNCHANGED <<registered, current, endpoint, handler>> BY <2>1 DEF CleanupCalls
  <2>3. f \in [Calls -> CallRecords] BY <1>1, Handle DEF CallTypes
  <2>4. ASSUME NEW k \in Calls
        PROVE  call'[k] \in CallRecords /\ CallInv(k)' /\ call'[k].inst = call[k].inst
    <3>1. call[k] \in CallRecords /\ CallInv(k) BY <1>1 DEF CallTypes, CallsInv
    <3>2. CASE call[k].user = u /\ handler[k] = "running"
      <4> DEFINE r == [call[k] EXCEPT !.exec = TRUE]
      <4>1. call'[k] = r BY <2>2, <3>2
      <4>2. r \in CallRecords /\ r.at = call[k].at /\ r.via = call[k].via /\ r.inst = call[k].inst
            /\ r.exec /\ r.cancelled = call[k].cancelled /\ r.pending = call[k].pending
            /\ r.first = call[k].first /\ r.result = call[k].result /\ r.seen = call[k].seen
        BY <3>1 DEF CallRecords
      <4> HIDE DEF r
      <4> QED BY <2>2, <3>1, <3>2, <4>1, <4>2, ZenonT(60) DEF CallInv, HandlerPlaced, ToldOnceLeft, FirstOutcome
    <3>3. CASE ~(call[k].user = u /\ handler[k] = "running")
      <4>1. call'[k] = call[k] /\ handler'[k] = handler[k] /\ endpoint' = endpoint BY <2>2, <3>3
      <4> HIDE DEF f
      <4> QED BY <3>1, <4>1 DEF CallInv, HandlerPlaced, ToldOnceLeft, FirstOutcome
    <3> QED BY <3>2, <3>3
  <2> HIDE DEF f
  <2> QED BY <1>1, <2>2, <2>3, <2>4, EveryCall DEF CallTypes
<1>3. CASE Replace \/ Unregister
  <2>1. UNCHANGED <<endpoint, call, handler>> BY <1>3 DEF Replace, Unregister
  <2>2. registered' \in Nat \ {0} /\ current' \in Nat BY <1>1, <1>3 DEF Replace, Unregister, CallTypes
  <2>3. ASSUME NEW k \in Calls
        PROVE  call'[k] \in CallRecords /\ CallInv(k)' /\ call'[k].inst = call[k].inst
    BY <1>1, <2>1 DEF CallsInv, CallTypes, CallInv, HandlerPlaced, ToldOnceLeft, FirstOutcome
  <2> QED BY <1>1, <2>1, <2>2, <2>3, EveryCall DEF CallTypes
<1>4. CASE Shutdown
  <2> DEFINE f == [k \in Calls |-> IF call[k].via = "native" /\ call[k].at # "end"
                                   THEN CancelHandle(call[k]) ELSE call[k]]
  <2>1. call' = f /\ endpoint' = "closed" /\ UNCHANGED <<registered, handler>> BY <1>4 DEF Shutdown
  <2>2. current' \in Nat BY <1>1, <1>4 DEF Shutdown, CallTypes
  <2>3. f \in [Calls -> CallRecords] BY <1>1, Handle DEF CallTypes
  <2>4. ASSUME NEW k \in Calls
        PROVE  call'[k] \in CallRecords /\ CallInv(k)' /\ call'[k].inst = call[k].inst
    <3>1. call[k] \in CallRecords /\ CallInv(k) BY <1>1 DEF CallTypes, CallsInv
    <3> DEFINE r == CancelHandle(call[k])
    <3>2. r \in CallRecords /\ r.at = call[k].at /\ r.via = call[k].via /\ r.inst = call[k].inst
          /\ r.exec = call[k].exec /\ ~r.pending
          /\ (call[k].pending => r.cancelled /\ r.first = "cancelled")
          /\ (~call[k].pending => r = call[k])
      BY <3>1 DEF CancelHandle, CallRecords
    <3> HIDE DEF r
    <3>3. CASE call[k].via = "native" /\ call[k].at # "end"
      <4>1. call'[k] = r BY <2>1, <3>3 DEF r
      <4> QED BY <2>1, <3>1, <3>2, <3>3, <4>1 DEF CallInv, HandlerPlaced, ToldOnceLeft, FirstOutcome
    <3>4. CASE ~(call[k].via = "native" /\ call[k].at # "end")
      <4>1. call'[k] = call[k] BY <2>1, <3>4
      <4> QED BY <2>1, <3>1, <4>1 DEF CallInv, HandlerPlaced, ToldOnceLeft, FirstOutcome
    <3> QED BY <3>3, <3>4
  <2> HIDE DEF f
  <2> QED BY <1>1, <2>1, <2>2, <2>3, <2>4, EveryCall DEF CallTypes
<1> QED BY <1>2, <1>3, <1>4

(* So every step preserves it.                                             *)
LEMMA CallsKeep == CallsInv /\ [CallsNext]_cvars => CallsInv'
<1> SUFFICES ASSUME CallsInv, [CallsNext]_cvars PROVE CallsInv' OBVIOUS
<1>1. CASE UNCHANGED cvars
  BY <1>1 DEF cvars, CallsInv, CallTypes, CallInv, HandlerPlaced, ToldOnceLeft, FirstOutcome, Admission, Running
<1>2. CASE CallsNext BY <1>2, CallSteps, GatewaySteps DEF CallsNext
<1> QED BY <1>1, <1>2

(* What is stated of the calls follows from it.                            *)
LEMMA CallsMean == CallsInv => CallsKept
<1> SUFFICES ASSUME CallsInv PROVE CallsKept OBVIOUS
<1>1. AdmissionIsWork BY DEF AdmissionIsWork, CallsInv, CallTypes, Admission, Running
<1>2. AbandonedIsTold BY DEF AbandonedIsTold, CallsInv, CallInv, ToldOnceLeft
<1>3. FirstStands BY DEF FirstStands, CallsInv, CallInv, FirstOutcome
<1> QED BY <1>1, <1>2, <1>3 DEF CallsKept

(* A handler that nobody waits for is told so, a handle has one outcome    *)
(* and the limit of an instance holds: CallsKept in every reachable state, *)
(* for any calls, users and limits.                                        *)
THEOREM CallsAreKept == CallsSpec => []CallsKept
<1> QED BY CallsStart, CallsKeep, CallsMean, PTL DEF CallsSpec

(* A result is taken in one step only.                                     *)
LEMMA OnlyConcludes ==
  ASSUME CallsInv, CallsNext, NEW k \in Calls, call'[k].result = "ok", call[k].result # "ok"
  PROVE  ~call[k].cancelled /\ ~call[k].exec /\ (call[k].inst # 0 => call[k].inst = current)
<1>1. CallTypes /\ CallInv(k) /\ call[k] \in CallRecords BY DEF CallsInv, CallTypes
<1>2. Conclude(k)
  <2>1. ASSUME NEW j \in Calls, NEW u \in Users, Begin(j, u) \/ Prepare(j, u) PROVE FALSE
    <3>1. CASE j = k
      <4>1. call'[k].result = "unset" BY <1>1, <2>1, <3>1, ZenonT(60) DEF Begin, Prepare, NoCall, CallTypes
      <4> QED BY <4>1
    <3>2. CASE j # k BY <1>1, <2>1, <3>2 DEF Begin, Prepare, CallTypes
    <3> QED BY <3>1, <3>2
  <2>2. ASSUME NEW j \in Calls, CancelCall(j) \/ Stop(j) \/ EndHandler(j) \/ Complete(j) \/ Await(j) PROVE FALSE
    <3>1. CASE j = k
      <4>1. CASE CancelCall(k)
        <5>1. call'[k] = CancelHandle(call[k]) BY <1>1, <4>1 DEF CancelCall, CallTypes
        <5> QED BY <1>1, <5>1 DEF CancelHandle, CallRecords
      <4>2. CASE Stop(k)
        <5> DEFINE c == CancelHandle(call[k])
        <5>1. c \in CallRecords /\ c.result = call[k].result BY <1>1, Handle, ZenonT(60) DEF CancelHandle, CallRecords
        <5>2. call'[k] = [Abandoned(k, c) EXCEPT !.at = "end"] BY <1>1, <4>2 DEF Stop, CallTypes
        <5> HIDE DEF c
        <5>3. Abandoned(k, c) \in CallRecords /\ Abandoned(k, c).result = c.result
          BY <5>1 DEF Abandoned, Told, CallRecords
        <5>4. call'[k].result = call[k].result BY <5>1, <5>2, <5>3 DEF CallRecords
        <5> QED BY <5>4
      <4>3. CASE EndHandler(k) BY <4>3 DEF EndHandler
      <4>4. CASE Complete(k) BY <1>1, <4>4 DEF Complete, CallTypes, CallRecords
      <4>5. CASE Await(k) BY <1>1, <4>5 DEF Await, CallTypes, CallRecords
      <4> QED BY <2>2, <3>1, <4>1, <4>2, <4>3, <4>4, <4>5
    <3>2. CASE j # k BY <1>1, <2>2, <3>2 DEF CancelCall, Stop, EndHandler, Complete, Await, CallTypes
    <3> QED BY <3>1, <3>2
  <2>3. ASSUME NEW j \in Calls, Check(j) \/ Start(j) PROVE FALSE
    <3>1. CASE j = k
      <4>1. \/ \E result \in {"cancelled", "unavailable", "full"} : call' = Return(k, result)
            \/ call' = [call EXCEPT ![k].at = "checked", ![k].inst = current]
            \/ call' = [call EXCEPT ![k].at = "waiting"]
        BY <2>3, <3>1 DEF Check, Start
      <4>2. CASE \E result \in {"cancelled", "unavailable", "full"} : call' = Return(k, result)
        <5>1. PICK result \in {"cancelled", "unavailable", "full"} : call' = Return(k, result) BY <4>2
        <5>2. call'[k] = [call[k] EXCEPT !.at = "over", !.result = result] BY <1>1, <5>1 DEF Return, CallTypes
        <5>3. call'[k].result = result BY <1>1, <5>2 DEF CallRecords
        <5> QED BY <5>3
      <4>3. CASE call' = [call EXCEPT ![k].at = "checked", ![k].inst = current]
        BY <1>1, <4>3 DEF CallTypes, CallRecords
      <4>4. CASE call' = [call EXCEPT ![k].at = "waiting"] BY <1>1, <4>4 DEF CallTypes, CallRecords
      <4> QED BY <4>1, <4>2, <4>3, <4>4
    <3>2. CASE j # k BY <1>1, <2>3, <3>2 DEF Check, Start, Return, CallTypes
    <3> QED BY <3>1, <3>2
  <2>4. ASSUME NEW j \in Calls, j # k, Conclude(j) PROVE FALSE
    <3>1. PICK result : call' = [Return(j, result) EXCEPT ![j] = Abandoned(j, @)] BY <2>4 DEF Conclude
    <3>2. Return(j, result)[k] = call[k] /\ k \in DOMAIN Return(j, result) BY <1>1, <2>4 DEF Return, CallTypes
    <3>3. call'[k] = call[k] BY <2>4, <3>1, <3>2
    <3> QED BY <3>3
  <2>5. ASSUME NEW u \in Users, CleanupCalls(u) PROVE FALSE
    BY <1>1, <2>5 DEF CleanupCalls, CallRecords
  <2>6. CASE Replace \/ Unregister BY <2>6 DEF Replace, Unregister
  <2>7. CASE Shutdown BY <1>1, <2>7 DEF Shutdown, CancelHandle, CallRecords
  <2> QED BY <2>1, <2>2, <2>3, <2>4, <2>5, <2>6, <2>7 DEF CallsNext
<1>3. PICK result \in IF call[k].inst = 0 THEN RemoteOutcomes(k) ELSE Outcomes(k) :
        call' = [Return(k, result) EXCEPT ![k] = Abandoned(k, @)]
  BY <1>2 DEF Conclude
<1>4. result = "ok"
  <2> DEFINE e == [call[k] EXCEPT !.at = "over", !.result = result]
  <2>1. Return(k, result)[k] = e BY <1>1 DEF Return, CallTypes
  <2>2. call'[k] = Abandoned(k, e) BY <1>1, <1>3, <2>1 DEF Return, CallTypes
  <2>3. result \in Results BY <1>3 DEF RemoteOutcomes, Outcomes, Results
  <2>4. e \in CallRecords /\ e.result = result BY <1>1, <2>3 DEF CallRecords
  <2> HIDE DEF e
  <2>5. Abandoned(k, e).result = result BY <2>4 DEF Abandoned, Told, CallRecords
  <2> QED BY <2>2, <2>5
<1>5. call[k].at = "waiting" BY <1>2 DEF Conclude
<1> QED BY <1>1, <1>3, <1>4, <1>5 DEF RemoteOutcomes, Outcomes, Closed, CallInv, ToldOnceLeft

(* No result is taken for a call that was cancelled, whose execution was   *)
(* told to end, or whose instance was replaced: NoLateResult, a property   *)
(* of every step.                                                          *)
THEOREM NoLateResultIsTaken == CallsSpec => NoLateResult
<1>1. ASSUME CallsInv, [CallsNext]_cvars, NEW k \in Calls, call'[k].result = "ok", call[k].result # "ok"
      PROVE  ~call[k].cancelled /\ ~call[k].exec /\ (call[k].inst # 0 => call[k].inst = current)
  <2>1. CASE UNCHANGED cvars BY <1>1, <2>1 DEF cvars
  <2>2. CASE CallsNext BY <1>1, <2>2, OnlyConcludes
  <2> QED BY <1>1, <2>1, <2>2
<1>2. CallsInv /\ [CallsNext]_cvars => 
        [\A k \in Calls :
           call'[k].result = "ok" /\ call[k].result # "ok"
           => ~call[k].cancelled /\ ~call[k].exec /\ (call[k].inst # 0 => call[k].inst = current)]_cvars
  BY <1>1
<1> QED BY <1>2, CallsStart, CallsKeep, PTL DEF CallsSpec, NoLateResult

(***************************************************************************)
(* Streams.                                                                *)
(***************************************************************************)

(* What the fields of a stream and of a call of next range over.           *)
EndCodes == {"cancelled", "unavailable", "timeout", "end", "failed"}
StreamRecords ==
  [at : {"none", "prepared", "opening", "opened", "live", "gone", "refused"}, via : {"unset", "native"}, inst : Nat,
   session : {"none", "prepared", "attached", "dropped", "removed"}, bound : BOOLEAN, adm : BOOLEAN,
   cancel : BOOLEAN, tracked : BOOLEAN, busy : BOOLEAN, queue : Seq(Nat \ {0}),
   actor : {"idle", "producing", "made"}, request : Nat, made : Nat, terminal : EndCodes \cup {"unset"}]
NextRecords ==
  [at : {"none", "asking", "waiting", "answered", "dropping", "dropped", "over"}, late : BOOLEAN,
   got : EndCodes \cup {"unset", "full", "closed", "chunk"}]

(* A request that is queued or taken was sent.                             *)
Sent(s, n) == n \in Nexts[s] /\ next[s][n].at \notin {"none", "asking"}
RequestSent(s) ==
  /\ stream[s].queue = <<>> \/ \E n \in Nexts[s] : stream[s].queue = <<n>> /\ Sent(s, n)
  /\ stream[s].request # 0 => Sent(s, stream[s].request)

(* A dropped request has cancelled its stream; what began after it is      *)
(* never taken.                                                            *)
LateNeverTaken(s) ==
  \A n \in Nexts[s] :
    /\ next[s][n].at = "dropped" => stream[s].cancel
    /\ next[s][n].late => stream[s].cancel /\ stream[s].request # n /\ next[s][n].got # "chunk"

(* A stream that is gone keeps nobody waiting.                             *)
NoneWaits(s) == stream[s].at = "gone" => \A n \in Nexts[s] : next[s][n].at # "waiting"

(* A handle is bound to a session that can end it, or is told to end.      *)
Bound(s) ==
  /\ stream[s].tracked => stream[s].at \in {"live", "gone"}
  /\ stream[s].bound => stream[s].tracked /\ stream[s].via = "native"
  /\ stream[s].at = "live" /\ stream[s].bound => stream[s].session = "attached" \/ stream[s].cancel

(* What is true of each stream, whatever the others do.                    *)
StreamInv(s) == RequestSent(s) /\ LateNeverTaken(s) /\ NoneWaits(s) /\ Bound(s)

(* What the variables range over.                                          *)
StreamTypes ==
  /\ owner \in Nat
  /\ stream \in [Streams -> StreamRecords]
  /\ next = [s \in Streams |-> next[s]]
  /\ \A s \in Streams : next[s] \in [Nexts[s] -> NextRecords]

(* There are never more streams than are admitted.                         *)
Admissions == IsFiniteSet(Admitted) /\ Cardinality(Admitted) <= MaxStreams

(* The inductive invariant of the gateway's streams.                       *)
StreamsInv == StreamTypes /\ (\A s \in Streams : StreamInv(s)) /\ Admissions

(* No stream: the invariant holds.                                         *)
LEMMA StreamsStart == StreamsInit => StreamsInv
<1> SUFFICES ASSUME StreamsInit PROVE StreamsInv OBVIOUS
<1>1. NoStream \in StreamRecords BY DEF NoStream, StreamRecords
<1>2. NoNext \in NextRecords BY DEF NoNext, NextRecords
<1>3. ASSUME NEW s \in Streams PROVE next[s] = [n \in Nexts[s] |-> NoNext] BY DEF StreamsInit
<1>4. next = [s \in Streams |-> next[s]] BY <1>3 DEF StreamsInit
<1>5. StreamTypes BY <1>1, <1>2, <1>3, <1>4 DEF StreamsInit, StreamTypes
<1>6. ASSUME NEW s \in Streams PROVE StreamInv(s)
  <2>1. stream[s] = NoStream /\ \A n \in Nexts[s] : next[s][n] = NoNext BY <1>3 DEF StreamsInit
  <2>2. NoStream.queue = <<>> /\ NoStream.request = 0 /\ NoStream.at = "none" /\ ~NoStream.tracked
        /\ ~NoStream.bound /\ NoNext.at = "none" /\ ~NoNext.late
    BY DEF NoStream, NoNext
  <2> QED BY <2>1, <2>2 DEF StreamInv, RequestSent, LateNeverTaken, NoneWaits, Bound
<1>7. Admitted = {}
  <2>1. NoStream.at = "none" BY DEF NoStream
  <2> QED BY <2>1 DEF StreamsInit, Admitted
<1>8. Admissions BY <1>7, FS_EmptySet, StreamsAssumption DEF Admissions
<1> QED BY <1>5, <1>6, <1>8 DEF StreamsInv

(* A step that admits none keeps the limit.                                *)
LEMMA NoneAdmittedMore ==
  ASSUME Admissions, Admitted' \subseteq Admitted PROVE Admissions'
<1>1. IsFiniteSet(Admitted') /\ Cardinality(Admitted') <= Cardinality(Admitted)
  BY FS_Subset DEF Admissions
<1>2. Cardinality(Admitted) \in Nat /\ Cardinality(Admitted') \in Nat
  BY <1>1, FS_CardinalityType DEF Admissions
<1> QED BY <1>1, <1>2, StreamsAssumption DEF Admissions

(* A step of one stream.                                                   *)
LEMMA StreamKeeps ==
  ASSUME StreamsInv, NEW s \in Streams, NEW r \in StreamRecords, NEW f \in [Nexts[s] -> NextRecords],
         stream' = [stream EXCEPT ![s] = r], next' = [next EXCEPT ![s] = f], owner' = owner,
         StreamInv(s)', Admissions'
  PROVE  StreamsInv'
<1>1. StreamTypes BY DEF StreamsInv
<1>2. \A x \in Streams : x # s => next'[x] = next[x] /\ stream'[x] = stream[x] BY <1>1 DEF StreamTypes
<1>3. next'[s] = f BY <1>1 DEF StreamTypes
<1>4. StreamTypes'
  <2>1. next' = [x \in Streams |-> next'[x]] BY <1>1 DEF StreamTypes
  <2>2. ASSUME NEW x \in Streams PROVE next'[x] \in [Nexts[x] -> NextRecords]
    BY <1>1, <1>2, <1>3 DEF StreamTypes
  <2> QED BY <1>1, <2>1, <2>2 DEF StreamTypes
<1>5. ASSUME NEW x \in Streams PROVE StreamInv(x)'
  <2>1. CASE x = s BY <2>1
  <2>2. CASE x # s
    <3>1. StreamInv(x) /\ next'[x] = next[x] /\ stream'[x] = stream[x] BY <1>2, <2>2 DEF StreamsInv
    <3> QED BY <3>1 DEF StreamInv, RequestSent, Sent, LateNeverTaken, NoneWaits, Bound
  <2> QED BY <2>1, <2>2
<1> QED BY <1>4, <1>5 DEF StreamsInv

(* A stream that holds its slot.                                           *)
Holds(r) == r.at \in {"opening", "opened", "live"}

(* A step of one stream that takes no slot.                                *)
LEMMA StreamKeepsAdmitted ==
  ASSUME StreamsInv, NEW s \in Streams, NEW r \in StreamRecords, NEW f \in [Nexts[s] -> NextRecords],
         stream' = [stream EXCEPT ![s] = r], next' = [next EXCEPT ![s] = f], owner' = owner,
         StreamInv(s)', Holds(r) => Holds(stream[s])
  PROVE  StreamsInv'
<1>1. Admitted' \subseteq Admitted BY DEF Admitted, Holds, StreamsInv, StreamTypes
<1> QED BY <1>1, NoneAdmittedMore, StreamKeeps DEF StreamsInv

(* A step that leaves the requests alone.                                  *)
LEMMA RequestsAlone ==
  ASSUME StreamsInv, NEW s \in Streams, NEW r \in StreamRecords,
         stream' = [stream EXCEPT ![s] = r], UNCHANGED <<next, owner>>,
         r.queue = stream[s].queue, r.request = stream[s].request, stream[s].cancel => r.cancel,
         r.at = "gone" => stream[s].at = "gone", Bound(s)'
  PROVE  StreamInv(s)' /\ next[s] \in [Nexts[s] -> NextRecords] /\ next' = [next EXCEPT ![s] = next[s]]
<1>1. StreamTypes /\ StreamInv(s) BY DEF StreamsInv
<1>2. stream'[s] = r /\ next'[s] = next[s] BY <1>1 DEF StreamTypes
<1>3. RequestSent(s)' BY <1>1, <1>2 DEF StreamInv, RequestSent, Sent
<1>4. LateNeverTaken(s)' BY <1>1, <1>2 DEF StreamInv, LateNeverTaken
<1>5. NoneWaits(s)' BY <1>1, <1>2 DEF StreamInv, NoneWaits
<1>6. next = [next EXCEPT ![s] = next[s]] BY <1>1 DEF StreamTypes
<1> QED BY <1>1, <1>3, <1>4, <1>5, <1>6 DEF StreamInv, StreamTypes

(* Every step of the opening, the session and the source of a stream       *)
(* preserves the invariant,                                                *)
LEMMA SourceSteps ==
  ASSUME StreamsInv, NEW s \in Streams,
         PrepareStream(s) \/ OpenStream(s) \/ Opened(s) \/ StartStream(s) \/ Attach(s) \/ Produce(s)
         \/ CancelStream(s) \/ Forget(s)
  PROVE  StreamsInv'
<1>1. StreamTypes /\ StreamInv(s) /\ Bound(s) BY DEF StreamsInv, StreamInv
<1>2. stream[s] \in StreamRecords /\ owner \in Nat BY <1>1 DEF StreamTypes
<1>3. UNCHANGED <<next, owner>>
  BY DEF PrepareStream, OpenStream, Opened, StartStream, Attach, Produce, CancelStream, Forget
<1> DEFINE Goes(r) ==
      /\ r \in StreamRecords /\ stream' = [stream EXCEPT ![s] = r]
      /\ r.queue = stream[s].queue /\ r.request = stream[s].request /\ (stream[s].cancel => r.cancel)
      /\ r.at = "gone" => stream[s].at = "gone"
      /\ r.tracked => r.at \in {"live", "gone"}
      /\ r.bound => r.tracked /\ r.via = "native"
      /\ r.at = "live" /\ r.bound => r.session = "attached" \/ r.cancel
<1>4. ASSUME NEW r, Goes(r), Holds(r) => Holds(stream[s]) PROVE StreamsInv'
  <2>1. stream'[s] = r BY <1>1, <1>4 DEF StreamTypes
  <2>2. Bound(s)' BY <1>4, <2>1 DEF Bound
  <2>3. StreamInv(s)' /\ next[s] \in [Nexts[s] -> NextRecords] /\ next' = [next EXCEPT ![s] = next[s]]
    BY <1>4, <1>3, <2>2, RequestsAlone
  <2> HIDE DEF Goes
  <2>4. r \in StreamRecords /\ stream' = [stream EXCEPT ![s] = r] BY <1>4 DEF Goes
  <2> QED BY <1>4, <1>3, <2>3, <2>4, StreamKeepsAdmitted
<1>5. CASE PrepareStream(s)
  <2> DEFINE r == [stream[s] EXCEPT !.at = "prepared", !.via = "native", !.session = "prepared"]
  <2>1. stream' = [stream EXCEPT ![s] = r] BY <1>5 DEF PrepareStream
  <2>2. ~stream[s].tracked /\ ~stream[s].bound
    <3>1. stream[s] = NoStream BY <1>5 DEF PrepareStream, NewestStream
    <3>2. ~NoStream.tracked /\ ~NoStream.bound BY DEF NoStream
    <3> QED BY <3>1, <3>2
  <2>3. Goes(r) /\ ~Holds(r) BY <1>2, <2>1, <2>2 DEF StreamRecords, Holds
  <2> QED BY <1>4, <2>3
<1>6. CASE OpenStream(s)
  <2>1. ~Holds(stream[s]) /\ ~stream[s].tracked /\ ~stream[s].bound /\ stream[s].at # "gone"
    <3>1. NoStream.at = "none" BY DEF NoStream
    <3>2. stream[s].at \in {"none", "prepared"} BY <1>6, <3>1 DEF OpenStream, NewestStream
    <3> QED BY <1>1, <3>2 DEF Bound, Holds
  <2> DEFINE refused == [stream[s] EXCEPT !.at = "refused", !.session = "removed"]
             opening == [stream[s] EXCEPT !.at = "opening", !.inst = owner]
  <2>2. CASE stream' = [stream EXCEPT ![s] = refused]
    <3>1. Goes(refused) /\ ~Holds(refused) BY <1>2, <2>1, <2>2 DEF StreamRecords, Holds
    <3> QED BY <1>4, <3>1
  <2>3. CASE stream' = [stream EXCEPT ![s] = opening] /\ ~(Cardinality(Admitted) >= MaxStreams)
    <3>1. Goes(opening) /\ opening.at = "opening" BY <1>2, <2>1, <2>3 DEF StreamRecords
    <3>2. stream'[s] = opening BY <1>1, <2>3 DEF StreamTypes
    <3> HIDE DEF opening
    <3>3. Bound(s)' BY <3>1, <3>2 DEF Bound
    <3>4. StreamInv(s)' /\ next[s] \in [Nexts[s] -> NextRecords] /\ next' = [next EXCEPT ![s] = next[s]]
      BY <1>3, <3>1, <3>3, RequestsAlone
    <3>5. Admitted' = Admitted \cup {s}
      BY <1>1, <2>1, <2>3, <3>1, <3>2 DEF Admitted, Holds, StreamTypes
    <3>6. s \notin Admitted BY <2>1 DEF Admitted, Holds
    <3>7. IsFiniteSet(Admitted') /\ Cardinality(Admitted') = Cardinality(Admitted) + 1
          /\ Cardinality(Admitted) \in Nat
      BY <3>5, <3>6, FS_AddElement, FS_CardinalityType DEF StreamsInv, Admissions
    <3>8. Admissions' BY <2>3, <3>7, StreamsAssumption DEF Admissions
    <3> QED BY <1>3, <3>1, <3>4, <3>8, StreamKeeps
  <2>4. IF (stream[s].at = "prepared" /\ stream[s].session = "removed") \/ Cardinality(Admitted) >= MaxStreams
        THEN stream' = [stream EXCEPT ![s] = refused] ELSE stream' = [stream EXCEPT ![s] = opening]
    BY <1>6 DEF OpenStream
  <2> HIDE DEF refused, opening
  <2> QED BY <2>2, <2>3, <2>4
<1>7. CASE Opened(s)
  <2>1. stream[s].at = "opening" BY <1>7 DEF Opened
  <2>2. CASE stream' = [stream EXCEPT ![s].at = "opened"]
    <3> DEFINE r == [stream[s] EXCEPT !.at = "opened"]
    <3>1. stream' = [stream EXCEPT ![s] = r] BY <2>2
    <3>2. Goes(r) /\ Holds(stream[s]) BY <1>1, <1>2, <2>1, <3>1 DEF StreamRecords, Holds, Bound
    <3> QED BY <1>4, <3>2
  <2>3. CASE stream' = [stream EXCEPT ![s].at = "refused", ![s].session = IF @ = "prepared" THEN "removed" ELSE @]
    <3> DEFINE after == IF stream[s].session = "prepared" THEN "removed" ELSE stream[s].session
               r == [stream[s] EXCEPT !.at = "refused", !.session = after]
    <3>1. stream' = [stream EXCEPT ![s] = r] BY <1>1, <1>2, <2>3 DEF StreamTypes, StreamRecords
    <3>2. after \in {"none", "prepared", "attached", "dropped", "removed"} BY <1>2 DEF StreamRecords
    <3> HIDE DEF after
    <3>3. Goes(r) /\ Holds(stream[s]) BY <1>1, <1>2, <2>1, <3>1, <3>2 DEF StreamRecords, Holds, Bound
    <3> QED BY <1>4, <3>3
  <2> QED BY <1>7, <2>2, <2>3 DEF Opened
<1>8. CASE StartStream(s)
  <2> DEFINE r == [stream[s] EXCEPT !.at = "live", !.tracked = TRUE]
  <2>1. stream' = [stream EXCEPT ![s] = r] /\ stream[s].at = "opened" BY <1>8 DEF StartStream
  <2>2. Goes(r) /\ Holds(stream[s]) BY <1>1, <1>2, <2>1 DEF StreamRecords, Holds, Bound
  <2> QED BY <1>4, <2>2
<1>9. CASE Attach(s)
  <2>1. stream[s].via = "native" /\ stream[s].tracked BY <1>9 DEF Attach
  <2>2. CASE stream[s].session = "prepared"
    <3> DEFINE r == [stream[s] EXCEPT !.session = "attached", !.bound = TRUE]
    <3>1. stream' = [stream EXCEPT ![s] = r] BY <1>9, <2>2 DEF Attach, AttachHandle
    <3>2. Goes(r) /\ r.at = stream[s].at BY <1>1, <1>2, <2>1, <3>1 DEF StreamRecords, Bound
    <3> QED BY <1>4, <3>2 DEF Holds
  <2>3. CASE stream[s].session # "prepared"
    <3> DEFINE r == [stream[s] EXCEPT !.session = "dropped", !.bound = TRUE, !.cancel = TRUE]
    <3>1. stream' = [stream EXCEPT ![s] = r] BY <1>9, <2>3 DEF Attach, AttachHandle
    <3>2. Goes(r) /\ r.at = stream[s].at BY <1>1, <1>2, <2>1, <3>1 DEF StreamRecords, Bound
    <3> QED BY <1>4, <3>2 DEF Holds
  <2> QED BY <2>2, <2>3
<1>10. CASE Produce(s)
  <2> DEFINE r == [stream[s] EXCEPT !.actor = "made", !.made = stream[s].made + 1]
  <2>1. stream' = [stream EXCEPT ![s] = r] 
    <3>1. stream' = [stream EXCEPT ![s].actor = "made", ![s].made = @ + 1] BY <1>10 DEF Produce
    <3>2. stream'[s] = r BY <1>1, <1>2, <3>1 DEF StreamTypes, StreamRecords
    <3>3. stream' = [stream EXCEPT ![s] = stream'[s]] BY <1>1, <3>1 DEF StreamTypes
    <3> QED BY <3>2, <3>3
  <2>2. stream[s].made \in Nat BY <1>2 DEF StreamRecords
  <2>3. stream[s].made + 1 \in Nat BY <2>2
  <2>4. Goes(r) /\ r.at = stream[s].at BY <1>1, <1>2, <2>1, <2>3, ZenonT(60) DEF StreamRecords, Bound
  <2> QED BY <1>4, <2>4 DEF Holds
<1>11. CASE CancelStream(s)
  <2> DEFINE after == IF stream[s].via = "native" THEN SessionLeft(s) ELSE stream[s].session
             stop == stream[s].cancel \/ Usable(s)
             r == [stream[s] EXCEPT !.session = after, !.cancel = stop]
  <2>1. stream' = [stream EXCEPT ![s] = r]
    <3>1. stream' = [stream EXCEPT ![s] = stream'[s]] BY <1>1, <1>11 DEF CancelStream, StreamTypes
    <3>2. stream'[s] = r BY <1>1, <1>2, <1>11 DEF CancelStream, StreamTypes, StreamRecords
    <3> QED BY <3>1, <3>2
  <2>2. after \in {"none", "prepared", "attached", "dropped", "removed"}
    BY <1>2 DEF SessionLeft, StreamRecords
  <2>3. stop \in BOOLEAN BY DEF Usable
  <2>4. /\ stream[s].cancel => stop
        /\ stream[s].tracked /\ stream[s].session = "attached" => stop
    BY DEF Usable
  <2> HIDE DEF after, stop
  <2>5. r \in StreamRecords /\ r.queue = stream[s].queue /\ r.request = stream[s].request /\ r.cancel = stop
        /\ r.at = stream[s].at /\ r.tracked = stream[s].tracked /\ r.bound = stream[s].bound /\ r.via = stream[s].via
    BY <1>2, <2>2, <2>3 DEF StreamRecords
  <2> HIDE DEF r
  <2>6. Goes(r) BY <1>1, <2>1, <2>4, <2>5 DEF Bound
  <2> QED BY <1>4, <2>5, <2>6 DEF Holds
<1>12. CASE Forget(s)
  <2> DEFINE r == [stream[s] EXCEPT !.session = "dropped"]
  <2>1. stream' = [stream EXCEPT ![s] = r] /\ stream[s].at = "gone" BY <1>12 DEF Forget
  <2>2. Goes(r) /\ r.at = stream[s].at BY <1>1, <1>2, <2>1 DEF StreamRecords, Bound
  <2> QED BY <1>4, <2>2 DEF Holds
<1> QED BY <1>5, <1>6, <1>7, <1>8, <1>9, <1>10, <1>11, <1>12

(* A step of one call of next.                                             *)
LEMMA NextStep ==
  ASSUME StreamsInv, NEW s \in Streams, NEW n \in Nexts[s], NEW r \in StreamRecords, NEW v \in NextRecords,
         stream' = [stream EXCEPT ![s] = r], next' = [next EXCEPT ![s] = [next[s] EXCEPT ![n] = v]],
         owner' = owner,
         r.at = stream[s].at, r.tracked = stream[s].tracked, r.bound = stream[s].bound, r.via = stream[s].via,
         r.session = stream[s].session, stream[s].cancel => r.cancel, r.request = stream[s].request,
         r.queue = stream[s].queue \/ (r.queue = <<n>> /\ v.at \notin {"none", "asking"}),
         v.at \in {"none", "asking"} => next[s][n].at \in {"none", "asking"},
         v.at = "dropped" => r.cancel,
         v.late => r.cancel /\ r.request # n /\ v.got # "chunk",
         stream[s].at = "gone" => v.at # "waiting"
  PROVE  StreamsInv'
<1>1. StreamTypes /\ StreamInv(s) BY DEF StreamsInv
<1>2. stream'[s] = r /\ next'[s] = [next[s] EXCEPT ![n] = v] /\ next[s] \in [Nexts[s] -> NextRecords]
  BY <1>1 DEF StreamTypes
<1>3. next'[s][n] = v /\ \A m \in Nexts[s] : m # n => next'[s][m] = next[s][m] BY <1>2
<1>4. RequestSent(s)' BY <1>1, <1>2, <1>3 DEF StreamInv, RequestSent, Sent
<1>5. LateNeverTaken(s)' BY <1>1, <1>2, <1>3 DEF StreamInv, LateNeverTaken
<1>6. NoneWaits(s)' BY <1>1, <1>2, <1>3 DEF StreamInv, NoneWaits
<1>7. Bound(s)' BY <1>1, <1>2 DEF StreamInv, Bound
<1>8. [next[s] EXCEPT ![n] = v] \in [Nexts[s] -> NextRecords] BY <1>2
<1>9. Holds(r) => Holds(stream[s]) BY DEF Holds
<1> QED BY <1>4, <1>5, <1>6, <1>7, <1>8, <1>9, StreamKeepsAdmitted DEF StreamInv

(* every step of a call of next,                                           *)
LEMMA NextSteps ==
  ASSUME StreamsInv, NEW s \in Streams, NEW n \in Nexts[s],
         Ask(s, n) \/ Send(s, n) \/ GetAnswer(s, n) \/ DropNext(s, n) \/ EndDrop(s, n)
  PROVE  StreamsInv'
<1>1. StreamTypes /\ StreamInv(s) BY DEF StreamsInv
<1>2. stream[s] \in StreamRecords /\ next[s] \in [Nexts[s] -> NextRecords] /\ next[s][n] \in NextRecords
      /\ stream = [stream EXCEPT ![s] = stream[s]] /\ s \in DOMAIN next
  BY <1>1 DEF StreamTypes
<1>3. owner' = owner BY DEF Ask, Send, GetAnswer, DropNext, EndDrop
<1>4. n \in Nat \ {0} BY StreamsAssumption
<1>5. CASE Ask(s, n)
  <2>1. next[s][n] = NoNext /\ NoNext.at = "none" BY <1>5 DEF Ask, NoNext
  <2> DEFINE late == \E m \in Nexts[s] : next[s][m].at = "dropped"
  <2>2. late => stream[s].cancel BY <1>1 DEF StreamInv, LateNeverTaken
  <2>3. stream[s].request # n BY <1>1, <1>4, <2>1 DEF StreamInv, RequestSent, Sent
  <2>4. late \in BOOLEAN OBVIOUS
  <2> HIDE DEF late
  <2>5. CASE Terminal(s) # "unset" \/ stream[s].busy
    <3> DEFINE got == IF Terminal(s) # "unset" THEN Terminal(s) ELSE "full"
               v == [at |-> "over", late |-> late, got |-> got]
    <3>1. got \in EndCodes \cup {"full"} BY <1>2 DEF Terminal, StreamRecords
    <3>2. next' = [next EXCEPT ![s][n] = v] /\ stream' = stream BY <1>5, <2>5 DEF Ask, late
    <3>3. next' = [next EXCEPT ![s] = [next[s] EXCEPT ![n] = v]] BY <3>2
    <3> HIDE DEF got
    <3>4. v \in NextRecords /\ v.at = "over" /\ v.late = late /\ v.got # "chunk"
      BY <2>4, <3>1 DEF NextRecords, EndCodes
    <3> HIDE DEF v
    <3>5. stream' = [stream EXCEPT ![s] = stream[s]] BY <1>2, <3>2
    <3> QED BY <1>2, <1>3, <2>2, <2>3, <3>3, <3>4, <3>5, NextStep
  <2>6. CASE ~(Terminal(s) # "unset" \/ stream[s].busy)
    <3> DEFINE v == [at |-> "asking", late |-> late, got |-> "unset"]
               r == [stream[s] EXCEPT !.busy = TRUE]
    <3>1. next' = [next EXCEPT ![s][n] = v] /\ stream' = [stream EXCEPT ![s].busy = TRUE]
      BY <1>5, <2>6 DEF Ask, late
    <3>2. next' = [next EXCEPT ![s] = [next[s] EXCEPT ![n] = v]] /\ stream' = [stream EXCEPT ![s] = r] BY <3>1
    <3>3. v \in NextRecords /\ v.at = "asking" /\ v.late = late /\ v.got = "unset"
      BY <2>4 DEF NextRecords
    <3>4. r \in StreamRecords /\ r.at = stream[s].at /\ r.tracked = stream[s].tracked /\ r.bound = stream[s].bound
          /\ r.via = stream[s].via /\ r.session = stream[s].session /\ r.cancel = stream[s].cancel
          /\ r.request = stream[s].request /\ r.queue = stream[s].queue
      BY <1>2 DEF StreamRecords
    <3> HIDE DEF v, r
    <3> QED BY <1>3, <2>1, <2>2, <2>3, <3>2, <3>3, <3>4, NextStep
  <2> QED BY <2>5, <2>6
<1> DEFINE Stays(r) == /\ r \in StreamRecords /\ r.at = stream[s].at /\ r.tracked = stream[s].tracked
                       /\ r.bound = stream[s].bound /\ r.via = stream[s].via /\ r.session = stream[s].session
                       /\ r.request = stream[s].request
<1>6. next[s][n].late => stream[s].cancel /\ stream[s].request # n /\ next[s][n].got # "chunk"
  BY <1>1 DEF StreamInv, LateNeverTaken
<1>7. CASE Send(s, n)
  <2>1. next[s][n].at = "asking" BY <1>7 DEF Send
  <2>2. CASE stream[s].at = "live" /\ stream[s].queue = <<>>
    <3> DEFINE v == [next[s][n] EXCEPT !.at = "waiting"]
               r == [stream[s] EXCEPT !.queue = <<n>>]
    <3>1. next' = [next EXCEPT ![s] = [next[s] EXCEPT ![n] = v]]
          /\ stream' = [stream EXCEPT ![s] = r] BY <1>7, <2>2 DEF Send
    <3>2. v \in NextRecords /\ v.at = "waiting" /\ v.late = next[s][n].late /\ v.got = next[s][n].got
      BY <1>2 DEF NextRecords
    <3>3. <<n>> \in Seq(Nat \ {0}) BY <1>4
    <3>4. Stays(r) /\ r.cancel = stream[s].cancel /\ r.queue = <<n>> BY <1>2, <3>3 DEF StreamRecords
    <3> HIDE DEF v, r
    <3> QED BY <1>3, <1>6, <2>2, <3>1, <3>2, <3>4, NextStep
  <2>3. CASE ~(stream[s].at = "live" /\ stream[s].queue = <<>>)
    <3> DEFINE got == IF Terminal(s) # "unset" THEN Terminal(s) ELSE "closed"
               v == [next[s][n] EXCEPT !.at = "over", !.got = got]
               r == [stream[s] EXCEPT !.busy = FALSE]
    <3>1. got \in EndCodes \cup {"closed"} BY <1>2 DEF Terminal, StreamRecords
    <3>2. next' = [next EXCEPT ![s][n].at = "over", ![s][n].got = got] /\ stream' = [stream EXCEPT ![s] = r]
      BY <1>7, <2>3 DEF Send
    <3> HIDE DEF got
    <3>3. next' = [next EXCEPT ![s] = [next[s] EXCEPT ![n] = v]]
      <4>1. next' = [next EXCEPT ![s] = next'[s]] BY <1>1, <3>2 DEF StreamTypes
      <4>2. next'[s] = [next[s] EXCEPT ![n] = next'[s][n]] BY <1>2, <3>2
      <4>3. next'[s][n] = v BY <1>2, <3>2 DEF NextRecords
      <4> QED BY <4>1, <4>2, <4>3
    <3>4. v \in NextRecords /\ v.at = "over" /\ v.late = next[s][n].late /\ v.got # "chunk"
      BY <1>2, <3>1 DEF NextRecords, EndCodes
    <3>5. Stays(r) /\ r.cancel = stream[s].cancel /\ r.queue = stream[s].queue BY <1>2 DEF StreamRecords
    <3> HIDE DEF v, r
    <3> QED BY <1>3, <1>6, <3>2, <3>3, <3>4, <3>5, NextStep
  <2> QED BY <2>2, <2>3
<1>8. CASE GetAnswer(s, n)
  <2> DEFINE v == [next[s][n] EXCEPT !.at = "over"]
             r == [stream[s] EXCEPT !.busy = FALSE]
  <2>1. next' = [next EXCEPT ![s] = [next[s] EXCEPT ![n] = v]]
        /\ stream' = [stream EXCEPT ![s] = r] BY <1>8 DEF GetAnswer
  <2>2. v \in NextRecords /\ v.at = "over" /\ v.late = next[s][n].late /\ v.got = next[s][n].got
    BY <1>2 DEF NextRecords
  <2>3. Stays(r) /\ r.cancel = stream[s].cancel /\ r.queue = stream[s].queue BY <1>2 DEF StreamRecords
  <2> HIDE DEF v, r
  <2> QED BY <1>3, <1>6, <2>1, <2>2, <2>3, NextStep
<1>9. CASE DropNext(s, n)
  <2> DEFINE v == [next[s][n] EXCEPT !.at = "dropping", !.got = "unset"]
             r == [stream[s] EXCEPT !.busy = FALSE]
  <2>1. next' = [next EXCEPT ![s][n].at = "dropping", ![s][n].got = "unset"] /\ stream' = [stream EXCEPT ![s] = r]
    BY <1>9 DEF DropNext
  <2>2. next' = [next EXCEPT ![s] = [next[s] EXCEPT ![n] = v]]
    <3>1. next' = [next EXCEPT ![s] = next'[s]] BY <1>1, <2>1 DEF StreamTypes
    <3>2. next'[s] = [next[s] EXCEPT ![n] = next'[s][n]] BY <1>2, <2>1
    <3>3. next'[s][n] = v BY <1>2, <2>1 DEF NextRecords
    <3> QED BY <3>1, <3>2, <3>3
  <2>3. v \in NextRecords /\ v.at = "dropping" /\ v.late = next[s][n].late /\ v.got = "unset"
    BY <1>2 DEF NextRecords
  <2>4. Stays(r) /\ r.cancel = stream[s].cancel /\ r.queue = stream[s].queue BY <1>2 DEF StreamRecords
  <2> HIDE DEF v, r
  <2> QED BY <1>3, <1>6, <2>1, <2>2, <2>3, <2>4, NextStep
<1>10. CASE EndDrop(s, n)
  <2> DEFINE v == [next[s][n] EXCEPT !.at = "dropped"]
             r == [stream[s] EXCEPT !.cancel = TRUE]
  <2>1. next' = [next EXCEPT ![s] = [next[s] EXCEPT ![n] = v]]
        /\ stream' = [stream EXCEPT ![s] = r] BY <1>10 DEF EndDrop, DroppedCancels
  <2>2. v \in NextRecords /\ v.at = "dropped" /\ v.late = next[s][n].late /\ v.got = next[s][n].got
    BY <1>2 DEF NextRecords
  <2>3. Stays(r) /\ r.cancel /\ r.queue = stream[s].queue BY <1>2 DEF StreamRecords
  <2> HIDE DEF v, r
  <2> QED BY <1>3, <1>6, <2>1, <2>2, <2>3, NextStep
<1> QED BY <1>5, <1>7, <1>8, <1>9, <1>10

(* every step of the stream's own loop,                                    *)
LEMMA ActorSteps ==
  ASSUME StreamsInv, NEW s \in Streams, Take(s) \/ Deliver(s) \/ Finish(s)
  PROVE  StreamsInv'
<1>1. StreamTypes /\ StreamInv(s) BY DEF StreamsInv
<1>2. stream[s] \in StreamRecords /\ next[s] \in [Nexts[s] -> NextRecords]
      /\ next = [next EXCEPT ![s] = next[s]] /\ s \in DOMAIN next
  BY <1>1 DEF StreamTypes
<1>3. owner' = owner BY DEF Take, Deliver, Finish
<1>4. CASE Take(s)
  <2>1. PICK n \in Nexts[s] : stream[s].queue = <<n>> /\ Sent(s, n)
    BY <1>1, <1>4 DEF Take, StreamInv, RequestSent
  <2>2. ~stream[s].cancel /\ n \in Nat \ {0} BY <1>4, StreamsAssumption DEF Take, GoesOn
  <2> DEFINE r == [stream[s] EXCEPT !.actor = "producing", !.request = n, !.queue = <<>>]
  <2>3. Head(stream[s].queue) = n BY <2>1
  <2>4. stream' = [stream EXCEPT ![s] = r]
    <3>1. stream' = [stream EXCEPT ![s] = stream'[s]] BY <1>1, <1>4 DEF Take, StreamTypes
    <3>2. stream'[s] = r BY <1>1, <1>2, <1>4, <2>3 DEF Take, StreamTypes, StreamRecords
    <3> QED BY <3>1, <3>2
  <2>5. r \in StreamRecords /\ r.at = stream[s].at /\ r.queue = <<>> /\ r.request = n /\ r.cancel = stream[s].cancel
        /\ r.tracked = stream[s].tracked /\ r.bound = stream[s].bound /\ r.via = stream[s].via
        /\ r.session = stream[s].session
    <3>1. <<>> \in Seq(Nat \ {0}) /\ n \in Nat BY <2>2
    <3> QED BY <1>2, <3>1 DEF StreamRecords
  <2> HIDE DEF r
  <2>6. stream'[s] = r /\ next' = next BY <1>1, <1>4, <2>4 DEF Take, StreamTypes
  <2>7. RequestSent(s)' BY <2>1, <2>5, <2>6 DEF RequestSent, Sent
  <2>8. LateNeverTaken(s)' BY <1>1, <2>2, <2>5, <2>6 DEF StreamInv, LateNeverTaken
  <2>9. NoneWaits(s)' /\ Bound(s)' BY <1>1, <2>5, <2>6 DEF StreamInv, NoneWaits, Bound
  <2> QED BY <1>2, <1>3, <2>4, <2>5, <2>6, <2>7, <2>8, <2>9, StreamKeepsAdmitted DEF StreamInv, Holds
<1>5. CASE Deliver(s)
  <2> DEFINE n == stream[s].request
             f == Answered(s, n, "chunk")
             r == [stream[s] EXCEPT !.actor = "idle", !.request = 0]
  <2>1. stream' = [stream EXCEPT ![s] = r] /\ next' = [next EXCEPT ![s] = f]
    <3>1. stream' = [stream EXCEPT ![s] = stream'[s]] BY <1>1, <1>5 DEF Deliver, StreamTypes
    <3>2. stream'[s] = r BY <1>1, <1>2, <1>5 DEF Deliver, StreamTypes, StreamRecords
    <3> QED BY <1>5, <3>1, <3>2 DEF Deliver
  <2>2. n # 0 => Sent(s, n) BY <1>1 DEF StreamInv, RequestSent
  <2>3. f \in [Nexts[s] -> NextRecords]
        /\ \A m \in Nexts[s] :
             \/ f[m] = next[s][m]
             \/ m = n /\ f[m].at = "answered" /\ f[m].late = next[s][m].late
    <3>1. CASE n # 0 /\ next[s][n].at = "waiting"
      <4> DEFINE v == [next[s][n] EXCEPT !.at = "answered", !.got = "chunk"]
      <4>1. n \in Nexts[s] /\ next[s][n] \in NextRecords BY <1>2, <2>2, <3>1 DEF Sent
      <4>2. v \in NextRecords /\ v.at = "answered" /\ v.late = next[s][n].late BY <4>1 DEF NextRecords
      <4>3. f = [next[s] EXCEPT ![n] = v]
        <5>1. f = [next[s] EXCEPT ![n].at = "answered", ![n].got = "chunk"] BY <3>1 DEF Answered
        <5>2. f = [next[s] EXCEPT ![n] = f[n]] BY <1>2, <5>1
        <5>3. f[n] = v BY <1>2, <4>1, <5>1 DEF NextRecords
        <5> QED BY <5>2, <5>3
      <4> HIDE DEF v, f, n
      <4> QED BY <1>2, <4>1, <4>2, <4>3
    <3>2. CASE ~(n # 0 /\ next[s][n].at = "waiting") BY <1>2, <3>2 DEF Answered
    <3> QED BY <3>1, <3>2
  <2>4. r \in StreamRecords /\ r.at = stream[s].at /\ r.queue = stream[s].queue /\ r.request = 0 /\ r.cancel = stream[s].cancel
        /\ r.tracked = stream[s].tracked /\ r.bound = stream[s].bound /\ r.via = stream[s].via
        /\ r.session = stream[s].session
    BY <1>2 DEF StreamRecords
  <2> HIDE DEF r, f
  <2>5. stream'[s] = r /\ next'[s] = f BY <1>1, <1>2, <2>1 DEF StreamTypes
  <2>6. 0 \notin Nexts[s] BY StreamsAssumption
  <2>7. RequestSent(s)' BY <1>1, <2>3, <2>4, <2>5 DEF StreamInv, RequestSent, Sent
  <2>8. LateNeverTaken(s)' BY <1>1, <2>3, <2>4, <2>5, <2>6 DEF StreamInv, LateNeverTaken
  <2>9. NoneWaits(s)' /\ Bound(s)' BY <1>1, <2>3, <2>4, <2>5 DEF StreamInv, NoneWaits, Bound
  <2> QED BY <1>2, <1>3, <2>1, <2>3, <2>4, <2>7, <2>8, <2>9, StreamKeepsAdmitted DEF StreamInv, Holds
<1>6. CASE Finish(s)
  <2>1. PICK got \in Endings(s) :
          /\ stream' = [stream EXCEPT ![s].at = "gone", ![s].terminal = got, ![s].actor = "idle",
                                      ![s].request = 0, ![s].queue = <<>>]
          /\ next' = [next EXCEPT ![s] = Answers(s, got)]
    BY <1>6 DEF Finish
  <2>2. got \in EndCodes BY DEF Endings, EndCodes
  <2> DEFINE f == Answers(s, got)
             r == [stream[s] EXCEPT !.at = "gone", !.terminal = got, !.actor = "idle", !.request = 0, !.queue = <<>>]
  <2>3. stream' = [stream EXCEPT ![s] = r]
    <3>1. stream' = [stream EXCEPT ![s] = stream'[s]] BY <1>1, <2>1 DEF StreamTypes
    <3>2. stream'[s] = r BY <1>1, <1>2, <2>1 DEF StreamTypes, StreamRecords
    <3> QED BY <3>1, <3>2
  <2>4. ASSUME NEW m \in Nexts[s]
        PROVE  f[m] \in NextRecords /\ f[m].at # "waiting" /\ f[m].late = next[s][m].late
               /\ (f[m].at \in {"none", "asking", "dropped"} => f[m].at = next[s][m].at)
               /\ (f[m].got = "chunk" => next[s][m].got = "chunk")
    <3> DEFINE g == IF m = stream[s].request THEN got ELSE "closed"
    <3>1. g \in EndCodes \cup {"closed"} BY <2>2
    <3>2. f[m] = IF next[s][m].at # "waiting" THEN next[s][m] ELSE [next[s][m] EXCEPT !.at = "answered", !.got = g]
      BY DEF Answers
    <3> HIDE DEF g, f
    <3> QED BY <1>2, <3>1, <3>2 DEF NextRecords, EndCodes
  <2>5. f \in [Nexts[s] -> NextRecords] BY <2>4 DEF Answers
  <2>6. r \in StreamRecords /\ r.at = "gone" /\ r.queue = <<>> /\ r.request = 0 /\ r.cancel = stream[s].cancel
        /\ r.tracked = stream[s].tracked /\ r.bound = stream[s].bound /\ r.via = stream[s].via
    <3>1. <<>> \in Seq(Nat \ {0}) OBVIOUS
    <3>2. got \in EndCodes \cup {"unset"} BY <2>2
    <3> QED BY <1>2, <3>1, <3>2 DEF StreamRecords
  <2> HIDE DEF r, f
  <2>7. stream'[s] = r /\ next'[s] = f BY <1>1, <1>2, <2>1, <2>3 DEF StreamTypes, f
  <2>8. 0 \notin Nexts[s] BY StreamsAssumption
  <2>9. RequestSent(s)' BY <2>6, <2>7 DEF RequestSent
  <2>10. LateNeverTaken(s)' BY <1>1, <2>4, <2>6, <2>7, <2>8 DEF StreamInv, LateNeverTaken
  <2>11. NoneWaits(s)' /\ Bound(s)' BY <1>1, <2>4, <2>6, <2>7 DEF StreamInv, NoneWaits, Bound
  <2> QED BY <1>3, <2>1, <2>3, <2>5, <2>6, <2>9, <2>10, <2>11, StreamKeepsAdmitted DEF StreamInv, Holds, f
<1> QED BY <1>4, <1>5, <1>6

(* and a replaced or departed owner.                                       *)
LEMMA OwnerSteps ==
  ASSUME StreamsInv, CleanupStreams \/ ReplaceOwner PROVE StreamsInv'
<1>1. StreamTypes BY DEF StreamsInv
<1>2. CASE CleanupStreams
  <2> DEFINE R(s) == [stream[s] EXCEPT !.adm = TRUE, !.cancel = stream[s].cancel \/ stream[s].tracked]
  <2>1. ASSUME NEW s \in Streams
        PROVE  /\ stream'[s] \in StreamRecords
               /\ stream'[s].at = stream[s].at /\ stream'[s].queue = stream[s].queue
               /\ stream'[s].request = stream[s].request /\ (stream[s].cancel => stream'[s].cancel)
               /\ stream'[s].tracked = stream[s].tracked /\ stream'[s].bound = stream[s].bound
               /\ stream'[s].via = stream[s].via /\ stream'[s].session = stream[s].session
    <3> DEFINE stop == stream[s].cancel \/ stream[s].tracked
               r == [stream[s] EXCEPT !.adm = TRUE, !.cancel = stop]
    <3>1. stream'[s] = IF s \notin Admitted THEN stream[s] ELSE r BY <1>2 DEF CleanupStreams
    <3>2. stream[s] \in StreamRecords BY <1>1 DEF StreamTypes
    <3>3. stop \in BOOLEAN /\ (stream[s].cancel => stop) OBVIOUS
    <3> HIDE DEF stop
    <3>4. r \in StreamRecords /\ r.at = stream[s].at /\ r.queue = stream[s].queue
          /\ r.request = stream[s].request /\ r.cancel = stop
          /\ r.tracked = stream[s].tracked /\ r.bound = stream[s].bound
          /\ r.via = stream[s].via /\ r.session = stream[s].session
      BY <3>2, <3>3 DEF StreamRecords
    <3> HIDE DEF r
    <3> QED BY <3>1, <3>2, <3>3, <3>4
  <2>2. UNCHANGED <<next, owner>> /\ stream' = [s \in Streams |-> stream'[s]] BY <1>2 DEF CleanupStreams
  <2>3. StreamTypes' BY <1>1, <2>1, <2>2 DEF StreamTypes
  <2>4. ASSUME NEW s \in Streams PROVE StreamInv(s)'
    <3>1. StreamInv(s) BY DEF StreamsInv
    <3> QED BY <2>1, <2>2, <3>1 DEF StreamInv, RequestSent, Sent, LateNeverTaken, NoneWaits, Bound
  <2>5. Admitted' \subseteq Admitted BY <2>1 DEF Admitted
  <2> QED BY <2>3, <2>4, <2>5, NoneAdmittedMore DEF StreamsInv
<1>3. CASE ReplaceOwner
  <2>1. UNCHANGED <<stream, next>> /\ owner' \in Nat BY <1>1, <1>3 DEF ReplaceOwner, StreamTypes
  <2>2. StreamTypes' BY <1>1, <2>1 DEF StreamTypes
  <2>3. ASSUME NEW s \in Streams PROVE StreamInv(s)'
    BY <2>1 DEF StreamsInv, StreamInv, RequestSent, Sent, LateNeverTaken, NoneWaits, Bound
  <2>4. Admitted' \subseteq Admitted BY <2>1 DEF Admitted
  <2> QED BY <2>2, <2>3, <2>4, NoneAdmittedMore DEF StreamsInv
<1> QED BY <1>2, <1>3

(* So every step preserves it.                                             *)
LEMMA StreamsKeep == StreamsInv /\ [StreamsNext]_svars => StreamsInv'
<1> SUFFICES ASSUME StreamsInv, [StreamsNext]_svars PROVE StreamsInv' OBVIOUS
<1>1. CASE UNCHANGED svars
  BY <1>1 DEF svars, StreamsInv, StreamTypes, StreamInv, RequestSent, Sent, LateNeverTaken, NoneWaits, Bound,
              Admissions, Admitted
<1>2. CASE StreamsNext BY <1>2, SourceSteps, NextSteps, ActorSteps, OwnerSteps DEF StreamsNext, Actor
<1> QED BY <1>1, <1>2

(* What is stated of the streams follows from it.                          *)
LEMMA StreamsMean == StreamsInv => StreamsKept
<1> SUFFICES ASSUME StreamsInv PROVE StreamsKept OBVIOUS
<1>1. StreamsWithin BY DEF StreamsWithin, StreamsInv, Admissions, Admitted
<1>2. NoSilentGap BY DEF NoSilentGap, StreamsInv, StreamInv, LateNeverTaken
<1>3. NobodyLeftWaiting BY DEF NobodyLeftWaiting, StreamsInv, StreamInv, NoneWaits
<1>4. LateOpenEnds BY DEF LateOpenEnds, StreamsInv, StreamInv, Bound
<1> QED BY <1>1, <1>2, <1>3, <1>4 DEF StreamsKept

(* A dropped request ends its stream, a stream that is gone keeps nobody   *)
(* waiting, a handle is bound to a session that can end it and the limit   *)
(* holds: StreamsKept in every reachable state, for any streams, calls and *)
(* limits.                                                                 *)
THEOREM StreamsAreKept == StreamsSpec => []StreamsKept
<1> QED BY StreamsStart, StreamsKeep, StreamsMean, PTL DEF StreamsSpec

(* A chunk is made in one step only.                                       *)
LEMMA OnlyProduces ==
  ASSUME StreamsInv, StreamsNext, NEW s \in Streams, stream'[s].made # stream[s].made
  PROVE  ~stream[s].cancel /\ stream[s].inst = owner
<1>1. StreamTypes /\ stream[s] \in StreamRecords BY DEF StreamsInv, StreamTypes
<1>2. Produce(s)
  <2>1. ASSUME NEW x \in Streams, x # s,
               PrepareStream(x) \/ OpenStream(x) \/ Opened(x) \/ StartStream(x) \/ Attach(x)
               \/ Actor(x) \/ CancelStream(x) \/ Forget(x)
        PROVE  FALSE
    BY <1>1, <2>1 DEF StreamTypes, PrepareStream, OpenStream, Opened, StartStream, Attach, AttachHandle, Actor,
                      Take, Produce, Deliver, Finish, CancelStream, Forget
  <2>2. ASSUME NEW x \in Streams, NEW n \in Nexts[x],
               Ask(x, n) \/ Send(x, n) \/ GetAnswer(x, n) \/ DropNext(x, n) \/ EndDrop(x, n)
        PROVE  FALSE
    <3>1. CASE x # s BY <1>1, <2>2, <3>1 DEF StreamTypes, Ask, Send, GetAnswer, DropNext, EndDrop, DroppedCancels
    <3>2. CASE x = s
      <4>1. \/ stream' = stream
            \/ \E b \in BOOLEAN : stream' = [stream EXCEPT ![s].busy = b]
            \/ stream' = [stream EXCEPT ![s].queue = <<n>>]
            \/ stream' = [stream EXCEPT ![s].cancel = TRUE]
        BY <2>2, <3>2 DEF Ask, Send, GetAnswer, DropNext, EndDrop, DroppedCancels
      <4>2. ASSUME NEW b \in BOOLEAN, stream' = [stream EXCEPT ![s].busy = b] PROVE FALSE
        BY <1>1, <4>2 DEF StreamTypes, StreamRecords
      <4>3. CASE stream' = [stream EXCEPT ![s].queue = <<n>>] BY <1>1, <4>3 DEF StreamTypes, StreamRecords
      <4>4. CASE stream' = [stream EXCEPT ![s].cancel = TRUE] BY <1>1, <4>4 DEF StreamTypes, StreamRecords
      <4> QED BY <4>1, <4>2, <4>3, <4>4
    <3> QED BY <3>1, <3>2
  <2>3. CASE PrepareStream(s) BY <1>1, <2>3 DEF PrepareStream, StreamTypes, StreamRecords
  <2>4. CASE OpenStream(s) BY <1>1, <2>4 DEF OpenStream, StreamTypes, StreamRecords
  <2>5. CASE Opened(s)
    <3>1. CASE stream' = [stream EXCEPT ![s].at = "opened"] BY <1>1, <3>1 DEF StreamTypes, StreamRecords
    <3>2. CASE stream' = [stream EXCEPT ![s].at = "refused", ![s].session = IF @ = "prepared" THEN "removed" ELSE @]
      <4> DEFINE after == IF stream[s].session = "prepared" THEN "removed" ELSE stream[s].session
      <4>1. stream'[s] = [stream[s] EXCEPT !.at = "refused", !.session = after]
        BY <1>1, <3>2 DEF StreamTypes, StreamRecords
      <4> HIDE DEF after
      <4> QED BY <1>1, <4>1 DEF StreamRecords
    <3> QED BY <2>5, <3>1, <3>2 DEF Opened
  <2>6. CASE StartStream(s) BY <1>1, <2>6 DEF StartStream, StreamTypes, StreamRecords
  <2>7. CASE Attach(s) BY <1>1, <2>7 DEF Attach, AttachHandle, StreamTypes, StreamRecords
  <2>8. CASE Take(s)
    <3>1. stream'[s] = [stream[s] EXCEPT !.actor = "producing", !.request = Head(stream[s].queue), !.queue = <<>>]
      BY <1>1, <2>8 DEF Take, StreamTypes, StreamRecords
    <3> QED BY <1>1, <3>1 DEF StreamRecords
  <2>9. CASE Finish(s)
    <3>1. PICK got \in Endings(s) :
            stream' = [stream EXCEPT ![s].at = "gone", ![s].terminal = got, ![s].actor = "idle",
                                     ![s].request = 0, ![s].queue = <<>>]
      BY <2>9 DEF Finish
    <3>2. stream'[s] = [stream[s] EXCEPT !.at = "gone", !.terminal = got, !.actor = "idle", !.request = 0, !.queue = <<>>]
      BY <1>1, <3>1 DEF StreamTypes, StreamRecords
    <3> QED BY <1>1, <3>2 DEF StreamRecords
  <2>10. CASE Deliver(s)
    <3>1. stream'[s] = [stream[s] EXCEPT !.actor = "idle", !.request = 0]
      BY <1>1, <2>10 DEF Deliver, StreamTypes, StreamRecords
    <3> QED BY <1>1, <3>1 DEF StreamRecords
  <2>11. CASE CancelStream(s)
    <3> DEFINE after == IF stream[s].via = "native" THEN SessionLeft(s) ELSE stream[s].session
               stop == stream[s].cancel \/ Usable(s)
    <3>1. stream'[s] = [stream[s] EXCEPT !.session = after, !.cancel = stop]
      BY <1>1, <2>11 DEF CancelStream, StreamTypes, StreamRecords
    <3> HIDE DEF after, stop
    <3> QED BY <1>1, <3>1 DEF StreamRecords
  <2>12. CASE Forget(s) BY <1>1, <2>12 DEF Forget, StreamTypes, StreamRecords
  <2>13. CASE CleanupStreams BY <1>1, <2>13 DEF CleanupStreams, StreamRecords
  <2>14. CASE ReplaceOwner BY <2>14 DEF ReplaceOwner
  <2> QED BY <2>1, <2>2, <2>3, <2>4, <2>5, <2>6, <2>7, <2>8, <2>9, <2>10, <2>13, <2>14,
             <2>11, <2>12 DEF StreamsNext, Actor
<1> QED BY <1>2 DEF Produce, GoesOn, OwnerClosed

(* No chunk is made for a stream that is cancelled or whose owner was      *)
(* replaced: NoLateChunk, a property of every step.                        *)
THEOREM NoLateChunkIsMade == StreamsSpec => NoLateChunk
<1>1. StreamsInv /\ [StreamsNext]_svars =>
        [\A s \in Streams : stream'[s].made # stream[s].made
           => ~stream[s].cancel /\ stream[s].inst = owner]_svars
  BY OnlyProduces DEF svars
<1> QED BY <1>1, StreamsStart, StreamsKeep, PTL DEF StreamsSpec, NoLateChunk

(* Neither calls nor streams hand out anything late: NoLate, as the two    *)
(* share owners and no other state.                                        *)
THEOREM NothingIsLate == CallsSpec /\ StreamsSpec => NoLate
BY NoLateResultIsTaken, NoLateChunkIsMade DEF NoLate

(***************************************************************************)
(* Events.                                                                 *)
(***************************************************************************)

(* What an item of a queue, a queue and a subscription range over.         *)
Items == [n : Nat, from : Nat]
QueueRecords ==
  [policy : Policies, pending : Seq(Items), draining : BOOLEAN, active : BOOLEAN,
   tasks : Nat, sinking : Nat, offered : Nat, got : Nat]
SubRecords ==
  [at : {"none", "new", "open", "closed"}, gen : Nat, bound : Nat,
   lent : SUBSET [gen : Nat \ {0}, via : Nat]]

(* One task at most works on a queue, and one does when something is in    *)
(* it; a closed queue is empty.                                            *)
Drained(q) ==
  /\ q.tasks + q.sinking = IF q.draining THEN 1 ELSE 0
  /\ q.pending # <<>> => q.draining /\ q.active

(* What the policy promises of a queue, whoever fills it.                  *)
Promised(q) ==
  /\ q.active /\ q.policy = "Ordered" =>
       /\ Len(q.pending) = q.offered - q.got
       /\ \A k \in 1..Len(q.pending) : q.pending[k].n = q.got + k
  /\ q.active /\ q.policy = "Coalesce" =>
       q.offered = IF q.pending = <<>> THEN q.got ELSE Last(q.pending).n

QueueOK(q) == q \in QueueRecords /\ Drained(q) /\ Promised(q)

(* Everything in the queue is from one source.                             *)
AllFrom(q, from) == \A k \in 1..Len(q.pending) : q.pending[k].from = from

(* Nothing is owed: whatever the policy is or becomes, it is kept.         *)
Even(q) == q.pending = <<>> /\ q.got = q.offered

-----------------------------------------------------------------------------
(* The empty queue is one.                                                 *)
LEMMA Nothing == <<>> \in Seq(Items)
OBVIOUS

(* The fields of a queue.                                                  *)
LEMMA Fields ==
  ASSUME NEW q \in QueueRecords
  PROVE  /\ q.policy \in Policies /\ q.pending \in Seq(Items)
         /\ q.draining \in BOOLEAN /\ q.active \in BOOLEAN
         /\ q.tasks \in Nat /\ q.sinking \in Nat /\ q.offered \in Nat /\ q.got \in Nat
BY DEF QueueRecords

(* What stays of a sequence without its first item.                        *)
LEMMA Rest ==
  ASSUME NEW s \in Seq(Items), s # <<>>
  PROVE  /\ Tail(s) \in Seq(Items) /\ Head(s) \in Items /\ Head(s) = s[1]
         /\ Len(s) \in Nat /\ Len(s) > 0 /\ Len(Tail(s)) = Len(s) - 1
         /\ \A k \in 1..Len(Tail(s)) : /\ k \in Nat /\ k + 1 \in 1..Len(s)
                                       /\ Tail(s)[k] = s[k + 1]
         /\ Len(s) = 1 => Tail(s) = <<>>
         /\ Len(s) # 1 => Tail(s) # <<>> /\ Last(Tail(s)) = s[Len(s)]
<1>1. /\ Tail(s) \in Seq(Items) /\ Head(s) \in Items /\ Head(s) = s[1]
      /\ Len(s) \in Nat /\ Len(s) > 0 /\ Len(Tail(s)) = Len(s) - 1
      /\ \A k \in 1..Len(Tail(s)) : Tail(s)[k] = s[k + 1]
  BY HeadTailProperties
<1>2. \A k \in 1..Len(Tail(s)) : k \in Nat /\ k + 1 \in 1..Len(s)
  BY <1>1
<1>3. Tail(s) = <<>> <=> Len(Tail(s)) = 0
  BY <1>1, EmptySeq
<1>4. ASSUME Len(s) # 1 PROVE Tail(s) # <<>> /\ Last(Tail(s)) = s[Len(s)]
  <2>1. Len(Tail(s)) \in 1..Len(Tail(s)) /\ Len(Tail(s)) + 1 = Len(s)  BY <1>1, <1>4
  <2>2. Tail(s)[Len(Tail(s))] = s[Len(s)]  BY <1>1, <2>1
  <2>3. Len(Tail(s)) # 0  BY <2>1
  <2>. QED  BY <1>3, <2>2, <2>3 DEF Last
<1>. QED  BY <1>1, <1>2, <1>3, <1>4

(* An even queue keeps the promise of any policy.                          *)
LEMMA EvenKeeps ==
  ASSUME NEW q, QueueOK(q), Even(q), NEW r \in QueueRecords, Drained(r),
         r.pending = q.pending, r.got = q.got, r.offered = q.offered
  PROVE  QueueOK(r) /\ Even(r)
<1>1. r.got \in Nat /\ r.pending = <<>> /\ r.got = r.offered /\ Len(r.pending) = 0
  BY Fields DEF Even
<1>. QED  BY <1>1 DEF QueueOK, Even, Promised

(* An item joins a queue: it is announced once more and a task is there.   *)
LEMMA EnqueueKeeps ==
  ASSUME NEW q, QueueOK(q), NEW from \in Nat, AllFrom(q, from)
  PROVE  /\ QueueOK(Enqueue(q, from)) /\ AllFrom(Enqueue(q, from), from)
         /\ ~q.active => Enqueue(q, from) = q
         /\ Enqueue(q, from).active = q.active
         /\ Enqueue(q, from).policy = q.policy
<1>. DEFINE item == [n |-> q.offered + 1, from |-> from]
            p == Queued(q, item)
            r == [q EXCEPT !.offered = @ + 1, !.pending = p]
<1>1. CASE ~q.active  BY <1>1 DEF Enqueue
<1>2. CASE q.active
  <2>1. q \in QueueRecords  BY DEF QueueOK
  <2>2. /\ q.pending \in Seq(Items) /\ q.offered \in Nat /\ q.got \in Nat /\ q.tasks \in Nat
        /\ q.sinking \in Nat /\ q.draining \in BOOLEAN /\ q.policy \in Policies
    BY <2>1, Fields
  <2>3. item \in Items /\ item.n = q.offered + 1 /\ item.from = from
    BY <2>2 DEF Items
  <2>4. Enqueue(q, from) = Scheduled(r)
    BY <1>2 DEF Enqueue
  <2>. HIDE DEF item
  <2>5. /\ Append(q.pending, item) \in Seq(Items)
        /\ Len(Append(q.pending, item)) = Len(q.pending) + 1
        /\ Append(q.pending, item)[Len(q.pending) + 1] = item
        /\ \A k \in 1..Len(q.pending) : Append(q.pending, item)[k] = q.pending[k]
    BY <2>2, <2>3, AppendProperties
  <2>6. /\ <<item>> \in Seq(Items) /\ Len(<<item>>) = 1 /\ <<item>>[1] = item /\ <<item>> # <<>>
    BY <2>3
  <2>7. Append(q.pending, item) # <<>>
    BY <2>5
  <2>8. /\ q.policy = "Ordered" => p = Append(q.pending, item)
        /\ q.policy = "Coalesce" => p = <<item>>
        /\ q.policy = "Drop" => (p = q.pending /\ p # <<>>) \/ p = Append(q.pending, item)
    BY DEF Queued
  <2>. HIDE DEF p
  <2>9. p \in Seq(Items) /\ p # <<>>
    BY <2>2, <2>5, <2>6, <2>7, <2>8 DEF Policies
  <2>10. \A k \in 1..Len(p) : p[k].from = from
    <3>1. \A k \in 1..Len(q.pending) : q.pending[k].from = from  BY DEF AllFrom
    <3>2. \A k \in 1..Len(Append(q.pending, item)) : Append(q.pending, item)[k].from = from
      BY <2>2, <2>3, <2>5, <3>1
    <3>3. \A k \in 1..Len(<<item>>) : <<item>>[k].from = from
      BY <2>3, <2>6
    <3>4. p = q.pending \/ p = <<item>> \/ p = Append(q.pending, item)
      BY <2>2, <2>8 DEF Policies
    <3>. QED  BY <3>1, <3>2, <3>3, <3>4
  <2>11. /\ r \in QueueRecords /\ r.offered = q.offered + 1 /\ r.pending = p
         /\ r.policy = q.policy /\ r.active /\ r.got = q.got /\ r.draining = q.draining
         /\ r.tasks = q.tasks /\ r.sinking = q.sinking
    <3>1. q.offered + 1 \in Nat  BY <2>2
    <3>2. r \in QueueRecords  BY <2>1, <2>9, <3>1 DEF QueueRecords
    <3>. QED  BY <1>2, <2>1, <3>2 DEF QueueRecords
  <2>. HIDE DEF r
  <2>12. Promised(r)
    <3>1. CASE q.policy = "Ordered"
      <4>1. /\ Len(q.pending) = q.offered - q.got /\ Len(q.pending) \in Nat
            /\ \A k \in 1..Len(q.pending) : q.pending[k].n = q.got + k
        BY <1>2, <2>2, <3>1 DEF QueueOK, Promised
      <4>2. Len(r.pending) = r.offered - r.got
        <5>1. r.pending = Append(q.pending, item)  BY <2>8, <2>11, <3>1
        <5>2. Len(r.pending) = Len(q.pending) + 1  BY <2>5, <5>1
        <5>. QED  BY <2>2, <2>11, <4>1, <5>2
      <4>3. \A k \in 1..Len(r.pending) : r.pending[k].n = r.got + k
        <5>1. r.pending = Append(q.pending, item)  BY <2>8, <2>11, <3>1
        <5>2. \A k \in 1..Len(q.pending) : r.pending[k] = q.pending[k]  BY <2>5, <5>1
        <5>3. r.pending[Len(q.pending) + 1].n = q.got + (Len(q.pending) + 1)
          BY <2>2, <2>3, <2>5, <4>1, <5>1
        <5>4. Len(r.pending) = Len(q.pending) + 1 /\ r.got = q.got  BY <2>5, <2>11, <5>1
        <5>. QED  BY <4>1, <5>2, <5>3, <5>4
      <4>. QED  BY <2>11, <3>1, <4>2, <4>3 DEF Promised
    <3>2. CASE q.policy = "Coalesce"
      BY <2>3, <2>6, <2>8, <2>11, <3>2 DEF Promised, Last
    <3>. QED  BY <2>11, <3>1, <3>2 DEF Promised
  <2>. DEFINE e == Scheduled(r)
  <2>0. e = IF r.draining THEN r ELSE [r EXCEPT !.draining = TRUE, !.tasks = @ + 1]
    BY DEF Scheduled
  <2>. HIDE DEF e
  <2>13. /\ e \in QueueRecords /\ e.pending = p /\ e.offered = r.offered /\ e.got = r.got
         /\ e.policy = q.policy /\ e.active /\ e.draining
         /\ e.sinking = q.sinking
         /\ e.tasks = IF q.draining THEN q.tasks ELSE q.tasks + 1
    <3>1. CASE q.draining  BY <2>0, <2>11, <3>1
    <3>2. CASE ~q.draining
      <4>1. e = [r EXCEPT !.draining = TRUE, !.tasks = @ + 1] /\ q.tasks + 1 \in Nat
        BY <2>0, <2>2, <2>11, <3>2
      <4>2. e \in QueueRecords  BY <2>11, <4>1 DEF QueueRecords
      <4>. QED  BY <2>11, <3>2, <4>1, <4>2 DEF QueueRecords
    <3>. QED  BY <3>1, <3>2
  <2>14. Drained(e)
    <3>1. q.tasks + q.sinking = IF q.draining THEN 1 ELSE 0  BY DEF QueueOK, Drained
    <3>. QED  BY <2>2, <2>13, <3>1 DEF Drained
  <2>15. Promised(e)
    BY <2>11, <2>12, <2>13 DEF Promised
  <2>16. Enqueue(q, from) = e  BY <2>4 DEF e
  <2>. QED  BY <1>2, <2>10, <2>13, <2>14, <2>15, <2>16 DEF QueueOK, AllFrom
<1>. QED  BY <1>1, <1>2

(* The task takes the first item, or leaves the queue.                     *)
LEMMA PoppedKeeps ==
  ASSUME NEW q, QueueOK(q), q.tasks > 0, NEW r, r = Popped(q)
  PROVE  /\ QueueOK(r) /\ r.policy = q.policy /\ r.active = q.active
         /\ \A from : AllFrom(q, from) => AllFrom(r, from)
         /\ Even(q) => Even(r)
<1>1. q \in QueueRecords /\ Drained(q) /\ Promised(q)
  BY DEF QueueOK
<1>2. /\ q.pending \in Seq(Items) /\ q.offered \in Nat /\ q.got \in Nat /\ q.tasks \in Nat
      /\ q.sinking \in Nat /\ q.draining \in BOOLEAN
  BY <1>1, Fields
<1>3. q.draining /\ q.tasks = 1 /\ q.sinking = 0
  BY <1>1, <1>2 DEF Drained
<1>4. q.tasks - 1 = 0 /\ q.sinking + 1 = 1  BY <1>3
<1>5. CASE q.pending = <<>> \/ ~q.active
  <2>1. r = [q EXCEPT !.tasks = @ - 1, !.draining = FALSE]
    BY <1>5 DEF Popped
  <2>2. q.pending = <<>>
    BY <1>1, <1>5 DEF Drained
  <2>3. r \in QueueRecords
    <3>1. r = [q EXCEPT !.tasks = 0, !.draining = FALSE]  BY <1>4, <2>1
    <3>2. [q EXCEPT !.tasks = 0, !.draining = FALSE] \in QueueRecords  BY <1>1 DEF QueueRecords
    <3>. QED  BY <3>1, <3>2
  <2>4. /\ r.tasks = 0 /\ r.sinking = 0 /\ ~r.draining
        /\ r.pending = q.pending /\ r.got = q.got /\ r.offered = q.offered
        /\ r.active = q.active /\ r.policy = q.policy
    BY <1>1, <1>3, <1>4, <2>1 DEF QueueRecords
  <2>5. Drained(r) /\ Promised(r)
    BY <1>1, <2>2, <2>4 DEF Drained, Promised
  <2>. QED  BY <2>3, <2>4, <2>5 DEF QueueOK, AllFrom, Even
<1>6. CASE q.pending # <<>> /\ q.active
  <2>1. r = [q EXCEPT !.tasks = @ - 1, !.sinking = @ + 1, !.pending = Tail(@),
                      !.got = Head(q.pending).n]
    BY <1>6 DEF Popped
  <2>2. /\ Tail(q.pending) \in Seq(Items) /\ Head(q.pending) \in Items
        /\ Head(q.pending) = q.pending[1]
        /\ Len(q.pending) \in Nat /\ Len(q.pending) > 0
        /\ Len(Tail(q.pending)) = Len(q.pending) - 1
        /\ \A k \in 1..Len(Tail(q.pending)) :
             k \in Nat /\ k + 1 \in 1..Len(q.pending) /\ Tail(q.pending)[k] = q.pending[k + 1]
        /\ Len(q.pending) = 1 => Tail(q.pending) = <<>>
        /\ Len(q.pending) # 1 =>
             Tail(q.pending) # <<>> /\ Last(Tail(q.pending)) = q.pending[Len(q.pending)]
    BY <1>2, <1>6, Rest
  <2>3. Head(q.pending).n \in Nat  BY <2>2 DEF Items
  <2>4. r \in QueueRecords
    <3>1. r = [q EXCEPT !.tasks = 0, !.sinking = 1, !.pending = Tail(q.pending),
                        !.got = Head(q.pending).n]
      BY <1>4, <2>1
    <3>2. [q EXCEPT !.tasks = 0, !.sinking = 1, !.pending = Tail(q.pending),
                    !.got = Head(q.pending).n] \in QueueRecords
      BY <1>1, <2>2, <2>3 DEF QueueRecords
    <3>. QED  BY <3>1, <3>2
  <2>5. /\ r.pending = Tail(q.pending) /\ r.got = Head(q.pending).n
        /\ r.policy = q.policy /\ r.active = q.active /\ r.draining = q.draining
        /\ r.offered = q.offered /\ r.tasks = 0 /\ r.sinking = 1
    BY <1>1, <1>4, <2>1 DEF QueueRecords
  <2>6. Drained(r)
    BY <1>3, <1>6, <2>5 DEF Drained
  <2>7. Promised(r)
    <3>1. CASE q.policy = "Ordered"
      <4>1. /\ Len(q.pending) = q.offered - q.got
            /\ \A k \in 1..Len(q.pending) : q.pending[k].n = q.got + k
        BY <1>1, <1>6, <3>1 DEF Promised
      <4>2. 1 \in 1..Len(q.pending)  BY <2>2
      <4>3. r.got = q.got + 1
        BY <2>2, <2>5, <4>1, <4>2
      <4>4. Len(r.pending) = r.offered - r.got
        BY <1>2, <2>2, <2>5, <4>1, <4>3
      <4>5. ASSUME NEW k \in 1..Len(r.pending) PROVE r.pending[k].n = r.got + k
        <5>1. k \in Nat /\ k + 1 \in 1..Len(q.pending) /\ r.pending[k] = q.pending[k + 1]
          BY <2>2, <2>5
        <5>2. q.pending[k + 1].n = q.got + (k + 1)  BY <4>1, <5>1
        <5>3. q.got \in Nat  BY <1>2
        <5>4. \A g, m \in Nat : g + (m + 1) = (g + 1) + m  OBVIOUS
        <5>5. q.got + (k + 1) = (q.got + 1) + k  BY <5>1, <5>3, <5>4
        <5>6. r.pending[k].n = (q.got + 1) + k  BY <5>1, <5>2, <5>5
        <5>. QED  BY <4>3, <5>6
      <4>. QED  BY <2>5, <3>1, <4>4, <4>5 DEF Promised
    <3>2. CASE q.policy = "Coalesce"
      <4>1. q.offered = q.pending[Len(q.pending)].n
        BY <1>1, <1>6, <3>2 DEF Promised, Last
      <4>2. CASE Len(q.pending) = 1
        <5>1. r.pending = <<>> /\ r.offered = r.got  BY <2>2, <2>5, <4>1, <4>2
        <5>. QED  BY <2>5, <3>2, <5>1 DEF Promised
      <4>3. CASE Len(q.pending) # 1
        <5>1. r.pending # <<>> /\ r.offered = Last(r.pending).n  BY <2>2, <2>5, <4>1, <4>3
        <5>. QED  BY <2>5, <3>2, <5>1 DEF Promised
      <4>. QED  BY <4>2, <4>3
    <3>. QED  BY <2>5, <3>1, <3>2 DEF Promised
  <2>8. \A from : AllFrom(q, from) => AllFrom(r, from)
    <3>1. \A k \in 1..Len(Tail(q.pending)) : k + 1 \in 1..Len(q.pending)  BY <2>2
    <3>. QED  BY <2>2, <2>5, <3>1 DEF AllFrom
  <2>. QED  BY <1>6, <2>4, <2>5, <2>6, <2>7, <2>8 DEF QueueOK, Even
<1>. QED  BY <1>1, <1>5, <1>6 DEF QueueRecords

(* The sink returns and its task goes on with the queue.                   *)
Resumed(q) == [[q EXCEPT !.sinking = @ - 1] EXCEPT !.tasks = @ + 1]

LEMMA ResumedKeeps ==
  ASSUME NEW q, QueueOK(q), q.sinking > 0, NEW r, r = Resumed(q)
  PROVE  /\ QueueOK(r) /\ r.policy = q.policy /\ r.active = q.active
         /\ \A from : AllFrom(q, from) => AllFrom(r, from)
         /\ Even(q) => Even(r)
<1>1. q \in QueueRecords /\ Drained(q) /\ Promised(q)  BY DEF QueueOK
<1>2. q.tasks \in Nat /\ q.sinking \in Nat /\ q.draining \in BOOLEAN  BY <1>1, Fields
<1>3. q.draining /\ q.tasks = 0 /\ q.sinking = 1  BY <1>1, <1>2 DEF Drained
<1>4. q.sinking - 1 = 0 /\ q.tasks + 1 = 1  BY <1>3
<1>5. PICK s : s = [q EXCEPT !.sinking = @ - 1]  OBVIOUS
<1>6. s \in QueueRecords
  <2>1. s = [q EXCEPT !.sinking = 0]  BY <1>4, <1>5
  <2>2. [q EXCEPT !.sinking = 0] \in QueueRecords  BY <1>1 DEF QueueRecords
  <2>. QED  BY <2>1, <2>2
<1>7. /\ s.sinking = 0 /\ s.tasks = 0 /\ s.draining = q.draining
      /\ s.pending = q.pending /\ s.got = q.got /\ s.offered = q.offered
      /\ s.active = q.active /\ s.policy = q.policy
  BY <1>1, <1>3, <1>4, <1>5 DEF QueueRecords
<1>8. r = [s EXCEPT !.tasks = @ + 1] /\ s.tasks + 1 = 1  BY <1>5, <1>7 DEF Resumed
<1>9. r \in QueueRecords
  <2>1. r = [s EXCEPT !.tasks = 1]  BY <1>8
  <2>2. [s EXCEPT !.tasks = 1] \in QueueRecords  BY <1>6 DEF QueueRecords
  <2>. QED  BY <2>1, <2>2
<1>10. /\ r.sinking = 0 /\ r.tasks = 1 /\ r.draining = q.draining
       /\ r.pending = q.pending /\ r.got = q.got /\ r.offered = q.offered
       /\ r.active = q.active /\ r.policy = q.policy
  BY <1>6, <1>7, <1>8 DEF QueueRecords
<1>11. Drained(r)
  <2>1. q.pending # <<>> => q.active  BY <1>1 DEF Drained
  <2>. QED  BY <1>3, <1>10, <2>1 DEF Drained
<1>12. Promised(r)  BY <1>1, <1>10 DEF Promised
<1>. QED  BY <1>9, <1>10, <1>11, <1>12 DEF QueueOK, AllFrom, Even

(* What is cleared is even, and what is closed stays empty.                *)
LEMMA ClearedKeeps ==
  ASSUME NEW q, QueueOK(q)
  PROVE  /\ QueueOK(Cleared(q)) /\ Even(Cleared(q))
         /\ Cleared(q).active = q.active /\ Cleared(q).policy = q.policy
<1>. DEFINE r == Cleared(q)
<1>1. q \in QueueRecords /\ q.offered \in Nat /\ q.draining \in BOOLEAN
  BY Fields DEF QueueOK
<1>2. /\ r \in QueueRecords /\ r.pending = <<>> /\ r.got = q.offered /\ r.offered = q.offered
      /\ r.active = q.active /\ r.policy = q.policy
      /\ r.tasks = q.tasks /\ r.sinking = q.sinking /\ r.draining = q.draining
  <2>1. r \in QueueRecords  BY <1>1, Nothing DEF Cleared, QueueRecords
  <2>. QED  BY <1>1, <2>1 DEF Cleared, QueueRecords
<1>. HIDE DEF r
<1>3. Drained(r)  BY <1>2 DEF QueueOK, Drained
<1>4. Promised(r)  BY <1>1, <1>2 DEF Promised
<1>. QED  BY <1>2, <1>3, <1>4 DEF QueueOK, Even, r

LEMMA ClosedKeeps ==
  ASSUME NEW q, QueueOK(q)
  PROVE  /\ QueueOK(ClosedQueue(q)) /\ ~ClosedQueue(q).active /\ ClosedQueue(q).pending = <<>>
         /\ Even(q) => Even(ClosedQueue(q))
<1>. DEFINE r == ClosedQueue(q)
<1>1. q \in QueueRecords /\ q.draining \in BOOLEAN
  BY Fields DEF QueueOK
<1>2. /\ r \in QueueRecords /\ r.pending = <<>> /\ r.got = q.got /\ r.offered = q.offered
      /\ ~r.active /\ r.policy = q.policy
      /\ r.tasks = q.tasks /\ r.sinking = q.sinking /\ r.draining = q.draining
  <2>1. r \in QueueRecords  BY <1>1, Nothing DEF ClosedQueue, QueueRecords
  <2>. QED  BY <1>1, <2>1 DEF ClosedQueue, QueueRecords
<1>. HIDE DEF r
<1>3. Drained(r)  BY <1>2 DEF QueueOK, Drained
<1>4. Promised(r)  BY <1>2 DEF Promised
<1>. QED  BY <1>2, <1>3, <1>4 DEF QueueOK, Even, r
-----------------------------------------------------------------------------
(* What the variables range over.                                          *)
EventTypes ==
  /\ sources \in 1..MaxSources /\ source \in 0..sources
  /\ transports \in 0..MaxTransports /\ transport \in 0..transports
  /\ sub \in [Subs -> SubRecords] /\ queue \in [Subs -> QueueRecords]
  /\ replay \in [1..MaxTransports -> SUBSET Remote]

(* Nothing is held of a source or a transport that is gone.                *)
Origin(i) == IF i \in Local THEN source ELSE transport
FromPresent(i) == AllFrom(queue[i], Origin(i))

(* Who is not subscribed has a queue that takes nothing.                   *)
Idle(i) ==
  /\ sub[i].at \in {"none", "closed"} => ~queue[i].active
  /\ sub[i].at = "none" => Even(queue[i])

(* A registry without a source owes its subscribers nothing.               *)
LocalOK(i) ==
  i \in Local => sub[i].at # "new" /\ (source = 0 => Even(queue[i]))

(* A consumer that is not bound is owed nothing; the lease of its newest   *)
(* generation, and what it is bound to, are of the present transport.      *)
RemoteOK(i) ==
  i \in Remote =>
    /\ sub[i].at = "none" => sub[i].lent = {} /\ sub[i].bound = 0
    /\ There(i) /\ sub[i].bound = 0 => Even(queue[i])
    /\ There(i) /\ sub[i].bound # 0 => queue[i].policy = Policy[transport]
    /\ \A l \in sub[i].lent :
         /\ l.gen <= sub[i].gen
         /\ There(i) /\ l.gen = sub[i].gen => l.via = transport /\ transport # 0

SubInv(i) == QueueOK(queue[i]) /\ FromPresent(i) /\ Idle(i) /\ LocalOK(i) /\ RemoteOK(i)

(* An attempt to attach stands for a lease of its consumer.                *)
AttemptOK(a) == a.id \in Remote /\ [gen |-> a.gen, via |-> a.via] \in sub[a.id].lent

EventsInv ==
  /\ EventTypes
  /\ \A i \in Subs : SubInv(i)
  /\ \A a \in attempt : AttemptOK(a)

(* What a step leaves alone stays as it is.                                *)
LEMMA Apart ==
  ASSUME NEW i \in Subs, SubInv(i), queue'[i] = queue[i], sub'[i] = sub[i],
         source' = source, transport' = transport
  PROVE  SubInv(i)'
BY DEF SubInv, FromPresent, Origin, Idle, LocalOK, RemoteOK, There, QueueOK, Drained, Promised,
       AllFrom, Even

(* The fields of a subscription.                                           *)
LEMMA SubFields ==
  ASSUME NEW s \in SubRecords
  PROVE  /\ s.at \in {"none", "new", "open", "closed"} /\ s.gen \in Nat /\ s.bound \in Nat
         /\ s.lent \subseteq [gen : Nat \ {0}, via : Nat]
BY DEF SubRecords

(* It holds at first.                                                      *)
LEMMA EventsStart ==
  ASSUME EventsInit
  PROVE  EventsInv
<1>1. NoQueue \in QueueRecords
  BY Nothing DEF NoQueue, QueueRecords, Policies
<1>2. NoSub \in SubRecords
  BY DEF NoSub, SubRecords
<1>3. EventTypes
  BY <1>1, <1>2, EventsAssumption DEF EventsInit, EventTypes
<1>4. QueueOK(NoQueue) /\ Even(NoQueue) /\ ~NoQueue.active
  BY <1>1 DEF NoQueue, QueueOK, Drained, Promised, Even
<1>5. NoSub.at = "none" /\ NoSub.lent = {} /\ NoSub.bound = 0
  BY DEF NoSub
<1>6. ASSUME NEW i \in Subs PROVE SubInv(i)
  <2>1. queue[i] = NoQueue /\ sub[i] = NoSub /\ source = 1  BY DEF EventsInit
  <2>2. \A from : AllFrom(NoQueue, from)  BY <1>4 DEF AllFrom, Even
  <2>. QED  BY <1>4, <1>5, <2>1, <2>2 DEF SubInv, FromPresent, Idle, LocalOK, RemoteOK, There
<1>. QED  BY <1>3, <1>6 DEF EventsInv, EventsInit

(* The task and the sink of one queue.                                     *)
LEMMA WorkKeeps ==
  ASSUME EventsInv, NEW i \in Subs, Pop(i) \/ SinkEnds(i)
  PROVE  EventsInv'
<1>1. queue[i] \in QueueRecords /\ queue \in [Subs -> QueueRecords] /\ QueueOK(queue[i]) /\ SubInv(i)
  BY DEF EventsInv, EventTypes, SubInv
<1>2. PICK r : /\ queue' = [queue EXCEPT ![i] = r]
               /\ QueueOK(r) /\ r.policy = queue[i].policy /\ r.active = queue[i].active
               /\ \A from : AllFrom(queue[i], from) => AllFrom(r, from)
               /\ Even(queue[i]) => Even(r)
  <2>1. CASE Pop(i)
    <3>1. queue[i].tasks > 0 /\ queue' = [queue EXCEPT ![i] = Popped(queue[i])]
      BY <2>1 DEF Pop
    <3>2. /\ QueueOK(Popped(queue[i])) /\ Popped(queue[i]).policy = queue[i].policy
          /\ Popped(queue[i]).active = queue[i].active
          /\ \A from : AllFrom(queue[i], from) => AllFrom(Popped(queue[i]), from)
          /\ Even(queue[i]) => Even(Popped(queue[i]))
      BY <1>1, <3>1, PoppedKeeps
    <3>. QED  BY <3>1, <3>2
  <2>2. CASE SinkEnds(i)
    <3>1. queue[i].sinking > 0 /\ queue' = [queue EXCEPT ![i] = Resumed(queue[i])]
      BY <2>2 DEF SinkEnds, Resumes, Resumed
    <3>2. /\ QueueOK(Resumed(queue[i])) /\ Resumed(queue[i]).policy = queue[i].policy
          /\ Resumed(queue[i]).active = queue[i].active
          /\ \A from : AllFrom(queue[i], from) => AllFrom(Resumed(queue[i]), from)
          /\ Even(queue[i]) => Even(Resumed(queue[i]))
      BY <1>1, <3>1, ResumedKeeps
    <3>. QED  BY <3>1, <3>2
  <2>. QED  BY <2>1, <2>2
<1>3. UNCHANGED <<sources, source, transports, transport, sub, attempt, replay, events>>
  BY DEF Pop, SinkEnds
<1>4. queue'[i] = r /\ \A j \in Subs : j # i => queue'[j] = queue[j]
  BY <1>1, <1>2
<1>5. EventTypes'
  BY <1>1, <1>2, <1>3 DEF EventsInv, EventTypes, QueueOK
<1>6. SubInv(i)'
  BY <1>1, <1>2, <1>3, <1>4 DEF SubInv, FromPresent, Origin, Idle, LocalOK, RemoteOK, There
<1>7. \A j \in Subs : j # i => SubInv(j)'
  BY <1>3, <1>4, Apart DEF EventsInv
<1>8. \A a \in attempt' : AttemptOK(a)'
  BY <1>3 DEF EventsInv, AttemptOK
<1>. QED  BY <1>5, <1>6, <1>7, <1>8 DEF EventsInv

(* An item for one queue, from where its subscription belongs.             *)
LEMMA Delivered ==
  ASSUME NEW i \in Subs, SubInv(i), Origin(i) \in Nat
  PROVE  LET q == Enqueue(queue[i], Origin(i)) IN
         /\ QueueOK(q) /\ AllFrom(q, Origin(i))
         /\ q.active = queue[i].active /\ q.policy = queue[i].policy
         /\ ~queue[i].active => q = queue[i]
BY EnqueueKeeps DEF SubInv, FromPresent

(* An attempt that stays has the lease it had.                             *)
LEMMA LentKept ==
  ASSUME EventsInv, attempt' \subseteq attempt,
         \A j \in Subs : sub[j].lent \subseteq sub'[j].lent
  PROVE  \A a \in attempt' : AttemptOK(a)'
BY DEF EventsInv, AttemptOK, Subs

(* A subscription ends, for whatever reason, and its queue is closed.      *)
LEMMA EndKeeps ==
  ASSUME EventsInv, NEW i \in Subs,
         sub' = [sub EXCEPT ![i].at = "closed", ![i].bound = 0],
         queue' = [queue EXCEPT ![i] = ClosedQueue(@)],
         attempt' \subseteq attempt,
         UNCHANGED <<sources, source, transports, transport, replay>>
  PROVE  EventsInv'
<1>1. /\ sub \in [Subs -> SubRecords] /\ queue \in [Subs -> QueueRecords] /\ SubInv(i)
      /\ QueueOK(queue[i]) /\ sub[i] \in SubRecords
  BY DEF EventsInv, EventTypes, SubInv
<1>2. PICK r : r = ClosedQueue(queue[i])  OBVIOUS
<1>3. /\ QueueOK(r) /\ ~r.active /\ r.pending = <<>> /\ (Even(queue[i]) => Even(r))
  BY <1>1, <1>2, ClosedKeeps
<1>4. PICK s : s = [sub[i] EXCEPT !.at = "closed", !.bound = 0]  OBVIOUS
<1>5. s \in SubRecords
  <2>1. [sub[i] EXCEPT !.at = "closed", !.bound = 0] \in SubRecords  BY <1>1 DEF SubRecords
  <2>. QED  BY <1>4, <2>1
<1>6. s.at = "closed" /\ s.bound = 0 /\ s.gen = sub[i].gen /\ s.lent = sub[i].lent
  BY <1>1, <1>4 DEF SubRecords
<1>7. /\ sub' = [sub EXCEPT ![i] = s] /\ queue' = [queue EXCEPT ![i] = r]
      /\ UNCHANGED <<sources, source, transports, transport, replay>>
  BY <1>1, <1>2, <1>4
<1>8. EventTypes'
  BY <1>1, <1>3, <1>5, <1>7 DEF EventsInv, EventTypes, QueueOK
<1>9. SubInv(i)'
  <2>1. sub'[i] = s /\ queue'[i] = r  BY <1>1, <1>7
  <2>2. AllFrom(r, Origin(i)')  BY <1>3 DEF AllFrom
  <2>3. i \in Local => (source' = 0 => Even(r))  BY <1>1, <1>3, <1>7 DEF SubInv, LocalOK
  <2>4. i \in Remote => \A l \in s.lent : l.gen <= s.gen
    BY <1>1, <1>6 DEF SubInv, RemoteOK
  <2>. QED  BY <1>3, <1>6, <2>1, <2>2, <2>3, <2>4
       DEF SubInv, FromPresent, Idle, LocalOK, RemoteOK, There
<1>10. \A j \in Subs : j # i => SubInv(j)'
  BY <1>1, <1>7, Apart DEF EventsInv
<1>11. \A j \in Subs : sub[j].lent \subseteq sub'[j].lent
  BY <1>1, <1>6, <1>7
<1>12. \A a \in attempt' : AttemptOK(a)'
  BY <1>11, LentKept
<1>. QED  BY <1>8, <1>9, <1>10, <1>12 DEF EventsInv

(* close, a dropped handle or the cleanup of the caller.                   *)
LEMMA UnsubscribeKeeps ==
  ASSUME EventsInv, NEW i \in Subs, Unsubscribe(i)
  PROVE  EventsInv'
BY EndKeeps DEF Unsubscribe

(* A subscription joins the registry.                                      *)
LEMMA SubscribeLocalKeeps ==
  ASSUME EventsInv, NEW i \in Local, SubscribeLocal(i)
  PROVE  EventsInv'
<1>1. /\ sub \in [Subs -> SubRecords] /\ queue \in [Subs -> QueueRecords] /\ i \in Subs /\ SubInv(i)
      /\ QueueOK(queue[i]) /\ sub[i] \in SubRecords /\ queue[i] \in QueueRecords
      /\ sub[i].at = "none" /\ Even(queue[i]) /\ i \notin Remote
      /\ UNCHANGED <<sources, source, transports, transport, attempt, replay, events>>
  BY EventsAssumption DEF EventsInv, EventTypes, SubInv, QueueOK, Subs, SubscribeLocal, Idle
<1>2. PICK p \in Policies, s \in SubRecords, r \in QueueRecords :
        /\ sub' = [sub EXCEPT ![i] = s] /\ queue' = [queue EXCEPT ![i] = r]
        /\ s.at \in {"open", "closed"} /\ s.lent = sub[i].lent
        /\ \/ r = queue[i] /\ s.at = "closed"
           \/ r = [queue[i] EXCEPT !.active = TRUE, !.policy = p] /\ s.at = "open"
  <2>1. CASE source = 0 /\ i \notin Persistent
    <3>1. PICK s : s = [sub[i] EXCEPT !.at = "closed"]  OBVIOUS
    <3>2. s \in SubRecords
      <4>1. [sub[i] EXCEPT !.at = "closed"] \in SubRecords  BY <1>1 DEF SubRecords
      <4>. QED  BY <3>1, <4>1
    <3>3. s.at = "closed" /\ s.lent = sub[i].lent  BY <1>1, <3>1 DEF SubRecords
    <3>4. sub' = [sub EXCEPT ![i] = s] /\ queue' = [queue EXCEPT ![i] = queue[i]]
      BY <1>1, <2>1, <3>1 DEF SubscribeLocal
    <3>5. "Drop" \in Policies  BY DEF Policies
    <3>. QED  BY <1>1, <3>2, <3>3, <3>4, <3>5
  <2>2. CASE ~(source = 0 /\ i \notin Persistent)
    <3>0. PICK p : p = IF source = 0 THEN "Drop" ELSE Policy[source]  OBVIOUS
    <3>1. p \in Policies
      BY <3>0, EventsAssumption DEF Policies, EventsInv, EventTypes
    <3>2. PICK s : s = [sub[i] EXCEPT !.at = "open"]  OBVIOUS
    <3>3. s \in SubRecords
      <4>1. [sub[i] EXCEPT !.at = "open"] \in SubRecords  BY <1>1 DEF SubRecords
      <4>. QED  BY <3>2, <4>1
    <3>4. s.at = "open" /\ s.lent = sub[i].lent  BY <1>1, <3>2 DEF SubRecords
    <3>5. PICK r : r = [queue[i] EXCEPT !.active = TRUE, !.policy = p]  OBVIOUS
    <3>6. r \in QueueRecords
      <4>1. [queue[i] EXCEPT !.active = TRUE, !.policy = p] \in QueueRecords
        BY <1>1, <3>1 DEF QueueRecords
      <4>. QED  BY <3>5, <4>1
    <3>7. sub' = [sub EXCEPT ![i] = s] /\ queue' = [queue EXCEPT ![i] = r]
      BY <1>1, <2>2, <3>0, <3>2, <3>5 DEF SubscribeLocal
    <3>. QED  BY <3>1, <3>3, <3>4, <3>5, <3>6, <3>7
  <2>. QED  BY <2>1, <2>2
<1>3. QueueOK(r) /\ Even(r) /\ (s.at = "closed" => ~r.active)
  <2>1. CASE r = queue[i] /\ s.at = "closed"
    BY <1>1, <2>1 DEF SubInv, Idle
  <2>2. CASE r = [queue[i] EXCEPT !.active = TRUE, !.policy = p] /\ s.at = "open"
    <3>1. /\ r.pending = queue[i].pending /\ r.got = queue[i].got /\ r.offered = queue[i].offered
          /\ r.tasks = queue[i].tasks /\ r.sinking = queue[i].sinking /\ r.draining = queue[i].draining
      BY <1>1, <2>2 DEF QueueRecords
    <3>2. Drained(r)
      BY <1>1, <3>1 DEF QueueOK, Drained, Even
    <3>. QED  BY <1>1, <2>2, <3>1, <3>2, EvenKeeps
  <2>. QED  BY <1>2, <2>1, <2>2
<1>4. EventTypes'
  BY <1>1, <1>2 DEF EventsInv, EventTypes
<1>5. SubInv(i)'
  <2>1. sub'[i] = s /\ queue'[i] = r  BY <1>1, <1>2
  <2>2. AllFrom(r, Origin(i)')  BY <1>3 DEF AllFrom, Even
  <2>. QED  BY <1>1, <1>2, <1>3, <2>1, <2>2 DEF SubInv, FromPresent, Idle, LocalOK, RemoteOK
<1>6. \A j \in Subs : j # i => SubInv(j)'
  BY <1>1, <1>2, Apart DEF EventsInv
<1>7. \A a \in attempt' : AttemptOK(a)'
  BY <1>1, <1>2 DEF EventsInv, AttemptOK, Subs
<1>. QED  BY <1>4, <1>5, <1>6, <1>7 DEF EventsInv

(* The queues of the registry change and nothing else does, or the source  *)
(* with them; a subscription stays what it is or ends.                     *)
LEMMA RegistryKeeps ==
  ASSUME EventsInv,
         sources' \in 1..MaxSources, source' \in 0..sources',
         UNCHANGED <<transports, transport, attempt, replay>>,
         NEW S \in [Subs -> SubRecords], sub' = S, NEW Q \in [Subs -> QueueRecords], queue' = Q,
         \A i \in Subs : i \notin Local => S[i] = sub[i] /\ Q[i] = queue[i],
         \A i \in Local :
           /\ S[i].lent = sub[i].lent
           /\ S[i] = sub[i] \/ S[i].at = "closed"
           /\ QueueOK(Q[i]) /\ AllFrom(Q[i], source')
           /\ S[i].at \in {"none", "closed"} => ~Q[i].active
           /\ S[i].at = "none" \/ source' = 0 => Even(Q[i])
  PROVE  EventsInv'
<1>1. EventTypes'
  BY DEF EventsInv, EventTypes
<1>2. ASSUME NEW i \in Subs PROVE SubInv(i)'
  <2>1. CASE i \notin Local
    <3>1. SubInv(i) /\ sub'[i] = sub[i] /\ queue'[i] = queue[i]  BY <2>1 DEF EventsInv
    <3>. QED  BY <2>1, <3>1 DEF SubInv, FromPresent, Origin, Idle, LocalOK, RemoteOK, There
  <2>2. CASE i \in Local
    <3>1. SubInv(i) /\ i \notin Remote  BY <2>2, EventsAssumption DEF EventsInv
    <3>2. sub'[i].at # "new"  BY <2>2, <3>1 DEF SubInv, LocalOK
    <3>. QED  BY <2>2, <3>1, <3>2 DEF SubInv, FromPresent, Origin, Idle, LocalOK, RemoteOK
  <2>. QED  BY <2>1, <2>2
<1>3. \A a \in attempt' : AttemptOK(a)'
  <2>1. \A j \in Subs : sub[j].lent \subseteq sub'[j].lent  OBVIOUS
  <2>. QED  BY <2>1, LentKept
<1>. QED  BY <1>1, <1>2, <1>3 DEF EventsInv

(* An event of the owner, for all who subscribe it.                        *)
LEMMA PublishKeeps ==
  ASSUME EventsInv, Publish
  PROVE  EventsInv'
<1>1. /\ sub \in [Subs -> SubRecords] /\ queue \in [Subs -> QueueRecords]
      /\ source \in Nat /\ source # 0 /\ \A i \in Subs : SubInv(i)
      /\ sources \in 1..MaxSources /\ source \in 0..sources
      /\ UNCHANGED <<sources, source, transports, transport, sub, attempt, replay>>
      /\ queue' = [i \in Subs |->
           IF i \in Local /\ sub[i].at = "open" THEN Enqueue(queue[i], source) ELSE queue[i]]
  BY EventsAssumption DEF Publish, MayPublish, EventsInv, EventTypes
<1>2. PICK Q : Q = queue'  OBVIOUS
<1>3. ASSUME NEW i \in Local
      PROVE  /\ QueueOK(Q[i]) /\ AllFrom(Q[i], source) /\ Q[i].active = queue[i].active
             /\ sub[i].at = "none" => Even(Q[i])
  <2>1. i \in Subs /\ SubInv(i) /\ QueueOK(queue[i]) /\ AllFrom(queue[i], source) /\ source \in Nat
    BY <1>1 DEF Subs, SubInv, FromPresent, Origin
  <2>2. CASE sub[i].at = "open"
    <3>1. Q[i] = Enqueue(queue[i], source)  BY <1>1, <1>2, <2>1, <2>2
    <3>. QED  BY <2>1, <2>2, <3>1, EnqueueKeeps
  <2>3. CASE sub[i].at # "open"
    <3>1. Q[i] = queue[i]  BY <1>1, <1>2, <2>1, <2>3
    <3>. QED  BY <2>1, <3>1 DEF SubInv, Idle
  <2>. QED  BY <2>2, <2>3
<1>4. \A i \in Subs : i \notin Local => Q[i] = queue[i]
  BY <1>1, <1>2
<1>5. Q \in [Subs -> QueueRecords]
  <2>1. \A i \in Subs : Q[i] \in QueueRecords
    BY <1>1, <1>3, <1>4 DEF QueueOK
  <2>2. Q = [i \in Subs |-> Q[i]]  BY <1>1, <1>2
  <2>. QED  BY <2>1, <2>2
<1>6. \A i \in Local : sub[i].at \in {"none", "closed"} => ~Q[i].active
  BY <1>1, <1>3 DEF SubInv, Idle, Subs
<1>7. PICK S : S = sub  OBVIOUS
<1>8. sources' \in 1..MaxSources /\ source' \in 0..sources' /\ S \in [Subs -> SubRecords]
  BY <1>1, <1>7
<1>9. \A i \in Subs : i \notin Local => S[i] = sub[i] /\ Q[i] = queue[i]
  BY <1>4, <1>7
<1>10. \A i \in Local :
         /\ S[i].lent = sub[i].lent
         /\ S[i] = sub[i] \/ S[i].at = "closed"
         /\ QueueOK(Q[i]) /\ AllFrom(Q[i], source')
         /\ S[i].at \in {"none", "closed"} => ~Q[i].active
         /\ S[i].at = "none" \/ source' = 0 => Even(Q[i])
  BY <1>1, <1>3, <1>6, <1>7
<1>11. sub' = S /\ queue' = Q /\ UNCHANGED <<transports, transport, attempt, replay>>
  BY <1>1, <1>2, <1>7
<1>. QED  BY <1>5, <1>8, <1>9, <1>10, <1>11, RegistryKeeps

(* What an owner that leaves makes of a queue and of a subscription.       *)
LEMMA OwnerLeft ==
  ASSUME EventsInv, NEW i \in Local
  PROVE  /\ QueueOK(SourceLeft(i)) /\ Even(SourceLeft(i))
         /\ SourceLeft(i).active => queue[i].active /\ ~Ends(i)
<1>1. QueueOK(queue[i])  BY DEF EventsInv, SubInv, Subs
<1>2. PICK c : c = Cleared(queue[i])  OBVIOUS
<1>3. QueueOK(c) /\ Even(c) /\ c.active = queue[i].active  BY <1>1, <1>2, ClearedKeeps
<1>4. QueueOK(ClosedQueue(c)) /\ ~ClosedQueue(c).active /\ Even(ClosedQueue(c))
  BY <1>3, ClosedKeeps
<1>5. SourceLeft(i) = IF Ends(i) THEN ClosedQueue(c) ELSE c  BY <1>2 DEF SourceLeft
<1>. QED  BY <1>3, <1>4, <1>5

LEMMA Ended ==
  ASSUME EventsInv, NEW i \in Subs, NEW s, s = [sub[i] EXCEPT !.at = "closed"]
  PROVE  s \in SubRecords /\ s.at = "closed" /\ s.lent = sub[i].lent
<1>1. sub[i] \in SubRecords  BY DEF EventsInv, EventTypes
<1>2. s \in SubRecords
  <2>1. [sub[i] EXCEPT !.at = "closed"] \in SubRecords  BY <1>1 DEF SubRecords
  <2>. QED  BY <2>1
<1>. QED  BY <1>1, <1>2 DEF SubRecords

(* The owner leaves.                                                       *)
LEMMA RemoveOwnerKeeps ==
  ASSUME EventsInv, RemoveOwner
  PROVE  EventsInv'
<1>1. /\ sub \in [Subs -> SubRecords] /\ queue \in [Subs -> QueueRecords]
      /\ \A i \in Subs : SubInv(i)
      /\ sources' \in 1..MaxSources /\ source' \in 0..sources' /\ source' = 0
      /\ UNCHANGED <<transports, transport, attempt, replay>>
      /\ sub' = [i \in Subs |-> IF Ends(i) THEN [sub[i] EXCEPT !.at = "closed"] ELSE sub[i]]
      /\ queue' = [i \in Subs |-> IF i \in Local THEN SourceLeft(i) ELSE queue[i]]
  BY DEF RemoveOwner, EventsInv, EventTypes
<1>2. PICK Q : Q = queue'  OBVIOUS
<1>3. PICK S : S = sub'  OBVIOUS
<1>4. \A i \in Subs : i \notin Local => S[i] = sub[i] /\ Q[i] = queue[i]
  BY <1>1, <1>2, <1>3 DEF Ends
<1>5. ASSUME NEW i \in Local
      PROVE  /\ S[i] \in SubRecords /\ S[i].lent = sub[i].lent
             /\ S[i] = sub[i] \/ S[i].at = "closed"
             /\ S[i].at \in {"none", "closed"} => ~Q[i].active
             /\ QueueOK(Q[i]) /\ Even(Q[i]) /\ AllFrom(Q[i], source')
  <2>1. i \in Subs /\ Q[i] = SourceLeft(i)  BY <1>1, <1>2 DEF Subs
  <2>2. QueueOK(Q[i]) /\ Even(Q[i]) /\ (Q[i].active => queue[i].active /\ ~Ends(i))
    BY <2>1, OwnerLeft
  <2>3. AllFrom(Q[i], source')  BY <2>2 DEF AllFrom, Even
  <2>4. CASE Ends(i)
    <3>1. S[i] = [sub[i] EXCEPT !.at = "closed"]  BY <1>1, <1>3, <2>1, <2>4
    <3>2. S[i] \in SubRecords /\ S[i].at = "closed" /\ S[i].lent = sub[i].lent
      BY <2>1, <3>1, Ended
    <3>. QED  BY <2>2, <2>3, <2>4, <3>2
  <2>5. CASE ~Ends(i)
    <3>1. S[i] = sub[i]  BY <1>1, <1>3, <2>1, <2>5
    <3>. QED  BY <1>1, <2>1, <2>2, <2>3, <3>1 DEF SubInv, Idle
  <2>. QED  BY <2>4, <2>5
<1>6. S \in [Subs -> SubRecords] /\ Q \in [Subs -> QueueRecords]
  <2>1. \A i \in Subs : S[i] \in SubRecords /\ Q[i] \in QueueRecords
    BY <1>1, <1>4, <1>5 DEF QueueOK
  <2>2. Q = [i \in Subs |-> Q[i]] /\ S = [i \in Subs |-> S[i]]  BY <1>1, <1>2, <1>3
  <2>. QED  BY <2>1, <2>2
<1>. QED  BY <1>1, <1>2, <1>3, <1>4, <1>5, <1>6, RegistryKeeps

(* An owner comes, in place of another one or of none.                     *)
LEMMA InstallOwnerKeeps ==
  ASSUME EventsInv, InstallOwner
  PROVE  EventsInv'
<1>. DEFINE Left(i) == IF source # 0 THEN SourceLeft(i) ELSE queue[i]
<1>1. /\ sub \in [Subs -> SubRecords] /\ queue \in [Subs -> QueueRecords]
      /\ \A i \in Subs : SubInv(i)
      /\ sources' \in 1..MaxSources /\ source' \in 0..sources' /\ source' = sources + 1
      /\ source' # 0 /\ Policy[sources + 1] \in Policies
      /\ UNCHANGED <<transports, transport, attempt, replay>>
      /\ sub' = [i \in Subs |->
           IF source # 0 /\ Ends(i) THEN [sub[i] EXCEPT !.at = "closed"] ELSE sub[i]]
      /\ queue' = [i \in Subs |->
           IF i \notin Local THEN queue[i]
           ELSE [Left(i) EXCEPT !.policy = IF sub'[i].at = "open" THEN Policy[sources + 1] ELSE @]]
  BY EventsAssumption DEF InstallOwner, EventsInv, EventTypes
<1>2. PICK Q : Q = queue'  OBVIOUS
<1>3. PICK S : S = sub'  OBVIOUS
<1>4. \A i \in Subs : i \notin Local => S[i] = sub[i] /\ Q[i] = queue[i]
  BY <1>1, <1>2, <1>3 DEF Ends
<1>5. ASSUME NEW i \in Local
      PROVE  /\ S[i] \in SubRecords /\ S[i].lent = sub[i].lent
             /\ S[i] = sub[i] \/ S[i].at = "closed"
             /\ S[i].at \in {"none", "closed"} => ~Q[i].active
             /\ QueueOK(Q[i]) /\ Even(Q[i]) /\ AllFrom(Q[i], source')
  <2>1. PICK l : l = Left(i)  OBVIOUS
  <2>2. i \in Subs /\ SubInv(i)  BY <1>1 DEF Subs
  <2>3. QueueOK(l) /\ Even(l) /\ (l.active => queue[i].active /\ ~(source # 0 /\ Ends(i)))
    <3>1. CASE source # 0
      BY <2>1, <3>1, OwnerLeft
    <3>2. CASE source = 0
      BY <2>1, <2>2, <3>2 DEF SubInv, LocalOK
    <3>. QED  BY <3>1, <3>2
  <2>4. l \in QueueRecords /\ l.policy \in Policies  BY <2>3, Fields DEF QueueOK
  <2>5. PICK p \in Policies : p = IF sub'[i].at = "open" THEN Policy[sources + 1] ELSE l.policy
    BY <1>1, <2>4
  <2>6. Q[i] = [l EXCEPT !.policy = p]
    <3>1. Q[i] = [Left(i) EXCEPT !.policy = IF sub'[i].at = "open" THEN Policy[sources + 1] ELSE @]
      BY <1>1, <1>2, <2>2
    <3>2. Q[i] = [l EXCEPT !.policy = IF sub'[i].at = "open" THEN Policy[sources + 1] ELSE l.policy]
      BY <2>1, <3>1
    <3>. QED  BY <2>5, <3>2
  <2>7. Q[i] \in QueueRecords
    <3>1. [l EXCEPT !.policy = p] \in QueueRecords  BY <2>4 DEF QueueRecords
    <3>. QED  BY <2>6, <3>1
  <2>8. /\ Q[i].pending = l.pending /\ Q[i].got = l.got /\ Q[i].offered = l.offered
        /\ Q[i].active = l.active /\ Q[i].tasks = l.tasks /\ Q[i].sinking = l.sinking
        /\ Q[i].draining = l.draining
    BY <2>4, <2>6 DEF QueueRecords
  <2>9. QueueOK(Q[i]) /\ Even(Q[i])
    <3>1. Drained(Q[i])  BY <2>3, <2>8 DEF QueueOK, Drained
    <3>. QED  BY <2>3, <2>7, <2>8, <3>1, EvenKeeps
  <2>10. AllFrom(Q[i], source')  BY <2>9 DEF AllFrom, Even
  <2>11. CASE source # 0 /\ Ends(i)
    <3>1. S[i] = [sub[i] EXCEPT !.at = "closed"]  BY <1>1, <1>3, <2>2, <2>11
    <3>2. S[i] \in SubRecords /\ S[i].at = "closed" /\ S[i].lent = sub[i].lent
      BY <2>2, <3>1, Ended
    <3>. QED  BY <2>3, <2>8, <2>9, <2>10, <2>11, <3>2
  <2>12. CASE ~(source # 0 /\ Ends(i))
    <3>1. S[i] = sub[i]  BY <1>1, <1>3, <2>2, <2>12
    <3>. QED  BY <1>1, <2>2, <2>3, <2>8, <2>9, <2>10, <3>1 DEF SubInv, Idle
  <2>. QED  BY <2>11, <2>12
<1>6. S \in [Subs -> SubRecords] /\ Q \in [Subs -> QueueRecords]
  <2>1. \A i \in Subs : S[i] \in SubRecords /\ Q[i] \in QueueRecords
    BY <1>1, <1>4, <1>5 DEF QueueOK
  <2>2. Q = [i \in Subs |-> Q[i]] /\ S = [i \in Subs |-> S[i]]  BY <1>1, <1>2, <1>3
  <2>. QED  BY <2>1, <2>2
<1>7. \A i \in Local :
        /\ S[i].lent = sub[i].lent
        /\ S[i] = sub[i] \/ S[i].at = "closed"
        /\ QueueOK(Q[i]) /\ AllFrom(Q[i], source')
        /\ S[i].at \in {"none", "closed"} => ~Q[i].active
        /\ S[i].at = "none" \/ source' = 0 => Even(Q[i])
  BY <1>5
<1>8. sub' = S /\ queue' = Q  BY <1>2, <1>3
<1>9. /\ sources' \in 1..MaxSources /\ source' \in 0..sources'
      /\ UNCHANGED <<transports, transport, attempt, replay>>
  BY <1>1
<1>. QED  BY <1>4, <1>6, <1>7, <1>8, <1>9, RegistryKeeps

(* One consumer changes, its queue with it, and is as it must be again.    *)
LEMMA ConsumerKeeps ==
  ASSUME EventsInv, NEW i \in Remote, NEW s \in SubRecords, NEW r, QueueOK(r),
         sub' = [sub EXCEPT ![i] = s], queue' = [queue EXCEPT ![i] = r],
         UNCHANGED <<sources, source, transports, transport>>,
         replay' \in [1..MaxTransports -> SUBSET Remote],
         s.at # "none", AllFrom(r, transport),
         s.at = "closed" => ~r.active,
         s.at \in {"new", "open"} /\ s.bound = 0 => Even(r),
         s.at \in {"new", "open"} /\ s.bound # 0 => r.policy = Policy[transport],
         \A l \in s.lent :
           /\ l.gen <= s.gen
           /\ s.at \in {"new", "open"} /\ l.gen = s.gen => l.via = transport /\ transport # 0,
         sub[i].lent \subseteq s.lent,
         \A a \in attempt' : \/ a \in attempt
                             \/ a.id = i /\ [gen |-> a.gen, via |-> a.via] \in s.lent
  PROVE  EventsInv'
<1>1. /\ sub \in [Subs -> SubRecords] /\ queue \in [Subs -> QueueRecords]
      /\ i \in Subs /\ i \notin Local /\ r \in QueueRecords
  BY EventsAssumption DEF EventsInv, EventTypes, Subs, QueueOK
<1>2. EventTypes'
  BY <1>1 DEF EventsInv, EventTypes
<1>3. sub'[i] = s /\ queue'[i] = r /\ \A j \in Subs : j # i => sub'[j] = sub[j] /\ queue'[j] = queue[j]
  BY <1>1
<1>4. SubInv(i)'
  BY <1>1, <1>3 DEF SubInv, FromPresent, Origin, Idle, LocalOK, RemoteOK, There
<1>5. \A j \in Subs : j # i => SubInv(j)'
  BY <1>3, Apart DEF EventsInv
<1>6. \A a \in attempt' : AttemptOK(a)'
  BY <1>3 DEF EventsInv, AttemptOK, Subs
<1>. QED  BY <1>2, <1>4, <1>5, <1>6 DEF EventsInv

(* What is known of a consumer.                                            *)
LEMMA Consumer ==
  ASSUME EventsInv, NEW i \in Remote
  PROVE  /\ i \in Subs /\ i \notin Local
         /\ sub[i] \in SubRecords /\ queue[i] \in QueueRecords /\ QueueOK(queue[i])
         /\ AllFrom(queue[i], transport) /\ Idle(i)
         /\ sub[i].at = "none" => sub[i].lent = {} /\ sub[i].bound = 0
         /\ There(i) /\ sub[i].bound = 0 => Even(queue[i])
         /\ There(i) /\ sub[i].bound # 0 => queue[i].policy = Policy[transport]
         /\ \A l \in sub[i].lent :
              /\ l.gen <= sub[i].gen
              /\ There(i) /\ l.gen = sub[i].gen => l.via = transport /\ transport # 0
         /\ sub \in [Subs -> SubRecords] /\ queue \in [Subs -> QueueRecords]
         /\ replay \in [1..MaxTransports -> SUBSET Remote]
         /\ transport \in Nat
<1>1. i \in Subs /\ i \notin Local /\ SubInv(i)
  BY EventsAssumption DEF Subs, EventsInv
<1>. QED  BY <1>1 DEF EventsInv, EventTypes, SubInv, FromPresent, Origin, RemoteOK

(* A consumer is there.                                                    *)
LEMMA SubscribeRemoteKeeps ==
  ASSUME EventsInv, NEW i \in Remote, SubscribeRemote(i)
  PROVE  EventsInv'
<1>1. /\ i \in Subs /\ sub[i] \in SubRecords /\ queue[i] \in QueueRecords /\ QueueOK(queue[i])
      /\ sub[i].at = "none" /\ Even(queue[i]) /\ sub[i].lent = {} /\ sub[i].bound = 0
      /\ replay \in [1..MaxTransports -> SUBSET Remote]
  BY Consumer DEF SubscribeRemote, Idle
<1>2. PICK s : s = [sub[i] EXCEPT !.at = "new"]  OBVIOUS
<1>3. s \in SubRecords
  <2>1. [sub[i] EXCEPT !.at = "new"] \in SubRecords  BY <1>1 DEF SubRecords
  <2>. QED  BY <1>2, <2>1
<1>4. s.at = "new" /\ s.lent = {} /\ s.bound = 0  BY <1>1, <1>2 DEF SubRecords
<1>5. PICK r : r = [queue[i] EXCEPT !.active = TRUE]  OBVIOUS
<1>6. r \in QueueRecords
  <2>1. [queue[i] EXCEPT !.active = TRUE] \in QueueRecords  BY <1>1 DEF QueueRecords
  <2>. QED  BY <1>5, <2>1
<1>7. /\ r.pending = queue[i].pending /\ r.got = queue[i].got /\ r.offered = queue[i].offered
      /\ r.tasks = queue[i].tasks /\ r.sinking = queue[i].sinking /\ r.draining = queue[i].draining
  BY <1>1, <1>5 DEF QueueRecords
<1>8. QueueOK(r) /\ Even(r)
  <2>1. Drained(r)  BY <1>1, <1>7 DEF QueueOK, Drained, Even
  <2>. QED  BY <1>1, <1>6, <1>7, <2>1, EvenKeeps
<1>9. AllFrom(r, transport)  BY <1>8 DEF AllFrom, Even
<1>10. /\ sub' = [sub EXCEPT ![i] = s] /\ queue' = [queue EXCEPT ![i] = r]
       /\ UNCHANGED <<sources, source, transports, transport, attempt, replay>>
  BY <1>1, <1>2, <1>5 DEF SubscribeRemote
<1>11. /\ s.at # "none" /\ (s.at = "closed" => ~r.active)
       /\ (s.at \in {"new", "open"} /\ s.bound = 0 => Even(r))
       /\ (s.at \in {"new", "open"} /\ s.bound # 0 => r.policy = Policy[transport])
       /\ sub[i].lent \subseteq s.lent
       /\ \A l \in s.lent :
            /\ l.gen <= s.gen
            /\ s.at \in {"new", "open"} /\ l.gen = s.gen => l.via = transport /\ transport # 0
  BY <1>1, <1>4, <1>8
<1>12. \A a \in attempt' : a \in attempt \/ (a.id = i /\ [gen |-> a.gen, via |-> a.via] \in s.lent)
  BY <1>10
<1>13. UNCHANGED <<sources, source, transports, transport>>  BY <1>10
<1>14. replay' \in [1..MaxTransports -> SUBSET Remote]  BY <1>1, <1>10
<1>. QED  BY <1>3, <1>8, <1>9, <1>10, <1>11, <1>12, <1>13, <1>14, ConsumerKeeps

(* An attempt begins: a lease of a new generation, over the transport that *)
(* is there.                                                               *)
LEMMA AttemptKeeps ==
  ASSUME EventsInv, NEW i \in Remote, NEW by, There(i), transport # 0, Attempts(i, by),
         UNCHANGED <<sources, source, transports, transport, queue>>,
         replay' \in [1..MaxTransports -> SUBSET Remote]
  PROVE  EventsInv'
<1>1. /\ i \in Subs /\ sub[i] \in SubRecords /\ queue[i] \in QueueRecords /\ QueueOK(queue[i])
      /\ AllFrom(queue[i], transport) /\ Idle(i)
      /\ sub[i].bound = 0 => Even(queue[i])
      /\ sub[i].bound # 0 => queue[i].policy = Policy[transport]
      /\ \A l \in sub[i].lent : l.gen <= sub[i].gen
      /\ sub \in [Subs -> SubRecords] /\ queue \in [Subs -> QueueRecords] /\ transport \in Nat
  BY Consumer
<1>2. PICK new : new = [gen |-> sub[i].gen + 1, via |-> transport]  OBVIOUS
<1>3. /\ sub[i].gen \in Nat /\ new \in [gen : Nat \ {0}, via : Nat]
      /\ new.gen = sub[i].gen + 1 /\ new.via = transport
      /\ sub[i].lent \subseteq [gen : Nat \ {0}, via : Nat]
      /\ sub[i].at \in {"new", "open"}
  BY <1>1, <1>2, SubFields DEF There
<1>4. PICK at \in {"new", "open"} : at = IF by = 0 THEN "open" ELSE sub[i].at
  BY <1>3
<1>5. PICK s : s = [sub[i] EXCEPT !.gen = @ + 1, !.lent = @ \cup {new}, !.at = at]  OBVIOUS
<1>6. s \in SubRecords
  <2>1. [sub[i] EXCEPT !.gen = @ + 1, !.lent = @ \cup {new}, !.at = at] \in SubRecords
    BY <1>1, <1>3, <1>4 DEF SubRecords
  <2>. QED  BY <1>5, <2>1
<1>7. /\ s.at = at /\ s.bound = sub[i].bound /\ s.gen = sub[i].gen + 1
      /\ s.lent = sub[i].lent \cup {new}
  BY <1>1, <1>5 DEF SubRecords
<1>8. sub' = [sub EXCEPT ![i] = s] /\ queue' = [queue EXCEPT ![i] = queue[i]]
  BY <1>1, <1>2, <1>4, <1>5 DEF Attempts
<1>9. /\ s.at # "none" /\ (s.at = "closed" => ~queue[i].active)
      /\ (s.at \in {"new", "open"} /\ s.bound = 0 => Even(queue[i]))
      /\ (s.at \in {"new", "open"} /\ s.bound # 0 => queue[i].policy = Policy[transport])
      /\ sub[i].lent \subseteq s.lent
  BY <1>1, <1>4, <1>7
<1>10. \A l \in s.lent :
         /\ l.gen <= s.gen
         /\ s.at \in {"new", "open"} /\ l.gen = s.gen => l.via = transport /\ transport # 0
  <2>1. ASSUME NEW l \in sub[i].lent PROVE l.gen <= s.gen /\ l.gen # s.gen
    <3>1. l.gen \in Nat /\ l.gen <= sub[i].gen  BY <1>1, <1>3
    <3>. QED  BY <1>3, <1>7, <3>1
  <2>2. new.gen = s.gen /\ new.via = transport /\ s.gen \in Nat  BY <1>3, <1>7
  <2>. QED  BY <1>7, <2>1, <2>2
<1>11. \A a \in attempt' : a \in attempt \/ (a.id = i /\ [gen |-> a.gen, via |-> a.via] \in s.lent)
  BY <1>2, <1>7 DEF Attempts
<1>12. UNCHANGED <<sources, source, transports, transport>>  OBVIOUS
<1>. QED  BY <1>1, <1>6, <1>8, <1>9, <1>10, <1>11, <1>12, ConsumerKeeps

(* subscribe attaches its consumer, keeps it for later, or drops it.       *)
LEMMA ActivateKeeps ==
  ASSUME EventsInv, NEW i \in Remote, Activate(i)
  PROVE  EventsInv'
<1>1. /\ i \in Subs /\ sub[i] \in SubRecords /\ queue[i] \in QueueRecords /\ QueueOK(queue[i])
      /\ AllFrom(queue[i], transport)
      /\ sub[i].bound = 0 => Even(queue[i])
      /\ sub[i].bound # 0 => queue[i].policy = Policy[transport]
      /\ \A l \in sub[i].lent :
           /\ l.gen <= sub[i].gen
           /\ l.gen = sub[i].gen => l.via = transport /\ transport # 0
      /\ sub \in [Subs -> SubRecords] /\ queue \in [Subs -> QueueRecords] /\ There(i)
      /\ replay' \in [1..MaxTransports -> SUBSET Remote]
      /\ UNCHANGED <<sources, source, transports, transport>>
  BY Consumer DEF Activate, There
<1>2. CASE transport # 0
  <2>1. Attempts(i, 0) /\ UNCHANGED <<sources, source, transports, transport, queue>>
    BY <1>2 DEF Activate
  <2>. QED  BY <1>1, <1>2, <2>1, AttemptKeeps
<1>3. CASE transport = 0
  <2>1. PICK at \in {"open", "closed"} : at = IF i \in Persistent THEN "open" ELSE "closed"
    OBVIOUS
  <2>2. PICK s : s = [sub[i] EXCEPT !.at = at]  OBVIOUS
  <2>3. s \in SubRecords
    <3>1. [sub[i] EXCEPT !.at = at] \in SubRecords  BY <1>1 DEF SubRecords
    <3>. QED  BY <2>2, <3>1
  <2>4. s.at = at /\ s.bound = sub[i].bound /\ s.gen = sub[i].gen /\ s.lent = sub[i].lent
    BY <1>1, <2>2 DEF SubRecords
  <2>5. PICK r : r = IF i \in Persistent THEN queue[i] ELSE ClosedQueue(queue[i])  OBVIOUS
  <2>6. QueueOK(r) /\ AllFrom(r, transport) /\ (i \notin Persistent => ~r.active)
    BY <1>1, <2>5, ClosedKeeps DEF AllFrom
  <2>7. sub' = [sub EXCEPT ![i] = s] /\ queue' = [queue EXCEPT ![i] = r]
    BY <1>1, <1>3, <2>1, <2>2, <2>5 DEF Activate
  <2>8. /\ s.at # "none" /\ (s.at = "closed" => ~r.active)
        /\ (s.at \in {"new", "open"} /\ s.bound = 0 => Even(r))
        /\ (s.at \in {"new", "open"} /\ s.bound # 0 => r.policy = Policy[transport])
        /\ sub[i].lent \subseteq s.lent
        /\ \A l \in s.lent :
             /\ l.gen <= s.gen
             /\ s.at \in {"new", "open"} /\ l.gen = s.gen => l.via = transport /\ transport # 0
    BY <1>1, <2>1, <2>4, <2>5, <2>6
  <2>9. \A a \in attempt' : a \in attempt \/ (a.id = i /\ [gen |-> a.gen, via |-> a.via] \in s.lent)
    BY <1>3 DEF Activate
  <2>. QED  BY <1>1, <2>3, <2>6, <2>7, <2>8, <2>9, ConsumerKeeps
<1>4. transport \in Nat  BY Consumer
<1>. QED  BY <1>2, <1>3, <1>4

(* set_transport activates the next of those it found.                     *)
LEMMA ReplayKeeps ==
  ASSUME EventsInv, NEW t \in 1..MaxTransports, NEW i \in replay[t], Replay(t, i)
  PROVE  EventsInv'
<1>1. i \in Remote /\ replay' \in [1..MaxTransports -> SUBSET Remote]
      /\ UNCHANGED <<sources, source, transports, transport, queue>>
  BY DEF EventsInv, EventTypes, Replay
<1>2. CASE There(i) /\ transport # 0
  <2>1. Attempts(i, t)  BY <1>2 DEF Replay
  <2>. QED  BY <1>1, <1>2, <2>1, AttemptKeeps
<1>3. CASE ~(There(i) /\ transport # 0)
  <2>1. sub' = sub /\ attempt' = attempt  BY <1>3 DEF Replay
  <2>2. EventTypes'  BY <1>1, <2>1 DEF EventsInv, EventTypes
  <2>3. \A j \in Subs : SubInv(j)'
    BY <1>1, <2>1, Apart DEF EventsInv
  <2>4. \A a \in attempt' : AttemptOK(a)'  BY <2>1 DEF EventsInv, AttemptOK
  <2>. QED  BY <2>2, <2>3, <2>4 DEF EventsInv
<1>. QED  BY <1>2, <1>3

(* A step after which only attempts are fewer.                             *)
LEMMA FewerAttempts ==
  ASSUME EventsInv, attempt' \subseteq attempt,
         UNCHANGED <<sources, source, transports, transport, sub, replay, queue>>
  PROVE  EventsInv'
<1>1. EventTypes'  BY DEF EventsInv, EventTypes
<1>2. \A j \in Subs : SubInv(j)'  BY Apart DEF EventsInv
<1>3. \A a \in attempt' : AttemptOK(a)'  BY DEF EventsInv, AttemptOK
<1>. QED  BY <1>1, <1>2, <1>3 DEF EventsInv

(* The transport answers: the consumer is attached, if it is still the     *)
(* attempt's generation.                                                   *)
LEMMA AttachedKeeps ==
  ASSUME EventsInv, NEW a \in attempt, Attached(a)
  PROVE  EventsInv'
<1>1. attempt' \subseteq attempt /\ UNCHANGED <<sources, source, transports, transport, replay>>
  BY DEF Attached
<1>2. CASE ~Current(a)
  BY <1>1, <1>2, FewerAttempts DEF Attached
<1>3. CASE Current(a)
  <2>1. PICK i : i = a.id  OBVIOUS
  <2>2. PICK g : g = a.gen  OBVIOUS
  <2>3. /\ i \in Remote /\ [gen |-> g, via |-> a.via] \in sub[i].lent
        /\ There(i) /\ sub[i].gen = g
    BY <1>3, <2>1, <2>2 DEF EventsInv, AttemptOK, Current
  <2>4. /\ i \in Subs /\ sub[i] \in SubRecords /\ queue[i] \in QueueRecords /\ QueueOK(queue[i])
        /\ AllFrom(queue[i], transport)
        /\ sub[i].bound = 0 => Even(queue[i])
        /\ sub[i].bound # 0 => queue[i].policy = Policy[transport]
        /\ \A l \in sub[i].lent :
             /\ l.gen <= sub[i].gen
             /\ l.gen = sub[i].gen => l.via = transport /\ transport # 0
        /\ sub \in [Subs -> SubRecords] /\ queue \in [Subs -> QueueRecords]
        /\ replay' \in [1..MaxTransports -> SUBSET Remote]
    BY <1>1, <2>3, Consumer
  <2>5. a.via = transport /\ transport # 0 /\ g \in Nat /\ g # 0
    <3>1. PICK l \in sub[i].lent : l.gen = g /\ l.via = a.via
      BY <2>3
    <3>2. l.via = transport /\ transport # 0  BY <2>3, <2>4, <3>1
    <3>3. l.gen \in Nat \ {0}  BY <2>4, SubFields
    <3>. QED  BY <3>1, <3>2, <3>3
  <2>6. Policy[transport] \in Policies
    BY <2>5, EventsAssumption DEF EventsInv, EventTypes
  <2>7. PICK p : p = Policy[transport]  OBVIOUS
  <2>8. PICK s : s = [sub[i] EXCEPT !.bound = g]  OBVIOUS
  <2>9. s \in SubRecords
    <3>1. [sub[i] EXCEPT !.bound = g] \in SubRecords  BY <2>4, <2>5 DEF SubRecords
    <3>. QED  BY <2>8, <3>1
  <2>10. s.at = sub[i].at /\ s.bound = g /\ s.gen = sub[i].gen /\ s.lent = sub[i].lent
    BY <2>4, <2>8 DEF SubRecords
  <2>11. PICK r : r = [queue[i] EXCEPT !.policy = p]  OBVIOUS
  <2>12. r \in QueueRecords
    <3>1. [queue[i] EXCEPT !.policy = p] \in QueueRecords  BY <2>4, <2>6, <2>7 DEF QueueRecords
    <3>. QED  BY <2>11, <3>1
  <2>13. /\ r.pending = queue[i].pending /\ r.got = queue[i].got /\ r.offered = queue[i].offered
         /\ r.active = queue[i].active /\ r.tasks = queue[i].tasks /\ r.sinking = queue[i].sinking
         /\ r.draining = queue[i].draining /\ r.policy = p
    BY <2>4, <2>6, <2>7, <2>11 DEF QueueRecords
  <2>14. QueueOK(r) /\ AllFrom(r, transport)
    <3>1. Drained(r)  BY <2>4, <2>13 DEF QueueOK, Drained
    <3>2. CASE sub[i].bound = 0
      BY <2>4, <2>12, <2>13, <3>1, <3>2, EvenKeeps DEF AllFrom
    <3>3. CASE sub[i].bound # 0
      <4>1. r.policy = queue[i].policy  BY <2>4, <2>7, <2>13, <3>3
      <4>2. Promised(r)  BY <2>4, <2>13, <4>1 DEF QueueOK, Promised
      <4>. QED  BY <2>4, <2>12, <2>13, <3>1, <4>2 DEF QueueOK, AllFrom
    <3>. QED  BY <3>2, <3>3
  <2>15. sub' = [sub EXCEPT ![i] = s] /\ queue' = [queue EXCEPT ![i] = r]
    BY <1>3, <2>1, <2>2, <2>4, <2>5, <2>7, <2>8, <2>11 DEF Attached
  <2>16. /\ s.at # "none" /\ s.at # "closed"
         /\ s.bound # 0 /\ r.policy = Policy[transport] /\ sub[i].lent \subseteq s.lent
         /\ \A l \in s.lent :
              /\ l.gen <= s.gen
              /\ s.at \in {"new", "open"} /\ l.gen = s.gen => l.via = transport /\ transport # 0
    BY <2>3, <2>4, <2>5, <2>7, <2>10, <2>13 DEF There
  <2>17. /\ s.at = "closed" => ~r.active
         /\ s.at \in {"new", "open"} /\ s.bound = 0 => Even(r)
         /\ s.at \in {"new", "open"} /\ s.bound # 0 => r.policy = Policy[transport]
    BY <2>16
  <2>18. \A b \in attempt' : b \in attempt \/ (b.id = i /\ [gen |-> b.gen, via |-> b.via] \in s.lent)
    BY <1>1
  <2>. QED  BY <1>1, <2>3, <2>4, <2>9, <2>14, <2>15, <2>16, <2>17, <2>18, ConsumerKeeps
<1>. QED  BY <1>2, <1>3

(* The transport has no such route or fails: an attempt of subscribe ends  *)
(* its consumer.                                                           *)
LEMMA FailedKeeps ==
  ASSUME EventsInv, NEW a \in attempt, Failed(a)
  PROVE  EventsInv'
<1>1. attempt' \subseteq attempt /\ UNCHANGED <<sources, source, transports, transport, replay>>
  BY DEF Failed
<1>2. CASE UNCHANGED <<sub, queue>>
  BY <1>1, <1>2, FewerAttempts
<1>3. CASE ~UNCHANGED <<sub, queue>>
  <2>1. /\ sub' = [sub EXCEPT ![a.id].at = "closed", ![a.id].bound = 0]
        /\ queue' = [queue EXCEPT ![a.id] = ClosedQueue(@)]
    BY <1>3 DEF Failed
  <2>2. a.id \in Subs  BY DEF EventsInv, AttemptOK, Subs
  <2>. QED  BY <1>1, <2>1, <2>2, EndKeeps
<1>. QED  BY <1>2, <1>3

(* The host delivers an event: only the sink of the newest lease takes it. *)
LEMMA DeliverEventKeeps ==
  ASSUME EventsInv, NEW i \in Remote, NEW lease \in sub[i].lent, DeliverEvent(i, lease)
  PROVE  EventsInv'
<1>1. There(i) /\ sub[i].bound # 0 /\ sub[i].gen = lease.gen
  BY DEF DeliverEvent, Heard
<1>2. /\ i \in Subs /\ sub[i] \in SubRecords /\ queue[i] \in QueueRecords /\ QueueOK(queue[i])
      /\ AllFrom(queue[i], transport)
      /\ queue[i].policy = Policy[transport]
      /\ \A l \in sub[i].lent :
           /\ l.gen <= sub[i].gen
           /\ l.gen = sub[i].gen => l.via = transport /\ transport # 0
      /\ sub \in [Subs -> SubRecords] /\ queue \in [Subs -> QueueRecords]
      /\ replay \in [1..MaxTransports -> SUBSET Remote] /\ transport \in Nat
  BY <1>1, Consumer
<1>3. PICK r : r = Enqueue(queue[i], transport)  OBVIOUS
<1>4. QueueOK(r) /\ AllFrom(r, transport) /\ r.policy = Policy[transport]
  BY <1>2, <1>3, EnqueueKeeps
<1>5. lease.via = transport  BY <1>1, <1>2
<1>6. sub' = [sub EXCEPT ![i] = sub[i]] /\ queue' = [queue EXCEPT ![i] = r]
  BY <1>2, <1>3, <1>5 DEF DeliverEvent
<1>7. UNCHANGED <<sources, source, transports, transport, attempt, replay>>
  BY DEF DeliverEvent
<1>8. /\ sub[i].at # "none" /\ (sub[i].at = "closed" => ~r.active)
      /\ (sub[i].at \in {"new", "open"} /\ sub[i].bound = 0 => Even(r))
      /\ (sub[i].at \in {"new", "open"} /\ sub[i].bound # 0 => r.policy = Policy[transport])
      /\ sub[i].lent \subseteq sub[i].lent
  BY <1>1, <1>4 DEF There
<1>9. \A l \in sub[i].lent :
        /\ l.gen <= sub[i].gen
        /\ sub[i].at \in {"new", "open"} /\ l.gen = sub[i].gen => l.via = transport /\ transport # 0
  BY <1>2
<1>10. \A a \in attempt' :
         a \in attempt \/ (a.id = i /\ [gen |-> a.gen, via |-> a.via] \in sub[i].lent)
  BY <1>7
<1>11. UNCHANGED <<sources, source, transports, transport>>  BY <1>7
<1>12. replay' \in [1..MaxTransports -> SUBSET Remote]  BY <1>2, <1>7
<1>. QED  BY <1>2, <1>4, <1>6, <1>8, <1>9, <1>10, <1>11, <1>12, ConsumerKeeps

(* The transport changes for all consumers at once: nothing is left of     *)
(* what the former one sent, and no lease of it is the newest.             *)
LEMMA ConsumersKeep ==
  ASSUME EventsInv, UNCHANGED <<sources, source, attempt>>,
         transports' \in 0..MaxTransports, transport' \in 0..transports',
         replay' \in [1..MaxTransports -> SUBSET Remote],
         NEW S \in [Subs -> SubRecords], sub' = S, NEW Q \in [Subs -> QueueRecords], queue' = Q,
         \A i \in Subs : i \notin Remote \/ ~There(i) => S[i] = sub[i] /\ Q[i] = queue[i],
         \A i \in Remote : There(i) =>
           /\ S[i].lent = sub[i].lent /\ S[i].at # "none"
           /\ QueueOK(Q[i]) /\ Q[i].pending = <<>>
           /\ S[i].at = "closed" => ~Q[i].active
           /\ S[i].gen >= sub[i].gen
           /\ S[i].at # "closed" => S[i].bound = 0 /\ S[i].gen > sub[i].gen /\ Even(Q[i])
  PROVE  EventsInv'
<1>1. EventTypes'
  BY DEF EventsInv, EventTypes
<1>2. ASSUME NEW i \in Subs PROVE SubInv(i)'
  <2>1. CASE i \notin Remote
    <3>1. SubInv(i) /\ i \in Local /\ sub'[i] = sub[i] /\ queue'[i] = queue[i]
      BY <2>1 DEF EventsInv, Subs
    <3>. QED  BY <2>1, <3>1 DEF SubInv, FromPresent, Origin, Idle, LocalOK, RemoteOK
  <2>2. CASE i \in Remote /\ ~There(i)
    <3>1. /\ sub'[i] = sub[i] /\ queue'[i] = queue[i] /\ sub[i] \in SubRecords
          /\ QueueOK(queue[i]) /\ Idle(i) /\ i \notin Local
          /\ \A l \in sub[i].lent : l.gen <= sub[i].gen
          /\ sub[i].at = "none" => sub[i].lent = {} /\ sub[i].bound = 0
      BY <2>2, Consumer
    <3>2. sub[i].at \in {"none", "closed"}  BY <2>2, <3>1, SubFields DEF There
    <3>3. queue[i].pending = <<>>  BY <3>1, <3>2 DEF Idle, QueueOK, Drained
    <3>4. FromPresent(i)'  BY <3>1, <3>3 DEF FromPresent, AllFrom
    <3>. QED  BY <2>2, <3>1, <3>2, <3>4 DEF SubInv, Idle, LocalOK, RemoteOK, There
  <2>3. CASE i \in Remote /\ There(i)
    <3>1. /\ sub[i] \in SubRecords /\ S[i] \in SubRecords /\ i \notin Local
          /\ \A l \in sub[i].lent : l.gen <= sub[i].gen
      BY <2>3, Consumer
    <3>2. /\ sub[i].gen \in Nat /\ S[i].gen \in Nat /\ S[i].at \in {"none", "new", "open", "closed"}
          /\ \A l \in sub[i].lent : l.gen \in Nat
      BY <3>1, SubFields
    <3>3. \A l \in S[i].lent :
            /\ l.gen <= S[i].gen
            /\ S[i].at # "closed" => l.gen # S[i].gen
      <4>1. /\ S[i].lent = sub[i].lent /\ S[i].gen >= sub[i].gen
            /\ S[i].at # "closed" => S[i].gen > sub[i].gen
        BY <2>3
      <4>. QED  BY <3>1, <3>2, <4>1
    <3>4. FromPresent(i)'  BY <2>3 DEF FromPresent, AllFrom
    <3>5. Idle(i)'  BY <2>3 DEF Idle
    <3>6. RemoteOK(i)'
      <4>1. /\ S[i].at # "none"
            /\ S[i].at # "closed" => S[i].bound = 0 /\ Even(Q[i])
        BY <2>3
      <4>2. sub'[i] = S[i] /\ queue'[i] = Q[i]  OBVIOUS
      <4>3. \A l \in S[i].lent : l.gen <= S[i].gen  BY <3>3
      <4>4. CASE S[i].at = "closed"
        BY <4>2, <4>3, <4>4 DEF RemoteOK, There
      <4>5. CASE S[i].at # "closed"
        <5>1. \A l \in S[i].lent : l.gen # S[i].gen  BY <3>3, <4>5
        <5>. QED  BY <4>1, <4>2, <4>3, <4>5, <5>1 DEF RemoteOK, Even
      <4>. QED  BY <4>4, <4>5
    <3>7. QueueOK(queue[i])'  BY <2>3 DEF QueueOK, Drained, Promised
    <3>. QED  BY <3>1, <3>4, <3>5, <3>6, <3>7 DEF SubInv, LocalOK
  <2>. QED  BY <2>1, <2>2, <2>3
<1>3. \A a \in attempt' : AttemptOK(a)'
  <2>1. \A j \in Subs : sub[j].lent \subseteq sub'[j].lent  OBVIOUS
  <2>. QED  BY <2>1, LentKept
<1>. QED  BY <1>1, <1>2, <1>3 DEF EventsInv

(* Another transport, or none.                                             *)
LEMMA SetTransportKeeps ==
  ASSUME EventsInv, SetTransport
  PROVE  EventsInv'
<1>1. /\ sub \in [Subs -> SubRecords] /\ queue \in [Subs -> QueueRecords]
      /\ transports' \in 0..MaxTransports /\ transport' \in 0..transports'
      /\ UNCHANGED <<sources, source, attempt>>
      /\ sub' = [i \in Subs |->
           IF i \notin Remote \/ ~There(i) THEN sub[i]
           ELSE [sub[i] EXCEPT !.gen = @ + 1, !.bound = 0, !.at = IF Expires(i) THEN "closed" ELSE @]]
      /\ queue' = [i \in Subs |->
           IF i \notin Remote \/ ~There(i) THEN queue[i]
           ELSE IF Expires(i) THEN ClosedQueue(Cleared(queue[i])) ELSE Cleared(queue[i])]
  <2>1. EventTypes  BY DEF EventsInv
  <2>2. transports + 1 \in 0..MaxTransports /\ transports + 1 \in Nat
    <3>1. transports < MaxTransports  BY DEF SetTransport
    <3>. QED  BY <2>1, <3>1, EventsAssumption DEF EventTypes
  <2>3. transports' = transports + 1 /\ transport' \in {transports + 1, 0}  BY DEF SetTransport
  <2>4. transports' \in 0..MaxTransports /\ transport' \in 0..transports'  BY <2>2, <2>3
  <2>5. sub \in [Subs -> SubRecords] /\ queue \in [Subs -> QueueRecords]  BY <2>1 DEF EventTypes
  <2>. QED  BY <2>4, <2>5 DEF SetTransport
<1>2. replay' \in [1..MaxTransports -> SUBSET Remote]
  BY DEF SetTransport, EventsInv, EventTypes
<1>3. PICK Q : Q = queue'  OBVIOUS
<1>4. PICK S : S = sub'  OBVIOUS
<1>5. \A i \in Subs : i \notin Remote \/ ~There(i) => S[i] = sub[i] /\ Q[i] = queue[i]
  BY <1>1, <1>3, <1>4
<1>6. ASSUME NEW i \in Remote, There(i)
      PROVE  /\ S[i] \in SubRecords
             /\ S[i].lent = sub[i].lent /\ S[i].at # "none"
             /\ QueueOK(Q[i]) /\ Q[i].pending = <<>>
             /\ S[i].at = "closed" => ~Q[i].active
             /\ S[i].gen >= sub[i].gen
             /\ S[i].at # "closed" => S[i].bound = 0 /\ S[i].gen > sub[i].gen /\ Even(Q[i])
  <2>1. i \in Subs /\ sub[i] \in SubRecords /\ QueueOK(queue[i])  BY <1>6, Consumer
  <2>2. sub[i].gen \in Nat /\ sub[i].at \in {"new", "open"}  BY <1>6, <2>1, SubFields DEF There
  <2>13. PICK g \in Nat : g = sub[i].gen + 1  BY <2>2
  <2>3. PICK at \in {"new", "open", "closed"} : at = IF Expires(i) THEN "closed" ELSE sub[i].at
    BY <2>2
  <2>4. S[i] = [sub[i] EXCEPT !.gen = g, !.bound = 0, !.at = at]
    BY <1>1, <1>4, <1>6, <2>1, <2>3, <2>13
  <2>5. S[i] \in SubRecords
    <3>1. [sub[i] EXCEPT !.gen = g, !.bound = 0, !.at = at] \in SubRecords
      BY <2>1, <2>2, <2>3 DEF SubRecords
    <3>. QED  BY <2>4, <3>1
  <2>6. S[i].lent = sub[i].lent /\ S[i].at = at /\ S[i].gen = sub[i].gen + 1 /\ S[i].bound = 0
    BY <2>1, <2>4, <2>13 DEF SubRecords
  <2>7. PICK c : c = Cleared(queue[i])  OBVIOUS
  <2>8. QueueOK(c) /\ Even(c) /\ c.pending = <<>>  BY <2>1, <2>7, ClearedKeeps DEF Even
  <2>9. QueueOK(ClosedQueue(c)) /\ ~ClosedQueue(c).active /\ ClosedQueue(c).pending = <<>>
    BY <2>8, ClosedKeeps
  <2>10. Q[i] = IF Expires(i) THEN ClosedQueue(c) ELSE c
    BY <1>1, <1>3, <1>6, <2>1, <2>7
  <2>11. /\ QueueOK(Q[i]) /\ Q[i].pending = <<>>
         /\ Expires(i) => ~Q[i].active
         /\ ~Expires(i) => Even(Q[i])
    BY <2>8, <2>9, <2>10
  <2>12. Expires(i) <=> at = "closed"  BY <2>2, <2>3
  <2>. QED  BY <2>2, <2>3, <2>5, <2>6, <2>11, <2>12
<1>7. S \in [Subs -> SubRecords] /\ Q \in [Subs -> QueueRecords]
  <2>1. \A i \in Subs : S[i] \in SubRecords /\ Q[i] \in QueueRecords
    BY <1>1, <1>5, <1>6 DEF QueueOK
  <2>2. Q = [i \in Subs |-> Q[i]] /\ S = [i \in Subs |-> S[i]]  BY <1>1, <1>3, <1>4
  <2>. QED  BY <2>1, <2>2
<1>8. \A i \in Remote : There(i) =>
        /\ S[i].lent = sub[i].lent /\ S[i].at # "none"
        /\ QueueOK(Q[i]) /\ Q[i].pending = <<>>
        /\ S[i].at = "closed" => ~Q[i].active
        /\ S[i].gen >= sub[i].gen
        /\ S[i].at # "closed" => S[i].bound = 0 /\ S[i].gen > sub[i].gen /\ Even(Q[i])
  BY <1>6
<1>9. sub' = S /\ queue' = Q  BY <1>3, <1>4
<1>10. /\ transports' \in 0..MaxTransports /\ transport' \in 0..transports'
       /\ UNCHANGED <<sources, source, attempt>>
  BY <1>1
<1>. QED  BY <1>2, <1>5, <1>7, <1>8, <1>9, <1>10, ConsumersKeep

(* The endpoint shuts down.                                                *)
LEMMA CloseRemoteKeeps ==
  ASSUME EventsInv, CloseRemote
  PROVE  EventsInv'
<1>1. /\ sub \in [Subs -> SubRecords] /\ queue \in [Subs -> QueueRecords]
      /\ transports' \in 0..MaxTransports /\ transport' \in 0..transports'
      /\ UNCHANGED <<sources, source, attempt>>
      /\ sub' = [i \in Subs |->
           IF i \in Remote /\ There(i) THEN [sub[i] EXCEPT !.at = "closed", !.bound = 0] ELSE sub[i]]
      /\ queue' = [i \in Subs |-> IF i \in Remote /\ There(i) THEN ClosedQueue(queue[i]) ELSE queue[i]]
      /\ replay' \in [1..MaxTransports -> SUBSET Remote]
  <2>1. EventTypes  BY DEF EventsInv
  <2>2. UNCHANGED <<sources, source, attempt, transports, replay>> /\ transport' = 0  BY DEF CloseRemote
  <2>3. transports' \in 0..MaxTransports /\ transport' \in 0..transports'
    BY <2>1, <2>2, EventsAssumption DEF EventTypes
  <2>4. /\ sub \in [Subs -> SubRecords] /\ queue \in [Subs -> QueueRecords]
        /\ replay' \in [1..MaxTransports -> SUBSET Remote]
    BY <2>1, <2>2 DEF EventTypes
  <2>. QED  BY <2>2, <2>3, <2>4 DEF CloseRemote
<1>2. PICK Q : Q = queue'  OBVIOUS
<1>3. PICK S : S = sub'  OBVIOUS
<1>4. \A i \in Subs : i \notin Remote \/ ~There(i) => S[i] = sub[i] /\ Q[i] = queue[i]
  BY <1>1, <1>2, <1>3
<1>5. ASSUME NEW i \in Remote, There(i)
      PROVE  /\ S[i] \in SubRecords
             /\ S[i].lent = sub[i].lent /\ S[i].at = "closed" /\ S[i].gen >= sub[i].gen
             /\ QueueOK(Q[i]) /\ Q[i].pending = <<>> /\ ~Q[i].active
  <2>1. i \in Subs /\ sub[i] \in SubRecords /\ QueueOK(queue[i])  BY <1>5, Consumer
  <2>2. S[i] = [sub[i] EXCEPT !.at = "closed", !.bound = 0]  BY <1>1, <1>3, <1>5, <2>1
  <2>3. S[i] \in SubRecords
    <3>1. [sub[i] EXCEPT !.at = "closed", !.bound = 0] \in SubRecords  BY <2>1 DEF SubRecords
    <3>. QED  BY <2>2, <3>1
  <2>4. S[i].lent = sub[i].lent /\ S[i].at = "closed" /\ S[i].gen = sub[i].gen
    BY <2>1, <2>2 DEF SubRecords
  <2>5. sub[i].gen \in Nat  BY <2>1, SubFields
  <2>6. Q[i] = ClosedQueue(queue[i])  BY <1>1, <1>2, <1>5, <2>1
  <2>. QED  BY <2>1, <2>3, <2>4, <2>5, <2>6, ClosedKeeps
<1>6. S \in [Subs -> SubRecords] /\ Q \in [Subs -> QueueRecords]
  <2>1. \A i \in Subs : S[i] \in SubRecords /\ Q[i] \in QueueRecords
    BY <1>1, <1>4, <1>5 DEF QueueOK
  <2>2. Q = [i \in Subs |-> Q[i]] /\ S = [i \in Subs |-> S[i]]  BY <1>1, <1>2, <1>3
  <2>. QED  BY <2>1, <2>2
<1>7. \A i \in Remote : There(i) =>
        /\ S[i].lent = sub[i].lent /\ S[i].at # "none"
        /\ QueueOK(Q[i]) /\ Q[i].pending = <<>>
        /\ S[i].at = "closed" => ~Q[i].active
        /\ S[i].gen >= sub[i].gen
        /\ S[i].at # "closed" => S[i].bound = 0 /\ S[i].gen > sub[i].gen /\ Even(Q[i])
  BY <1>5
<1>8. sub' = S /\ queue' = Q  BY <1>2, <1>3
<1>. QED  BY <1>1, <1>4, <1>6, <1>7, <1>8, ConsumersKeep

(* Every step of the registry and of the consumers keeps it.               *)
LEMMA EventsKeep ==
  ASSUME EventsInv, [LocalNext \/ RemoteNext]_evars
  PROVE  EventsInv'
<1>1. CASE UNCHANGED evars
  BY <1>1, FewerAttempts DEF evars
<1>2. ASSUME NEW i \in Subs, Unsubscribe(i) \/ Pop(i) \/ SinkEnds(i) PROVE EventsInv'
  BY <1>2, UnsubscribeKeeps, WorkKeeps
<1>3. CASE LocalNext
  BY <1>2, <1>3, SubscribeLocalKeeps, PublishKeeps, RemoveOwnerKeeps, InstallOwnerKeeps
  DEF LocalNext, QueueNext, Subs
<1>4. CASE RemoteNext
  BY <1>2, <1>4, SubscribeRemoteKeeps, ActivateKeeps, DeliverEventKeeps, AttachedKeeps, FailedKeeps,
     ReplayKeeps, SetTransportKeeps, CloseRemoteKeeps
  DEF RemoteNext, QueueNext, Subs
<1>. QED  BY <1>1, <1>3, <1>4

(* Whatever sources and transports come and go, and however late the host  *)
(* calls a sink: a subscriber gets what its policy promises, one event at  *)
(* a time, of who is present, and is never left with a queue no task       *)
(* works on.                                                               *)
THEOREM SubscriptionsAreKept == EventsSpec => []SubscriptionsKept
<1>1. EventsInit => EventsInv
  BY EventsStart
<1>2. EventsInv /\ [LocalNext \/ RemoteNext]_evars => EventsInv'
  BY EventsKeep
<1>3. EventsInv => SubscriptionsKept
  <2>. SUFFICES ASSUME EventsInv, NEW i \in Subs
       PROVE  /\ queue[i].sinking <= 1
              /\ queue[i].pending # <<>> => queue[i].tasks + queue[i].sinking > 0
              /\ \A k \in 1..Len(queue[i].pending) :
                   queue[i].pending[k].from = IF i \in Local THEN source ELSE transport
              /\ Promised(queue[i])
    BY DEF SubscriptionsKept, OneSink, NobodyStranded, OnlyFromPresent, PromiseKept, Promised
  <2>1. SubInv(i) /\ QueueOK(queue[i]) /\ queue[i] \in QueueRecords  BY DEF EventsInv, SubInv, QueueOK
  <2>2. queue[i].tasks \in Nat /\ queue[i].sinking \in Nat /\ queue[i].draining \in BOOLEAN
    BY <2>1, Fields
  <2>3. /\ queue[i].sinking <= 1
        /\ queue[i].pending # <<>> => queue[i].tasks + queue[i].sinking > 0
    BY <2>1, <2>2 DEF QueueOK, Drained
  <2>. QED  BY <2>1, <2>3 DEF SubInv, FromPresent, Origin, AllFrom, QueueOK
<1>. QED  BY <1>1, <1>2, <1>3, PTL DEF EventsSpec
=============================================================================
