--------------------------------- MODULE Mobile ---------------------------------
(***************************************************************************)
(* The mobile client (xiaowei-mobile: lib.rs, account.rs, api.rs): one     *)
(* account operation at a time and any number of calls, next to a host     *)
(* that commits sessions, suspends and closes.  The connection is shared:  *)
(* an operation that may connect sets its target as the client does.  Of a *)
(* session only its identity counts; 0 is none.                            *)
(***************************************************************************)
EXTENDS Integers, FiniteSets

CONSTANTS
  Works,        \* account operations: numbers, taken in their order
  ApiCalls,     \* calls: numbers, taken in their order
  Changes,      \* calls of set_session, suspend and close: numbers, taken in their order
  Identities    \* identities of sessions, without 0

ASSUME MobileAssumption ==
  Works \cup ApiCalls \cup Changes \cup Identities \subseteq Nat \ {0}

VARIABLES
  client,     \* State of MobileClient
  lifecycle,  \* the change that has the lifecycle lock
  change,     \* change[x]: set_session, suspend or close
  work,       \* work[w]: AccountWork and its core's drive
  api,        \* api[a]: ApiWork
  target      \* the shared connection's target

mvars == <<client, lifecycle, change, work, api, target>>

NoWork == [at |-> "none", identity |-> 0, connect |-> FALSE, cancel |-> FALSE, closed |-> FALSE, released |-> FALSE]
NoChange == [at |-> "none", kind |-> "none", context |-> 0, connect |-> FALSE, works |-> {}, calls |-> {}]
NoCall == [at |-> "none", cancel |-> FALSE, closed |-> FALSE]

MobileInit ==
  /\ client = [context |-> 0, suspended |-> FALSE, transitioning |-> FALSE, closed |-> "no",
               account |-> 0, calls |-> {}]
  /\ lifecycle = 0 /\ target = 0
  /\ change = [x \in Changes |-> NoChange]
  /\ work = [w \in Works |-> NoWork] /\ api = [a \in ApiCalls |-> NoCall]

Running(w) == work[w].at \in {"running", "connecting", "waiting"}
NextOf(f, S, x) == f[x].at = "none" /\ \A y \in S : y < x => f[y].at # "none"

-----------------------------------------------------------------------------
Available == client.closed = "no" /\ ~client.suspended /\ ~client.transitioning

(* operation: the one before it has been released.                         *)
Free == client.account # 0 => work[client.account].released

(* login, restore, maintain, logout and revoke: the ones that may connect  *)
(* are of the committed session, and set its target.                       *)
Operation(w, identity, connect) ==
  /\ NextOf(work, Works, w) /\ Available /\ Free
  /\ connect => identity = client.context
  /\ work' = [work EXCEPT ![w] = [NoWork EXCEPT !.at = "new", !.identity = identity, !.connect = connect]]
  /\ client' = [client EXCEPT !.account = w]
  /\ target' = IF connect THEN identity ELSE target
  /\ UNCHANGED <<lifecycle, change, api>>

(* run: one task for all its callers.                                      *)
Run(w) ==
  /\ work[w].at = "new" /\ ~work[w].closed
  /\ work' = [work EXCEPT ![w].at = "running"]
  /\ UNCHANGED <<client, lifecycle, change, api, target>>

(* The drive looks at its cancellation, then goes on to its connection ... *)
Drive(w) ==
  /\ work[w].at = "running"
  /\ work' = [work EXCEPT ![w].at = IF @ = "running" /\ work[w].cancel THEN "done"
                                    ELSE IF work[w].connect THEN "connecting" ELSE "waiting"]
  /\ UNCHANGED <<client, lifecycle, change, api, target>>

Reconnect(w) ==
  /\ work[w].at = "connecting"
  /\ target' = IF client.closed = "yes" THEN target ELSE work[w].identity
  /\ work' = [work EXCEPT ![w].at = "waiting"]
  /\ UNCHANGED <<client, lifecycle, change, api>>

(* ... and to the server, whose answer it waits for unless it is cancelled.*)
EndDrive(w) ==
  /\ work[w].at = "waiting"
  /\ \E at \in IF work[w].cancel THEN {"done"} ELSE {"done", "checkpoint", "running"} :
       work' = [work EXCEPT ![w].at = at]
  /\ UNCHANGED <<client, lifecycle, change, api, target>>

(* resume: the host acknowledges the checkpoint's version.                 *)
ResumeWork(w) ==
  /\ work[w].at = "checkpoint" /\ ~work[w].closed
  /\ work' = [work EXCEPT ![w].at = "running"]
  /\ UNCHANGED <<client, lifecycle, change, api, target>>

CancelWork(w) ==
  /\ work[w].at # "none" /\ ~work[w].cancel
  /\ work' = [work EXCEPT ![w].cancel = TRUE]
  /\ UNCHANGED <<client, lifecycle, change, api, target>>

Closed(S) == [w \in Works |-> IF w \in S THEN [work[w] EXCEPT !.closed = TRUE, !.cancel = TRUE] ELSE work[w]]

(* close, by the host.                                                     *)
CloseWork(w) ==
  /\ work[w].at # "none" /\ ~work[w].closed
  /\ work' = Closed({w})
  /\ UNCHANGED <<client, lifecycle, change, api, target>>

SettledDrive(w) == ~Running(w)

(* close's task: the running one, then what settled_outcome finds.         *)
Release(w) ==
  /\ work[w].closed /\ ~work[w].released /\ SettledDrive(w)
  /\ work' = [work EXCEPT ![w].released = TRUE, ![w].at = IF @ = "checkpoint" THEN "done" ELSE @]
  /\ UNCHANGED <<client, lifecycle, change, api, target>>

-----------------------------------------------------------------------------
Finished(a) == api[a].at = "done" \/ (api[a].at = "new" /\ (api[a].closed \/ api[a].cancel))

Invoke(a) ==
  /\ NextOf(api, ApiCalls, a) /\ Available
  /\ api' = [api EXCEPT ![a].at = "new"]
  /\ client' = [client EXCEPT !.calls = {b \in @ : ~Finished(b)} \cup {a}]
  /\ UNCHANGED <<lifecycle, change, work, target>>

RunCall(a) ==
  /\ api[a].at = "new" /\ ~api[a].closed
  /\ api' = [api EXCEPT ![a].at = IF api[a].cancel THEN "done" ELSE "running"]
  /\ UNCHANGED <<client, lifecycle, change, work, target>>

CancelApi(a) ==
  /\ api[a].at \in {"new", "running"} /\ ~api[a].cancel
  /\ api' = [api EXCEPT ![a].cancel = TRUE]
  /\ UNCHANGED <<client, lifecycle, change, work, target>>

EndCall(a) ==
  /\ api[a].at = "running"
  /\ api' = [api EXCEPT ![a].at = "done"]
  /\ UNCHANGED <<client, lifecycle, change, work, target>>

-----------------------------------------------------------------------------
(* set_session, suspend: one at a time.  close: at once, then its turn.    *)
Ask(x, kind, context, connect) ==
  /\ NextOf(change, Changes, x)
  /\ kind = "close" => client.closed = "no"
  /\ change' = [change EXCEPT ![x] = [NoChange EXCEPT !.at = "queued", !.kind = kind,
                                                      !.context = context, !.connect = connect]]
  /\ IF kind = "close"
     THEN /\ client' = [client EXCEPT !.closed = "closing"]
          /\ work' = [w \in Works |-> IF w = client.account THEN [work[w] EXCEPT !.cancel = TRUE] ELSE work[w]]
          /\ api' = [a \in ApiCalls |-> [api[a] EXCEPT !.cancel = @ \/ api[a].at # "none"]]
     ELSE UNCHANGED <<client, work, api>>
  /\ UNCHANGED <<lifecycle, target>>

(* What a change cancels, and waits for: the account's work and the calls. *)
Cancels(x) ==
  LET S == {client.account} \cap Works IN
  /\ work' = Closed(S)
  /\ api' = [a \in ApiCalls |-> IF a \in client.calls THEN [api[a] EXCEPT !.cancel = TRUE, !.closed = TRUE]
                                ELSE api[a]]
  /\ lifecycle' = x

(* A first commit may acknowledge the rotation of an operation.            *)
Changed(context) ==
  IF client.context # 0 THEN client.context # context
  ELSE client.account # 0 => work[client.account].identity # context

StartSet(x) ==
  /\ change[x].at = "queued" /\ change[x].kind = "set" /\ lifecycle = 0
  /\ IF client.closed # "no"
     THEN change' = [change EXCEPT ![x].at = "done"] /\ UNCHANGED <<client, lifecycle, work, api>>
     ELSE /\ IF Changed(change[x].context) THEN Cancels(x)
             ELSE lifecycle' = x /\ UNCHANGED <<work, api>>
          /\ client' = [client EXCEPT !.transitioning = TRUE,
                                      !.calls = IF Changed(change[x].context) THEN {} ELSE @]
          /\ change' = [change EXCEPT ![x] =
               IF Changed(change[x].context)
               THEN [@ EXCEPT !.at = "settling", !.works = {client.account} \cap Works, !.calls = client.calls]
               ELSE [@ EXCEPT !.at = "settling"]]
  /\ UNCHANGED target

(* pause, up to its wait.                                                  *)
StartSuspend(x) ==
  /\ change[x].at = "queued" /\ change[x].kind = "suspend" /\ lifecycle = 0
  /\ IF client.closed # "no"
     THEN change' = [change EXCEPT ![x].at = "done"] /\ UNCHANGED <<client, lifecycle, work, api, target>>
     ELSE /\ Cancels(x)
          /\ client' = [client EXCEPT !.suspended = TRUE, !.transitioning = TRUE, !.calls = {}]
          /\ target' = 0
          /\ change' = [change EXCEPT ![x].at = "settling", ![x].works = {client.account} \cap Works,
                                      ![x].calls = client.calls]

StartClose(x) ==
  /\ change[x].at = "queued" /\ change[x].kind = "close" /\ lifecycle = 0
  /\ Cancels(x)
  /\ client' = [client EXCEPT !.account = 0, !.calls = {}]
  /\ change' = [change EXCEPT ![x].at = "settling", ![x].works = {client.account} \cap Works,
                              ![x].calls = client.calls]
  /\ UNCHANGED target

(* settle_work: the operation is released, the calls have ended.           *)
Settled(x) ==
  /\ \A w \in change[x].works : work[w].released
  /\ \A a \in change[x].calls : api[a].at # "running"

(* apply_session: the old owners have settled, so the new target is set.   *)
EndSet(x) ==
  /\ change[x].at = "settling" /\ change[x].kind = "set" /\ Settled(x)
  /\ IF client.closed # "no"
     THEN client' = [client EXCEPT !.transitioning = FALSE] /\ UNCHANGED target
     ELSE /\ client' = [client EXCEPT !.transitioning = FALSE, !.suspended = FALSE, !.context = change[x].context]
          /\ target' = IF change[x].connect THEN change[x].context ELSE 0
  /\ lifecycle' = 0 /\ change' = [change EXCEPT ![x] = [NoChange EXCEPT !.at = "done"]]
  /\ UNCHANGED <<work, api>>

(* Mutant: the target was cleared when the suspension began.               *)
ClearedBefore == UNCHANGED target
(* An operation that was about to connect may have set it meanwhile.       *)
ClearedAgain == target' = 0

EndSuspend(x) ==
  /\ change[x].at = "settling" /\ change[x].kind = "suspend" /\ Settled(x)
  /\ ClearedAgain
  /\ client' = [client EXCEPT !.transitioning = FALSE]
  /\ lifecycle' = 0 /\ change' = [change EXCEPT ![x] = [NoChange EXCEPT !.at = "done"]]
  /\ UNCHANGED <<work, api>>

(* close: the core, then the connection, which takes no target any more.   *)
EndClose(x) ==
  /\ change[x].at = "settling" /\ change[x].kind = "close" /\ Settled(x)
  /\ target' = 0 /\ client' = [client EXCEPT !.closed = "yes"]
  /\ lifecycle' = 0 /\ change' = [change EXCEPT ![x] = [NoChange EXCEPT !.at = "done"]]
  /\ UNCHANGED <<work, api>>

MobileNext ==
  \/ \E w \in Works :
       \/ \E i \in Identities, connect \in BOOLEAN : Operation(w, i, connect)
       \/ Run(w) \/ Drive(w) \/ Reconnect(w) \/ EndDrive(w) \/ ResumeWork(w)
       \/ CancelWork(w) \/ CloseWork(w) \/ Release(w)
  \/ \E a \in ApiCalls : Invoke(a) \/ RunCall(a) \/ CancelApi(a) \/ EndCall(a)
  \/ \E x \in Changes :
       \/ \E i \in Identities, connect \in BOOLEAN : Ask(x, "set", i, connect)
       \/ Ask(x, "suspend", 0, FALSE) \/ Ask(x, "close", 0, FALSE)
       \/ StartSet(x) \/ EndSet(x) \/ StartSuspend(x) \/ EndSuspend(x) \/ StartClose(x) \/ EndClose(x)

MobileSpec == MobileInit /\ [][MobileNext]_mvars

-----------------------------------------------------------------------------
(* The connection is the committed session's or nobody's, whatever an      *)
(* operation that is under way still sets.                                 *)
TargetCommitted ==
  client.closed = "no" /\ ~client.transitioning => target \in {0, client.context}

(* Once the client is suspended or closed there is no connection, no       *)
(* operation in its drive and no call under way.                           *)
QuietWhenStopped ==
  (client.closed = "no" /\ client.suspended /\ ~client.transitioning) \/ client.closed = "yes"
    => /\ target = 0
       /\ \A w \in Works : ~Running(w)
       /\ \A a \in ApiCalls : api[a].at # "running"

(* Two operations never refresh or log out at the same time.               *)
OneDrive == Cardinality({w \in Works : Running(w)}) <= 1

(* What a former session started is over before the next one is the        *)
(* client's, and before the client is idle.                                *)
OwnersSettled == TargetCommitted /\ QuietWhenStopped /\ OneDrive
=============================================================================
