-------------------------------- MODULE Account --------------------------------
(***************************************************************************)
(* The session core of xw-api (account/mod.rs, session.rs, refresh.rs):    *)
(* one server's session, operations that take turns at a gate, refreshes   *)
(* whose answers come late, and a host that replaces, suspends or closes   *)
(* the target meanwhile.  A token pair is the number of its issue.         *)
(***************************************************************************)
EXTENDS Integers, FiniteSets

CONSTANTS
  Ops,            \* operation ids: numbers, taken in their order
  Commands,       \* Commands[o]: what the host starts as o, among the names of Command below
  MaxTargets,     \* bound on activations
  MaxPairs,       \* bound on token pairs
  MaxAges,        \* bound on pairs that come near their end
  MaxStops        \* bound on suspending and closing

ASSUME AccountAssumption ==
  /\ Ops \subseteq Nat \ {0}
  /\ \A o \in Ops : Commands[o] \subseteq {"login", "maintain", "force", "restore", "restoreForced", "logout", "revoke"}
  /\ MaxTargets \in Nat \ {0} /\ MaxPairs \in Nat \ {0} /\ MaxAges \in Nat /\ MaxStops \in Nat

VARIABLES
  core,       \* State of SessionCore
  pending,    \* State::pending: an operation and its phase
  gate,       \* who holds the gate
  op,         \* op[o]: the call, its drive's copies and what it returned
  issued,     \* server: pairs issued
  old         \* pairs whose access token expires within LEAD_MS

avars == <<core, pending, gate, op, issued, old>>

Nobody == 0
NoSession == [id |-> 0, pair |-> 0]
Phase(at, force, then, again) == [at |-> at, force |-> force, then |-> then, again |-> again]
Complete == Phase("Complete", FALSE, "Complete", FALSE)
NoPending == [op |-> Nobody, generation |-> 0, phase |-> Complete]
NoOutcome == [code |-> "none", session |-> NoSession, checkpoint |-> FALSE]

(* start: the operation's first phase.  again stands for confirm_rejection *)
(* and for retried.                                                        *)
Command ==
  [login         |-> Phase("Login", FALSE, "Complete", FALSE),
   maintain      |-> Phase("Fresh", FALSE, "Complete", FALSE),
   force         |-> Phase("Fresh", TRUE, "Complete", FALSE),
   restore       |-> Phase("Fresh", FALSE, "Validate", FALSE),
   restoreForced |-> Phase("Fresh", TRUE, "Validate", TRUE),
   logout        |-> Phase("Fresh", FALSE, "Logout", FALSE),
   revoke        |-> Phase("Revoke", FALSE, "Complete", FALSE)]

(* Next::phase                                                             *)
After(phase) == Phase(phase.then, FALSE, "Complete", phase.again)

NoOp == [at |-> "idle", command |-> "none", observed |-> 0, generation |-> 0, target |-> 0,
         phase |-> Complete, session |-> NoSession, reply |-> 0, cancel |-> FALSE,
         out |-> NoOutcome, driven |-> FALSE, finished |-> FALSE,
         unseen |-> 0, forced |-> 0, merged |-> FALSE]

AccountInit ==
  /\ core = [session |-> NoSession, target |-> 0, generation |-> 0, version |-> 0,
             suspended |-> FALSE, closed |-> FALSE, error |-> "ok"]
  /\ pending = NoPending /\ gate = Nobody
  /\ op = [o \in Ops |-> NoOp]
  /\ issued = 0 /\ old = {}

-----------------------------------------------------------------------------
(* result: the caller gets a copy of the state.                            *)
Result(c, p) ==
  [code |-> c.error, session |-> c.session,
   checkpoint |-> p.phase.at # "Complete" /\ c.error = "ok"]

(* failure: the pending operation is over, whoever's it is.                *)
Failed(c, error) == [c EXCEPT !.error = error]
Over(p) == [p EXCEPT !.phase = Complete]

(* The call returns and the gate is free again.                            *)
AsReturned(r, out, driven) ==
  [r EXCEPT !.at = "returned", !.out = out, !.driven = driven,
            !.unseen = IF out.session = [id |-> r.target, pair |-> r.unseen] THEN 0 ELSE r.unseen,
            !.command = "none", !.observed = 0, !.phase = Complete, !.session = NoSession, !.reply = 0, !.merged = FALSE]
Returns(o, base, out, driven) ==
  /\ op' = [base EXCEPT ![o] = AsReturned(base[o], out, driven)]
  /\ gate' = Nobody

Fails(o, error, driven) ==
  /\ core' = Failed(core, error) /\ pending' = Over(pending)
  /\ Returns(o, op, Result(core', pending'), driven)

(* cancelled_outcome                                                       *)
CancelledWith(session) == [code |-> "cancelled", session |-> session, checkpoint |-> FALSE]

-----------------------------------------------------------------------------
(* start, before the gate.                                                 *)
Call(o, c) ==
  /\ op[o].at = "idle" /\ \A x \in Ops : x < o => op[x].at # "idle"
  /\ op' = [op EXCEPT ![o].at = "queued", ![o].command = c, ![o].observed = core.version]
  /\ UNCHANGED <<core, pending, gate, issued, old>>

(* A version that moved on since the call is a rotation it need not repeat.*)
First(o) == [Command[op[o].command] EXCEPT !.force = @ /\ core.version = op[o].observed]

Begin(o) ==
  /\ op[o].at = "queued" /\ gate = Nobody
  /\ IF core.closed \/ core.suspended THEN Fails(o, "error", FALSE)
     ELSE IF pending.phase.at # "Complete"
     THEN /\ Returns(o, op, [Result(core, pending) EXCEPT !.code = "waiting"], FALSE)
          /\ UNCHANGED <<core, pending>>
     ELSE /\ pending' = [op |-> o, generation |-> core.generation, phase |-> First(o)]
          /\ core' = [core EXCEPT !.error = "ok"]
          /\ gate' = o
          /\ op' = [op EXCEPT ![o].at = "driving", ![o].generation = core.generation,
                              ![o].target = core.target, ![o].command = "none", ![o].observed = 0]
  /\ UNCHANGED <<issued, old>>

(* resume: the host has accepted the checkpoint of its pending operation.  *)
(* (Of another operation resume returns what the core holds now.)          *)
Resume(o) ==
  /\ op[o].at = "returned" /\ op[o].out.checkpoint /\ gate = Nobody
  /\ pending.op = o
  /\ IF pending.generation # core.generation \/ op[o].cancel
     THEN Fails(o, "cancelled", FALSE)
     ELSE /\ core' = [core EXCEPT !.error = "ok"]
          /\ gate' = o
          /\ op' = [op EXCEPT ![o].at = "driving", ![o].out = NoOutcome]
          /\ UNCHANGED pending
  /\ UNCHANGED <<issued, old>>

-----------------------------------------------------------------------------
(* drive_inner, under the lock: the drive's copies, and out of it.         *)
Enter(o) ==
  /\ op[o].at = "driving"
  /\ IF core.generation # op[o].generation
     THEN /\ Returns(o, op, CancelledWith(NoSession), TRUE) /\ UNCHANGED <<core, pending>>
     ELSE IF op[o].cancel THEN Fails(o, "cancelled", TRUE)
     ELSE /\ op' = [op EXCEPT ![o].at = "calling", ![o].phase = pending.phase,
                              ![o].session = core.session, ![o].reply = 0]
          /\ UNCHANGED <<core, pending, gate>>
  /\ UNCHANGED <<issued, old>>

(* fresh: is the server to be asked for new tokens                         *)
Refreshes(o) ==
  /\ op[o].phase.at = "Fresh" /\ op[o].session.pair # 0
  /\ op[o].phase.force \/ op[o].session.pair \in old

(* The server issues a pair; its answer may still be lost.                 *)
Issue(o) ==
  /\ op[o].at = "calling" /\ op[o].reply = 0 /\ issued < MaxPairs
  /\ Refreshes(o) \/ op[o].phase.at = "Login"
  /\ issued' = issued + 1
  /\ op' = [op EXCEPT ![o].reply = issued', ![o].forced = @ + (IF op[o].phase.force THEN 1 ELSE 0)]
  /\ UNCHANGED <<core, pending, gate, old>>

Step(next, error, session, rotated) ==
  [next |-> next, error |-> error, session |-> session, rotated |-> rotated,
   checkpoint |-> rotated /\ next.at # "Complete"]

(* Mutant: a rejection that was confirmed is confirmed again.              *)
RecoverAlways(phase) == Phase("Fresh", TRUE, phase.at, FALSE)
(* A rejection is answered by one forced refresh, and then tried again.    *)
Recover(phase) == Phase("Fresh", TRUE, phase.at, TRUE)

(* What the phase's network action may come to.                            *)
Answers(o) ==
  LET p == op[o].phase
      s == op[o].session
      Error(e) == Step(p, e, s, FALSE)
      Rotated == Step(IF p.at = "Login" THEN Complete ELSE After(p), "ok",
                      [id |-> op[o].target, pair |-> op[o].reply], TRUE)
      Done == Step(Complete, "ok", s, FALSE)
  IN CASE p.at = "Complete" -> {Done}
       [] p.at = "Login" -> {Error("error")} \cup {a \in {Rotated} : op[o].reply # 0}
       [] p.at = "Fresh" /\ s.pair = 0 -> {Error("unauth")}
       [] p.at = "Fresh" /\ s.pair # 0 /\ ~Refreshes(o) -> {Error("unauth"), Step(After(p), "ok", s, FALSE)}
       [] p.at = "Fresh" /\ Refreshes(o) ->
            {Error("error"), Error("unauth")} \cup {a \in {Rotated} : op[o].reply # 0}
       [] p.at \in {"Validate", "Logout"} ->
            {Error("error"), IF p.again THEN Error("unauth") ELSE Step(Recover(p), "ok", s, FALSE)}
              \cup {a \in {Done} : s.pair # 0}
       [] p.at = "Revoke" -> {Error("error"), Error("unauth")} \cup {a \in {Done} : s.pair # 0}

LoggingOut(phase) == "Logout" \in {phase.at, phase.then}

SameTarget(o) == core.generation = op[o].generation

(* The replaced target's operation keeps what only it has.                 *)
LateOutcome(o, a) == CancelledWith(a.session)

(* Mutant: a rotation goes on to the next network action.                  *)
NeverStops(a) == a.next.at = "Complete"
Stops(a) == a.next.at = "Complete" \/ a.checkpoint

(* Others that waited at the gate while this pair was stored.              *)
Merge(o, ops, a) ==
  [x \in Ops |-> IF a.rotated /\ x # o /\ ops[x].at = "queued" THEN [ops[x] EXCEPT !.merged = TRUE] ELSE ops[x]]

(* drive_inner, under the lock again.                                      *)
Answer(o, a) ==
  /\ op[o].at = "calling" /\ a \in Answers(o)
  /\ LET own == IF a.rotated THEN [op EXCEPT ![o].unseen = a.session.pair] ELSE op
         base == Merge(o, [own EXCEPT ![o].finished = @ \/ a.next.at = "Complete"], a)
         kept == [core EXCEPT !.version = @ + (IF a.rotated THEN 1 ELSE 0), !.session = a.session]
     IN IF ~SameTarget(o)
        THEN /\ Returns(o, own, LateOutcome(o, a), TRUE)
             /\ UNCHANGED <<core, pending>>
        ELSE IF IF a.error = "ok" THEN op[o].cancel ELSE ~(LoggingOut(op[o].phase) /\ a.error = "unauth")
        THEN /\ core' = Failed(kept, IF a.error = "ok" THEN "cancelled" ELSE a.error)
             /\ pending' = Over(pending)
             /\ Returns(o, base, Result(core', pending'), TRUE)
        ELSE /\ core' = kept
             /\ pending' = [pending EXCEPT !.phase = IF a.error = "ok" THEN a.next ELSE Complete]
             /\ IF Stops(a) \/ a.error # "ok"
                THEN Returns(o, [base EXCEPT ![o].finished = @ \/ a.error # "ok"], Result(core', pending'), TRUE)
                ELSE op' = [base EXCEPT ![o].at = "driving"] /\ UNCHANGED gate
  /\ UNCHANGED <<issued, old>>

-----------------------------------------------------------------------------
(* cancel, and the token the host gave to start.                           *)
CancelOp(o) ==
  /\ op[o].at # "idle" /\ ~op[o].cancel
  /\ op' = [op EXCEPT ![o].cancel = TRUE]
  /\ UNCHANGED <<core, pending, gate, issued, old>>

SettledPending(o) ==
  IF pending.op # Nobody /\ op[pending.op].cancel /\ pending.phase.at # "Complete"
  THEN core' = Failed(core, "cancelled") /\ pending' = Over(pending)
  ELSE UNCHANGED <<core, pending>>

(* settled_outcome                                                         *)
Settle(o) ==
  /\ op[o].at = "returned" /\ op[o].cancel /\ gate = Nobody
  /\ SettledPending(o)
  /\ op' = [op EXCEPT ![o].at = "settled", ![o].out = Result(core', pending'), ![o].driven = FALSE]
  /\ UNCHANGED <<gate, issued, old>>

CancelPending == [o \in Ops |-> IF o = pending.op THEN [op[o] EXCEPT !.cancel = TRUE] ELSE op[o]]

(* activate: with a pair of the host's, or with none.                      *)
ActivateTarget(signed) ==
  /\ ~core.closed /\ core.target < MaxTargets /\ (signed => issued < MaxPairs)
  /\ issued' = IF signed THEN issued + 1 ELSE issued
  /\ core' = [core EXCEPT !.target = @ + 1, !.generation = @ + 1, !.version = @ + 1, !.suspended = FALSE,
                          !.error = "ok",
                          !.session = IF signed THEN [id |-> core.target + 1, pair |-> issued'] ELSE NoSession]
  /\ pending' = NoPending /\ op' = CancelPending
  /\ UNCHANGED <<gate, old>>

Stopped(closed) ==
  /\ core.generation < core.target + MaxStops
  /\ core' = [core EXCEPT !.suspended = TRUE, !.closed = closed, !.generation = @ + 1]
  /\ op' = CancelPending
  /\ UNCHANGED <<pending, gate, issued, old>>

SuspendCore == ~core.suspended /\ Stopped(FALSE)
CloseCore == ~core.closed /\ Stopped(TRUE)

(* Time passes: the access token is near its end.                          *)
Age ==
  /\ core.session.pair \notin old \cup {0} /\ Cardinality(old) < MaxAges
  /\ old' = old \cup {core.session.pair}
  /\ UNCHANGED <<core, pending, gate, op, issued>>

AccountNext ==
  \/ \E o \in Ops :
       \/ \E c \in Commands[o] : Call(o, c)
       \/ Begin(o) \/ Resume(o) \/ Enter(o) \/ Issue(o) \/ CancelOp(o) \/ Settle(o)
       \/ \E a \in Answers(o) : Answer(o, a)
  \/ \E signed \in BOOLEAN : ActivateTarget(signed)
  \/ SuspendCore \/ CloseCore \/ Age

AccountSpec == AccountInit /\ [][AccountNext]_avars

-----------------------------------------------------------------------------
(* The session that is kept is the current target's, whatever an operation *)
(* of a former target still brings.                                        *)
SessionOfTarget == core.session.id \in {0, core.target}

(* A drive returns its own target's session or none: the new target's      *)
(* credentials are not given to the old operation.                         *)
DriveIsolated ==
  \A o \in Ops : op[o].at = "returned" /\ op[o].driven => op[o].out.session.id \in {0, op[o].target}

(* When a call returns, by success, error or cancellation, the host has    *)
(* been given the newest pair the operation accepted.                      *)
RotationReturned ==
  \A o \in Ops : op[o].at = "returned" => op[o].unseen = 0

(* And it has it before the operation's next network action.               *)
CheckpointFirst ==
  \A o \in Ops : op[o].at = "calling" => op[o].unseen = 0

(* A server that keeps rejecting costs one forced refresh, not a loop.     *)
OneForcedRefresh == \A o \in Ops : op[o].forced <= 1

(* Forced maintenance that waited while another stored a new pair does not *)
(* refresh again until that pair is near its end.                          *)
NoSecondRefresh ==
  \A o \in Ops :
    op[o].merged /\ op[o].phase.at = "Fresh" /\ op[o].phase.then = "Complete" /\ op[o].reply # 0
      => op[o].session.pair \in old

(* Success without a checkpoint means the last network action was answered.*)
SuccessIsReal ==
  \A o \in Ops : op[o].at = "returned" /\ op[o].out.code = "ok" /\ ~op[o].out.checkpoint => op[o].finished

(* What blocks the next operation while nobody drives is either cancelled, *)
(* so that settling clears it, or a checkpoint its host knows of.          *)
NothingStuck ==
  gate = Nobody /\ pending.op # Nobody /\ pending.phase.at # "Complete"
    => op[pending.op].cancel \/ (op[pending.op].at = "returned" /\ op[pending.op].out.checkpoint)

(* Credentials stay with their target.                                     *)
Isolated == SessionOfTarget /\ DriveIsolated

(* No rotated pair is lost to its host.                                    *)
RotationKept == RotationReturned /\ CheckpointFirst

(* Nothing goes to another target, and nothing of its own is lost.         *)
AccountKept == Isolated /\ RotationKept

(* A session recovers, with one refresh, and its gate is never left shut.  *)
Recovers == OneForcedRefresh /\ NoSecondRefresh /\ SuccessIsReal /\ NothingStuck
=============================================================================
