---------------------------- MODULE ClientProofs -----------------------------
(***************************************************************************)
(* Proofs about the client libraries: the session core, the connection     *)
(* that carries its credentials, and the mobile client that changes its    *)
(* identity.                                                               *)
(***************************************************************************)
EXTENDS Account, Connection, Mobile, FiniteSetTheorems, TLAPS

(***************************************************************************)
(* Account: the session core.                                              *)
(***************************************************************************)

(* What the fields of the records range over.                              *)
Sessions == [id : Nat, pair : Nat]
Codes == {"none", "ok", "error", "unauth", "cancelled", "waiting"}
Outcomes == [code : Codes, session : Sessions, checkpoint : BOOLEAN]
CommandNames == {"login", "maintain", "force", "restore", "restoreForced", "logout", "revoke"}
PhaseNames == {"Login", "Fresh", "Validate", "Logout", "Revoke", "Complete"}

(* The phases of an operation: only a refresh is forced, and a forced one  *)
(* is either all there is or the answer to a rejection, which is noted.    *)
Phases ==
  {p \in [at : PhaseNames, force : BOOLEAN, then : {"Complete", "Validate", "Logout"}, again : BOOLEAN] :
     /\ p.force => p.at = "Fresh" /\ (p.then = "Complete" \/ p.again)
     /\ p.at # "Fresh" => p.then = "Complete"}

(* A phase from which no forced refresh comes any more.                    *)
Spent(p) == ~p.force /\ (p.at = "Complete" \/ (p.at \in {"Validate", "Logout"} /\ p.again))

Cores == [session : Sessions, target : Nat, generation : Nat, version : Nat,
          suspended : BOOLEAN, closed : BOOLEAN, error : Codes]
Pendings == [op : Ops \cup {0}, generation : Nat, phase : Phases]
OpRecords == [at : {"idle", "queued", "driving", "calling", "returned", "settled"},
              command : CommandNames \cup {"none"}, observed : Nat, generation : Nat, target : Nat,
              phase : Phases, session : Sessions, reply : Nat, cancel : BOOLEAN,
              out : Outcomes, driven : BOOLEAN, finished : BOOLEAN,
              unseen : Nat, forced : Nat, merged : BOOLEAN]

(* What the variables range over.                                          *)
AccountTypes ==
  /\ core \in Cores /\ pending \in Pendings /\ gate \in Ops \cup {0}
  /\ op \in [Ops -> OpRecords] /\ issued \in Nat

(* An operation that has not begun has no phase and has refreshed nothing; *)
(* one that waits while a pair is stored has seen an older version.        *)
OpWaits(o) ==
  /\ op[o].at \in {"idle", "queued"} => op[o].phase = Complete /\ op[o].reply = 0 /\ op[o].forced = 0
  /\ op[o].at = "idle" => ~op[o].merged
  /\ op[o].at = "queued" => /\ op[o].command \in CommandNames /\ op[o].observed <= core.version
                            /\ op[o].merged => op[o].observed < core.version

(* Who has the gate drives, and drives what is pending unless its target   *)
(* was replaced; what is pending began with the generation it names.       *)
Drives(o) ==
  /\ op[o].at \in {"driving", "calling"} <=> gate = o
  /\ op[o].generation <= core.generation
  /\ op[o].generation = core.generation => op[o].target = core.target
  /\ gate = o => pending.op \in {o, 0}
  /\ gate = o /\ op[o].generation = core.generation => pending.op = o
  /\ op[o].at = "calling" /\ pending.op = o => pending.phase = op[o].phase
  /\ pending.op = o => /\ op[o].at \notin {"idle", "queued"}
                       /\ pending.generation = op[o].generation
                       /\ op[o].generation # core.generation => op[o].cancel

(* A drive holds its own target's session and owes its host nothing.       *)
Owes(o) ==
  /\ op[o].at = "calling" => op[o].session.id \in {0, op[o].target}
  /\ op[o].at = "returned" /\ op[o].driven => op[o].out.session.id \in {0, op[o].target}
  /\ op[o].unseen = 0
  /\ op[o].at = "returned" /\ op[o].out.code = "ok" /\ ~op[o].out.checkpoint => op[o].finished

(* The operation is done with p, or can be resumed at a p of this kind.    *)
Resumable(o) == op[o].at \in {"driving", "calling"} \/ (op[o].at = "returned" /\ op[o].out.checkpoint)

(* Once an operation has forced a refresh, it is at its answer or beyond.  *)
Forces(o) ==
  /\ op[o].forced \in {0, 1}
  /\ op[o].at = "calling" /\ op[o].forced = 1 => Spent(op[o].phase) \/ (op[o].phase.force /\ op[o].reply # 0)
  /\ pending.op = o /\ op[o].forced = 1 /\ Resumable(o) /\ op[o].at # "calling" => Spent(pending.phase)

(* One that waited while a pair was stored does not force another.         *)
Merges(o) ==
  /\ op[o].merged /\ op[o].phase.at = "Fresh" /\ op[o].phase.then = "Complete"
       => ~op[o].phase.force /\ (op[o].reply # 0 => op[o].session.pair \in old)
  /\ op[o].merged /\ pending.op = o /\ pending.phase.at = "Fresh" /\ pending.phase.then = "Complete"
       => ~pending.phase.force

(* What is true of each operation, whatever the others do.                 *)
OpHolds(o) == OpWaits(o) /\ Drives(o) /\ Owes(o) /\ Forces(o) /\ Merges(o)

(* What is true of the core.                                               *)
CoreHolds ==
  /\ SessionOfTarget
  /\ core.generation = 0 => core.target = 0
  /\ gate # Nobody => core.error = "ok"

(* The inductive invariant of the session core.                            *)
AccountInv == AccountTypes /\ (\A o \in Ops : OpHolds(o)) /\ CoreHolds /\ NothingStuck

-----------------------------------------------------------------------------

(* What the next phases are: after a forced refresh no other one comes.    *)
LEMMA PhasesAre ==
  /\ Complete \in Phases /\ Spent(Complete) /\ Complete.at = "Complete" /\ ~Complete.force
  /\ \A p \in Phases : p.at = "Fresh" => /\ After(p) \in Phases /\ ~After(p).force /\ After(p).at # "Fresh"
                                         /\ p.force => Spent(After(p))
  /\ \A p \in Phases : p.at \in {"Validate", "Logout"} => /\ Recover(p) \in Phases /\ Recover(p).at = "Fresh"
                                                          /\ Recover(p).then # "Complete"
PROOF
<1>1. Complete \in Phases /\ Spent(Complete) /\ Complete.at = "Complete" /\ ~Complete.force
  BY DEF Complete, Phase, Phases, PhaseNames, Spent
<1>2. ASSUME NEW p \in Phases, p.at = "Fresh"
      PROVE  After(p) \in Phases /\ ~After(p).force /\ After(p).at # "Fresh" /\ (p.force => Spent(After(p)))
  BY <1>2 DEF After, Phase, Phases, PhaseNames, Spent
<1>3. ASSUME NEW p \in Phases, p.at \in {"Validate", "Logout"}
      PROVE  Recover(p) \in Phases /\ Recover(p).at = "Fresh" /\ Recover(p).then # "Complete"
  BY <1>3 DEF Recover, Phase, Phases, PhaseNames
<1> QED
  BY <1>1, <1>2, <1>3

(* Every command begins with one of the phases.                            *)
LEMMA CommandsBegin == \A c \in CommandNames : Command[c] \in Phases
PROOF
<1>1. Command["login"] \in Phases /\ Command["maintain"] \in Phases /\ Command["force"] \in Phases
  BY DEF Command, Phase, Phases, PhaseNames
<1>2. Command["restore"] \in Phases /\ Command["restoreForced"] \in Phases
  BY DEF Command, Phase, Phases, PhaseNames
<1>3. Command["logout"] \in Phases /\ Command["revoke"] \in Phases
  BY DEF Command, Phase, Phases, PhaseNames
<1> QED
  BY <1>1, <1>2, <1>3 DEF CommandNames

(* An operation that was not called is an operation.                       *)
LEMMA NoOpIs ==
  /\ NoOp \in OpRecords /\ NoOp.at = "idle" /\ NoOp.phase = Complete /\ NoOp.reply = 0 /\ NoOp.forced = 0
  /\ ~NoOp.merged /\ NoOp.generation = 0 /\ NoOp.target = 0 /\ NoOp.unseen = 0
PROOF
  BY PhasesAre DEF NoOp, OpRecords, NoSession, Sessions, NoOutcome, Outcomes, Codes

(* A core without a target satisfies the invariant.                        *)
LEMMA AccountStarts == AccountInit => AccountInv
PROOF
<1> SUFFICES ASSUME AccountInit PROVE AccountInv
  OBVIOUS
<1>1. core \in Cores /\ core.session.id = 0 /\ core.target = 0 /\ core.generation = 0
  BY DEF AccountInit, Cores, NoSession, Sessions, Codes
<1>2. pending \in Pendings /\ pending.op = 0
  BY PhasesAre DEF AccountInit, NoPending, Nobody, Pendings
<1>3. gate = 0 /\ issued = 0 /\ \A o \in Ops : op[o] = NoOp /\ o # 0
  BY AccountAssumption DEF AccountInit, Nobody
<1>4. op \in [Ops -> OpRecords]
  BY NoOpIs DEF AccountInit
<1>5. ASSUME NEW o \in Ops PROVE OpHolds(o)
  BY <1>1, <1>2, <1>3, NoOpIs, PhasesAre DEF OpHolds, OpWaits, Drives, Owes, Forces, Merges
<1>6. CoreHolds /\ NothingStuck
  BY <1>1, <1>2, <1>3 DEF CoreHolds, NothingStuck, SessionOfTarget, Nobody
<1> QED
  BY <1>1, <1>2, <1>3, <1>4, <1>5, <1>6 DEF AccountInv, AccountTypes

(* What a step of one operation leaves of the others.                      *)
LEMMA OthersKeep ==
  ASSUME AccountInv, NEW o \in Ops, NEW x \in Ops, x # o,
         gate \in {0, o}, gate' \in {0, o},
         core'.generation = core.generation, core'.target = core.target,
         core' \in Cores, core'.version >= core.version, old \subseteq old',
         \/ op'[x] = op[x]
         \/ op[x].at = "queued" /\ core'.version > core.version /\ op'[x] = [op[x] EXCEPT !.merged = TRUE],
         pending'.op \in {pending.op, o},
         pending'.op = x => pending'.generation = pending.generation /\ pending'.phase \in {pending.phase, Complete}
  PROVE  OpHolds(x)'
PROOF
<1>1. op[x] \in OpRecords /\ OpHolds(x) /\ x # 0 /\ core \in Cores
  BY AccountAssumption DEF AccountInv, AccountTypes
<1>2. CASE op'[x] = op[x]
  <2>1. OpWaits(x)' /\ Owes(x)'
    <3>1. OpWaits(x) /\ Owes(x) BY <1>1 DEF OpHolds
    <3>2. core.version \in Nat /\ core'.version \in Nat /\ op[x].observed \in Nat BY <1>1 DEF Cores, OpRecords
    <3> QED BY <3>1, <3>2, <1>2 DEF OpWaits, Owes
  <2>2. Drives(x)'
    BY <1>1, <1>2 DEF OpHolds, Drives
  <2>3. op[x].at # "calling"
    BY <1>1 DEF OpHolds, Drives
  <2>4. Forces(x)' /\ Merges(x)'
    BY <1>1, <1>2, <2>3, PhasesAre DEF OpHolds, Forces, Merges, Resumable
  <2> QED BY <2>1, <2>2, <2>4 DEF OpHolds
<1>3. CASE op[x].at = "queued" /\ core'.version > core.version /\ op'[x] = [op[x] EXCEPT !.merged = TRUE]
  <2> DEFINE k == [op[x] EXCEPT !.merged = TRUE]
  <2>1. /\ k.at = "queued" /\ k.phase = op[x].phase /\ k.reply = op[x].reply /\ k.forced = op[x].forced
        /\ k.command = op[x].command /\ k.observed = op[x].observed /\ k.generation = op[x].generation
        /\ k.target = op[x].target /\ k.unseen = op[x].unseen
    BY <1>1, <1>3 DEF OpRecords
  <2>2. op'[x] = k
    BY <1>3
  <2> HIDE DEF k
  <2>3. core.version \in Nat /\ core'.version \in Nat /\ op[x].observed \in Nat
    BY <1>1 DEF Cores, OpRecords
  <2>4. OpWaits(x)'
    BY <1>1, <1>3, <2>1, <2>2, <2>3 DEF OpHolds, OpWaits
  <2>5. pending.op # x /\ pending'.op # x
    BY <1>1, <1>3 DEF OpHolds, Drives
  <2>6. Drives(x)'
    BY <1>1, <1>3, <2>1, <2>2, <2>5 DEF OpHolds, Drives
  <2>7. Owes(x)' /\ Forces(x)' /\ Merges(x)'
    BY <1>1, <1>3, <2>1, <2>2, <2>5, PhasesAre DEF OpHolds, OpWaits, Owes, Forces, Merges
  <2> QED BY <2>4, <2>6, <2>7 DEF OpHolds
<1> QED
  BY <1>2, <1>3

(* What a call that returns has.                                           *)
LEMMA ReturnedIs ==
  ASSUME NEW r \in OpRecords, NEW out \in Outcomes, NEW d \in BOOLEAN
  PROVE  LET k == AsReturned(r, out, d) IN
         /\ k \in OpRecords /\ k.at = "returned" /\ k.out = out /\ k.driven = d /\ k.phase = Complete /\ ~k.merged
         /\ k.generation = r.generation /\ k.target = r.target /\ k.cancel = r.cancel /\ k.finished = r.finished
         /\ k.forced = r.forced /\ k.reply = 0
         /\ r.unseen = 0 \/ out.session = [id |-> r.target, pair |-> r.unseen] => k.unseen = 0
PROOF
<1> DEFINE u == IF out.session = [id |-> r.target, pair |-> r.unseen] THEN 0 ELSE r.unseen
<1>1. u \in Nat /\ (r.unseen = 0 \/ out.session = [id |-> r.target, pair |-> r.unseen] => u = 0)
  BY DEF OpRecords
<1>2. NoSession \in Sessions /\ Complete \in Phases
  BY PhasesAre DEF NoSession, Sessions
<1>3. AsReturned(r, out, d) =
        [r EXCEPT !.at = "returned", !.out = out, !.driven = d, !.unseen = u, !.command = "none", !.observed = 0,
                  !.phase = Complete, !.session = NoSession, !.reply = 0, !.merged = FALSE]
  BY DEF AsReturned
<1> DEFINE k == AsReturned(r, out, d)
<1> HIDE DEF u
<1>4. k \in OpRecords
  <2>1. u \in Nat BY <1>1
  <2>2. [r EXCEPT !.at = "returned", !.out = out, !.driven = d, !.unseen = u, !.command = "none", !.observed = 0,
                  !.phase = Complete, !.session = NoSession, !.reply = 0, !.merged = FALSE] \in OpRecords
    BY <1>2, <2>1 DEF OpRecords
  <2> QED BY <2>2, <1>3
<1>5. /\ k.at = "returned" /\ k.out = out /\ k.driven = d /\ k.phase = Complete /\ k.merged = FALSE
      /\ k.reply = 0 /\ k.unseen = u
  BY <1>3 DEF OpRecords
<1>6. /\ k.generation = r.generation /\ k.target = r.target /\ k.cancel = r.cancel /\ k.finished = r.finished
      /\ k.forced = r.forced
  BY <1>3 DEF OpRecords
<1> HIDE DEF k
<1>7. /\ k \in OpRecords /\ k.at = "returned" /\ k.out = out /\ k.driven = d /\ k.phase = Complete /\ ~k.merged
      /\ k.generation = r.generation /\ k.target = r.target /\ k.cancel = r.cancel /\ k.finished = r.finished
      /\ k.forced = r.forced /\ k.reply = 0
      /\ r.unseen = 0 \/ out.session = [id |-> r.target, pair |-> r.unseen] => k.unseen = 0
  BY <1>1, <1>4, <1>5, <1>6
<1> QED
  BY <1>7 DEF k

(* What an answer may be.                                                  *)
LEMMA AnswersAre ==
  ASSUME AccountInv, NEW o \in Ops, NEW a \in Answers(o)
  PROVE  LET p == op[o].phase  s == op[o].session IN
         \/ /\ a = Step(IF p.at = "Login" THEN Complete ELSE After(p), "ok",
                        [id |-> op[o].target, pair |-> op[o].reply], TRUE)
            /\ op[o].reply # 0 /\ (p.at = "Login" \/ (p.at = "Fresh" /\ Refreshes(o)))
         \/ a = Step(Complete, "ok", s, FALSE)
         \/ a = Step(p, "error", s, FALSE) \/ a = Step(p, "unauth", s, FALSE)
         \/ a = Step(After(p), "ok", s, FALSE) /\ p.at = "Fresh" /\ s.pair # 0 /\ ~Refreshes(o)
         \/ a = Step(Recover(p), "ok", s, FALSE) /\ p.at \in {"Validate", "Logout"} /\ ~p.again
PROOF
<1> DEFINE p == op[o].phase
           s == op[o].session
           R == Step(IF p.at = "Login" THEN Complete ELSE After(p), "ok",
                     [id |-> op[o].target, pair |-> op[o].reply], TRUE)
           D == Step(Complete, "ok", s, FALSE)
           E1 == Step(p, "error", s, FALSE)
           E2 == Step(p, "unauth", s, FALSE)
           F == Step(After(p), "ok", s, FALSE)
           C == Step(Recover(p), "ok", s, FALSE)
<1>1. p \in Phases
  BY DEF AccountInv, AccountTypes, OpRecords
<1>2. p.at \in PhaseNames
  BY <1>1 DEF Phases
<1>3. Answers(o) =
        CASE p.at = "Complete" -> {D}
          [] p.at = "Login" -> {E1} \cup {x \in {R} : op[o].reply # 0}
          [] p.at = "Fresh" /\ s.pair = 0 -> {E2}
          [] p.at = "Fresh" /\ s.pair # 0 /\ ~Refreshes(o) -> {E2, F}
          [] p.at = "Fresh" /\ Refreshes(o) -> {E1, E2} \cup {x \in {R} : op[o].reply # 0}
          [] p.at \in {"Validate", "Logout"} -> {E1, IF p.again THEN E2 ELSE C} \cup {x \in {D} : s.pair # 0}
          [] p.at = "Revoke" -> {E1, E2} \cup {x \in {D} : s.pair # 0}
  BY DEF Answers
<1>4. Refreshes(o) => s.pair # 0
  BY DEF Refreshes
<1> HIDE DEF R, D, E1, E2, F, C
<1>5. CASE p.at = "Complete"
  <2>1. a = D BY <1>3, <1>5
  <2> QED BY <2>1 DEF D
<1>6. CASE p.at = "Login"
  <2>1. a = E1 \/ (a = R /\ op[o].reply # 0) BY <1>3, <1>6
  <2> QED BY <2>1, <1>6 DEF E1, R
<1>7. CASE p.at = "Fresh"
  <2>1. CASE s.pair = 0
    <3>1. a = E2 BY <1>3, <1>7, <1>4, <2>1
    <3> QED BY <3>1 DEF E2
  <2>2. CASE s.pair # 0 /\ ~Refreshes(o)
    <3>1. a = E2 \/ a = F BY <1>3, <1>7, <2>2
    <3> QED BY <3>1, <1>7, <2>2 DEF E2, F
  <2>3. CASE Refreshes(o)
    <3>1. a = E1 \/ a = E2 \/ (a = R /\ op[o].reply # 0) BY <1>3, <1>7, <1>4, <2>3
    <3> QED BY <3>1, <1>7, <2>3 DEF E1, E2, R
  <2> QED BY <2>1, <2>2, <2>3
<1>8. CASE p.at \in {"Validate", "Logout"}
  <2>1. a = E1 \/ a = D \/ a = (IF p.again THEN E2 ELSE C) BY <1>3, <1>8
  <2> QED BY <2>1, <1>8 DEF E1, D, E2, C
<1>9. CASE p.at = "Revoke"
  <2>1. a = E1 \/ a = E2 \/ a = D BY <1>3, <1>9
  <2> QED BY <2>1 DEF E1, E2, D
<1> QED
  BY <1>2, <1>5, <1>6, <1>7, <1>8, <1>9 DEF PhaseNames

(* What the drive needs to know of it.                                     *)
LEMMA AnswerShape ==
  ASSUME AccountInv, NEW o \in Ops, NEW a \in Answers(o), op[o].at = "calling"
  PROVE  /\ a.next \in Phases /\ a.error \in {"ok", "error", "unauth"} /\ a.session \in Sessions
         /\ a.rotated \in BOOLEAN /\ a.checkpoint = (a.rotated /\ a.next.at # "Complete")
         /\ a.session.id \in {0, op[o].target}
         /\ a.rotated => a.error = "ok" /\ a.session = [id |-> op[o].target, pair |-> op[o].reply]
         /\ a.error = "ok" /\ (op[o].forced = 1) => Spent(a.next)
         /\ a.error = "ok" /\ a.next.at = "Fresh" => a.next.then # "Complete"
PROOF
<1> DEFINE p == op[o].phase
           s == op[o].session
<1>1. p \in Phases /\ s \in Sessions /\ op[o].target \in Nat /\ op[o].reply \in Nat
      /\ s.id \in {0, op[o].target}
      /\ (op[o].forced = 1 => Spent(p) \/ (p.force /\ op[o].reply # 0))
  BY DEF AccountInv, AccountTypes, OpRecords, OpHolds, Owes, Forces
<1>2. CASE /\ a = Step(IF p.at = "Login" THEN Complete ELSE After(p), "ok",
                       [id |-> op[o].target, pair |-> op[o].reply], TRUE)
           /\ op[o].reply # 0 /\ (p.at = "Login" \/ (p.at = "Fresh" /\ Refreshes(o)))
  <2> DEFINE n == IF p.at = "Login" THEN Complete ELSE After(p)
             t == [id |-> op[o].target, pair |-> op[o].reply]
  <2>1. t \in Sessions /\ t.id = op[o].target
    BY <1>1 DEF Sessions
  <2>2. n \in Phases /\ n.at # "Fresh" /\ (op[o].forced = 1 => Spent(n))
    BY <1>1, <1>2, PhasesAre DEF Spent
  <2>3. a = Step(n, "ok", t, TRUE) BY <1>2
  <2>4. /\ a.next = n /\ a.error = "ok" /\ a.session = t /\ a.rotated = TRUE
        /\ a.checkpoint = (TRUE /\ n.at # "Complete")
    BY <2>3 DEF Step
  <2> HIDE DEF n
  <2> QED BY <2>1, <2>2, <2>4
<1>3. ASSUME NEW n \in Phases, NEW e \in {"ok", "error", "unauth"}, a = Step(n, e, s, FALSE),
             e = "ok" => n.at # "Fresh" \/ n.then # "Complete", e = "ok" /\ op[o].forced = 1 => Spent(n)
      PROVE  /\ a.next \in Phases /\ a.error \in {"ok", "error", "unauth"} /\ a.session \in Sessions
             /\ a.rotated \in BOOLEAN /\ a.checkpoint = (a.rotated /\ a.next.at # "Complete")
             /\ a.session.id \in {0, op[o].target}
             /\ a.rotated => a.error = "ok" /\ a.session = [id |-> op[o].target, pair |-> op[o].reply]
             /\ a.error = "ok" /\ (op[o].forced = 1) => Spent(a.next)
             /\ a.error = "ok" /\ a.next.at = "Fresh" => a.next.then # "Complete"
  <2>1. /\ a.next = n /\ a.error = e /\ a.session = s /\ a.rotated = FALSE
        /\ a.checkpoint = (FALSE /\ n.at # "Complete")
    BY <1>3 DEF Step
  <2> QED BY <2>1, <1>1, <1>3
<1>4. CASE a = Step(Complete, "ok", s, FALSE)
  BY <1>3, <1>4, PhasesAre
<1>5. CASE a = Step(p, "error", s, FALSE) \/ a = Step(p, "unauth", s, FALSE)
  BY <1>1, <1>3, <1>5
<1>6. CASE a = Step(After(p), "ok", s, FALSE) /\ p.at = "Fresh" /\ s.pair # 0 /\ ~Refreshes(o)
  <2>1. ~p.force
    BY <1>6 DEF Refreshes
  <2>2. op[o].forced # 1
    BY <2>1, <1>1, <1>6 DEF Spent
  <2> QED BY <1>1, <1>3, <1>6, <2>2, PhasesAre
<1>7. CASE a = Step(Recover(p), "ok", s, FALSE) /\ p.at \in {"Validate", "Logout"} /\ ~p.again
  <2>1. ~p.force
    BY <1>1, <1>7 DEF Phases
  <2>2. op[o].forced # 1
    BY <2>1, <1>1, <1>7 DEF Spent
  <2> QED BY <1>1, <1>3, <1>7, <2>2, PhasesAre
<1> QED
  BY <1>2, <1>4, <1>5, <1>6, <1>7, AnswersAre

-----------------------------------------------------------------------------
(* A call that returns keeps everything: b is the operations as it found   *)
(* them, out what its caller gets.                                         *)
LEMMA ReturnKeeps ==
  ASSUME AccountInv, NEW o \in Ops, gate \in {0, o}, op[o].at # "idle",
         NEW b \in [Ops -> OpRecords], NEW out \in Outcomes, NEW d \in BOOLEAN, Returns(o, b, out, d),
         b[o].generation = op[o].generation, b[o].target = op[o].target, b[o].cancel = op[o].cancel,
         b[o].forced = op[o].forced,
         \A x \in Ops \ {o} : \/ b[x] = op[x]
                              \/ op[x].at = "queued" /\ core'.version > core.version /\ b[x] = [op[x] EXCEPT !.merged = TRUE],
         core' \in Cores, core'.generation = core.generation, core'.target = core.target,
         core'.version >= core.version, core'.session.id \in {0, core.target},
         pending' \in Pendings, pending'.op = pending.op, pending'.generation = pending.generation,
         pending.op # o => pending'.phase \in {pending.phase, Complete},
         b[o].unseen = 0 \/ out.session = [id |-> b[o].target, pair |-> b[o].unseen],
         d => out.session.id \in {0, op[o].target},
         out.code = "ok" /\ ~out.checkpoint => b[o].finished,
         op[o].forced = 1 /\ pending.op = o /\ out.checkpoint => Spent(pending'.phase),
         pending.op = o => op[o].at # "queued",
         pending.op = o => pending'.phase.at = "Complete" \/ op[o].cancel \/ out.checkpoint,
         UNCHANGED <<issued, old>>
  PROVE  AccountInv'
PROOF
<1> DEFINE k == AsReturned(b[o], out, d)
<1>1. /\ op \in [Ops -> OpRecords] /\ o # 0 /\ OpHolds(o) /\ op[o].forced \in {0, 1}
  BY AccountAssumption DEF AccountInv, AccountTypes, OpHolds, Forces
<1>2. /\ k \in OpRecords /\ k.at = "returned" /\ k.out = out /\ k.driven = d /\ k.phase = Complete /\ ~k.merged
      /\ k.generation = op[o].generation /\ k.target = op[o].target /\ k.cancel = op[o].cancel
      /\ k.finished = b[o].finished /\ k.forced = op[o].forced /\ k.unseen = 0
  BY ReturnedIs
<1>3. op' = [b EXCEPT ![o] = k] /\ gate' = 0
  BY DEF Returns, Nobody
<1> HIDE DEF k
<1>4. op' \in [Ops -> OpRecords] /\ op'[o] = k /\ \A x \in Ops \ {o} : op'[x] = b[x]
  BY <1>2, <1>3
<1>5. AccountTypes'
  BY <1>3, <1>4 DEF AccountInv, AccountTypes
<1>6. ASSUME NEW x \in Ops, x # o PROVE OpHolds(x)'
  <2>1. \/ op'[x] = op[x]
        \/ op[x].at = "queued" /\ core'.version > core.version /\ op'[x] = [op[x] EXCEPT !.merged = TRUE]
    BY <1>4, <1>6
  <2>2. pending'.op = x => pending'.generation = pending.generation /\ pending'.phase \in {pending.phase, Complete}
    BY <1>6
  <2> QED BY <1>3, <1>6, <2>1, <2>2, OthersKeep
<1>7. OpHolds(o)'
  <2>1. OpWaits(o)' /\ Owes(o)'
    BY <1>2, <1>4 DEF OpWaits, Owes
  <2>2. Drives(o)'
    BY <1>1, <1>2, <1>3, <1>4 DEF OpHolds, Drives
  <2>3. Forces(o)' /\ Merges(o)'
    BY <1>1, <1>2, <1>4 DEF Forces, Merges, Resumable
  <2> QED BY <2>1, <2>2, <2>3 DEF OpHolds
<1>8. CoreHolds'
  BY <1>3 DEF AccountInv, CoreHolds, SessionOfTarget, Nobody
<1>9. NothingStuck'
  <2> SUFFICES ASSUME pending'.op # 0, pending'.phase.at # "Complete"
               PROVE  op'[pending'.op].cancel \/ (op'[pending'.op].at = "returned" /\ op'[pending'.op].out.checkpoint)
    BY DEF NothingStuck, Nobody
  <2>1. CASE pending.op = o
    BY <1>2, <1>4, <2>1
  <2>2. CASE pending.op # o
    <3> PICK x \in Ops : x = pending.op
      BY DEF Pendings
    <3>1. x = pending'.op /\ x # o BY <2>2
    <3>2. gate = 0 /\ pending.phase.at # "Complete"
      BY <1>1, <2>2, PhasesAre DEF OpHolds, Drives
    <3>3. op[x].cancel \/ (op[x].at = "returned" /\ op[x].out.checkpoint)
      BY <3>2 DEF AccountInv, NothingStuck, Nobody
    <3>4. op[x].at # "queued"
      BY <3>1 DEF AccountInv, OpHolds, Drives
    <3>5. op'[x] = op[x]
      BY <3>1, <3>4, <1>4
    <3> QED BY <3>1, <3>3, <3>5
  <2> QED BY <2>1, <2>2
<1> QED
  BY <1>5, <1>6, <1>7, <1>8, <1>9 DEF AccountInv

(* A drive that fails leaves nothing pending.                              *)
LEMMA FailKeeps ==
  ASSUME AccountInv, NEW o \in Ops, gate \in {0, o}, op[o].at # "idle",
         NEW e \in {"error", "unauth", "cancelled"}, NEW d \in BOOLEAN,
         d => op[o].generation = core.generation, pending.op = o => op[o].at # "queued",
         Fails(o, e, d), UNCHANGED <<issued, old>>
  PROVE  AccountInv'
PROOF
<1>1. /\ core \in Cores /\ pending \in Pendings /\ op \in [Ops -> OpRecords] /\ OpHolds(o)
      /\ core.session.id \in {0, core.target}
  BY DEF AccountInv, AccountTypes, CoreHolds, SessionOfTarget
<1>2. /\ core' \in Cores /\ core'.generation = core.generation /\ core'.target = core.target
      /\ core'.version = core.version /\ core'.session = core.session /\ core'.error = e
  BY <1>1 DEF Fails, Failed, Cores, Codes
<1>3. /\ pending' \in Pendings /\ pending'.op = pending.op /\ pending'.generation = pending.generation
      /\ pending'.phase = Complete /\ pending'.phase.at = "Complete"
  BY <1>1, PhasesAre DEF Fails, Over, Pendings
<1> DEFINE out == Result(core', pending')
<1>4. out \in Outcomes /\ out.code = e /\ ~out.checkpoint /\ out.session = core.session
  BY <1>1, <1>2, <1>3 DEF Result, Outcomes, Codes, Cores
<1>5. Returns(o, op, out, d)
  BY DEF Fails
<1> HIDE DEF out
<1>6. d => out.session.id \in {0, op[o].target}
  BY <1>1, <1>4 DEF OpHolds, Drives
<1>7. core'.version >= core.version
  BY <1>1, <1>2 DEF Cores
<1>8. op[o].unseen = 0
  BY <1>1 DEF OpHolds, Owes
<1> QED
  BY <1>1, <1>2, <1>3, <1>4, <1>5, <1>6, <1>7, <1>8, ReturnKeeps

(* A step inside a drive, or up to it.                                     *)
LEMMA DriveKeeps ==
  ASSUME AccountInv, NEW o \in Ops, gate \in {0, o}, gate' = o,
         NEW k \in OpRecords, op' = [op EXCEPT ![o] = k],
         core' \in Cores, core'.generation = core.generation, core'.target = core.target,
         core'.version >= core.version, core'.session.id \in {0, core.target}, core'.error = "ok",
         pending' \in Pendings, pending'.op \in {pending.op, o},
         pending.op # o /\ pending'.op # o => pending' = pending,
         issued' \in Nat, old' = old, OpHolds(o)'
  PROVE  AccountInv'
PROOF
<1>1. op' \in [Ops -> OpRecords] /\ \A x \in Ops : x # o => op'[x] = op[x]
  BY DEF AccountInv, AccountTypes
<1>2. AccountTypes'
  BY <1>1 DEF AccountInv, AccountTypes
<1>3. ASSUME NEW x \in Ops, x # o PROVE OpHolds(x)'
  <2>1. pending'.op = x => pending'.generation = pending.generation /\ pending'.phase \in {pending.phase, Complete}
    BY <1>3
  <2> QED BY <1>1, <1>3, <2>1, OthersKeep
<1>4. CoreHolds'
  BY AccountAssumption DEF AccountInv, CoreHolds, SessionOfTarget
<1>5. NothingStuck'
  BY AccountAssumption DEF NothingStuck, Nobody
<1> QED
  BY <1>2, <1>3, <1>4, <1>5 DEF AccountInv

(* A call that is queued remembers the version it saw.                     *)
LEMMA AccountCallKeeps ==
  ASSUME AccountInv, NEW o \in Ops, NEW c \in CommandNames, Call(o, c) PROVE AccountInv'
PROOF
<1> DEFINE k == [op[o] EXCEPT !.at = "queued", !.command = c, !.observed = core.version]
<1>1. /\ core \in Cores /\ op \in [Ops -> OpRecords] /\ op[o] \in OpRecords /\ OpHolds(o) /\ core.version \in Nat
  BY DEF AccountInv, AccountTypes, Cores
<1>2. op' = [op EXCEPT ![o] = k] /\ UNCHANGED <<core, pending, gate, issued, old>> /\ op[o].at = "idle"
  BY <1>1 DEF Call
<1>3. /\ k \in OpRecords /\ k.at = "queued" /\ k.command = c /\ k.observed = core.version /\ k.phase = op[o].phase
      /\ k.reply = op[o].reply /\ k.forced = op[o].forced /\ k.merged = op[o].merged
      /\ k.generation = op[o].generation /\ k.target = op[o].target /\ k.unseen = op[o].unseen
  BY <1>1 DEF OpRecords
<1> HIDE DEF k
<1>4. op' \in [Ops -> OpRecords] /\ op'[o] = k /\ \A x \in Ops : x # o => op'[x] = op[x]
  BY <1>1, <1>2, <1>3
<1>5. ASSUME NEW x \in Ops PROVE OpHolds(x)'
  <2>1. CASE x = o
    BY <1>1, <1>2, <1>3, <1>4, <2>1, PhasesAre DEF OpHolds, OpWaits, Drives, Owes, Forces, Merges, Resumable
  <2>2. CASE x # o
    <3>1. OpHolds(x) /\ op'[x] = op[x] BY <1>4, <2>2 DEF AccountInv
    <3> QED BY <3>1, <1>2 DEF OpHolds, OpWaits, Drives, Owes, Forces, Merges, Resumable
  <2> QED BY <2>1, <2>2
<1>6. CoreHolds'
  BY <1>2 DEF AccountInv, CoreHolds, SessionOfTarget
<1>7. NothingStuck'
  <2>1. pending.op # o BY <1>1, <1>2 DEF OpHolds, Drives
  <2>2. pending.op \in Ops \cup {0} BY DEF AccountInv, AccountTypes, Pendings
  <2> QED BY <1>2, <1>4, <2>1, <2>2 DEF AccountInv, NothingStuck, Nobody
<1> QED
  BY <1>2, <1>4, <1>5, <1>6, <1>7 DEF AccountInv, AccountTypes

(* A call that takes its turn fails, waits, or drives what is pending now. *)
LEMMA BeginKeeps == ASSUME AccountInv, NEW o \in Ops, Begin(o) PROVE AccountInv'
PROOF
<1>1. /\ core \in Cores /\ pending \in Pendings /\ op \in [Ops -> OpRecords] /\ op[o] \in OpRecords /\ OpHolds(o)
      /\ core.session.id \in {0, core.target} /\ op[o].at = "queued" /\ gate = 0 /\ UNCHANGED <<issued, old>>
      /\ issued \in Nat
  BY DEF AccountInv, AccountTypes, CoreHolds, SessionOfTarget, Begin, Nobody
<1>2. pending.op # o
  BY <1>1 DEF OpHolds, Drives
<1>3. CASE core.closed \/ core.suspended
  <2>1. Fails(o, "error", FALSE) BY <1>3 DEF Begin
  <2> QED BY <1>1, <1>2, <2>1, FailKeeps
<1>4. CASE ~(core.closed \/ core.suspended) /\ pending.phase.at # "Complete"
  <2> DEFINE out == [Result(core, pending) EXCEPT !.code = "waiting"]
  <2>1. Returns(o, op, out, FALSE) /\ UNCHANGED <<core, pending>>
    BY <1>4 DEF Begin
  <2>2. Result(core, pending) \in Outcomes
    BY <1>1 DEF Result, Outcomes, Cores
  <2>3. out \in Outcomes /\ out.code = "waiting"
    BY <2>2 DEF Outcomes, Codes
  <2> HIDE DEF out
  <2>4. op[o].unseen = 0 BY <1>1 DEF OpHolds, Owes
  <2>5. core.version >= core.version BY <1>1 DEF Cores
  <2> QED BY <1>1, <1>2, <2>1, <2>3, <2>4, <2>5, ReturnKeeps
<1>5. CASE ~(core.closed \/ core.suspended) /\ pending.phase.at = "Complete"
  <2> DEFINE f == First(o)
             k == [op[o] EXCEPT !.at = "driving", !.generation = core.generation,
                                !.target = core.target, !.command = "none", !.observed = 0]
  <2>1. /\ pending' = [op |-> o, generation |-> core.generation, phase |-> f]
        /\ core' = [core EXCEPT !.error = "ok"] /\ gate' = o /\ op' = [op EXCEPT ![o] = k]
    BY <1>1, <1>5 DEF Begin
  <2>2. f \in Phases /\ (op[o].merged => ~f.force)
    <3> DEFINE c == Command[op[o].command]
               b == c.force /\ core.version = op[o].observed
    <3>1. op[o].command \in CommandNames /\ (op[o].merged => op[o].observed < core.version)
      BY <1>1 DEF OpHolds, OpWaits
    <3>2. c \in Phases BY <3>1, CommandsBegin
    <3>3. core.version \in Nat /\ op[o].observed \in Nat BY <1>1 DEF Cores, OpRecords
    <3>4. b \in BOOLEAN /\ (b => c.force) /\ (op[o].merged => ~b)
      BY <3>1, <3>2, <3>3
    <3>5. f = [c EXCEPT !.force = b] BY DEF First
    <3> HIDE DEF c, b
    <3>6. [c EXCEPT !.force = b] \in Phases /\ [c EXCEPT !.force = b].force = b
      BY <3>2, <3>4 DEF Phases
    <3> QED BY <3>4, <3>5, <3>6
  <2> HIDE DEF f
  <2>3. /\ core' \in Cores /\ core'.generation = core.generation /\ core'.target = core.target
        /\ core'.version = core.version /\ core'.session = core.session /\ core'.error = "ok"
    BY <1>1, <2>1 DEF Cores, Codes
  <2>4. pending' \in Pendings /\ pending'.op = o /\ pending'.generation = core.generation /\ pending'.phase = f
    BY <1>1, <2>1, <2>2 DEF Pendings, Cores
  <2>5. /\ k \in OpRecords /\ k.at = "driving" /\ k.generation = core.generation /\ k.target = core.target
        /\ k.phase = op[o].phase /\ k.reply = op[o].reply /\ k.forced = op[o].forced /\ k.merged = op[o].merged
        /\ k.unseen = op[o].unseen
    BY <1>1 DEF OpRecords, Cores
  <2> HIDE DEF k
  <2>6. op'[o] = k
    BY <1>1, <2>1, <2>5
  <2>7. core.version >= core.version /\ core.generation \in Nat
    BY <1>1 DEF Cores
  <2>8. OpHolds(o)'
    <3>1. OpWaits(o)' /\ Owes(o)' BY <1>1, <2>5, <2>6 DEF OpHolds, OpWaits, Owes
    <3>2. Drives(o)' BY <1>1, <2>1, <2>3, <2>4, <2>5, <2>6, <2>7 DEF Drives
    <3>3. Forces(o)' BY <1>1, <2>5, <2>6 DEF OpHolds, OpWaits, Forces
    <3>4. Merges(o)' BY <1>1, <2>2, <2>4, <2>5, <2>6, PhasesAre DEF OpHolds, OpWaits, Merges
    <3> QED BY <3>1, <3>2, <3>3, <3>4 DEF OpHolds
  <2> QED BY <1>1, <1>2, <2>1, <2>3, <2>4, <2>5, <2>7, <2>8, DriveKeeps
<1> QED
  BY <1>3, <1>4, <1>5

(* A resumed operation goes on where it stopped, or is over.               *)
LEMMA ResumeKeeps == ASSUME AccountInv, NEW o \in Ops, Resume(o) PROVE AccountInv'
PROOF
<1>1. /\ core \in Cores /\ pending \in Pendings /\ op \in [Ops -> OpRecords] /\ op[o] \in OpRecords /\ OpHolds(o)
      /\ core.session.id \in {0, core.target} /\ op[o].at = "returned" /\ op[o].out.checkpoint /\ gate = 0
      /\ pending.op = o /\ UNCHANGED <<issued, old>> /\ issued \in Nat
  BY DEF AccountInv, AccountTypes, CoreHolds, SessionOfTarget, Resume, Nobody
<1>2. CASE pending.generation # core.generation \/ op[o].cancel
  <2>1. Fails(o, "cancelled", FALSE) BY <1>2 DEF Resume
  <2> QED BY <1>1, <2>1, FailKeeps
<1>3. CASE ~(pending.generation # core.generation \/ op[o].cancel)
  <2> DEFINE k == [op[o] EXCEPT !.at = "driving", !.out = NoOutcome]
  <2>1. /\ core' = [core EXCEPT !.error = "ok"] /\ gate' = o /\ op' = [op EXCEPT ![o] = k] /\ pending' = pending
    BY <1>1, <1>3 DEF Resume
  <2>2. /\ core' \in Cores /\ core'.generation = core.generation /\ core'.target = core.target
        /\ core'.version = core.version /\ core'.session = core.session /\ core'.error = "ok"
    BY <1>1, <2>1 DEF Cores, Codes
  <2>3. NoOutcome \in Outcomes
    BY DEF NoOutcome, Outcomes, Codes, NoSession, Sessions
  <2>4. /\ k \in OpRecords /\ k.at = "driving" /\ k.generation = op[o].generation /\ k.target = op[o].target
        /\ k.phase = op[o].phase /\ k.reply = op[o].reply /\ k.forced = op[o].forced /\ k.merged = op[o].merged
        /\ k.unseen = op[o].unseen /\ k.session = op[o].session /\ k.cancel = op[o].cancel
    BY <1>1, <2>3 DEF OpRecords
  <2> HIDE DEF k
  <2>5. op'[o] = k
    BY <1>1, <2>1, <2>4
  <2>6. core.version >= core.version
    BY <1>1 DEF Cores
  <2>7. OpHolds(o)'
    <3>1. OpWaits(o)' /\ Owes(o)' BY <1>1, <2>4, <2>5 DEF OpHolds, OpWaits, Owes
    <3>2. Drives(o)' BY <1>1, <1>3, <2>1, <2>2, <2>4, <2>5 DEF OpHolds, Drives
    <3>3. Forces(o)' BY <1>1, <2>1, <2>4, <2>5 DEF OpHolds, Forces, Resumable
    <3>4. Merges(o)' BY <1>1, <2>1, <2>4, <2>5 DEF OpHolds, Merges
    <3> QED BY <3>1, <3>2, <3>3, <3>4 DEF OpHolds
  <2> QED BY <1>1, <2>1, <2>2, <2>4, <2>6, <2>7, DriveKeeps
<1> QED
  BY <1>2, <1>3

(* The copies a late drive leaves with.                                    *)
LEMMA LateKeeps ==
  ASSUME AccountInv, NEW o \in Ops, gate = o, op[o].generation # core.generation,
         NEW b \in OpRecords, NEW t \in Sessions, t.id \in {0, op[o].target},
         b.generation = op[o].generation, b.target = op[o].target, b.cancel = op[o].cancel, b.forced = op[o].forced,
         b.unseen = 0 \/ t = [id |-> b.target, pair |-> b.unseen],
         Returns(o, [op EXCEPT ![o] = b], CancelledWith(t), TRUE), UNCHANGED <<core, pending, issued, old>>
  PROVE  AccountInv'
PROOF
<1>1. /\ core \in Cores /\ pending \in Pendings /\ op \in [Ops -> OpRecords] /\ OpHolds(o) /\ o # 0
      /\ core.session.id \in {0, core.target}
  BY AccountAssumption DEF AccountInv, AccountTypes, CoreHolds, SessionOfTarget
<1>2. /\ CancelledWith(t) \in Outcomes /\ CancelledWith(t).code = "cancelled" /\ CancelledWith(t).session = t
      /\ CancelledWith(t).checkpoint = FALSE
  BY DEF CancelledWith, Outcomes, Codes
<1> DEFINE B == [op EXCEPT ![o] = b]
<1>3. B \in [Ops -> OpRecords] /\ B[o] = b /\ \A x \in Ops \ {o} : B[x] = op[x]
  BY <1>1
<1>4. Returns(o, B, CancelledWith(t), TRUE)
  OBVIOUS
<1>5. pending.op = o => op[o].at # "queued" /\ op[o].cancel
  BY <1>1 DEF OpHolds, Drives
<1>6. op[o].at # "idle" /\ core.version >= core.version
  BY <1>1 DEF OpHolds, Drives, Cores
<1> HIDE DEF B
<1> QED
  BY <1>1, <1>2, <1>3, <1>4, <1>5, <1>6, ReturnKeeps

(* A drive takes its copies under the lock, or leaves.                     *)
LEMMA EnterKeeps == ASSUME AccountInv, NEW o \in Ops, Enter(o) PROVE AccountInv'
PROOF
<1>1. /\ core \in Cores /\ pending \in Pendings /\ op \in [Ops -> OpRecords] /\ op[o] \in OpRecords /\ OpHolds(o)
      /\ core.session.id \in {0, core.target} /\ op[o].at = "driving" /\ gate = o /\ UNCHANGED <<issued, old>>
      /\ issued \in Nat /\ op[o].unseen = 0 /\ o # 0
  BY AccountAssumption DEF AccountInv, AccountTypes, CoreHolds, SessionOfTarget, Enter, OpHolds, Drives, Owes
<1>2. CASE core.generation # op[o].generation
  <2>1. Returns(o, op, CancelledWith(NoSession), TRUE) /\ UNCHANGED <<core, pending>>
    BY <1>2 DEF Enter
  <2>2. op = [op EXCEPT ![o] = op[o]] BY <1>1
  <2>3. Returns(o, [op EXCEPT ![o] = op[o]], CancelledWith(NoSession), TRUE) BY <2>1, <2>2
  <2>4. NoSession \in Sessions /\ NoSession.id = 0 BY DEF NoSession, Sessions
  <2> QED BY <1>1, <1>2, <2>1, <2>3, <2>4, LateKeeps
<1>3. CASE core.generation = op[o].generation /\ op[o].cancel
  <2>1. Fails(o, "cancelled", TRUE) BY <1>3 DEF Enter
  <2> QED BY <1>1, <1>3, <2>1, FailKeeps
<1>4. CASE core.generation = op[o].generation /\ ~op[o].cancel
  <2> DEFINE k == [op[o] EXCEPT !.at = "calling", !.phase = pending.phase, !.session = core.session, !.reply = 0]
  <2>1. op' = [op EXCEPT ![o] = k] /\ UNCHANGED <<core, pending, gate>>
    BY <1>1, <1>4 DEF Enter
  <2>2. pending.op = o /\ op[o].target = core.target
    BY <1>1, <1>4 DEF OpHolds, Drives
  <2>3. core.error = "ok"
    BY <1>1 DEF AccountInv, CoreHolds, Nobody
  <2>4. /\ k \in OpRecords /\ k.at = "calling" /\ k.generation = op[o].generation /\ k.target = op[o].target
        /\ k.phase = pending.phase /\ k.reply = 0 /\ k.forced = op[o].forced /\ k.merged = op[o].merged
        /\ k.unseen = op[o].unseen /\ k.session = core.session /\ k.cancel = op[o].cancel
    BY <1>1 DEF OpRecords, Pendings, Cores
  <2> HIDE DEF k
  <2>5. op'[o] = k
    BY <1>1, <2>1, <2>4
  <2>6. core.version >= core.version
    BY <1>1 DEF Cores
  <2>7. OpHolds(o)'
    <3>1. OpWaits(o)' /\ Owes(o)' BY <1>1, <2>2, <2>4, <2>5 DEF OpHolds, OpWaits, Owes
    <3>2. Drives(o)' BY <1>1, <2>1, <2>2, <2>4, <2>5 DEF OpHolds, Drives
    <3>3. Forces(o)' BY <1>1, <2>1, <2>2, <2>4, <2>5 DEF OpHolds, Forces, Resumable
    <3>4. Merges(o)' BY <1>1, <2>1, <2>2, <2>4, <2>5 DEF OpHolds, Merges
    <3> QED BY <3>1, <3>2, <3>3, <3>4 DEF OpHolds
  <2> QED BY <1>1, <2>1, <2>3, <2>4, <2>6, <2>7, DriveKeeps
<1> QED
  BY <1>2, <1>3, <1>4

(* A refresh or a login gives a new pair.                                  *)
LEMMA IssueKeeps == ASSUME AccountInv, NEW o \in Ops, Issue(o) PROVE AccountInv'
PROOF
<1> DEFINE n == issued + 1
           f == op[o].forced + (IF op[o].phase.force THEN 1 ELSE 0)
           k == [op[o] EXCEPT !.reply = n, !.forced = f]
<1>1. /\ core \in Cores /\ pending \in Pendings /\ op \in [Ops -> OpRecords] /\ op[o] \in OpRecords /\ OpHolds(o)
      /\ core.session.id \in {0, core.target} /\ op[o].at = "calling" /\ gate = o /\ o # 0
      /\ issued \in Nat
  BY AccountAssumption DEF AccountInv, AccountTypes, CoreHolds, SessionOfTarget, Issue, OpHolds, Drives
<1>2. /\ op' = [op EXCEPT ![o] = k] /\ UNCHANGED <<core, pending, gate, old>> /\ issued' = n /\ op[o].reply = 0
      /\ Refreshes(o) \/ op[o].phase.at = "Login"
  BY <1>1 DEF Issue
<1>3. core.error = "ok"
  BY <1>1 DEF AccountInv, CoreHolds, Nobody
<1>4. n \in Nat /\ n # 0
  BY <1>1
<1>5. /\ f \in {0, 1} /\ ((f = 1 /\ op[o].phase.force) \/ f = op[o].forced)
  <2>1. op[o].forced = 1 => Spent(op[o].phase)
    BY <1>1, <1>2 DEF OpHolds, Forces
  <2>2. op[o].forced \in {0, 1}
    BY <1>1 DEF OpHolds, Forces
  <2>3. CASE op[o].phase.force
    <3>1. op[o].forced = 0 BY <2>1, <2>2, <2>3 DEF Spent
    <3> QED BY <2>3, <3>1
  <2>4. CASE ~op[o].phase.force
    BY <2>2, <2>4
  <2> QED BY <2>3, <2>4
<1> HIDE DEF n, f
<1>6. /\ k \in OpRecords /\ k.at = "calling" /\ k.generation = op[o].generation /\ k.target = op[o].target
      /\ k.phase = op[o].phase /\ k.reply = n /\ k.forced = f /\ k.merged = op[o].merged
      /\ k.unseen = op[o].unseen /\ k.session = op[o].session /\ k.cancel = op[o].cancel
  <2>1. n \in Nat /\ f \in Nat /\ op[o] \in OpRecords BY <1>1, <1>4, <1>5
  <2> QED BY <1>1, <2>1 DEF OpRecords
<1> HIDE DEF k
<1>7. op'[o] = k
  BY <1>1, <1>2, <1>6
<1>8. core.version >= core.version
  BY <1>1 DEF Cores
<1>9. OpHolds(o)'
  <2>1. OpWaits(o)' /\ Owes(o)' BY <1>1, <1>6, <1>7 DEF OpHolds, OpWaits, Owes
  <2>2. Drives(o)' BY <1>1, <1>2, <1>6, <1>7 DEF OpHolds, Drives
  <2>3. Forces(o)' BY <1>1, <1>2, <1>4, <1>5, <1>6, <1>7 DEF OpHolds, Forces, Resumable
  <2>4. Merges(o)' BY <1>1, <1>2, <1>6, <1>7 DEF OpHolds, Merges, Refreshes
  <2> QED BY <2>1, <2>2, <2>3, <2>4 DEF OpHolds
<1> QED
  BY <1>1, <1>2, <1>3, <1>4, <1>6, <1>8, <1>9, DriveKeeps

(* What an answer does to the operations before its own call returns: a    *)
(* rotation is owed to the host and seen by those that wait, the end noted.*)
Owed(o, a) == IF a.rotated THEN [op EXCEPT ![o].unseen = a.session.pair] ELSE op
Noted(o, a) == Merge(o, [Owed(o, a) EXCEPT ![o].finished = @ \/ a.next.at = "Complete"], a)

(* A rotation changes of the operation what it owes.                       *)
LEMMA OwedIs ==
  ASSUME AccountInv, NEW o \in Ops, NEW a, a.rotated \in BOOLEAN, a.session \in Sessions
  PROVE  \E b \in OpRecords :
           /\ Owed(o, a) = [op EXCEPT ![o] = b]
           /\ b = [op[o] EXCEPT !.unseen = b.unseen]
           /\ b.unseen = (IF a.rotated THEN a.session.pair ELSE 0)
PROOF
<1>1. op \in [Ops -> OpRecords] /\ op[o] \in OpRecords /\ op[o].unseen = 0
  BY DEF AccountInv, AccountTypes, OpHolds, Owes
<1>2. CASE a.rotated
  <2> DEFINE p == a.session.pair
             b == [op[o] EXCEPT !.unseen = p]
  <2>1. p \in Nat BY DEF Sessions
  <2>2. Owed(o, a) = [op EXCEPT ![o] = b] BY <1>1, <1>2 DEF Owed
  <2> HIDE DEF p
  <2>3. b \in OpRecords /\ b.unseen = p BY <1>1, <2>1 DEF OpRecords
  <2>4. b = [op[o] EXCEPT !.unseen = b.unseen] BY <2>3
  <2> QED BY <1>2, <2>2, <2>3, <2>4 DEF p
<1>3. CASE ~a.rotated
  <2>1. Owed(o, a) = [op EXCEPT ![o] = op[o]] BY <1>1, <1>3 DEF Owed
  <2>2. op[o] = [op[o] EXCEPT !.unseen = op[o].unseen] BY <1>1 DEF OpRecords
  <2> QED BY <1>1, <1>3, <2>1, <2>2
<1> QED
  BY <1>2, <1>3

(* So an operation is as it was but for what it owes and whether it ended; *)
(* the others are as they were but for having seen the pair.               *)
LEMMA NotedIs ==
  ASSUME AccountInv, NEW o \in Ops, NEW a, a.rotated \in BOOLEAN, a.session \in Sessions
  PROVE  /\ Noted(o, a) \in [Ops -> OpRecords]
         /\ \A x \in Ops \ {o} :
              \/ Noted(o, a)[x] = op[x]
              \/ a.rotated /\ op[x].at = "queued" /\ Noted(o, a)[x] = [op[x] EXCEPT !.merged = TRUE]
         /\ ~a.rotated => \A x \in Ops \ {o} : Noted(o, a)[x] = op[x]
         /\ Noted(o, a)[o].generation = op[o].generation /\ Noted(o, a)[o].target = op[o].target
         /\ Noted(o, a)[o].cancel = op[o].cancel /\ Noted(o, a)[o].forced = op[o].forced
         /\ Noted(o, a)[o].phase = op[o].phase /\ Noted(o, a)[o].session = op[o].session
         /\ Noted(o, a)[o].reply = op[o].reply /\ Noted(o, a)[o].merged = op[o].merged
         /\ a.rotated => Noted(o, a)[o].unseen = a.session.pair
         /\ ~a.rotated => Noted(o, a)[o].unseen = 0
         /\ a.next.at = "Complete" => Noted(o, a)[o].finished
PROOF
<1>1. op \in [Ops -> OpRecords] /\ op[o] \in OpRecords
  BY DEF AccountInv, AccountTypes
<1>2. PICK b \in OpRecords : /\ Owed(o, a) = [op EXCEPT ![o] = b]
                             /\ b = [op[o] EXCEPT !.unseen = b.unseen]
                             /\ b.unseen = (IF a.rotated THEN a.session.pair ELSE 0)
  BY OwedIs
<1> DEFINE u == b.unseen
           f == b.finished \/ a.next.at = "Complete"
           k == [b EXCEPT !.finished = f]
           O == [Owed(o, a) EXCEPT ![o].finished = @ \/ a.next.at = "Complete"]
<1>3. O = [op EXCEPT ![o] = k]
  BY <1>1, <1>2
<1>4. f \in BOOLEAN /\ (a.next.at = "Complete" => f) /\ u \in Nat
      /\ (a.rotated => u = a.session.pair) /\ (~a.rotated => u = 0) /\ b = [op[o] EXCEPT !.unseen = u]
  BY <1>2 DEF OpRecords
<1>5. b.unseen = u OBVIOUS
<1> HIDE DEF f, u
<1>6. /\ k \in OpRecords /\ k.finished = f /\ k.unseen = u
      /\ k.generation = b.generation /\ k.target = b.target /\ k.cancel = b.cancel /\ k.forced = b.forced
      /\ k.phase = b.phase /\ k.session = b.session /\ k.reply = b.reply /\ k.merged = b.merged
  BY <1>4, <1>5 DEF OpRecords
<1>7. /\ b.generation = op[o].generation /\ b.target = op[o].target /\ b.cancel = op[o].cancel
      /\ b.forced = op[o].forced /\ b.phase = op[o].phase /\ b.session = op[o].session
      /\ b.reply = op[o].reply /\ b.merged = op[o].merged
  BY <1>1, <1>4 DEF OpRecords
<1> HIDE DEF k
<1>8. O \in [Ops -> OpRecords] /\ O[o] = k /\ \A x \in Ops \ {o} : O[x] = op[x]
  BY <1>1, <1>3, <1>6
<1>9. Noted(o, a) = [x \in Ops |-> IF a.rotated /\ x # o /\ O[x].at = "queued" THEN [O[x] EXCEPT !.merged = TRUE] ELSE O[x]]
  BY DEF Noted, Merge
<1> HIDE DEF O
<1>10. \A x \in Ops : [op[x] EXCEPT !.merged = TRUE] \in OpRecords
  BY <1>1 DEF OpRecords
<1>11. Noted(o, a)[o] = k
  BY <1>8, <1>9
<1>12. ASSUME NEW x \in Ops \ {o}
       PROVE  IF a.rotated /\ op[x].at = "queued" THEN Noted(o, a)[x] = [op[x] EXCEPT !.merged = TRUE]
                                                  ELSE Noted(o, a)[x] = op[x]
  BY <1>8, <1>9
<1>13. Noted(o, a) \in [Ops -> OpRecords]
  <2>1. ASSUME NEW x \in Ops
        PROVE  (IF a.rotated /\ x # o /\ O[x].at = "queued" THEN [O[x] EXCEPT !.merged = TRUE] ELSE O[x]) \in OpRecords
    BY <1>1, <1>6, <1>8, <1>10
  <2> QED BY <1>9, <2>1
<1> QED
  BY <1>4, <1>6, <1>7, <1>11, <1>12, <1>13

(* An answer, however late, is stored, returned or answered by the next    *)
(* phase.                                                                  *)
LEMMA AnswerKeeps == ASSUME AccountInv, NEW o \in Ops, NEW a, Answer(o, a) PROVE AccountInv'
PROOF
<1> DEFINE own == Owed(o, a)
           base == Noted(o, a)
           kept == [core EXCEPT !.version = @ + (IF a.rotated THEN 1 ELSE 0), !.session = a.session]
<1>1. /\ core \in Cores /\ pending \in Pendings /\ op \in [Ops -> OpRecords] /\ op[o] \in OpRecords /\ OpHolds(o)
      /\ core.session.id \in {0, core.target} /\ op[o].at = "calling" /\ gate = o /\ o # 0
      /\ UNCHANGED <<issued, old>> /\ a \in Answers(o) /\ issued \in Nat /\ core.error = "ok"
  BY AccountAssumption DEF AccountInv, AccountTypes, CoreHolds, SessionOfTarget, Answer, OpHolds, Drives, Nobody
<1>2. /\ a.next \in Phases /\ a.error \in {"ok", "error", "unauth"} /\ a.session \in Sessions
      /\ a.rotated \in BOOLEAN /\ a.checkpoint = (a.rotated /\ a.next.at # "Complete")
      /\ a.session.id \in {0, op[o].target}
      /\ a.rotated => a.error = "ok" /\ a.session = [id |-> op[o].target, pair |-> op[o].reply]
      /\ a.error = "ok" /\ (op[o].forced = 1) => Spent(a.next)
      /\ a.error = "ok" /\ a.next.at = "Fresh" => a.next.then # "Complete"
  BY <1>1, AnswerShape
<1>3. /\ Answer(o, a) =>
           IF ~SameTarget(o)
           THEN Returns(o, own, LateOutcome(o, a), TRUE) /\ UNCHANGED <<core, pending>>
           ELSE IF IF a.error = "ok" THEN op[o].cancel ELSE ~(LoggingOut(op[o].phase) /\ a.error = "unauth")
           THEN /\ core' = Failed(kept, IF a.error = "ok" THEN "cancelled" ELSE a.error)
                /\ pending' = Over(pending)
                /\ Returns(o, base, Result(core', pending'), TRUE)
           ELSE /\ core' = kept
                /\ pending' = [pending EXCEPT !.phase = IF a.error = "ok" THEN a.next ELSE Complete]
                /\ IF Stops(a) \/ a.error # "ok"
                   THEN Returns(o, [base EXCEPT ![o].finished = @ \/ a.error # "ok"], Result(core', pending'), TRUE)
                   ELSE op' = [base EXCEPT ![o].at = "driving"] /\ UNCHANGED gate
  BY DEF Answer, Owed, Noted
<1>4. CASE ~SameTarget(o)
  <2>1. PICK b \in OpRecords : /\ own = [op EXCEPT ![o] = b] /\ b = [op[o] EXCEPT !.unseen = b.unseen]
                               /\ b.unseen = (IF a.rotated THEN a.session.pair ELSE 0)
    BY <1>2, OwedIs
  <2>2. Returns(o, [op EXCEPT ![o] = b], CancelledWith(a.session), TRUE) /\ UNCHANGED <<core, pending>>
    BY <1>4, <1>3, <2>1 DEF LateOutcome
  <2>3. /\ b.generation = op[o].generation /\ b.target = op[o].target /\ b.cancel = op[o].cancel
        /\ b.forced = op[o].forced
    BY <1>1, <2>1 DEF OpRecords
  <2>4. b.unseen = 0 \/ a.session = [id |-> b.target, pair |-> b.unseen]
    BY <1>2, <2>1, <2>3
  <2>5. op[o].generation # core.generation
    BY <1>4 DEF SameTarget
  <2> HIDE DEF own
  <2> QED BY <1>1, <1>2, <2>2, <2>3, <2>4, <2>5, LateKeeps
<1>5. /\ kept \in Cores /\ kept.generation = core.generation /\ kept.target = core.target
      /\ kept.version >= core.version /\ kept.session = a.session /\ kept.error = "ok"
      /\ a.rotated => kept.version > core.version
  <2> DEFINE v == core.version + (IF a.rotated THEN 1 ELSE 0)
  <2>1. core.version \in Nat BY <1>1 DEF Cores
  <2>2. v \in Nat /\ v >= core.version /\ (a.rotated => v > core.version)
    BY <2>1
  <2>3. kept = [core EXCEPT !.version = v, !.session = a.session]
    BY <1>1
  <2> HIDE DEF v
  <2>4. [core EXCEPT !.version = v, !.session = a.session] \in Cores
    BY <1>1, <1>2, <2>2 DEF Cores
  <2>5. /\ kept.generation = core.generation /\ kept.target = core.target /\ kept.version = v
        /\ kept.session = a.session /\ kept.error = core.error
    BY <1>1, <2>3 DEF Cores
  <2> HIDE DEF kept
  <2> QED BY <1>1, <2>2, <2>3, <2>4, <2>5
<1>6. base \in [Ops -> OpRecords] /\ base[o] \in OpRecords
  BY <1>2, NotedIs
<1>7. /\ \A x \in Ops \ {o} :
           \/ base[x] = op[x]
           \/ a.rotated /\ op[x].at = "queued" /\ base[x] = [op[x] EXCEPT !.merged = TRUE]
      /\ ~a.rotated => \A x \in Ops \ {o} : base[x] = op[x]
  <2>1. a.rotated \in BOOLEAN /\ a.session \in Sessions BY <1>2
  <2>2. \A x \in Ops \ {o} :
           \/ base[x] = op[x]
           \/ a.rotated /\ op[x].at = "queued" /\ base[x] = [op[x] EXCEPT !.merged = TRUE]
    BY <2>1, NotedIs
  <2>3. ~a.rotated => \A x \in Ops \ {o} : base[x] = op[x]
    BY <2>1, NotedIs
  <2> QED BY <2>2, <2>3
<1>8. /\ base[o].generation = op[o].generation /\ base[o].target = op[o].target /\ base[o].cancel = op[o].cancel
      /\ base[o].forced = op[o].forced /\ base[o].phase = op[o].phase /\ base[o].session = op[o].session
      /\ base[o].reply = op[o].reply /\ base[o].merged = op[o].merged
  BY <1>2, NotedIs
<1>9. /\ a.rotated => base[o].unseen = a.session.pair
      /\ ~a.rotated => base[o].unseen = 0
      /\ a.next.at = "Complete" => base[o].finished
  BY <1>2, NotedIs
<1> HIDE DEF kept, base, own
<1>10. SameTarget(o) => pending.op = o /\ op[o].target = core.target
  BY <1>1 DEF SameTarget, OpHolds, Drives
<1>11. base[o].unseen = 0 \/ a.session = [id |-> op[o].target, pair |-> base[o].unseen]
  <2>1. CASE a.rotated BY <1>2, <1>9, <2>1
  <2>2. CASE ~a.rotated BY <1>9, <2>2
  <2> QED BY <2>1, <2>2
<1>12. CASE SameTarget(o) /\ IF a.error = "ok" THEN op[o].cancel ELSE ~(LoggingOut(op[o].phase) /\ a.error = "unauth")
  <2> DEFINE e == IF a.error = "ok" THEN "cancelled" ELSE a.error
             out == Result(core', pending')
  <2>1. core' = [kept EXCEPT !.error = e] /\ pending' = [pending EXCEPT !.phase = Complete] /\ Returns(o, base, out, TRUE)
    BY <1>12, <1>3 DEF Failed, Over
  <2>2. e \in {"error", "unauth", "cancelled"}
    BY <1>2
  <2> HIDE DEF e
  <2>3. /\ core' \in Cores /\ core'.generation = core.generation /\ core'.target = core.target
        /\ core'.version >= core.version /\ core'.session = a.session /\ core'.error = e
        /\ a.rotated => core'.version > core.version
    <3>1. [kept EXCEPT !.error = e] \in Cores /\ core'.error = e /\ core'.generation = kept.generation
          /\ core'.target = kept.target /\ core'.version = kept.version /\ core'.session = kept.session
      BY <1>5, <2>1, <2>2 DEF Cores, Codes
    <3> QED BY <2>1, <3>1, <1>5
  <2>4. /\ pending' \in Pendings /\ pending'.op = pending.op /\ pending'.generation = pending.generation
        /\ pending'.phase = Complete /\ pending'.phase.at = "Complete"
    BY <1>1, <2>1, PhasesAre DEF Pendings
  <2>5. out \in Outcomes /\ out.code = e /\ ~out.checkpoint /\ out.session = a.session
    BY <1>2, <2>2, <2>3, <2>4 DEF Result, Outcomes, Codes
  <2> HIDE DEF out
  <2>6. core'.session.id \in {0, core.target} /\ out.session.id \in {0, op[o].target}
    BY <1>12, <1>2, <1>10, <2>3, <2>5
  <2>7. base[o].unseen = 0 \/ out.session = [id |-> base[o].target, pair |-> base[o].unseen]
    BY <1>8, <1>11, <2>5
  <2>8. \A x \in Ops \ {o} : \/ base[x] = op[x]
                             \/ op[x].at = "queued" /\ core'.version > core.version /\ base[x] = [op[x] EXCEPT !.merged = TRUE]
    BY <1>7, <2>3
  <2> QED BY <1>1, <1>6, <1>8, <2>1, <2>2, <2>3, <2>4, <2>5, <2>6, <2>7, <2>8, ReturnKeeps
<1>13. CASE SameTarget(o) /\ ~(IF a.error = "ok" THEN op[o].cancel ELSE ~(LoggingOut(op[o].phase) /\ a.error = "unauth"))
  <2> DEFINE n == IF a.error = "ok" THEN a.next ELSE Complete
  <2>1. core' = kept /\ pending' = [pending EXCEPT !.phase = n]
    BY <1>13, <1>3
  <2>2. n \in Phases /\ (op[o].forced = 1 => Spent(n)) /\ (n.at = "Fresh" => n.then # "Complete")
        /\ (a.error # "ok" => n.at = "Complete") /\ (a.error = "ok" => n = a.next)
    BY <1>2, PhasesAre
  <2> HIDE DEF n
  <2>3. /\ pending' \in Pendings /\ pending'.op = o /\ pending'.generation = pending.generation
        /\ pending'.phase = n
    BY <1>1, <1>13, <1>10, <2>1, <2>2 DEF Pendings
  <2>4. core'.session.id \in {0, core.target}
    BY <1>13, <1>2, <1>5, <1>10, <2>1
  <2>5. CASE Stops(a) \/ a.error # "ok"
    <3> DEFINE g == base[o].finished \/ a.error # "ok"
               k == [base[o] EXCEPT !.finished = g]
               b == [base EXCEPT ![o].finished = @ \/ a.error # "ok"]
               out == Result(core', pending')
    <3>1. Returns(o, b, out, TRUE)
      BY <1>13, <1>3, <2>5
    <3>2. b = [base EXCEPT ![o] = k]
      BY <1>6
    <3>3. g \in BOOLEAN /\ (a.error # "ok" \/ a.next.at = "Complete" => g)
      BY <1>8, <1>9
    <3> HIDE DEF g
    <3>4. /\ k \in OpRecords /\ k.finished = g /\ k.generation = base[o].generation /\ k.target = base[o].target
          /\ k.cancel = base[o].cancel /\ k.forced = base[o].forced /\ k.unseen = base[o].unseen
      BY <1>6, <3>3 DEF OpRecords
    <3> HIDE DEF k
    <3>5. b \in [Ops -> OpRecords] /\ b[o] = k /\ \A x \in Ops \ {o} : b[x] = base[x]
      BY <1>6, <3>2, <3>4
    <3>6. /\ out \in Outcomes /\ out.code = "ok" /\ out.session = a.session
          /\ out.checkpoint = (n.at # "Complete")
      BY <1>2, <1>5, <2>1, <2>3 DEF Result, Outcomes, Codes
    <3> HIDE DEF out, b
    <3>7. ~out.checkpoint => g
      BY <2>2, <3>3, <3>6
    <3>8. \A x \in Ops \ {o} : \/ b[x] = op[x]
                               \/ op[x].at = "queued" /\ core'.version > core.version /\ b[x] = [op[x] EXCEPT !.merged = TRUE]
      BY <1>7, <1>5, <2>1, <3>5
    <3>9. b[o].unseen = 0 \/ out.session = [id |-> b[o].target, pair |-> b[o].unseen]
      BY <1>8, <1>11, <3>4, <3>5, <3>6
    <3>10. out.session.id \in {0, op[o].target}
      BY <1>2, <3>6
    <3>11. pending'.phase.at = "Complete" \/ out.checkpoint
      BY <2>3, <3>6
    <3>12. b[o].generation = op[o].generation /\ b[o].target = op[o].target /\ b[o].cancel = op[o].cancel
           /\ b[o].forced = op[o].forced /\ b[o].finished = g
      BY <1>8, <3>4, <3>5
    <3>13. core' \in Cores /\ core'.generation = core.generation /\ core'.target = core.target /\ core'.version >= core.version
      BY <1>5, <2>1
    <3>14. pending.op = o BY <1>13, <1>10
    <3>15. gate \in {0, o} /\ op[o].at # "idle" BY <1>1
    <3>16. out.code = "ok" /\ ~out.checkpoint => b[o].finished BY <3>7, <3>12
    <3>17. op[o].forced = 1 /\ pending.op = o /\ out.checkpoint => Spent(pending'.phase) BY <2>2, <2>3
    <3>18. pending'.op = pending.op /\ pending'.generation = pending.generation BY <2>3, <3>14
    <3>19. UNCHANGED <<issued, old>> /\ TRUE \in BOOLEAN BY <1>1
    <3>20. pending.op = o => pending'.phase.at = "Complete" \/ op[o].cancel \/ out.checkpoint BY <3>11
    <3>21. pending.op = o => op[o].at # "queued" BY <1>1
    <3>22. TRUE => out.session.id \in {0, op[o].target} BY <3>10
    <3> QED
      BY <2>3, <2>4, <3>1, <3>5, <3>6, <3>8, <3>9, <3>12, <3>13, <3>14, <3>15, <3>16, <3>17, <3>18, <3>19, <3>20, <3>21, <3>22, ReturnKeeps
  <2>6. CASE ~(Stops(a) \/ a.error # "ok")
    <3> DEFINE k == [base[o] EXCEPT !.at = "driving"]
    <3>1. op' = [base EXCEPT ![o].at = "driving"] /\ UNCHANGED gate
      BY <1>13, <1>3, <2>6
    <3>2. ~a.rotated /\ base[o].unseen = 0 /\ a.error = "ok" /\ n = a.next
      BY <1>2, <1>9, <2>2, <2>6 DEF Stops
    <3>3. /\ k \in OpRecords /\ k.at = "driving" /\ k.generation = base[o].generation /\ k.target = base[o].target
          /\ k.cancel = base[o].cancel /\ k.forced = base[o].forced /\ k.unseen = base[o].unseen
          /\ k.phase = base[o].phase /\ k.session = base[o].session /\ k.reply = base[o].reply
          /\ k.merged = base[o].merged
      BY <1>6 DEF OpRecords
    <3>4. op' = [op EXCEPT ![o] = k]
      <4>1. \A x \in Ops \ {o} : base[x] = op[x] BY <1>7, <3>2
      <4>2. op' = [base EXCEPT ![o] = k] BY <1>6, <3>1
      <4> HIDE DEF k
      <4> QED BY <1>1, <1>6, <4>1, <4>2
    <3> HIDE DEF k
    <3>5. op'[o] = k
      BY <1>1, <3>4
    <3>6. /\ core' \in Cores /\ core'.generation = core.generation /\ core'.target = core.target
          /\ core'.version >= core.version /\ core'.error = "ok"
      BY <1>5, <2>1
    <3>7. OpHolds(o)'
      <4>1. OpWaits(o)' /\ Owes(o)' BY <1>8, <3>2, <3>3, <3>5 DEF OpWaits, Owes
      <4>2. Drives(o)'
        BY <1>1, <1>13, <1>8, <1>10, <2>3, <3>1, <3>3, <3>5, <3>6 DEF OpHolds, Drives
      <4>3. Forces(o)' BY <1>1, <1>8, <2>2, <2>3, <3>3, <3>5 DEF OpHolds, Forces
      <4>4. Merges(o)' BY <1>1, <1>8, <2>2, <2>3, <3>3, <3>5 DEF OpHolds, Merges
      <4> QED BY <4>1, <4>2, <4>3, <4>4 DEF OpHolds
    <3> QED BY <1>1, <1>13, <1>10, <2>3, <2>4, <3>1, <3>3, <3>4, <3>6, <3>7, DriveKeeps
  <2> QED BY <2>5, <2>6
<1> QED
  BY <1>4, <1>12, <1>13

-----------------------------------------------------------------------------
(* Cancelling changes nothing else of an operation, and what the host does *)
(* to the core meanwhile leaves a pending operation of the old generation  *)
(* cancelled.                                                              *)
LEMMA CancelledKeep ==
  ASSUME AccountInv, core' \in Cores, op' \in [Ops -> OpRecords],
         \A x \in Ops : op'[x] = op[x] \/ op'[x] = [op[x] EXCEPT !.cancel = TRUE],
         gate' = gate, core'.version >= core.version, old \subseteq old',
         \/ core'.generation = core.generation /\ core'.target = core.target /\ pending' = pending
         \/ /\ core'.generation > core.generation /\ (pending' = pending \/ pending'.op = 0)
            /\ \A x \in Ops : pending'.op = x => op'[x].cancel,
         NEW o \in Ops
  PROVE  OpHolds(o)' /\ op'[o].at = op[o].at /\ op'[o].out = op[o].out /\ (op[o].cancel => op'[o].cancel)
PROOF
<1>1. op[o] \in OpRecords /\ OpHolds(o) /\ o # 0 /\ core \in Cores
  BY AccountAssumption DEF AccountInv, AccountTypes
<1> DEFINE k == op'[o]
<1>2. /\ k.at = op[o].at /\ k.phase = op[o].phase /\ k.reply = op[o].reply /\ k.forced = op[o].forced
      /\ k.command = op[o].command /\ k.observed = op[o].observed /\ k.generation = op[o].generation
      /\ k.target = op[o].target /\ k.unseen = op[o].unseen /\ k.merged = op[o].merged
      /\ k.session = op[o].session /\ k.out = op[o].out /\ k.driven = op[o].driven /\ k.finished = op[o].finished
      /\ (op[o].cancel => k.cancel)
  <2>1. CASE op'[o] = op[o] BY <2>1
  <2>2. CASE op'[o] = [op[o] EXCEPT !.cancel = TRUE]
    BY <1>1, <2>2 DEF OpRecords
  <2> QED BY <2>1, <2>2
<1> HIDE DEF k
<1>3. k = op'[o]
  BY DEF k
<1>4. /\ core.version \in Nat /\ core'.version \in Nat /\ op[o].observed \in Nat /\ op[o].generation \in Nat
      /\ core.generation \in Nat /\ core'.generation \in Nat
  BY <1>1 DEF Cores, OpRecords
<1>5. OpWaits(o)'
  BY <1>1, <1>2, <1>3, <1>4 DEF OpHolds, OpWaits
<1>6. Drives(o)'
  BY <1>1, <1>2, <1>3, <1>4 DEF OpHolds, Drives
<1>7. Owes(o)'
  BY <1>1, <1>2, <1>3 DEF OpHolds, Owes
<1>8. Forces(o)' /\ Merges(o)'
  BY <1>1, <1>2, <1>3 DEF OpHolds, Forces, Merges, Resumable
<1> QED
  BY <1>2, <1>3, <1>5, <1>6, <1>7, <1>8 DEF OpHolds

(* A cancellation of one operation.                                        *)
LEMMA CancelKeeps == ASSUME AccountInv, NEW o \in Ops, CancelOp(o) PROVE AccountInv'
PROOF
<1> DEFINE k == [op[o] EXCEPT !.cancel = TRUE]
<1>1. /\ core \in Cores /\ op \in [Ops -> OpRecords] /\ op[o] \in OpRecords /\ UNCHANGED <<core, pending, gate, issued, old>>
      /\ pending.op \in Ops \cup {0}
  BY DEF AccountInv, AccountTypes, CancelOp, Pendings
<1>2. op' = [op EXCEPT ![o] = k]
  BY <1>1 DEF CancelOp
<1>3. k \in OpRecords
  BY <1>1 DEF OpRecords
<1>4. op' \in [Ops -> OpRecords] /\ \A x \in Ops : op'[x] = op[x] \/ op'[x] = [op[x] EXCEPT !.cancel = TRUE]
  BY <1>1, <1>2, <1>3
<1> HIDE DEF k
<1>5. core.version >= core.version
  BY <1>1 DEF Cores
<1>6. \A x \in Ops : OpHolds(x)' /\ op'[x].at = op[x].at /\ op'[x].out = op[x].out /\ (op[x].cancel => op'[x].cancel)
  BY <1>1, <1>4, <1>5, CancelledKeep
<1>7. CoreHolds'
  BY <1>1 DEF AccountInv, CoreHolds, SessionOfTarget
<1>8. NothingStuck'
  BY <1>1, <1>6 DEF AccountInv, NothingStuck, Nobody
<1> QED
  BY <1>1, <1>4, <1>6, <1>7, <1>8 DEF AccountInv, AccountTypes

(* A pair near its end.                                                    *)
LEMMA AgeKeeps == ASSUME AccountInv, Age PROVE AccountInv'
PROOF
<1>1. /\ core \in Cores /\ op \in [Ops -> OpRecords] /\ UNCHANGED <<core, pending, gate, op, issued>>
      /\ old \subseteq old'
  BY DEF AccountInv, AccountTypes, Age
<1>2. core.version >= core.version
  BY <1>1 DEF Cores
<1>3. \A x \in Ops : OpHolds(x)'
  BY <1>1, <1>2, CancelledKeep
<1>4. CoreHolds' /\ NothingStuck'
  BY <1>1 DEF AccountInv, CoreHolds, SessionOfTarget, NothingStuck
<1> QED
  BY <1>1, <1>3, <1>4 DEF AccountInv, AccountTypes

(* The pending operation is cancelled, and no other.                       *)
LEMMA CancelPendingIs ==
  ASSUME AccountInv, op' = CancelPending
  PROVE  /\ op' \in [Ops -> OpRecords]
         /\ \A x \in Ops : op'[x] = op[x] \/ op'[x] = [op[x] EXCEPT !.cancel = TRUE]
         /\ \A x \in Ops : pending.op = x => op'[x].cancel
PROOF
<1>1. op \in [Ops -> OpRecords]
  BY DEF AccountInv, AccountTypes
<1>2. \A x \in Ops : [op[x] EXCEPT !.cancel = TRUE] \in OpRecords /\ [op[x] EXCEPT !.cancel = TRUE].cancel
  <2> SUFFICES ASSUME NEW r \in OpRecords
               PROVE  [r EXCEPT !.cancel = TRUE] \in OpRecords /\ [r EXCEPT !.cancel = TRUE].cancel
    BY <1>1
  <2> QED BY DEF OpRecords
<1>3. op' = [o \in Ops |-> IF o = pending.op THEN [op[o] EXCEPT !.cancel = TRUE] ELSE op[o]]
  BY DEF CancelPending
<1> QED
  BY <1>1, <1>2, <1>3

(* A new target ends the generation of the old one.                        *)
LEMMA ActivateKeeps == ASSUME AccountInv, NEW signed \in BOOLEAN, ActivateTarget(signed) PROVE AccountInv'
PROOF
<1> DEFINE s == IF signed THEN [id |-> core.target + 1, pair |-> issued'] ELSE NoSession
<1>1. /\ core \in Cores /\ core.target \in Nat /\ core.generation \in Nat /\ core.version \in Nat /\ issued \in Nat
  BY DEF AccountInv, AccountTypes, Cores
<1>2. /\ issued' = (IF signed THEN issued + 1 ELSE issued) /\ pending' = NoPending /\ op' = CancelPending
      /\ gate' = gate /\ old' = old
  BY DEF ActivateTarget
<1>3. issued' \in Nat
  BY <1>1, <1>2
<1>4. s \in Sessions /\ s.id \in {0, core.target + 1}
  <2>1. NoSession \in Sessions /\ NoSession.id = 0 BY DEF NoSession, Sessions
  <2>2. [id |-> core.target + 1, pair |-> issued'] \in Sessions BY <1>1, <1>3 DEF Sessions
  <2> QED BY <2>1, <2>2
<1>5. core' = [core EXCEPT !.target = core.target + 1, !.generation = core.generation + 1,
                           !.version = core.version + 1, !.suspended = FALSE, !.error = "ok", !.session = s]
  BY DEF ActivateTarget
<1> HIDE DEF s
<1>6. core' \in Cores
  <2>1. core.target + 1 \in Nat /\ core.generation + 1 \in Nat /\ core.version + 1 \in Nat BY <1>1
  <2> QED BY <1>1, <1>4, <1>5, <2>1 DEF Cores, Codes
<1>7. /\ core'.target = core.target + 1 /\ core'.generation = core.generation + 1
      /\ core'.version = core.version + 1 /\ core'.session = s /\ core'.error = "ok"
  BY <1>1, <1>5 DEF Cores
<1>8. NoPending \in Pendings /\ NoPending.op = 0
  BY PhasesAre DEF NoPending, Pendings, Nobody
<1>9. core'.version >= core.version /\ core'.generation > core.generation /\ core'.generation # 0
  BY <1>1, <1>7
<1>10. /\ op' \in [Ops -> OpRecords] /\ \A x \in Ops : op'[x] = op[x] \/ op'[x] = [op[x] EXCEPT !.cancel = TRUE]
  BY <1>2, CancelPendingIs
<1>11. \A x \in Ops : pending'.op = x => op'[x].cancel
  BY <1>2, <1>8, AccountAssumption
<1>12. \A x \in Ops : OpHolds(x)'
  BY <1>2, <1>6, <1>8, <1>9, <1>10, <1>11, CancelledKeep
<1>13. CoreHolds' /\ NothingStuck'
  BY <1>2, <1>4, <1>7, <1>8, <1>9 DEF CoreHolds, SessionOfTarget, NothingStuck, Nobody
<1> QED
  BY <1>2, <1>3, <1>6, <1>8, <1>10, <1>12, <1>13 DEF AccountInv, AccountTypes

(* So does suspending or closing, which leaves what is pending cancelled.  *)
LEMMA StopKeeps == ASSUME AccountInv, NEW closed \in BOOLEAN, Stopped(closed) PROVE AccountInv'
PROOF
<1>1. /\ core \in Cores /\ core.target \in Nat /\ core.generation \in Nat /\ core.version \in Nat
      /\ pending.op \in Ops \cup {0}
  BY DEF AccountInv, AccountTypes, Cores, Pendings
<1>2. /\ core' = [core EXCEPT !.suspended = TRUE, !.closed = closed, !.generation = core.generation + 1]
      /\ op' = CancelPending /\ UNCHANGED <<pending, gate, issued, old>>
  BY DEF Stopped
<1>3. core' \in Cores
  <2>1. core.generation + 1 \in Nat BY <1>1
  <2> QED BY <1>1, <1>2, <2>1 DEF Cores
<1>4. /\ core'.target = core.target /\ core'.generation = core.generation + 1
      /\ core'.version = core.version /\ core'.session = core.session /\ core'.error = core.error
  BY <1>1, <1>2 DEF Cores
<1>5. core'.version >= core.version /\ core'.generation > core.generation /\ core'.generation # 0
  BY <1>1, <1>4
<1>6. /\ op' \in [Ops -> OpRecords] /\ \A x \in Ops : op'[x] = op[x] \/ op'[x] = [op[x] EXCEPT !.cancel = TRUE]
      /\ \A x \in Ops : pending.op = x => op'[x].cancel
  BY <1>2, CancelPendingIs
<1>7. \A x \in Ops : OpHolds(x)'
  BY <1>2, <1>3, <1>5, <1>6, CancelledKeep
<1>8. CoreHolds'
  BY <1>2, <1>4, <1>5 DEF AccountInv, CoreHolds, SessionOfTarget
<1>9. NothingStuck'
  BY <1>1, <1>2, <1>6 DEF NothingStuck, Nobody
<1> QED
  BY <1>2, <1>3, <1>6, <1>7, <1>8, <1>9 DEF AccountInv, AccountTypes

(* Settling clears what a cancelled operation left pending.                *)
LEMMA SettleKeeps == ASSUME AccountInv, NEW o \in Ops, Settle(o) PROVE AccountInv'
PROOF
<1>1. /\ core \in Cores /\ pending \in Pendings /\ op \in [Ops -> OpRecords] /\ op[o] \in OpRecords /\ OpHolds(o)
      /\ core.session.id \in {0, core.target} /\ op[o].at = "returned" /\ op[o].cancel /\ gate = 0 /\ gate' = 0
      /\ UNCHANGED <<issued, old>> /\ o # 0 /\ SettledPending(o) /\ core.session \in Sessions
  BY AccountAssumption DEF AccountInv, AccountTypes, CoreHolds, SessionOfTarget, Settle, Nobody, Cores
<1> DEFINE out == Result(core', pending')
           k == [op[o] EXCEPT !.at = "settled", !.out = out, !.driven = FALSE]
<1>2. op' = [op EXCEPT ![o] = k]
  BY <1>1 DEF Settle
<1>3. /\ core' \in Cores /\ core'.generation = core.generation /\ core'.target = core.target
      /\ core'.version = core.version /\ core'.session = core.session
      /\ pending' \in Pendings /\ pending'.op = pending.op /\ pending'.generation = pending.generation
      /\ pending'.phase \in {pending.phase, Complete}
  <2>1. CASE pending.op # Nobody /\ op[pending.op].cancel /\ pending.phase.at # "Complete"
    <3>1. core' = [core EXCEPT !.error = "cancelled"] /\ pending' = [pending EXCEPT !.phase = Complete]
      BY <1>1, <2>1 DEF SettledPending, Failed, Over
    <3>2. [core EXCEPT !.error = "cancelled"] \in Cores
      BY <1>1 DEF Cores, Codes
    <3>3. [pending EXCEPT !.phase = Complete] \in Pendings
      BY <1>1, PhasesAre DEF Pendings
    <3>4. /\ core'.generation = core.generation /\ core'.target = core.target
          /\ core'.version = core.version /\ core'.session = core.session
      BY <1>1, <3>1 DEF Cores
    <3>5. pending'.op = pending.op /\ pending'.generation = pending.generation /\ pending'.phase = Complete
      BY <1>1, <3>1 DEF Pendings
    <3> QED BY <3>1, <3>2, <3>3, <3>4, <3>5
  <2>2. CASE ~(pending.op # Nobody /\ op[pending.op].cancel /\ pending.phase.at # "Complete")
    BY <1>1, <2>2 DEF SettledPending
  <2> QED BY <2>1, <2>2
<1>4. out \in Outcomes
  BY <1>3 DEF Result, Outcomes, Cores
<1> HIDE DEF out
<1>5. /\ k \in OpRecords /\ k.at = "settled" /\ k.phase = op[o].phase /\ k.reply = op[o].reply
      /\ k.forced = op[o].forced /\ k.merged = op[o].merged /\ k.generation = op[o].generation
      /\ k.target = op[o].target /\ k.unseen = op[o].unseen /\ k.session = op[o].session /\ k.cancel = op[o].cancel
  BY <1>1, <1>4 DEF OpRecords
<1> HIDE DEF k
<1>6. op' \in [Ops -> OpRecords] /\ op'[o] = k /\ \A x \in Ops : x # o => op'[x] = op[x]
  BY <1>1, <1>2, <1>5
<1>7. core'.version >= core.version
  BY <1>3 DEF Cores
<1>8. OpHolds(o)'
  <2>1. OpWaits(o)' /\ Owes(o)' BY <1>1, <1>5, <1>6 DEF OpHolds, OpWaits, Owes
  <2>2. Drives(o)' BY <1>1, <1>3, <1>5, <1>6 DEF OpHolds, Drives
  <2>3. Forces(o)' BY <1>1, <1>5, <1>6 DEF OpHolds, Forces, Resumable
  <2>4. Merges(o)' BY <1>1, <1>3, <1>5, <1>6, PhasesAre DEF OpHolds, Merges
  <2> QED BY <2>1, <2>2, <2>3, <2>4 DEF OpHolds
<1>9. ASSUME NEW x \in Ops, x # o PROVE OpHolds(x)'
  <2>1. pending'.op = x => pending'.generation = pending.generation /\ pending'.phase \in {pending.phase, Complete}
    BY <1>3
  <2> QED BY <1>1, <1>3, <1>6, <1>7, <1>9, <2>1, OthersKeep
<1>10. CoreHolds'
  BY <1>1, <1>3 DEF AccountInv, CoreHolds, SessionOfTarget, Nobody
<1>11. NothingStuck'
  <2> SUFFICES ASSUME pending'.op # 0, pending'.phase.at # "Complete"
               PROVE  op'[pending'.op].cancel \/ (op'[pending'.op].at = "returned" /\ op'[pending'.op].out.checkpoint)
    BY DEF NothingStuck, Nobody
  <2>1. pending' = pending /\ ~op[pending.op].cancel
    <3>1. CASE pending.op # Nobody /\ op[pending.op].cancel /\ pending.phase.at # "Complete"
      <4>1. pending' = [pending EXCEPT !.phase = Complete]
        BY <1>1, <3>1 DEF SettledPending, Over
      <4>2. pending'.phase = Complete BY <1>1, <4>1 DEF Pendings
      <4> QED BY <4>2, PhasesAre
    <3>2. CASE ~(pending.op # Nobody /\ op[pending.op].cancel /\ pending.phase.at # "Complete")
      BY <1>1, <3>2 DEF SettledPending, Nobody
    <3> QED BY <3>1, <3>2
  <2>2. pending.op \in Ops /\ pending.op # o
    BY <1>1, <2>1 DEF Pendings
  <2>3. op[pending.op].at = "returned" /\ op[pending.op].out.checkpoint
    BY <1>1, <2>1 DEF AccountInv, NothingStuck, Nobody
  <2> QED BY <1>6, <2>1, <2>2, <2>3
<1> QED
  BY <1>1, <1>3, <1>6, <1>8, <1>9, <1>10, <1>11 DEF AccountInv, AccountTypes

-----------------------------------------------------------------------------
(* Every step of the session core preserves the invariant.                 *)
LEMMA AccountStep == AccountInv /\ [AccountNext]_avars => AccountInv'
PROOF
<1> SUFFICES ASSUME AccountInv, [AccountNext]_avars PROVE AccountInv'
  OBVIOUS
<1>1. ASSUME NEW o \in Ops, NEW c \in Commands[o], Call(o, c) PROVE AccountInv'
  <2>1. c \in CommandNames BY AccountAssumption DEF CommandNames
  <2> QED BY <1>1, <2>1, AccountCallKeeps
<1>2. ASSUME NEW o \in Ops, Begin(o) \/ Resume(o) \/ Enter(o) \/ Issue(o) PROVE AccountInv'
  BY <1>2, BeginKeeps, ResumeKeeps, EnterKeeps, IssueKeeps
<1>3. ASSUME NEW o \in Ops, CancelOp(o) \/ Settle(o) PROVE AccountInv'
  BY <1>3, CancelKeeps, SettleKeeps
<1>4. ASSUME NEW o \in Ops, NEW a \in Answers(o), Answer(o, a) PROVE AccountInv'
  BY <1>4, AnswerKeeps
<1>5. ASSUME NEW signed \in BOOLEAN, ActivateTarget(signed) PROVE AccountInv'
  BY <1>5, ActivateKeeps
<1>6. ASSUME SuspendCore \/ CloseCore PROVE AccountInv'
  BY <1>6, StopKeeps DEF SuspendCore, CloseCore
<1>7. ASSUME Age PROVE AccountInv'
  BY <1>7, AgeKeeps
<1>8. CASE UNCHANGED avars
  <2>1. UNCHANGED <<core, pending, gate, op, issued, old>> BY <1>8 DEF avars
  <2> QED BY <2>1 DEF AccountInv, AccountTypes, OpHolds, OpWaits, Drives, Owes, Forces, Merges, Resumable,
                      CoreHolds, SessionOfTarget, NothingStuck
<1> QED
  BY <1>1, <1>2, <1>3, <1>4, <1>5, <1>6, <1>7, <1>8 DEF AccountNext

(* The invariant holds in every reachable state.                           *)
LEMMA AccountAlways == AccountSpec => []AccountInv
PROOF
  BY AccountStarts, AccountStep, PTL DEF AccountSpec

(* Every rotated pair reaches its host, and no credential reaches another  *)
(* target than its own: AccountKept, for any number of operations, targets *)
(* and pairs.                                                              *)
THEOREM AccountIsKept == AccountSpec => []AccountKept
PROOF
<1>1. AccountInv => AccountKept
  <2> SUFFICES ASSUME AccountInv PROVE AccountKept
    OBVIOUS
  <2>1. SessionOfTarget BY DEF AccountInv, CoreHolds
  <2>2. \A o \in Ops : Owes(o) BY DEF AccountInv, OpHolds
  <2> QED BY <2>1, <2>2 DEF AccountKept, Isolated, DriveIsolated, RotationKept, RotationReturned, CheckpointFirst, Owes
<1> QED
  BY <1>1, AccountAlways, PTL

(* A rejected session costs at most one forced refresh per operation,      *)
(* merged maintenance costs none, success is reported only of a finished   *)
(* operation, and what blocks the next operation can be ended: Recovers.   *)
THEOREM SessionRecovers == AccountSpec => []Recovers
PROOF
<1>1. AccountInv => Recovers
  <2> SUFFICES ASSUME AccountInv PROVE Recovers
    OBVIOUS
  <2>1. OneForcedRefresh BY DEF AccountInv, OpHolds, Forces, OneForcedRefresh
  <2>2. NoSecondRefresh BY DEF AccountInv, OpHolds, Merges, NoSecondRefresh
  <2>3. SuccessIsReal BY DEF AccountInv, OpHolds, Owes, SuccessIsReal
  <2> QED BY <2>1, <2>2, <2>3 DEF AccountInv, Recovers
<1> QED
  BY <1>1, AccountAlways, PTL

(***************************************************************************)
(* Connection.                                                             *)
(***************************************************************************)

(* What the fields of the four records range over.                         *)
Auths == {"none", "Unavailable", "Authenticated", "Rejected"}
Statuses == {"Disconnected", "Connecting", "Reconnecting", "Connected"}
Snapshots == [generation : Nat, status : Statuses, auth : Auths]
Connections == [key : Keys \cup {"none"}, generation : 0..MaxGenerations, peer : 0..MaxGenerations,
                closed : {"no", "closing", "yes"}, snapshot : Snapshots]
MaintainSteps == {"none", "top", "connecting", "opened", "publishing", "up", "rejected", "lost", "backoff", "done"}
Tasks == [at : MaintainSteps, key : Keys \cup {"none"}, cancel : BOOLEAN, open : BOOLEAN,
          failures : Nat, said : SUBSET Auths]
Waits == [at : {"none", "waiting", "returned"}, generation : Nat, auth : Auths]
Invocations == [at : {"none", "ws", "http", "sent", "answered", "failed"},
                transport : {"none", "Auto", "Http", "Websocket"}, key : Keys \cup {"none"},
                peer : 0..MaxGenerations, ws : Nat, http : Nat]

(* What the variables range over.                                          *)
ConnectionTypes ==
  /\ conn \in Connections
  /\ task \in [Generations -> Tasks]
  /\ wait \in Waits
  /\ call \in [Requests -> Invocations]

(* A task that is there maintains the newest generation or an older one,   *)
(* and holds a socket only at the steps that close it.                     *)
TaskOk(g) ==
  /\ task[g].open => task[g].at \in {"opened", "publishing", "up"}
  /\ g > conn.generation => task[g] = NoTask
  /\ g = conn.generation /\ task[g].at # "none" => task[g].key = conn.key
  /\ conn.closed = "yes" => task[g].at \in {"none", "done"}

(* The published peer is the one of the current generation; what the       *)
(* snapshot says of its credentials, its task said.                        *)
Published ==
  /\ conn.snapshot.generation = conn.generation
  /\ conn.peer # 0 => /\ conn.peer = conn.generation /\ task[conn.peer].key = conn.key
                      /\ task[conn.peer].at # "none"
  /\ conn.snapshot.auth \in {"Authenticated", "Rejected"}
       => conn.generation # 0 /\ conn.snapshot.auth \in task[conn.generation].said

(* A caller waits for a generation that was there when it asked.           *)
WaitOk ==
  /\ wait.generation <= conn.generation
  /\ wait.at # "returned" => wait.auth = "none"

(* A call is sent once, over a peer with its own key.                      *)
InvocationOk(c) ==
  /\ call[c].peer <= conn.generation
  /\ call[c].peer # 0 => task[call[c].peer].key = call[c].key
  /\ call[c].at \in {"none", "ws", "http"} => call[c].ws = 0 /\ call[c].http = 0 /\ call[c].peer = 0
  /\ call[c].ws + call[c].http <= 1

(* The inductive invariant of the connection.                              *)
ConnectionInv ==
  /\ ConnectionTypes
  /\ \A g \in Generations : TaskOk(g)
  /\ Published /\ WaitOk /\ AnswerOfOwnKey
  /\ \A c \in Requests : InvocationOk(c)

-----------------------------------------------------------------------------
(* No peer is one of the numbers that name a peer.                         *)
LEMMA NoPeerIsNamed == 0 \in 0..MaxGenerations
PROOF
  BY ConnectionAssumption

(* A connection that is not there satisfies it.                            *)
LEMMA ConnectionStarts == ConnectionInit => ConnectionInv
PROOF
<1> SUFFICES ASSUME ConnectionInit PROVE ConnectionInv
  OBVIOUS
<1>1. conn \in Connections
  BY ConnectionAssumption DEF ConnectionInit, Connections, Snapshot, Snapshots, Statuses, Auths
<1>2. task \in [Generations -> Tasks] /\ wait \in Waits /\ call \in [Requests -> Invocations]
  BY ConnectionAssumption DEF ConnectionInit, Tasks, NoTask, Waits, NoWait, Invocations, NoRequest, MaintainSteps, Auths
<1>3. \A g \in Generations : TaskOk(g)
  BY DEF ConnectionInit, TaskOk, NoTask, Generations
<1>4. Published /\ WaitOk /\ AnswerOfOwnKey
  BY DEF ConnectionInit, Published, Snapshot, WaitOk, AnswerOfOwnKey, NoWait
<1>5. \A c \in Requests : InvocationOk(c)
  BY ConnectionAssumption DEF ConnectionInit, InvocationOk, NoRequest
<1> QED
  BY <1>1, <1>2, <1>3, <1>4, <1>5 DEF ConnectionInv, ConnectionTypes

(* What a step of one task leaves: it keeps its key and has said no less.  *)
LEMMA TaskKeeps ==
  ASSUME ConnectionInv, NEW g \in Generations, NEW k \in Tasks, conn' \in Connections,
         task' = [task EXCEPT ![g] = k], UNCHANGED <<wait, call>>,
         task[g].at # "none", k.key = task[g].key, task[g].said \subseteq k.said, k.at # "none",
         k.open => k.at \in {"opened", "publishing", "up"},
         conn'.generation = conn.generation, conn'.key = conn.key, conn'.closed = conn.closed,
         conn.closed = "yes" => k.at = "done",
         \/ conn' = conn
         \/ /\ g = conn.generation /\ conn'.peer \in {0, g} /\ conn'.snapshot.generation = g
            /\ conn'.snapshot.auth \in {"Authenticated", "Rejected"} => conn'.snapshot.auth \in k.said
         PROVE ConnectionInv'
PROOF
<1> USE ConnectionAssumption DEF Generations
<1>1. /\ conn \in Connections /\ task \in [Generations -> Tasks]
      /\ \A h \in Generations : TaskOk(h)
  BY DEF ConnectionInv, ConnectionTypes
<1>2. /\ \A h \in Generations : task'[h].key = task[h].key /\ task[h].said \subseteq task'[h].said
      /\ task'[g] = k /\ \A h \in Generations : h # g => task'[h] = task[h]
  BY <1>1
<1>3. ConnectionTypes'
  BY <1>1 DEF ConnectionInv, ConnectionTypes
<1>4. ASSUME NEW h \in Generations PROVE TaskOk(h)'
  <2>1. CASE h # g
    BY <1>1, <1>2, <2>1 DEF TaskOk
  <2>2. CASE h = g
    BY <1>1, <1>2, <2>2 DEF TaskOk, NoTask
  <2> QED BY <2>1, <2>2
<1>5. Published'
  <2>1. Published BY DEF ConnectionInv
  <2>2. CASE conn' = conn
    BY <1>1, <1>2, <2>1, <2>2 DEF Published, Connections, Snapshots
  <2>3. CASE g = conn.generation
    BY <1>1, <1>2, <2>1, <2>3 DEF Published, Connections, Snapshots, TaskOk
  <2> QED BY <2>2, <2>3
<1>6. WaitOk'
  BY DEF ConnectionInv, WaitOk
<1>7. AnswerOfOwnKey'
  <2>1. AnswerOfOwnKey /\ wait \in Waits /\ wait.generation <= conn.generation
    BY DEF ConnectionInv, ConnectionTypes, WaitOk
  <2>2. wait.generation # 0 => wait.generation \in Generations
    BY <2>1, <1>1 DEF Waits, Connections
  <2> QED BY <2>1, <2>2, <1>2 DEF AnswerOfOwnKey
<1>8. ASSUME NEW c \in Requests PROVE InvocationOk(c)'
  <2>1. InvocationOk(c) /\ call[c] \in Invocations
    BY DEF ConnectionInv, ConnectionTypes
  <2>2. call[c].peer # 0 => call[c].peer \in Generations
    BY <2>1 DEF Invocations
  <2> QED BY <2>1, <2>2, <1>2 DEF InvocationOk
<1> QED
  BY <1>3, <1>4, <1>5, <1>6, <1>7, <1>8 DEF ConnectionInv

(* What replacing or closing the connection does to its tasks.             *)
LEMMA CancelledIs ==
  ASSUME ConnectionInv
  PROVE  /\ Cancelled \in [Generations -> Tasks]
         /\ \A g \in Generations : /\ Cancelled[g].key = task[g].key /\ Cancelled[g].said = task[g].said
                                   /\ Cancelled[g].at = task[g].at
                                   /\ Cancelled[g].open => task[g].open
                                   /\ g # conn.generation => Cancelled[g] = task[g]
PROOF
<1>1. task \in [Generations -> Tasks]
  BY DEF ConnectionInv, ConnectionTypes
<1>2. ASSUME NEW g \in Generations
      PROVE  LET k == [task[g] EXCEPT !.cancel = TRUE, !.open = @ /\ conn.peer # g] IN
             /\ k \in Tasks /\ k.key = task[g].key /\ k.said = task[g].said /\ k.at = task[g].at
             /\ k.open => task[g].open
  <2>1. task[g] \in Tasks BY <1>1
  <2>2. (task[g].open /\ conn.peer # g) \in BOOLEAN OBVIOUS
  <2> QED BY <2>1, <2>2 DEF Tasks
<1> QED
  BY <1>1, <1>2 DEF Cancelled

(* A new target begins a generation, of which nothing was said yet.        *)
LEMMA SetTargetKeeps ==
  ASSUME ConnectionInv, NEW key \in Keys \cup {"none"}, SetTarget(key) PROVE ConnectionInv'
PROOF
<1> USE ConnectionAssumption DEF Generations
<1> DEFINE g == conn.generation + 1
<1> DEFINE m == IF key = "none" THEN Snapshot(g, "Disconnected", "Unavailable") ELSE Snapshot(g, "Connecting", "none")
<1> DEFINE t == [NoTask EXCEPT !.at = "top", !.key = key]
<1>1. /\ conn \in Connections /\ task \in [Generations -> Tasks]
      /\ \A h \in Generations : TaskOk(h)
  BY DEF ConnectionInv, ConnectionTypes
<1>2. g \in Generations /\ conn.generation \in Nat /\ g > conn.generation /\ conn.generation < MaxGenerations
  BY <1>1 DEF SetTarget, Connections
<1>3. /\ m \in Snapshots /\ m.generation = g /\ m.auth \notin {"Authenticated", "Rejected"}
  BY <1>2 DEF Snapshot, Snapshots, Statuses, Auths
<1>4. /\ t \in Tasks /\ t.key = key /\ t.said = {} /\ t.at = "top" /\ t.open = FALSE
  BY DEF Tasks, NoTask, MaintainSteps, Auths
<1>5. /\ conn' = [conn EXCEPT !.generation = g, !.key = key, !.peer = 0, !.snapshot = m]
      /\ task' = IF key = "none" THEN Cancelled ELSE [Cancelled EXCEPT ![g] = t]
      /\ UNCHANGED <<wait, call>> /\ conn.closed = "no"
  BY DEF SetTarget
<1>6. /\ conn' \in Connections /\ conn'.generation = g /\ conn'.key = key /\ conn'.peer = 0
      /\ conn'.snapshot = m /\ conn'.closed = "no"
  <2> HIDE DEF m, g
  <2>1. g \in 0..MaxGenerations BY <1>2
  <2> QED BY <1>1, <1>3, <1>5, <2>1, NoPeerIsNamed DEF Connections
<1>7. task[g] = NoTask
  BY <1>1, <1>2 DEF TaskOk
<1> HIDE DEF t, m
<1>8. /\ task' \in [Generations -> Tasks]
      /\ \A h \in Generations : h # g => /\ task'[h] = Cancelled[h]
      /\ task'[g] = NoTask \/ (task'[g] = t /\ key # "none")
  BY <1>2, <1>4, <1>5, <1>7, CancelledIs
<1>9. \A h \in Generations : h <= conn.generation => /\ task'[h].key = task[h].key /\ task'[h].said = task[h].said
  BY <1>2, <1>8, CancelledIs
<1>10. ASSUME NEW h \in Generations PROVE TaskOk(h)'
  <2>1. CASE h = g
    BY <2>1, <1>2, <1>4, <1>6, <1>8 DEF TaskOk, NoTask
  <2>2. CASE h # g
    <3>1. TaskOk(h) /\ task'[h] = Cancelled[h] BY <1>1, <1>8, <2>2
    <3>2. h > g => task'[h] = NoTask
      BY <1>2, <3>1, CancelledIs DEF TaskOk
    <3> QED BY <1>6, <3>1, <3>2, <2>2, CancelledIs DEF TaskOk
  <2> QED BY <2>1, <2>2
<1>11. Published'
  BY <1>3, <1>6 DEF Published
<1>12. WaitOk' /\ AnswerOfOwnKey'
  <2>1. WaitOk /\ AnswerOfOwnKey /\ wait \in Waits
    BY DEF ConnectionInv, ConnectionTypes
  <2>2. wait.generation \in Nat /\ wait.generation <= conn.generation /\ wait' = wait
    BY <2>1, <1>5 DEF WaitOk, Waits
  <2>3. WaitOk'
    BY <2>1, <2>2, <1>2, <1>6 DEF WaitOk
  <2> QED BY <2>1, <2>2, <2>3, <1>2, <1>9 DEF AnswerOfOwnKey
<1>13. ASSUME NEW c \in Requests PROVE InvocationOk(c)'
  <2>1. InvocationOk(c) /\ call[c] \in Invocations /\ call' = call
    BY <1>5 DEF ConnectionInv, ConnectionTypes
  <2>2. call[c].peer \in Nat /\ call[c].peer <= conn.generation
    BY <2>1 DEF Invocations, InvocationOk
  <2> QED BY <2>1, <2>2, <1>2, <1>6, <1>9 DEF InvocationOk
<1> QED
  BY <1>5, <1>6, <1>8, <1>10, <1>11, <1>12, <1>13 DEF ConnectionInv, ConnectionTypes

(* A closing connection publishes no peer,                                 *)
LEMMA CloseKeeps == ASSUME ConnectionInv, CloseConnection PROVE ConnectionInv'
PROOF
<1> USE ConnectionAssumption DEF Generations
<1> DEFINE m == Snapshot(conn.generation, "Disconnected", "Unavailable")
<1>1. /\ conn \in Connections /\ task \in [Generations -> Tasks]
      /\ \A h \in Generations : TaskOk(h)
  BY DEF ConnectionInv, ConnectionTypes
<1>2. /\ m \in Snapshots /\ m.generation = conn.generation /\ m.auth = "Unavailable"
  BY <1>1 DEF Snapshot, Snapshots, Statuses, Auths, Connections
<1>3. /\ conn' = [conn EXCEPT !.closed = "closing", !.peer = 0, !.snapshot = m]
      /\ task' = (IF conn.generation = 0 THEN task ELSE Cancelled)
      /\ UNCHANGED <<wait, call>>
  BY DEF CloseConnection
<1> HIDE DEF m
<1>4. /\ conn' \in Connections /\ conn'.generation = conn.generation /\ conn'.key = conn.key
      /\ conn'.peer = 0 /\ conn'.snapshot = m /\ conn'.closed = "closing"
  <2>1. conn \in Connections /\ m \in Snapshots BY <1>1, <1>2
  <2>2. conn' = [conn EXCEPT !.closed = "closing", !.peer = 0, !.snapshot = m] BY <1>3
  <2> QED BY <2>1, <2>2, NoPeerIsNamed DEF Connections
<1>5. /\ task' \in [Generations -> Tasks]
      /\ \A h \in Generations : /\ task'[h].key = task[h].key /\ task'[h].said = task[h].said
                                /\ task'[h].at = task[h].at
                                /\ task'[h].open => task[h].open
                                /\ h # conn.generation => task'[h] = task[h]
  <2>1. CASE conn.generation = 0 BY <2>1, <1>1, <1>3
  <2>2. CASE conn.generation # 0
    <3>1. task' = Cancelled BY <2>2, <1>3
    <3> QED BY <3>1, CancelledIs
  <2> QED BY <2>1, <2>2
<1>6. ASSUME NEW h \in Generations PROVE TaskOk(h)'
  <2>1. h > conn.generation => task'[h] = NoTask
    BY <1>1, <1>5 DEF TaskOk, Connections
  <2>2. TaskOk(h) /\ task'[h].at = task[h].at /\ task'[h].key = task[h].key
    BY <1>1, <1>5
  <2>3. conn'.generation = conn.generation /\ conn'.key = conn.key /\ conn'.closed = "closing"
    BY <1>4
  <2>4. task'[h].open => task[h].open
    BY <1>5
  <2> QED BY <2>1, <2>2, <2>3, <2>4 DEF TaskOk
<1>7. Published'
  BY <1>2, <1>4 DEF Published
<1>8. WaitOk' /\ AnswerOfOwnKey'
  <2>1. WaitOk /\ AnswerOfOwnKey /\ wait \in Waits
    BY DEF ConnectionInv, ConnectionTypes
  <2>2. wait.generation # 0 => wait.generation \in Generations
    BY <2>1, <1>1 DEF Waits, Connections, WaitOk
  <2> QED BY <2>1, <2>2, <1>3, <1>4, <1>5 DEF AnswerOfOwnKey, WaitOk
<1>9. ASSUME NEW c \in Requests PROVE InvocationOk(c)'
  <2>1. InvocationOk(c) /\ call[c] \in Invocations /\ call' = call
    BY <1>3 DEF ConnectionInv, ConnectionTypes
  <2>2. call[c].peer # 0 => call[c].peer \in Generations
    BY <2>1 DEF Invocations
  <2> QED BY <2>1, <2>2, <1>4, <1>5 DEF InvocationOk
<1> QED
  BY <1>3, <1>4, <1>5, <1>6, <1>7, <1>8, <1>9 DEF ConnectionInv, ConnectionTypes

(* and is closed once its tasks are.                                       *)
LEMMA JoinedKeeps == ASSUME ConnectionInv, Joined PROVE ConnectionInv'
PROOF
<1>1. /\ conn \in Connections /\ task \in [Generations -> Tasks]
      /\ \A h \in Generations : TaskOk(h)
  BY DEF ConnectionInv, ConnectionTypes
<1>2. /\ conn' \in Connections /\ conn'.generation = conn.generation /\ conn'.key = conn.key
      /\ conn'.peer = conn.peer /\ conn'.snapshot = conn.snapshot /\ UNCHANGED <<task, wait, call>>
  BY <1>1 DEF Joined, Connections
<1>3. \A g \in Generations : TaskOk(g)'
  BY <1>1, <1>2 DEF Joined, TaskOk
<1>4. (Published /\ WaitOk /\ AnswerOfOwnKey /\ \A c \in Requests : InvocationOk(c))'
  BY <1>2 DEF ConnectionInv, Published, WaitOk, AnswerOfOwnKey, InvocationOk
<1> QED
  BY <1>2, <1>3, <1>4 DEF ConnectionInv, ConnectionTypes

(* Every step of a task that maintains a generation preserves the          *)
(* invariant,                                                              *)
LEMMA TaskSteps ==
  ASSUME ConnectionInv, NEW g \in Generations,
         Top(g) \/ Connect(g) \/ Stop(g) \/ Ready(g) \/ Up(g) \/ PeerCloses(g) \/ Noticed(g) \/ Down(g) \/ Backoff(g)
  PROVE  ConnectionInv'
PROOF
<1>1. /\ conn \in Connections /\ task[g] \in Tasks /\ task \in [Generations -> Tasks] /\ TaskOk(g)
  BY DEF ConnectionInv, ConnectionTypes
<1>2. task[g].at # "none" /\ conn.closed = "yes" => task[g].at = "done"
  BY <1>1 DEF TaskOk
<1>3. ASSUME NEW s \in Statuses, NEW a \in Auths, NEW p \in {0, g}, Publish(g, s, a, p)
      PROVE  /\ conn' \in Connections /\ conn'.generation = conn.generation /\ conn'.key = conn.key
             /\ conn'.closed = conn.closed
             /\ \/ conn' = conn /\ ~Current(g)
                \/ /\ Current(g) /\ g = conn.generation /\ conn'.peer = p /\ conn'.snapshot.generation = g
                   /\ conn'.snapshot.auth = a
  <2>1. CASE ~Current(g) BY <2>1, <1>3, <1>1 DEF Publish
  <2>2. CASE Current(g)
    <3>1. Snapshot(g, s, a) \in Snapshots BY DEF Snapshot, Snapshots, Generations
    <3>2. p \in 0..MaxGenerations BY ConnectionAssumption DEF Generations
    <3> QED BY <1>3, <2>2, <3>1, <3>2, <1>1 DEF Publish, Connections, Current, Snapshot
  <2> QED BY <2>1, <2>2
<1>4. CASE Top(g)
  <2>1. CASE task[g].cancel \/ ~Current(g)
    <3> DEFINE k == [task[g] EXCEPT !.at = "done"]
    <3>1. k \in Tasks /\ k.key = task[g].key /\ k.said = task[g].said /\ k.at = "done" /\ k.open = task[g].open
      BY <1>1 DEF Tasks, MaintainSteps
    <3>2. task' = [task EXCEPT ![g] = k] /\ conn' = conn /\ UNCHANGED <<wait, call>> /\ task[g].at = "top"
      BY <1>4, <2>1, <1>1 DEF Top
    <3>3. ~k.open BY <1>1, <3>1, <3>2 DEF TaskOk
    <3> HIDE DEF k
    <3> QED BY <3>1, <3>2, <3>3, <1>1, TaskKeeps
  <2>2. CASE ~(task[g].cancel \/ ~Current(g))
    <3> DEFINE k == [task[g] EXCEPT !.at = "connecting"]
               s == IF task[g].failures = 0 THEN "Connecting" ELSE "Reconnecting"
    <3>1. k \in Tasks /\ k.key = task[g].key /\ k.said = task[g].said /\ k.at = "connecting" /\ k.open = task[g].open
      BY <1>1 DEF Tasks, MaintainSteps
    <3>2. /\ task' = [task EXCEPT ![g] = k] /\ conn' = [conn EXCEPT !.snapshot = Snapshot(g, s, "none")]
          /\ UNCHANGED <<wait, call>> /\ task[g].at = "top"
      BY <1>4, <2>2, <1>1 DEF Top
    <3>3. ~k.open BY <1>1, <3>1, <3>2 DEF TaskOk
    <3>4. Snapshot(g, s, "none") \in Snapshots /\ Snapshot(g, s, "none").generation = g /\ Snapshot(g, s, "none").auth = "none"
      BY DEF Snapshot, Snapshots, Generations, Statuses, Auths
    <3> HIDE DEF k, s
    <3>5. /\ conn' \in Connections /\ conn'.generation = conn.generation /\ conn'.key = conn.key
          /\ conn'.closed = conn.closed /\ conn'.peer = conn.peer /\ conn'.snapshot = Snapshot(g, s, "none")
      BY <3>2, <3>4, <1>1 DEF Connections
    <3>6. conn.generation = g /\ conn.closed = "no" /\ conn.peer \in {0, g}
      BY <2>2 DEF Current, ConnectionInv, Published
    <3> QED BY <3>1, <3>2, <3>3, <3>4, <3>5, <3>6, <1>1, TaskKeeps
  <2> QED BY <2>1, <2>2
<1>5. CASE Connect(g)
  <2>1. task[g].at = "connecting" /\ conn' = conn /\ UNCHANGED <<wait, call>> /\ ~task[g].open
    BY <1>5, <1>1 DEF Connect, TaskOk
  <2>2. CASE task' = [task EXCEPT ![g].at = "opened", ![g].open = TRUE]
    <3> DEFINE k == [task[g] EXCEPT !.at = "opened", !.open = TRUE]
    <3>1. k \in Tasks /\ k.key = task[g].key /\ k.said = task[g].said /\ k.at = "opened"
      BY <1>1 DEF Tasks, MaintainSteps
    <3>2. task' = [task EXCEPT ![g] = k] BY <2>2, <1>1
    <3> HIDE DEF k
    <3> QED BY <2>1, <3>1, <3>2, <1>1, <1>2, TaskKeeps
  <2>3. ASSUME NEW at \in {"rejected", "lost"}, task' = [task EXCEPT ![g].at = at] PROVE ConnectionInv'
    <3> DEFINE k == [task[g] EXCEPT !.at = at]
    <3>1. k \in Tasks /\ k.key = task[g].key /\ k.said = task[g].said /\ k.at = at /\ k.open = task[g].open
      BY <1>1 DEF Tasks, MaintainSteps
    <3>2. task' = [task EXCEPT ![g] = k] BY <2>3, <1>1
    <3> HIDE DEF k
    <3> QED BY <2>1, <3>1, <3>2, <1>1, <1>2, TaskKeeps
  <2> QED BY <1>5, <2>2, <2>3 DEF Connect
<1>6. CASE Stop(g)
  <2> DEFINE k == [task[g] EXCEPT !.at = "done", !.open = FALSE]
  <2>1. k \in Tasks /\ k.key = task[g].key /\ k.said = task[g].said /\ k.at = "done" /\ k.open = FALSE
    BY <1>1 DEF Tasks, MaintainSteps
  <2>2. task' = [task EXCEPT ![g] = k] /\ conn' = conn /\ UNCHANGED <<wait, call>> /\ task[g].at # "none"
    BY <1>6, <1>1 DEF Stop, Ends
  <2> HIDE DEF k
  <2> QED BY <2>1, <2>2, <1>1, TaskKeeps
<1>7. CASE Ready(g)
  <2> DEFINE k == [task[g] EXCEPT !.at = "publishing"]
  <2>1. k \in Tasks /\ k.key = task[g].key /\ k.said = task[g].said /\ k.at = "publishing"
    BY <1>1 DEF Tasks, MaintainSteps
  <2>2. task' = [task EXCEPT ![g] = k] /\ conn' = conn /\ UNCHANGED <<wait, call>> /\ task[g].at = "opened"
    BY <1>7, <1>1 DEF Ready
  <2> HIDE DEF k
  <2> QED BY <2>1, <2>2, <1>1, <1>2, TaskKeeps
<1>8. CASE Up(g)
  <2> DEFINE d == Said(g, "Authenticated")
             k == [task[g] EXCEPT !.at = "up", !.failures = 0, !.said = d]
  <2>1. d \in SUBSET Auths /\ task[g].said \subseteq d /\ (Current(g) => "Authenticated" \in d)
    BY <1>1 DEF Said, Auths, Tasks
  <2> HIDE DEF d
  <2>2. k \in Tasks /\ k.key = task[g].key /\ k.said = d /\ k.at = "up"
    BY <1>1, <2>1 DEF Tasks, MaintainSteps
  <2>3. task' = [task EXCEPT ![g] = k] /\ UNCHANGED <<wait, call>> /\ task[g].at = "publishing"
    BY <1>8, <1>1 DEF Up, d
  <2>4. Publish(g, "Connected", "Authenticated", g) /\ "Connected" \in Statuses /\ "Authenticated" \in Auths
    BY <1>8 DEF Up, Statuses, Auths
  <2> HIDE DEF k
  <2>5. /\ conn' \in Connections /\ conn'.generation = conn.generation /\ conn'.key = conn.key
        /\ conn'.closed = conn.closed
        /\ \/ conn' = conn
           \/ /\ Current(g) /\ g = conn.generation /\ conn'.peer \in {0, g} /\ conn'.snapshot.generation = g
              /\ conn'.snapshot.auth = "Authenticated"
    BY <2>4, <1>3
  <2> QED BY <2>1, <2>2, <2>3, <2>5, <1>1, <1>2, TaskKeeps
<1>9. CASE PeerCloses(g)
  <2> DEFINE k == [task[g] EXCEPT !.open = FALSE]
  <2>1. k \in Tasks /\ k.key = task[g].key /\ k.said = task[g].said /\ k.at = task[g].at /\ k.open = FALSE
    BY <1>1 DEF Tasks, MaintainSteps
  <2>2. task' = [task EXCEPT ![g] = k] /\ conn' = conn /\ UNCHANGED <<wait, call>> /\ task[g].at # "none"
    BY <1>9, <1>1 DEF PeerCloses
  <2> HIDE DEF k
  <2> QED BY <2>1, <2>2, <1>1, <1>2, TaskKeeps
<1>10. CASE Noticed(g)
  <2> PICK at \in {"rejected", "lost"} : task' = [task EXCEPT ![g].at = at] BY <1>10 DEF Noticed
  <2> DEFINE k == [task[g] EXCEPT !.at = at]
  <2>1. k \in Tasks /\ k.key = task[g].key /\ k.said = task[g].said /\ k.at = at /\ k.open = task[g].open
    BY <1>1 DEF Tasks, MaintainSteps
  <2>2. task' = [task EXCEPT ![g] = k] /\ conn' = conn /\ UNCHANGED <<wait, call>> /\ task[g].at = "up" /\ ~task[g].open
    BY <1>10, <1>1 DEF Noticed
  <2> HIDE DEF k
  <2> QED BY <2>1, <2>2, <1>1, <1>2, TaskKeeps
<1>11. CASE Down(g)
  <2>1. task[g].at \in {"rejected", "lost"} /\ ~task[g].open /\ UNCHANGED <<wait, call>>
    BY <1>11, <1>1 DEF Down, TaskOk
  <2>2. CASE task[g].at = "lost"
    <3> DEFINE f == task[g].failures + 1
               k == [task[g] EXCEPT !.at = "backoff", !.failures = f]
    <3>1. f \in Nat BY <1>1 DEF Tasks
    <3>2. task' = [task EXCEPT ![g] = k] /\ Publish(g, "Reconnecting", "Unavailable", 0)
      BY <1>11, <2>2, <1>1 DEF Down
    <3> HIDE DEF f
    <3>3. k \in Tasks /\ k.key = task[g].key /\ k.said = task[g].said /\ k.at = "backoff" /\ k.open = task[g].open
      BY <1>1, <3>1 DEF Tasks, MaintainSteps
    <3> HIDE DEF k
    <3>4. "Reconnecting" \in Statuses /\ "Unavailable" \in Auths BY DEF Statuses, Auths
    <3>5. /\ conn' \in Connections /\ conn'.generation = conn.generation /\ conn'.key = conn.key
          /\ conn'.closed = conn.closed
          /\ \/ conn' = conn
             \/ /\ g = conn.generation /\ conn'.peer \in {0, g} /\ conn'.snapshot.generation = g
                /\ conn'.snapshot.auth = "Unavailable"
      BY <3>2, <3>4, <1>3
    <3> QED BY <2>1, <3>3, <3>2, <3>5, <1>1, <1>2, TaskKeeps
  <2>3. CASE task[g].at # "lost"
    <3> DEFINE d == Said(g, "Rejected")
               k == [task[g] EXCEPT !.at = "done", !.said = d]
    <3>1. d \in SUBSET Auths /\ task[g].said \subseteq d /\ (Current(g) => "Rejected" \in d)
      BY <1>1 DEF Said, Auths, Tasks
    <3>2. task' = [task EXCEPT ![g] = k] /\ Publish(g, "Disconnected", "Rejected", 0)
      BY <1>11, <2>3, <1>1 DEF Down
    <3> HIDE DEF d
    <3>3. k \in Tasks /\ k.key = task[g].key /\ k.said = d /\ k.at = "done" /\ k.open = task[g].open
      BY <1>1, <3>1 DEF Tasks, MaintainSteps
    <3> HIDE DEF k
    <3>4. "Disconnected" \in Statuses /\ "Rejected" \in Auths BY DEF Statuses, Auths
    <3>5. /\ conn' \in Connections /\ conn'.generation = conn.generation /\ conn'.key = conn.key
          /\ conn'.closed = conn.closed
          /\ \/ conn' = conn
             \/ /\ Current(g) /\ g = conn.generation /\ conn'.peer \in {0, g} /\ conn'.snapshot.generation = g
                /\ conn'.snapshot.auth = "Rejected"
      BY <3>2, <3>4, <1>3
    <3> QED BY <2>1, <3>1, <3>3, <3>2, <3>5, <1>1, <1>2, TaskKeeps
  <2> QED BY <2>2, <2>3
<1>12. CASE Backoff(g)
  <2> DEFINE k == [task[g] EXCEPT !.at = "top"]
  <2>1. k \in Tasks /\ k.key = task[g].key /\ k.said = task[g].said /\ k.at = "top" /\ k.open = task[g].open
    BY <1>1 DEF Tasks, MaintainSteps
  <2>2. task' = [task EXCEPT ![g] = k] /\ conn' = conn /\ UNCHANGED <<wait, call>> /\ task[g].at = "backoff" /\ ~task[g].open
    BY <1>12, <1>1 DEF Backoff, TaskOk
  <2> HIDE DEF k
  <2> QED BY <2>1, <2>2, <1>1, <1>2, TaskKeeps
<1> QED
  BY <1>4, <1>5, <1>6, <1>7, <1>8, <1>9, <1>10, <1>11, <1>12

(* every step of a caller that waits to be authenticated,                  *)
LEMMA WaitSteps == ASSUME ConnectionInv, Authenticate \/ AuthReturns PROVE ConnectionInv'
PROOF
<1>1. /\ conn \in Connections /\ wait \in Waits /\ Published /\ WaitOk /\ AnswerOfOwnKey
  BY DEF ConnectionInv, ConnectionTypes
<1>2. UNCHANGED <<conn, task, call>>
  BY DEF Authenticate, AuthReturns
<1>3. wait' \in Waits /\ WaitOk' /\ AnswerOfOwnKey'
  <2>1. CASE Authenticate
    <3>1. /\ wait' \in Waits /\ wait'.at = "waiting" /\ wait'.auth = "none" /\ wait'.generation = conn.snapshot.generation
      BY <2>1, <1>1 DEF Authenticate, NoWait, Waits, Connections, Snapshots, Auths
    <3> QED BY <3>1, <1>1, <1>2 DEF WaitOk, AnswerOfOwnKey, Published, Connections
  <2>2. CASE AuthReturns
    <3>1. AuthAnswer \in Auths
      BY <1>1 DEF AuthAnswer, Connections, Snapshots, Auths
    <3>2. /\ wait' \in Waits /\ wait'.at = "returned" /\ wait'.auth = AuthAnswer /\ wait'.generation = wait.generation
      BY <3>1, <2>2, <1>1 DEF AuthReturns, Waits
    <3>3. AuthAnswer \in {"Authenticated", "Rejected"}
            => conn.snapshot.generation = wait.generation /\ AuthAnswer = conn.snapshot.auth
      BY DEF AuthAnswer
    <3> QED BY <3>2, <3>3, <1>1, <1>2 DEF WaitOk, AnswerOfOwnKey, Published
  <2> QED BY <2>1, <2>2
<1>4. ((\A g \in Generations : TaskOk(g)) /\ Published /\ \A c \in Requests : InvocationOk(c))'
  BY <1>2 DEF ConnectionInv, TaskOk, Published, InvocationOk
<1> QED
  BY <1>2, <1>3, <1>4 DEF ConnectionInv, ConnectionTypes

(* A step of one call.                                                     *)
LEMMA ConnectionCallKeeps ==
  ASSUME ConnectionInv, NEW c \in Requests, NEW k \in Invocations,
         call' = [call EXCEPT ![c] = k], UNCHANGED <<conn, task, wait>>,
         k.peer = 0 \/ (k.peer <= conn.generation /\ task[k.peer].key = k.key),
         k.at \in {"none", "ws", "http"} => k.ws = 0 /\ k.http = 0 /\ k.peer = 0,
         k.ws + k.http <= 1
  PROVE  ConnectionInv'
PROOF
<1>1. call' \in [Requests -> Invocations] /\ call'[c] = k /\ \A x \in Requests : x # c => call'[x] = call[x]
  BY DEF ConnectionInv, ConnectionTypes
<1>2. ASSUME NEW x \in Requests PROVE InvocationOk(x)'
  <2>1. CASE x = c
    <3>1. conn.generation \in Nat BY DEF ConnectionInv, ConnectionTypes, Connections
    <3> QED BY <2>1, <3>1, <1>1 DEF InvocationOk
  <2>2. CASE x # c BY <2>2, <1>1 DEF InvocationOk, ConnectionInv
  <2> QED BY <2>1, <2>2
<1>3. ((\A g \in Generations : TaskOk(g)) /\ Published /\ WaitOk /\ AnswerOfOwnKey)'
  BY DEF ConnectionInv, TaskOk, Published, WaitOk, AnswerOfOwnKey
<1> QED
  BY <1>1, <1>2, <1>3 DEF ConnectionInv, ConnectionTypes

(* and every step of a call.                                               *)
LEMMA ConnectionCallSteps ==
  ASSUME ConnectionInv, NEW c \in Requests, Choose(c) \/ Dispatch(c) \/ PostHttp(c) \/ CallEnds(c)
  PROVE  ConnectionInv'
PROOF
<1>1. /\ conn \in Connections /\ call \in [Requests -> Invocations] /\ call[c] \in Invocations
      /\ InvocationOk(c) /\ Published
  BY DEF ConnectionInv, ConnectionTypes
<1>2. CASE Choose(c)
  <2> PICK key \in Keys, transport \in {"Auto", "Http", "Websocket"} :
         call' = [call EXCEPT ![c] = [@ EXCEPT !.key = key, !.transport = transport,
           !.at = IF transport = "Websocket" \/ (transport = "Auto" /\ PeerFor(key) # 0) THEN "ws" ELSE "http"]]
    BY <1>2 DEF Choose
  <2> DEFINE a == IF transport = "Websocket" \/ (transport = "Auto" /\ PeerFor(key) # 0) THEN "ws" ELSE "http"
             k == [call[c] EXCEPT !.key = key, !.transport = transport, !.at = a]
  <2>1. a \in {"ws", "http"} OBVIOUS
  <2>2. call' = [call EXCEPT ![c] = k] /\ UNCHANGED <<conn, task, wait>> /\ call[c].at = "none"
    BY <1>2, <1>1 DEF Choose
  <2> HIDE DEF a
  <2>3. k \in Invocations /\ k.ws = call[c].ws /\ k.http = call[c].http /\ k.peer = call[c].peer
    BY <1>1, <2>1 DEF Invocations
  <2> HIDE DEF k
  <2>4. k.ws + k.http <= 1 /\ (k.at \in {"none", "ws", "http"} => k.ws = 0 /\ k.http = 0 /\ k.peer = 0) /\ k.peer = 0
    BY <1>1, <2>2, <2>3 DEF InvocationOk
  <2> QED BY <2>2, <2>3, <2>4, ConnectionCallKeeps
<1>3. CASE Dispatch(c)
  <2>1. call[c].at = "ws" /\ UNCHANGED <<conn, task, wait>> /\ call[c].ws = 0 /\ call[c].http = 0 /\ call[c].peer = 0
    BY <1>3, <1>1 DEF Dispatch, InvocationOk
  <2>2. CASE PeerFor(call[c].key) = 0
    <3> DEFINE k == [call[c] EXCEPT !.at = "failed"]
    <3>1. call' = [call EXCEPT ![c] = k] BY <1>3, <2>2, <1>1 DEF Dispatch, WsFailed
    <3>2. k \in Invocations /\ k.ws = 0 /\ k.http = 0 /\ k.peer = 0 /\ k.at = "failed"
      BY <1>1, <2>1 DEF Invocations
    <3> HIDE DEF k
    <3>3. k.ws + k.http <= 1 BY <3>2
    <3> QED BY <2>1, <3>1, <3>2, <3>3, ConnectionCallKeeps
  <2>3. CASE PeerFor(call[c].key) # 0
    <3> DEFINE p == PeerFor(call[c].key)
               k == [call[c] EXCEPT !.at = "sent", !.peer = p, !.ws = 1]
    <3>1. call' = [call EXCEPT ![c] = [call[c] EXCEPT !.at = "sent", !.peer = p, !.ws = 1]]
      BY <1>3, <2>1, <2>3, <1>1 DEF Dispatch, Invocations
    <3>2. call' = [call EXCEPT ![c] = k] BY <3>1
    <3>3. /\ p = conn.peer /\ p \in 0..MaxGenerations /\ p = conn.generation
          /\ task[p].key = call[c].key
      BY <2>3, <1>1 DEF PeerFor, Published, Connections
    <3> HIDE DEF p
    <3>4. call[c] \in Invocations /\ call[c].ws = 0 /\ call[c].http = 0 /\ p \in 0..MaxGenerations
      BY <1>1, <2>1, <3>3
    <3>5. k \in Invocations /\ k.ws = 1 /\ k.http = 0 /\ k.peer = p /\ k.key = call[c].key /\ k.at = "sent"
      BY <3>4 DEF Invocations
    <3> HIDE DEF k
    <3>6. k.ws + k.http <= 1 BY <3>5
    <3>7. k.peer <= conn.generation /\ task[k.peer].key = k.key
      BY <1>1, <3>3, <3>5 DEF Connections
    <3> QED BY <2>1, <3>2, <3>5, <3>6, <3>7, ConnectionCallKeeps
  <2> QED BY <2>2, <2>3
<1>4. CASE PostHttp(c)
  <2> DEFINE k == [call[c] EXCEPT !.at = "sent", !.http = 1]
  <2>1. call[c].at = "http" /\ UNCHANGED <<conn, task, wait>> /\ call[c].ws = 0 /\ call[c].http = 0 /\ call[c].peer = 0
    BY <1>4, <1>1 DEF PostHttp, InvocationOk
  <2>2. call' = [call EXCEPT ![c] = k] BY <1>4, <2>1, <1>1 DEF PostHttp, Invocations
  <2>3. k \in Invocations /\ k.ws = 0 /\ k.http = 1 /\ k.peer = 0 /\ k.at = "sent"
    <3>1. call[c] \in Invocations /\ call[c].ws = 0 /\ call[c].http = 0 /\ call[c].peer = 0 BY <1>1, <2>1
    <3> QED BY <3>1 DEF Invocations
  <2> HIDE DEF k
  <2>4. k.ws + k.http <= 1 BY <2>3
  <2> QED BY <2>1, <2>2, <2>3, <2>4, ConnectionCallKeeps
<1>5. CASE CallEnds(c)
  <2>1. call[c].at = "sent" /\ UNCHANGED <<conn, task, wait>>
    BY <1>5 DEF CallEnds
  <2> PICK at \in {"answered", "failed"} : call' = [call EXCEPT ![c].at = at]
    BY <1>5 DEF CallEnds, WsFailed
  <2> DEFINE k == [call[c] EXCEPT !.at = at]
  <2>2. call' = [call EXCEPT ![c] = k] BY <1>1
  <2>3. k \in Invocations /\ k.ws = call[c].ws /\ k.http = call[c].http /\ k.peer = call[c].peer /\ k.key = call[c].key /\ k.at = at
    BY <1>1 DEF Invocations
  <2> HIDE DEF k
  <2>4. k.ws + k.http <= 1 /\ (k.peer = 0 \/ (k.peer <= conn.generation /\ task[k.peer].key = k.key))
    BY <1>1, <2>3 DEF InvocationOk
  <2> QED BY <2>1, <2>2, <2>3, <2>4, ConnectionCallKeeps
<1> QED
  BY <1>2, <1>3, <1>4, <1>5

(* So every step preserves it.                                             *)
LEMMA ConnectionStep == ConnectionInv /\ [ConnectionNext]_nvars => ConnectionInv'
PROOF
<1> SUFFICES ASSUME ConnectionInv, [ConnectionNext]_nvars PROVE ConnectionInv'
  OBVIOUS
<1>1. CASE UNCHANGED nvars
  BY <1>1 DEF nvars, ConnectionInv, ConnectionTypes, TaskOk, Published, WaitOk, AnswerOfOwnKey, InvocationOk
<1>2. CASE \E key \in Keys \cup {"none"} : SetTarget(key)
  BY <1>2, SetTargetKeeps
<1>3. ASSUME NEW g \in Generations,
             Top(g) \/ Connect(g) \/ Stop(g) \/ Ready(g) \/ Up(g) \/ PeerCloses(g) \/ Noticed(g) \/ Down(g) \/ Backoff(g)
      PROVE ConnectionInv'
  BY <1>3, TaskSteps
<1>4. CASE CloseConnection \/ Joined \/ Authenticate \/ AuthReturns
  BY <1>4, CloseKeeps, JoinedKeeps, WaitSteps
<1>5. ASSUME NEW c \in Requests, Choose(c) \/ Dispatch(c) \/ PostHttp(c) \/ CallEnds(c)
      PROVE ConnectionInv'
  BY <1>5, ConnectionCallSteps
<1> QED
  BY <1>1, <1>2, <1>3, <1>4, <1>5 DEF ConnectionNext

(* What is stated of the connection follows from it.                       *)
LEMMA ConnectionInvImplies == ConnectionInv => CredentialsKept
PROOF
<1> SUFFICES ASSUME ConnectionInv PROVE CredentialsKept
  OBVIOUS
<1>1. PeerOfTarget /\ SentAsOwn /\ SentOnce /\ AnswerOfOwnKey
  BY DEF ConnectionInv, PeerOfTarget, Published, SentAsOwn, SentOnce, InvocationOk
<1>2. NoOrphanSocket
  BY DEF ConnectionInv, NoOrphanSocket, TaskOk
<1> QED
  BY <1>1, <1>2 DEF CredentialsKept

(* A call is sent once and with the key it was made for, and what a caller *)
(* is told of its credentials was said of that generation: CredentialsKept *)
(* in every reachable state, for any keys, calls and generations.          *)
THEOREM CredentialsAreKept == ConnectionSpec => []CredentialsKept
PROOF
  BY ConnectionStarts, ConnectionStep, ConnectionInvImplies, PTL DEF ConnectionSpec

(***************************************************************************)
(* Mobile.                                                                 *)
(***************************************************************************)

(* What the fields of the records range over.                              *)
Clients == [context : Identities \cup {0}, suspended : BOOLEAN, transitioning : BOOLEAN,
            closed : {"no", "closing", "yes"}, account : Works \cup {0}, calls : SUBSET ApiCalls]
ChangeRecords == [at : {"none", "queued", "settling", "done"}, kind : {"none", "set", "suspend", "close"},
                  context : Identities \cup {0}, connect : BOOLEAN,
                  works : SUBSET Works, calls : SUBSET ApiCalls]
WorkRecords == [at : {"none", "new", "running", "connecting", "waiting", "checkpoint", "done"},
                identity : Identities \cup {0}, connect : BOOLEAN, cancel : BOOLEAN,
                closed : BOOLEAN, released : BOOLEAN]
CallRecords == [at : {"none", "new", "running", "done"}, cancel : BOOLEAN, closed : BOOLEAN]

(* What the variables range over.                                          *)
MobileTypes ==
  /\ client \in Clients
  /\ lifecycle \in Changes \cup {0}
  /\ change \in [Changes -> ChangeRecords]
  /\ work \in [Works -> WorkRecords]
  /\ api \in [ApiCalls -> CallRecords]

(* An operation that was started and not yet released is somebody's.       *)
Owned(w) == work[w].at # "none" /\ ~work[w].released

(* What is true of each operation that was started.                        *)
WorkHolds(w) ==
  /\ work[w].released => work[w].closed /\ ~Running(w)
  /\ work[w].at = "connecting" => work[w].connect
  /\ work[w].at # "none" => work[w].identity # 0
  /\ Owned(w) /\ work[w].connect => work[w].identity = client.context

(* There is one at a time, and it is the client's until the client closes. *)
OneOwned ==
  /\ \A v, w \in Works : Owned(v) /\ Owned(w) => v = w
  /\ (lifecycle = 0 \/ change[lifecycle].kind # "close") => \A w \in Works : Owned(w) => w = client.account

(* A call under way is the client's, or the change's that waits for it.    *)
CallHolds(a) ==
  /\ api[a].at = "running" => a \in client.calls \/ (lifecycle # 0 /\ a \in change[lifecycle].calls)
  /\ api[a].at = "new" /\ ~api[a].closed /\ ~api[a].cancel => a \in client.calls

(* The change that has the lock waits for whatever it does not keep.       *)
ChangeHolds(x) ==
  /\ change[x].at = "settling" <=> lifecycle = x
  /\ change[x].at \in {"queued", "settling"} /\ change[x].kind = "close" => client.closed # "no"
  /\ change[x].at = "settling" /\ change[x].kind = "set"
       => \/ client.context \in {0, change[x].context}
          \/ \A w \in Works : Owned(w) => w \in change[x].works
  /\ change[x].at = "settling" /\ change[x].kind \in {"suspend", "close"}
       => (\A w \in Works : Owned(w) => w \in change[x].works) /\ client.calls = {}

(* The client knows of the change that has the lock.                       *)
LifecycleHolds ==
  client.closed = "no" => (client.transitioning <=> lifecycle # 0)

(* A suspended or closed client has nothing under way.                     *)
QuietHolds ==
  (client.closed = "no" /\ client.suspended /\ ~client.transitioning) \/ client.closed = "yes"
    => /\ target = 0 /\ client.calls = {}
       /\ \A w \in Works : ~Owned(w)
       /\ \A a \in ApiCalls : api[a].at # "running"

(* The inductive invariant of the mobile client.                           *)
MobileInv ==
  /\ MobileTypes
  /\ \A w \in Works : WorkHolds(w)
  /\ OneOwned
  /\ \A a \in ApiCalls : CallHolds(a)
  /\ \A x \in Changes : ChangeHolds(x)
  /\ LifecycleHolds /\ QuietHolds /\ TargetCommitted

-----------------------------------------------------------------------------

(* A fresh client satisfies it.                                            *)
LEMMA MobileStarts == MobileInit => MobileInv
PROOF
<1> SUFFICES ASSUME MobileInit PROVE MobileInv
  OBVIOUS
<1>1. client \in Clients /\ client.closed = "no" /\ client.context = 0 /\ ~client.suspended
      /\ ~client.transitioning
  BY DEF MobileInit, Clients
<1>2. change \in [Changes -> ChangeRecords] /\ work \in [Works -> WorkRecords] /\ api \in [ApiCalls -> CallRecords]
  BY DEF MobileInit, NoChange, NoWork, NoCall, ChangeRecords, WorkRecords, CallRecords
<1>3. \A w \in Works : WorkHolds(w) /\ ~Owned(w)
  BY DEF MobileInit, NoWork, WorkHolds, Owned
<1>4. \A a \in ApiCalls : CallHolds(a)
  BY DEF MobileInit, NoCall, CallHolds
<1>5. \A x \in Changes : ChangeHolds(x)
  <2> TAKE x \in Changes
  <2>1. change[x].at = "none" /\ lifecycle = 0 /\ x # 0
    BY MobileAssumption DEF MobileInit, NoChange
  <2> QED BY <2>1 DEF ChangeHolds
<1>6. LifecycleHolds /\ QuietHolds /\ TargetCommitted /\ OneOwned
  BY <1>1, <1>3 DEF MobileInit, LifecycleHolds, QuietHolds, TargetCommitted, OneOwned
<1> QED
  BY <1>1, <1>2, <1>3, <1>4, <1>5, <1>6 DEF MobileInv, MobileTypes, MobileInit

(* A step of one operation that was started: it stays what it is, and may  *)
(* set the target while it has an owner.                                   *)
LEMMA WorkKeeps ==
  ASSUME MobileInv, NEW w \in Works, NEW k \in WorkRecords,
         work' = [work EXCEPT ![w] = k], UNCHANGED <<client, lifecycle, change, api>>,
         k.at = "none" <=> work[w].at = "none", k.identity = work[w].identity, k.connect = work[w].connect,
         work[w].released => k.released,
         k.released => k.closed /\ k.at \notin {"running", "connecting", "waiting"},
         k.at = "connecting" => k.connect,
         target' = target \/ (client.closed # "yes" /\ target' = work[w].identity /\ Owned(w) /\ work[w].connect)
  PROVE  MobileInv'
PROOF
<1>1. work \in [Works -> WorkRecords] /\ \A v \in Works : WorkHolds(v)
  BY DEF MobileInv, MobileTypes
<1>2. work'[w] = k /\ \A v \in Works : v # w => work'[v] = work[v]
  BY <1>1
<1>3. \A v \in Works : Owned(v)' => Owned(v)
  BY <1>2 DEF Owned
<1>4. ASSUME NEW v \in Works PROVE WorkHolds(v)'
  <2>1. CASE v = w
    BY <1>1, <1>2, <2>1 DEF WorkHolds, Owned, Running
  <2>2. CASE v # w
    BY <1>1, <1>2, <2>2 DEF WorkHolds, Owned, Running
  <2> QED BY <2>1, <2>2
<1>5. OneOwned'
  BY <1>3 DEF MobileInv, OneOwned
<1>6. ASSUME NEW x \in Changes PROVE ChangeHolds(x)'
  BY <1>3 DEF MobileInv, ChangeHolds
<1>7. (\A a \in ApiCalls : CallHolds(a))' /\ LifecycleHolds'
  BY DEF MobileInv, CallHolds, LifecycleHolds
<1>8. QuietHolds'
  BY <1>3 DEF MobileInv, QuietHolds
<1>9. TargetCommitted'
  <2>1. Owned(w) /\ work[w].connect => work[w].identity = client.context
    BY <1>1 DEF WorkHolds
  <2> QED BY <2>1 DEF MobileInv, TargetCommitted
<1> QED
  BY <1>1, <1>4, <1>5, <1>6, <1>7, <1>8, <1>9 DEF MobileInv, MobileTypes

(* An operation that begins is the only one.                               *)
LEMMA OperationKeeps ==
  ASSUME MobileInv, NEW w \in Works, NEW i \in Identities, NEW connect \in BOOLEAN, Operation(w, i, connect)
  PROVE  MobileInv'
PROOF
<1> DEFINE k == [NoWork EXCEPT !.at = "new", !.identity = i, !.connect = connect]
<1>1. /\ work \in [Works -> WorkRecords] /\ client \in Clients /\ \A v \in Works : WorkHolds(v)
      /\ LifecycleHolds /\ OneOwned
  BY DEF MobileInv, MobileTypes
<1>2. k \in WorkRecords /\ k.at = "new" /\ k.identity = i /\ k.connect = connect /\ ~k.released /\ i # 0
  BY MobileAssumption DEF WorkRecords, NoWork
<1>3. /\ client.closed = "no" /\ ~client.suspended /\ ~client.transitioning /\ (connect => i = client.context)
      /\ work' = [work EXCEPT ![w] = k] /\ UNCHANGED <<lifecycle, change, api>>
      /\ client' = [client EXCEPT !.account = w] /\ target' = (IF connect THEN i ELSE target) /\ Free
  BY DEF Operation, Available
<1> HIDE DEF k
<1>4. /\ client' \in Clients /\ client'.account = w /\ client'.closed = "no" /\ ~client'.suspended
      /\ ~client'.transitioning /\ client'.context = client.context /\ client'.calls = client.calls
  BY <1>1, <1>3 DEF Clients
<1>5. lifecycle = 0
  BY <1>1, <1>3 DEF LifecycleHolds
<1>6. \A v \in Works : ~Owned(v)
  <2> SUFFICES ASSUME NEW v \in Works, Owned(v) PROVE FALSE
    OBVIOUS
  <2>1. v = client.account /\ v # 0
    BY <1>1, <1>5, MobileAssumption DEF OneOwned
  <2> QED BY <1>3, <2>1 DEF Free, Owned
<1>7. work'[w] = k /\ \A v \in Works : v # w => work'[v] = work[v]
  BY <1>1, <1>3
<1>8. \A v \in Works : Owned(v)' => v = w
  BY <1>6, <1>7 DEF Owned
<1>9. ASSUME NEW v \in Works PROVE WorkHolds(v)'
  <2>1. CASE v = w
    BY <1>2, <1>3, <1>4, <1>7, <2>1 DEF WorkHolds, Owned
  <2>2. CASE v # w
    BY <1>1, <1>4, <1>7, <2>2 DEF WorkHolds, Owned, Running
  <2> QED BY <2>1, <2>2
<1>10. OneOwned'
  BY <1>4, <1>8 DEF OneOwned
<1>11. ASSUME NEW x \in Changes PROVE ChangeHolds(x)'
  <2>1. ChangeHolds(x) /\ x # 0 BY MobileAssumption DEF MobileInv
  <2> QED BY <1>3, <1>4, <1>5, <2>1 DEF ChangeHolds
<1>12. (\A a \in ApiCalls : CallHolds(a))' /\ LifecycleHolds' /\ QuietHolds'
  BY <1>3, <1>4, <1>5 DEF MobileInv, CallHolds, LifecycleHolds, QuietHolds
<1>13. TargetCommitted'
  BY <1>3, <1>4 DEF MobileInv, TargetCommitted
<1> QED
  BY <1>1, <1>2, <1>3, <1>4, <1>9, <1>10, <1>11, <1>12, <1>13 DEF MobileInv, MobileTypes

(* Every step of an operation preserves the invariant,                     *)
LEMMA WorkSteps ==
  ASSUME MobileInv, NEW w \in Works,
         \/ Run(w) \/ Drive(w) \/ Reconnect(w) \/ EndDrive(w) \/ ResumeWork(w)
         \/ CancelWork(w) \/ CloseWork(w) \/ Release(w)
  PROVE  MobileInv'
PROOF
<1>1. work \in [Works -> WorkRecords] /\ work[w] \in WorkRecords /\ WorkHolds(w)
  BY DEF MobileInv, MobileTypes
<1>2. ASSUME NEW at \in {"new", "running", "connecting", "waiting", "checkpoint", "done"}
      PROVE  LET k == [work[w] EXCEPT !.at = at] IN
             /\ k \in WorkRecords /\ k.at = at /\ k.identity = work[w].identity /\ k.connect = work[w].connect
             /\ k.released = work[w].released /\ k.closed = work[w].closed
  BY <1>1 DEF WorkRecords
<1>3. ASSUME NEW at \in {"new", "running", "connecting", "waiting", "checkpoint", "done"},
             work' = [work EXCEPT ![w].at = at], UNCHANGED <<client, lifecycle, change, api>>,
             work[w].at # "none", ~work[w].released, at = "connecting" => work[w].connect,
             target' = target \/ (client.closed # "yes" /\ target' = work[w].identity /\ work[w].connect)
      PROVE  MobileInv'
  <2> DEFINE k == [work[w] EXCEPT !.at = at]
  <2>1. work' = [work EXCEPT ![w] = k] BY <1>3, <1>1
  <2>2. /\ k \in WorkRecords /\ k.at = at /\ k.identity = work[w].identity /\ k.connect = work[w].connect
        /\ k.released = work[w].released
    BY <1>2
  <2>3. Owned(w) BY <1>3 DEF Owned
  <2> HIDE DEF k
  <2> QED BY <1>3, <2>1, <2>2, <2>3, WorkKeeps
<1>4. work[w].released => work[w].closed /\ work[w].at \notin {"running", "connecting", "waiting"}
  BY <1>1 DEF WorkHolds, Running
<1>5. CASE Run(w)
  BY <1>5, <1>3, <1>4 DEF Run
<1>6. CASE Drive(w)
  <2> PICK at \in {"done", "connecting", "waiting"} :
         work' = [work EXCEPT ![w].at = at] /\ (at = "connecting" => work[w].connect)
    BY <1>6 DEF Drive
  <2> QED BY <1>6, <1>3, <1>4 DEF Drive
<1>7. CASE Reconnect(w)
  BY <1>7, <1>1, <1>3, <1>4 DEF Reconnect, WorkHolds
<1>8. CASE EndDrive(w)
  <2> PICK at \in {"done", "checkpoint", "running"} : work' = [work EXCEPT ![w].at = at]
    BY <1>8 DEF EndDrive
  <2> QED BY <1>8, <1>3, <1>4 DEF EndDrive
<1>9. CASE ResumeWork(w)
  BY <1>9, <1>3, <1>4 DEF ResumeWork
<1>10. CASE CancelWork(w)
  <2> DEFINE k == [work[w] EXCEPT !.cancel = TRUE]
  <2>1. work' = [work EXCEPT ![w] = k] /\ UNCHANGED <<client, lifecycle, change, api, target>> /\ work[w].at # "none"
    BY <1>10, <1>1 DEF CancelWork
  <2>2. /\ k \in WorkRecords /\ k.at = work[w].at /\ k.identity = work[w].identity /\ k.connect = work[w].connect
        /\ k.released = work[w].released /\ k.closed = work[w].closed
    BY <1>1 DEF WorkRecords
  <2>3. k.at = "connecting" => k.connect BY <1>1, <2>2 DEF WorkHolds
  <2> HIDE DEF k
  <2> QED BY <1>4, <2>1, <2>2, <2>3, WorkKeeps
<1>11. CASE CloseWork(w)
  <2> DEFINE k == [work[w] EXCEPT !.closed = TRUE, !.cancel = TRUE]
  <2>1. work' = [work EXCEPT ![w] = k]
    BY <1>11, <1>1 DEF CloseWork, Closed
  <2>2. UNCHANGED <<client, lifecycle, change, api, target>> /\ work[w].at # "none"
    BY <1>11 DEF CloseWork
  <2>3. /\ k \in WorkRecords /\ k.at = work[w].at /\ k.identity = work[w].identity /\ k.connect = work[w].connect
        /\ k.released = work[w].released /\ k.closed = TRUE
    BY <1>1 DEF WorkRecords
  <2>4. k.at = "connecting" => k.connect BY <1>1, <2>3 DEF WorkHolds
  <2> HIDE DEF k
  <2> QED BY <1>4, <2>1, <2>3, <2>4, <2>2, WorkKeeps
<1>12. CASE Release(w)
  <2> DEFINE at == IF work[w].at = "checkpoint" THEN "done" ELSE work[w].at
             k == [work[w] EXCEPT !.released = TRUE, !.at = at]
  <2>1. /\ at \in {"none", "new", "running", "connecting", "waiting", "checkpoint", "done"}
        /\ at \notin {"running", "connecting", "waiting"} /\ (at = "none" <=> work[w].at = "none")
        /\ work[w].closed
    BY <1>12, <1>1 DEF Release, SettledDrive, Running, WorkRecords
  <2>2. work' = [work EXCEPT ![w] = k] /\ UNCHANGED <<client, lifecycle, change, api, target>>
    BY <1>12, <1>1 DEF Release
  <2> HIDE DEF at
  <2>3. /\ k \in WorkRecords /\ k.at = at /\ k.identity = work[w].identity /\ k.connect = work[w].connect
        /\ k.released = TRUE /\ k.closed = work[w].closed
    BY <1>1, <2>1 DEF WorkRecords
  <2> HIDE DEF k
  <2> QED BY <2>1, <2>2, <2>3, WorkKeeps
<1> QED
  BY <1>5, <1>6, <1>7, <1>8, <1>9, <1>10, <1>11, <1>12

-----------------------------------------------------------------------------
(* A step of one call that is not cancelled by it.                         *)
LEMMA CallKeeps ==
  ASSUME MobileInv, NEW a \in ApiCalls, NEW k \in CallRecords,
         api' = [api EXCEPT ![a] = k], UNCHANGED <<client, lifecycle, change, work, target>>,
         k.at = "running" => api[a].at = "running" \/ (api[a].at = "new" /\ ~api[a].closed /\ ~api[a].cancel),
         k.at = "new" => api[a].at = "new" /\ k.closed = api[a].closed /\ (api[a].cancel => k.cancel)
  PROVE  MobileInv'
PROOF
<1>1. api \in [ApiCalls -> CallRecords] /\ \A b \in ApiCalls : CallHolds(b)
  BY DEF MobileInv, MobileTypes
<1>2. api'[a] = k /\ \A b \in ApiCalls : b # a => api'[b] = api[b]
  BY <1>1
<1>3. ASSUME NEW b \in ApiCalls PROVE CallHolds(b)'
  <2>1. CASE b = a
    BY <1>1, <1>2, <2>1 DEF CallHolds
  <2>2. CASE b # a
    BY <1>1, <1>2, <2>2 DEF CallHolds
  <2> QED BY <2>1, <2>2
<1>4. (\A w \in Works : WorkHolds(w))' /\ OneOwned' /\ (\A x \in Changes : ChangeHolds(x))'
      /\ LifecycleHolds' /\ TargetCommitted'
  BY DEF MobileInv, WorkHolds, Running, Owned, OneOwned, ChangeHolds, LifecycleHolds, TargetCommitted
<1>5. QuietHolds'
  <2> SUFFICES ASSUME (client.closed = "no" /\ client.suspended /\ ~client.transitioning) \/ client.closed = "yes"
               PROVE  /\ target = 0 /\ client.calls = {} /\ \A w \in Works : ~Owned(w)
                      /\ \A b \in ApiCalls : api'[b].at # "running"
    BY DEF QuietHolds, Owned
  <2>1. /\ target = 0 /\ client.calls = {} /\ \A w \in Works : ~Owned(w)
        /\ \A b \in ApiCalls : api[b].at # "running"
    BY DEF MobileInv, QuietHolds
  <2>2. k.at # "running"
    BY <1>1, <2>1 DEF CallHolds
  <2> QED BY <2>1, <2>2, <1>2
<1> QED
  BY <1>1, <1>3, <1>4, <1>5 DEF MobileInv, MobileTypes

(* every call that begins,                                                 *)
LEMMA InvokeKeeps == ASSUME MobileInv, NEW a \in ApiCalls, Invoke(a) PROVE MobileInv'
PROOF
<1> DEFINE k == [api[a] EXCEPT !.at = "new"]
           S == {b \in client.calls : ~Finished(b)} \cup {a}
<1>1. /\ api \in [ApiCalls -> CallRecords] /\ api[a] \in CallRecords /\ client \in Clients
      /\ \A b \in ApiCalls : CallHolds(b)
  BY DEF MobileInv, MobileTypes
<1>2. k \in CallRecords /\ k.at = "new"
  BY <1>1 DEF CallRecords
<1>3. S \in SUBSET ApiCalls /\ a \in S /\ \A b \in client.calls : b \notin S => Finished(b)
  BY <1>1 DEF Clients
<1>4. /\ client.closed = "no" /\ ~client.suspended /\ ~client.transitioning
      /\ api' = [api EXCEPT ![a] = k] /\ client' = [client EXCEPT !.calls = S]
      /\ UNCHANGED <<lifecycle, change, work, target>>
  BY <1>1 DEF Invoke, Available
<1> HIDE DEF k, S
<1>5. /\ client' \in Clients /\ client'.calls = S /\ client'.closed = "no" /\ ~client'.suspended
      /\ ~client'.transitioning /\ client'.context = client.context /\ client'.account = client.account
  BY <1>1, <1>3, <1>4 DEF Clients
<1>6. lifecycle = 0
  BY <1>4 DEF MobileInv, LifecycleHolds
<1>7. api'[a] = k /\ \A b \in ApiCalls : b # a => api'[b] = api[b]
  BY <1>1, <1>4
<1>8. ASSUME NEW b \in ApiCalls PROVE CallHolds(b)'
  <2>1. CASE b = a
    BY <1>2, <1>3, <1>5, <1>7, <2>1 DEF CallHolds
  <2>2. CASE b # a
    <3>1. Finished(b) => api[b].at # "running" /\ (api[b].at = "new" => api[b].closed \/ api[b].cancel)
      BY DEF Finished
    <3> QED BY <3>1, <1>1, <1>3, <1>4, <1>5, <1>6, <1>7, <2>2 DEF CallHolds
  <2> QED BY <2>1, <2>2
<1>9. (\A w \in Works : WorkHolds(w))' /\ OneOwned'
  BY <1>4, <1>5 DEF MobileInv, WorkHolds, Running, Owned, OneOwned
<1>10. ASSUME NEW x \in Changes PROVE ChangeHolds(x)'
  <2>1. ChangeHolds(x) /\ x # 0 BY MobileAssumption DEF MobileInv
  <2> QED BY <1>4, <1>5, <1>6, <2>1 DEF ChangeHolds
<1>11. LifecycleHolds' /\ QuietHolds' /\ TargetCommitted'
  BY <1>4, <1>5, <1>6 DEF MobileInv, LifecycleHolds, QuietHolds, TargetCommitted
<1> QED
  BY <1>1, <1>2, <1>4, <1>5, <1>8, <1>9, <1>10, <1>11 DEF MobileInv, MobileTypes

(* and every step of a call.                                               *)
LEMMA CallSteps ==
  ASSUME MobileInv, NEW a \in ApiCalls, RunCall(a) \/ CancelApi(a) \/ EndCall(a) PROVE MobileInv'
PROOF
<1>1. api \in [ApiCalls -> CallRecords] /\ api[a] \in CallRecords
  BY DEF MobileInv, MobileTypes
<1>2. CASE RunCall(a)
  <2> DEFINE at == IF api[a].cancel THEN "done" ELSE "running"
             k == [api[a] EXCEPT !.at = at]
  <2>1. api' = [api EXCEPT ![a] = k] /\ UNCHANGED <<client, lifecycle, change, work, target>>
        /\ api[a].at = "new" /\ ~api[a].closed
    BY <1>1, <1>2 DEF RunCall
  <2>2. at \in {"done", "running"} /\ (at = "running" => ~api[a].cancel)
    OBVIOUS
  <2> HIDE DEF at
  <2>3. k \in CallRecords /\ k.at = at
    BY <1>1, <2>2 DEF CallRecords
  <2> HIDE DEF k
  <2> QED BY <2>1, <2>2, <2>3, CallKeeps
<1>3. CASE CancelApi(a)
  <2> DEFINE k == [api[a] EXCEPT !.cancel = TRUE]
  <2>1. api' = [api EXCEPT ![a] = k] /\ UNCHANGED <<client, lifecycle, change, work, target>>
    BY <1>1, <1>3 DEF CancelApi
  <2>2. k \in CallRecords /\ k.at = api[a].at /\ k.closed = api[a].closed /\ k.cancel
    BY <1>1 DEF CallRecords
  <2> HIDE DEF k
  <2> QED BY <2>1, <2>2, CallKeeps
<1>4. CASE EndCall(a)
  <2> DEFINE k == [api[a] EXCEPT !.at = "done"]
  <2>1. api' = [api EXCEPT ![a] = k] /\ UNCHANGED <<client, lifecycle, change, work, target>>
    BY <1>1, <1>4 DEF EndCall
  <2>2. k \in CallRecords /\ k.at = "done"
    BY <1>1 DEF CallRecords
  <2> HIDE DEF k
  <2> QED BY <2>1, <2>2, CallKeeps
<1> QED
  BY <1>2, <1>3, <1>4

-----------------------------------------------------------------------------
(* What is closed or cancelled stays where it is.                          *)
Slowed ==
  /\ work' \in [Works -> WorkRecords] /\ api' \in [ApiCalls -> CallRecords]
  /\ \A w \in Works : /\ work'[w].at = work[w].at /\ work'[w].identity = work[w].identity
                      /\ work'[w].connect = work[w].connect /\ work'[w].released = work[w].released
                      /\ work[w].closed => work'[w].closed
  /\ \A a \in ApiCalls : /\ api'[a].at = api[a].at
                         /\ api[a].closed => api'[a].closed
                         /\ api[a].cancel => api'[a].cancel

(* Nothing is closed or cancelled: everything stays where it is.           *)
LEMMA NothingSlowed == ASSUME MobileInv, UNCHANGED <<work, api>> PROVE Slowed
PROOF
  BY DEF MobileInv, MobileTypes, Slowed

(* Closing and cancelling take nothing from its owner.                     *)
LEMMA SlowedKeeps ==
  ASSUME MobileInv, Slowed
  PROVE  /\ \A w \in Works : Owned(w)' <=> Owned(w)
         /\ \A w \in Works : (client'.context = client.context \/ ~Owned(w) \/ ~work[w].connect) => WorkHolds(w)'
PROOF
<1>1. \A w \in Works : Owned(w)' <=> Owned(w)
  BY DEF Slowed, Owned
<1>2. ASSUME NEW w \in Works, client'.context = client.context \/ ~Owned(w) \/ ~work[w].connect PROVE WorkHolds(w)'
  <2>1. WorkHolds(w) BY DEF MobileInv
  <2> QED BY <1>1, <1>2, <2>1 DEF Slowed, WorkHolds, Running
<1> QED
  BY <1>1, <1>2

(* A change that is asked for waits for the lock.                          *)
LEMMA AskKeeps ==
  ASSUME MobileInv, NEW x \in Changes, NEW kind \in {"set", "suspend", "close"},
         NEW i \in Identities \cup {0}, NEW connect \in BOOLEAN, Ask(x, kind, i, connect)
  PROVE  MobileInv'
PROOF
<1> DEFINE k == [NoChange EXCEPT !.at = "queued", !.kind = kind, !.context = i, !.connect = connect]
<1>1. /\ change \in [Changes -> ChangeRecords] /\ client \in Clients /\ work \in [Works -> WorkRecords]
      /\ api \in [ApiCalls -> CallRecords]
  BY DEF MobileInv, MobileTypes
<1>2. k \in ChangeRecords /\ k.at = "queued" /\ k.kind = kind
  BY DEF ChangeRecords, NoChange
<1>3. change' = [change EXCEPT ![x] = k] /\ UNCHANGED <<lifecycle, target>> /\ change[x].at = "none"
  BY DEF Ask, NextOf
<1> HIDE DEF k
<1>4. change' \in [Changes -> ChangeRecords] /\ change'[x] = k /\ \A y \in Changes : y # x => change'[y] = change[y]
  BY <1>1, <1>2, <1>3
<1>5. Slowed /\ client' \in Clients /\ client' = [client EXCEPT !.closed = client'.closed]
      /\ client'.closed \in {client.closed, "closing"} /\ (client'.closed # client.closed => client.closed = "no")
      /\ (kind = "close" => client'.closed # "no")
  <2>1. CASE kind = "close"
    <3>1. client' = [client EXCEPT !.closed = "closing"] /\ client.closed = "no"
      BY <2>1 DEF Ask
    <3>2. client' \in Clients /\ client'.closed = "closing"
      BY <1>1, <3>1 DEF Clients
    <3>3. /\ work' \in [Works -> WorkRecords]
          /\ \A w \in Works : /\ work'[w].at = work[w].at /\ work'[w].identity = work[w].identity
                              /\ work'[w].connect = work[w].connect /\ work'[w].released = work[w].released
                              /\ work[w].closed => work'[w].closed
      <4>1. work' = [w \in Works |-> IF w = client.account THEN [work[w] EXCEPT !.cancel = TRUE] ELSE work[w]]
        BY <2>1 DEF Ask
      <4>2. ASSUME NEW w \in Works
            PROVE  LET r == [work[w] EXCEPT !.cancel = TRUE] IN
                   /\ r \in WorkRecords /\ r.at = work[w].at /\ r.identity = work[w].identity
                   /\ r.connect = work[w].connect /\ r.released = work[w].released /\ r.closed = work[w].closed
        BY <1>1 DEF WorkRecords
      <4> QED BY <1>1, <4>1, <4>2
    <3>4. /\ api' \in [ApiCalls -> CallRecords]
          /\ \A a \in ApiCalls : /\ api'[a].at = api[a].at
                                 /\ api[a].closed => api'[a].closed
                                 /\ api[a].cancel => api'[a].cancel
      <4>1. api' = [a \in ApiCalls |-> [api[a] EXCEPT !.cancel = @ \/ api[a].at # "none"]]
        BY <2>1 DEF Ask
      <4>2. ASSUME NEW a \in ApiCalls
            PROVE  LET r == [api[a] EXCEPT !.cancel = @ \/ api[a].at # "none"] IN
                   /\ r \in CallRecords /\ r.at = api[a].at /\ r.closed = api[a].closed
                   /\ api[a].cancel => r.cancel
        <5>1. api[a] \in CallRecords /\ (api[a].cancel \/ api[a].at # "none") \in BOOLEAN BY <1>1
        <5> QED BY <5>1 DEF CallRecords
      <4> QED BY <1>1, <4>1, <4>2
    <3>5. client' = [client EXCEPT !.closed = client'.closed] BY <3>1, <3>2
    <3> QED BY <3>1, <3>2, <3>3, <3>4, <3>5 DEF Slowed
  <2>2. CASE kind # "close"
    <3>1. UNCHANGED <<client, work, api>> BY <2>2 DEF Ask
    <3>2. client' = [client EXCEPT !.closed = client'.closed] BY <1>1, <3>1 DEF Clients
    <3> QED BY <3>1, <3>2, <1>1, <2>2, NothingSlowed
  <2> QED BY <2>1, <2>2
<1>6. /\ client'.context = client.context /\ client'.suspended = client.suspended
      /\ client'.transitioning = client.transitioning /\ client'.account = client.account
      /\ client'.calls = client.calls
  BY <1>1, <1>5 DEF Clients
<1>7. (\A w \in Works : WorkHolds(w))' /\ \A w \in Works : Owned(w)' <=> Owned(w)
  BY <1>5, <1>6, SlowedKeeps
<1>8. lifecycle # x /\ lifecycle' = lifecycle /\ lifecycle \in Changes \cup {0}
  BY <1>3 DEF MobileInv, MobileTypes, ChangeHolds
<1>9. OneOwned'
  BY <1>4, <1>6, <1>7, <1>8 DEF MobileInv, OneOwned
<1>10. ASSUME NEW a \in ApiCalls PROVE CallHolds(a)'
  BY <1>4, <1>5, <1>6, <1>8 DEF MobileInv, CallHolds, Slowed
<1>11. ASSUME NEW y \in Changes PROVE ChangeHolds(y)'
  <2>1. CASE y = x
    BY <1>2, <1>4, <1>5, <1>8, <2>1 DEF ChangeHolds
  <2>2. CASE y # x
    BY <1>4, <1>5, <1>6, <1>7, <1>8, <2>2 DEF MobileInv, ChangeHolds
  <2> QED BY <2>1, <2>2
<1>12. LifecycleHolds' /\ TargetCommitted'
  BY <1>3, <1>5, <1>6 DEF MobileInv, LifecycleHolds, TargetCommitted
<1>13. QuietHolds'
  BY <1>3, <1>5, <1>6, <1>7 DEF MobileInv, QuietHolds, Slowed
<1> QED
  BY <1>4, <1>5, <1>7, <1>8, <1>9, <1>10, <1>11, <1>12, <1>13 DEF MobileInv, MobileTypes, Slowed

(* What a change cancels stays where it is, and none of the calls it waits *)
(* for starts any more.                                                    *)
LEMMA CancelsSlow ==
  ASSUME MobileInv, NEW x \in Changes, Cancels(x)
  PROVE  Slowed /\ lifecycle' = x /\ \A a \in client.calls : api'[a].closed
PROOF
<1>1. client \in Clients /\ work \in [Works -> WorkRecords] /\ api \in [ApiCalls -> CallRecords]
  BY DEF MobileInv, MobileTypes
<1> DEFINE S == {client.account} \cap Works
<1>2. work' = [w \in Works |-> IF w \in S THEN [work[w] EXCEPT !.closed = TRUE, !.cancel = TRUE] ELSE work[w]]
  BY DEF Cancels, Closed
<1>3. ASSUME NEW w \in Works
      PROVE  LET r == [work[w] EXCEPT !.closed = TRUE, !.cancel = TRUE] IN
             /\ r \in WorkRecords /\ r.at = work[w].at /\ r.identity = work[w].identity
             /\ r.connect = work[w].connect /\ r.released = work[w].released /\ r.closed
  BY <1>1 DEF WorkRecords
<1> HIDE DEF S
<1>4. /\ work' \in [Works -> WorkRecords]
      /\ \A w \in Works :
           /\ work'[w].at = work[w].at /\ work'[w].identity = work[w].identity
           /\ work'[w].connect = work[w].connect /\ work'[w].released = work[w].released
           /\ work[w].closed => work'[w].closed
  BY <1>1, <1>2, <1>3
<1>5. api' = [a \in ApiCalls |-> IF a \in client.calls THEN [api[a] EXCEPT !.cancel = TRUE, !.closed = TRUE]
                                 ELSE api[a]]
  BY DEF Cancels
<1>6. ASSUME NEW a \in ApiCalls
      PROVE  LET r == [api[a] EXCEPT !.cancel = TRUE, !.closed = TRUE] IN
             r \in CallRecords /\ r.at = api[a].at /\ r.closed /\ r.cancel
  BY <1>1 DEF CallRecords
<1>7. /\ api' \in [ApiCalls -> CallRecords]
      /\ \A a \in ApiCalls :
           /\ api'[a].at = api[a].at
           /\ api[a].closed => api'[a].closed
           /\ api[a].cancel => api'[a].cancel
           /\ a \in client.calls => api'[a].closed
  BY <1>1, <1>5, <1>6
<1>8. Slowed
  BY <1>4, <1>7 DEF Slowed
<1>9. client.calls \subseteq ApiCalls
  BY <1>1 DEF Clients
<1> QED
  BY <1>7, <1>8, <1>9 DEF Cancels

(* A change takes the lock: it waits for the work it closes, or keeps it.  *)
LEMMA StartKeeps ==
  ASSUME MobileInv, Slowed, NEW x \in Changes, NEW k \in ChangeRecords,
         lifecycle = 0, lifecycle' = x, change[x].at = "queued",
         change' = [change EXCEPT ![x] = k], k.at = "settling", k.kind = change[x].kind,
         client' \in Clients, client'.context = client.context, client'.closed = client.closed,
         client.closed = "no" => client'.transitioning,
         client'.account = client.account \/ k.kind = "close",
         \/ client'.calls = client.calls
         \/ client'.calls = {} /\ k.calls = client.calls /\ \A a \in client.calls : api'[a].closed,
         k.kind = "set" => client.context \in {0, k.context} \/ k.works = {client.account} \cap Works,
         k.kind \in {"suspend", "close"} => k.works = {client.account} \cap Works /\ client'.calls = {},
         target' \in {target, 0}
  PROVE  MobileInv'
PROOF
<1>1. /\ change \in [Changes -> ChangeRecords] /\ client \in Clients /\ x # 0
      /\ \A y \in Changes : ChangeHolds(y)
  BY MobileAssumption DEF MobileInv, MobileTypes
<1>2. change' \in [Changes -> ChangeRecords] /\ change'[x] = k /\ \A y \in Changes : y # x => change'[y] = change[y]
  BY <1>1
<1>3. (\A w \in Works : WorkHolds(w))' /\ \A w \in Works : Owned(w)' <=> Owned(w)
  BY SlowedKeeps
<1>4. \A w \in Works : Owned(w) => w = client.account
  BY DEF MobileInv, OneOwned
<1>5. OneOwned'
  <2>1. \A v, w \in Works : Owned(v)' /\ Owned(w)' => v = w
    BY <1>3 DEF MobileInv, OneOwned
  <2>2. k.kind # "close" => \A w \in Works : Owned(w)' => w = client'.account
    BY <1>3, <1>4
  <2> QED BY <2>1, <2>2, <1>1, <1>2 DEF OneOwned
<1>6. ASSUME NEW a \in ApiCalls PROVE CallHolds(a)'
  <2>1. CallHolds(a) BY DEF MobileInv
  <2>2. api'[a].at = api[a].at /\ (api[a].closed => api'[a].closed) /\ (api[a].cancel => api'[a].cancel)
    BY DEF Slowed
  <2>3. CASE client'.calls = client.calls
    BY <2>1, <2>2, <2>3 DEF CallHolds
  <2>4. CASE client'.calls = {} /\ k.calls = client.calls /\ \A b \in client.calls : api'[b].closed
    BY <2>1, <2>2, <2>4, <1>1, <1>2 DEF CallHolds
  <2> QED BY <2>3, <2>4
<1>7. ASSUME NEW y \in Changes PROVE ChangeHolds(y)'
  <2>1. ChangeHolds(y) BY <1>1
  <2>2. CASE y # x
    <3>1. change[y].at # "settling" /\ change'[y] = change[y] /\ lifecycle' # y
      BY <2>1, <2>2, <1>1, <1>2, MobileAssumption DEF ChangeHolds
    <3> QED BY <2>1, <3>1 DEF ChangeHolds
  <2>3. CASE y = x
    <3>1. k.kind = "close" => client'.closed # "no"
      BY <2>1, <2>3 DEF ChangeHolds
    <3>2. k.works = {client.account} \cap Works => \A w \in Works : Owned(w)' => w \in k.works
      BY <1>3, <1>4
    <3> QED BY <2>3, <3>1, <3>2, <1>2 DEF ChangeHolds
  <2> QED BY <2>2, <2>3
<1>8. LifecycleHolds' /\ TargetCommitted'
  BY <1>1 DEF LifecycleHolds, TargetCommitted
<1>9. QuietHolds'
  <2> SUFFICES ASSUME (client'.closed = "no" /\ client'.suspended /\ ~client'.transitioning) \/ client'.closed = "yes"
               PROVE  /\ target' = 0 /\ client'.calls = {}
                      /\ \A w \in Works : ~Owned(w)'
                      /\ \A a \in ApiCalls : api'[a].at # "running"
    BY DEF QuietHolds
  <2>1. client.closed = "yes"
    OBVIOUS
  <2>2. /\ target = 0 /\ client.calls = {}
        /\ \A w \in Works : ~Owned(w) /\ \A a \in ApiCalls : api[a].at # "running"
    BY <2>1 DEF MobileInv, QuietHolds
  <2> QED BY <2>2, <1>3 DEF Slowed, MobileInv, QuietHolds
<1> QED
  BY <1>2, <1>3, <1>5, <1>6, <1>7, <1>8, <1>9 DEF MobileInv, MobileTypes, Slowed

(* A change that finds the client closed does nothing.                     *)
LEMMA GivenUp ==
  ASSUME MobileInv, NEW x \in Changes, change[x].at = "queued", change' = [change EXCEPT ![x].at = "done"],
         UNCHANGED <<client, lifecycle, work, api, target>>
  PROVE  MobileInv'
PROOF
<1> DEFINE k == [change[x] EXCEPT !.at = "done"]
<1>1. change \in [Changes -> ChangeRecords] /\ change[x] \in ChangeRecords
  BY DEF MobileInv, MobileTypes
<1>2. k \in ChangeRecords /\ k.at = "done"
  BY <1>1 DEF ChangeRecords
<1>3. change' = [change EXCEPT ![x] = k]
  BY <1>1
<1> HIDE DEF k
<1>4. change' \in [Changes -> ChangeRecords] /\ change'[x] = k /\ \A y \in Changes : y # x => change'[y] = change[y]
  BY <1>1, <1>2, <1>3
<1>5. lifecycle # x /\ lifecycle \in Changes \cup {0}
  BY DEF MobileInv, MobileTypes, ChangeHolds
<1>6. ASSUME NEW y \in Changes PROVE ChangeHolds(y)'
  <2>1. CASE y = x BY <2>1, <1>2, <1>4, <1>5 DEF ChangeHolds
  <2>2. CASE y # x BY <2>2, <1>4 DEF MobileInv, ChangeHolds, Owned
  <2> QED BY <2>1, <2>2
<1>7. OneOwned' /\ (\A a \in ApiCalls : CallHolds(a))'
  BY <1>4, <1>5 DEF MobileInv, OneOwned, CallHolds, Owned
<1>8. (\A w \in Works : WorkHolds(w))' /\ LifecycleHolds' /\ QuietHolds' /\ TargetCommitted'
  BY DEF MobileInv, WorkHolds, Running, Owned, LifecycleHolds, QuietHolds, TargetCommitted
<1> QED
  BY <1>4, <1>6, <1>7, <1>8 DEF MobileInv, MobileTypes

(* Every change that takes the lock preserves the invariant,               *)
LEMMA StartSteps ==
  ASSUME MobileInv, NEW x \in Changes, StartSet(x) \/ StartSuspend(x) \/ StartClose(x)
  PROVE  MobileInv'
PROOF
<1> DEFINE W == {client.account} \cap Works
<1>1. /\ change[x] \in ChangeRecords /\ client \in Clients /\ change \in [Changes -> ChangeRecords]
      /\ W \in SUBSET Works /\ client.calls \in SUBSET ApiCalls
  BY DEF MobileInv, MobileTypes, Clients
<1>2. CASE StartSet(x)
  <2>1. CASE client.closed # "no"
    BY <1>2, <2>1, GivenUp DEF StartSet
  <2>2. CASE client.closed = "no" /\ Changed(change[x].context)
    <3> DEFINE k == [change[x] EXCEPT !.at = "settling", !.works = W, !.calls = client.calls]
    <3>1. /\ change' = [change EXCEPT ![x] = k] /\ Cancels(x) /\ lifecycle = 0 /\ UNCHANGED target
          /\ client' = [client EXCEPT !.transitioning = TRUE, !.calls = {}]
          /\ change[x].at = "queued" /\ change[x].kind = "set"
      BY <1>2, <2>2 DEF StartSet
    <3>2. k \in ChangeRecords /\ k.at = "settling" /\ k.kind = change[x].kind /\ k.works = W /\ k.calls = client.calls
      <4> HIDE DEF W
      <4> QED BY <1>1 DEF ChangeRecords
    <3>3. /\ client' \in Clients /\ client'.context = client.context /\ client'.closed = client.closed
          /\ client'.transitioning /\ client'.account = client.account /\ client'.calls = {}
      BY <1>1, <3>1 DEF Clients
    <3>4. Slowed /\ lifecycle' = x /\ \A a \in client.calls : api'[a].closed
      BY <3>1, CancelsSlow
    <3> HIDE DEF k
    <3> QED BY <3>1, <3>2, <3>3, <3>4, StartKeeps
  <2>3. CASE client.closed = "no" /\ ~Changed(change[x].context)
    <3> DEFINE k == [change[x] EXCEPT !.at = "settling"]
    <3>1. /\ change' = [change EXCEPT ![x] = k] /\ lifecycle = 0 /\ lifecycle' = x /\ UNCHANGED <<target, work, api>>
          /\ client' = [client EXCEPT !.transitioning = TRUE, !.calls = client.calls]
          /\ change[x].at = "queued" /\ change[x].kind = "set"
      BY <1>2, <2>3 DEF StartSet
    <3>2. k \in ChangeRecords /\ k.at = "settling" /\ k.kind = change[x].kind /\ k.context = change[x].context
      BY <1>1 DEF ChangeRecords
    <3>3. /\ client' \in Clients /\ client'.context = client.context /\ client'.closed = client.closed
          /\ client'.transitioning /\ client'.account = client.account /\ client'.calls = client.calls
      BY <1>1, <3>1 DEF Clients
    <3>4. client.context \in {0, change[x].context}
      BY <2>3 DEF Changed
    <3>5. Slowed
      BY <3>1, NothingSlowed
    <3> HIDE DEF k
    <3> QED BY <3>1, <3>2, <3>3, <3>4, <3>5, StartKeeps
  <2> QED BY <2>1, <2>2, <2>3
<1>3. CASE StartSuspend(x)
  <2>1. CASE client.closed # "no"
    BY <1>3, <2>1, GivenUp DEF StartSuspend
  <2>2. CASE client.closed = "no"
    <3> DEFINE k == [change[x] EXCEPT !.at = "settling", !.works = W, !.calls = client.calls]
    <3>1. /\ change' = [change EXCEPT ![x] = k] /\ Cancels(x) /\ lifecycle = 0 /\ target' = 0
          /\ client' = [client EXCEPT !.suspended = TRUE, !.transitioning = TRUE, !.calls = {}]
          /\ change[x].at = "queued" /\ change[x].kind = "suspend"
      BY <1>1, <1>3, <2>2 DEF StartSuspend
    <3>2. k \in ChangeRecords /\ k.at = "settling" /\ k.kind = change[x].kind /\ k.works = W /\ k.calls = client.calls
      <4> HIDE DEF W
      <4> QED BY <1>1 DEF ChangeRecords
    <3>3. /\ client' \in Clients /\ client'.context = client.context /\ client'.closed = client.closed
          /\ client'.transitioning /\ client'.account = client.account /\ client'.calls = {}
      BY <1>1, <3>1 DEF Clients
    <3>4. Slowed /\ lifecycle' = x /\ \A a \in client.calls : api'[a].closed
      BY <3>1, CancelsSlow
    <3> HIDE DEF k
    <3> QED BY <3>1, <3>2, <3>3, <3>4, StartKeeps
  <2> QED BY <2>1, <2>2
<1>4. CASE StartClose(x)
  <2> DEFINE k == [change[x] EXCEPT !.at = "settling", !.works = W, !.calls = client.calls]
  <2>1. /\ change' = [change EXCEPT ![x] = k] /\ Cancels(x) /\ lifecycle = 0 /\ target' = target
        /\ client' = [client EXCEPT !.account = 0, !.calls = {}]
        /\ change[x].at = "queued" /\ change[x].kind = "close"
    BY <1>1, <1>4 DEF StartClose
  <2>2. k \in ChangeRecords /\ k.at = "settling" /\ k.kind = change[x].kind /\ k.works = W /\ k.calls = client.calls
    <3> HIDE DEF W
    <3> QED BY <1>1 DEF ChangeRecords
  <2>3. /\ client' \in Clients /\ client'.context = client.context /\ client'.closed = client.closed
        /\ client'.calls = {}
    BY <1>1, <2>1 DEF Clients
  <2>4. Slowed /\ lifecycle' = x /\ \A a \in client.calls : api'[a].closed
    BY <2>1, CancelsSlow
  <2>5. client.closed # "no"
    BY <2>1 DEF MobileInv, ChangeHolds
  <2> HIDE DEF k
  <2> QED BY <2>1, <2>2, <2>3, <2>4, <2>5, StartKeeps
<1> QED
  BY <1>2, <1>3, <1>4

(* What a change that ends leaves behind: it waited for everything it does *)
(* not keep.                                                               *)
LEMMA EndKeeps ==
  ASSUME MobileInv, NEW x \in Changes, change[x].at = "settling", Settled(x),
         lifecycle' = 0, change' = [change EXCEPT ![x] = [NoChange EXCEPT !.at = "done"]], UNCHANGED <<work, api>>,
         client' \in Clients, client'.calls = client.calls, client'.account = client.account,
         client'.closed \in {client.closed, "yes"}, client'.closed # "no" \/ ~client'.transitioning,
         client.closed = "yes" => target' = 0,
         \/ change[x].kind \in {"suspend", "close"} /\ target' = 0 /\ client'.context = client.context
         \/ /\ change[x].kind = "set" /\ client'.closed = client.closed
            /\ client.closed = "no" => /\ client'.context = change[x].context /\ ~client'.suspended
                                       /\ target' \in {0, client'.context}
            /\ client.closed # "no" => client'.context = client.context
  PROVE  MobileInv'
PROOF
<1> DEFINE k == [NoChange EXCEPT !.at = "done"]
<1>1. /\ change \in [Changes -> ChangeRecords] /\ x # 0 /\ lifecycle = x
      /\ \A y \in Changes : ChangeHolds(y)
  BY MobileAssumption DEF MobileInv, MobileTypes, ChangeHolds
<1>2. k \in ChangeRecords /\ k.at = "done" /\ k.kind = "none"
  BY DEF ChangeRecords, NoChange
<1>3. change' = [change EXCEPT ![x] = k]
  OBVIOUS
<1> HIDE DEF k
<1>4. change' \in [Changes -> ChangeRecords] /\ change'[x] = k /\ \A y \in Changes : y # x => change'[y] = change[y]
  BY <1>1, <1>2, <1>3
<1>5. /\ \A w \in Works : Owned(w) => w \notin change[x].works
      /\ \A a \in ApiCalls : api[a].at = "running" => a \in client.calls
  BY <1>1 DEF Settled, Owned, MobileInv, CallHolds
<1>6. change[x].kind \in {"suspend", "close"} => (\A w \in Works : ~Owned(w)) /\ client.calls = {}
  BY <1>1, <1>5 DEF ChangeHolds
<1>7. \A w \in Works : Owned(w)' <=> Owned(w)
  BY DEF Owned
<1>8. ASSUME NEW w \in Works PROVE WorkHolds(w)'
  <2>1. WorkHolds(w) BY DEF MobileInv
  <2>2. Owned(w) /\ work[w].connect => work[w].identity = client'.context
    <3>1. CASE client'.context = client.context BY <2>1, <3>1 DEF WorkHolds
    <3>2. CASE client'.context = change[x].context /\ change[x].kind = "set"
      BY <1>1, <1>5, <2>1, <3>2 DEF WorkHolds, ChangeHolds, Owned
    <3> QED BY <3>1, <3>2
  <2> QED BY <2>1, <2>2 DEF WorkHolds, Running, Owned
<1>9. OneOwned'
  <2>1. \A v, w \in Works : Owned(v)' /\ Owned(w)' => v = w
    BY <1>7 DEF MobileInv, OneOwned
  <2>2. \A w \in Works : Owned(w)' => w = client'.account
    BY <1>1, <1>6, <1>7 DEF MobileInv, OneOwned
  <2> QED BY <2>1, <2>2 DEF OneOwned
<1>10. ASSUME NEW a \in ApiCalls PROVE CallHolds(a)'
  BY <1>5 DEF MobileInv, CallHolds
<1>11. ASSUME NEW y \in Changes PROVE ChangeHolds(y)'
  <2>1. ChangeHolds(y) /\ y # 0 BY <1>1, MobileAssumption
  <2>2. CASE y = x BY <2>1, <2>2, <1>2, <1>4 DEF ChangeHolds
  <2>3. CASE y # x
    <3>1. change[y].at # "settling" /\ change'[y] = change[y] BY <2>1, <2>3, <1>1, <1>4 DEF ChangeHolds
    <3>2. change[y].kind = "close" /\ change[y].at = "queued" => client'.closed # "no"
      BY <2>1 DEF ChangeHolds
    <3> QED BY <2>1, <3>1, <3>2 DEF ChangeHolds
  <2> QED BY <2>2, <2>3
<1>12. LifecycleHolds' /\ TargetCommitted'
  BY <1>1 DEF LifecycleHolds, TargetCommitted
<1>13. QuietHolds'
  <2> SUFFICES ASSUME (client'.closed = "no" /\ client'.suspended /\ ~client'.transitioning) \/ client'.closed = "yes"
               PROVE  /\ target' = 0 /\ client'.calls = {}
                      /\ \A w \in Works : ~Owned(w)'
                      /\ \A a \in ApiCalls : api'[a].at # "running"
    BY DEF QuietHolds
  <2>1. CASE change[x].kind \in {"suspend", "close"}
    BY <2>1, <1>5, <1>6, <1>7
  <2>2. CASE change[x].kind = "set"
    <3>1. client.closed = "yes" /\ target' = 0 BY <2>2
    <3>2. client.calls = {} /\ (\A w \in Works : ~Owned(w)) /\ \A a \in ApiCalls : api[a].at # "running"
      BY <3>1 DEF MobileInv, QuietHolds
    <3> QED BY <3>1, <3>2, <1>7
  <2> QED BY <2>1, <2>2
<1> QED
  BY <1>4, <1>8, <1>9, <1>10, <1>11, <1>12, <1>13 DEF MobileInv, MobileTypes

(* and every one that ends.                                                *)
LEMMA EndSteps ==
  ASSUME MobileInv, NEW x \in Changes, EndSet(x) \/ EndSuspend(x) \/ EndClose(x)
  PROVE  MobileInv'
PROOF
<1>1. /\ client \in Clients /\ change[x] \in ChangeRecords
  BY DEF MobileInv, MobileTypes
<1>2. client.closed = "yes" => target = 0
  BY DEF MobileInv, QuietHolds
<1>3. change[x].context \in Identities \cup {0}
  BY <1>1 DEF ChangeRecords
<1>4. CASE EndSet(x)
  <2>1. /\ change[x].at = "settling" /\ Settled(x) /\ change[x].kind = "set"
        /\ lifecycle' = 0 /\ change' = [change EXCEPT ![x] = [NoChange EXCEPT !.at = "done"]] /\ UNCHANGED <<work, api>>
    BY <1>4 DEF EndSet
  <2>2. CASE client.closed # "no"
    <3>1. client' = [client EXCEPT !.transitioning = FALSE] /\ target' = target
      BY <1>4, <2>2 DEF EndSet
    <3>2. /\ client' \in Clients /\ client'.calls = client.calls /\ client'.account = client.account
          /\ client'.closed = client.closed /\ client'.context = client.context
      BY <1>1, <3>1 DEF Clients
    <3> QED BY <2>1, <2>2, <3>1, <3>2, <1>2, EndKeeps
  <2>3. CASE client.closed = "no"
    <3>1. /\ client' = [client EXCEPT !.transitioning = FALSE, !.suspended = FALSE, !.context = change[x].context]
          /\ target' \in {0, change[x].context}
      BY <1>4, <2>3 DEF EndSet
    <3>2. /\ client' \in Clients /\ client'.calls = client.calls /\ client'.account = client.account
          /\ client'.closed = client.closed /\ client'.context = change[x].context
          /\ ~client'.suspended /\ ~client'.transitioning
      BY <1>1, <1>3, <3>1 DEF Clients
    <3> QED BY <2>1, <2>3, <3>1, <3>2, EndKeeps
  <2> QED BY <2>2, <2>3
<1>5. CASE EndSuspend(x)
  <2>1. /\ change[x].at = "settling" /\ Settled(x) /\ change[x].kind = "suspend"
        /\ lifecycle' = 0 /\ change' = [change EXCEPT ![x] = [NoChange EXCEPT !.at = "done"]] /\ UNCHANGED <<work, api>>
        /\ client' = [client EXCEPT !.transitioning = FALSE] /\ target' = 0
    BY <1>5 DEF EndSuspend, ClearedAgain
  <2>2. /\ client' \in Clients /\ client'.calls = client.calls /\ client'.account = client.account
        /\ client'.closed = client.closed /\ client'.context = client.context /\ ~client'.transitioning
    BY <1>1, <2>1 DEF Clients
  <2> QED BY <2>1, <2>2, EndKeeps
<1>6. CASE EndClose(x)
  <2>1. /\ change[x].at = "settling" /\ Settled(x) /\ change[x].kind = "close"
        /\ lifecycle' = 0 /\ change' = [change EXCEPT ![x] = [NoChange EXCEPT !.at = "done"]] /\ UNCHANGED <<work, api>>
        /\ client' = [client EXCEPT !.closed = "yes"] /\ target' = 0
    BY <1>6 DEF EndClose
  <2>2. /\ client' \in Clients /\ client'.calls = client.calls /\ client'.account = client.account
        /\ client'.closed = "yes" /\ client'.context = client.context
    BY <1>1, <2>1 DEF Clients
  <2> QED BY <2>1, <2>2, EndKeeps
<1> QED
  BY <1>4, <1>5, <1>6

(* So every step does.                                                     *)
LEMMA MobileStep == MobileInv /\ [MobileNext]_mvars => MobileInv'
PROOF
<1> SUFFICES ASSUME MobileInv, [MobileNext]_mvars PROVE MobileInv'
  OBVIOUS
<1>1. CASE UNCHANGED mvars
  BY <1>1 DEF mvars, MobileInv, MobileTypes, WorkHolds, Running, Owned, OneOwned, CallHolds, ChangeHolds,
              LifecycleHolds, QuietHolds, TargetCommitted
<1>2. ASSUME NEW w \in Works, NEW i \in Identities, NEW connect \in BOOLEAN, Operation(w, i, connect)
      PROVE MobileInv'
  BY <1>2, OperationKeeps
<1>3. ASSUME NEW w \in Works,
             \/ Run(w) \/ Drive(w) \/ Reconnect(w) \/ EndDrive(w) \/ ResumeWork(w)
             \/ CancelWork(w) \/ CloseWork(w) \/ Release(w)
      PROVE MobileInv'
  BY <1>3, WorkSteps
<1>4. ASSUME NEW a \in ApiCalls, Invoke(a) \/ RunCall(a) \/ CancelApi(a) \/ EndCall(a)
      PROVE MobileInv'
  BY <1>4, InvokeKeeps, CallSteps
<1>5. ASSUME NEW x \in Changes,
             \/ \E i \in Identities, connect \in BOOLEAN : Ask(x, "set", i, connect)
             \/ Ask(x, "suspend", 0, FALSE) \/ Ask(x, "close", 0, FALSE)
      PROVE MobileInv'
  BY <1>5, AskKeeps
<1>6. ASSUME NEW x \in Changes, StartSet(x) \/ StartSuspend(x) \/ StartClose(x)
      PROVE MobileInv'
  BY <1>6, StartSteps
<1>7. ASSUME NEW x \in Changes, EndSet(x) \/ EndSuspend(x) \/ EndClose(x)
      PROVE MobileInv'
  BY <1>7, EndSteps
<1> QED
  BY <1>1, <1>2, <1>3, <1>4, <1>5, <1>6, <1>7 DEF MobileNext

(* What is stated of the client follows from it.                           *)
LEMMA MobileInvImplies == MobileInv => OwnersSettled
PROOF
<1> SUFFICES ASSUME MobileInv PROVE OwnersSettled
  OBVIOUS
<1>1. \A w \in Works : Running(w) => Owned(w)
  BY DEF MobileInv, WorkHolds, Running, Owned
<1>2. QuietWhenStopped
  BY <1>1 DEF MobileInv, QuietHolds, QuietWhenStopped
<1>3. OneDrive
  <2> DEFINE S == {w \in Works : Running(w)}
  <2>1. CASE S = {}
    BY <2>1, FS_EmptySet DEF OneDrive
  <2>2. CASE S # {}
    <3> PICK w \in S : TRUE BY <2>2
    <3>1. S = {w} BY <1>1 DEF MobileInv, OneOwned
    <3>2. Cardinality({w}) = 1 BY FS_Singleton
    <3> QED BY <3>1, <3>2 DEF OneDrive
  <2> QED BY <2>1, <2>2
<1> QED
  BY <1>2, <1>3 DEF OwnersSettled, MobileInv

(* No operation of one identity outlives the change to another, and a      *)
(* suspended client has nothing under way: OwnersSettled in every          *)
(* reachable state, for any operations, calls and changes.                 *)
THEOREM OwnersAreSettled == MobileSpec => []OwnersSettled
PROOF
  BY MobileStarts, MobileStep, MobileInvImplies, PTL DEF MobileSpec
===============================================================================
