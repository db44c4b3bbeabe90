-------------------------------- MODULE Titles --------------------------------
(***************************************************************************)
(* What a session shows beside its runs: title, model and model            *)
(* information, in memory, in its SQLite row and with its observers        *)
(* (crates/xw-agent: title.rs, model.rs, events.rs, persist_title).        *)
(* Title tasks and model queries run without any lock and come back late;  *)
(* a stored title crosses a database await between its check and its       *)
(* commit; an observer is a bounded queue of events behind a snapshot.     *)
(***************************************************************************)
EXTENDS Integers, Sequences, FiniteSets

CONSTANTS
  Callers,       \* clients of the service
  Tasks,         \* ids of title tasks, never used twice
  Nobody,        \* the gate is free, no title task is current
  Watchers,      \* ids of observers, never used twice
  Models,        \* model references
  Texts,         \* titles
  MaxQueue,      \* MAX_PENDING
  MaxCalls, MaxRuns, MaxFaults  \* bounds on calls, runs and failing writes

ASSUME DistinctAssumption == Nobody \notin Callers \cup Tasks /\ Callers \cap Tasks = {}
ASSUME BoundsAssumption == MaxQueue \in Nat \ {0} /\ MaxCalls \in Nat /\ MaxRuns \in Nat /\ MaxFaults \in Nat

VARIABLES
  view,      \* Session.view: text, auto (auto_title_enabled), rev, model, names, warning
  row,       \* the title columns of its row
  life,      \* in memory: live, frozen, gone; or the service is closed
  run,       \* a run is active
  ran,       \* how many have ended with output
  current,   \* Session.current_title_task
  tasks,     \* tasks[t]: at, the revision it was scheduled at, cancelled
  op,        \* op[p]: the title update, or configuration, p is storing
  gate,      \* IndexAccess.gate
  info,      \* Session.model_info: the model it describes
  query,     \* Session.model_query
  asked,     \* the model queries on their way: model and number
  applied,   \* history: the number of the query whose answer was applied last
  watch,     \* watch[o]: an observer's queue and what its client has been told
  calls, faults

session == <<view, row, life, info, query, applied>>
working == <<run, ran, current, tasks>>
bounds == <<calls, faults>>
vars == <<session, working, op, gate, asked, watch, bounds>>

Unnamed == "unnamed"     \* no model
Untitled == "untitled"   \* the empty title
Procs == Callers \cup Tasks
NoOp == [at |-> "idle", text |-> Untitled, auto |-> FALSE, rev |-> 0, model |-> Unnamed]
NoTask == [at |-> "none", rev |-> 0, cancelled |-> FALSE]
NoWatch == [at |-> "unborn", queue |-> <<>>, lagged |-> FALSE, closed |-> FALSE,
            permit |-> FALSE, seen |-> <<>>]

Init ==
  /\ \E m \in Models :
       view = [text |-> Untitled, auto |-> TRUE, rev |-> 1, model |-> m, names |-> Unnamed, warning |-> TRUE]
  /\ row = [text |-> Untitled, auto |-> TRUE]
  /\ life = "live" /\ run = FALSE /\ ran = 0
  /\ current = Nobody /\ tasks = [t \in Tasks |-> NoTask]
  /\ op = [p \in Procs |-> NoOp] /\ gate = Nobody
  /\ info = Unnamed /\ query = 0 /\ asked = {} /\ applied = 0
  /\ watch = [o \in Watchers |-> NoWatch]
  /\ calls = 0 /\ faults = 0

-----------------------------------------------------------------------------
(* Observers.  An event replaces in its receiver's copy the fields that    *)
(* its message carries.                                                    *)
Fields == {"text", "auto", "rev", "model", "names", "warning"}
Carried(kind) ==
  CASE kind = "ready" -> Fields
    [] kind = "title" -> {"text", "auto", "rev"}
    [] kind = "config" -> {"model", "names", "rev"}
    [] kind = "warning" -> {"names", "warning"}
    [] OTHER -> {}
Told(seen, e) ==
  [f \in Fields |-> IF f \in Carried(e.kind) THEN e.of[f] ELSE seen[f]]

(* Mutant: what has no room is left out.                                   *)
PushDropping(w, e) ==
  IF w.at = "unborn" \/ w.closed THEN w
  ELSE IF Len(w.queue) >= MaxQueue
       THEN [w EXCEPT !.permit = TRUE]
       ELSE [w EXCEPT !.queue = Append(@, e), !.permit = TRUE]

(* Observer::publish: a full queue is emptied, and the observer is told    *)
(* once that it has missed something.  notify_one leaves a permit.         *)
Push(w, e) ==
  IF w.at = "unborn" \/ w.closed THEN w
  ELSE IF Len(w.queue) >= MaxQueue
       THEN [w EXCEPT !.queue = <<>>, !.lagged = TRUE, !.closed = TRUE, !.permit = TRUE]
       ELSE [w EXCEPT !.queue = Append(@, e), !.permit = TRUE]

(* AgentService::publish of events about the session as it is now.         *)
Publish(kind, v) == watch' = [o \in Watchers |-> Push(watch[o], [kind |-> kind, of |-> v])]
PublishBoth(kind, other, v) ==
  watch' = [o \in Watchers |-> Push(Push(watch[o], [kind |-> kind, of |-> v]), [kind |-> other, of |-> v])]

(* finish_session keeps what is queued; close does not.                    *)
Finish(w) == IF w.at = "unborn" THEN w ELSE [w EXCEPT !.closed = TRUE, !.permit = TRUE]
Shut(w) == [Finish(w) EXCEPT !.queue = <<>>]

(* EventSubscription::recv: one look at the queue; then it waits for the   *)
(* permit, which an earlier notify may have left.                          *)
Recv(o) ==
  LET w == watch[o] IN
  /\ w.at = "looking"
  /\ watch' = [watch EXCEPT ![o] =
       IF w.lagged THEN [w EXCEPT !.lagged = FALSE, !.at = "lagged"]
       ELSE IF w.queue # <<>>
            THEN [w EXCEPT !.queue = Tail(@), !.seen = Told(@, Head(w.queue))]
       ELSE IF w.closed THEN [w EXCEPT !.at = "ended"]
       ELSE [w EXCEPT !.at = "waiting"]]
  /\ UNCHANGED <<session, working, op, gate, asked, bounds>>

Woken(o) ==
  /\ watch[o].at = "waiting" /\ watch[o].permit
  /\ watch' = [watch EXCEPT ![o].at = "looking", ![o].permit = FALSE]
  /\ UNCHANGED <<session, working, op, gate, asked, bounds>>

(* subscribe_loaded: snapshot and registration under the state lock, and   *)
(* then a query for the model's information.                               *)
Subscribe(o) ==
  /\ gate = Nobody /\ life = "live" /\ watch[o].at = "unborn"
  /\ watch' = [watch EXCEPT ![o] =
       Push([NoWatch EXCEPT !.at = "looking", !.seen = view], [kind |-> "ready", of |-> view])]
  /\ query' = query + 1
  /\ asked' = asked \cup {<<view.model, query + 1>>}
  /\ UNCHANGED <<view, row, life, info, applied, working, op, gate, bounds>>

Unsubscribe(o) ==
  /\ watch[o].at \in {"looking", "waiting"}
  /\ watch' = [watch EXCEPT ![o] = [NoWatch EXCEPT !.at = "ended", !.closed = TRUE]]
  /\ UNCHANGED <<session, working, op, gate, asked, bounds>>

-----------------------------------------------------------------------------
(* Model information.  The host answers with what it knows, or fails.      *)
Informed(v, known) ==
  IF known THEN [v EXCEPT !.names = v.model, !.warning = FALSE] ELSE [v EXCEPT !.warning = TRUE]

(* apply_info: what the host did not tell is forgotten.                    *)
InfoOf(m, known) == IF known THEN m ELSE Unnamed

CurrentQuery(q) == query = q[2] /\ view.model = q[1]

Refresh(q) ==
  /\ q \in asked /\ asked' = asked \ {q}
  /\ IF life \in {"live", "frozen"} /\ CurrentQuery(q)
     THEN \E known \in BOOLEAN :
            /\ view' = Informed(view, known)
            /\ info' = InfoOf(q[1], known)
            /\ applied' = q[2]
            /\ Publish("warning", view')
     ELSE UNCHANGED <<view, info, applied, watch>>
  /\ UNCHANGED <<row, life, query, working, op, gate, bounds>>

(* set_session_config: the host is asked under the gate ...                *)
AskConfig(c) ==
  /\ gate = Nobody /\ op[c] = NoOp /\ life = "live"
  /\ calls < MaxCalls /\ calls' = calls + 1
  /\ \E m \in Models, r \in 1..view.rev :      \* the revision the client was shown
       op' = [op EXCEPT ![c] = [NoOp EXCEPT !.at = "configuring", !.model = m, !.rev = r]]
  /\ gate' = c
  /\ UNCHANGED <<session, working, asked, watch, faults>>

Configured(v, m, known) ==
  LET moved == IF v.model = m THEN v
               ELSE [v EXCEPT !.model = m, !.rev = @ + 1, !.names = Unnamed]
      told == Informed(moved, known) IN
  IF told.rev = v.rev /\ told.names # v.names THEN [told EXCEPT !.rev = @ + 1] ELSE told

(* ... and the revision is compared when it has answered.                  *)
SetConfig(c) ==
  /\ op[c].at = "configuring"
  /\ \E known \in BOOLEAN :
     LET new == Configured(view, op[c].model, known) IN
     \/ /\ life = "live" /\ op[c].rev = view.rev
        /\ view' = new /\ query' = query + 1 /\ applied' = query + 1
        /\ info' = InfoOf(op[c].model, known)
        /\ PublishBoth("config", "warning", new)
        /\ \/ row' = [text |-> view.text, auto |-> view.auto] /\ UNCHANGED faults    \* flush
           \/ faults < MaxFaults /\ faults' = faults + 1 /\ UNCHANGED row
     \/ /\ life = "live" /\ op[c].rev = view.rev                \* commit_meta fails
        /\ faults < MaxFaults /\ faults' = faults + 1
        /\ query' = query + 1
        /\ UNCHANGED <<view, row, info, applied, watch>>
     \/ /\ life # "live" \/ op[c].rev # view.rev
        /\ UNCHANGED <<view, row, info, query, applied, watch, faults>>
  /\ op' = [op EXCEPT ![c] = NoOp] /\ gate' = Nobody
  /\ UNCHANGED <<life, working, asked, calls>>

-----------------------------------------------------------------------------
(* Title tasks.  The newest replaces the others, which are cancelled and   *)
(* stay until they have ended.                                             *)
Cancelled == [t \in Tasks |-> [tasks[t] EXCEPT !.cancelled = @ \/ tasks[t].at # "none"]]
Schedule(t) ==
  /\ tasks[t] = NoTask
  /\ tasks' = [Cancelled EXCEPT ![t] = [at |-> "asking", rev |-> view.rev, cancelled |-> FALSE]]
  /\ current' = t

(* regenerate_title: not beside a run, and there must be output to read.   *)
Regenerate(t) ==
  /\ gate = Nobody /\ life = "live" /\ ~run /\ ran > 0
  /\ calls < MaxCalls /\ calls' = calls + 1
  /\ Schedule(t)
  /\ UNCHANGED <<session, run, ran, op, gate, asked, watch, faults>>

(* accept_run, and the end of a run with output, under the state lock.     *)
StartRun ==
  /\ gate = Nobody /\ life = "live" /\ ~run /\ ran < MaxRuns
  /\ ran > 0 \/ view.text # Untitled                     \* the first one sets a title before
  /\ run' = TRUE
  /\ current' = Nobody /\ tasks' = Cancelled
  /\ UNCHANGED <<session, ran, op, gate, asked, watch, bounds>>

EndRun ==
  /\ run /\ run' = FALSE /\ ran' = ran + 1
  /\ IF life = "live" /\ view.auto
       THEN \E t \in Tasks : Schedule(t)
       ELSE UNCHANGED <<current, tasks>>
  /\ UNCHANGED <<session, op, gate, asked, watch, bounds>>

(* The model answers, fails, is cancelled or out of time.                  *)
Answer(t) ==
  /\ tasks[t].at = "asking"
  /\ \E at \in {"answered", "failed"} :
       /\ tasks[t].cancelled => at = "failed"
       /\ tasks' = [tasks EXCEPT ![t].at = at]
  /\ UNCHANGED <<session, run, ran, current, op, gate, asked, watch, bounds>>

(* persist_title, its check: the update is made from the view as it is.    *)
Updated(text, auto) ==
  [at |-> "storing", text |-> text, auto |-> auto, model |-> Unnamed,
   rev |-> IF view.text # text \/ view.auto # auto THEN view.rev + 1 ELSE view.rev]

(* Mutant: whatever the task has is stored.                                *)
ExpectedNothing(t) == tasks[t].at = "answered"

Expected(t) == tasks[t].at = "answered" /\ current = t /\ view.rev = tasks[t].rev

StoreTitle(t) ==
  /\ gate = Nobody /\ tasks[t].at \in {"answered", "failed"}
  /\ IF life = "live" /\ Expected(t)
     THEN /\ \E x \in Texts : op' = [op EXCEPT ![t] = Updated(x, TRUE)]
          /\ tasks' = [tasks EXCEPT ![t].at = "storing"]
          /\ gate' = t
          /\ UNCHANGED current
     ELSE /\ tasks' = [tasks EXCEPT ![t].at = "ended"]
          /\ current' = IF current = t THEN Nobody ELSE current
          /\ UNCHANGED <<op, gate>>
  /\ UNCHANGED <<session, run, ran, asked, watch, bounds>>

(* set_session_title; and start_run before the first run, whose title the  *)
(* next title task may replace.                                            *)
SetTitle(c) ==
  /\ gate = Nobody /\ op[c] = NoOp /\ life = "live"
  /\ calls < MaxCalls /\ calls' = calls + 1
  /\ \E x \in Texts :
     \/ /\ ~(view.text = x /\ ~view.auto /\ current = Nobody)
        /\ op' = [op EXCEPT ![c] = Updated(x, FALSE)]
     \/ /\ ran = 0 /\ ~run /\ view.text = Untitled
        /\ op' = [op EXCEPT ![c] = Updated(x, TRUE)]
  /\ gate' = c
  /\ UNCHANGED <<session, working, asked, watch, faults>>

(* SessionCatalog::update, between the two halves of persist_title.        *)
StoreRow(p) ==
  /\ op[p].at = "storing"
  /\ \/ /\ row' = [text |-> op[p].text, auto |-> op[p].auto]
        /\ op' = [op EXCEPT ![p].at = "stored"]
        /\ UNCHANGED faults
     \/ /\ faults < MaxFaults /\ faults' = faults + 1
        /\ op' = [op EXCEPT ![p].at = "over"]
        /\ UNCHANGED row
  /\ UNCHANGED <<view, life, info, query, applied, working, gate, asked, watch, calls>>

(* The view takes it over, every task is cancelled, observers are told.    *)
CommitTitle(p) ==
  /\ op[p].at = "stored"
  /\ IF life # "gone"
     THEN /\ view' = [view EXCEPT !.text = op[p].text, !.auto = op[p].auto, !.rev = op[p].rev]
          /\ current' = Nobody /\ tasks' = Cancelled
          /\ Publish("title", view')
     ELSE UNCHANGED <<view, current, tasks, watch>>
  /\ op' = [op EXCEPT ![p].at = "over"]
  /\ UNCHANGED <<row, life, info, query, applied, run, ran, gate, asked, bounds>>

(* The caller is answered; a task leaves the session's list.               *)
EndUpdate(p) ==
  /\ op[p].at = "over"
  /\ op' = [op EXCEPT ![p] = NoOp] /\ gate' = Nobody
  /\ IF p \in Tasks
     THEN /\ tasks' = [tasks EXCEPT ![p].at = "ended"]
          /\ current' = IF current = p THEN Nobody ELSE current
     ELSE UNCHANGED <<tasks, current>>
  /\ UNCHANGED <<session, run, ran, asked, watch, bounds>>

-----------------------------------------------------------------------------
(* The session is frozen and let go, or removed; the service is cancelled. *)
Freeze ==
  /\ gate = Nobody /\ life = "live" /\ calls < MaxCalls /\ calls' = calls + 1
  /\ life' = "frozen" /\ current' = Nobody /\ tasks' = Cancelled
  /\ UNCHANGED <<view, row, info, query, applied, run, ran, op, gate, asked, watch, faults>>

Thaw ==
  /\ gate = Nobody /\ life = "frozen" /\ life' = "live"
  /\ UNCHANGED <<view, row, info, query, applied, working, op, gate, asked, watch, bounds>>

Delete ==
  /\ gate = Nobody /\ life = "frozen" /\ ~run /\ life' = "gone"
  /\ \A t \in Tasks : tasks[t].at \in {"none", "ended"}      \* delete_target waits for them
  /\ watch' = [o \in Watchers |-> Finish(Push(watch[o], [kind |-> "deleted", of |-> view]))]
  /\ UNCHANGED <<view, row, info, query, applied, working, op, gate, asked, bounds>>

Cancel ==
  /\ life \in {"live", "frozen"} /\ calls < MaxCalls /\ calls' = calls + 1
  /\ life' = "cancelled" /\ current' = Nobody /\ tasks' = Cancelled
  /\ UNCHANGED <<view, row, info, query, applied, run, ran, op, gate, asked, watch, faults>>

Close ==
  /\ life = "cancelled" /\ gate = Nobody /\ ~run
  /\ \A t \in Tasks : tasks[t].at \in {"none", "ended"}
  /\ life' = "gone"
  /\ watch' = [o \in Watchers |-> Shut(watch[o])]
  /\ UNCHANGED <<view, row, info, query, applied, working, op, gate, asked, bounds>>

TaskStep(t) == Answer(t) \/ StoreTitle(t)
Update(p) == StoreRow(p) \/ CommitTitle(p) \/ EndUpdate(p)
Next ==
  \/ \E o \in Watchers : Subscribe(o) \/ Unsubscribe(o) \/ Recv(o) \/ Woken(o)
  \/ \E q \in asked : Refresh(q)
  \/ \E c \in Callers : AskConfig(c) \/ SetConfig(c) \/ SetTitle(c)
  \/ \E t \in Tasks : Regenerate(t) \/ TaskStep(t)
  \/ \E p \in Procs : Update(p)
  \/ StartRun \/ EndRun \/ Freeze \/ Thaw \/ Delete \/ Cancel \/ Close

Spec == Init /\ [][Next]_vars

-----------------------------------------------------------------------------
View == [text : Texts \cup {Untitled}, auto : BOOLEAN, rev : Nat, model : Models,
         names : Models \cup {Unnamed}, warning : BOOLEAN]

(* Types; a current title task is one that has not ended.                  *)
TypeOK ==
  /\ view \in View /\ row \in [text : Texts \cup {Untitled}, auto : BOOLEAN]
  /\ life \in {"live", "frozen", "cancelled", "gone"} /\ run \in BOOLEAN /\ ran \in Nat
  /\ current \in Tasks \cup {Nobody} /\ gate \in Procs \cup {Nobody}
  /\ current # Nobody => tasks[current].at \in {"asking", "answered", "failed", "storing"}
  /\ info \in Models \cup {Unnamed} /\ asked \subseteq Models \X (1..query)
  /\ \A o \in Watchers : Len(watch[o].queue) <= MaxQueue

(* The title a session shows is the one its row has, whenever nobody is    *)
(* about to change it (persist_title writes SQLite first).                 *)
RowIsView == gate = Nobody /\ life # "gone" => row = [text |-> view.text, auto |-> view.auto]

(* An automatic title is stored only over what the session had when it was *)
(* asked for: no title set by hand, no other title and no configuration    *)
(* came in between, although a database await lies between check and       *)
(* commit.                                                                 *)
TitleAsAsked ==
  \A t \in Tasks : op[t].at = "stored" /\ view' # view => view.rev = tasks[t].rev

(* Whatever changes title, switch or model gives the metadata a new        *)
(* revision, so a client's expected_metadata_revision means what it saw.   *)
RevisionTells ==
  /\ view'.rev >= view.rev
  /\ <<view.text, view.auto, view.model>> # <<view'.text, view'.auto, view'.model>>
       => view'.rev > view.rev

(* Model information belongs to the session's model, and a late answer     *)
(* never replaces that of a newer query.                                   *)
InfoIsCurrent == info # Unnamed => info = view.model
NewestInfo == applied' >= applied

(* No late answer takes effect over what came after its question.          *)
TitlesKept == [][TitleAsAsked /\ RevisionTells /\ NewestInfo]_vars

(* An observer that was not told of a gap will have, when it has emptied   *)
(* its queue, exactly what the session shows: of each field the value in   *)
(* the last event that carries it, or else the one it has.                 *)
Tells(w, f) == {i \in 1..Len(w.queue) : f \in Carried(w.queue[i].kind)}
ToldLast(w, f) ==
  LET places == Tells(w, f) IN
  IF places = {} THEN w.seen[f] = view[f]
  ELSE \E i \in places : (\A j \in places : j <= i) /\ w.queue[i].of[f] = view[f]
ShownIsView ==
  \A o \in Watchers :
    watch[o].at \in {"looking", "waiting"} /\ ~watch[o].lagged /\ life # "gone"
    => \A f \in Fields : ToldLast(watch[o], f)

(* An observer never sleeps on something it has to deliver or to end with. *)
WatcherAwake ==
  \A o \in Watchers :
    watch[o].at = "waiting" /\ ~watch[o].permit
      => watch[o].queue = <<>> /\ ~watch[o].lagged /\ ~watch[o].closed

(* What is stored, shown and told of a session agree.                      *)
ViewsKept == TypeOK /\ RowIsView /\ InfoIsCurrent /\ ShownIsView /\ WatcherAwake
=============================================================================
