--------------------------- MODULE SessionDirectory ---------------------------
(***************************************************************************)
(* The directory of conversations of crates/xw-agent: the SQLite rows, the *)
(* journal files and the sessions in memory, under one asynchronous gate.  *)
(* Archiving and deleting wait for a session's run and title task outside  *)
(* the gate, because those need the gate to end; a frozen mark (a session  *)
(* in memory) or the claim of its file (a cold one) keeps everybody else   *)
(* away meanwhile.  Retention does the same in the background, and must    *)
(* leave alone what somebody is looking at.                                *)
(*                                                                         *)
(* A section under the gate is one action unless something that does not   *)
(* take the gate can change what its later half relies on.  What a run or  *)
(* a title task does is in AgentRun and Titles; here each is a token that  *)
(* starts, may be cancelled and ends.                                      *)
(***************************************************************************)
EXTENDS Integers, FiniteSets, FiniteSetsExt

CONSTANTS
  Sessions,      \* session ids
  Clients,       \* callers of the service
  Maintenance,   \* the retention task, a caller too
  Nobody,        \* the gate is free, a file is not claimed
  Requests,      \* client_request_ids of creations
  MaxViewers,    \* MAX_VIEWERS
  MaxTime,       \* bound on the clock, in units of archive_after_days
  MaxCalls,      \* bound on the calls clients make
  MaxPasses,     \* bound on the passes of maintenance
  MaxFaults      \* bound on failing writes and crashes

ASSUME CallersAssumption ==
  /\ Maintenance \notin Clients
  /\ Nobody \notin Clients \cup {Maintenance}
ASSUME LimitsAssumption ==
  /\ MaxViewers \in Nat \ {0} /\ MaxTime \in Nat /\ MaxCalls \in Nat
  /\ MaxPasses \in Nat /\ MaxFaults \in Nat

VARIABLES
  row,        \* row[s]: none, live, archived or deleting
  revision,   \* row[s].archive_revision
  touched,    \* row[s].updated_at_ms
  file,       \* the sessions whose journal file exists
  activity,   \* the time of the last entry in the journal of s
  deletes,    \* delete_after_days is not 0
  service,    \* open, closing (State.closed), or down
  loaded,     \* the sessions in State.sessions
  frozen,     \* Session.frozen
  dirty,      \* Session.index_dirty
  work,       \* work[s]: its background tasks: run, flush (of an ended run), title
  creations,  \* State.creations: <<request, session>>
  viewers,    \* State.viewers: <<session, client>> with a live lease
  gate,       \* who holds IndexAccess.gate
  claim,      \* claim[s]: whose SessionFiles holds the file of a cold session
  op,         \* op[p]: what p is doing
  timer,      \* the maintenance task runs
  due,        \* its interval has fired
  pass,       \* the pass it is in: stage, the time it began, what is left to do
  now, calls, passes, faults,
  gone        \* history: the sessions a caller was told are deleted

store == <<row, revision, touched, file, activity, deletes>>
memory == <<service, loaded, frozen, dirty, creations, viewers>>
schedule == <<timer, due, pass, passes>>
counters == <<now, calls, faults>>
vars == <<store, memory, work, gate, claim, op, schedule, counters, gone>>

Procs == Clients \cup {Maintenance}
Rows == {"none", "live", "archived", "deleting"}
Kinds == {"read", "start", "create", "view", "archive", "restore", "delete", "policy", "close"}
Points == {"queued", "examined", "settling", "marked", "forgotten", "cleaned",
           "registering", "flushing", "stopping"}

(* expect: the archive revision the caller has seen, 0 for none given;     *)
(* awaits: the tasks whose end freeze has told the caller to wait for.     *)
NoCall == [kind |-> "none", on |-> Nobody, expect |-> 0, at |-> "idle", awaits |-> {}]
Request(k, s, r) == [kind |-> k, on |-> s, expect |-> r, at |-> "queued", awaits |-> {}]
Idle(p) == op[p] = NoCall
At(p, kind, point) == op[p].kind = kind /\ op[p].at = point
Answer(p) == op' = [op EXCEPT ![p] = NoCall]
Proceed(p, point) == op' = [op EXCEPT ![p].at = point]

Max2(a, b) == IF a < b THEN b ELSE a
Put(f, s, v) == [f EXCEPT ![s] = v]
Fault == faults < MaxFaults /\ faults' = faults + 1
Sound == UNCHANGED faults
Release(p) == claim' = [s \in Sessions |-> IF claim[s] = p THEN Nobody ELSE claim[s]]

(* The service is opened on what an earlier one has stored.                *)
Init ==
  /\ file \in SUBSET Sessions
  /\ row = [s \in Sessions |-> IF s \in file THEN "live" ELSE "none"]
  /\ revision = [s \in Sessions |-> IF s \in file THEN 1 ELSE 0]
  /\ touched = [s \in Sessions |-> 0]
  /\ activity = [s \in Sessions |-> 0]
  /\ deletes = FALSE
  /\ service = "open"
  /\ loaded = {} /\ frozen = {} /\ dirty = {}
  /\ work = [s \in Sessions |-> {}]
  /\ creations = {} /\ viewers = {}
  /\ gate = Nobody
  /\ claim = [s \in Sessions |-> Nobody]
  /\ op = [p \in Procs |-> NoCall]
  /\ timer = FALSE /\ due = FALSE
  /\ pass = [stage |-> "idle", began |-> 0, left |-> {}]
  /\ now = 0 /\ calls = 0 /\ passes = 0 /\ faults = 0
  /\ gone = {}

-----------------------------------------------------------------------------
(* Answers of the index that every operation starts from.                  *)

(* updated_at_ms of a session in memory: the last entry, or the row's.     *)
Shown(s) == Max2(touched[s], activity[s])

(* flush: the row takes over what memory shows.  While an update fails the *)
(* session stays dirty.                                                    *)
Flushed(s) ==
  /\ touched' = Put(touched, s, Shown(s))
  /\ dirty' = dirty \ {s}
  /\ Sound
FlushFailed(s) ==
  /\ dirty' = dirty \cup {s}
  /\ UNCHANGED touched
  /\ Fault

(* load: only a live row; a session in memory unless it is frozen, with    *)
(* its outstanding flush; a cold one unless its file is claimed.           *)

(* Mutant: the row's status is not asked for.                              *)
LoadableAnyRow(s) ==
  /\ service = "open"
  /\ row[s] # "none"
  /\ s \in loaded => s \notin frozen
  /\ s \notin loaded => claim[s] = Nobody

Loadable(s) ==
  /\ service = "open"
  /\ row[s] = "live"
  /\ s \in loaded => s \notin frozen
  /\ s \notin loaded => claim[s] = Nobody
Fetched(s) ==
  /\ Loadable(s)
  /\ loaded' = loaded \cup {s}
  /\ IF s \in loaded \ dirty
       THEN UNCHANGED <<touched, dirty>> /\ Sound
       ELSE Flushed(s)
LoadFailed(s) ==
  /\ Loadable(s)
  /\ \/ Fault /\ UNCHANGED <<loaded, touched, dirty>>      \* open or settlement
     \/ s \notin loaded \ dirty /\ loaded' = loaded \cup {s} /\ FlushFailed(s)

(* read_session, subscribe_session, the title and configuration calls.     *)
Read(c) ==
  /\ At(c, "read", "queued") /\ gate = Nobody
  /\ LET s == op[c].on IN
     \/ Fetched(s) \/ LoadFailed(s)
     \/ ~Loadable(s) /\ UNCHANGED <<loaded, touched, dirty>> /\ Sound
  /\ Answer(c)
  /\ UNCHANGED <<row, revision, file, activity, deletes, service, frozen, creations, viewers,
                 work, gate, claim, schedule, now, calls, gone>>

(* start_run up to accept_run, which records the start; its flush follows  *)
(* under the same gate while the run is on its way.                        *)
StartRun(c) ==
  /\ At(c, "start", "queued") /\ gate = Nobody
  /\ LET s == op[c].on IN
     \/ /\ Fetched(s)
        /\ IF "run" \in work[s]                            \* session is running
             THEN Answer(c) /\ UNCHANGED <<work, activity, gate>>
             ELSE /\ work' = [work EXCEPT ![s] = @ \cup {"run"}]
                  /\ activity' = Put(activity, s, now)
                  /\ gate' = c
                  /\ Proceed(c, "flushing")
     \/ (LoadFailed(s) \/ (~Loadable(s) /\ UNCHANGED <<loaded, touched, dirty>> /\ Sound))
        /\ Answer(c) /\ UNCHANGED <<work, activity, gate>>
  /\ UNCHANGED <<row, revision, file, deletes, service, frozen, creations, viewers,
                 claim, schedule, now, calls, gone>>

FlushStart(c) ==
  /\ At(c, "start", "flushing")
  /\ LET s == op[c].on IN
     IF s \in loaded THEN Flushed(s) \/ FlushFailed(s) ELSE UNCHANGED <<touched, dirty>> /\ Sound
  /\ gate' = Nobody
  /\ Answer(c)
  /\ UNCHANGED <<row, revision, file, activity, deletes, service, loaded, frozen, creations,
                 viewers, work, claim, schedule, now, calls, gone>>

-----------------------------------------------------------------------------
(* create_session_with_source.  op.on is the request here until the        *)
(* session has its id.                                                     *)
Unused == {s \in Sessions : revision[s] = 0 /\ s \notin file \cup gone}

Create(c) ==
  /\ At(c, "create", "queued") /\ gate = Nobody
  /\ LET q == op[c].on IN
     \/ /\ service # "open"
        /\ Answer(c)
        /\ UNCHANGED <<file, activity, loaded, touched, dirty, creations, gate>> /\ Sound
     \/ \E s \in Sessions :                      \* asked before: the same session
          /\ service = "open" /\ <<q, s>> \in creations
          /\ \/ Fetched(s) \/ LoadFailed(s)
             \/ ~Loadable(s) /\ UNCHANGED <<loaded, touched, dirty>> /\ Sound
          /\ Answer(c)
          /\ UNCHANGED <<file, activity, creations, gate>>
     \/ /\ service = "open" /\ \A s \in Sessions : <<q, s>> \notin creations
        /\ Unused = {}                             \* bound on the ids
        /\ Answer(c)
        /\ UNCHANGED <<file, activity, loaded, touched, dirty, creations, gate>> /\ Sound
     \/ /\ service = "open" /\ \A s \in Sessions : <<q, s>> \notin creations
        /\ \E s \in Unused :
             /\ \/ /\ file' = file \cup {s}
                   /\ activity' = Put(activity, s, now)
                   /\ loaded' = loaded \cup {s}
                   /\ creations' = creations \cup {<<q, s>>}
                   /\ gate' = c
                   /\ op' = [op EXCEPT ![c].on = s, ![c].at = "registering"]
                   /\ Sound
                \/ /\ Fault /\ Answer(c)         \* no journal, nothing is left
                   /\ UNCHANGED <<file, activity, loaded, creations, gate>>
        /\ UNCHANGED <<touched, dirty>>
  /\ UNCHANGED <<row, revision, deletes, service, frozen, viewers, work, claim, schedule,
                 now, calls, gone>>

(* The row; if SQLite refuses it, session, file and creation are undone,   *)
(* and a file that resists stays without a row.                            *)
RegisterRow(c) ==
  /\ At(c, "create", "registering")
  /\ LET s == op[c].on IN
     \/ /\ Sound
        /\ row' = Put(row, s, "live")
        /\ revision' = Put(revision, s, 1)
        /\ touched' = Put(touched, s, activity[s])
        /\ UNCHANGED <<file, loaded, creations>>
     \/ /\ service = "open" /\ Fault
        /\ file' \in {file, file \ {s}}
        /\ loaded' = loaded \ {s}
        /\ creations' = {x \in creations : x[2] # s}
        /\ UNCHANGED <<row, revision, touched>>
     \/ /\ service # "open" /\ Sound                 \* cancelled before or after it
        /\ UNCHANGED <<row, revision, touched, file, loaded, creations>>
  /\ gate' = Nobody
  /\ Answer(c)
  /\ UNCHANGED <<activity, deletes, service, frozen, dirty, viewers, work, claim, schedule,
                 now, calls, gone>>

-----------------------------------------------------------------------------
(* track_session_viewing: a lease on a live session that is not closing.   *)
View(c) ==
  /\ At(c, "view", "queued") /\ gate = Nobody
  /\ LET s == op[c].on IN
     IF /\ service = "open" /\ row[s] = "live" /\ s \notin frozen
        /\ Cardinality(viewers) < MaxViewers
     THEN viewers' = viewers \cup {<<s, c>>}
     ELSE UNCHANGED viewers
  /\ Answer(c)
  /\ UNCHANGED <<store, service, loaded, frozen, dirty, creations, work, gate, claim, schedule,
                 counters, gone>>

(* The lease is dropped: no lock is involved.                              *)
Leave(v) ==
  /\ viewers' = viewers \ {v}
  /\ UNCHANGED <<store, service, loaded, frozen, dirty, creations, work, gate, claim, op,
                 schedule, counters, gone>>

Viewed(s) == \E v \in viewers : v[1] = s

-----------------------------------------------------------------------------
(* archive_session_before.  Maintenance passes a cutoff, and then leaves   *)
(* alone what is viewed, at work or was touched after it.                  *)
Automatic(p) == p = Maintenance
Cutoff == pass.began - 1
Wanted(kind) == IF kind = "archive" THEN "archived" ELSE "live"
Busy(s) ==
  s \in loaded /\ (work[s] \cap {"run", "title"} # {} \/ s \in dirty \/ Shown(s) > Cutoff)
Spared(p, s) == Automatic(p) /\ (touched[s] > Cutoff \/ Viewed(s) \/ Busy(s))
Listed(s) == row[s] \in {"live", "archived"}

(* A cold session's file is claimed; it may not be, by anybody else.       *)
Ownable(p, s) == s \in loaded \/ claim[s] = Nobody
Own(p, s) == IF s \in loaded THEN UNCHANGED claim ELSE claim' = Put(claim, s, p)

(* Mutant: a cold session is left to whoever opens it.              *)
ExamineUnclaimed(p) ==
  /\ op[p].kind \in {"archive", "restore"} /\ op[p].at = "queued" /\ gate = Nobody
  /\ LET s == op[p].on IN
     IF /\ service = "open" /\ Listed(s) /\ ~Spared(p, s) /\ Ownable(p, s)
        /\ op[p].expect = revision[s] /\ row[s] # Wanted(op[p].kind)
     THEN gate' = p /\ Proceed(p, "examined") /\ UNCHANGED claim
     ELSE Answer(p) /\ UNCHANGED <<claim, gate>>
  /\ UNCHANGED <<store, memory, work, schedule, counters, gone>>

Examine(p) ==
  /\ op[p].kind \in {"archive", "restore"} /\ op[p].at = "queued" /\ gate = Nobody
  /\ LET s == op[p].on IN
     IF /\ service = "open" /\ Listed(s) /\ ~Spared(p, s) /\ Ownable(p, s)
        /\ op[p].expect = revision[s] /\ row[s] # Wanted(op[p].kind)
     THEN gate' = p /\ Proceed(p, "examined") /\ Own(p, s)
     ELSE Answer(p) /\ UNCHANGED <<claim, gate>>
  /\ UNCHANGED <<store, memory, work, schedule, counters, gone>>

(* The tasks that signal their end: an active run, and titles.             *)
Tokens(s) == {<<s, t>> : t \in work[s] \ {"flush"}}

(* freeze cancels the run and the titles and says whose end to wait for;   *)
(* the gate is given back meanwhile.                                       *)
Settle(p, s) == op' = [op EXCEPT ![p].at = "settling",
                                 ![p].awaits = IF s \in loaded THEN Tokens(s) ELSE {}]

(* Mutant: the gate is kept while the tasks end.                           *)
FreezeHolding(p) ==
  /\ op[p].at = "examined"
  /\ LET s == op[p].on IN
     IF service # "open" \/ s \in frozen
     THEN Answer(p) /\ Release(p) /\ UNCHANGED frozen
     ELSE /\ frozen' = IF s \in loaded /\ row[s] # "deleting" THEN frozen \cup {s} ELSE frozen
          /\ Settle(p, s) /\ UNCHANGED claim
  /\ UNCHANGED <<store, service, loaded, dirty, creations, viewers, work, schedule, counters, gone,
                 gate>>

Freeze(p) ==
  /\ op[p].at = "examined"
  /\ LET s == op[p].on IN
     IF service # "open" \/ s \in frozen
     THEN Answer(p) /\ Release(p) /\ UNCHANGED frozen
     ELSE /\ frozen' = IF s \in loaded /\ row[s] # "deleting" THEN frozen \cup {s} ELSE frozen
          /\ Settle(p, s) /\ UNCHANGED claim
  /\ gate' = Nobody
  /\ UNCHANGED <<store, service, loaded, dirty, creations, viewers, work, schedule, counters, gone>>

(* Every token of awaits is done; a run's is after its flush.              *)
Settled(p) ==
  /\ op[p].at = "settling"
  /\ \A x \in op[p].awaits :
       work[x[1]] \cap (IF x[2] = "run" THEN {"run", "flush"} ELSE {x[2]}) = {}

Unfreeze(s) == frozen' = frozen \ {s}

Forgotten(s) ==
  /\ loaded' = loaded \ {s}
  /\ frozen' = frozen \ {s}
  /\ dirty' = dirty \ {s}
  /\ creations' = {x \in creations : x[2] # s}

(* set_archived_before: the statement repeats what was examined.           *)
Stands(p, s) ==
  service # "down" /\ Listed(s) /\ op[p].expect = revision[s] /\ (Automatic(p) => touched[s] <= Cutoff)

(* Mutant: the viewers are not looked at again.                            *)
CommitArchiveUnseen(p) ==
  /\ op[p].kind \in {"archive", "restore"} /\ Settled(p) /\ gate = Nobody
  /\ LET s == op[p].on
         to == Wanted(op[p].kind) IN
     \/ /\ Stands(p, s) /\ Sound
        /\ row' = Put(row, s, to)
        /\ revision' = Put(revision, s, revision[s] + 1)
        /\ touched' = IF to = "live" THEN Put(touched, s, Max2(touched[s], now)) ELSE touched
        /\ IF service # "open" THEN UNCHANGED <<loaded, frozen, dirty, creations>>
           ELSE IF to = "archived" THEN Forgotten(s)
           ELSE Unfreeze(s) /\ UNCHANGED <<loaded, dirty, creations>>
     \/ /\ Fault \/ (~Stands(p, s) /\ Sound)
        /\ Unfreeze(s)
        /\ UNCHANGED <<row, revision, touched, loaded, dirty, creations>>
  /\ Answer(p) /\ Release(p)
  /\ UNCHANGED <<file, activity, deletes, service, viewers, work, gate, schedule, now, calls, gone>>

(* The gate again, the viewers again (for maintenance), the statement, and *)
(* the session leaves memory or is let go.                                 *)
CommitArchive(p) ==
  /\ op[p].kind \in {"archive", "restore"} /\ Settled(p) /\ gate = Nobody
  /\ LET s == op[p].on
         to == Wanted(op[p].kind)
         refused == Automatic(p) /\ (service # "open" \/ Viewed(s)) IN
     \/ /\ Stands(p, s) /\ ~refused /\ Sound
        /\ row' = Put(row, s, to)
        /\ revision' = Put(revision, s, revision[s] + 1)
        /\ touched' = IF to = "live" THEN Put(touched, s, Max2(touched[s], now)) ELSE touched
        /\ IF service # "open" THEN UNCHANGED <<loaded, frozen, dirty, creations>>
           ELSE IF to = "archived" THEN Forgotten(s)
           ELSE Unfreeze(s) /\ UNCHANGED <<loaded, dirty, creations>>
     \/ /\ (Fault /\ ~refused) \/ ((refused \/ ~Stands(p, s)) /\ Sound)
        /\ IF refused /\ service # "open" THEN UNCHANGED frozen ELSE Unfreeze(s)
        /\ UNCHANGED <<row, revision, touched, loaded, dirty, creations>>
  /\ Answer(p) /\ Release(p)
  /\ UNCHANGED <<file, activity, deletes, service, viewers, work, gate, schedule, now, calls, gone>>

-----------------------------------------------------------------------------
(* delete_target.  A row that is deleting already is taken up again; else  *)
(* the archive revision must be the one the caller has seen, if it gave    *)
(* one (and the metadata revision, whose refusal is the second disjunct).  *)

AsSeen(p, s) == op[p].expect # 0 => row[s] = "archived" /\ op[p].expect = revision[s]

ExamineDelete(p) ==
  /\ At(p, "delete", "queued") /\ gate = Nobody
  /\ LET s == op[p].on IN
     \/ /\ service = "open" /\ row[s] # "none" /\ Ownable(p, s)
        /\ row[s] # "deleting" => AsSeen(p, s)
        /\ gate' = p /\ Own(p, s)
        /\ Proceed(p, "examined")
     \/ /\ row[s] \in {"live", "archived"} \/ service # "open" \/ row[s] = "none" \/ ~Ownable(p, s)
        /\ Answer(p)
        /\ UNCHANGED <<claim, gate>>
  /\ UNCHANGED <<store, memory, work, schedule, counters, gone>>

(* The gate again: the row is marked, the session is dropped, then its     *)
(* file and at last its row go; a failure leaves the mark.                 *)
Mark(p) ==
  /\ At(p, "delete", "settling") /\ Settled(p) /\ gate = Nobody
  /\ LET s == op[p].on IN
     \/ /\ service # "down"
        /\ row[s] # "deleting" => AsSeen(p, s)
        /\ row' = Put(row, s, "deleting")
        /\ gate' = p
        /\ Proceed(p, "marked")
        /\ Sound
        /\ UNCHANGED <<frozen, claim>>
     \/ /\ Fault \/ ((service = "down" \/ (row[s] # "deleting" /\ ~AsSeen(p, s))) /\ Sound)
        /\ Unfreeze(s)
        /\ Answer(p) /\ Release(p)
        /\ UNCHANGED <<row, gate>>
  /\ UNCHANGED <<revision, touched, file, activity, deletes, service, loaded, dirty, creations,
                 viewers, work, schedule, now, calls, gone>>

Forget(p) ==
  /\ At(p, "delete", "marked")
  /\ IF service = "open"
       THEN Forgotten(op[p].on) /\ Proceed(p, "forgotten") /\ UNCHANGED <<gate, claim>>
       ELSE Answer(p) /\ Release(p) /\ gate' = Nobody /\ UNCHANGED <<loaded, frozen, dirty, creations>>
  /\ UNCHANGED <<store, service, viewers, work, schedule, counters, gone>>

Clean(p) ==
  /\ At(p, "delete", "forgotten")
  /\ \/ /\ file' = file \ {op[p].on} /\ Sound
        /\ Proceed(p, "cleaned") /\ UNCHANGED <<gate, claim>>
     \/ /\ Fault /\ UNCHANGED file
        /\ Answer(p) /\ Release(p) /\ gate' = Nobody
  /\ UNCHANGED <<row, revision, touched, activity, deletes, memory, work, schedule, now, calls, gone>>

RemoveRow(p) ==
  /\ At(p, "delete", "cleaned")
  /\ LET s == op[p].on IN
     \/ row' = Put(row, s, "none") /\ gone' = gone \cup {s} /\ Sound
     \/ Fault /\ UNCHANGED <<row, gone>>
  /\ Answer(p) /\ Release(p) /\ gate' = Nobody
  /\ UNCHANGED <<revision, touched, file, activity, deletes, memory, work, schedule, now, calls>>

-----------------------------------------------------------------------------
(* The tasks of a session.  execute settles a run under the state lock,    *)
(* may schedule a title, and then flushes under the gate.                  *)
Schedulable(s) == service = "open" /\ s \in loaded \ frozen

EndRun(s) ==
  /\ "run" \in work[s]
  /\ activity' = IF s \in loaded THEN Put(activity, s, now) ELSE activity
  /\ \E title \in SUBSET {"title"} :
       /\ title # {} => Schedulable(s)
       /\ work' = [work EXCEPT ![s] = (@ \ {"run"}) \cup {"flush"} \cup title]
  /\ UNCHANGED <<row, revision, touched, file, deletes, memory, gate, claim, op, schedule,
                 counters, gone>>

Flush(s) ==
  /\ "flush" \in work[s] /\ gate = Nobody
  /\ IF s \in loaded /\ service # "down"
       THEN (row[s] \in {"live", "archived"} /\ Flushed(s)) \/ FlushFailed(s)
       ELSE UNCHANGED <<touched, dirty>> /\ Sound
  /\ work' = [work EXCEPT ![s] = @ \ {"flush"}]
  /\ UNCHANGED <<row, revision, file, activity, deletes, service, loaded, frozen, creations,
                 viewers, gate, claim, op, schedule, now, calls, gone>>

(* regenerate_title, its load done: no gate.                               *)
BeginTitle(s) ==
  /\ Schedulable(s) /\ work[s] \cap {"run", "title"} = {}
  /\ calls < MaxCalls /\ calls' = calls + 1
  /\ work' = [work EXCEPT ![s] = @ \cup {"title"}]
  /\ UNCHANGED <<store, memory, gate, claim, op, schedule, now, faults, gone>>

(* The title task stores what it has under the gate, if it still may.      *)
EndTitle(s) ==
  /\ "title" \in work[s] /\ gate = Nobody
  /\ \/ UNCHANGED touched
     \/ Schedulable(s) /\ touched' = Put(touched, s, Max2(Shown(s), now))
  /\ work' = [work EXCEPT ![s] = @ \ {"title"}]
  /\ UNCHANGED <<row, revision, file, activity, deletes, memory, gate, claim, op, schedule,
                 counters, gone>>

-----------------------------------------------------------------------------
(* Retention.  Saving a policy, like starting the task, makes a pass due   *)
(* as soon as the one under way has ended.                                 *)
StartMaintenance ==
  /\ service = "open" /\ ~timer
  /\ timer' = TRUE /\ due' = TRUE
  /\ UNCHANGED <<store, memory, work, gate, claim, op, pass, passes, counters, gone>>

Interval ==
  /\ timer /\ ~due /\ passes < MaxPasses
  /\ due' = TRUE
  /\ UNCHANGED <<store, memory, work, gate, claim, op, timer, pass, passes, counters, gone>>

SavePolicy(c) ==
  /\ At(c, "policy", "queued") /\ gate = Nobody
  /\ IF service = "open"
       THEN \/ deletes' = ~deletes /\ due' = timer /\ Sound
            \/ Fault /\ UNCHANGED <<deletes, due>>
       ELSE UNCHANGED <<deletes, due>> /\ Sound
  /\ Answer(c)
  /\ UNCHANGED <<row, revision, touched, file, activity, memory, work, gate, claim, timer, pass,
                 passes, now, calls, gone>>

(* maintain_sessions: the candidates with the archive revisions they have  *)
(* now, each archived in turn ...                                          *)
Candidates(status, cutoff) ==
  {<<s, revision[s]>> : s \in {x \in Sessions : row[x] = status /\ touched[x] <= cutoff}}

BeginPass ==
  /\ service = "open" /\ due /\ pass.stage = "idle" /\ passes < MaxPasses
  /\ due' = FALSE
  /\ passes' = passes + 1
  /\ pass' = [stage |-> IF deletes THEN "archive, delete" ELSE "archive",
              began |-> now, left |-> Candidates("live", now - 1)]
  /\ UNCHANGED <<store, memory, work, gate, claim, op, timer, counters, gone>>

(* ... then, if the policy read at the start says so, the archived ones    *)
(* that are older still are deleted as they were seen.                     *)
BeginDeletions ==
  /\ pass.stage = "archive, delete" /\ pass.left = {} /\ Idle(Maintenance)
  /\ pass' = [pass EXCEPT !.stage = "delete", !.left = Candidates("archived", pass.began - 1)]
  /\ UNCHANGED <<store, memory, work, gate, claim, op, timer, due, passes, counters, gone>>

NextCandidate ==
  /\ pass.left # {} /\ Idle(Maintenance)
  /\ \E x \in pass.left :
       /\ pass' = [pass EXCEPT !.left = @ \ {x}]
       /\ op' = Put(op, Maintenance,
                    Request(IF pass.stage = "delete" THEN "delete" ELSE "archive", x[1], x[2]))
  /\ UNCHANGED <<store, memory, work, gate, claim, timer, due, passes, counters, gone>>

EndPass ==
  /\ pass.stage \in {"archive", "delete"} /\ pass.left = {} /\ Idle(Maintenance)
  /\ pass' = [pass EXCEPT !.stage = "idle", !.began = 0]
  /\ UNCHANGED <<store, memory, work, gate, claim, op, timer, due, passes, counters, gone>>

-----------------------------------------------------------------------------
(* cancel_all, and close: the maintenance task first, then the state is    *)
(* closed, every task is cancelled and waited for, and with the gate the   *)
(* directory is closed and the state emptied.                              *)
CancelAll ==
  /\ service = "open"
  /\ service' = "closing" /\ due' = FALSE
  /\ UNCHANGED <<store, loaded, frozen, dirty, creations, viewers, work, gate, claim, op, timer,
                 pass, passes, counters, gone>>

BeginClose(c) ==
  /\ At(c, "close", "queued")
  /\ timer' = FALSE /\ due' = FALSE
  /\ Proceed(c, "stopping")
  /\ UNCHANGED <<store, memory, work, gate, claim, pass, passes, counters, gone>>

CloseState(c) ==
  /\ At(c, "close", "stopping") /\ pass.stage = "idle"
  /\ service' = IF service = "open" THEN "closing" ELSE service
  /\ op' = [op EXCEPT ![c].at = "settling", ![c].awaits = UNION {Tokens(s) : s \in loaded}]
  /\ UNCHANGED <<store, loaded, frozen, dirty, creations, viewers, work, gate, claim, schedule,
                 counters, gone>>

FinishClose(c) ==
  /\ At(c, "close", "settling") /\ Settled(c) /\ gate = Nobody
  /\ service' = "down"
  /\ loaded' = {} /\ frozen' = {} /\ dirty' = {} /\ creations' = {} /\ viewers' = {}
  /\ Answer(c)
  /\ UNCHANGED <<store, work, gate, claim, schedule, counters, gone>>

(* The last reference to a cancelled service is dropped.                   *)
DropService ==
  /\ service = "closing" /\ \A p \in Procs : Idle(p)
  /\ service' = "down"
  /\ loaded' = {} /\ frozen' = {} /\ dirty' = {} /\ creations' = {} /\ viewers' = {}
  /\ timer' = FALSE
  /\ UNCHANGED <<store, work, gate, claim, op, due, pass, passes, counters, gone>>

(* The process dies: what is left is the store.                            *)
Crash ==
  /\ service # "down" /\ Fault
  /\ service' = "down"
  /\ loaded' = {} /\ frozen' = {} /\ dirty' = {} /\ creations' = {} /\ viewers' = {}
  /\ work' = [s \in Sessions |-> {}]
  /\ gate' = Nobody
  /\ claim' = [s \in Sessions |-> Nobody]
  /\ op' = [p \in Procs |-> NoCall]
  /\ timer' = FALSE /\ due' = FALSE
  /\ pass' = [stage |-> "idle", began |-> 0, left |-> {}]
  /\ UNCHANGED <<store, now, calls, passes, gone>>

(* open with finish_pending_deletions: every marked row is taken up; one   *)
(* that fails stays marked until the next time.                            *)
Open ==
  /\ service = "down" /\ \A p \in Procs : Idle(p)
  /\ \A s \in Sessions : work[s] = {}
  /\ service' = "open"
  /\ LET marked == {s \in Sessions : row[s] = "deleting"} IN
     \E cleaned \in SUBSET marked : \E removed \in SUBSET cleaned :
       /\ IF removed = marked THEN Sound ELSE Fault
       /\ file' = file \ cleaned
       /\ row' = [s \in Sessions |-> IF s \in removed THEN "none" ELSE row[s]]
  /\ UNCHANGED <<revision, touched, activity, deletes, loaded, frozen, dirty, creations, viewers,
                 work, gate, claim, op, schedule, now, calls, gone>>

Tick ==
  /\ now < MaxTime
  /\ now' = now + 1
  /\ UNCHANGED <<store, memory, work, gate, claim, op, schedule, calls, faults, gone>>

(* A client calls; what it expects is a revision it may have been shown.   *)
Call(c) ==
  /\ Idle(c) /\ service = "open"
  /\ calls < MaxCalls /\ calls' = calls + 1
  /\ \/ \E k \in {"read", "start", "view"}, s \in Sessions : op' = Put(op, c, Request(k, s, 0))
     \/ \E k \in {"archive", "restore", "delete"}, s \in Sessions :
          \E r \in 1..revision[s] : op' = Put(op, c, Request(k, s, r))
     \/ \E s \in Sessions : op' = Put(op, c, Request("delete", s, 0))
     \/ \E q \in Requests : op' = Put(op, c, Request("create", q, 0))
     \/ \E k \in {"policy", "close"} : op' = Put(op, c, Request(k, Nobody, 0))
  /\ UNCHANGED <<store, memory, work, gate, claim, schedule, now, faults, gone>>

Settling(p) ==
  \/ Examine(p) \/ Freeze(p) \/ CommitArchive(p)
  \/ ExamineDelete(p) \/ Mark(p) \/ Forget(p) \/ Clean(p) \/ RemoveRow(p)
Step(p) ==
  \/ Settling(p)
  \/ p \in Clients /\ \/ Read(p) \/ StartRun(p) \/ FlushStart(p) \/ Create(p) \/ RegisterRow(p)
                      \/ View(p) \/ SavePolicy(p)
                      \/ BeginClose(p) \/ CloseState(p) \/ FinishClose(p)
Task(s) == EndRun(s) \/ Flush(s) \/ BeginTitle(s) \/ EndTitle(s)
Passing == BeginPass \/ BeginDeletions \/ NextCandidate \/ EndPass
Host == StartMaintenance \/ Interval \/ CancelAll \/ DropService \/ Crash \/ Open \/ Tick

Next ==
  \/ \E c \in Clients : Call(c)
  \/ \E p \in Procs : Step(p)
  \/ \E s \in Sessions : Task(s)
  \/ \E v \in viewers : Leave(v)
  \/ Passing \/ Host

Spec == Init /\ [][Next]_vars

(* While a task of the service can move, one does: whoever has the gate    *)
(* goes on, a cancelled run ends, and a title task by its timeout.  Which  *)
(* one is open, so the order in which the gate is given does not matter.   *)
Cancelled(s) == s \in frozen \/ service # "open"
Progress ==
  \/ \E p \in Procs : Step(p)
  \/ \E s \in Sessions : (Cancelled(s) /\ EndRun(s)) \/ Flush(s) \/ EndTitle(s)
  \/ Passing
Fairness == WF_vars(Progress)
FairSpec == Spec /\ Fairness

-----------------------------------------------------------------------------
Calling == [kind : Kinds \cup {"none"}, on : Sessions \cup Requests \cup {Nobody}, expect : Nat,
            at : Points \cup {"idle"}, awaits : SUBSET (Sessions \X {"run", "title"})]

(* Types; a session in memory that is not frozen, or that is, is loaded;   *)
(* and only an operation that goes on under the gate holds it.             *)
TypeOK ==
  /\ row \in [Sessions -> Rows] /\ revision \in [Sessions -> Nat]
  /\ touched \in [Sessions -> 0..MaxTime] /\ activity \in [Sessions -> 0..MaxTime]
  /\ file \subseteq Sessions /\ deletes \in BOOLEAN
  /\ service \in {"open", "closing", "down"}
  /\ frozen \subseteq loaded /\ dirty \subseteq loaded /\ loaded \subseteq Sessions
  /\ work \in [Sessions -> SUBSET {"run", "flush", "title"}]
  /\ creations \subseteq Requests \X Sessions /\ viewers \subseteq Sessions \X Clients
  /\ gate \in Procs \cup {Nobody} /\ claim \in [Sessions -> Procs \cup {Nobody}]
  /\ op \in [Procs -> Calling]
  /\ timer \in BOOLEAN /\ due \in BOOLEAN
  /\ gate # Nobody => op[gate].at \in {"examined", "marked", "forgotten", "cleaned",
                                      "registering", "flushing"}

(* What is in memory can be found again: while nobody has the gate, a      *)
(* loaded session has a live row and a file, and nobody holds a claim on   *)
(* it (delete_target and archive_session_before, against load).            *)
LoadedIsListed ==
  service = "open" /\ gate = Nobody =>
    \A s \in loaded : row[s] = "live" /\ s \in file /\ claim[s] = Nobody

(* A session has one archive, restore or delete past its examination, and  *)
(* that one holds it, by the frozen mark or by the claim.                  *)
Deciding(p, s) ==
  /\ op[p].kind \in {"archive", "restore", "delete"} /\ op[p].on = s
  /\ op[p].at \in {"settling", "marked", "forgotten", "cleaned"}
OneDecides ==
  service = "open" =>
    \A s \in Sessions, p \in Procs :
      Deciding(p, s) =>
        /\ \A q \in Procs \ {p} : ~Deciding(q, s)
        /\ op[p].at = "settling" => s \in frozen \/ claim[s] = p

(* An answer "deleted" is final: no row, no file, nothing in memory.       *)
DeletedIsGone == \A s \in gone : row[s] = "none" /\ s \notin file \cup loaded

(* What is in memory, on disk and in the index agree, each in its type.    *)
ListingKept == TypeOK /\ LoadedIsListed /\ DeletedIsGone

AutoArchives(s) ==
  At(Maintenance, "archive", "settling") /\ row[s] = "live" /\ row'[s] = "archived"
    /\ op'[Maintenance] = NoCall /\ op[Maintenance].on = s

(* Maintenance never archives a session somebody has an acknowledged view  *)
(* of, however the view and the decision interleave.                       *)
ViewedStays == \A s \in Sessions : AutoArchives(s) => ~Viewed(s)

(* Nor one that has a run or has moved on since the pass began, as memory  *)
(* knows it, although it looked idle when it was examined.                 *)
ActiveStays ==
  \A s \in Sessions : AutoArchives(s) /\ s \in loaded =>
    "run" \notin work[s] /\ Shown(s) <= Cutoff

(* A deletion that names the archive it has seen deletes nothing else: not *)
(* a session that was restored, nor one archived again since.              *)
DeletedAsSeen ==
  \A p \in Procs, s \in Sessions :
    /\ At(p, "delete", "settling") /\ op[p].on = s /\ op[p].expect # 0
    /\ row[s] # "deleting" /\ row'[s] = "deleting"
    => row[s] = "archived" /\ op[p].expect = revision[s]

(* No session is archived or deleted on a reading that no longer holds.    *)
RetentionKept == [][ViewedStays /\ ActiveStays /\ DeletedAsSeen]_vars

(* Every call is answered, although archiving, deleting and closing wait   *)
(* for tasks that need the gate themselves.                                *)
Answered == \A p \in Procs : ~Idle(p) ~> Idle(p)
=============================================================================
