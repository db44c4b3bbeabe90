------------------------------ MODULE AgentRun ------------------------------
(***************************************************************************)
(* One conversation of crates/xw-agent while it is registered: clients     *)
(* start and interrupt runs, answer questions and change the model; one    *)
(* drive task per run talks to the model and the tools; every step is      *)
(* recorded in the session's journal before it counts.                     *)
(*                                                                         *)
(* A section the code executes under the state lock is one action.  Its    *)
(* appends can fail at any of them: the entries before are committed, the  *)
(* one that failed is in doubt (module Rollout: a check drops it, a cold   *)
(* open may find it), and the journal wants a check.  A crash inside a     *)
(* section leaves what a failed append followed by a crash leaves.         *)
(***************************************************************************)
EXTENDS History

CONSTANTS
  Inputs,      \* the input ids clients use
  Plans,       \* the tool calls a complete reply may make
  Torn,        \* what a generation that does not complete leaves of its
               \* message: nothing, or a partial one
  Installs,    \* whether WebFetch is assembled when a session is loaded
  MaxRuns,     \* bound on the run ids handed out
  MaxFaults    \* bound on failed appends and crashes

ASSUME RunBounds == MaxRuns \in Nat /\ MaxFaults \in Nat
ASSUME InstallsAssumption == Installs \subseteq BOOLEAN
ASSUME PlansAssumption == Plans \subseteq Seq(STRING)
ASSUME TornAssumption == Torn \subseteq {<<>>, <<"Partial">>}

VARIABLES
  log,        \* the committed history, a set of entries
  doubt,      \* the entry whose append failed, if it is still in the file
  loaded,     \* the session is in memory
  check,      \* its Journal is NeedsCheck
  installed,  \* session.tools holds WebFetch
  active,     \* session.active: the run id, or 0
  cancelled,  \* the run's cancellation token
  failed,     \* session.failed_run, or 0
  requests,   \* session.requests: the inputs it knows
  unclosed,   \* the calls without a result in session.history
  view,       \* view[r]: the status the session shows of run r
  step,       \* what the drive task does next
  at,         \* the id of the turn or the tool call it is at
  result,     \* the status of that generation or call, or of the whole run
  question,   \* the interaction of that call: none, pending, resolved
  runs,       \* the run ids handed out
  faults,     \* the failed appends and crashes so far
  refused,    \* history: the validator refused an append
  effects,    \* history: effects[x]: how often call x ran an outside effect
  replies,    \* history: <<i, r>>: a client was told that r answers input i
  answered    \* history: the calls whose answer was acknowledged

journal == <<log, doubt, check>>
session == <<loaded, installed, failed, requests, unclosed, view>>
drive == <<active, cancelled, step, at, result, question>>
ghost == <<effects, replies, answered>>
vars == <<journal, session, drive, runs, faults, refused, ghost>>

RunIds == 1..MaxRuns
CallIds == RunIds \X (1..(MaxCalls + 1)) \X (1..MaxCalls)

-----------------------------------------------------------------------------
(* Journal appends.  h is the history they are made on: the log, or what a *)
(* cold open found.  append asks the validator first.                      *)
Commit(h, es) ==
  /\ log' = h \cup ToSet(es)
  /\ doubt' = {}
  /\ check' = FALSE
  /\ refused' = (refused \/ ~AcceptsAll(h, es))
  /\ UNCHANGED faults

(* One of the appends fails.                                               *)
Break(h, es) ==
  /\ faults < MaxFaults
  /\ faults' = faults + 1
  /\ \E n \in 1..Len(es) :
       /\ log' = h \cup ToSet(SubSeq(es, 1, n - 1))
       /\ doubt' = {es[n]}
       /\ refused' = (refused \/ ~AcceptsAll(h, SubSeq(es, 1, n)))
  /\ check' = loaded

(* A journal that wants its check fails every append at once.              *)
Fault(es) ==
  \/ check /\ UNCHANGED <<journal, faults, refused>>
  \/ ~check /\ Break(log, es)

Succeed(es) == ~check /\ Commit(log, es)

(* The drive task goes on to step s at id x with result res ...            *)
GoTo(s, x, res) ==
  /\ step' = s
  /\ at' = x
  /\ result' = res

(* ... or drive returns an error.                                          *)
GiveUp == GoTo("leave", at, "Error")

(* What the code reads from the committed history: project and restore.    *)
RunsIn(h) == {id[1] : id \in Places(h, "RunStarted")}
EndOf(h, r) ==
  CASE Says(h, "RunEnd", <<r, 0, 0>>, "Completed") -> "Completed"
    [] Says(h, "RunEnd", <<r, 0, 0>>, "Failed") -> "Failed"
    [] OTHER -> "Interrupted"
Accepted(h) == {e.words[1] : e \in {x \in h : x.kind = "InputAccepted"}}
InputOf(h, r) == Words(h, "RunStarted", <<r, 0, 0>>)[1]

(* Mutant of Project: the accepted inputs are not read again.              *)
ProjectForgetful(h, old) ==
  /\ requests' = requests
  /\ unclosed' = Unclosed(h)
  /\ view' = [r \in RunIds |->
                IF old[r] = "none" /\ r \in RunsIn(h) THEN EndOf(h, r) ELSE old[r]]

Project(h, old) ==
  /\ requests' = Accepted(h)
  /\ unclosed' = Unclosed(h)
  /\ view' = [r \in RunIds |->
                IF old[r] = "none" /\ r \in RunsIn(h) THEN EndOf(h, r) ELSE old[r]]

-----------------------------------------------------------------------------
Init ==
  /\ log = {} /\ doubt = {} /\ check = FALSE
  /\ loaded = TRUE
  /\ installed \in Installs
  /\ active = 0 /\ cancelled = FALSE /\ failed = 0
  /\ requests = {} /\ unclosed = {}
  /\ view = [r \in RunIds |-> "none"]
  /\ step = "idle" /\ at = NoId /\ result = "none" /\ question = "none"
  /\ runs = 0 /\ faults = 0 /\ refused = FALSE
  /\ effects = [x \in CallIds |-> 0]
  /\ replies = {} /\ answered = {}

(* Mutants of Prepare: the failed run is left open, the history is not     *)
(* projected again.                                                        *)
PrepareUnsettled ==
  /\ loaded /\ active = 0
  /\ check \/ failed # 0
  /\ Commit(log, <<>>)
  /\ failed' = 0
  /\ Project(log', view)
  /\ UNCHANGED <<loaded, installed, drive, runs, ghost>>

PrepareUnprojected ==
  /\ loaded /\ active = 0
  /\ check \/ failed # 0
  /\ Commit(log, Settlement(log, failed, installed))
  /\ failed' = 0
  /\ UNCHANGED <<loaded, installed, requests, unclosed, view, drive, runs, ghost>>

(* prepare_writer, the first thing accept_run, set_session_config and the  *)
(* titles do: after a failure it checks the file, settles what the failed  *)
(* run left open and projects the history again.                           *)
Prepare ==
  /\ loaded /\ active = 0
  /\ check \/ failed # 0
  /\ LET es == Settlement(log, failed, installed) IN
     \/ /\ Commit(log, es)
        /\ failed' = 0
        /\ Project(log', view)
        /\ UNCHANGED <<loaded, installed, drive, runs>>
     \/ /\ Break(log, es)
        /\ UNCHANGED <<session, drive, runs>>
  /\ UNCHANGED ghost

(* synchronize: the system context is recorded when it changed, and at the *)
(* latest before the first run.                                            *)
ContextChange(known) ==
  {<<Entry("SystemContext", NoId, <<>>)>>} \cup IF known THEN {<<>>} ELSE {}

(* The five entries that record_start appends for run r of input i.        *)
RecordStart(r, i) ==
  LET run == <<r, 0, 0>>
      turn == <<r, 1, 0>>
  IN  <<Entry("InputAccepted", NoId, <<i>>), Entry("RunStarted", run, <<i>>),
        Entry("TurnStarted", turn, <<>>), Entry("InputConsumed", turn, <<i>>),
        Entry("GenStarted", turn, <<>>)>>

(* accept_run of an input nobody accepted, under a fresh run id: the system *)
(* context if it changed, then record_start; the drive task starts with    *)
(* the generation of the first turn.                                       *)
Start(i) ==
  /\ loaded /\ active = 0 /\ ~check /\ failed = 0
  /\ i \notin requests
  /\ unclosed = {}
  /\ runs < MaxRuns
  /\ runs' = runs + 1
  /\ LET start == RecordStart(runs', i) IN
         \E context \in ContextChange(Has(log, "SystemContext", NoId)) :
           \/ /\ Commit(log, context \o start)
              /\ active' = runs' /\ cancelled' = FALSE
              /\ requests' = requests \cup {i}
              /\ view' = [view EXCEPT ![runs'] = "InProgress"]
              /\ GoTo("generate", <<runs', 1, 0>>, "none")
              /\ replies' = replies \cup {<<i, runs'>>}
              /\ UNCHANGED <<loaded, installed, failed, unclosed, question>>
           \/ /\ Break(log, context \o start)
              /\ failed' = IF doubt' \subseteq ToSet(start) THEN runs' ELSE 0
              /\ UNCHANGED <<loaded, installed, requests, unclosed, view, drive, replies>>
  /\ UNCHANGED <<effects, answered>>

(* A retry of an accepted input is answered with the run it got.           *)
Retry(i) ==
  /\ loaded /\ ~check /\ failed = 0
  /\ i \in requests
  /\ \E r \in RunsIn(log) :
       /\ view[r] # "none" /\ InputOf(log, r) = i
       /\ replies' = replies \cup {<<i, r>>}
  /\ UNCHANGED <<journal, session, drive, runs, faults, refused, effects, answered>>

(* interrupt_run, and the freeze before an archive, a deletion or a close. *)
Interrupt ==
  /\ loaded /\ active # 0 /\ ~cancelled
  /\ cancelled' = TRUE
  /\ UNCHANGED <<journal, session, active, step, at, result, question, runs, faults, refused, ghost>>

(* set_session_config: commit_meta appends a Meta entry.  When that is     *)
(* committed nothing else here changes; when it fails, the active run is   *)
(* stopped.                                                                *)
CommitMeta == <<Entry("Meta", NoId, <<>>)>>

Configure ==
  /\ loaded /\ ~check /\ failed = 0
  /\ Break(log, CommitMeta)
  /\ cancelled' = (active # 0)
  /\ failed' = active
  /\ UNCHANGED <<loaded, installed, requests, unclosed, view, active, step, at,
                 result, question, runs, ghost>>

-----------------------------------------------------------------------------
(* The drive task.  A generation, of a turn or of a WebFetch call, streams  *)
(* until the model finishes, fails, or the run is cancelled.               *)
Durable(status) == IF status = "Cancelled" THEN "Aborted" ELSE status

(* record_generation: the message if there is one, and the end, for        *)
(* outcome res of the stream.  (The mark of the first event before them is *)
(* left out: no rule but its own reads it, and the journal fails at the    *)
(* message or the end just as it fails at the mark.)                       *)
Record(res, words) ==
  (IF words = <<>> THEN <<>> ELSE <<Entry("Message", at, words)>>)
  \o <<Entry("GenEnded", at, <<Durable(res)>>)>>

Used == Cardinality({x \in Places(log, "ToolIntent") : x[1] = active})

(* A complete reply with more calls than the run has left is a failure.    *)
Replies ==
  {<<"Completed", <<"Complete">> \o p>> : p \in {q \in Plans : Len(q) <= MaxCalls - Used}}
  \cup {<<"Failed", <<"Partial">> \o p>> : p \in {q \in Plans : Len(q) > MaxCalls - Used}}
  \cup ({"Failed"} \cup IF cancelled THEN {"Cancelled"} ELSE {}) \X Torn

EndGeneration ==
  /\ step = "generate" /\ Conversation(at)
  /\ \E reply \in Replies :
       LET es == Record(reply[1], reply[2]) IN
       \/ /\ Succeed(es)
          /\ IF reply[1] = "Completed" /\ Len(reply[2]) > 1
               THEN GoTo("call", <<at[1], at[2], 1>>, "none")
               ELSE GoTo("turn", at, reply[1])
          /\ unclosed' = IF reply[1] = "Completed" THEN unclosed \cup CallsOf(log', at) ELSE unclosed
       \/ Fault(es) /\ GiveUp /\ UNCHANGED unclosed
  /\ UNCHANGED <<active, cancelled, question, loaded, installed, failed, requests, view, runs, ghost>>

(* The helper model of WebFetch: it may also run into its deadline, which   *)
(* ends the generation like a cancellation.                                *)
EndExtraction ==
  /\ step = "generate" /\ ~Conversation(at)
  /\ \E res \in {"Completed", "Failed", "Cancelled"} :
     \E words \in IF res = "Completed" THEN {<<"Complete">>} ELSE Torn :
       LET es == Record(res, words) IN
       \/ /\ Succeed(es)
          /\ \E told \in IF cancelled THEN {"Cancelled"}
                        ELSE {"Failed"} \cup ({res} \cap {"Completed"}) :
               GoTo("result", at, told)
       \/ Fault(es) /\ GiveUp
  /\ UNCHANGED <<active, cancelled, question, session, runs, ghost>>

(* The tool that call x asks for.                                          *)
Tool(x) == Words(log, "Message", TurnOf(x))[x[3] + 1]

(* Mutant of CommitIntent: the call runs whatever became of its intent.    *)
CommitIntentLate ==
  /\ step = "call"
  /\ LET es == <<Entry("ToolIntent", at, <<Tool(at)>>)>> IN Succeed(es) \/ Fault(es)
  /\ GoTo("run", at, "none")
  /\ UNCHANGED <<active, cancelled, question, session, runs, ghost>>

(* commit_intent; a cancelled run goes no further with the call.           *)
CommitIntent ==
  /\ step = "call"
  /\ LET es == <<Entry("ToolIntent", at, <<Tool(at)>>)>> IN
     \/ /\ Succeed(es)
        /\ IF cancelled THEN GoTo("result", at, "Skipped") ELSE GoTo("run", at, "none")
     \/ Fault(es) /\ GiveUp
  /\ UNCHANGED <<active, cancelled, question, session, runs, ghost>>

(* A call that comes to nothing: bad arguments, no permission, a tool that *)
(* is not assembled; or Bash and WebFetch, stopped before they did a thing. *)
Refuse ==
  /\ step = "run"
  /\ \/ GoTo("result", at, "Failed")
     \/ cancelled /\ Tool(at) \in {"Bash", "WebFetch"} /\ GoTo("result", at, "Cancelled")
  /\ UNCHANGED <<journal, active, cancelled, question, session, runs, faults, refused, ghost>>

(* Bash runs: it ends, well or not, is killed by a cancellation, or its     *)
(* outcome cannot be told and the run stops with the intent open.  The     *)
(* file tools, which nothing kills once they write, are the same with less. *)
RunBash ==
  /\ step = "run" /\ Tool(at) = "Bash"
  /\ effects' = [effects EXCEPT ![at] = @ + 1]
  /\ \/ \E res \in {"Completed", "Failed"} : GoTo("result", at, res)
     \/ cancelled /\ GoTo("result", at, "Cancelled")
     \/ GiveUp
  /\ UNCHANGED <<journal, active, cancelled, question, session, runs, faults, refused, replies, answered>>

(* TodoWrite and Skill work on the session alone, and WebFetch may have no *)
(* use for a helper model (a redirect).                                    *)
RunLocal ==
  /\ step = "run"
  /\ Tool(at) \in {"TodoWrite", "Skill"} \cup IF installed THEN {"WebFetch"} ELSE {}
  /\ GoTo("result", at, "Completed")
  /\ UNCHANGED <<journal, active, cancelled, question, session, runs, faults, refused, ghost>>

(* WebFetch has its page and asks the helper model.                        *)
BeginExtraction ==
  /\ step = "run" /\ Tool(at) = "WebFetch" /\ installed
  /\ LET es == <<Entry("GenStarted", at, <<>>)>> IN
     \/ Succeed(es) /\ GoTo("generate", at, "none")
     \/ Fault(es) /\ GiveUp
  /\ UNCHANGED <<active, cancelled, question, session, runs, ghost>>

(* interactive::wait: a question is opened unless the run is cancelled ... *)
Ask ==
  /\ step = "run" /\ Tool(at) = "AskUserQuestion"
  /\ LET es == <<Entry("InteractionOpened", at, <<>>)>> IN
     \/ /\ cancelled
        /\ GoTo("result", at, "Cancelled")
        /\ UNCHANGED <<journal, faults, refused, question>>
     \/ /\ ~cancelled /\ Succeed(es)
        /\ GoTo("ask", at, "none")
        /\ question' = "pending"
     \/ ~cancelled /\ Fault(es) /\ GiveUp /\ UNCHANGED question
  /\ UNCHANGED <<active, cancelled, session, runs, ghost>>

(* Mutant of Answered: the question is kept.                               *)
AnsweredKept ==
  /\ step = "ask" /\ question = "resolved"
  /\ GoTo("result", at, "Completed")
  /\ UNCHANGED <<journal, active, cancelled, question, session, runs, faults, refused, ghost>>

(* ... and waits for its answer, which counts even if the run was          *)
(* cancelled since, or expires with the run.                               *)
Answered ==
  /\ step = "ask" /\ question = "resolved"
  /\ GoTo("result", at, "Completed")
  /\ question' = "none"
  /\ UNCHANGED <<journal, active, cancelled, session, runs, faults, refused, ghost>>

(* Mutant of Expire: the wait goes on until its end can be recorded.       *)
ExpireRetried ==
  /\ step = "ask" /\ question = "pending" /\ cancelled
  /\ LET es == <<Entry("InteractionExpired", at, <<"Stopped">>)>> IN
     \/ Succeed(es) /\ GoTo("result", at, "Cancelled") /\ question' = "none"
     \/ Fault(es) /\ UNCHANGED <<step, at, result, question>>
  /\ UNCHANGED <<active, cancelled, session, runs, ghost>>

Expire ==
  /\ step = "ask" /\ question = "pending" /\ cancelled
  /\ LET es == <<Entry("InteractionExpired", at, <<"Stopped">>)>> IN
     \/ Succeed(es) /\ GoTo("result", at, "Cancelled")
     \/ Fault(es) /\ GiveUp
  /\ question' = "none"
  /\ UNCHANGED <<active, cancelled, session, runs, ghost>>

(* respond_interaction by a client; a failed append cancels the run.       *)
Respond ==
  /\ step = "ask" /\ question = "pending" /\ ~cancelled
  /\ LET es == <<Entry("InteractionResolved", at, <<>>)>> IN
     \/ /\ Succeed(es)
        /\ question' = "resolved"
        /\ answered' = answered \cup {at}
        /\ UNCHANGED cancelled
     \/ /\ Fault(es)
        /\ cancelled' = TRUE
        /\ UNCHANGED <<question, answered>>
  /\ UNCHANGED <<active, step, at, result, session, runs, effects, replies>>

(* commit_result, then the next call of the reply or the end of the turn.  *)
CommitResult ==
  /\ step = "result"
  /\ LET es == <<Entry("ToolOutcome", at, <<result>>)>>
         next == <<at[1], at[2], at[3] + 1>>
     IN
     \/ /\ Succeed(es)
        /\ unclosed' = unclosed \ {at}
        /\ IF next \in CallsOf(log, TurnOf(at))
             THEN GoTo("call", next, "none")
             ELSE GoTo("turn", TurnOf(at), "Completed")
     \/ Fault(es) /\ GiveUp /\ UNCHANGED unclosed
  /\ UNCHANGED <<active, cancelled, question, loaded, installed, failed, requests, view, runs, ghost>>

-----------------------------------------------------------------------------
(* The end of a turn: the system context first if a skill was loaded, then *)
(* settle_turn.  A cancelled run ends Cancelled unless it has failed, and  *)
(* one whose history grew over its budget fails.                           *)
SkillLoaded ==
  \E x \in CallsOf(log, at) : Tool(x) = "Skill" /\ Says(log, "ToolOutcome", x, "Completed")

Verdict == IF cancelled /\ result # "Failed" THEN "Cancelled" ELSE result

EndTurn ==
  /\ step = "turn"
  /\ LET calls == IF at \in Effective(log) THEN CallsOf(log, at) ELSE {} IN
     \E status \in {Verdict, "Failed"} :
     \E context \in IF calls # {} /\ SkillLoaded THEN ContextChange(TRUE) ELSE {<<>>} :
       LET es == context \o <<Entry("TurnEnded", at, <<Durable(status)>>)>> IN
       \/ /\ Succeed(es)
          /\ GoTo(IF calls # {} /\ status = "Completed" THEN "next" ELSE "end", at, status)
       \/ Fault(es) /\ GiveUp
  /\ UNCHANGED <<active, cancelled, question, session, runs, ghost>>

NextTurn ==
  /\ step = "next"
  /\ LET turn == <<at[1], at[2] + 1, 0>>
         es == <<Entry("TurnStarted", turn, <<>>), Entry("GenStarted", turn, <<>>)>>
     IN  \/ Succeed(es) /\ GoTo("generate", turn, "none")
         \/ Fault(es) /\ GiveUp
  /\ UNCHANGED <<active, cancelled, question, session, runs, ghost>>

EndRun ==
  /\ step = "end"
  /\ LET es == <<Entry("RunEnd", RunOf(at), <<Durable(result)>>)>> IN
     \/ Succeed(es) /\ GoTo("leave", at, result)
     \/ Fault(es) /\ GiveUp
  /\ UNCHANGED <<active, cancelled, question, session, runs, ghost>>

(* The rest of execute, once drive has returned.                           *)
Leave ==
  /\ step = "leave"
  /\ failed' = IF result = "Error" THEN active ELSE failed
  /\ view' = [view EXCEPT ![active] =
                CASE result = "Completed" -> "Completed"
                  [] result = "Cancelled" -> "Interrupted"
                  [] OTHER -> "Failed"]
  /\ active' = 0 /\ cancelled' = FALSE /\ question' = "none"
  /\ GoTo("idle", NoId, "none")
  /\ UNCHANGED <<journal, loaded, installed, requests, unclosed, runs, faults, refused, ghost>>

-----------------------------------------------------------------------------
(* The session leaves memory: close and archive wait for its run to end,   *)
(* a crash does not.                                                       *)
Forget ==
  /\ loaded' = FALSE /\ check' = FALSE
  /\ active' = 0 /\ cancelled' = FALSE /\ failed' = 0
  /\ requests' = {} /\ unclosed' = {}
  /\ view' = [r \in RunIds |-> "none"]
  /\ GoTo("idle", NoId, "none") /\ question' = "none"
  /\ UNCHANGED <<log, doubt, installed, runs, refused, ghost>>

Unload == loaded /\ active = 0 /\ Forget /\ UNCHANGED faults

Crash ==
  /\ loaded /\ faults < MaxFaults
  /\ faults' = faults + 1
  /\ Forget

(* load: the journal is opened, and the entry in doubt is found in it or   *)
(* is not; what a crash left open is settled with the tools assembled now; *)
(* only then is the session there.                                         *)
Load ==
  /\ ~loaded
  /\ \E found \in SUBSET doubt, tools \in Installs :
       LET h == log \cup found
           es == Settlement(h, 0, tools)
       IN  \/ /\ Commit(h, es)
              /\ loaded' = TRUE /\ installed' = tools /\ failed' = 0
              /\ Project(log', view)
           \/ Break(h, es) /\ UNCHANGED session
  /\ UNCHANGED <<drive, runs, ghost>>

Client ==
  \/ \E i \in Inputs : Start(i) \/ Retry(i)
  \/ Prepare \/ Interrupt \/ Configure \/ Respond

Generation == EndGeneration \/ EndExtraction

Call ==
  \/ CommitIntent \/ Refuse \/ RunBash \/ RunLocal \/ BeginExtraction
  \/ Ask \/ Answered \/ Expire \/ CommitResult

Ending == EndTurn \/ NextTurn \/ EndRun \/ Leave

Next == Client \/ Generation \/ Call \/ Ending \/ Unload \/ Crash \/ Load

Spec == Init /\ [][Next]_vars

(* The drive task is scheduled.  A model may stream and a tool may run for  *)
(* ever, but not once the token is cancelled; clients and answers may never *)
(* come at all.                                                            *)
FairSpec ==
  /\ Spec
  /\ WF_vars(cancelled /\ (Generation \/ Call))
  /\ WF_vars(Ending)

-----------------------------------------------------------------------------
Tokens == {"none", "Completed", "Failed", "Cancelled", "Skipped", "Error"}

TypeOK ==
  /\ \A e \in log \cup doubt : e.id \in (0..MaxRuns) \X (0..(MaxCalls + 1)) \X (0..MaxCalls)
  /\ Cardinality(doubt) <= 1
  /\ check => loaded
  /\ active \in 0..runs /\ failed \in 0..runs /\ runs \in 0..MaxRuns
  /\ requests \subseteq Inputs /\ unclosed \subseteq CallIds
  /\ view \in [RunIds -> {"none", "InProgress", "Completed", "Failed", "Interrupted"}]
  /\ (active = 0) <=> (step = "idle")
  /\ active # 0 => loaded /\ at[1] = active /\ view[active] = "InProgress"
  /\ result \in Tokens
  /\ question # "none" => step = "ask"
  /\ faults \in 0..MaxFaults
  /\ effects \in [CallIds -> Nat]

(* No append of the live code or of recovery is ever refused by the        *)
(* validator: every order of replies, cancellations, failures, crashes and *)
(* recoveries leaves a history to which the next record can be added.      *)
NeverRefused == ~refused

Quiet == loaded /\ active = 0 /\ ~check /\ failed = 0

(* When nothing runs and nothing failed, nothing is left open in the       *)
(* history but calls of tools that recovery does not know to be safe.      *)
Settled ==
  Quiet => /\ OpenRuns(log) \cup OpenTurns(log) \cup OpenGens(log) \cup OpenInteractions(log) = {}
           /\ \A x \in OpenTools(log) :
                Tool(x) \notin Builtin \cup IF installed THEN {"WebFetch"} ELSE {}

(* ... and what the session shows and will send to the model is what a     *)
(* reload would read: the live projection drifted from the journal in no   *)
(* order of failures and repairs.                                          *)
ViewIsReplay ==
  Quiet => /\ requests = Accepted(log)
           /\ unclosed = Unclosed(log)
           /\ \A r \in RunIds : view[r] = IF r \in RunsIn(log) THEN EndOf(log, r) ELSE "none"

(* An input is answered by one run, which the journal keeps: retries after *)
(* errors, repairs and restarts never start it a second time.              *)
OneRunPerInput ==
  \A p \in replies :
    /\ Entry("RunStarted", <<p[2], 0, 0>>, <<p[1]>>) \in log
    /\ \A q \in replies : p[1] = q[1] => p = q

(* An outside effect happens once at most, and never without a durable     *)
(* intent that recovery can find.                                          *)
EffectsIntended ==
  \A x \in CallIds :
    effects[x] # 0 => effects[x] = 1 /\ Entry("ToolIntent", x, <<"Bash">>) \in log

(* An acknowledged answer is the result of its call, whether the run goes  *)
(* on, is cancelled, fails or is recovered after a crash.                  *)
AnswersHold ==
  \A x \in answered :
    /\ Has(log, "InteractionResolved", x)
    /\ Has(log, "ToolOutcome", x) => Says(log, "ToolOutcome", x, "Completed")

(* An interrupted run ends, whatever it was doing.                         *)
InterruptEnds == cancelled ~> active = 0
=============================================================================
