---------------------------- MODULE SystemContext ----------------------------
(***************************************************************************)
(* What a model is told beside the conversation: the instructions and the  *)
(* tools of a session, and the skills it has loaded (skills.rs,            *)
(* context_sync.rs, tool_registry.rs, system_context.rs).  The journal     *)
(* records the differences; the skills lie in files that change at any     *)
(* moment, and a run sees them as they were when it was asked for.         *)
(*                                                                         *)
(* The session has a working directory.  The built-in tools and the base   *)
(* instructions never change and are left out; so are the descriptions of  *)
(* the catalog and every entry that is neither an update nor about Skill.  *)
(***************************************************************************)
EXTENDS Naturals, Sequences, SequencesExt

CONSTANTS Skills,      \* names of skills
          Bodies,      \* what a skill's file may say
          Registered,  \* the tools that may be registered
          Definitions, \* what such a tool may be declared as
          Batches,     \* the loads a model may ask for in one reply
          MaxEdits,    \* bound: changes of the files and of the registrations
          MaxTold      \* bound: entries before a reply or the start of a run

VARIABLES shelf,       \* {"user", "project"} -> Skills -> bodies, or NoBody
          registry,    \* the service's registrations: a partial function
          told,        \* the committed entries
          unsure,      \* an entry whose append failed: it may be in the file
          session,     \* "over", "starting", "live" or "broken"
          skills,      \* the snapshot of the run: a partial function
          context,     \* Session.tool_context
          batch,       \* the loads of the reply that have no result yet
          loadedSkill, \* one of them was loaded
          edits

contextvars ==
  <<shelf, registry, told, unsure, session, skills, context, batch, loadedSkill, edits>>

NoBody == "none"
None == [none |-> TRUE]
Inapplicable == [refused |-> TRUE]

Without(f, names) == [x \in DOMAIN f \ names |-> f[x]]
Extended(f, g) == [x \in DOMAIN f \cup DOMAIN g |-> IF x \in DOMAIN g THEN g[x] ELSE f[x]]
-----------------------------------------------------------------------------
(* Differences between contexts, and a context with a difference applied.  *)
Differing(old, new) == {x \in DOMAIN new : x \notin DOMAIN old \/ old[x] # new[x]}

Plan(previous, desired) ==
  LET rules == Differing(previous.instructions, desired.instructions)
      tools == Differing(previous.tools, desired.tools)
  IN IF previous = None THEN [kind |-> "baseline", is |-> desired]
     ELSE IF previous = desired THEN None
     ELSE [kind |-> "delta",
           instructions |-> [x \in rules |-> desired.instructions[x]],
           instructionsRemoved |-> DOMAIN previous.instructions \ DOMAIN desired.instructions,
           toolsAdded |-> [t \in tools |-> desired.tools[t]],
           toolsRemoved |-> Differing(desired.tools, previous.tools)]

ValidUpdate(u) ==
  u.kind = "delta"
  => /\ u.instructionsRemoved \cap DOMAIN u.instructions = {}
     /\ \/ DOMAIN u.instructions # {} \/ u.instructionsRemoved # {}
        \/ DOMAIN u.toolsAdded # {} \/ u.toolsRemoved # {}

Delta(u, previous) ==
  LET kept == Without(previous.tools, u.toolsRemoved)
      next == [instructions |->
                 Extended(Without(previous.instructions, u.instructionsRemoved), u.instructions),
               tools |-> Extended(kept, u.toolsAdded)]
  IN IF /\ u.instructionsRemoved \subseteq DOMAIN previous.instructions
        /\ u.toolsRemoved \subseteq DOMAIN previous.tools
        /\ DOMAIN u.toolsAdded \cap DOMAIN kept = {}
        /\ next # previous
     THEN next ELSE Inapplicable

Apply(u, previous) ==
  IF previous = Inapplicable \/ ~ValidUpdate(u) \/ (u.kind = "baseline") # (previous = None) THEN Inapplicable
  ELSE IF u.kind = "baseline" THEN u.is ELSE Delta(u, previous)
-----------------------------------------------------------------------------
(* Skills: a project's hides the user's of the same name.                  *)
EntryOf(n) ==
  IF shelf["project"][n] # NoBody THEN <<"project", shelf["project"][n]>>
  ELSE <<"user", shelf["user"][n]>>

Snapshot ==
  [n \in {m \in Skills : \E d \in DOMAIN shelf : shelf[d][m] # NoBody} |-> EntryOf(n)]

Catalog == <<"catalog">>
BodyOf(n) == <<"body", n>>
BodiesIn(c) == {n \in Skills : BodyOf(n) \in DOMAIN c.instructions}

(* What the committed entries make of it, one by one: the context, and the *)
(* names that count as loaded - those of the last update, and those whose  *)
(* load succeeded after it.                                                *)
Learn(known, e) ==
  IF e.type = "update"
  THEN LET c == Apply(e.update, known.context) IN [context |-> c, names |-> BodiesIn(c)]
  ELSE IF e.type = "result" /\ e.ok THEN [known EXCEPT !.names = @ \cup {e.skill}]
  ELSE known

Learned(h) ==
  LET known[i \in 0..Len(h)] ==
        IF i = 0 THEN [context |-> None, names |-> {}] ELSE Learn(known[i - 1], h[i])
  IN known

Rebuilt(h) == Learned(h)[Len(h)].context
LoadedNames(h) == Learned(h)[Len(h)].names

Prepared(c, snapshot, loaded) ==
  LET rules == Without(c.instructions, {BodyOf(n) : n \in Skills})
      bodies == {n \in loaded : n \in DOMAIN snapshot}
  IN [c EXCEPT !.instructions =
        Extended(Extended(rules, [k \in {Catalog} |-> DOMAIN snapshot]),
                 [k \in {BodyOf(n) : n \in bodies} |-> snapshot[k[2]]])]

(* The context of a session that is bound to the registrations.            *)
Assembled ==
  [instructions |-> [k \in {<<"rule", t>> : t \in DOMAIN registry} |-> registry[k[2]]],
   tools |-> registry]

ContextInit ==
  /\ shelf \in [{"user", "project"} -> [Skills -> Bodies \cup {NoBody}]]
  /\ registry = [t \in Registered |-> CHOOSE x \in Definitions : TRUE]
  /\ told = <<>> /\ unsure = <<>> /\ session = "over" /\ skills = <<>>
  /\ context = Assembled /\ batch = <<>> /\ loadedSkill = FALSE /\ edits = 0

(* Files, and what the program registers.                                  *)
EditSkill(d, n, body) ==
  /\ edits < MaxEdits /\ shelf[d][n] # body
  /\ shelf' = [shelf EXCEPT ![d][n] = body] /\ edits' = edits + 1
  /\ UNCHANGED <<registry, told, unsure, session, skills, context, batch, loadedSkill>>

SetTools(tools) ==
  /\ edits < MaxEdits /\ registry # tools
  /\ registry' = tools /\ edits' = edits + 1
  /\ UNCHANGED <<shelf, told, unsure, session, skills, context, batch, loadedSkill>>

UpdateTool(t, definition) == SetTools(Extended(registry, t :> definition))
-----------------------------------------------------------------------------
(* An append that fails leaves the session to be recovered.                *)
Told(entry) ==
  \/ told' = Append(told, entry) /\ session' = "live" /\ UNCHANGED unsure
  \/ session' = "broken" /\ unsure' = <<entry>> /\ UNCHANGED told

(* Plan against what the journal says, and record the difference.          *)
Synchronized(desired) ==
  LET update == Plan(Rebuilt(told), desired)
  IN IF update = None THEN session' = "live" /\ UNCHANGED <<told, unsure>>
     ELSE Told([type |-> "update", update |-> update])

(* The calls of the last reply that have no result.                        *)
WithoutResult(h) ==
  LET replies == {i \in DOMAIN h : h[i].type = "reply"}
      last == CHOOSE i \in replies : \A j \in replies : j <= i
      done == {i \in last..Len(h) : h[i].type = "result"}
  IN IF replies = {} THEN <<>>
     ELSE SubSeq(h[last].skills, Cardinality(done) + 1, Len(h[last].skills))

(* The snapshot is taken before the run is accepted.                       *)
TakeSnapshot ==
  /\ session = "over" /\ Len(told) < MaxTold
  /\ session' = "starting" /\ skills' = Snapshot
  /\ UNCHANGED <<shelf, registry, told, unsure, context, batch, loadedSkill, edits>>

AcceptRun ==
  /\ session = "starting" /\ WithoutResult(told) = <<>>
  /\ context' = Prepared(context, skills, LoadedNames(told))
  /\ Synchronized(context')
  /\ batch' = <<>> /\ loadedSkill' = FALSE
  /\ UNCHANGED <<shelf, registry, skills, edits>>

(* Its request is refused before anything changes.                         *)
RejectRun ==
  /\ session = "starting" /\ session' = "over"
  /\ UNCHANGED <<shelf, registry, told, unsure, skills, context, batch, loadedSkill, edits>>

Generating == session = "live" /\ batch = <<>> /\ ~loadedSkill

ReplyWith(calls) ==
  /\ Generating /\ Len(told) < MaxTold
  /\ Told([type |-> "reply", skills |-> calls])
  /\ batch' = calls
  /\ UNCHANGED <<shelf, registry, skills, context, loadedSkill, edits>>

Begun(h) == h # <<>> /\ h[Len(h)].type = "intent"

BeginLoad ==
  /\ session = "live" /\ batch # <<>> /\ ~Begun(told)
  /\ Told([type |-> "intent"])
  /\ UNCHANGED <<shelf, registry, skills, context, batch, loadedSkill, edits>>

(* A load and its result; the body takes effect in memory once the result  *)
(* is committed.                                                           *)
ResultOf(n, ok, already) == [type |-> "result", skill |-> n, ok |-> ok, already |-> already]

LoadSkill ==
  LET n == batch[1]
      body == BodyOf(n)
  IN /\ session = "live" /\ Begun(told) /\ n \in DOMAIN skills
     /\ Told(ResultOf(n, TRUE, body \in DOMAIN context.instructions))
     /\ batch' = Tail(batch) /\ loadedSkill' = TRUE
     /\ context' = IF session' = "live"
                   THEN [context EXCEPT !.instructions = Extended(@, [k \in {body} |-> skills[n]])] ELSE context
     /\ UNCHANGED <<shelf, registry, skills, edits>>

(* Arguments that name no skill of the snapshot, or a run that was stopped.*)
SkipSkill ==
  /\ session = "live" /\ Begun(told)
  /\ Told(ResultOf(batch[1], FALSE, FALSE)) /\ batch' = Tail(batch)
  /\ UNCHANGED <<shelf, registry, skills, context, loadedSkill, edits>>

(* Once every call of the reply has its result.                            *)
Synchronize ==
  /\ session = "live" /\ batch = <<>> /\ loadedSkill
  /\ Synchronized(context) /\ loadedSkill' = FALSE
  /\ UNCHANGED <<shelf, registry, skills, context, batch, edits>>

FinishRun ==
  /\ Generating /\ session' = "over"
  /\ UNCHANGED <<shelf, registry, told, unsure, skills, context, batch, loadedSkill, edits>>

(* The process ends, and the session is loaded again: a load that had      *)
(* begun gets a failed result - a call that had not gets none, and then    *)
(* the session takes no further run - and the session is bound to the      *)
(* registrations of now.                                                   *)
Restart ==
  /\ session \in {"over", "starting", "live"} /\ session' = "broken"
  /\ UNCHANGED <<shelf, registry, told, unsure, skills, context, batch, loadedSkill, edits>>

LoadSession ==
  /\ session = "broken"
  /\ \E found \in {<<>>, unsure} :
       LET h == told \o found
       IN told' = IF Begun(h) THEN Append(h, ResultOf(WithoutResult(h)[1], FALSE, FALSE)) ELSE h
  /\ session' = "over" /\ unsure' = <<>> /\ skills' = <<>> /\ context' = Assembled
  /\ batch' = <<>> /\ loadedSkill' = FALSE
  /\ UNCHANGED <<shelf, registry, edits>>

ContextNext ==
  \/ \E d \in DOMAIN shelf, n \in Skills, body \in Bodies \cup {NoBody} : EditSkill(d, n, body)
  \/ \E t \in Registered, definition \in Definitions : UpdateTool(t, definition)
  \/ SetTools(<<>>)
  \/ TakeSnapshot \/ AcceptRun \/ RejectRun
  \/ \E calls \in Batches : ReplyWith(calls)
  \/ BeginLoad \/ LoadSkill \/ SkipSkill \/ Synchronize \/ FinishRun
  \/ Restart \/ LoadSession

ContextSpec == ContextInit /\ [][ContextNext]_contextvars
-----------------------------------------------------------------------------
(* Every difference on record applies to what stood before it, and a model *)
(* generates with exactly the context that the record gives: the one its   *)
(* run was assembled from, whatever failed to be written before.           *)
ContextIsOnRecord ==
  /\ Rebuilt(told) # Inapplicable
  /\ Generating => Rebuilt(told) = context

(* A skill that a model was told to follow is in force, in the form of its *)
(* run's snapshot, whenever it generates - unless, since then, the catalog *)
(* it was given did not offer it.                                          *)
NotOffered(h, n, i) ==
  h[i].type = "update" /\ n \notin Learned(h)[i].context.instructions[Catalog]
TaughtStays ==
  Generating
  => \A i \in DOMAIN told : told[i].type = "result" /\ told[i].ok
       => LET n == told[i].skill
          IN \/ \E j \in (i + 1)..Len(told) : NotOffered(told, n, j)
             \/ n \in BodiesIn(context) /\ context.instructions[BodyOf(n)] = skills[n]

(* It is told that it already has a skill only if it was given it before,  *)
(* and the other way round.                                                *)
AlreadyIsTrue ==
  \A i \in DOMAIN told : told[i].type = "result" /\ told[i].ok
    => told[i].already = (told[i].skill \in Learned(told)[i - 1].names)

(* The model is told what the record says, and keeps what it was taught.   *)
ContextKept == ContextIsOnRecord /\ TaughtStays /\ AlreadyIsTrue
=============================================================================
