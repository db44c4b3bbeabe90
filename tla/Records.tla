------------------------------- MODULE Records -------------------------------
(***************************************************************************)
(* The stored form of a history (format.rs) and what the validator asks of *)
(* each record (validation.rs).  A line leaves out every field the earlier *)
(* records determine; the reader puts it back.  The writer keeps in memory *)
(* what the reader of its line would see (append_entry of local.rs).       *)
(*                                                                         *)
(* A record is a function on Fields, Nil where it has no such field: its   *)
(* JSON object has the other fields only.  The fields of a recorded message *)
(* stand beside those of the record that carries it (m_run is its run_id). *)
(* Identities are the positions of the records that introduce them (the    *)
(* code draws fresh UUIDs).  Texts, arguments and schemas are single        *)
(* values.  Preempting inputs, follow-ups, continued runs and system        *)
(* contexts are left out.                                                  *)
(***************************************************************************)
EXTENDS Naturals, Sequences, FiniteSets, SequencesExt

CONSTANTS
  Nil,          \* Option::None, a field the JSON object does not have
  Null,         \* JSON null, written where None must not be restored
  MaxRecords,   \* bound on the length of a history
  MaxAfter,     \* bound on the records after one the agent would not write
  MaxTurns,     \* bound on the turns of the run
  MaxGens       \* RuntimeLimits.max_gens

VARIABLES
  journal,      \* the entries the writer holds
  asked,        \* the record last handed to append
  line,         \* the line it became
  odd           \* where a field was changed, 0 when none was
rvars == <<journal, asked, line, odd>>

-----------------------------------------------------------------------------
(* The fields of the records, by the struct that has them.                 *)
EnvelopeFields == {"kind", "at"}
InputFields == {"input", "mode", "expected"}
RunFields == {"run", "capable", "caps", "budget", "source", "had_output", "tools_used", "tokens"}
TurnFields == {"turn", "ordinal", "boundary", "final_gen", "status", "error"}
GenFields == {"gen", "purpose", "attempt", "time", "assistant", "usage", "stop"}
MessageFields ==
  {"m_run", "m_turn", "m_gen", "m_input", "complete", "role", "m_time", "content",
   "call", "name", "is_error"}
ToolFields == {"tool", "key", "block", "settled"}
InteractionFields == {"interaction", "revision", "request", "answer"}
CompactedFields == {"through", "kept", "previous", "summary", "replacement", "window"}
Fields ==
  EnvelopeFields \cup InputFields \cup RunFields \cup TurnFields \cup GenFields
    \cup MessageFields \cup ToolFields \cup InteractionFields \cup CompactedFields

At(h, kind) == {i \in DOMAIN h : h[i].kind = kind}
With(h, kind, f, x) == {i \in At(h, kind) : h[i][f] = x}
Latest(S) == IF S = {} THEN Nil ELSE CHOOSE i \in S : \A j \in S : j <= i

RunOpen(h, r) == r \in At(h, "RunStarted") /\ With(h, "RunEnd", "run", r) = {}
TurnOpen(h, t) ==
  /\ t \in At(h, "TurnStarted") /\ With(h, "TurnEnded", "turn", t) = {}
  /\ RunOpen(h, h[t].run)
GenOpen(h, g) ==
  /\ g \in At(h, "GenStarted") /\ With(h, "GenEnded", "gen", g) = {}
  /\ h[g].run # Nil => RunOpen(h, h[g].run)
  /\ h[g].turn # Nil => TurnOpen(h, h[g].turn)
TurnGens(h, t) ==
  {g \in With(h, "GenStarted", "turn", t) : h[g].purpose = "Conversation"}
EndOf(h, g) == Latest(With(h, "GenEnded", "gen", g))
Reply(h, g) == Latest(With(h, "Message", "m_gen", g))
CallsIn(h, m) == {k \in DOMAIN h[m].content : h[m].content[k].call # ""}
HasOutcome(h, g, call) ==
  \E i \in At(h, "ToolOutcome") : h[i].key.gen = g /\ h[i].key.call = call

(* Every call of the Completed replies of the turn has its outcome.        *)
ClosedTools(h, t) ==
  \A g \in With(h, "GenStarted", "turn", t) :
    /\ EndOf(h, g) # Nil
    /\ h[EndOf(h, g)].status = "Completed" =>
         \A k \in CallsIn(h, Reply(h, g)) :
           HasOutcome(h, g, h[Reply(h, g)].content[k].call)

BoundaryRule(h, b) ==
  /\ b.through # Nil => b.through \in DOMAIN h
  /\ b.after # Nil =>
       \E i \in With(h, "TurnEnded", "turn", b.after) :
         b.through # Nil /\ i <= b.through /\ ClosedTools(h, b.after)

-----------------------------------------------------------------------------
(* validate_payload: what a record must be by itself.                      *)
ContextForm(e) ==
  /\ e.budget > 0
  /\ IF e.capable # Nil THEN e.caps = e.budget /\ e.source = "Host"
                        ELSE e.caps = Nil /\ e.source = "Default"

(* message and recorded: a tool call only from the assistant, named when    *)
(* the message is complete; the content of the others is not empty.         *)
MessageForm(e) ==
  /\ e.m_time > 0
  /\ e.role # "Assistant" => e.content # <<>> /\ CallsIn(<<e>>, 1) = {}
  /\ e.role = "ToolResult" => e.call # "" /\ e.name # ""
  /\ e.role = "Assistant" /\ e.complete = "Complete" =>
       \A j, k \in CallsIn(<<e>>, 1) :
         e.content[j].call = e.content[k].call => j = k

(* What a reply must be to be shown to a model again.                      *)
Replayable(e) ==
  /\ e.stop \in {"Stop", "ToolUse"} /\ e.usage # Nil
  /\ CallsIn(<<e>>, 1) # {} => e.stop = "ToolUse"

InputForm(id, e) ==
  e.kind = "InputAccepted" =>
    /\ (e.mode \in {"Steering", "Preempt"}) = (e.expected # Nil)
    /\ MessageForm(e) /\ e.role = "User" /\ e.m_input = id
    /\ {e.m_run, e.m_turn, e.m_gen} = {Nil}
    /\ e.complete = "Complete"

GenForm(e) ==
  /\ e.kind = "GenStarted" =>
       /\ e.time > 0
       /\ (e.purpose = "Conversation") = (e.source = Nil)
       /\ e.source # Nil => ContextForm(e)
       /\ CASE e.purpose = "Conversation" -> e.run # Nil /\ e.turn # Nil /\ e.attempt > 0
            [] e.purpose = "Title" -> e.run = Nil /\ e.turn = Nil /\ e.attempt = 1
            [] e.purpose = "ToolExtraction" -> e.run # Nil /\ e.turn = Nil /\ e.attempt = 1
            [] e.purpose = "Compaction" -> e.turn = Nil /\ e.attempt = 1
  /\ e.kind = "GenEnded" => e.status = "Interrupted" \/ e.time # Nil

WellFormed(id, e) ==
  /\ InputForm(id, e) /\ GenForm(e)
  /\ e.kind = "RunStarted" => ContextForm(e)
  /\ e.kind = "TurnStarted" => e.ordinal > 0
  /\ e.kind = "TurnEnded" => (e.status = "Completed" => e.final_gen # Nil)
  /\ e.kind = "Message" =>
       MessageForm(e) /\ e.role = "Assistant" /\ e.m_gen # Nil /\ e.m_input = Nil
  /\ e.kind = "ToolIntent" => e.name # "" /\ e.key.call # ""
  /\ e.kind = "ToolOutcome" =>
       /\ MessageForm(e) /\ e.role = "ToolResult"
       /\ e.complete = "Complete" /\ e.m_input = Nil
  /\ e.kind = "InteractionOpened" => e.revision = 1
  /\ e.kind \in {"InteractionResolved", "InteractionExpired"} => e.revision = 2
  /\ e.kind = "Compacted" => e.window > 0 /\ e.replacement # <<>>

-----------------------------------------------------------------------------
(* History::push: what the records before it ask of a record.              *)
InputRule(h, e) ==
  /\ e.kind = "InputAccepted" => (e.expected # Nil => RunOpen(h, e.expected))
  /\ e.kind = "InputConsumed" =>
       /\ TurnOpen(h, e.turn) /\ h[e.turn].run = e.run
       /\ With(h, "GenStarted", "turn", e.turn) = {}
       /\ BoundaryRule(h, e.boundary)
       /\ e.input \in At(h, "InputAccepted")
       /\ With(h, "InputConsumed", "input", e.input) = {}
       /\ IF h[e.input].mode = "Send"
          THEN h[e.run].input = e.input /\ h[e.turn].ordinal = 1
          ELSE h[e.input].expected = e.run /\ e.input < e.turn

RunRule(h, e) ==
  /\ e.kind = "RunStarted" =>
       /\ \A r \in At(h, "RunStarted") : ~RunOpen(h, r)
       /\ BoundaryRule(h, e.boundary)
       /\ e.input \in With(h, "InputAccepted", "mode", "Send")
       /\ With(h, "InputConsumed", "input", e.input) = {}
       /\ With(h, "RunStarted", "input", e.input) = {}
  /\ e.kind = "RunEnd" =>
       /\ RunOpen(h, e.run)
       /\ \A t \in With(h, "TurnStarted", "run", e.run) : ~TurnOpen(h, t)
       /\ \A g \in With(h, "GenStarted", "run", e.run) : ~GenOpen(h, g)
       /\ e.status = "Completed" =>
            LET t == Latest(With(h, "TurnStarted", "run", e.run))
            IN t # Nil /\ \E i \in With(h, "TurnEnded", "turn", t) : h[i].status = "Completed"

TurnRule(h, e) ==
  /\ e.kind = "TurnStarted" =>
       LET before == With(h, "TurnStarted", "run", e.run)
       IN /\ RunOpen(h, e.run)
          /\ \A t \in before : ~TurnOpen(h, t)
          /\ e.ordinal = Cardinality(before) + 1
          /\ BoundaryRule(h, e.boundary)
  /\ e.kind = "TurnEnded" =>
       LET last == Latest(With(h, "GenStarted", "turn", e.turn))
       IN /\ TurnOpen(h, e.turn)
          /\ IF last = Nil
             THEN e.final_gen = Nil /\ e.status # "Completed"
             ELSE /\ EndOf(h, last) # Nil /\ e.final_gen = last
                  /\ e.status = "Completed" => h[EndOf(h, last)].status = "Completed"
          /\ e.status # "Interrupted" => ClosedTools(h, e.turn)
          /\ \A i \in At(h, "InteractionOpened") :
               h[h[i].tool].key.turn = e.turn =>
                 \E j \in DOMAIN h : h[j].interaction = i

GenStartRule(h, e) ==
  e.kind = "GenStarted" =>
    LET before == With(h, "GenStarted", "turn", e.turn)
        last == Latest(before)
        consumed == Latest(With(h, "InputConsumed", "turn", e.turn))
    IN /\ BoundaryRule(h, e.boundary)
       /\ e.run # Nil => RunOpen(h, e.run)
       /\ e.purpose = "Conversation" =>
            /\ TurnOpen(h, e.turn) /\ e.run = h[e.turn].run
            /\ IF before # {}
               THEN /\ EndOf(h, last) # Nil /\ h[EndOf(h, last)].status = "Failed"
                    /\ e.attempt = h[last].attempt + 1
                    /\ \A i \in At(h, "ToolIntent") : h[i].key.gen # last
               ELSE /\ e.attempt = 1
                    /\ h[e.turn].ordinal = 1 => consumed # Nil
                    /\ With(h, "InputConsumed", "input", h[e.run].input) # {}
            /\ consumed # Nil => e.boundary.through # Nil /\ e.boundary.through >= consumed
            /\ Cardinality({g \in With(h, "GenStarted", "run", e.run) :
                              h[g].purpose = "Conversation"}) < MaxGens
       /\ e.purpose = "ToolExtraction" =>
            /\ e.tool \in At(h, "ToolIntent") /\ e.run = h[e.tool].key.run
            /\ With(h, "ToolOutcome", "tool", e.tool) = {}
            /\ TurnOpen(h, h[e.tool].key.turn)
            /\ \A g \in With(h, "GenStarted", "tool", e.tool) : ~GenOpen(h, g)
       /\ e.purpose = "Compaction" =>
            \A t \in With(h, "TurnStarted", "run", e.run) : ~TurnOpen(h, t)

GenRule(h, e) ==
  /\ e.kind = "GenFirstSse" =>
       GenOpen(h, e.gen) /\ With(h, "GenFirstSse", "gen", e.gen) = {}
  /\ e.kind = "Message" =>
       /\ GenOpen(h, e.m_gen)
       /\ e.m_run = h[e.m_gen].run /\ e.m_turn = h[e.m_gen].turn
       /\ Reply(h, e.m_gen) = Nil
  /\ e.kind = "GenEnded" =>
       /\ GenOpen(h, e.gen)
       /\ IF e.assistant = Nil
          THEN e.status # "Completed" /\ Reply(h, e.gen) = Nil
          ELSE LET m == h[e.assistant]
               IN /\ e.assistant \in With(h, "Message", "m_gen", e.gen)
                  /\ e.status = "Completed" =>
                       /\ m.complete = "Complete" /\ Replayable(m)
                       /\ h[e.gen].purpose # "Conversation" => m.stop # "ToolUse"
                       /\ e.stop = m.stop
                  /\ e.stop \in {Nil, m.stop}
                  /\ m.usage # Nil => e.usage = m.usage

ToolRule(h, e) ==
  /\ e.kind = "ToolIntent" =>
       /\ TurnOpen(h, e.key.turn)
       /\ e.key.gen \in TurnGens(h, e.key.turn) /\ h[e.key.gen].run = e.key.run
       /\ EndOf(h, e.key.gen) # Nil
       /\ LET end == h[EndOf(h, e.key.gen)]
          IN end.status = "Completed" /\ end.stop = "ToolUse" /\ end.assistant = e.assistant
       /\ e.block.message = e.assistant /\ e.block.index \in DOMAIN h[e.assistant].content
       /\ h[e.assistant].content[e.block.index] = [call |-> e.key.call, name |-> e.name]
       /\ With(h, "ToolIntent", "key", e.key) = {}
  /\ e.kind = "ToolOutcome" =>
       /\ e.tool \in At(h, "ToolIntent") /\ With(h, "ToolOutcome", "tool", e.tool) = {}
       /\ LET key == h[e.tool].key
          IN /\ e.key = key /\ TurnOpen(h, key.turn) /\ e.settled = Nil
             /\ e.m_run = key.run /\ e.m_turn = key.turn /\ e.m_gen = key.gen
             /\ e.call = key.call /\ e.name = h[e.tool].name
       /\ \A g \in With(h, "GenStarted", "tool", e.tool) : ~GenOpen(h, g)
       /\ \A i \in With(h, "InteractionOpened", "tool", e.tool) :
            \E j \in DOMAIN h : h[j].interaction = i
       /\ e.is_error = (e.status # "Completed")

InteractionRule(h, e) ==
  /\ e.kind = "InteractionOpened" =>
       /\ e.tool \in At(h, "ToolIntent") /\ With(h, "ToolOutcome", "tool", e.tool) = {}
       /\ e.run = h[e.tool].key.run /\ TurnOpen(h, h[e.tool].key.turn)
       /\ \A i \in With(h, "InteractionOpened", "tool", e.tool) :
            \E j \in DOMAIN h : h[j].interaction = i
  /\ e.kind \in {"InteractionResolved", "InteractionExpired"} =>
       /\ e.interaction \in At(h, "InteractionOpened")
       /\ \A j \in DOMAIN h : h[j].interaction # e.interaction
       /\ e.kind = "InteractionResolved" => e.answer = h[e.interaction].request

-----------------------------------------------------------------------------
(* What a compaction replaces.  The messages a model is shown at position  *)
(* upper, as <<where it was committed, the record it is of>>: a checkpoint *)
(* stands for everything up to what it replaced.                           *)
Shown(h, upper) ==
  {<<i, i>> : i \in At(h, "InputConsumed") \cup At(h, "ToolOutcome")}
    \cup {<<i, h[i].assistant>> :
            i \in {j \in With(h, "GenEnded", "status", "Completed") :
                     h[h[j].gen].purpose = "Conversation"}}
ReplacedPosition(h, i) ==
  LET position[j \in DOMAIN h] == IF h[j].kind = "Compacted" THEN position[h[j].through] ELSE j
  IN position[i]
CheckpointAt(h, upper) == Latest({i \in At(h, "Compacted") : i <= upper})
EffectiveAt(h, upper) ==
  LET c == CheckpointAt(h, upper)
      kept == {x \in Shown(h, upper) :
                 x[1] <= upper /\ (c # Nil => x[2] > ReplacedPosition(h, h[c].through))}
      order == SetToSortSeq(kept, LAMBDA x, y : x[1] < y[1])
  IN (IF c = Nil THEN <<>> ELSE <<c>>) \o [k \in DOMAIN order |-> order[k][2]]

(* compaction_references: the checkpoint before, and what is kept after.   *)
KeptFrom(h, upper, through) ==
  LET input == EffectiveAt(h, upper)
      split == Latest({k \in DOMAIN input : input[k] = through})
  IN IF split + 1 \in DOMAIN input THEN input[split + 1] ELSE Nil

(* validate_model_context: each call is answered before the next message   *)
(* that is not a result, and none is left open.                            *)
Paired(h, input) ==
  \A k \in DOMAIN input :
    h[input[k]].kind = "Message" =>
      LET calls == {h[input[k]].content[j].call : j \in CallsIn(h, input[k])}
      IN \A call \in calls :
           \E n \in DOMAIN input :
             /\ n > k /\ n <= k + Cardinality(calls)
             /\ h[input[n]].kind = "ToolOutcome" /\ h[input[n]].call = call

CompactedRule(h, e) ==
  e.kind = "Compacted" =>
    /\ BoundaryRule(h, e.boundary) /\ e.boundary.through # Nil
    /\ e.gen \in With(h, "GenStarted", "purpose", "Compaction")
    /\ h[e.gen].run = e.run /\ h[e.gen].boundary = e.boundary
    /\ EndOf(h, e.gen) # Nil /\ h[EndOf(h, e.gen)].status = "Completed"
    /\ With(h, "Compacted", "gen", e.gen) = {}
    /\ e.through \in DOMAIN h /\ e.through <= e.boundary.through
    /\ LET upper == e.boundary.through
           input == EffectiveAt(h, upper)
       IN /\ e.previous = CheckpointAt(h, upper)
          /\ \E k \in DOMAIN input :
               /\ input[k] = e.through
               /\ Paired(h, input) /\ Paired(h, SubSeq(input, 1, k))
          /\ e.kept = KeptFrom(h, upper, e.through)
    /\ e.run # Nil => RunOpen(h, e.run)
    /\ \A t \in With(h, "TurnStarted", "run", e.run) : ~TurnOpen(h, t)

(* validate_history of the prefix and the record after it.                 *)
Accepts(h, e) ==
  /\ WellFormed(Len(h) + 1, e)
  /\ (e.kind = "SessionHeader") = (h = <<>>)
  /\ Len(h) = 1 => e.kind = "Meta"
  /\ InputRule(h, e) /\ RunRule(h, e) /\ TurnRule(h, e) /\ GenStartRule(h, e)
  /\ GenRule(h, e) /\ ToolRule(h, e) /\ InteractionRule(h, e) /\ CompactedRule(h, e)

-----------------------------------------------------------------------------
(* The error a terminal record repeats: of its last generation, of the     *)
(* latest turn of its run that has one.                                    *)
ErrorCause(h, e) ==
  CASE e.kind = "TurnEnded" ->
         Latest({i \in With(h, "GenEnded", "gen", e.final_gen) : h[i].error # Nil})
    [] e.kind = "RunEnd" ->
         Latest({i \in At(h, "TurnEnded") : h[i].error # Nil /\ h[h[i].turn].run = e.run})
    [] OTHER -> Nil

OuterTime(e, f) == IF e[f] = e.at THEN {f} ELSE {}
MessageDropped(e) == {"m_run", "m_turn", "m_input", "role"} \cup OuterTime(e, "m_time")

(* encode_entry: the fields a line of each kind leaves out.                *)
Dropped(h, e) ==
  CASE e.kind = "RunStarted" -> {"caps"}
    [] e.kind = "TurnStarted" -> {"ordinal"}
    [] e.kind = "InputAccepted" -> MessageDropped(e) \cup {"m_gen", "complete"}
    [] e.kind = "InputConsumed" ->
         {"run"} \cup (IF e.boundary = h[e.turn].boundary THEN {"boundary"} ELSE {})
    [] e.kind = "GenStarted" ->
         {"attempt", "caps"} \cup OuterTime(e, "time")
           \cup (IF e.turn # Nil \/ e.purpose = "ToolExtraction" THEN {"run"} ELSE {})
    [] e.kind = "GenFirstSse" -> OuterTime(e, "time")
    [] e.kind = "Message" -> MessageDropped(e)
    [] e.kind = "GenEnded" ->
         LET m == Reply(h, e.gen)
         IN {"assistant"} \cup OuterTime(e, "time")
              \cup (IF m = Nil THEN {} ELSE {f \in {"usage", "stop"} : e[f] = h[m][f]})
    [] e.kind = "TurnEnded" -> {"final_gen"}
    [] e.kind = "RunEnd" -> {"had_output", "tools_used", "tokens"}
    [] e.kind = "ToolIntent" -> {"key", "assistant", "name"}
    [] e.kind = "ToolOutcome" ->
         MessageDropped(e) \cup {"key", "m_gen", "complete", "call", "name", "is_error"}
    [] e.kind = "InteractionOpened" -> {"run", "revision"}
    [] e.kind \in {"InteractionResolved", "InteractionExpired"} -> {"revision"}
    [] e.kind = "Compacted" -> {"run", "boundary", "kept", "previous", "summary", "window"}
    [] OTHER -> {}

NulledTime(h, e) == IF e.kind = "GenEnded" /\ e.time = Nil THEN {"time"} ELSE {}

(* An end that has no time, usage or stop reason of its own says so, or    *)
(* the reader would fill in the one at hand.                               *)
Nulled(h, e) ==
  LET m == Reply(h, e.gen)
  IN IF e.kind = "GenEnded"
     THEN {f \in {"time", "usage", "stop"} :
             e[f] = Nil /\ (f # "time" => m # Nil /\ h[m][f] # Nil)}
     ELSE {}

Encode(h, e) ==
  LET cause == ErrorCause(h, e)
      shared == cause # Nil /\ h[cause].error = e.error
      stays == {f \in Fields : e[f] # Nil} \ (Dropped(h, e) \cup IF shared THEN {"error"} ELSE {})
      nulls == Nulled(h, e)
      ref == IF shared THEN {"error_ref"} ELSE {}
  IN [f \in stays \cup nulls \cup ref |->
        IF f \in ref THEN cause ELSE IF f \in nulls THEN Null ELSE e[f]]

-----------------------------------------------------------------------------
Has(s, f) == f \in DOMAIN s /\ s[f] # Null
Of(s, f) == IF Has(s, f) THEN s[f] ELSE Nil
OwnerPuts(run, turn, gen, input, role) ==
  [m_run |-> run, m_turn |-> turn, m_gen |-> gen, m_input |-> input, role |-> role]

(* run_end: what the records of the run add up to.                         *)
RunTotals(h, r) ==
  LET ends == {i \in At(h, "GenEnded") :
                 h[h[i].gen].run = r /\ h[h[i].gen].purpose = "Conversation"}
  IN [had_output |-> With(h, "Message", "m_run", r) # {},
      tools_used |-> Cardinality({i \in At(h, "ToolIntent") : h[i].key.run = r}),
      tokens |-> IF ends = {} THEN Nil ELSE h[Latest(ends)].tokens]

CompactionPuts(h, s) ==
  LET g == h[s.gen]
  IN [run |-> g.run, boundary |-> g.boundary, summary |-> s.replacement,
      previous |-> CheckpointAt(h, g.boundary.through),
      kept |-> KeptFrom(h, g.boundary.through, s.through),
      window |-> IF g.source # Nil THEN g.budget ELSE h[g.run].budget]

(* decode_entry: the fields a line must not have, and what they are.       *)
Puts(h, s) ==
  CASE s.kind = "RunStarted" -> [caps |-> IF Has(s, "capable") THEN s.budget ELSE Nil]
    [] s.kind = "TurnStarted" ->
         [ordinal |-> Cardinality(With(h, "TurnStarted", "run", s.run)) + 1]
    [] s.kind = "InputAccepted" ->
         OwnerPuts(Nil, Nil, Nil, Len(h) + 1, "User") @@ [complete |-> "Complete"]
    [] s.kind = "InputConsumed" -> [run |-> h[s.turn].run]
    [] s.kind = "GenStarted" ->
         [attempt |-> IF Has(s, "turn") THEN Cardinality(TurnGens(h, s.turn)) + 1 ELSE 1,
          caps |-> IF Has(s, "capable") THEN s.budget ELSE Nil]
           @@ (IF Has(s, "turn") THEN [run |-> h[s.turn].run]
               ELSE IF s.purpose = "ToolExtraction" THEN [run |-> h[s.tool].key.run] ELSE <<>>)
    [] s.kind = "Message" ->
         [OwnerPuts(h[s.m_gen].run, h[s.m_gen].turn, Nil, Nil, "Assistant")
            EXCEPT !.m_gen = s.m_gen]
    [] s.kind = "GenEnded" -> [assistant |-> Reply(h, s.gen)]
    [] s.kind = "TurnEnded" -> [final_gen |-> Latest(TurnGens(h, s.turn))]
    [] s.kind = "RunEnd" -> RunTotals(h, s.run)
    [] s.kind = "ToolIntent" ->
         LET m == h[s.block.message]
             block == m.content[s.block.index]
         IN [key |-> [run |-> m.m_run, turn |-> m.m_turn, gen |-> m.m_gen, call |-> block.call],
             assistant |-> s.block.message, name |-> block.name]
    [] s.kind = "ToolOutcome" ->
         LET intent == h[s.tool]
         IN OwnerPuts(intent.key.run, intent.key.turn, intent.key.gen, Nil, "ToolResult")
              @@ [key |-> intent.key, complete |-> "Complete", call |-> intent.key.call,
                  name |-> intent.name, is_error |-> s.status # "Completed"]
    [] s.kind = "InteractionOpened" -> [run |-> h[s.tool].key.run, revision |-> 1]
    [] s.kind \in {"InteractionResolved", "InteractionExpired"} -> [revision |-> 2]
    [] s.kind = "Compacted" -> CompactionPuts(h, s)
    [] OTHER -> <<>>

(* What a line may leave out: the time of the record, the turn's boundary, *)
(* the usage and the stop reason of the reply.                             *)
Defaults(h, s) ==
  CASE s.kind \in {"InputAccepted", "Message", "ToolOutcome"} -> [m_time |-> s.at]
    [] s.kind \in {"GenStarted", "GenFirstSse"} -> [time |-> s.at]
    [] s.kind = "InputConsumed" -> [boundary |-> h[s.turn].boundary]
    [] s.kind = "GenEnded" ->
         [time |-> s.at]
           @@ (IF Reply(h, s.gen) = Nil THEN <<>>
               ELSE [usage |-> h[Reply(h, s.gen)].usage, stop |-> h[Reply(h, s.gen)].stop])
    [] OTHER -> <<>>

Decode(h, s) ==
  LET puts == Puts(h, s)
      defaults == Defaults(h, s)
      e == [f \in Fields |->
              IF f \in DOMAIN puts THEN puts[f]
              ELSE IF f \in DOMAIN s THEN Of(s, f)
              ELSE IF f \in DOMAIN defaults THEN defaults[f] ELSE Nil]
      whole == IF Has(s, "error_ref")
               THEN [e EXCEPT !.error = h[ErrorCause(h, e)].error] ELSE e
  IN IF \/ \E f \in DOMAIN puts : f \in DOMAIN s /\ ~(s.kind = "Message" /\ f = "m_gen")
        \/ Has(s, "error_ref") /\ (Has(s, "error") \/ s.error_ref # ErrorCause(h, e))
        \/ ~Accepts(h, whole)
     THEN Nil ELSE whole

-----------------------------------------------------------------------------
(* What the agent writes next (run_loop.rs, persistence.rs, recovery.rs).  *)
Make(kind, given) ==
  [f \in Fields |-> IF f = "kind" THEN kind ELSE IF f = "at" THEN 1
                    ELSE IF f \in DOMAIN given THEN given[f] ELSE Nil]
Boundary(through) == [through |-> through, after |-> Nil]
Model(known) ==
  IF known THEN [capable |-> TRUE, caps |-> 1, budget |-> 1, source |-> "Host"]
           ELSE [budget |-> 2, source |-> "Default"]
Text == [call |-> "", name |-> ""]
Call == [call |-> "c1", name |-> "read"]

Inputs(h) ==
  IF h = <<>> THEN {Make("SessionHeader", <<>>)}
  ELSE IF Len(h) = 1 THEN {Make("Meta", <<>>)}
  ELSE IF Len(h) # 2 THEN {}
  ELSE {Make("InputAccepted",
          OwnerPuts(Nil, Nil, Nil, 3, "User")
            @@ [mode |-> "Send", complete |-> "Complete", m_time |-> 1, content |-> <<Text>>])}
Runs(h) ==
  {Make("RunStarted", Model(TRUE) @@ [input |-> i, boundary |-> Boundary(Len(h))]) :
     i \in At(h, "InputAccepted")}
Turns(h) ==
  {Make("TurnStarted", [run |-> r, boundary |-> Boundary(Len(h)),
                        ordinal |-> Cardinality(With(h, "TurnStarted", "run", r)) + 1]) :
     r \in {x \in At(h, "RunStarted") : Cardinality(At(h, "TurnStarted")) < MaxTurns}}
    \cup {Make("InputConsumed", [input |-> h[h[t].run].input, run |-> h[t].run, turn |-> t,
                                 boundary |-> h[t].boundary]) : t \in At(h, "TurnStarted")}
(* One generation beside the conversation, written without interruption at *)
(* one place of the history: a bound, the validator allows them anywhere.  *)
Aside(h) == {g \in At(h, "GenStarted") : h[g].purpose # "Conversation"}
AsideAfter(h, kind) == h # <<>> /\ Aside(h) = {} /\ Last(h).kind = kind
Gens(h) ==
  {Make("GenStarted", [run |-> h[t].run, turn |-> t, purpose |-> "Conversation", time |-> 1,
                       attempt |-> Cardinality(TurnGens(h, t)) + 1,
                       boundary |-> Boundary(Len(h))]) : t \in At(h, "TurnStarted")}
    \cup {Make("GenStarted", Model(TRUE)
            @@ [run |-> h[i].key.run, tool |-> i, purpose |-> "ToolExtraction", time |-> 1,
                attempt |-> 1, boundary |-> Boundary(Len(h))]) :
            i \in {x \in At(h, "ToolIntent") : AsideAfter(h, "ToolIntent")}}
    \cup {Make("GenStarted", Model(FALSE)
            @@ [purpose |-> p, time |-> 1, attempt |-> 1, boundary |-> Boundary(Len(h))]) :
            p \in (IF AsideAfter(h, "RunStarted") THEN {"Title"} ELSE {})
                    \cup (IF AsideAfter(h, "TurnEnded") THEN {"Compaction"} ELSE {})}
Replies(h) ==
  {Make("GenFirstSse", [gen |-> g, time |-> 1]) :
     g \in {x \in At(h, "GenStarted") : Reply(h, x) = Nil /\ h[x].attempt = 2}}
    \cup {Make("Message",
            OwnerPuts(h[g].run, h[g].turn, g, Nil, "Assistant")
              @@ [complete |-> IF stop = "Error" THEN "Partial" ELSE "Complete", m_time |-> 1,
                  content |-> IF stop = "ToolUse" THEN <<Text, Call>> ELSE <<Text>>,
                  usage |-> IF stop = "Error" THEN Nil ELSE 1, stop |-> stop]) :
            g \in At(h, "GenStarted"), stop \in {"Stop", "ToolUse", "Error"}}
GenEnds(h) ==
  {LET m == Reply(h, g)
       own == status # "Interrupted"
   IN Make("GenEnded",
        [gen |-> g, status |-> status, assistant |-> m,
         time |-> IF own THEN 1 ELSE Nil,
         stop |-> IF own /\ m # Nil THEN h[m].stop ELSE Nil,
         usage |-> IF m # Nil THEN h[m].usage ELSE Nil,
         error |-> IF status = "Failed" THEN "e1" ELSE Nil]) :
     g \in At(h, "GenStarted"), status \in {"Completed", "Failed", "Interrupted"}}
Tools(h) ==
  {Make("ToolIntent",
     [key |-> [run |-> h[m].m_run, turn |-> h[m].m_turn, gen |-> h[m].m_gen,
               call |-> h[m].content[k].call],
      assistant |-> m, name |-> h[m].content[k].name,
      block |-> [message |-> m, index |-> k]]) :
     <<m, k>> \in {x \in At(h, "Message") \X {1, 2} : x[2] \in CallsIn(h, x[1])}}
    \cup {Make("ToolOutcome",
            OwnerPuts(h[i].key.run, h[i].key.turn, h[i].key.gen, Nil, "ToolResult")
              @@ [tool |-> i, key |-> h[i].key, status |-> status, complete |-> "Complete",
                  m_time |-> 1, content |-> <<Text>>,
                  call |-> h[i].key.call, name |-> h[i].name,
                  is_error |-> status # "Completed"]) :
            i \in At(h, "ToolIntent"), status \in {"Completed", "Failed"}}
Interactions(h) ==
  {Make("InteractionOpened", [run |-> h[i].key.run, tool |-> i, revision |-> 1,
                              request |-> "Question"]) :
     i \in {x \in At(h, "ToolIntent") : With(h, "InteractionOpened", "tool", x) = {}}}
    \cup {Make("InteractionResolved", [interaction |-> i, revision |-> 2,
                                       answer |-> "Question"]) : i \in At(h, "InteractionOpened")}
    \cup {Make("InteractionExpired", [interaction |-> i, revision |-> 2]) :
            i \in At(h, "InteractionOpened")}
Ends(h) ==
  {Make("TurnEnded",
     [turn |-> t, status |-> status, final_gen |-> Latest(TurnGens(h, t)),
      error |-> IF status = "Failed" THEN "e1" ELSE Nil]) :
     t \in At(h, "TurnStarted"), status \in {"Completed", "Failed"}}
    \cup {Make("RunEnd",
            RunTotals(h, r) @@ [run |-> r, status |-> status,
                                error |-> IF status = "Failed" THEN "e1" ELSE Nil]) :
            r \in At(h, "RunStarted"), status \in {"Completed", "Failed"}}
(* No part of the agent compacts yet: the record any caller of the          *)
(* validator could commit.                                                  *)
Compactions(h) ==
  UNION {LET upper == h[g].boundary.through
         IN {Make("Compacted",
               [gen |-> g, run |-> h[g].run, boundary |-> h[g].boundary, through |-> through,
                previous |-> CheckpointAt(h, upper), kept |-> KeptFrom(h, upper, through),
                replacement |-> <<"text">>, summary |-> <<"text">>, window |-> h[g].budget]) :
               through \in Range(EffectiveAt(h, upper))} :
           g \in {x \in With(h, "GenStarted", "purpose", "Compaction") :
                    h[x].boundary.through # Nil}}

(* Other values a field of such a record could have; a field is changed   *)
(* that the record has or that its line leaves out.                        *)
Values(h, e, f) ==
  CASE f \in {"time", "m_time"} -> {1, 2}
    [] f \in {"ordinal", "attempt", "revision"} -> 1..3
    [] f \in {"usage", "tokens"} -> {Nil, 1, 2}
    [] f = "budget" -> {1, 2}
    [] f = "caps" -> IF e.capable # Nil THEN {1, 2} ELSE {}
    [] f = "source" -> {"Host", "Default"}
    [] f \in {"is_error", "had_output"} -> BOOLEAN
    [] f = "complete" -> {"Complete", "Partial"}
    [] f = "role" -> {"User", "Assistant", "ToolResult"}
    [] f = "stop" -> {"Stop", "Error"} \cup (IF e.kind = "GenEnded" THEN {Nil} ELSE {})
    [] f \in {"call", "name"} -> {"", "c1", "c2"}
    [] f = "error" -> {Nil, "e1", "e2"}
    [] f = "boundary" -> {Boundary(Nil), Boundary(2)}
    [] f \in {"run", "turn", "m_run", "m_turn", "m_gen", "m_input", "assistant", "final_gen",
              "kept", "previous"} -> {Nil, Len(h) + 1} \cup DOMAIN h
    [] OTHER -> {}
Changed(h, e) ==
  UNION {{[e EXCEPT ![f] = v] : v \in Values(h, e, f) \ {e[f]}} :
           f \in {x \in Fields : e[x] # Nil} \cup Dropped(h, e)}

-----------------------------------------------------------------------------
RecordsInit == journal = <<>> /\ asked = Nil /\ line = <<>> /\ odd = 0

(* append_entry: refuse what the validator refuses, and keep what the line *)
(* would be read as.                                                       *)
AppendRecord(e) ==
  /\ Len(journal) < IF odd = 0 THEN MaxRecords ELSE odd + MaxAfter
  /\ \A g \in Aside(journal) : GenOpen(journal, g) => g \in {e.gen, e.m_gen}
  /\ Accepts(journal, e)
  /\ asked' = e
  /\ line' = Encode(journal, e)
  /\ LET entry == Decode(journal, Encode(journal, e))
     IN journal' = IF entry = Nil THEN journal ELSE Append(journal, entry)

Proposed(h) ==
  Inputs(h) \cup Runs(h) \cup Turns(h) \cup Gens(h) \cup Replies(h) \cup GenEnds(h) \cup Tools(h)
    \cup Interactions(h) \cup Ends(h) \cup Compactions(h)

(* The agent's record, or, once in a history, one with a field changed.    *)
RecordsNext ==
  \E e \in Proposed(journal) :
    \/ AppendRecord(e) /\ UNCHANGED odd
    \/ odd = 0 /\ odd' = Len(journal) + 1 /\ \E x \in Changed(journal, e) : AppendRecord(x)

-----------------------------------------------------------------------------
(* Fields the writer only measures: the reader's count stands.             *)
Measured == {"had_output", "tools_used", "tokens", "summary", "window"}

(* A record the validator accepts is one the reader of its line accepts,   *)
(* with every field it had when it was handed over, though most lines      *)
(* carry a third of them: what a line leaves out is what the validator ties *)
(* to earlier records.  The entry kept is a fixed point: encoded again, it  *)
(* is the same line.  (encode_entry and decode_entry of format.rs against  *)
(* validate_entry and History::push of validation.rs.)                     *)
RoundTrip ==
  asked # Nil =>
    LET h == Front(journal)
        entry == Last(journal)
    IN /\ \A f \in Fields \ Measured : entry[f] = asked[f]
       /\ Encode(h, entry) = line
=============================================================================
