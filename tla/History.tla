------------------------------- MODULE History -------------------------------
(***************************************************************************)
(* What the records of a conversation say: which records may follow which  *)
(* (validate_history of crates/xw-agent-types), what recovery appends to a *)
(* history that was cut short, and what the next generation is shown of it *)
(* (crates/xw-agent).  A history is the set of its committed entries: every *)
(* rule below asks which records exist, never where they stand.            *)
(*                                                                         *)
(* An entry has a kind, the id of what it is about and some words.  An id  *)
(* is <<run, turn, call>>: <<r, 0, 0>> is a run, <<r, t, 0>> its turn t and *)
(* the one conversation generation of that turn, <<r, t, c>> the tool call *)
(* c of that generation, its interaction, and the extraction generation it *)
(* may start.  Every Gen of this code has attempt 1.                       *)
(***************************************************************************)
EXTENDS Naturals, Sequences, FiniteSets, SequencesExt

CONSTANTS
  MaxCalls     \* RuntimeLimits.max_tool_calls of a run; max_gens is one more

ASSUME MaxCallsAssumption == MaxCalls \in Nat

Entry(kind, id, words) == [kind |-> kind, id |-> id, words |-> words]

RunOf(id) == <<id[1], 0, 0>>
TurnOf(id) == <<id[1], id[2], 0>>
NoId == <<0, 0, 0>>

Places(h, kind) == {e.id : e \in {x \in h : x.kind = kind}}
Has(h, kind, id) == id \in Places(h, kind)
Words(h, kind, id) == (CHOOSE e \in h : e.kind = kind /\ e.id = id).words
Says(h, kind, id, word) == Entry(kind, id, <<word>>) \in h

(* Begun and not ended: what inspect_recovery finds unfinished.            *)
OpenRuns(h) == Places(h, "RunStarted") \ Places(h, "RunEnd")
OpenTurns(h) == Places(h, "TurnStarted") \ Places(h, "TurnEnded")
OpenGens(h) == Places(h, "GenStarted") \ Places(h, "GenEnded")
OpenTools(h) == Places(h, "ToolIntent") \ Places(h, "ToolOutcome")
OpenInteractions(h) ==
  Places(h, "InteractionOpened") \
    (Places(h, "InteractionResolved") \cup Places(h, "InteractionExpired"))

Conversation(id) == id[3] = 0

(* The calls a complete reply asks for, in the order of its blocks: the    *)
(* words of a Message are its completeness and the tools it names.         *)
CallsOf(h, gen) ==
  {<<gen[1], gen[2], c>> : c \in 1..(Len(Words(h, "Message", gen)) - 1)}

(* Only the replies of Completed conversation generations count.           *)
Effective(h) ==
  {g \in Places(h, "GenEnded") : Conversation(g) /\ Says(h, "GenEnded", g, "Completed")}

ClosedTools(h, turn) ==
  \A g \in Effective(h) :
    g = turn => CallsOf(h, g) \subseteq Places(h, "ToolOutcome")

(* The calls the rebuilt context shows without a result.                   *)
Unclosed(h) ==
  (UNION {CallsOf(h, g) : g \in Effective(h)}) \ Places(h, "ToolOutcome")

-----------------------------------------------------------------------------
(* History::push, one rule per kind of entry.                              *)
InputRule(h, e) ==
  \/ /\ e.kind = "InputAccepted"
     /\ e \notin h
  \/ /\ e.kind = "InputConsumed"
     /\ e.id \in OpenTurns(h)
     /\ ~Has(h, "GenStarted", e.id)
     /\ Entry("InputAccepted", NoId, e.words) \in h
     /\ \A x \in h : x.kind = "InputConsumed" => x.words # e.words
     /\ Entry("RunStarted", RunOf(e.id), e.words) \in h /\ e.id[2] = 1

RunStartRule(h, e) ==
  /\ e.kind = "RunStarted"
  /\ OpenRuns(h) = {}
  /\ ~Has(h, "RunStarted", e.id)
  /\ Entry("InputAccepted", NoId, e.words) \in h
  /\ \A x \in h : x.kind \in {"RunStarted", "InputConsumed"} => x.words # e.words

RunEndRule(h, e) ==
  /\ e.kind = "RunEnd"
  /\ e.id \in OpenRuns(h)
  /\ \A x \in OpenTurns(h) \cup OpenGens(h) : RunOf(x) # e.id
  /\ Cardinality({x \in Places(h, "ToolIntent") : RunOf(x) = e.id}) <= MaxCalls
  /\ e.words = <<"Completed">> =>
       \E t \in Places(h, "TurnEnded") :
         /\ RunOf(t) = e.id /\ Says(h, "TurnEnded", t, "Completed")
         /\ \A u \in Places(h, "TurnStarted") : RunOf(u) = e.id => u[2] <= t[2]

TurnStartRule(h, e) ==
  /\ e.kind = "TurnStarted"
  /\ RunOf(e.id) \in OpenRuns(h)
  /\ ~Has(h, "TurnStarted", e.id)
  /\ \A u \in OpenTurns(h) : RunOf(u) # RunOf(e.id)
  /\ Cardinality({u \in Places(h, "TurnStarted") : RunOf(u) = RunOf(e.id)}) = e.id[2] - 1

TurnEndRule(h, e) ==
  /\ e.kind = "TurnEnded"
  /\ e.id \in OpenTurns(h) /\ RunOf(e.id) \in OpenRuns(h)
  /\ e.id \notin OpenGens(h)
  /\ e.words = <<"Completed">> => Says(h, "GenEnded", e.id, "Completed")
  /\ e.words # <<"Interrupted">> => ClosedTools(h, e.id)
  /\ \A x \in OpenInteractions(h) : TurnOf(x) # e.id

GenStartRule(h, e) ==
  /\ e.kind = "GenStarted"
  /\ ~Has(h, "GenStarted", e.id)
  /\ RunOf(e.id) \in OpenRuns(h) /\ TurnOf(e.id) \in OpenTurns(h)
  /\ IF Conversation(e.id)
       THEN /\ \E x \in h : x.kind = "InputConsumed" /\ RunOf(x.id) = RunOf(e.id)
            /\ e.id[2] = 1 => Has(h, "InputConsumed", e.id)
            /\ Cardinality({g \in Places(h, "GenStarted") :
                              Conversation(g) /\ RunOf(g) = RunOf(e.id)}) <= MaxCalls
       ELSE e.id \in OpenTools(h)

GenRule(h, e) ==
  /\ e.kind \in {"Message", "GenEnded"}
  /\ e.id \in OpenGens(h) /\ RunOf(e.id) \in OpenRuns(h)
  /\ Conversation(e.id) => e.id \in OpenTurns(h)
  /\ e.kind # "GenEnded" => ~Has(h, e.kind, e.id)
  /\ e.kind = "GenEnded" /\ e.words = <<"Completed">> =>
       Has(h, "Message", e.id) /\ Head(Words(h, "Message", e.id)) = "Complete"

ToolRule(h, e) ==
  \/ /\ e.kind = "ToolIntent"
     /\ TurnOf(e.id) \in OpenTurns(h) /\ RunOf(e.id) \in OpenRuns(h)
     /\ TurnOf(e.id) \in Effective(h) /\ e.id \in CallsOf(h, TurnOf(e.id))
     /\ e.words = <<Words(h, "Message", TurnOf(e.id))[e.id[3] + 1]>>
     /\ ~Has(h, "ToolIntent", e.id)
  \/ /\ e.kind = "ToolOutcome"
     /\ e.id \in OpenTools(h)
     /\ TurnOf(e.id) \in OpenTurns(h) /\ RunOf(e.id) \in OpenRuns(h)
     /\ e.id \notin OpenGens(h)
     /\ e.id \notin OpenInteractions(h)

InteractionRule(h, e) ==
  \/ /\ e.kind = "InteractionOpened"
     /\ e.id \in OpenTools(h) /\ TurnOf(e.id) \in OpenTurns(h)
     /\ ~Has(h, "InteractionOpened", e.id)
  \/ /\ e.kind \in {"InteractionResolved", "InteractionExpired"}
     /\ e.id \in OpenInteractions(h)

ContextRule(h, e) ==
  /\ e.kind = "SystemContext"
  /\ \A g \in OpenGens(h) : ~Conversation(g)
  /\ OpenTools(h) = {}
  /\ \A t \in OpenTurns(h) : ClosedTools(h, t)

Accepts(h, e) ==
  \/ e.kind = "Meta"
  \/ InputRule(h, e)
  \/ RunStartRule(h, e) \/ RunEndRule(h, e)
  \/ TurnStartRule(h, e) \/ TurnEndRule(h, e)
  \/ GenStartRule(h, e) \/ GenRule(h, e)
  \/ ToolRule(h, e) \/ InteractionRule(h, e) \/ ContextRule(h, e)

(* es can be appended to h one after the other.                            *)
AcceptsAll(h, es) ==
  \A n \in 1..Len(es) : Accepts(h \cup ToSet(SubSeq(es, 1, n - 1)), es[n])

-----------------------------------------------------------------------------
(* settle_with_tools: the built-in tools without outside effects, and the  *)
(* assembled extension whose policy is CancelPending, can be closed; a     *)
(* question that was answered durably is closed with its answer.           *)
Builtin == {"AskUserQuestion", "TodoWrite", "Skill"}

Settleable(h, installed) ==
  {x \in OpenTools(h) :
     Words(h, "ToolIntent", x)[1] \in Builtin \cup IF installed THEN {"WebFetch"} ELSE {}}

(* One entry for each id of DOMAIN word, which says the word of its end.    *)
Closing(kind, word) ==
  LET ids == SetToSeq(DOMAIN word) IN
  [n \in 1..Cardinality(DOMAIN word) |-> Entry(kind, ids[n], <<word[ids[n]]>>)]

EndAll(ids, word) == [id \in ids |-> word]

(* Mutants of Settlement: turns are ended before their tools, an answered   *)
(* question is cancelled.                                                  *)
SettlementTurnsFirst(h, failed, installed) ==
  Closing("GenEnded", EndAll(OpenGens(h), "Interrupted"))
  \o Closing("TurnEnded", EndAll(OpenTurns(h), "Interrupted"))
  \o Closing("ToolOutcome", EndAll(Settleable(h, installed), "Cancelled"))
  \o Closing("RunEnd", EndAll(OpenRuns(h), "Interrupted"))

SettlementUnanswered(h, failed, installed) ==
  Closing("InteractionExpired", EndAll(OpenInteractions(h), "Recovery"))
  \o Closing("GenEnded", EndAll(OpenGens(h), "Interrupted"))
  \o Closing("ToolOutcome", EndAll(Settleable(h, installed), "Cancelled"))
  \o Closing("TurnEnded", EndAll(OpenTurns(h), "Interrupted"))
  \o Closing("RunEnd", EndAll(OpenRuns(h), "Interrupted"))

Outcomes(h, installed) ==
  [x \in Settleable(h, installed) |->
     IF Has(h, "InteractionResolved", x) THEN "Completed" ELSE "Cancelled"]

RunEnds(h, failed) ==
  [x \in OpenRuns(h) |-> IF x = <<failed, 0, 0>> THEN "Failed" ELSE "Interrupted"]

Settlement(h, failed, installed) ==
  Closing("InteractionExpired", EndAll(OpenInteractions(h), "Recovery"))
  \o Closing("GenEnded", EndAll(OpenGens(h), "Interrupted"))
  \o Closing("ToolOutcome", Outcomes(h, installed))
  \o Closing("TurnEnded", EndAll(OpenTurns(h), "Interrupted"))
  \o Closing("RunEnd", RunEnds(h, failed))
=============================================================================
