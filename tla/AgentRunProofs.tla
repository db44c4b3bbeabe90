---------------------------- MODULE AgentRunProofs ----------------------------
(***************************************************************************)
(* Theorems of module AgentRun, for any inputs, plans and bounds.          *)
(*                                                                         *)
(* First the outside effects, the acknowledged answers and the run of an   *)
(* input, with the invariant RunInv.  Then that append never refuses what  *)
(* the live code or recovery records, that a session at rest has nothing   *)
(* open and that it shows what its journal says, with the invariant        *)
(* SafeInv, for a session whose tools are the same at every load           *)
(* (OneInstall).                                                           *)
(***************************************************************************)
EXTENDS AgentRun, FiniteSetTheorems, TLAPS

Written == log \cup doubt
Ids == Nat \X Nat \X Nat

-----------------------------------------------------------------------------
(* The inductive invariant.                                                *)

(* There is at most one run, the newest; it stands at a turn or a call.    *)
Placed ==
  /\ runs \in Nat /\ active \in {0, runs} /\ at \in Ids
  /\ step \in {"idle", "generate", "call", "run", "ask", "result", "turn", "next", "end", "leave"}
  /\ (active = 0) <=> (step = "idle")
  /\ active # 0 => at[1] = active /\ loaded

(* An entry, in the file or in doubt, is of a run that was begun.          *)
EntryOK(e) == e = Entry(e.kind, e.id, e.words) /\ e.id \in Ids /\ e.id[1] <= runs

Filed ==
  /\ IsFiniteSet(log) /\ IsFiniteSet(doubt)
  /\ \A e \in Written : EntryOK(e)

(* The task goes through turns and calls in order: what it has done with a *)
(* call x of its run lies behind it, or is what it is at.                  *)
Done(x) ==
  /\ step \in {"generate", "call", "run", "ask", "result"} =>
       \/ x[2] < at[2]
       \/ x[2] = at[2] /\ x[3] < at[3]
  /\ step \in {"turn", "next", "end"} => x[2] <= at[2]
Begun(x) ==
  \/ Done(x)
  \/ x = at /\ step = "result"
  \/ x = at /\ step = "ask" /\ question = "resolved"

Past(x) == x[1] = active => Done(x)
Touched(x) == x[1] = active => Begun(x)

(* Calls with an acknowledged answer, and how they are closed.             *)
OutcomeOK(e) ==
  e.kind = "ToolOutcome" => Past(e.id) /\ (e.id \in answered => e.words = <<"Completed">>)

Asked ==
  /\ \A x \in answered :
       x \in Ids /\ x[1] <= runs /\ Touched(x) /\ Has(log, "InteractionResolved", x)
  /\ \A e \in Written : OutcomeOK(e)
  /\ step = "result" /\ at \in answered => result = "Completed"

(* Calls with an outside effect, and the intent of the call that runs.     *)
Ran ==
  /\ effects \in [CallIds -> Nat]
  /\ \A x \in CallIds :
       effects[x] # 0 => /\ effects[x] = 1 /\ x[1] <= runs /\ Touched(x)
                         /\ Entry("ToolIntent", x, <<"Bash">>) \in log
  /\ step = "run" => Entry("ToolIntent", at, <<Tool(at)>>) \in log

(* A session that can append knows every input of its journal.             *)
Caught == loaded /\ ~check => doubt = {} /\ Accepted(log) \subseteq requests

(* A run has its input before it, and no input has two.                    *)
RunOK(e) ==
  e.kind = "RunStarted" =>
    /\ e.id = <<e.id[1], 0, 0>> /\ e.words = <<e.words[1]>>
    /\ Entry("InputAccepted", NoId, e.words) \in log

Single ==
  /\ \A e \in Written : RunOK(e)
  /\ \A e, f \in Written :
       e.kind = "RunStarted" /\ f.kind = "RunStarted" /\ e.words = f.words => e = f
  /\ \A p \in replies :
       p = <<p[1], p[2]>> /\ Entry("RunStarted", <<p[2], 0, 0>>, <<p[1]>>) \in log

RunInv == Placed /\ Filed /\ Asked /\ Ran /\ Caught /\ Single

-----------------------------------------------------------------------------
(* Sequences of entries.                                                   *)
LEMMA Enumerated ==
  ASSUME NEW S, IsFiniteSet(S)
  PROVE  SetToSeq(S) \in [1..Cardinality(S) -> S]
<1>1. ExistsBijection(1..Cardinality(S), S) BY FS_CardinalityType
<1>2. PICK f \in Bijection(1..Cardinality(S), S) : TRUE BY <1>1 DEF ExistsBijection
<1>3. f \in [1..Cardinality(S) -> S] /\ IsInjective(f)
  BY <1>2 DEF Bijection, Injection
<1> QED BY <1>3 DEF SetToSeq

(* The elements of the shortest sequences, and of any.                     *)
LEMMA One == ASSUME NEW e PROVE ToSet(<<e>>) = {e} /\ <<e>> \in Seq({e})
BY DEF ToSet

(* The empty sequence has no elements.                                     *)
LEMMA None == ToSet(<<>>) = {} /\ \A S : <<>> \in Seq(S)
BY DEF ToSet

(* A sequence over a set has its elements there, and finitely many.        *)
LEMMA Within ==
  ASSUME NEW S, NEW s \in Seq(S)
  PROVE  ToSet(s) \subseteq S /\ IsFiniteSet(ToSet(s))
<1>1. ToSet(s) \subseteq S BY DEF ToSet
<1>2. s \in Surjection(1..Len(s), ToSet(s)) /\ Len(s) \in Nat BY DEF Surjection, ToSet
<1>3. \E n \in Nat : ExistsSurjection(1..n, ToSet(s)) BY <1>2 DEF ExistsSurjection
<1> QED BY <1>1, <1>3, FS_NatSurjection

(* A finite history has finitely many ids of a kind.                       *)
LEMMA PlacesFinite ==
  ASSUME NEW h, IsFiniteSet(h), NEW kind
  PROVE  IsFiniteSet(Places(h, kind))
<1> DEFINE S == {x \in h : x.kind = kind}
           f == [e \in S |-> e.id]
<1>1. IsFiniteSet(S) BY FS_Subset
<1>2. f \in Surjection(S, Places(h, kind)) BY DEF Surjection, Places
<1> HIDE DEF S, f
<1> QED BY <1>1, <1>2, FS_Surjection

(* Words depends on the entries of its kind and id only.                   *)
LEMMA Words1 ==
  ASSUME NEW h, NEW g, NEW kind, NEW id,
         \A e : (e \in h /\ e.kind = kind /\ e.id = id) <=> (e \in g /\ e.kind = kind /\ e.id = id)
  PROVE  Words(h, kind, id) = Words(g, kind, id)
BY DEF Words

(* Closing makes an entry of each id, and of nothing else.                 *)
LEMMA Closes ==
  ASSUME NEW kind, NEW word, IsFiniteSet(DOMAIN word)
  PROVE  /\ Closing(kind, word) \in Seq(ToSet(Closing(kind, word)))
         /\ \A e \in ToSet(Closing(kind, word)) :
              \E id \in DOMAIN word : e = Entry(kind, id, <<word[id]>>)
<1> DEFINE ids == SetToSeq(DOMAIN word)
           n == Cardinality(DOMAIN word)
<1>1. n \in Nat BY FS_CardinalityType
<1>2. ids \in [1..n -> DOMAIN word] BY Enumerated
<1>3. \A i \in 1..n : Closing(kind, word)[i] = Entry(kind, ids[i], <<word[ids[i]]>>)
  BY DEF Closing
<1>4. DOMAIN Closing(kind, word) = 1..n BY DEF Closing
<1>5. \A i \in 1..n : Closing(kind, word)[i] \in ToSet(Closing(kind, word)) BY <1>4 DEF ToSet
<1>6. Closing(kind, word) = [i \in 1..n |-> Entry(kind, ids[i], <<word[ids[i]]>>)] BY DEF Closing
<1> HIDE DEF n, ids
<1>7. Closing(kind, word) \in Seq(ToSet(Closing(kind, word)))
  BY <1>1, <1>4, <1>5, <1>6
<1> QED BY <1>2, <1>3, <1>4, <1>7 DEF ToSet
-----------------------------------------------------------------------------
(* What a journal append does to the entries.                              *)
Grown(S) ==
  /\ log \subseteq log' /\ log' \cup doubt' \subseteq Written \cup S
  /\ IsFiniteSet(log') /\ IsFiniteSet(doubt')

(* A section that appends es to h, or fails at one of them.                *)
LEMMA Grows ==
  ASSUME NEW T, NEW es \in Seq(T), NEW h, IsFiniteSet(h), log \subseteq h, h \subseteq Written,
         Commit(h, es) \/ Break(h, es)
  PROVE  Grown(ToSet(es))
<1>1. CASE Commit(h, es)
  <2>1. IsFiniteSet(ToSet(es)) BY Within
  <2>2. IsFiniteSet(h \cup ToSet(es)) BY <2>1, FS_Union
  <2>3. IsFiniteSet({}) BY FS_EmptySet
  <2> QED BY <1>1, <2>2, <2>3 DEF Commit, Grown
<1>2. CASE Break(h, es)
  <2>1. PICK n \in 1..Len(es) : log' = h \cup ToSet(SubSeq(es, 1, n - 1)) /\ doubt' = {es[n]}
    BY <1>2 DEF Break
  <2>2. SubSeq(es, 1, n - 1) \in Seq(T) BY <2>1
  <2>3. IsFiniteSet(ToSet(SubSeq(es, 1, n - 1))) BY <2>2, Within
  <2>4. IsFiniteSet(log') BY <2>1, <2>3, FS_Union
  <2>5. IsFiniteSet(doubt') BY <2>1, FS_Singleton
  <2>6. ToSet(SubSeq(es, 1, n - 1)) \subseteq ToSet(es)
    BY <2>1 DEF ToSet
  <2>7. es[n] \in ToSet(es) BY <2>1 DEF ToSet
  <2> QED BY <2>1, <2>4, <2>5, <2>6, <2>7 DEF Grown
<1> QED BY <1>1, <1>2

(* An append of the session in memory.                                     *)
LEMMA Appends ==
  ASSUME Filed, NEW T, NEW es \in Seq(T), Succeed(es) \/ Fault(es)
  PROVE  Grown(ToSet(es))
<1>1. CASE UNCHANGED journal BY <1>1 DEF journal, Filed, Grown, Written
<1>2. CASE Commit(log, es) \/ Break(log, es) BY <1>2, Grows DEF Filed, Written
<1> QED BY <1>1, <1>2 DEF Succeed, Fault

(* Entries that were there keep what the invariant says of them.           *)
Forward ==
  \A x \in Ids : x[1] <= runs => (Past(x) => Past(x)') /\ (Touched(x) => Touched(x)')

(* The parts Filed, Asked and Ran survive a step that moves on.            *)
LEMMA Carry ==
  ASSUME Placed, Filed, Asked, Ran, Forward, NEW S, Grown(S), runs' \in Nat, runs <= runs',
         \A e \in S : EntryOK(e)' /\ OutcomeOK(e)',
         answered' = answered, effects' = effects,
         step' = "run" => (Entry("ToolIntent", at, <<Tool(at)>>) \in log)',
         step' = "result" /\ at' \in answered => result' = "Completed"
  PROVE  Filed' /\ Asked' /\ Ran'
<1>1. \A e \in Written : EntryOK(e)' BY DEF Filed, EntryOK, Placed, Ids
<1>2. Filed' BY <1>1 DEF Filed, Grown, Written
<1>3. \A e \in Written : OutcomeOK(e)' BY DEF Asked, OutcomeOK, Filed, EntryOK, Forward
<1>4. \A x \in answered : Has(log, "InteractionResolved", x)' BY DEF Asked, Has, Places, Grown
<1>5. Asked' BY <1>3, <1>4 DEF Asked, Forward, Grown, Written, Placed, Ids
<1>6. \A x \in CallIds : x \in Ids BY RunBounds, MaxCallsAssumption DEF CallIds, RunIds, Ids
<1>7. Ran' BY <1>6 DEF Ran, Forward, Grown, Placed, Ids
<1> QED BY <1>2, <1>5, <1>7

-----------------------------------------------------------------------------
(* What recovery appends.                                                  *)
ClosingKinds == {"InteractionExpired", "GenEnded", "ToolOutcome", "TurnEnded", "RunEnd"}

ClosingOK(h, e) ==
  /\ EntryOK(e) /\ e.kind \in ClosingKinds
  /\ e.kind = "ToolOutcome" /\ Has(h, "InteractionResolved", e.id) => e.words = <<"Completed">>

(* A closing entry is of a run that began and keeps an answer.             *)
LEMMA ClosesRight ==
  ASSUME Filed, NEW h, IsFiniteSet(h), h \subseteq Written, NEW kind \in ClosingKinds, NEW start,
         NEW word, DOMAIN word \subseteq Places(h, start),
         kind = "ToolOutcome" =>
           \A x \in DOMAIN word : Has(h, "InteractionResolved", x) => word[x] = "Completed"
  PROVE  /\ Closing(kind, word) \in Seq(ToSet(Closing(kind, word)))
         /\ \A e \in ToSet(Closing(kind, word)) : ClosingOK(h, e)
<1>1. IsFiniteSet(DOMAIN word) BY PlacesFinite, FS_Subset
<1>2. \A x \in DOMAIN word : x \in Ids /\ x[1] <= runs BY DEF Filed, EntryOK, Places
<1>3. \A x \in DOMAIN word : ClosingOK(h, Entry(kind, x, <<word[x]>>))
  BY <1>2 DEF ClosingOK, EntryOK, Entry
<1>4. Closing(kind, word) \in Seq(ToSet(Closing(kind, word))) BY <1>1, Closes
<1>5. ASSUME NEW e \in ToSet(Closing(kind, word)) PROVE ClosingOK(h, e)
  <2>1. \E x \in DOMAIN word : e = Entry(kind, x, <<word[x]>>) BY <1>1, Closes
  <2> QED BY <2>1, <1>3
<1> QED BY <1>4, <1>5

(* So are all that recovery appends.                                       *)
LEMMA Settles ==
  ASSUME Filed, NEW h, IsFiniteSet(h), h \subseteq Written, NEW r, NEW tools
  PROVE  \E T : /\ Settlement(h, r, tools) \in Seq(T)
                /\ \A e \in ToSet(Settlement(h, r, tools)) : ClosingOK(h, e)
<1> DEFINE c1 == Closing("InteractionExpired", EndAll(OpenInteractions(h), "Recovery"))
           c2 == Closing("GenEnded", EndAll(OpenGens(h), "Interrupted"))
           c3 == Closing("ToolOutcome", Outcomes(h, tools))
           c4 == Closing("TurnEnded", EndAll(OpenTurns(h), "Interrupted"))
           c5 == Closing("RunEnd", RunEnds(h, r))
           T == ToSet(c1) \cup ToSet(c2) \cup ToSet(c3) \cup ToSet(c4) \cup ToSet(c5)
<1>1. c1 \in Seq(ToSet(c1)) /\ \A e \in ToSet(c1) : ClosingOK(h, e)
  BY ClosesRight DEF EndAll, OpenInteractions, ClosingKinds
<1>2. c2 \in Seq(ToSet(c2)) /\ \A e \in ToSet(c2) : ClosingOK(h, e)
  BY ClosesRight DEF EndAll, OpenGens, ClosingKinds
<1>3. c3 \in Seq(ToSet(c3)) /\ \A e \in ToSet(c3) : ClosingOK(h, e)
  BY ClosesRight DEF Outcomes, Settleable, OpenTools, ClosingKinds
<1>4. c4 \in Seq(ToSet(c4)) /\ \A e \in ToSet(c4) : ClosingOK(h, e)
  BY ClosesRight DEF EndAll, OpenTurns, ClosingKinds
<1>5. c5 \in Seq(ToSet(c5)) /\ \A e \in ToSet(c5) : ClosingOK(h, e)
  BY ClosesRight DEF RunEnds, OpenRuns, ClosingKinds
<1>6. Settlement(h, r, tools) = c1 \o c2 \o c3 \o c4 \o c5 BY DEF Settlement
<1> HIDE DEF c1, c2, c3, c4, c5
<1>7. c1 \in Seq(T) /\ c2 \in Seq(T) /\ c3 \in Seq(T) /\ c4 \in Seq(T) /\ c5 \in Seq(T)
  BY <1>1, <1>2, <1>3, <1>4, <1>5
<1>8. \A e \in T : ClosingOK(h, e) BY <1>1, <1>2, <1>3, <1>4, <1>5
<1> HIDE DEF T
<1>9. c1 \o c2 \o c3 \o c4 \o c5 \in Seq(T) BY <1>7
<1>10. ToSet(c1 \o c2 \o c3 \o c4 \o c5) \subseteq T BY <1>9, Within
<1> QED BY <1>6, <1>8, <1>9, <1>10

-----------------------------------------------------------------------------
(* The runs of the inputs, when no run is added.                           *)
LEMMA StaysSingle ==
  ASSUME Filed, Single, NEW S, Grown(S), \A e \in S : e.kind # "RunStarted", replies' = replies
  PROVE  Single'
BY DEF Single, RunOK, Grown, Written

(* The session still knows its inputs when no input is added.              *)
LEMMA StaysCaught ==
  ASSUME Filed, Caught, NEW T, NEW es \in Seq(T), Succeed(es) \/ Fault(es),
         \A e \in ToSet(es) : e.kind # "InputAccepted",
         requests' = requests, loaded' = loaded
  PROVE  Caught'
<1>1. CASE Succeed(es) BY <1>1 DEF Succeed, Commit, Caught, Accepted
<1>2. CASE Fault(es) BY <1>2 DEF Fault, Break, Caught, journal
<1> QED BY <1>1, <1>2

-----------------------------------------------------------------------------
(* One lemma per action.  First what the steps of the task have in common. *)
LEMMA Moves ==
  ASSUME RunInv, Placed', Caught', Forward, NEW S, Grown(S),
         \A e \in S : EntryOK(e) /\ OutcomeOK(e)' /\ e.kind # "RunStarted",
         runs' = runs, answered' = answered, effects' = effects, replies' = replies,
         step' = "run" => (Entry("ToolIntent", at, <<Tool(at)>>) \in log)',
         step' = "result" /\ at' \in answered => result' = "Completed"
  PROVE  RunInv'
<1>1. runs' \in Nat /\ runs <= runs' BY DEF RunInv, Placed
<1>2. \A e \in S : EntryOK(e)' BY DEF EntryOK
<1>3. Filed' /\ Asked' /\ Ran' BY <1>1, <1>2, Carry DEF RunInv
<1>4. Single' BY StaysSingle DEF RunInv
<1> QED BY <1>3, <1>4 DEF RunInv

(* A step of the task that appends es, or fails to.                        *)
LEMMA Drives ==
  ASSUME RunInv, Placed', Forward, NEW T, NEW es \in Seq(T), Succeed(es) \/ Fault(es),
         \A e \in T : /\ EntryOK(e) /\ OutcomeOK(e)'
                      /\ e.kind \notin {"RunStarted", "InputAccepted"},
         runs' = runs, answered' = answered, effects' = effects, replies' = replies,
         requests' = requests, loaded' = loaded,
         step' = "run" => (Entry("ToolIntent", at, <<Tool(at)>>) \in log)',
         step' = "result" /\ at' \in answered => result' = "Completed"
  PROVE  RunInv'
<1>1. Grown(ToSet(es)) BY Appends DEF RunInv
<1>2. ToSet(es) \subseteq T BY Within
<1>3. Caught' BY <1>2, StaysCaught DEF RunInv
<1> QED BY <1>1, <1>2, <1>3, Moves

(* A step that appends nothing.                                            *)
LEMMA Stays ==
  ASSUME RunInv, Placed', Forward, UNCHANGED journal,
         runs' = runs, answered' = answered, effects' = effects, replies' = replies,
         requests' = requests, loaded' = loaded,
         step' = "run" => (Entry("ToolIntent", at, <<Tool(at)>>) \in log)',
         step' = "result" /\ at' \in answered => result' = "Completed"
  PROVE  RunInv'
<1>1. Grown({}) BY DEF RunInv, Filed, Grown, Written, journal
<1>2. Caught' BY DEF RunInv, Caught, Accepted, journal
<1> QED BY <1>1, <1>2, Moves

(* The entries that the task makes are of the turn or call it is at.       *)
LEMMA Here ==
  ASSUME RunInv, active # 0, NEW kind, NEW words
  PROVE  EntryOK(Entry(kind, at, words))
BY DEF RunInv, Placed, EntryOK, Entry

(* Record makes a message and an end of the generation.                    *)
LEMMA RecordsTwo ==
  ASSUME NEW res, NEW words
  PROVE  Record(res, words)
           \in Seq({Entry("Message", at, words), Entry("GenEnded", at, <<Durable(res)>>)})
<1> DEFINE m == Entry("Message", at, words)
           e == Entry("GenEnded", at, <<Durable(res)>>)
<1>1. <<>> \in Seq({m, e}) /\ <<m>> \in Seq({m, e}) /\ <<e>> \in Seq({m, e}) OBVIOUS
<1>2. \E s \in Seq({m, e}) : Record(res, words) = s \o <<e>> BY <1>1 DEF Record
<1> HIDE DEF m, e
<1>3. \A s \in Seq({m, e}) : s \o <<e>> \in Seq({m, e}) BY <1>1
<1> QED BY <1>2, <1>3 DEF m, e

(* The message and end of a generation are of the turn the task is at.     *)
LEMMA EndGenerationKeeps == ASSUME RunInv, EndGeneration PROVE RunInv'
<1>1. PICK reply \in Replies :
        LET es == Record(reply[1], reply[2]) IN
        \/ /\ Succeed(es)
           /\ IF reply[1] = "Completed" /\ Len(reply[2]) > 1
                THEN GoTo("call", <<at[1], at[2], 1>>, "none")
                ELSE GoTo("turn", at, reply[1])
        \/ Fault(es) /\ GiveUp
  BY DEF EndGeneration
<1> DEFINE es == Record(reply[1], reply[2])
           T == {Entry("Message", at, reply[2]), Entry("GenEnded", at, <<Durable(reply[1])>>)}
<1>2. es \in Seq(T) BY RecordsTwo
<1>3. Succeed(es) \/ Fault(es) BY <1>1
<1>4. active # 0 /\ at[3] = 0 /\ step = "generate"
  BY DEF EndGeneration, RunInv, Placed, Conversation
<1>5. active' = active /\ runs' = runs /\ loaded' = loaded /\ requests' = requests
      /\ question' = question /\ answered' = answered /\ effects' = effects /\ replies' = replies
  BY DEF EndGeneration, ghost
<1>6. \/ step' = "call" /\ at' = <<at[1], at[2], 1>>
      \/ step' \in {"turn", "leave"} /\ at' = at
  BY <1>1 DEF GoTo, GiveUp
<1>7. Placed' BY <1>4, <1>5, <1>6 DEF RunInv, Placed, Ids
<1>8. Forward BY <1>4, <1>5, <1>6 DEF RunInv, Placed, Ids, Forward, Past, Touched, Done, Begun
<1>9. \A e \in T : EntryOK(e) /\ e.kind \in {"Message", "GenEnded"} BY <1>4, Here DEF Entry
<1> HIDE DEF es, T
<1>10. \A e \in T : OutcomeOK(e)' BY <1>9 DEF OutcomeOK
<1> QED BY <1>2, <1>3, <1>5, <1>6, <1>7, <1>8, <1>9, <1>10, Drives

(* The same of the helper generation of a WebFetch.                        *)
LEMMA EndExtractionKeeps == ASSUME RunInv, EndExtraction PROVE RunInv'
<1>1. PICK res, words :
        LET es == Record(res, words) IN
        \/ Succeed(es) /\ \E told : GoTo("result", at, told)
        \/ Fault(es) /\ GiveUp
  BY DEF EndExtraction
<1> DEFINE es == Record(res, words)
           T == {Entry("Message", at, words), Entry("GenEnded", at, <<Durable(res)>>)}
<1>2. es \in Seq(T) BY RecordsTwo
<1>3. Succeed(es) \/ Fault(es) BY <1>1
<1>4. active # 0 /\ step = "generate" BY DEF EndExtraction, RunInv, Placed
<1>5. active' = active /\ runs' = runs /\ loaded' = loaded /\ requests' = requests
      /\ question' = question /\ answered' = answered /\ effects' = effects /\ replies' = replies
  BY DEF EndExtraction, ghost, session
<1>6. step' \in {"result", "leave"} /\ at' = at BY <1>1 DEF GoTo, GiveUp
<1>7. Placed' BY <1>4, <1>5, <1>6 DEF RunInv, Placed, Ids
<1>8. Forward BY <1>4, <1>5, <1>6 DEF RunInv, Placed, Ids, Forward, Past, Touched, Done, Begun
<1>9. \A e \in T : EntryOK(e) /\ e.kind \in {"Message", "GenEnded"} BY <1>4, Here DEF Entry
<1>10. at \notin answered BY <1>4, <1>5 DEF RunInv, Placed, Ids, Asked, Touched, Done, Begun
<1> HIDE DEF es, T
<1>11. \A e \in T : OutcomeOK(e)' BY <1>9 DEF OutcomeOK
<1> QED BY <1>2, <1>3, <1>5, <1>6, <1>7, <1>8, <1>9, <1>10, <1>11, Drives

(* What the task does with one entry e that closes no call.                *)
LEMMA DrivesOne ==
  ASSUME RunInv, active # 0, Placed', Forward, NEW kind, NEW words,
         Succeed(<<Entry(kind, at, words)>>) \/ Fault(<<Entry(kind, at, words)>>),
         kind \notin {"RunStarted", "InputAccepted", "ToolOutcome"},
         runs' = runs, answered' = answered, effects' = effects, replies' = replies,
         requests' = requests, loaded' = loaded,
         step' = "run" => (Entry("ToolIntent", at, <<Tool(at)>>) \in log)',
         step' = "result" /\ at' \in answered => result' = "Completed"
  PROVE  RunInv'
<1> DEFINE e == Entry(kind, at, words)
<1>1. EntryOK(e) BY Here
<1>2. e.kind = kind BY DEF Entry
<1>3. \A x \in {e} : OutcomeOK(x)' BY <1>2 DEF OutcomeOK
<1> HIDE DEF e
<1> DEFINE T == {e}
           es == <<e>>
<1>4. es \in Seq(T) OBVIOUS
<1>5. Succeed(es) \/ Fault(es) BY DEF e
<1>6. \A x \in T : /\ EntryOK(x) /\ OutcomeOK(x)'
                   /\ x.kind \notin {"RunStarted", "InputAccepted"}
  BY <1>1, <1>2, <1>3
<1> HIDE DEF T, es
<1> QED BY <1>4, <1>5, <1>6, Drives

(* Nothing was answered of a call before it waits.                         *)
LEMMA NotAnswered ==
  ASSUME RunInv, active # 0, step \in {"generate", "call", "run", "ask"},
         step = "ask" => question = "pending"
  PROVE  at \notin answered
BY DEF RunInv, Placed, Ids, Asked, Touched, Done, Begun

(* An entry that is no message leaves what the calls ask for.              *)
LEMMA SameTool ==
  ASSUME NEW S, log' = log \cup S, \A e \in S : e.kind # "Message"
  PROVE  \A x : Tool(x)' = Tool(x)
BY Words1 DEF Tool

(* Only a call that was not begun gets an intent.                          *)
LEMMA CommitIntentKeeps == ASSUME RunInv, CommitIntent PROVE RunInv'
<1> DEFINE e == Entry("ToolIntent", at, <<Tool(at)>>)
<1>1. active # 0 /\ step = "call" BY DEF CommitIntent, RunInv, Placed
<1>2. Succeed(<<e>>) \/ Fault(<<e>>) BY DEF CommitIntent
<1>3. active' = active /\ runs' = runs /\ loaded' = loaded /\ requests' = requests
      /\ question' = question /\ answered' = answered /\ effects' = effects /\ replies' = replies
  BY DEF CommitIntent, ghost, session
<1>4. step' \in {"result", "run", "leave"} /\ at' = at BY DEF CommitIntent, GoTo, GiveUp
<1>5. Placed' BY <1>1, <1>3, <1>4 DEF RunInv, Placed, Ids
<1>6. Forward BY <1>1, <1>3, <1>4 DEF RunInv, Placed, Ids, Forward, Past, Touched, Done, Begun
<1>7. at \notin answered BY <1>1, NotAnswered
<1>8. ASSUME step' = "run" PROVE (Entry("ToolIntent", at, <<Tool(at)>>) \in log)'
  <2>1. Succeed(<<e>>) BY <1>8 DEF CommitIntent, GoTo, GiveUp
  <2>2. log' = log \cup {e} BY <2>1, One DEF Succeed, Commit
  <2>3. \A f \in {e} : f.kind # "Message" BY DEF Entry
  <2>4. \A x : Tool(x)' = Tool(x)
    <3> DEFINE S == {e}
    <3>1. log' = log \cup S /\ \A f \in S : f.kind # "Message" BY <2>2, <2>3
    <3> HIDE DEF S
    <3> QED BY <3>1, SameTool
  <2>5. Tool(at)' = Tool(at) BY <1>4, <2>4 DEF Tool
  <2> QED BY <1>4, <2>2, <2>5
<1> QED BY <1>1, <1>2, <1>3, <1>4, <1>5, <1>6, <1>7, <1>8, DrivesOne

(* A refused or local call has neither an effect nor an answer yet.        *)
LEMMA RefuseKeeps == ASSUME RunInv, Refuse \/ RunLocal PROVE RunInv'
<1>1. active # 0 /\ step = "run" BY DEF Refuse, RunLocal, RunInv, Placed
<1>2. active' = active /\ runs' = runs /\ loaded' = loaded /\ requests' = requests
      /\ question' = question /\ answered' = answered /\ effects' = effects /\ replies' = replies
      /\ UNCHANGED journal
  BY DEF Refuse, RunLocal, ghost, session
<1>3. step' = "result" /\ at' = at BY DEF Refuse, RunLocal, GoTo
<1>4. Placed' BY <1>1, <1>2, <1>3 DEF RunInv, Placed, Ids
<1>5. Forward BY <1>1, <1>2, <1>3 DEF RunInv, Placed, Ids, Forward, Past, Touched, Done, Begun
<1>6. at \notin answered BY <1>1, NotAnswered
<1> QED BY <1>2, <1>3, <1>4, <1>5, <1>6, Stays

(* The command runs while its intent is on record and before any other.    *)
LEMMA RunBashKeeps == ASSUME RunInv, RunBash PROVE RunInv'
<1>1. active # 0 /\ step = "run" /\ Tool(at) = "Bash" BY DEF RunBash, RunInv, Placed
<1>2. active' = active /\ runs' = runs /\ loaded' = loaded /\ requests' = requests
      /\ question' = question /\ answered' = answered /\ replies' = replies
      /\ UNCHANGED journal
  BY DEF RunBash, session
<1>3. step' \in {"result", "leave"} /\ at' = at BY DEF RunBash, GoTo, GiveUp
<1>4. Placed' BY <1>1, <1>2, <1>3 DEF RunInv, Placed, Ids
<1>5. Forward BY <1>1, <1>2, <1>3 DEF RunInv, Placed, Ids, Forward, Past, Touched, Done, Begun
<1>6. at \notin answered BY <1>1, NotAnswered
<1>7. Filed' /\ Asked'
  BY <1>1, <1>2, <1>3, <1>5, <1>6 DEF RunInv, Filed, Asked, Written, EntryOK, OutcomeOK,
              Forward, journal, Has, Places
<1>8. Caught' /\ Single' BY <1>2 DEF RunInv, Caught, Single, RunOK, Accepted, journal, Written
<1>9. Ran'
  <2> DEFINE new == [effects EXCEPT ![at] = @ + 1]
  <2>1. effects' = new BY DEF RunBash
  <2>2. effects \in [CallIds -> Nat] BY DEF RunInv, Ran
  <2>3. \A x \in CallIds : new[x] = IF x = at THEN effects[x] + 1 ELSE effects[x] BY <2>2
  <2>4. new = [x \in CallIds |-> new[x]] BY <2>2
  <2> HIDE DEF new
  <2>5. \A x \in CallIds : effects[x] \in Nat BY <2>2
  <2>6. \A x \in CallIds : new[x] \in Nat BY <2>3, <2>5
  <2>7. effects' \in [CallIds -> Nat]
        /\ \A x \in CallIds : effects'[x] = IF x = at THEN effects[x] + 1 ELSE effects[x]
    BY <2>1, <2>3, <2>4, <2>6
  <2>8. at \in CallIds => effects[at] = 0
    BY <1>1 DEF RunInv, Placed, Ids, Ran, Touched, Done, Begun
  <2>9. Entry("ToolIntent", at, <<"Bash">>) \in log' BY <1>1, <1>2 DEF RunInv, Ran, journal
  <2>10. ASSUME NEW x \in CallIds, effects'[x] # 0
         PROVE  /\ effects'[x] = 1 /\ x[1] <= runs' /\ Touched(x)'
                /\ Entry("ToolIntent", x, <<"Bash">>) \in log'
    <3>1. CASE x = at
      <4>1. Touched(x)' BY <1>3, <3>1 DEF Touched, Begun, Done
      <4> QED BY <1>1, <1>2, <2>7, <2>8, <2>9, <2>10, <3>1, <4>1 DEF RunInv, Ran, Placed
    <3>2. CASE x # at
      <4>1. effects[x] # 0 /\ effects'[x] = effects[x] BY <2>7, <2>10, <3>2 DEF RunInv, Ran
      <4>2. x \in Ids BY RunBounds, MaxCallsAssumption DEF CallIds, RunIds, Ids
      <4> QED BY <1>2, <1>5, <4>1, <4>2 DEF RunInv, Ran, Forward, journal
    <3> QED BY <3>1, <3>2
  <2> QED BY <1>3, <2>7, <2>10 DEF Ran
<1> QED BY <1>4, <1>7, <1>8, <1>9 DEF RunInv

(* The start of a helper generation closes nothing.                        *)
LEMMA BeginExtractionKeeps == ASSUME RunInv, BeginExtraction PROVE RunInv'
<1>1. active # 0 /\ step = "run" BY DEF BeginExtraction, RunInv, Placed
<1>2. Succeed(<<Entry("GenStarted", at, <<>>)>>) \/ Fault(<<Entry("GenStarted", at, <<>>)>>)
  BY DEF BeginExtraction
<1>3. active' = active /\ runs' = runs /\ loaded' = loaded /\ requests' = requests
      /\ question' = question /\ answered' = answered /\ effects' = effects /\ replies' = replies
  BY DEF BeginExtraction, ghost, session
<1>4. step' \in {"generate", "leave"} /\ at' = at BY DEF BeginExtraction, GoTo, GiveUp
<1>5. Placed' BY <1>1, <1>3, <1>4 DEF RunInv, Placed, Ids
<1>6. Forward BY <1>1, <1>3, <1>4 DEF RunInv, Placed, Ids, Forward, Past, Touched, Done, Begun
<1> QED BY <1>1, <1>2, <1>3, <1>4, <1>5, <1>6, DrivesOne

(* A question is opened, or its opening fails.                             *)
LEMMA AskKeeps == ASSUME RunInv, Ask PROVE RunInv'
<1> DEFINE es == <<Entry("InteractionOpened", at, <<>>)>>
<1>1. active # 0 /\ step = "run" BY DEF Ask, RunInv, Placed
<1>2. active' = active /\ runs' = runs /\ loaded' = loaded /\ requests' = requests
      /\ answered' = answered /\ effects' = effects /\ replies' = replies
  BY DEF Ask, ghost, session
<1>3. \/ step' \in {"result", "leave"}
      \/ step' = "ask" /\ question' = "pending"
  BY DEF Ask, GoTo, GiveUp
<1>4. at' = at BY DEF Ask, GoTo, GiveUp
<1>5. Placed' BY <1>1, <1>2, <1>3, <1>4 DEF RunInv, Placed, Ids
<1>6. Forward
  BY <1>1, <1>2, <1>3, <1>4 DEF RunInv, Placed, Ids, Forward, Past, Touched, Done, Begun
<1>7. at \notin answered BY <1>1, NotAnswered
<1>8. CASE Succeed(es) \/ Fault(es) BY <1>1, <1>2, <1>3, <1>4, <1>5, <1>6, <1>7, <1>8, DrivesOne
<1>9. CASE UNCHANGED journal BY <1>2, <1>3, <1>4, <1>5, <1>6, <1>7, <1>9, Stays
<1> QED BY <1>8, <1>9 DEF Ask

(* The task sees the answer that Respond recorded.                         *)
LEMMA AnsweredKeeps == ASSUME RunInv, Answered PROVE RunInv'
<1>1. active # 0 /\ step = "ask" BY DEF Answered, RunInv, Placed
<1>2. active' = active /\ runs' = runs /\ loaded' = loaded /\ requests' = requests
      /\ answered' = answered /\ effects' = effects /\ replies' = replies /\ UNCHANGED journal
  BY DEF Answered, ghost, session
<1>3. step' = "result" /\ at' = at /\ result' = "Completed" BY DEF Answered, GoTo
<1>4. Placed' BY <1>1, <1>2, <1>3 DEF RunInv, Placed, Ids
<1>5. Forward BY <1>1, <1>2, <1>3 DEF RunInv, Placed, Ids, Forward, Past, Touched, Done, Begun
<1> QED BY <1>2, <1>3, <1>4, <1>5, Stays

(* A question expires only while it has no answer.                         *)
LEMMA ExpireKeeps == ASSUME RunInv, Expire PROVE RunInv'
<1> DEFINE es == <<Entry("InteractionExpired", at, <<"Stopped">>)>>
<1>1. active # 0 /\ step = "ask" /\ question = "pending" BY DEF Expire, RunInv, Placed
<1>2. Succeed(es) \/ Fault(es) BY DEF Expire
<1>3. active' = active /\ runs' = runs /\ loaded' = loaded /\ requests' = requests
      /\ answered' = answered /\ effects' = effects /\ replies' = replies
  BY DEF Expire, ghost, session
<1>4. step' \in {"result", "leave"} /\ at' = at BY DEF Expire, GoTo, GiveUp
<1>5. Placed' BY <1>1, <1>3, <1>4 DEF RunInv, Placed, Ids
<1>6. Forward BY <1>1, <1>3, <1>4 DEF RunInv, Placed, Ids, Forward, Past, Touched, Done, Begun
<1>7. at \notin answered BY <1>1, NotAnswered
<1> QED BY <1>1, <1>2, <1>3, <1>4, <1>5, <1>6, <1>7, DrivesOne

(* The answer is acknowledged while nothing else was recorded of the call. *)
LEMMA RespondKeeps == ASSUME RunInv, Respond PROVE RunInv'
<1> DEFINE e == Entry("InteractionResolved", at, <<>>)
<1>1. active # 0 /\ step = "ask" /\ question = "pending" BY DEF Respond, RunInv, Placed
<1>2. active' = active /\ runs' = runs /\ loaded' = loaded /\ requests' = requests
      /\ effects' = effects /\ replies' = replies /\ step' = step /\ at' = at
  BY DEF Respond, session
<1>3. Placed' BY <1>1, <1>2 DEF RunInv, Placed, Ids
<1>4. CASE Fault(<<e>>) /\ UNCHANGED <<question, answered>>
  <2>1. Forward BY <1>1, <1>2, <1>4 DEF Forward, Past, Touched, Done, Begun
  <2> QED BY <1>1, <1>2, <1>3, <1>4, <2>1, DrivesOne
<1>5. CASE Succeed(<<e>>) /\ question' = "resolved" /\ answered' = answered \cup {at}
  <2>1. Forward BY <1>1, <1>2, <1>5 DEF Forward, Past, Touched, Done, Begun
  <2>2. log' = log \cup {e} /\ doubt' = {} BY <1>5, One DEF Succeed, Commit
  <2>3. e.kind = "InteractionResolved" /\ e.id = at BY DEF Entry
  <2>4. EntryOK(e) BY <1>1, Here
  <2>5. e \in log' /\ log \subseteq log' /\ \A f \in log' \cup doubt' : f \in Written \/ f = e
    BY <2>2 DEF Written
  <2>6. Filed'
    <3>1. IsFiniteSet(log') /\ IsFiniteSet(doubt')
      BY <2>2, FS_AddElement, FS_EmptySet DEF RunInv, Filed
    <3>2. \A f \in log' \cup doubt' : EntryOK(f) BY <2>4, <2>5 DEF RunInv, Filed
    <3> QED BY <1>2, <3>1, <3>2 DEF Filed, Written, EntryOK
  <2>7. \A x \in answered : Has(log, "InteractionResolved", x)' BY <2>5 DEF RunInv, Asked, Has, Places
  <2>8. \A x : x = at => Has(log, "InteractionResolved", x)' BY <2>3, <2>5 DEF Has, Places
  <2>9. \A f \in Written : f.kind = "ToolOutcome" => f.id # at
    BY <1>1 DEF RunInv, Placed, Asked, OutcomeOK, Past, Done, Ids
  <2>10. \A f \in Written : f.kind = "ToolOutcome" =>
           (Past(f.id))' /\ (f.id \in answered' => f.words = <<"Completed">>)
    BY <1>5, <2>1, <2>9 DEF RunInv, Asked, OutcomeOK, Forward, Filed, EntryOK
  <2>11. \A x \in answered' : x \in Ids /\ x[1] <= runs' /\ Touched(x)'
    BY <1>1, <1>2, <1>5, <2>1 DEF RunInv, Placed, Asked, Forward, Touched, Begun
  <2>12. Asked'
    BY <1>1, <1>2, <1>5, <2>3, <2>5, <2>7, <2>8, <2>10, <2>11 DEF Asked, OutcomeOK, Written
  <2>13. Ran'
    <3>1. \A x \in CallIds : x \in Ids BY RunBounds, MaxCallsAssumption DEF CallIds, RunIds, Ids
    <3> QED BY <1>1, <1>2, <2>1, <2>5, <3>1 DEF RunInv, Ran, Forward
  <2>14. Caught' BY <1>2, <1>5, <2>2, <2>3 DEF RunInv, Caught, Accepted, Succeed
  <2>15. Single' BY <1>2, <2>3, <2>5 DEF RunInv, Single, RunOK, Written
  <2> QED BY <1>3, <2>6, <2>12, <2>13, <2>14, <2>15 DEF RunInv
<1> QED BY <1>4, <1>5 DEF Respond

(* The outcome of an answered call is Completed.                           *)
LEMMA CommitResultKeeps == ASSUME RunInv, CommitResult PROVE RunInv'
<1> DEFINE e == Entry("ToolOutcome", at, <<result>>)
<1>1. active # 0 /\ step = "result" BY DEF CommitResult, RunInv, Placed
<1>2. Succeed(<<e>>) \/ Fault(<<e>>) BY DEF CommitResult
<1>3. active' = active /\ runs' = runs /\ loaded' = loaded /\ requests' = requests
      /\ question' = question /\ answered' = answered /\ effects' = effects /\ replies' = replies
  BY DEF CommitResult, ghost
<1>4. \/ step' = "call" /\ at' = <<at[1], at[2], at[3] + 1>>
      \/ step' = "turn" /\ at' = <<at[1], at[2], 0>>
      \/ step' = "leave" /\ at' = at
  BY DEF CommitResult, GoTo, GiveUp, TurnOf
<1>5. Placed' BY <1>1, <1>3, <1>4 DEF RunInv, Placed, Ids
<1>6. Forward BY <1>1, <1>3, <1>4 DEF RunInv, Placed, Ids, Forward, Past, Touched, Done, Begun
<1>7. EntryOK(e) /\ e.kind = "ToolOutcome" /\ e.id = at /\ e.words = <<result>>
  BY <1>1, Here DEF Entry
<1>8. \A x : x = at => Past(x)'
  BY <1>1, <1>3, <1>4 DEF RunInv, Placed, Ids, Past, Done
<1>9. at \in answered => result = "Completed" BY <1>1 DEF RunInv, Asked
<1>10. \A f \in {e} : OutcomeOK(f)' BY <1>3, <1>7, <1>8, <1>9 DEF OutcomeOK
<1> DEFINE T == {e}
           es == <<e>>
<1> HIDE DEF e
<1>11. es \in Seq(T) OBVIOUS
<1>12. \A f \in T : /\ EntryOK(f) /\ OutcomeOK(f)'
                    /\ f.kind \notin {"RunStarted", "InputAccepted"}
  BY <1>7, <1>10
<1>13. Succeed(es) \/ Fault(es) BY <1>2
<1> HIDE DEF T, es
<1> QED BY <1>3, <1>4, <1>5, <1>6, <1>11, <1>12, <1>13, Drives

(* The end of a turn concerns no call.                                     *)
LEMMA EndTurnKeeps == ASSUME RunInv, EndTurn PROVE RunInv'
<1>1. PICK status \in {Verdict, "Failed"}, context \in ContextChange(TRUE) \cup {<<>>} :
        LET es == context \o <<Entry("TurnEnded", at, <<Durable(status)>>)>> IN
        \/ Succeed(es) /\ step' \in {"next", "end"} /\ at' = at
        \/ Fault(es) /\ GiveUp
  BY DEF EndTurn, GoTo
<1> DEFINE s == Entry("SystemContext", NoId, <<>>)
           e == Entry("TurnEnded", at, <<Durable(status)>>)
           T == {s, e}
           es == context \o <<e>>
<1>2. active # 0 /\ step = "turn" BY DEF EndTurn, RunInv, Placed
<1>3. active' = active /\ runs' = runs /\ loaded' = loaded /\ requests' = requests
      /\ question' = question /\ answered' = answered /\ effects' = effects /\ replies' = replies
  BY DEF EndTurn, ghost, session
<1>4. step' \in {"next", "end", "leave"} /\ at' = at BY <1>1 DEF GoTo, GiveUp
<1>5. Placed' BY <1>2, <1>3, <1>4 DEF RunInv, Placed, Ids
<1>6. Forward BY <1>2, <1>3, <1>4 DEF RunInv, Placed, Ids, Forward, Past, Touched, Done, Begun
<1>7. EntryOK(s) /\ EntryOK(e) /\ s.kind = "SystemContext" /\ e.kind = "TurnEnded"
  BY <1>2, Here DEF EntryOK, Entry, NoId, Ids, RunInv, Placed
<1>8. context \in {<<s>>, <<>>} BY DEF ContextChange
<1>9. Succeed(es) \/ Fault(es) BY <1>1
<1> HIDE DEF s, e
<1>10. <<>> \in Seq(T) /\ <<s>> \in Seq(T) /\ <<e>> \in Seq(T) OBVIOUS
<1>11. es \in Seq(T)
  <2>1. context \in Seq(T) BY <1>8, <1>10
  <2> HIDE DEF T
  <2> QED BY <1>10, <2>1
<1>12. \A f \in T : /\ EntryOK(f) /\ OutcomeOK(f)'
                    /\ f.kind \notin {"RunStarted", "InputAccepted"}
  BY <1>7 DEF OutcomeOK
<1> HIDE DEF T, es
<1> QED BY <1>3, <1>4, <1>5, <1>6, <1>9, <1>11, <1>12, Drives

(* The next turn lies behind every call so far.                            *)
LEMMA NextTurnKeeps == ASSUME RunInv, NextTurn PROVE RunInv'
<1> DEFINE turn == <<at[1], at[2] + 1, 0>>
           e == Entry("TurnStarted", turn, <<>>)
           f == Entry("GenStarted", turn, <<>>)
           T == {e, f}
           es == <<e, f>>
<1>1. active # 0 /\ step = "next" BY DEF NextTurn, RunInv, Placed
<1>2. Succeed(es) \/ Fault(es) BY DEF NextTurn
<1>3. active' = active /\ runs' = runs /\ loaded' = loaded /\ requests' = requests
      /\ question' = question /\ answered' = answered /\ effects' = effects /\ replies' = replies
  BY DEF NextTurn, ghost, session
<1>4. \/ step' = "generate" /\ at' = turn
      \/ step' = "leave" /\ at' = at
  BY DEF NextTurn, GoTo, GiveUp
<1>5. Placed' BY <1>1, <1>3, <1>4 DEF RunInv, Placed, Ids
<1>6. Forward BY <1>1, <1>3, <1>4 DEF RunInv, Placed, Ids, Forward, Past, Touched, Done, Begun
<1>7. turn \in Ids /\ turn[1] <= runs BY <1>1 DEF RunInv, Placed, Ids
<1>8. EntryOK(e) /\ EntryOK(f) /\ e.kind = "TurnStarted" /\ f.kind = "GenStarted"
  BY <1>7 DEF EntryOK, Entry
<1> HIDE DEF e, f
<1>9. es \in Seq(T) OBVIOUS
<1>10. \A x \in T : /\ EntryOK(x) /\ OutcomeOK(x)'
                    /\ x.kind \notin {"RunStarted", "InputAccepted"}
  BY <1>8 DEF OutcomeOK
<1> HIDE DEF T, es
<1> QED BY <1>2, <1>3, <1>4, <1>5, <1>6, <1>9, <1>10, Drives

(* The end of a run concerns no call.                                      *)
LEMMA EndRunKeeps == ASSUME RunInv, EndRun PROVE RunInv'
<1> DEFINE e == Entry("RunEnd", RunOf(at), <<Durable(result)>>)
           T == {e}
           es == <<e>>
<1>1. active # 0 /\ step = "end" BY DEF EndRun, RunInv, Placed
<1>2. Succeed(es) \/ Fault(es) BY DEF EndRun
<1>3. active' = active /\ runs' = runs /\ loaded' = loaded /\ requests' = requests
      /\ question' = question /\ answered' = answered /\ effects' = effects /\ replies' = replies
  BY DEF EndRun, ghost, session
<1>4. step' = "leave" /\ at' = at BY DEF EndRun, GoTo, GiveUp
<1>5. Placed' BY <1>1, <1>3, <1>4 DEF RunInv, Placed, Ids
<1>6. Forward BY <1>1, <1>3, <1>4 DEF RunInv, Placed, Ids, Forward, Past, Touched, Done, Begun
<1>7. RunOf(at) \in Ids /\ RunOf(at)[1] <= runs BY <1>1 DEF RunOf, RunInv, Placed, Ids
<1>8. EntryOK(e) /\ e.kind = "RunEnd" BY <1>7 DEF EntryOK, Entry
<1> HIDE DEF e
<1>9. es \in Seq(T) OBVIOUS
<1>10. \A x \in T : /\ EntryOK(x) /\ OutcomeOK(x)'
                    /\ x.kind \notin {"RunStarted", "InputAccepted"}
  BY <1>8 DEF OutcomeOK
<1> HIDE DEF T, es
<1> QED BY <1>2, <1>3, <1>4, <1>5, <1>6, <1>9, <1>10, Drives

(* A run that is left has no call behind which anything could come.        *)
LEMMA LeaveKeeps == ASSUME RunInv, Leave PROVE RunInv'
<1>1. active' = 0 /\ step' = "idle" /\ at' = NoId BY DEF Leave, GoTo
<1>2. runs' = runs /\ loaded' = loaded /\ requests' = requests /\ answered' = answered
      /\ effects' = effects /\ replies' = replies /\ UNCHANGED journal
  BY DEF Leave, ghost
<1>3. Placed' BY <1>1, <1>2 DEF RunInv, Placed, Ids, NoId
<1>4. Forward BY <1>1 DEF Forward, Past, Touched, Done, Begun
<1> QED BY <1>1, <1>2, <1>3, <1>4, Stays

-----------------------------------------------------------------------------
(* Clients, failures and loads.                                            *)
LEMMA InterruptKeeps == ASSUME RunInv, Interrupt PROVE RunInv'
<1>1. active' = active /\ step' = step /\ at' = at /\ question' = question /\ result' = result
      /\ runs' = runs /\ loaded' = loaded /\ requests' = requests
      /\ answered' = answered /\ effects' = effects /\ replies' = replies /\ UNCHANGED journal
  BY DEF Interrupt, ghost, session
<1>2. Placed' BY <1>1 DEF RunInv, Placed
<1>3. Forward BY <1>1 DEF Forward, Past, Touched, Done, Begun
<1>4. step' = "run" => (Entry("ToolIntent", at, <<Tool(at)>>) \in log)'
  BY <1>1 DEF RunInv, Ran, Tool, journal
<1>5. step' = "result" /\ at' \in answered => result' = "Completed" BY <1>1 DEF RunInv, Asked
<1> QED BY <1>1, <1>2, <1>3, <1>4, <1>5, Stays

(* A model change whose record fails puts one entry in doubt.              *)
LEMMA ConfigureKeeps == ASSUME RunInv, Configure PROVE RunInv'
<1> DEFINE e == Entry("Meta", NoId, <<>>)
           es == <<e>>
<1>1. active' = active /\ step' = step /\ at' = at /\ question' = question /\ result' = result
      /\ runs' = runs /\ loaded' = loaded /\ requests' = requests
      /\ answered' = answered /\ effects' = effects /\ replies' = replies
  BY DEF Configure, ghost
<1>2. Placed' BY <1>1 DEF RunInv, Placed
<1>3. Forward BY <1>1 DEF Forward, Past, Touched, Done, Begun
<1>4. Break(log, es) /\ loaded BY DEF Configure, CommitMeta
<1>5. log' = log /\ doubt' = {e} /\ check'
  <2>1. PICK n \in 1..Len(es) : log' = log \cup ToSet(SubSeq(es, 1, n - 1)) /\ doubt' = {es[n]}
    BY <1>4 DEF Break
  <2>2. n = 1 /\ n - 1 = 0 /\ es[1] = e BY <2>1
  <2>3. log' = log \cup ToSet(SubSeq(es, 1, 0)) /\ doubt' = {e} BY <2>1, <2>2
  <2>5. SubSeq(es, 1, 0) = <<>> OBVIOUS
  <2>6. log' = log BY <2>3, <2>5, None
  <2>4. check' BY <1>4 DEF Break
  <2> QED BY <2>3, <2>4, <2>6
<1>6. EntryOK(e) /\ e.kind = "Meta" BY DEF RunInv, Placed, EntryOK, Entry, NoId, Ids
<1> HIDE DEF e
<1>7. Grown({e})
  BY <1>5, FS_Singleton DEF Grown, RunInv, Filed, Written
<1>8. \A x \in {e} : EntryOK(x) /\ OutcomeOK(x)' /\ x.kind # "RunStarted" BY <1>6 DEF OutcomeOK
<1>9. Caught' BY <1>5 DEF Caught
<1>10. step' = "run" => (Entry("ToolIntent", at, <<Tool(at)>>) \in log)'
  BY <1>1, <1>5 DEF RunInv, Ran, Tool
<1>11. step' = "result" /\ at' \in answered => result' = "Completed" BY <1>1 DEF RunInv, Asked
<1> DEFINE S == {e}
<1> HIDE DEF S
<1>12. Grown(S) /\ \A x \in S : EntryOK(x) /\ OutcomeOK(x)' /\ x.kind # "RunStarted"
  BY <1>7, <1>8 DEF S
<1> QED BY <1>1, <1>2, <1>3, <1>9, <1>10, <1>11, <1>12, Moves

(* A repeated input is known, and answered with its run.                   *)
LEMMA RetryKeeps == ASSUME RunInv, NEW i \in Inputs, Retry(i) PROVE RunInv'
<1>1. UNCHANGED <<journal, session, drive, runs, effects, answered>> BY DEF Retry
<1>2. Placed' /\ Filed' /\ Asked' /\ Caught'
  BY <1>1 DEF RunInv, Placed, Filed, Asked, Caught, Written, EntryOK, OutcomeOK, Past, Touched,
              Done, Begun, Has, Places, Accepted, journal, session, drive
<1>3. Ran' BY <1>1 DEF RunInv, Ran, Touched, Done, Begun, Tool, journal, drive
<1>4. PICK r \in RunsIn(log) :
        InputOf(log, r) = i /\ replies' = replies \cup {<<i, r>>}
  BY DEF Retry
<1>5. PICK e \in log : e.kind = "RunStarted" /\ e.id[1] = r BY <1>4 DEF RunsIn, Places
<1>6. e.id = <<r, 0, 0>> BY <1>5 DEF RunInv, Single, RunOK, Written
<1>7. PICK f \in log : f.kind = "RunStarted" /\ f.id = <<r, 0, 0>> /\ f.words[1] = i
  <2> DEFINE f == CHOOSE x \in log : x.kind = "RunStarted" /\ x.id = <<r, 0, 0>>
  <2>1. f \in log /\ f.kind = "RunStarted" /\ f.id = <<r, 0, 0>> BY <1>5, <1>6
  <2>2. f.words[1] = i BY <1>4 DEF InputOf, Words
  <2> QED BY <2>1, <2>2
<1>8. Entry("RunStarted", <<r, 0, 0>>, <<i>>) \in log
  BY <1>7 DEF RunInv, Single, RunOK, Filed, EntryOK, Written
<1>9. Single' BY <1>1, <1>4, <1>8 DEF RunInv, Single, RunOK, Written, journal
<1> QED BY <1>2, <1>3, <1>9 DEF RunInv

(* What recovery appends concerns no run, and closes answered calls well.  *)
LEMMA Recovers ==
  ASSUME RunInv, Placed', Caught', active = 0, NEW h, log \subseteq h, h \subseteq Written,
         NEW r, NEW tools,
         Commit(h, Settlement(h, r, tools)) \/ Break(h, Settlement(h, r, tools)),
         UNCHANGED <<drive, runs, ghost>>
  PROVE  RunInv'
<1> DEFINE es == Settlement(h, r, tools)
           S == ToSet(es)
<1>1. IsFiniteSet(h) BY FS_Union, FS_Subset DEF RunInv, Filed, Written
<1>2. PICK T : es \in Seq(T) /\ \A e \in S : ClosingOK(h, e) BY <1>1, Settles DEF RunInv
<1> HIDE DEF es
<1>3. Commit(h, es) \/ Break(h, es) BY DEF es
<1>4. Grown(S) BY <1>1, <1>2, <1>3, Grows
<1>5. step = "idle" /\ step' = "idle" /\ active' = 0 /\ runs' = runs /\ answered' = answered
      /\ effects' = effects /\ replies' = replies
  BY DEF RunInv, Placed, drive, ghost
<1>6. Forward BY <1>5 DEF Forward, Past, Touched, Done, Begun
<1>7. \A x \in answered : Has(h, "InteractionResolved", x) BY DEF RunInv, Asked, Has, Places
<1>8. \A e \in S : EntryOK(e) /\ OutcomeOK(e)' /\ e.kind # "RunStarted"
  BY <1>2, <1>5, <1>7 DEF ClosingOK, ClosingKinds, OutcomeOK, Past, Done
<1> HIDE DEF S
<1> QED BY <1>4, <1>5, <1>6, <1>8, Moves

(* A writer that wants a check settles what a failure left.                *)
LEMMA PrepareKeeps == ASSUME RunInv, Prepare PROVE RunInv'
<1> DEFINE es == Settlement(log, failed, installed)
<1>1. active = 0 /\ loaded /\ UNCHANGED <<drive, runs, ghost>> /\ loaded' = loaded
  BY DEF Prepare, session
<1>2. Commit(log, es) \/ Break(log, es) BY DEF Prepare
<1>3. Placed' BY <1>1 DEF RunInv, Placed, drive
<1>4. Caught'
  <2>1. CASE Commit(log, es) /\ Project(log', view) BY <2>1 DEF Commit, Project, Caught
  <2>2. CASE Break(log, es) BY <1>1, <2>2 DEF Break, Caught
  <2> QED BY <2>1, <2>2 DEF Prepare
<1> HIDE DEF es
<1>5. log \subseteq log /\ log \subseteq Written BY DEF Written
<1> QED BY <1>1, <1>2, <1>3, <1>4, <1>5, Recovers DEF es

(* A load reads the file, with or without the entry in doubt, and settles. *)
LEMMA LoadKeeps == ASSUME RunInv, Load PROVE RunInv'
<1>1. PICK found \in SUBSET doubt, tools \in Installs :
        LET h == log \cup found
            es == Settlement(h, 0, tools)
        IN  \/ Commit(h, es) /\ Project(log', view)
            \/ Break(h, es) /\ UNCHANGED session
  BY DEF Load
<1> DEFINE h == log \cup found
           es == Settlement(h, 0, tools)
<1>2. active = 0 /\ UNCHANGED <<drive, runs, ghost>> BY DEF Load, RunInv, Placed
<1>3. Placed' BY <1>2 DEF RunInv, Placed, drive
<1>4. Caught'
  <2>1. CASE Commit(h, es) /\ Project(log', view) BY <2>1 DEF Commit, Project, Caught
  <2>2. CASE Break(h, es) /\ UNCHANGED session
    BY <2>2 DEF Load, session, Caught
  <2> QED BY <1>1, <2>1, <2>2
<1>5. log \subseteq h /\ h \subseteq Written BY DEF Written
<1>6. Commit(h, es) \/ Break(h, es) BY <1>1
<1> HIDE DEF h
<1> QED BY <1>2, <1>3, <1>4, <1>5, <1>6, Recovers

(* A session that leaves memory leaves the journal alone.                  *)
LEMMA ForgetKeeps == ASSUME RunInv, Forget PROVE RunInv'
<1>1. active' = 0 /\ step' = "idle" /\ at' = NoId /\ ~loaded' BY DEF Forget, GoTo
<1>2. runs' = runs /\ answered' = answered /\ effects' = effects /\ replies' = replies
      /\ log' = log /\ doubt' = doubt
  BY DEF Forget, ghost
<1>3. Placed' BY <1>1, <1>2 DEF RunInv, Placed, Ids, NoId
<1>4. Caught' BY <1>1 DEF Caught
<1>5. Forward BY <1>1 DEF Forward, Past, Touched, Done, Begun
<1>6. Grown({}) BY <1>2 DEF RunInv, Filed, Grown, Written
<1> QED BY <1>1, <1>2, <1>3, <1>4, <1>5, <1>6, Moves

(* A run is started only for an input that no entry names.                 *)
LEMMA Catenated ==
  ASSUME NEW T, NEW p \in Seq(T), NEW q \in Seq(T)
  PROVE  /\ p \o q \in Seq(T) /\ Len(p \o q) = Len(p) + Len(q)
         /\ \A k \in 1..Len(p) : (p \o q)[k] = p[k]
         /\ \A k \in 1..Len(q) : (p \o q)[Len(p) + k] = q[k]
OBVIOUS

(* What precedes an entry that fails is appended before it.                *)
LEMMA InOrder ==
  ASSUME NEW T, NEW es \in Seq(T), NEW n \in 1..Len(es), NEW k \in 1..(n - 1)
  PROVE  es[k] \in ToSet(SubSeq(es, 1, n - 1))
<1>1. SubSeq(es, 1, n - 1)[k] = es[k] /\ k \in DOMAIN SubSeq(es, 1, n - 1) OBVIOUS
<1> QED BY <1>1 DEF ToSet

(* The entries of a start: a run that is in the file, or may be, has its   *)
(* input before it.                                                        *)
LEMMA StartAppends ==
  ASSUME RunInv, NEW i, i \notin requests, loaded, ~check, active = 0,
         runs' = runs + 1, NEW context \in ContextChange(TRUE),
         LET es == context \o RecordStart(runs', i) IN Commit(log, es) \/ Break(log, es)
  PROVE  LET run == Entry("RunStarted", <<runs', 0, 0>>, <<i>>) IN
         /\ Filed'
         /\ \E S : /\ Grown(S)
                   /\ \A e \in S : /\ EntryOK(e)' /\ e.kind # "ToolOutcome"
                                   /\ e.kind = "InputAccepted" => e.words = <<i>>
                                   /\ e.kind = "RunStarted" => e = run
         /\ run \in log' \cup doubt' => Entry("InputAccepted", NoId, <<i>>) \in log'
         /\ Commit(log, context \o RecordStart(runs', i)) => run \in log'
<1> DEFINE s == Entry("SystemContext", NoId, <<>>)
           a == Entry("InputAccepted", NoId, <<i>>)
           run == Entry("RunStarted", <<runs', 0, 0>>, <<i>>)
           t == Entry("TurnStarted", <<runs', 1, 0>>, <<>>)
           c == Entry("InputConsumed", <<runs', 1, 0>>, <<i>>)
           g == Entry("GenStarted", <<runs', 1, 0>>, <<>>)
           T == {s, a, run, t, c, g}
           start == <<a, run, t, c, g>>
           es == context \o start
<1>1. RecordStart(runs', i) = start BY DEF RecordStart
<1>2. context \in {<<s>>, <<>>} BY DEF ContextChange
<1>3. Commit(log, es) \/ Break(log, es) BY <1>1
<1>4. \A e \in T : /\ EntryOK(e)' /\ e.kind # "ToolOutcome"
                   /\ e.kind = "InputAccepted" => e.words = <<i>>
                   /\ e.kind = "RunStarted" => e = run
  BY DEF EntryOK, Entry, NoId, Ids, RunInv, Placed
<1>5. s # run /\ a # run /\ t # run /\ c # run /\ g # run BY DEF Entry
<1>6. run \notin Written BY DEF Entry, RunInv, Filed, EntryOK, Placed
<1> HIDE DEF s, a, run, t, c, g
<1>7. start \in Seq(T) /\ <<s>> \in Seq(T) /\ <<>> \in Seq(T) OBVIOUS
<1>8. context \in Seq(T) /\ Len(context) \in {0, 1} /\ (Len(context) = 1 => context[1] = s)
  <2> HIDE DEF T
  <2>1. CASE context = <<>> BY <1>7, <2>1
  <2>2. CASE context = <<s>> BY <1>7, <2>2
  <2> QED BY <1>2, <2>1, <2>2
<1>9. /\ Len(start) = 5 /\ start[1] = a /\ start[2] = run
      /\ \A k \in 1..5 : start[k] = run => k = 2
  BY <1>5
<1> HIDE DEF T, start
<1>10. /\ es \in Seq(T) /\ Len(es) = Len(context) + 5
       /\ \A k \in 1..Len(context) : es[k] = context[k]
       /\ \A k \in 1..5 : es[Len(context) + k] = start[k]
  <2>1. start \in Seq(T) BY <1>7
  <2>2. /\ es \in Seq(T) /\ Len(es) = Len(context) + Len(start)
        /\ \A k \in 1..Len(context) : es[k] = context[k]
        /\ \A k \in 1..Len(start) : es[Len(context) + k] = start[k]
    BY <1>8, <2>1, Catenated
  <2> HIDE DEF es
  <2> QED BY <1>9, <2>2
<1> DEFINE m == Len(context)
<1> HIDE DEF es, m
<1>11. m \in {0, 1} /\ (m = 1 => es[1] = s) /\ Len(es) = m + 5
       /\ \A k \in 1..5 : es[m + k] = start[k]
  BY <1>8, <1>10 DEF m
<1>12. es[m + 1] = a /\ es[m + 2] = run BY <1>9, <1>11
<1>13. ASSUME NEW j \in 1..Len(es), es[j] = run PROVE j = m + 2
  <2>1. j # m \/ m = 0 BY <1>5, <1>11, <1>13
  <2>2. j - m \in 1..5 /\ es[m + (j - m)] = start[j - m] BY <1>11, <2>1
  <2>3. start[j - m] = run BY <1>11, <1>13, <2>2
  <2> QED BY <1>9, <1>11, <2>2, <2>3
<1>14. Grown(ToSet(es)) BY <1>3, <1>10, Grows DEF RunInv, Filed, Written
<1>15. ToSet(es) \subseteq T BY <1>10, Within
<1>16. run \in log' \cup doubt' => a \in log'
  <2>1. CASE Commit(log, es)
    <3>1. a \in ToSet(es) BY <1>11, <1>12 DEF ToSet
    <3> QED BY <2>1, <3>1 DEF Commit
  <2>2. CASE Break(log, es)
    <3> SUFFICES ASSUME run \in log' \cup doubt' PROVE a \in log' OBVIOUS
    <3>1. PICK n \in 1..Len(es) : log' = log \cup ToSet(SubSeq(es, 1, n - 1)) /\ doubt' = {es[n]}
      BY <2>2 DEF Break
    <3>2. \A k \in 1..(n - 1) : SubSeq(es, 1, n - 1)[k] = es[k] BY <1>10, <3>1
    <3>3. DOMAIN SubSeq(es, 1, n - 1) = 1..(n - 1) BY <1>10, <3>1
    <3>4. PICK j \in 1..n : es[j] = run BY <1>6, <3>1, <3>2, <3>3 DEF ToSet, Written
    <3>5. j = m + 2 BY <1>11, <1>13, <3>1, <3>4
    <3>6. m + 1 \in 1..(n - 1) BY <1>11, <3>1, <3>4, <3>5
    <3> QED BY <1>10, <1>12, <3>1, <3>6, InOrder
  <2> QED BY <1>3, <2>1, <2>2
<1>17. Commit(log, es) => run \in log'
  <2>1. run \in ToSet(es) BY <1>11, <1>12 DEF ToSet
  <2> QED BY <2>1 DEF Commit
<1>18. Filed' BY <1>4, <1>14, <1>15 DEF RunInv, Filed, Grown, Written, EntryOK, Placed, Ids
<1> QED BY <1>1, <1>4, <1>14, <1>15, <1>16, <1>17, <1>18 DEF es, a, run, start

(* A new input gets a new run.                                             *)
LEMMA StartKeeps == ASSUME RunInv, NEW i \in Inputs, Start(i) PROVE RunInv'
<1> DEFINE run == Entry("RunStarted", <<runs', 0, 0>>, <<i>>)
<1>1. /\ loaded /\ active = 0 /\ ~check /\ i \notin requests /\ runs' = runs + 1
      /\ answered' = answered /\ effects' = effects /\ loaded' = loaded
  BY DEF Start
<1>2. PICK context \in ContextChange(Has(log, "SystemContext", NoId)) :
        LET es == context \o RecordStart(runs', i) IN
        \/ /\ Commit(log, es)
           /\ active' = runs' /\ requests' = requests \cup {i}
           /\ GoTo("generate", <<runs', 1, 0>>, "none")
           /\ replies' = replies \cup {<<i, runs'>>}
        \/ /\ Break(log, es)
           /\ UNCHANGED <<drive, replies>>
  BY DEF Start
<1> DEFINE es == context \o RecordStart(runs', i)
<1>3. context \in ContextChange(TRUE) BY DEF ContextChange
<1>4. Commit(log, es) \/ Break(log, es) BY <1>2
<1>5. /\ Filed'
      /\ run \in log' \cup doubt' => Entry("InputAccepted", NoId, <<i>>) \in log'
      /\ Commit(log, es) => run \in log'
  BY <1>1, <1>3, <1>4, StartAppends
<1>6. PICK S : /\ Grown(S)
               /\ \A e \in S : /\ EntryOK(e)' /\ e.kind # "ToolOutcome"
                               /\ e.kind = "InputAccepted" => e.words = <<i>>
                               /\ e.kind = "RunStarted" => e = run
  BY <1>1, <1>3, <1>4, StartAppends
<1>7. \/ active' = runs' /\ step' = "generate" /\ at' = <<runs', 1, 0>> /\ loaded
      \/ active' = 0 /\ step' = "idle" /\ at' = at
  BY <1>1, <1>2 DEF GoTo, drive, RunInv, Placed
<1>8. runs \in Nat /\ runs' \in Nat /\ runs < runs' BY <1>1 DEF RunInv, Placed
<1>9. Placed' BY <1>1, <1>7, <1>8 DEF RunInv, Placed, Ids
<1>10. Forward BY <1>7, <1>8 DEF Forward, Past, Touched, Done, Begun, Ids
<1>11. \A e \in S : OutcomeOK(e)' BY <1>6 DEF OutcomeOK
<1>12. Filed' /\ Asked' /\ Ran' BY <1>1, <1>6, <1>7, <1>8, <1>10, <1>11, Carry DEF RunInv
<1>13. Caught'
  <2>1. CASE Commit(log, es) /\ requests' = requests \cup {i}
    <3>1. \A e \in log' : e.kind = "InputAccepted" => e.words[1] \in requests'
      BY <1>1, <1>6, <2>1 DEF RunInv, Caught, Accepted, Grown, Written
    <3> QED BY <2>1, <3>1 DEF Commit, Caught, Accepted
  <2>2. CASE Break(log, es) BY <1>1, <2>2 DEF Break, Caught
  <2> QED BY <1>2, <2>1, <2>2
<1>14. \A e \in Written : e.kind = "RunStarted" => e.words # <<i>>
  <2> DEFINE a == Entry("InputAccepted", NoId, <<i>>)
  <2>1. a.kind = "InputAccepted" /\ a.words[1] = i BY DEF Entry
  <2> HIDE DEF a
  <2>2. a \notin log BY <1>1, <2>1 DEF RunInv, Caught, Accepted
  <2> QED BY <2>2 DEF RunInv, Single, RunOK, a
<1>15. \A e \in log' \cup doubt' : e.kind = "RunStarted" => e \in Written \/ e = run
  BY <1>6 DEF Grown
<1>16. run.kind = "RunStarted" /\ run.id = <<runs', 0, 0>> /\ run.words = <<i>> BY DEF Entry
<1>17. Single'
  <2>1. \A e \in log' \cup doubt' : RunOK(e)'
    BY <1>5, <1>6, <1>15, <1>16 DEF RunInv, Single, RunOK, Grown
  <2>2. \A e, f \in log' \cup doubt' :
          e.kind = "RunStarted" /\ f.kind = "RunStarted" /\ e.words = f.words => e = f
    BY <1>14, <1>15, <1>16 DEF RunInv, Single
  <2>3. \A p \in replies' : p = <<p[1], p[2]>> /\ Entry("RunStarted", <<p[2], 0, 0>>, <<p[1]>>) \in log'
    <3>1. \A p \in replies : p = <<p[1], p[2]>> /\ Entry("RunStarted", <<p[2], 0, 0>>, <<p[1]>>) \in log'
      BY <1>6 DEF RunInv, Single, Grown
    <3>2. CASE Commit(log, es) /\ replies' = replies \cup {<<i, runs'>>}
      <4> DEFINE q == <<i, runs'>>
      <4>1. q = <<q[1], q[2]>> /\ run = Entry("RunStarted", <<q[2], 0, 0>>, <<q[1]>>) OBVIOUS
      <4>2. run \in log' /\ replies' = replies \cup {q} BY <1>5, <3>2
      <4> HIDE DEF q, run, es
      <4> QED BY <3>1, <4>1, <4>2
    <3>3. CASE replies' = replies BY <3>1, <3>3
    <3> QED BY <1>2, <3>2, <3>3
  <2> QED BY <2>1, <2>2, <2>3 DEF Single, Written
<1> QED BY <1>9, <1>12, <1>13, <1>17 DEF RunInv

-----------------------------------------------------------------------------
(* RunInv is inductive.                                                    *)
LEMMA InitKeeps == Init => RunInv
<1> SUFFICES ASSUME Init PROVE RunInv OBVIOUS
<1>1. Placed BY DEF Init, Placed, Ids, NoId
<1>2. Filed BY FS_EmptySet DEF Init, Filed, Written
<1>3. Asked BY DEF Init, Asked, Written
<1>4. Ran BY DEF Init, Ran
<1>5. Caught /\ Single BY DEF Init, Caught, Single, Written, Accepted
<1> QED BY <1>1, <1>2, <1>3, <1>4, <1>5 DEF RunInv

(* Every step keeps RunInv.                                                *)
LEMMA NextKeeps == ASSUME RunInv, [Next]_vars PROVE RunInv'
<1>1. CASE Client
  BY <1>1, StartKeeps, RetryKeeps, PrepareKeeps, InterruptKeeps, ConfigureKeeps, RespondKeeps DEF Client
<1>2. CASE Generation BY <1>2, EndGenerationKeeps, EndExtractionKeeps DEF Generation
<1>3. CASE Call
  BY <1>3, CommitIntentKeeps, RefuseKeeps, RunBashKeeps, BeginExtractionKeeps, AskKeeps,
     AnsweredKeeps, ExpireKeeps, CommitResultKeeps DEF Call
<1>4. CASE Ending BY <1>4, EndTurnKeeps, NextTurnKeeps, EndRunKeeps, LeaveKeeps DEF Ending
<1>5. CASE Unload \/ Crash BY <1>5, ForgetKeeps DEF Unload, Crash
<1>6. CASE Load BY <1>6, LoadKeeps
<1>7. CASE UNCHANGED vars
  <2>1. Placed' /\ Filed' /\ Asked' /\ Caught' /\ Single'
    BY <1>7 DEF RunInv, Placed, Filed, Asked, Caught, Single, RunOK, Written, EntryOK, OutcomeOK,
                Past, Touched, Done, Begun, Has, Places, Accepted, vars, journal, session, drive, ghost
  <2>2. Ran' BY <1>7 DEF RunInv, Ran, Touched, Done, Begun, Tool, vars, journal, session, drive, ghost
  <2> QED BY <2>1, <2>2 DEF RunInv
<1> QED BY <1>1, <1>2, <1>3, <1>4, <1>5, <1>6, <1>7 DEF Next

(* RunInv holds in every reachable state, for any inputs, plans of replies *)
(* and bounds, with and without failed appends and crashes.                *)
THEOREM RunInductive == Spec => []RunInv
<1>1. Init => RunInv BY InitKeeps
<1>2. RunInv /\ [Next]_vars => RunInv' BY NextKeeps
<1> QED BY <1>1, <1>2, PTL DEF Spec

(* run_loop.rs, recovery.rs: an outside effect happens once at most, and   *)
(* never without its intent in the journal.                                *)
THEOREM Intended == Spec => []EffectsIntended
<1>1. RunInv => EffectsIntended BY DEF RunInv, Ran, EffectsIntended
<1> QED BY <1>1, RunInductive, PTL

(* interactive.rs, recovery.rs: an acknowledged answer is in the journal   *)
(* and is the result of its call, however the run ends.                    *)
THEOREM AnswersStand == Spec => []AnswersHold
<1>1. RunInv => AnswersHold
  <2> SUFFICES ASSUME RunInv, NEW x \in answered, Has(log, "ToolOutcome", x)
               PROVE  Says(log, "ToolOutcome", x, "Completed")
    BY DEF RunInv, Asked, AnswersHold
  <2>1. PICK e \in log : e.kind = "ToolOutcome" /\ e.id = x BY DEF Has, Places
  <2>2. e = Entry("ToolOutcome", x, <<"Completed">>)
    BY <2>1 DEF RunInv, Filed, EntryOK, Asked, OutcomeOK, Written
  <2> QED BY <2>1, <2>2 DEF Says
<1> QED BY <1>1, RunInductive, PTL

(* execution.rs, accept_run: an input is answered by one run, which the    *)
(* journal keeps.                                                          *)
THEOREM OneRun == Spec => []OneRunPerInput
<1>1. RunInv => OneRunPerInput
  <2> SUFFICES ASSUME RunInv, NEW p \in replies, NEW q \in replies, p[1] = q[1] PROVE p = q
    BY DEF RunInv, Single, OneRunPerInput
  <2> DEFINE e == Entry("RunStarted", <<p[2], 0, 0>>, <<p[1]>>)
             f == Entry("RunStarted", <<q[2], 0, 0>>, <<q[1]>>)
  <2>1. e \in Written /\ f \in Written BY DEF RunInv, Single, Written
  <2>2. e = f BY <2>1 DEF RunInv, Single, Entry
  <2>3. <<p[2], 0, 0>> = <<q[2], 0, 0>> BY <2>2 DEF Entry
  <2> QED BY <2>3 DEF RunInv, Single
<1> QED BY <1>1, RunInductive, PTL

-----------------------------------------------------------------------------
(* What the validator and recovery rely on in a history.                   *)

(* The tools of a session are the same at every load.                      *)
OneInstall == \A a, b \in Installs : a = b

(* What is open is in something open, as far as recovery has to close it.  *)
Nested(h) ==
  /\ \A t \in OpenTurns(h) : RunOf(t) \in OpenRuns(h)
  /\ \A g \in OpenGens(h) : RunOf(g) \in OpenRuns(h) /\ (Conversation(g) => g \in OpenTurns(h))
  /\ \A x \in OpenInteractions(h) : TurnOf(x) \in OpenTurns(h)
  /\ \A tools \in Installs : \A x \in Settleable(h, tools) : TurnOf(x) \in OpenTurns(h)

(* A call was asked for, by its name, in a complete reply.                 *)
IntentOK(h, e) ==
  e.kind = "ToolIntent" =>
    /\ TurnOf(e.id) \in Effective(h) /\ e.id \in CallsOf(h, TurnOf(e.id))
    /\ e.words = <<Words(h, "Message", TurnOf(e.id))[e.id[3] + 1]>>

Called(h) ==
  /\ \A e \in h : IntentOK(h, e)
  /\ Places(h, "ToolOutcome") \subseteq Places(h, "ToolIntent")

(* A run that is open has not made more calls than it may.                 *)
IntentsOf(h, r) == {x \in Places(h, "ToolIntent") : x[1] = r}
Budgeted(h) ==
  \A r \in OpenRuns(h) : r = <<r[1], 0, 0>> /\ Cardinality(IntentsOf(h, r[1])) <= MaxCalls

(* Nothing ends, says or opens anything that was not begun before it.      *)
Paired(h) ==
  /\ Places(h, "RunEnd") \subseteq Places(h, "RunStarted")
  /\ Places(h, "TurnEnded") \subseteq Places(h, "TurnStarted")
  /\ Places(h, "GenEnded") \cup Places(h, "Message") \subseteq Places(h, "GenStarted")
  /\ \A g \in Places(h, "GenStarted") : ~Conversation(g) => g \in Places(h, "ToolIntent")
  /\ Places(h, "InteractionOpened") \subseteq Places(h, "ToolIntent")
  /\ Places(h, "InteractionResolved") \cup Places(h, "InteractionExpired")
       \subseteq Places(h, "InteractionOpened")

(* What is consumed or starts a run was accepted before it.                *)
Sourced(h) ==
  \A e \in h : e.kind \in {"RunStarted", "InputConsumed"} => Entry("InputAccepted", NoId, e.words) \in h

Sound(h) == Nested(h) /\ Called(h) /\ Budgeted(h) /\ Paired(h) /\ Sourced(h)

-----------------------------------------------------------------------------
(* Adding an entry to a history.                                           *)
LEMMA Adds ==
  ASSUME NEW h, NEW e, NEW kind
  PROVE  Places(h \cup {e}, kind) = Places(h, kind) \cup (IF e.kind = kind THEN {e.id} ELSE {})
BY DEF Places

(* What is open after one more entry.                                      *)
LEMMA AddsOpen ==
  ASSUME NEW h, NEW e
  PROVE  LET g == h \cup {e} IN
         /\ OpenRuns(g) = (OpenRuns(h) \cup (IF e.kind = "RunStarted" THEN {e.id} \ Places(h, "RunEnd") ELSE {}))
                          \ (IF e.kind = "RunEnd" THEN {e.id} ELSE {})
         /\ OpenTurns(g) = (OpenTurns(h) \cup (IF e.kind = "TurnStarted" THEN {e.id} \ Places(h, "TurnEnded") ELSE {}))
                           \ (IF e.kind = "TurnEnded" THEN {e.id} ELSE {})
         /\ OpenGens(g) = (OpenGens(h) \cup (IF e.kind = "GenStarted" THEN {e.id} \ Places(h, "GenEnded") ELSE {}))
                          \ (IF e.kind = "GenEnded" THEN {e.id} ELSE {})
         /\ OpenTools(g) = (OpenTools(h) \cup (IF e.kind = "ToolIntent" THEN {e.id} \ Places(h, "ToolOutcome") ELSE {}))
                           \ (IF e.kind = "ToolOutcome" THEN {e.id} ELSE {})
         /\ OpenInteractions(g) =
              (OpenInteractions(h) \cup
                 (IF e.kind = "InteractionOpened"
                  THEN {e.id} \ (Places(h, "InteractionResolved") \cup Places(h, "InteractionExpired")) ELSE {}))
              \ (IF e.kind \in {"InteractionResolved", "InteractionExpired"} THEN {e.id} ELSE {})
<1> DEFINE g == h \cup {e}
<1>1. \A kind : Places(g, kind) = Places(h, kind) \cup (IF e.kind = kind THEN {e.id} ELSE {})
  BY Adds
<1> HIDE DEF g
<1>2. OpenRuns(g) = (OpenRuns(h) \cup (IF e.kind = "RunStarted" THEN {e.id} \ Places(h, "RunEnd") ELSE {}))
                    \ (IF e.kind = "RunEnd" THEN {e.id} ELSE {})
  BY <1>1 DEF OpenRuns
<1>3. OpenTurns(g) = (OpenTurns(h) \cup (IF e.kind = "TurnStarted" THEN {e.id} \ Places(h, "TurnEnded") ELSE {}))
                     \ (IF e.kind = "TurnEnded" THEN {e.id} ELSE {})
  BY <1>1 DEF OpenTurns
<1>4. OpenGens(g) = (OpenGens(h) \cup (IF e.kind = "GenStarted" THEN {e.id} \ Places(h, "GenEnded") ELSE {}))
                    \ (IF e.kind = "GenEnded" THEN {e.id} ELSE {})
  BY <1>1 DEF OpenGens
<1>5. OpenTools(g) = (OpenTools(h) \cup (IF e.kind = "ToolIntent" THEN {e.id} \ Places(h, "ToolOutcome") ELSE {}))
                     \ (IF e.kind = "ToolOutcome" THEN {e.id} ELSE {})
  BY <1>1 DEF OpenTools
<1>6. OpenInteractions(g) =
        (OpenInteractions(h) \cup
           (IF e.kind = "InteractionOpened"
            THEN {e.id} \ (Places(h, "InteractionResolved") \cup Places(h, "InteractionExpired")) ELSE {}))
        \ (IF e.kind \in {"InteractionResolved", "InteractionExpired"} THEN {e.id} ELSE {})
  BY <1>1 DEF OpenInteractions
<1> QED BY <1>2, <1>3, <1>4, <1>5, <1>6 DEF g

(* A reply counts as before, or is the one that e completes.               *)
LEMMA AddsEffective ==
  ASSUME NEW h, NEW e
  PROVE  \A g : g \in Effective(h \cup {e})
                  <=> g \in Effective(h) \/ (Conversation(g) /\ e = Entry("GenEnded", g, <<"Completed">>))
BY DEF Effective, Says, Places, Entry

(* Words of an id change only with an entry of that id.                    *)
LEMMA AddsWords ==
  ASSUME NEW h, NEW e, NEW kind, NEW id, ~(e.kind = kind /\ e.id = id)
  PROVE  Words(h \cup {e}, kind, id) = Words(h, kind, id)
BY Words1

(* What a reply asks for changes only with its message.                    *)
LEMMA AddsCalls ==
  ASSUME NEW h, NEW e, NEW g, ~(e.kind = "Message" /\ e.id = g)
  PROVE  CallsOf(h \cup {e}, g) = CallsOf(h, g)
BY AddsWords DEF CallsOf

(* What can be settled was, or is the call that e begins.                  *)
LEMMA AddsSettleable ==
  ASSUME NEW h, NEW e, NEW tools,
         e.kind = "ToolIntent" => ~Has(h, "ToolIntent", e.id)
  PROVE  \A x \in Settleable(h \cup {e}, tools) :
           x \in Settleable(h, tools) \/ (e.kind = "ToolIntent" /\ x = e.id)
<1> DEFINE g == h \cup {e}
<1> SUFFICES ASSUME NEW x \in Settleable(g, tools), ~(e.kind = "ToolIntent" /\ x = e.id)
             PROVE  x \in Settleable(h, tools)
  OBVIOUS
<1>1. Words(g, "ToolIntent", x) = Words(h, "ToolIntent", x) BY AddsWords
<1>2. x \in OpenTools(g) BY DEF Settleable
<1>3. x \in OpenTools(h) BY <1>2, Adds DEF OpenTools
<1> HIDE DEF g
<1> QED BY <1>1, <1>2, <1>3 DEF Settleable

(* The rule that accepts an entry is the one of its kind.                  *)
LEMMA ByKind ==
  ASSUME NEW h, NEW e, Accepts(h, e)
  PROVE  /\ e.kind = "RunStarted" => RunStartRule(h, e)
         /\ e.kind = "RunEnd" => RunEndRule(h, e)
         /\ e.kind = "TurnStarted" => TurnStartRule(h, e)
         /\ e.kind = "TurnEnded" => TurnEndRule(h, e)
         /\ e.kind = "GenStarted" => GenStartRule(h, e)
         /\ e.kind \in {"Message", "GenEnded"} => GenRule(h, e)
         /\ e.kind \in {"ToolIntent", "ToolOutcome"} => ToolRule(h, e)
         /\ e.kind \in {"InteractionOpened", "InteractionResolved", "InteractionExpired"} => InteractionRule(h, e)
         /\ e.kind = "InputConsumed" => InputRule(h, e)
<1>1. InputRule(h, e) => e.kind \in {"InputAccepted", "InputConsumed"} BY DEF InputRule
<1>2. RunStartRule(h, e) => e.kind = "RunStarted" BY DEF RunStartRule
<1>3. RunEndRule(h, e) => e.kind = "RunEnd" BY DEF RunEndRule
<1>4. TurnStartRule(h, e) => e.kind = "TurnStarted" BY DEF TurnStartRule
<1>5. TurnEndRule(h, e) => e.kind = "TurnEnded" BY DEF TurnEndRule
<1>6. GenStartRule(h, e) => e.kind = "GenStarted" BY DEF GenStartRule
<1>7. GenRule(h, e) => e.kind \in {"Message", "GenEnded"} BY DEF GenRule
<1>8. ToolRule(h, e) => e.kind \in {"ToolIntent", "ToolOutcome"} BY DEF ToolRule
<1>9. InteractionRule(h, e) => e.kind \in {"InteractionOpened", "InteractionResolved", "InteractionExpired"}
  BY DEF InteractionRule
<1>10. ContextRule(h, e) => e.kind = "SystemContext" BY DEF ContextRule
<1> QED BY <1>1, <1>2, <1>3, <1>4, <1>5, <1>6, <1>7, <1>8, <1>9, <1>10 DEF Accepts

-----------------------------------------------------------------------------
(* What the validator accepts keeps a history recoverable, except that a   *)
(* turn is interrupted by recovery alone, and for the budget of the run.   *)
LEMMA KeepsNested ==
  ASSUME NEW h, NEW e, e.id \in Ids, Sound(h), Accepts(h, e),
         e.kind = "TurnEnded" => e.words # <<"Interrupted">>
  PROVE  Nested(h \cup {e})
<1> DEFINE g == h \cup {e}
<1>1. OpenRuns(g) = (OpenRuns(h) \cup (IF e.kind = "RunStarted" THEN {e.id} \ Places(h, "RunEnd") ELSE {}))
                    \ (IF e.kind = "RunEnd" THEN {e.id} ELSE {})
  BY AddsOpen
<1>2. OpenTurns(g) = (OpenTurns(h) \cup (IF e.kind = "TurnStarted" THEN {e.id} \ Places(h, "TurnEnded") ELSE {}))
                     \ (IF e.kind = "TurnEnded" THEN {e.id} ELSE {})
  BY AddsOpen
<1>3. OpenGens(g) = (OpenGens(h) \cup (IF e.kind = "GenStarted" THEN {e.id} \ Places(h, "GenEnded") ELSE {}))
                    \ (IF e.kind = "GenEnded" THEN {e.id} ELSE {})
  BY AddsOpen
<1>4. \A x \in OpenInteractions(g) : x \in OpenInteractions(h) \/ (e.kind = "InteractionOpened" /\ x = e.id)
  <2>1. OpenInteractions(g) =
          (OpenInteractions(h) \cup
             (IF e.kind = "InteractionOpened"
              THEN {e.id} \ (Places(h, "InteractionResolved") \cup Places(h, "InteractionExpired")) ELSE {}))
          \ (IF e.kind \in {"InteractionResolved", "InteractionExpired"} THEN {e.id} ELSE {})
    BY AddsOpen
  <2> HIDE DEF g
  <2> QED BY <2>1
<1>5. \A tools : \A x \in Settleable(g, tools) :
        x \in Settleable(h, tools) \/ (e.kind = "ToolIntent" /\ x = e.id)
  <2>1. e.kind = "ToolIntent" => ~Has(h, "ToolIntent", e.id) BY ByKind DEF ToolRule
  <2> QED BY <2>1, AddsSettleable
<1>6. Nested(h) BY DEF Sound
<1> HIDE DEF g
<1>7. \A t \in OpenTurns(g) : RunOf(t) \in OpenRuns(g)
  <2> SUFFICES ASSUME NEW t \in OpenTurns(g) PROVE RunOf(t) \in OpenRuns(g) OBVIOUS
  <2>1. CASE e.kind = "TurnStarted" /\ t = e.id
    <3>1. RunOf(t) \in OpenRuns(h) BY <2>1, ByKind DEF TurnStartRule
    <3> QED BY <1>1, <2>1, <3>1
  <2>2. CASE t \in OpenTurns(h)
    <3>1. RunOf(t) \in OpenRuns(h) BY <1>6, <2>2 DEF Nested
    <3>2. e.kind = "RunEnd" => RunOf(t) # e.id BY <2>2, ByKind DEF RunEndRule
    <3> QED BY <1>1, <3>1, <3>2
  <2> QED BY <1>2, <2>1, <2>2
<1>8. \A x \in OpenGens(g) : RunOf(x) \in OpenRuns(g) /\ (Conversation(x) => x \in OpenTurns(g))
  <2> SUFFICES ASSUME NEW x \in OpenGens(g)
               PROVE  RunOf(x) \in OpenRuns(g) /\ (Conversation(x) => x \in OpenTurns(g))
    OBVIOUS
  <2>1. CASE e.kind = "GenStarted" /\ x = e.id
    <3>1. RunOf(x) \in OpenRuns(h) /\ TurnOf(x) \in OpenTurns(h) BY <2>1, ByKind DEF GenStartRule
    <3>2. Conversation(x) => TurnOf(x) = x BY <2>1 DEF Conversation, TurnOf, Ids
    <3> QED BY <1>1, <1>2, <2>1, <3>1, <3>2
  <2>2. CASE x \in OpenGens(h)
    <3>1. RunOf(x) \in OpenRuns(h) /\ (Conversation(x) => x \in OpenTurns(h)) BY <1>6, <2>2 DEF Nested
    <3>2. e.kind = "RunEnd" => RunOf(x) # e.id BY <2>2, ByKind DEF RunEndRule
    <3>3. e.kind = "TurnEnded" => x # e.id BY <2>2, ByKind DEF TurnEndRule
    <3> QED BY <1>1, <1>2, <3>1, <3>2, <3>3
  <2> QED BY <1>3, <2>1, <2>2
<1>9. \A x \in OpenInteractions(g) : TurnOf(x) \in OpenTurns(g)
  <2> SUFFICES ASSUME NEW x \in OpenInteractions(g) PROVE TurnOf(x) \in OpenTurns(g) OBVIOUS
  <2>1. TurnOf(x) \in OpenTurns(h)
    <3>1. CASE e.kind = "InteractionOpened" /\ x = e.id BY <3>1, ByKind DEF InteractionRule
    <3>2. CASE x \in OpenInteractions(h) BY <1>6, <3>2 DEF Nested
    <3> QED BY <1>4, <3>1, <3>2
  <2>2. e.kind = "TurnEnded" => x \in OpenInteractions(h) BY <1>4
  <2>3. e.kind = "TurnEnded" => TurnOf(x) # e.id BY <2>2, ByKind DEF TurnEndRule
  <2> QED BY <1>2, <2>1, <2>3
<1>10. \A tools \in Installs : \A x \in Settleable(g, tools) : TurnOf(x) \in OpenTurns(g)
  <2> SUFFICES ASSUME NEW tools \in Installs, NEW x \in Settleable(g, tools)
               PROVE  TurnOf(x) \in OpenTurns(g)
    OBVIOUS
  <2>1. TurnOf(x) \in OpenTurns(h)
    <3>1. CASE e.kind = "ToolIntent" /\ x = e.id BY <3>1, ByKind DEF ToolRule
    <3>2. CASE x \in Settleable(h, tools) BY <1>6, <3>2 DEF Nested
    <3> QED BY <1>5, <3>1, <3>2
  <2>2. ASSUME e.kind = "TurnEnded" PROVE TurnOf(x) # e.id
    <3>1. x \in Settleable(h, tools) BY <1>5, <2>2
    <3>2. x \in Places(h, "ToolIntent") /\ x \notin Places(h, "ToolOutcome")
      BY <3>1 DEF Settleable, OpenTools
    <3>3. TurnOf(x) \in Effective(h) /\ x \in CallsOf(h, TurnOf(x))
      BY <3>2 DEF Sound, Called, IntentOK, Places
    <3>4. ClosedTools(h, e.id) BY <2>2, ByKind DEF TurnEndRule
    <3> QED BY <3>2, <3>3, <3>4 DEF ClosedTools
  <2> QED BY <1>2, <2>1, <2>2
<1> QED BY <1>7, <1>8, <1>9, <1>10 DEF Nested, g

(* Replies that count keep what they ask for.                              *)
LEMMA KeepsReplies ==
  ASSUME NEW h, NEW e, Accepts(h, e)
  PROVE  /\ Effective(h) \subseteq Effective(h \cup {e})
         /\ \A g \in Effective(h) : /\ CallsOf(h \cup {e}, g) = CallsOf(h, g)
                                    /\ Words(h \cup {e}, "Message", g) = Words(h, "Message", g)
<1>1. Effective(h) \subseteq Effective(h \cup {e}) BY AddsEffective
<1>2. ASSUME NEW g \in Effective(h) PROVE ~(e.kind = "Message" /\ e.id = g)
  <2>1. g \in Places(h, "GenEnded") BY DEF Effective
  <2> QED BY <2>1, ByKind DEF GenRule, OpenGens
<1> QED BY <1>1, <1>2, AddsCalls, AddsWords

(* Calls stay asked for, and outcomes have intents.                        *)
LEMMA KeepsCalled ==
  ASSUME NEW h, NEW e, Called(h), Accepts(h, e)
  PROVE  Called(h \cup {e})
<1> DEFINE g == h \cup {e}
<1>1. /\ Effective(h) \subseteq Effective(g)
      /\ \A x \in Effective(h) : CallsOf(g, x) = CallsOf(h, x) /\ Words(g, "Message", x) = Words(h, "Message", x)
  BY KeepsReplies
<1>2. \A kind : Places(g, kind) = Places(h, kind) \cup (IF e.kind = kind THEN {e.id} ELSE {})
  BY Adds
<1>3. \A f \in g : f \in h \/ f = e OBVIOUS
<1> HIDE DEF g
<1>4. ASSUME NEW f \in g PROVE IntentOK(g, f)
  <2>1. IntentOK(h, f)
    <3>1. CASE f \in h BY <3>1 DEF Called
    <3>2. CASE f = e BY <3>2, ByKind DEF ToolRule, IntentOK
    <3> QED BY <1>3, <3>1, <3>2
  <2> QED BY <1>1, <2>1 DEF IntentOK
<1>5. Places(g, "ToolOutcome") \subseteq Places(g, "ToolIntent")
  <2>1. e.kind = "ToolOutcome" => e.id \in Places(h, "ToolIntent") BY ByKind DEF ToolRule, OpenTools
  <2> QED BY <1>2, <2>1 DEF Called
<1> QED BY <1>4, <1>5 DEF Called, g

(* A run that is open stays within its calls.                              *)
LEMMA KeepsBudget ==
  ASSUME NEW h, NEW e, Budgeted(h), Accepts(h, e),
         e.kind = "ToolIntent" => Cardinality(IntentsOf(h, e.id[1]) \cup {e.id}) <= MaxCalls,
         e.kind = "RunStarted" => e.id = <<e.id[1], 0, 0>> /\ IntentsOf(h, e.id[1]) = {}
  PROVE  Budgeted(h \cup {e})
<1> DEFINE g == h \cup {e}
<1>1. \A x \in OpenRuns(g) : x \in OpenRuns(h) \/ (e.kind = "RunStarted" /\ x = e.id)
  <2>1. OpenRuns(g) = (OpenRuns(h) \cup (IF e.kind = "RunStarted" THEN {e.id} \ Places(h, "RunEnd") ELSE {}))
                      \ (IF e.kind = "RunEnd" THEN {e.id} ELSE {})
    BY AddsOpen
  <2> HIDE DEF g
  <2> QED BY <2>1
<1>2. Places(g, "ToolIntent") = Places(h, "ToolIntent") \cup (IF e.kind = "ToolIntent" THEN {e.id} ELSE {})
  BY Adds
<1> HIDE DEF g
<1> SUFFICES ASSUME NEW x \in OpenRuns(g)
             PROVE  x = <<x[1], 0, 0>> /\ Cardinality(IntentsOf(g, x[1])) <= MaxCalls
  BY DEF Budgeted, g
<1>0. x = <<x[1], 0, 0>> BY <1>1 DEF Budgeted
<1>3. CASE e.kind = "ToolIntent" /\ e.id[1] = x[1]
  <2>1. IntentsOf(g, x[1]) = IntentsOf(h, e.id[1]) \cup {e.id} BY <1>2, <1>3 DEF IntentsOf
  <2> QED BY <1>0, <1>3, <2>1
<1>4. CASE ~(e.kind = "ToolIntent" /\ e.id[1] = x[1])
  <2>1. IntentsOf(g, x[1]) = IntentsOf(h, x[1]) BY <1>2, <1>4 DEF IntentsOf
  <2>2. CASE x \in OpenRuns(h) BY <2>1, <2>2 DEF Budgeted
  <2>3. CASE e.kind = "RunStarted" /\ x = e.id
    <3>1. IntentsOf(g, x[1]) = {} BY <2>1, <2>3
    <3>2. Cardinality(IntentsOf(g, x[1])) = 0 BY <3>1, FS_EmptySet
    <3> QED BY <1>0, <3>2, MaxCallsAssumption
  <2> QED BY <1>1, <2>2, <2>3
<1> QED BY <1>3, <1>4

(* Pairs stay pairs.                                                       *)
LEMMA KeepsPaired ==
  ASSUME NEW h, NEW e, Paired(h), Accepts(h, e)
  PROVE  Paired(h \cup {e})
<1> DEFINE g == h \cup {e}
<1>1. \A kind : Places(g, kind) = Places(h, kind) \cup (IF e.kind = kind THEN {e.id} ELSE {})
  BY Adds
<1> HIDE DEF g
<1>2. e.kind = "RunEnd" => e.id \in Places(h, "RunStarted") BY ByKind DEF RunEndRule, OpenRuns
<1>3. e.kind = "TurnEnded" => e.id \in Places(h, "TurnStarted") BY ByKind DEF TurnEndRule, OpenTurns
<1>4. e.kind \in {"GenEnded", "Message"} => e.id \in Places(h, "GenStarted")
  BY ByKind DEF GenRule, OpenGens
<1>5. e.kind = "GenStarted" /\ ~Conversation(e.id) => e.id \in Places(h, "ToolIntent")
  BY ByKind DEF GenStartRule, OpenTools
<1>6. e.kind = "InteractionOpened" => e.id \in Places(h, "ToolIntent")
  BY ByKind DEF InteractionRule, OpenTools
<1>7. e.kind \in {"InteractionResolved", "InteractionExpired"} => e.id \in Places(h, "InteractionOpened")
  BY ByKind DEF InteractionRule, OpenInteractions
<1>8. Paired(g) BY <1>1, <1>2, <1>3, <1>4, <1>5, <1>6, <1>7 DEF Paired
<1> QED BY <1>8 DEF g

(* Inputs stay accepted.                                                   *)
LEMMA KeepsSourced ==
  ASSUME NEW h, NEW e, Sourced(h), Accepts(h, e)
  PROVE  Sourced(h \cup {e})
<1>1. e.kind \in {"RunStarted", "InputConsumed"} => Entry("InputAccepted", NoId, e.words) \in h
  BY ByKind DEF RunStartRule, InputRule
<1> QED BY <1>1 DEF Sourced

(* All of it.                                                              *)
LEMMA Extends ==
  ASSUME NEW h, NEW e, e.id \in Ids, Sound(h), Accepts(h, e),
         e.kind = "TurnEnded" => e.words # <<"Interrupted">>,
         e.kind = "ToolIntent" => Cardinality(IntentsOf(h, e.id[1]) \cup {e.id}) <= MaxCalls,
         e.kind = "RunStarted" => e.id = <<e.id[1], 0, 0>> /\ IntentsOf(h, e.id[1]) = {}
  PROVE  Sound(h \cup {e})
BY KeepsNested, KeepsCalled, KeepsBudget, KeepsPaired, KeepsSourced DEF Sound

-----------------------------------------------------------------------------
(* Sequences of entries, appended one after the other.                     *)
Upto(h, es, n) == h \cup ToSet(SubSeq(es, 1, n))

(* Every prefix of es is accepted and leaves a recoverable history.        *)
Good(h, es) ==
  /\ \A n \in 0..Len(es) : Sound(Upto(h, es, n))
  /\ \A n \in 1..Len(es) : Accepts(Upto(h, es, n - 1), es[n])

(* Prefixes grow by one entry.                                             *)
LEMMA UptoSteps ==
  ASSUME NEW T, NEW es \in Seq(T), NEW h
  PROVE  /\ Upto(h, es, 0) = h
         /\ Upto(h, es, Len(es)) = h \cup ToSet(es)
         /\ \A n \in 1..Len(es) : Upto(h, es, n) = Upto(h, es, n - 1) \cup {es[n]}
<1>1. SubSeq(es, 1, 0) = <<>> /\ SubSeq(es, 1, Len(es)) = es OBVIOUS
<1>2. ASSUME NEW n \in 0..Len(es) PROVE Upto(h, es, n) = h \cup {es[k] : k \in 1..n}
  <2>1. DOMAIN SubSeq(es, 1, n) = 1..n /\ \A k \in 1..n : SubSeq(es, 1, n)[k] = es[k] OBVIOUS
  <2>2. ToSet(SubSeq(es, 1, n)) = {es[k] : k \in 1..n} BY <2>1 DEF ToSet
  <2> QED BY <2>2 DEF Upto
<1>3. ASSUME NEW n \in 1..Len(es) PROVE Upto(h, es, n) = Upto(h, es, n - 1) \cup {es[n]}
  <2>1. {es[k] : k \in 1..n} = {es[k] : k \in 1..(n - 1)} \cup {es[n]} OBVIOUS
  <2>2. n \in 0..Len(es) /\ n - 1 \in 0..Len(es) OBVIOUS
  <2> QED BY <1>2, <2>1, <2>2
<1> QED BY <1>1, <1>3, None DEF Upto

(* A good append, or the part of it before a failure, leaves histories     *)
(* that recovery can read, with the entry in doubt and without.            *)
LEMMA GoodAppends ==
  ASSUME NEW T, NEW es \in Seq(T), NEW h, Good(h, es), ~refused, Commit(h, es) \/ Break(h, es)
  PROVE  ~refused' /\ Sound(log') /\ Sound(log' \cup doubt')
<1>1. \A n \in 1..Len(es) : AcceptsAll(h, SubSeq(es, 1, n))
  <2> SUFFICES ASSUME NEW n \in 1..Len(es), NEW k \in 1..Len(SubSeq(es, 1, n))
               PROVE  Accepts(h \cup ToSet(SubSeq(SubSeq(es, 1, n), 1, k - 1)), SubSeq(es, 1, n)[k])
    BY DEF AcceptsAll
  <2>1. k \in 1..n /\ k \in 1..Len(es) /\ SubSeq(es, 1, n)[k] = es[k] OBVIOUS
  <2>2. SubSeq(SubSeq(es, 1, n), 1, k - 1) = SubSeq(es, 1, k - 1)
    <3> DEFINE a == SubSeq(SubSeq(es, 1, n), 1, k - 1)
               b == SubSeq(es, 1, k - 1)
    <3>1. a \in Seq(T) /\ b \in Seq(T) /\ Len(a) = k - 1 /\ Len(b) = k - 1 BY <2>1
    <3>2. \A j \in 1..(k - 1) : a[j] = b[j] BY <2>1
    <3> HIDE DEF a, b
    <3>3. a = b BY <3>1, <3>2
    <3> QED BY <3>3 DEF a, b
  <2> QED BY <2>1, <2>2 DEF Good, Upto
<1>2. CASE Commit(h, es)
  <2>1. AcceptsAll(h, es) BY DEF AcceptsAll, Good, Upto
  <2>2. log' = Upto(h, es, Len(es)) /\ doubt' = {} BY <1>2, UptoSteps DEF Commit
  <2>3. Len(es) \in 0..Len(es) OBVIOUS
  <2>4. log' \cup doubt' = log' BY <2>2
  <2> QED BY <1>2, <2>1, <2>2, <2>3, <2>4 DEF Commit, Good
<1>3. CASE Break(h, es)
  <2>1. PICK n \in 1..Len(es) :
          /\ log' = Upto(h, es, n - 1) /\ doubt' = {es[n]}
          /\ refused' = (refused \/ ~AcceptsAll(h, SubSeq(es, 1, n)))
    BY <1>3 DEF Break, Upto
  <2>2. n \in 0..Len(es) /\ n - 1 \in 0..Len(es) OBVIOUS
  <2>3. log' \cup doubt' = Upto(h, es, n) BY <2>1, UptoSteps
  <2> QED BY <1>1, <2>1, <2>2, <2>3 DEF Good
<1> QED BY <1>2, <1>3

(* One entry, and one sequence after another.                              *)
LEMMA GoodOne ==
  ASSUME NEW h, NEW e, Sound(h), Accepts(h, e), Sound(h \cup {e})
  PROVE  Good(h, <<e>>)
<1> DEFINE T == {e}
           es == <<e>>
<1>1. es \in Seq(T) /\ Len(es) = 1 /\ es[1] = e OBVIOUS
<1> HIDE DEF T, es
<1>2. Upto(h, es, 0) = h /\ Upto(h, es, 1) = Upto(h, es, 0) \cup {es[1]} BY <1>1, UptoSteps
<1>3. \A n \in 0..Len(es) : Sound(Upto(h, es, n))
  <2> SUFFICES ASSUME NEW n \in 0..Len(es) PROVE Sound(Upto(h, es, n)) OBVIOUS
  <2>1. n = 0 \/ n = 1 BY <1>1
  <2> QED BY <1>1, <1>2, <2>1
<1>4. \A n \in 1..Len(es) : Accepts(Upto(h, es, n - 1), es[n])
  <2> SUFFICES ASSUME NEW n \in 1..Len(es) PROVE Accepts(Upto(h, es, n - 1), es[n]) OBVIOUS
  <2>1. n = 1 /\ n - 1 = 0 BY <1>1
  <2> QED BY <1>1, <1>2, <2>1
<1>5. Good(h, es) BY <1>3, <1>4 DEF Good
<1> QED BY <1>5 DEF es

(* Nothing can always be appended.                                         *)
LEMMA GoodNone ==
  ASSUME NEW h, Sound(h)
  PROVE  Good(h, <<>>)
<1>1. Len(<<>>) = 0 /\ SubSeq(<<>>, 1, 0) = <<>> OBVIOUS
<1>2. Upto(h, <<>>, 0) = h BY <1>1, None DEF Upto
<1>3. \A n \in 0..0 : Sound(Upto(h, <<>>, n))
  <2> SUFFICES ASSUME NEW n \in 0..0 PROVE Sound(Upto(h, <<>>, n)) OBVIOUS
  <2>1. n = 0 OBVIOUS
  <2> QED BY <1>2, <2>1
<1> QED BY <1>1, <1>3 DEF Good

(* Two good sequences, one after the other.                                *)
LEMMA GoodThen ==
  ASSUME NEW T, NEW p \in Seq(T), NEW q \in Seq(T), NEW h,
         Good(h, p), Good(h \cup ToSet(p), q)
  PROVE  Good(h, p \o q) /\ p \o q \in Seq(T) /\ ToSet(p \o q) = ToSet(p) \cup ToSet(q)
<1> DEFINE es == p \o q
           m == Len(p)
           k == Len(q)
<1>1. /\ es \in Seq(T) /\ Len(es) = m + k /\ m \in Nat /\ k \in Nat
      /\ \A n \in 1..m : es[n] = p[n]
      /\ \A n \in 1..k : es[m + n] = q[n]
  BY Catenated
<1>2. \A n \in 1..Len(es) : n <= m \/ (n - m \in 1..k /\ es[n] = q[n - m])
  <2> SUFFICES ASSUME NEW n \in 1..Len(es), ~(n <= m) PROVE n - m \in 1..k /\ es[n] = q[n - m]
    OBVIOUS
  <2> HIDE DEF es, m, k
  <2>1. n - m \in 1..k /\ m + (n - m) = n BY <1>1
  <2> QED BY <1>1, <2>1
<1>3. ASSUME NEW n \in 0..m PROVE Upto(h, es, n) = Upto(h, p, n)
  <2>1. SubSeq(es, 1, n) = SubSeq(p, 1, n)
    <3> DEFINE a == SubSeq(es, 1, n)
               b == SubSeq(p, 1, n)
    <3>1. a \in Seq(T) /\ b \in Seq(T) /\ Len(a) = n /\ Len(b) = n BY <1>1
    <3>2. \A j \in 1..n : a[j] = b[j] BY <1>1
    <3> HIDE DEF a, b
    <3>3. a = b BY <3>1, <3>2
    <3> QED BY <3>3 DEF a, b
  <2> QED BY <2>1 DEF Upto
<1>4. ToSet(es) = ToSet(p) \cup ToSet(q)
  <2> HIDE DEF es
  <2>1. DOMAIN es = 1..(m + k) /\ DOMAIN p = 1..m /\ DOMAIN q = 1..k BY <1>1
  <2>2. \A n \in 1..m : n \in 1..(m + k) BY <1>1
  <2>3. \A n \in 1..k : m + n \in 1..(m + k) BY <1>1
  <2>4. \A n \in 1..(m + k) : n \in 1..m \/ (n - m \in 1..k /\ es[n] = q[n - m]) BY <1>1, <1>2
  <2>5. ToSet(es) = {es[n] : n \in 1..(m + k)} /\ ToSet(p) = {p[n] : n \in 1..m}
        /\ ToSet(q) = {q[n] : n \in 1..k}
    BY <2>1 DEF ToSet
  <2> HIDE DEF m, k
  <2>6. {es[n] : n \in 1..(m + k)} \subseteq {p[n] : n \in 1..m} \cup {q[n] : n \in 1..k}
    <3> SUFFICES ASSUME NEW n \in 1..(m + k)
                 PROVE  es[n] \in {p[j] : j \in 1..m} \cup {q[j] : j \in 1..k}
      OBVIOUS
    <3>1. CASE n \in 1..m
      <4>1. es[n] = p[n] BY <1>1, <3>1
      <4> QED BY <3>1, <4>1
    <3>2. CASE n - m \in 1..k /\ es[n] = q[n - m]
      <4>1. q[n - m] \in {q[j] : j \in 1..k} BY <3>2
      <4> QED BY <3>2, <4>1
    <3> QED BY <2>4, <3>1, <3>2
  <2>7. {p[n] : n \in 1..m} \subseteq {es[n] : n \in 1..(m + k)} BY <1>1, <2>2
  <2>8. {q[n] : n \in 1..k} \subseteq {es[n] : n \in 1..(m + k)} BY <1>1, <2>3
  <2> QED BY <2>5, <2>6, <2>7, <2>8
<1>5. ASSUME NEW n \in 0..k PROVE Upto(h, es, m + n) = Upto(h \cup ToSet(p), q, n)
  <2>1. SubSeq(es, 1, m + n) = p \o SubSeq(q, 1, n)
    <3> DEFINE a == SubSeq(es, 1, m + n)
               r == SubSeq(q, 1, n)
               b == p \o r
    <3>1. r \in Seq(T) /\ Len(r) = n /\ \A j \in 1..n : r[j] = q[j] OBVIOUS
    <3>2. /\ b \in Seq(T) /\ Len(b) = m + n /\ \A j \in 1..m : b[j] = p[j]
          /\ \A j \in 1..n : b[m + j] = r[j]
      BY <3>1, Catenated
    <3>3. a \in Seq(T) /\ Len(a) = m + n /\ \A j \in 1..(m + n) : a[j] = es[j] BY <1>1
    <3> HIDE DEF a, b, r, es
    <3>4. \A j \in 1..(m + n) : a[j] = b[j]
      <4> SUFFICES ASSUME NEW j \in 1..(m + n) PROVE a[j] = b[j] OBVIOUS
      <4>1. CASE j \in 1..m BY <1>1, <3>2, <3>3, <4>1
      <4>2. CASE j \notin 1..m
        <5>1. j - m \in 1..n /\ j - m \in 1..k /\ j = m + (j - m) BY <1>1, <4>2
        <5>2. es[j] = q[j - m] BY <1>1, <5>1
        <5>3. b[j] = r[j - m] BY <3>2, <5>1
        <5> QED BY <3>1, <3>3, <5>1, <5>2, <5>3
      <4> QED BY <4>1, <4>2
    <3>5. a = b BY <3>2, <3>3, <3>4
    <3> QED BY <3>5 DEF a, b, r
  <2>2. SubSeq(q, 1, n) \in Seq(T) OBVIOUS
  <2>3. ToSet(p \o SubSeq(q, 1, n)) = ToSet(p) \cup ToSet(SubSeq(q, 1, n))
    <3> DEFINE r == SubSeq(q, 1, n)
               b == p \o r
    <3>1. b \in Seq(T) /\ Len(b) = m + Len(r) /\ Len(r) = n
          /\ (\A j \in 1..m : b[j] = p[j]) /\ \A j \in 1..Len(r) : b[m + j] = r[j]
      BY <2>2, Catenated
    <3>2. DOMAIN b = 1..(m + n) /\ DOMAIN p = 1..m /\ DOMAIN r = 1..n BY <2>2, <3>1
    <3> HIDE DEF b, r
    <3>3. \A j \in 1..(m + n) : j \in 1..m \/ (j - m \in 1..n /\ b[j] = r[j - m])
      <4> SUFFICES ASSUME NEW j \in 1..(m + n), j \notin 1..m PROVE j - m \in 1..n /\ b[j] = r[j - m]
        OBVIOUS
      <4>1. j - m \in 1..n /\ m + (j - m) = j BY <1>1
      <4> QED BY <3>1, <4>1
    <3>4. (\A j \in 1..m : j \in 1..(m + n)) /\ \A j \in 1..n : m + j \in 1..(m + n) BY <1>1
    <3> HIDE DEF m
    <3>5. ToSet(b) = ToSet(p) \cup ToSet(r) BY <3>1, <3>2, <3>3, <3>4 DEF ToSet
    <3> QED BY <3>5 DEF b, r
  <2> QED BY <2>1, <2>3 DEF Upto
<1>6. \A n \in 0..Len(es) : Sound(Upto(h, es, n))
  <2> SUFFICES ASSUME NEW n \in 0..Len(es) PROVE Sound(Upto(h, es, n)) OBVIOUS
  <2> HIDE DEF es
  <2>1. CASE n <= m
    <3>1. n \in 0..m BY <1>1, <2>1
    <3> QED BY <1>3, <3>1 DEF Good
  <2>2. CASE ~(n <= m)
    <3>1. n - m \in 0..k /\ m + (n - m) = n BY <1>1, <2>2
    <3>2. Upto(h, es, n) = Upto(h \cup ToSet(p), q, n - m) BY <1>5, <3>1
    <3> QED BY <3>1, <3>2 DEF Good
  <2> QED BY <2>1, <2>2
<1>7. \A n \in 1..Len(es) : Accepts(Upto(h, es, n - 1), es[n])
  <2> SUFFICES ASSUME NEW n \in 1..Len(es) PROVE Accepts(Upto(h, es, n - 1), es[n]) OBVIOUS
  <2> HIDE DEF es
  <2>1. CASE n <= m
    <3>1. n - 1 \in 0..m /\ n \in 1..m BY <1>1, <2>1
    <3>2. Upto(h, es, n - 1) = Upto(h, p, n - 1) /\ es[n] = p[n] BY <1>1, <1>3, <3>1
    <3> QED BY <3>1, <3>2 DEF Good
  <2>2. CASE ~(n <= m)
    <3>1. n - m \in 1..k /\ es[n] = q[n - m] BY <1>2, <2>2
    <3>2. (n - m) - 1 \in 0..k /\ m + ((n - m) - 1) = n - 1 BY <1>1, <3>1
    <3>3. Upto(h, es, n - 1) = Upto(h \cup ToSet(p), q, (n - m) - 1) BY <1>5, <3>2
    <3> QED BY <3>1, <3>3 DEF Good
  <2> QED BY <2>1, <2>2
<1> HIDE DEF es
<1>8. Good(h, es) BY <1>6, <1>7 DEF Good
<1> QED BY <1>1, <1>4, <1>8 DEF es

-----------------------------------------------------------------------------
(* Recovery: the ids of D are closed, each with the word it is given.      *)
Ended(h, kind, word, D) == h \cup {Entry(kind, x, <<word[x]>>) : x \in D}

(* The ids of a set, listed by SetToSeq: each once.                        *)
LEMMA Listed ==
  ASSUME NEW S, IsFiniteSet(S)
  PROVE  LET f == SetToSeq(S) IN
         /\ f \in [1..Cardinality(S) -> S] /\ Cardinality(S) \in Nat
         /\ \A i, j \in 1..Cardinality(S) : f[i] = f[j] => i = j
         /\ \A x \in S : \E i \in 1..Cardinality(S) : f[i] = x
<1> DEFINE n == Cardinality(S)
           f == SetToSeq(S)
<1>1. n \in Nat /\ ExistsBijection(1..n, S) BY FS_CardinalityType
<1>2. PICK b \in Bijection(1..n, S) : TRUE BY <1>1 DEF ExistsBijection
<1>3. b \in [1..n -> S] /\ IsInjective(b) BY <1>2 DEF Bijection, Injection
<1>4. f \in [1..n -> S] /\ IsInjective(f) BY <1>3 DEF SetToSeq
<1> HIDE DEF f
<1>5. f \in Injection(1..n, S) BY <1>4 DEF Injection
<1>6. IsFiniteSet(1..n) /\ Cardinality(1..n) = n BY <1>1, FS_Interval
<1>7. f \in Surjection(1..n, S) BY <1>5, <1>6, FS_Injection
<1>8. \A i, j \in 1..n : f[i] = f[j] => i = j BY <1>4 DEF IsInjective
<1>9. \A x \in S : \E i \in 1..n : f[i] = x BY <1>7 DEF Surjection
<1> QED BY <1>1, <1>4, <1>8, <1>9 DEF f

(* Closing appends one end after the other, in some order.                 *)
LEMMA GoodClosing ==
  ASSUME NEW h, NEW kind, NEW word, IsFiniteSet(DOMAIN word),
         \A D \in SUBSET DOMAIN word :
           /\ Sound(Ended(h, kind, word, D))
           /\ \A x \in DOMAIN word \ D :
                Accepts(Ended(h, kind, word, D), Entry(kind, x, <<word[x]>>))
  PROVE  /\ Good(h, Closing(kind, word))
         /\ h \cup ToSet(Closing(kind, word)) = Ended(h, kind, word, DOMAIN word)
         /\ Closing(kind, word) \in Seq(ToSet(Closing(kind, word)))
<1> DEFINE S == DOMAIN word
           n == Cardinality(S)
           ids == SetToSeq(S)
           es == Closing(kind, word)
           E(x) == Entry(kind, x, <<word[x]>>)
<1>1. /\ ids \in [1..n -> S] /\ n \in Nat
      /\ \A i, j \in 1..n : ids[i] = ids[j] => i = j
      /\ \A x \in S : \E i \in 1..n : ids[i] = x
  BY Listed
<1>2. es \in Seq(ToSet(es)) BY Closes
<1>3. es = [k \in 1..n |-> E(ids[k])] BY DEF Closing
<1> HIDE DEF n, ids, es
<1>4. Len(es) = n /\ DOMAIN es = 1..n /\ \A k \in 1..n : es[k] = E(ids[k]) BY <1>1, <1>2, <1>3
<1>5. ASSUME NEW k \in 0..n
      PROVE  Upto(h, es, k) = Ended(h, kind, word, {ids[j] : j \in 1..k})
  <2>1. DOMAIN SubSeq(es, 1, k) = 1..k /\ \A j \in 1..k : SubSeq(es, 1, k)[j] = es[j]
    BY <1>2, <1>4
  <2>2. ToSet(SubSeq(es, 1, k)) = {es[j] : j \in 1..k} BY <2>1 DEF ToSet
  <2>3. \A j \in 1..k : j \in 1..n BY <1>1
  <2> HIDE DEF E
  <2>4. {es[j] : j \in 1..k} = {E(x) : x \in {ids[j] : j \in 1..k}} BY <1>4, <2>3
  <2> QED BY <2>2, <2>4 DEF Upto, Ended, E
<1>6. ASSUME NEW k \in 0..n PROVE {ids[j] : j \in 1..k} \in SUBSET S
  <2>1. \A j \in 1..k : j \in 1..n BY <1>1
  <2> QED BY <1>1, <2>1
<1>7. \A k \in 0..n : Sound(Upto(h, es, k)) BY <1>5, <1>6
<1>8. ASSUME NEW k \in 1..n PROVE Accepts(Upto(h, es, k - 1), es[k])
  <2>1. k - 1 \in 0..n /\ k \notin 1..(k - 1) /\ \A j \in 1..(k - 1) : j \in 1..n BY <1>1
  <2>2. ids[k] \in S \ {ids[j] : j \in 1..(k - 1)} BY <1>1, <2>1
  <2>3. Accepts(Ended(h, kind, word, {ids[j] : j \in 1..(k - 1)}), E(ids[k])) BY <1>6, <2>1, <2>2
  <2> QED BY <1>4, <1>5, <2>1, <2>3
<1>9. Good(h, es) BY <1>4, <1>7, <1>8 DEF Good
<1>10. h \cup ToSet(es) = Ended(h, kind, word, S)
  <2>1. ToSet(es) = {es[j] : j \in 1..n} BY <1>4 DEF ToSet
  <2> HIDE DEF E
  <2>2. {es[j] : j \in 1..n} = {E(x) : x \in S} BY <1>1, <1>4
  <2> QED BY <2>1, <2>2 DEF Ended, E
<1> QED BY <1>2, <1>9, <1>10 DEF es

-----------------------------------------------------------------------------
(* What a history says after D is closed.                                  *)
LEMMA EndedPlaces ==
  ASSUME NEW h, NEW kind, NEW word, NEW D
  PROVE  \A k : Places(Ended(h, kind, word, D), k) = Places(h, k) \cup (IF k = kind THEN D ELSE {})
<1> SUFFICES ASSUME NEW k
             PROVE  Places(Ended(h, kind, word, D), k) = Places(h, k) \cup (IF k = kind THEN D ELSE {})
  OBVIOUS
<1> DEFINE g == Ended(h, kind, word, D)
<1>1. \A e \in g : e \in h \/ \E x \in D : e.kind = kind /\ e.id = x BY DEF Ended, Entry
<1>2. ASSUME NEW x \in D PROVE \E e \in g : e.kind = kind /\ e.id = x
  <2>1. Entry(kind, x, <<word[x]>>) \in g BY DEF Ended
  <2>2. Entry(kind, x, <<word[x]>>).kind = kind /\ Entry(kind, x, <<word[x]>>).id = x BY DEF Entry
  <2> QED BY <2>1, <2>2
<1>3. h \subseteq g BY DEF Ended
<1> HIDE DEF g
<1>4. Places(g, k) \subseteq Places(h, k) \cup (IF k = kind THEN D ELSE {}) BY <1>1 DEF Places
<1>5. Places(h, k) \cup (IF k = kind THEN D ELSE {}) \subseteq Places(g, k) BY <1>2, <1>3 DEF Places
<1> QED BY <1>4, <1>5 DEF g

(* Nothing is begun by it, asked for or counted.                           *)
LEMMA EndedSame ==
  ASSUME NEW h, NEW kind \in ClosingKinds, NEW word, NEW D,
         kind = "GenEnded" => \A x \in D : word[x] # "Completed"
  PROVE  LET g == Ended(h, kind, word, D) IN
         /\ Effective(g) = Effective(h)
         /\ \A k \in {"Message", "ToolIntent"} : \A x : Words(g, k, x) = Words(h, k, x)
         /\ \A x : CallsOf(g, x) = CallsOf(h, x)
         /\ \A r : IntentsOf(g, r) = IntentsOf(h, r)
<1> DEFINE g == Ended(h, kind, word, D)
<1>1. \A k : Places(g, k) = Places(h, k) \cup (IF k = kind THEN D ELSE {}) BY EndedPlaces
<1>2. \A e \in g : e \in h \/ \E x \in D : e = Entry(kind, x, <<word[x]>>) BY DEF Ended
<1>3. h \subseteq g BY DEF Ended
<1>4. \A k \in {"Message", "ToolIntent"} : k # kind BY DEF ClosingKinds
<1> HIDE DEF g
<1>5. \A e \in g : e.kind # kind => e \in h BY <1>2 DEF Entry
<1>6. ASSUME NEW k \in {"Message", "ToolIntent"}, NEW x PROVE Words(g, k, x) = Words(h, k, x)
  BY <1>3, <1>4, <1>5, Words1
<1>7. \A x : CallsOf(g, x) = CallsOf(h, x) BY <1>6 DEF CallsOf
<1>8. \A r : IntentsOf(g, r) = IntentsOf(h, r) BY <1>1, <1>4 DEF IntentsOf
<1>9. \A x : Says(g, "GenEnded", x, "Completed") <=> Says(h, "GenEnded", x, "Completed")
  <2> SUFFICES ASSUME NEW x, Says(g, "GenEnded", x, "Completed")
               PROVE  Says(h, "GenEnded", x, "Completed")
    BY <1>3 DEF Says
  <2>1. \A y \in D : Entry("GenEnded", x, <<"Completed">>) # Entry(kind, y, <<word[y]>>)
    <3> SUFFICES ASSUME NEW y \in D, Entry("GenEnded", x, <<"Completed">>) = Entry(kind, y, <<word[y]>>)
                 PROVE  FALSE
      OBVIOUS
    <3>1. kind = "GenEnded" /\ <<word[y]>> = <<"Completed">> BY DEF Entry
    <3>2. <<word[y]>>[1] = <<"Completed">>[1] BY <3>1
    <3> QED BY <3>1, <3>2
  <2> QED BY <1>2, <2>1 DEF Says
<1>10. Effective(g) = Effective(h)
  <2>1. \A k, x : Says(h, k, x, "Completed") => x \in Places(h, k) BY DEF Says, Places, Entry
  <2> QED BY <1>1, <1>9, <2>1 DEF Effective
<1> QED BY <1>6, <1>7, <1>8, <1>10 DEF g

(* What is open afterwards.                                                *)
LEMMA EndedOpen ==
  ASSUME NEW h, NEW kind \in ClosingKinds, NEW word, NEW D
  PROVE  LET g == Ended(h, kind, word, D)
             Less(k) == IF k = kind THEN D ELSE {}
         IN
         /\ OpenRuns(g) = OpenRuns(h) \ Less("RunEnd")
         /\ OpenTurns(g) = OpenTurns(h) \ Less("TurnEnded")
         /\ OpenGens(g) = OpenGens(h) \ Less("GenEnded")
         /\ OpenTools(g) = OpenTools(h) \ Less("ToolOutcome")
         /\ OpenInteractions(g) = OpenInteractions(h) \ Less("InteractionExpired")
<1> DEFINE g == Ended(h, kind, word, D)
<1>1. \A k : Places(g, k) = Places(h, k) \cup (IF k = kind THEN D ELSE {}) BY EndedPlaces
<1>2. kind \notin {"RunStarted", "TurnStarted", "GenStarted", "ToolIntent", "InteractionOpened", "InteractionResolved"}
  BY DEF ClosingKinds
<1> HIDE DEF g
<1>3. OpenRuns(g) = OpenRuns(h) \ (IF "RunEnd" = kind THEN D ELSE {}) BY <1>1, <1>2 DEF OpenRuns
<1>4. OpenTurns(g) = OpenTurns(h) \ (IF "TurnEnded" = kind THEN D ELSE {}) BY <1>1, <1>2 DEF OpenTurns
<1>5. OpenGens(g) = OpenGens(h) \ (IF "GenEnded" = kind THEN D ELSE {}) BY <1>1, <1>2 DEF OpenGens
<1>6. OpenTools(g) = OpenTools(h) \ (IF "ToolOutcome" = kind THEN D ELSE {}) BY <1>1, <1>2 DEF OpenTools
<1>7. OpenInteractions(g) = OpenInteractions(h) \ (IF "InteractionExpired" = kind THEN D ELSE {})
  BY <1>1, <1>2 DEF OpenInteractions
<1> QED BY <1>3, <1>4, <1>5, <1>6, <1>7 DEF g

(* What can be settled is what could be, of the calls that are open.       *)
LEMMA EndedSettleable ==
  ASSUME NEW h, NEW kind \in ClosingKinds, NEW word, NEW D, NEW tools,
         kind = "GenEnded" => \A x \in D : word[x] # "Completed"
  PROVE  LET g == Ended(h, kind, word, D) IN
         Settleable(g, tools) = Settleable(h, tools) \ (IF kind = "ToolOutcome" THEN D ELSE {})
<1> DEFINE g == Ended(h, kind, word, D)
<1>1. OpenTools(g) = OpenTools(h) \ (IF kind = "ToolOutcome" THEN D ELSE {}) BY EndedOpen
<1>2. \A x : Words(g, "ToolIntent", x) = Words(h, "ToolIntent", x) BY EndedSame
<1> HIDE DEF g
<1>3. Settleable(g, tools) = Settleable(h, tools) \ (IF kind = "ToolOutcome" THEN D ELSE {})
  BY <1>1, <1>2 DEF Settleable
<1> QED BY <1>3 DEF g

-----------------------------------------------------------------------------
(* Recovery closes from the inside out: what it has not closed yet is      *)
(* still in something open.                                                *)
LEMMA EndedSound ==
  ASSUME NEW h, Sound(h), NEW kind \in ClosingKinds, NEW word, NEW D,
         kind = "GenEnded" => \A x \in D : word[x] # "Completed",
         kind = "InteractionExpired" => D \subseteq OpenInteractions(h),
         kind = "GenEnded" => D \subseteq OpenGens(h),
         kind = "ToolOutcome" => D \subseteq OpenTools(h),
         kind = "TurnEnded" => D \subseteq OpenTurns(h),
         kind = "RunEnd" => D \subseteq OpenRuns(h),
         kind = "TurnEnded" => /\ OpenGens(h) = {} /\ OpenInteractions(h) = {}
                               /\ \A tools \in Installs : Settleable(h, tools) = {},
         kind = "RunEnd" => OpenTurns(h) = {} /\ OpenGens(h) = {}
  PROVE  Sound(Ended(h, kind, word, D))
<1> DEFINE g == Ended(h, kind, word, D)
<1>1. /\ OpenRuns(g) = OpenRuns(h) \ (IF "RunEnd" = kind THEN D ELSE {})
      /\ OpenTurns(g) = OpenTurns(h) \ (IF "TurnEnded" = kind THEN D ELSE {})
      /\ OpenGens(g) \subseteq OpenGens(h)
      /\ OpenInteractions(g) \subseteq OpenInteractions(h)
  BY EndedOpen
<1>2. \A tools : Settleable(g, tools) \subseteq Settleable(h, tools) BY EndedSettleable
<1>3. /\ Effective(g) = Effective(h)
      /\ \A x : Words(g, "Message", x) = Words(h, "Message", x)
      /\ \A x : CallsOf(g, x) = CallsOf(h, x)
      /\ \A r : IntentsOf(g, r) = IntentsOf(h, r)
  BY EndedSame
<1>4. \A k : Places(g, k) = Places(h, k) \cup (IF k = kind THEN D ELSE {}) BY EndedPlaces
<1>5. \A e \in g : e.kind = "ToolIntent" => e \in h BY DEF Ended, Entry, ClosingKinds
<1>6. Nested(h) /\ Called(h) /\ Budgeted(h) /\ Paired(h) /\ Sourced(h) BY DEF Sound
<1>15. h \subseteq g /\ \A e \in g : e.kind \in {"RunStarted", "InputConsumed"} => e \in h
  BY DEF Ended, Entry, ClosingKinds
<1> HIDE DEF g
<1>16. Sourced(g) BY <1>6, <1>15 DEF Sourced
<1>7. \A t \in OpenTurns(g) : RunOf(t) \in OpenRuns(g) BY <1>1, <1>6 DEF Nested
<1>8. \A x \in OpenGens(g) : RunOf(x) \in OpenRuns(g) /\ (Conversation(x) => x \in OpenTurns(g))
  BY <1>1, <1>6 DEF Nested
<1>9. \A x \in OpenInteractions(g) : TurnOf(x) \in OpenTurns(g) BY <1>1, <1>6 DEF Nested
<1>10. \A tools \in Installs : \A x \in Settleable(g, tools) : TurnOf(x) \in OpenTurns(g)
  BY <1>1, <1>2, <1>6 DEF Nested
<1>11. Nested(g) BY <1>7, <1>8, <1>9, <1>10 DEF Nested
<1>12. Called(g)
  <2>1. \A e \in g : IntentOK(g, e) BY <1>3, <1>5, <1>6 DEF Called, IntentOK
  <2>2. Places(g, "ToolOutcome") \subseteq Places(g, "ToolIntent")
    <3>1. kind = "ToolOutcome" => D \subseteq Places(h, "ToolIntent") BY DEF OpenTools
    <3> QED BY <1>4, <1>6, <3>1 DEF Called
  <2> QED BY <2>1, <2>2 DEF Called
<1>13. Budgeted(g) BY <1>1, <1>3, <1>6 DEF Budgeted
<1>14. Paired(g)
  <2>1. /\ kind = "InteractionExpired" => D \subseteq Places(h, "InteractionOpened")
        /\ kind = "GenEnded" => D \subseteq Places(h, "GenStarted")
        /\ kind = "TurnEnded" => D \subseteq Places(h, "TurnStarted")
        /\ kind = "RunEnd" => D \subseteq Places(h, "RunStarted")
    BY DEF OpenInteractions, OpenGens, OpenTurns, OpenRuns
  <2>2. kind \notin {"RunStarted", "TurnStarted", "GenStarted", "ToolIntent", "Message",
                    "InteractionOpened", "InteractionResolved"}
    BY DEF ClosingKinds
  <2> QED BY <1>4, <1>6, <2>1, <2>2 DEF Paired
<1> QED BY <1>11, <1>12, <1>13, <1>14, <1>16 DEF Sound, g

-----------------------------------------------------------------------------
(* The five phases of recovery, each on what the one before it left.       *)
LEMMA PhaseInteractions ==
  ASSUME NEW h, Sound(h), NEW word, DOMAIN word \subseteq OpenInteractions(h)
  PROVE  \A D \in SUBSET DOMAIN word :
           LET g == Ended(h, "InteractionExpired", word, D) IN
           /\ Sound(g)
           /\ \A x \in DOMAIN word \ D : Accepts(g, Entry("InteractionExpired", x, <<word[x]>>))
<1> SUFFICES ASSUME NEW D \in SUBSET DOMAIN word
             PROVE  LET g == Ended(h, "InteractionExpired", word, D) IN
                    /\ Sound(g)
                    /\ \A x \in DOMAIN word \ D : Accepts(g, Entry("InteractionExpired", x, <<word[x]>>))
  OBVIOUS
<1> DEFINE g == Ended(h, "InteractionExpired", word, D)
<1>1. Sound(g) BY EndedSound DEF ClosingKinds
<1>2. OpenInteractions(g) = OpenInteractions(h) \ D BY EndedOpen DEF ClosingKinds
<1> HIDE DEF g
<1>3. \A x \in DOMAIN word \ D : Accepts(g, Entry("InteractionExpired", x, <<word[x]>>))
  BY <1>2 DEF Accepts, InteractionRule, Entry
<1> QED BY <1>1, <1>3 DEF g

(* The generations.                                                        *)
LEMMA PhaseGens ==
  ASSUME NEW h, Sound(h), NEW word, DOMAIN word \subseteq OpenGens(h),
         \A x \in DOMAIN word : word[x] = "Interrupted"
  PROVE  \A D \in SUBSET DOMAIN word :
           LET g == Ended(h, "GenEnded", word, D) IN
           /\ Sound(g)
           /\ \A x \in DOMAIN word \ D : Accepts(g, Entry("GenEnded", x, <<word[x]>>))
<1> SUFFICES ASSUME NEW D \in SUBSET DOMAIN word
             PROVE  LET g == Ended(h, "GenEnded", word, D) IN
                    /\ Sound(g)
                    /\ \A x \in DOMAIN word \ D : Accepts(g, Entry("GenEnded", x, <<word[x]>>))
  OBVIOUS
<1> DEFINE g == Ended(h, "GenEnded", word, D)
<1>1. Sound(g) BY EndedSound DEF ClosingKinds
<1>2. OpenGens(g) = OpenGens(h) \ D BY EndedOpen DEF ClosingKinds
<1>3. Nested(g) BY <1>1 DEF Sound
<1> HIDE DEF g
<1>4. ASSUME NEW x \in DOMAIN word \ D PROVE Accepts(g, Entry("GenEnded", x, <<word[x]>>))
  <2> DEFINE e == Entry("GenEnded", x, <<word[x]>>)
  <2>1. e.kind = "GenEnded" /\ e.id = x /\ e.words = <<word[x]>> BY DEF Entry
  <2>2. x \in OpenGens(g) BY <1>2
  <2>3. RunOf(x) \in OpenRuns(g) /\ (Conversation(x) => x \in OpenTurns(g)) BY <1>3, <2>2 DEF Nested
  <2>4. <<word[x]>> # <<"Completed">>
    <3> SUFFICES ASSUME <<word[x]>> = <<"Completed">> PROVE FALSE OBVIOUS
    <3>1. <<word[x]>>[1] = <<"Completed">>[1] OBVIOUS
    <3> QED BY <3>1
  <2> HIDE DEF e
  <2> QED BY <2>1, <2>2, <2>3, <2>4 DEF Accepts, GenRule, e
<1> QED BY <1>1, <1>4 DEF g

(* The calls that can be closed.                                           *)
LEMMA PhaseTools ==
  ASSUME NEW h, Sound(h), NEW tools \in Installs, NEW word, DOMAIN word \subseteq Settleable(h, tools),
         OpenGens(h) = {}, OpenInteractions(h) = {}, \A x \in DOMAIN word : x \in Ids
  PROVE  \A D \in SUBSET DOMAIN word :
           LET g == Ended(h, "ToolOutcome", word, D) IN
           /\ Sound(g)
           /\ \A x \in DOMAIN word \ D : Accepts(g, Entry("ToolOutcome", x, <<word[x]>>))
<1> SUFFICES ASSUME NEW D \in SUBSET DOMAIN word
             PROVE  LET g == Ended(h, "ToolOutcome", word, D) IN
                    /\ Sound(g)
                    /\ \A x \in DOMAIN word \ D : Accepts(g, Entry("ToolOutcome", x, <<word[x]>>))
  OBVIOUS
<1> DEFINE g == Ended(h, "ToolOutcome", word, D)
<1>1. DOMAIN word \subseteq OpenTools(h) BY DEF Settleable
<1>2. Sound(g)
  <2>1. D \subseteq OpenTools(h) BY <1>1
  <2> QED BY <2>1, EndedSound DEF ClosingKinds
<1>3. OpenTools(g) = OpenTools(h) \ D /\ OpenGens(g) = {} /\ OpenInteractions(g) = {}
      /\ OpenTurns(g) = OpenTurns(h)
  BY EndedOpen DEF ClosingKinds
<1>4. Nested(g) BY <1>2 DEF Sound
<1> HIDE DEF g
<1>5. ASSUME NEW x \in DOMAIN word \ D PROVE Accepts(g, Entry("ToolOutcome", x, <<word[x]>>))
  <2> DEFINE e == Entry("ToolOutcome", x, <<word[x]>>)
  <2>1. e.kind = "ToolOutcome" /\ e.id = x BY DEF Entry
  <2>2. x \in OpenTools(g) BY <1>1, <1>3
  <2>3. TurnOf(x) \in OpenTurns(g) BY <1>3 DEF Sound, Nested
  <2>4. RunOf(TurnOf(x)) \in OpenRuns(g) BY <1>4, <2>3 DEF Nested
  <2>5. RunOf(TurnOf(x)) = RunOf(x) BY DEF RunOf, TurnOf
  <2> HIDE DEF e
  <2> QED BY <1>3, <2>1, <2>2, <2>3, <2>4, <2>5 DEF Accepts, ToolRule, e
<1> QED BY <1>2, <1>5 DEF g

(* The turns.                                                              *)
LEMMA PhaseTurns ==
  ASSUME NEW h, Sound(h), NEW word, DOMAIN word \subseteq OpenTurns(h),
         \A x \in DOMAIN word : word[x] = "Interrupted",
         OpenGens(h) = {}, OpenInteractions(h) = {}, \A tools \in Installs : Settleable(h, tools) = {}
  PROVE  \A D \in SUBSET DOMAIN word :
           LET g == Ended(h, "TurnEnded", word, D) IN
           /\ Sound(g)
           /\ \A x \in DOMAIN word \ D : Accepts(g, Entry("TurnEnded", x, <<word[x]>>))
<1> SUFFICES ASSUME NEW D \in SUBSET DOMAIN word
             PROVE  LET g == Ended(h, "TurnEnded", word, D) IN
                    /\ Sound(g)
                    /\ \A x \in DOMAIN word \ D : Accepts(g, Entry("TurnEnded", x, <<word[x]>>))
  OBVIOUS
<1> DEFINE g == Ended(h, "TurnEnded", word, D)
<1>1. Sound(g) BY EndedSound DEF ClosingKinds
<1>2. OpenTurns(g) = OpenTurns(h) \ D /\ OpenGens(g) = {} /\ OpenInteractions(g) = {}
  BY EndedOpen DEF ClosingKinds
<1>3. Nested(g) BY <1>1 DEF Sound
<1> HIDE DEF g
<1>4. ASSUME NEW x \in DOMAIN word \ D PROVE Accepts(g, Entry("TurnEnded", x, <<word[x]>>))
  <2> DEFINE e == Entry("TurnEnded", x, <<word[x]>>)
  <2>1. e.kind = "TurnEnded" /\ e.id = x /\ e.words = <<"Interrupted">> BY DEF Entry
  <2>2. x \in OpenTurns(g) /\ RunOf(x) \in OpenRuns(g) BY <1>2, <1>3 DEF Nested
  <2>3. <<"Interrupted">> # <<"Completed">> OBVIOUS
  <2> HIDE DEF e
  <2> QED BY <1>2, <2>1, <2>2, <2>3 DEF Accepts, TurnEndRule, e
<1> QED BY <1>1, <1>4 DEF g

(* The runs.                                                               *)
LEMMA PhaseRuns ==
  ASSUME NEW h, Sound(h), NEW word, DOMAIN word \subseteq OpenRuns(h),
         \A x \in DOMAIN word : word[x] # "Completed",
         OpenGens(h) = {}, OpenTurns(h) = {}
  PROVE  \A D \in SUBSET DOMAIN word :
           LET g == Ended(h, "RunEnd", word, D) IN
           /\ Sound(g)
           /\ \A x \in DOMAIN word \ D : Accepts(g, Entry("RunEnd", x, <<word[x]>>))
<1> SUFFICES ASSUME NEW D \in SUBSET DOMAIN word
             PROVE  LET g == Ended(h, "RunEnd", word, D) IN
                    /\ Sound(g)
                    /\ \A x \in DOMAIN word \ D : Accepts(g, Entry("RunEnd", x, <<word[x]>>))
  OBVIOUS
<1> DEFINE g == Ended(h, "RunEnd", word, D)
<1>1. Sound(g) BY EndedSound DEF ClosingKinds
<1>2. OpenRuns(g) = OpenRuns(h) \ D /\ OpenGens(g) = {} /\ OpenTurns(g) = {}
  BY EndedOpen DEF ClosingKinds
<1>3. Budgeted(g) BY <1>1 DEF Sound
<1> HIDE DEF g
<1>4. ASSUME NEW x \in DOMAIN word \ D PROVE Accepts(g, Entry("RunEnd", x, <<word[x]>>))
  <2> DEFINE e == Entry("RunEnd", x, <<word[x]>>)
  <2>1. e.kind = "RunEnd" /\ e.id = x /\ e.words = <<word[x]>> BY DEF Entry
  <2>2. x \in OpenRuns(g) BY <1>2
  <2>3. x = <<x[1], 0, 0>> /\ Cardinality(IntentsOf(g, x[1])) <= MaxCalls BY <1>3, <2>2 DEF Budgeted
  <2>4. {y \in Places(g, "ToolIntent") : RunOf(y) = x} = IntentsOf(g, x[1])
    <3>1. \A y : RunOf(y) = x <=> y[1] = x[1] BY <2>3 DEF RunOf
    <3> QED BY <3>1 DEF IntentsOf
  <2>5. <<word[x]>> # <<"Completed">>
    <3> SUFFICES ASSUME <<word[x]>> = <<"Completed">> PROVE FALSE OBVIOUS
    <3>1. <<word[x]>>[1] = <<"Completed">>[1] OBVIOUS
    <3> QED BY <3>1
  <2>6. RunEndRule(g, e)
    <3>1. Cardinality({y \in Places(g, "ToolIntent") : RunOf(y) = e.id}) <= MaxCalls
      BY <2>1, <2>3, <2>4
    <3> HIDE DEF e
    <3> QED BY <1>2, <2>1, <2>2, <2>5, <3>1 DEF RunEndRule
  <2> QED BY <2>6 DEF Accepts
<1> QED BY <1>1, <1>4 DEF g

-----------------------------------------------------------------------------
(* All of recovery: it is never refused, and no run is open afterwards.    *)
THEOREM SettlementGood ==
  ASSUME OneInstall, NEW h, Sound(h), IsFiniteSet(h), \A e \in h : e.id \in Ids,
         NEW r, NEW tools \in Installs
  PROVE  LET es == Settlement(h, r, tools) IN
         /\ Good(h, es) /\ \E T : es \in Seq(T)
         /\ OpenRuns(h \cup ToSet(es)) = {}
         /\ \A e \in ToSet(es) :
              /\ e.kind \in ClosingKinds
              /\ e.kind = "RunEnd" =>
                   \E x \in OpenRuns(h) : e = Entry("RunEnd", x, <<RunEnds(h, r)[x]>>)
         /\ \A x \in OpenRuns(h) : Entry("RunEnd", x, <<RunEnds(h, r)[x]>>) \in ToSet(es)
<1> DEFINE w1 == EndAll(OpenInteractions(h), "Recovery")
           w2 == EndAll(OpenGens(h), "Interrupted")
           w3 == Outcomes(h, tools)
           w4 == EndAll(OpenTurns(h), "Interrupted")
           w5 == RunEnds(h, r)
           c1 == Closing("InteractionExpired", w1)
           c2 == Closing("GenEnded", w2)
           c3 == Closing("ToolOutcome", w3)
           c4 == Closing("TurnEnded", w4)
           c5 == Closing("RunEnd", w5)
           h1 == Ended(h, "InteractionExpired", w1, DOMAIN w1)
           h2 == Ended(h1, "GenEnded", w2, DOMAIN w2)
           h3 == Ended(h2, "ToolOutcome", w3, DOMAIN w3)
           h4 == Ended(h3, "TurnEnded", w4, DOMAIN w4)
           h5 == Ended(h4, "RunEnd", w5, DOMAIN w5)
<1>1. Settlement(h, r, tools) = c1 \o c2 \o c3 \o c4 \o c5 BY DEF Settlement
<1>2. /\ DOMAIN w1 = OpenInteractions(h) /\ DOMAIN w2 = OpenGens(h)
      /\ DOMAIN w3 = Settleable(h, tools) /\ DOMAIN w4 = OpenTurns(h) /\ DOMAIN w5 = OpenRuns(h)
  BY DEF EndAll, Outcomes, RunEnds
<1>3. /\ \A x \in DOMAIN w2 : w2[x] = "Interrupted"
      /\ \A x \in DOMAIN w4 : w4[x] = "Interrupted"
      /\ \A x \in DOMAIN w5 : w5[x] # "Completed"
  BY DEF EndAll, RunEnds
<1>4. /\ IsFiniteSet(DOMAIN w1) /\ IsFiniteSet(DOMAIN w2) /\ IsFiniteSet(DOMAIN w3)
      /\ IsFiniteSet(DOMAIN w4) /\ IsFiniteSet(DOMAIN w5)
  <2>1. \A k : IsFiniteSet(Places(h, k)) BY PlacesFinite
  <2>2. /\ OpenInteractions(h) \subseteq Places(h, "InteractionOpened")
        /\ OpenGens(h) \subseteq Places(h, "GenStarted")
        /\ Settleable(h, tools) \subseteq Places(h, "ToolIntent")
        /\ OpenTurns(h) \subseteq Places(h, "TurnStarted")
        /\ OpenRuns(h) \subseteq Places(h, "RunStarted")
    BY DEF OpenInteractions, OpenGens, Settleable, OpenTools, OpenTurns, OpenRuns
  <2> QED BY <1>2, <2>1, <2>2, FS_Subset
<1>5. \A x \in DOMAIN w3 : x \in Ids
  <2>1. \A x \in Places(h, "ToolIntent") : x \in Ids BY DEF Places
  <2> QED BY <1>2, <2>1 DEF Settleable, OpenTools
<1> HIDE DEF w1, w2, w3, w4, w5
<1>6. /\ Good(h, c1) /\ h \cup ToSet(c1) = h1 /\ c1 \in Seq(ToSet(c1)) /\ Sound(h1)
  <2>1. \A D \in SUBSET DOMAIN w1 :
          /\ Sound(Ended(h, "InteractionExpired", w1, D))
          /\ \A x \in DOMAIN w1 \ D :
               Accepts(Ended(h, "InteractionExpired", w1, D), Entry("InteractionExpired", x, <<w1[x]>>))
    BY <1>2, PhaseInteractions
  <2> QED BY <1>4, <2>1, GoodClosing
<1>7. /\ OpenRuns(h1) = OpenRuns(h) /\ OpenTurns(h1) = OpenTurns(h) /\ OpenGens(h1) = OpenGens(h)
      /\ OpenInteractions(h1) = {}
      /\ \A t : Settleable(h1, t) = Settleable(h, t)
  BY <1>2, EndedOpen, EndedSettleable DEF ClosingKinds
<1> HIDE DEF c1, h1
<1>8. /\ Good(h1, c2) /\ h1 \cup ToSet(c2) = h2 /\ c2 \in Seq(ToSet(c2)) /\ Sound(h2)
  <2>1. \A D \in SUBSET DOMAIN w2 :
          /\ Sound(Ended(h1, "GenEnded", w2, D))
          /\ \A x \in DOMAIN w2 \ D :
               Accepts(Ended(h1, "GenEnded", w2, D), Entry("GenEnded", x, <<w2[x]>>))
    BY <1>2, <1>3, <1>6, <1>7, PhaseGens
  <2> QED BY <1>4, <2>1, GoodClosing
<1>9. /\ OpenRuns(h2) = OpenRuns(h) /\ OpenTurns(h2) = OpenTurns(h) /\ OpenGens(h2) = {}
      /\ OpenInteractions(h2) = {}
      /\ \A t : Settleable(h2, t) = Settleable(h, t)
  <2>1. /\ OpenRuns(h2) = OpenRuns(h1) /\ OpenTurns(h2) = OpenTurns(h1)
        /\ OpenGens(h2) = OpenGens(h1) \ DOMAIN w2
        /\ OpenInteractions(h2) = OpenInteractions(h1)
    BY EndedOpen DEF ClosingKinds
  <2>2. \A x \in DOMAIN w2 : w2[x] # "Completed" BY <1>3
  <2>3. \A t : Settleable(h2, t) = Settleable(h1, t) BY <2>2, EndedSettleable DEF ClosingKinds
  <2> HIDE DEF h2
  <2> QED BY <1>2, <1>7, <2>1, <2>3
<1> HIDE DEF c2, h2
<1>10. /\ Good(h2, c3) /\ h2 \cup ToSet(c3) = h3 /\ c3 \in Seq(ToSet(c3)) /\ Sound(h3)
  <2>1. \A D \in SUBSET DOMAIN w3 :
          /\ Sound(Ended(h2, "ToolOutcome", w3, D))
          /\ \A x \in DOMAIN w3 \ D :
               Accepts(Ended(h2, "ToolOutcome", w3, D), Entry("ToolOutcome", x, <<w3[x]>>))
    BY <1>2, <1>5, <1>8, <1>9, PhaseTools
  <2> QED BY <1>4, <2>1, GoodClosing
<1>11. /\ OpenRuns(h3) = OpenRuns(h) /\ OpenTurns(h3) = OpenTurns(h) /\ OpenGens(h3) = {}
       /\ OpenInteractions(h3) = {}
       /\ \A t \in Installs : Settleable(h3, t) = {}
  <2>1. \A t \in Installs : t = tools BY DEF OneInstall
  <2>2. Settleable(h3, tools) = Settleable(h2, tools) \ DOMAIN w3 BY EndedSettleable DEF ClosingKinds
  <2>3. Settleable(h3, tools) = {} BY <1>2, <1>9, <2>2
  <2>4. /\ OpenRuns(h3) = OpenRuns(h2) /\ OpenTurns(h3) = OpenTurns(h2) /\ OpenGens(h3) = OpenGens(h2)
        /\ OpenInteractions(h3) = OpenInteractions(h2)
    BY EndedOpen DEF ClosingKinds
  <2> HIDE DEF h3
  <2> QED BY <1>9, <2>1, <2>3, <2>4
<1> HIDE DEF c3, h3
<1>12. /\ Good(h3, c4) /\ h3 \cup ToSet(c4) = h4 /\ c4 \in Seq(ToSet(c4)) /\ Sound(h4)
  <2>1. \A D \in SUBSET DOMAIN w4 :
          /\ Sound(Ended(h3, "TurnEnded", w4, D))
          /\ \A x \in DOMAIN w4 \ D :
               Accepts(Ended(h3, "TurnEnded", w4, D), Entry("TurnEnded", x, <<w4[x]>>))
    BY <1>2, <1>3, <1>10, <1>11, PhaseTurns
  <2> QED BY <1>4, <2>1, GoodClosing
<1>13. OpenRuns(h4) = OpenRuns(h) /\ OpenTurns(h4) = {} /\ OpenGens(h4) = {}
  BY <1>2, <1>11, EndedOpen DEF ClosingKinds
<1> HIDE DEF c4, h4
<1>14. /\ Good(h4, c5) /\ h4 \cup ToSet(c5) = h5 /\ c5 \in Seq(ToSet(c5)) /\ Sound(h5)
  <2>1. \A D \in SUBSET DOMAIN w5 :
          /\ Sound(Ended(h4, "RunEnd", w5, D))
          /\ \A x \in DOMAIN w5 \ D :
               Accepts(Ended(h4, "RunEnd", w5, D), Entry("RunEnd", x, <<w5[x]>>))
    BY <1>2, <1>3, <1>12, <1>13, PhaseRuns
  <2> QED BY <1>4, <2>1, GoodClosing
<1>15. OpenRuns(h5) = {} BY <1>2, <1>13, EndedOpen DEF ClosingKinds
<1>16. \A x \in OpenRuns(h) : Entry("RunEnd", x, <<w5[x]>>) \in ToSet(c5)
  <2>1. \A x \in OpenRuns(h) : Entry("RunEnd", x, <<w5[x]>>) \in h5 BY <1>2 DEF Ended
  <2>2. \A x \in OpenRuns(h) : Entry("RunEnd", x, <<w5[x]>>) \notin h4
    <3> SUFFICES ASSUME NEW x \in OpenRuns(h), Entry("RunEnd", x, <<w5[x]>>) \in h4 PROVE FALSE OBVIOUS
    <3>1. x \in Places(h4, "RunEnd") BY DEF Places, Entry
    <3> QED BY <1>13, <3>1 DEF OpenRuns
  <2> QED BY <1>14, <2>1, <2>2
<1> HIDE DEF h5
<1>17. \A e \in ToSet(c5) : \E x \in OpenRuns(h) : e = Entry("RunEnd", x, <<w5[x]>>)
  <2>1. \A e \in ToSet(c5) : \E x \in DOMAIN w5 : e = Entry("RunEnd", x, <<w5[x]>>)
    BY <1>4, Closes
  <2> QED BY <1>2, <2>1
<1>18. /\ \A e \in ToSet(c1) : e.kind = "InteractionExpired"
       /\ \A e \in ToSet(c2) : e.kind = "GenEnded"
       /\ \A e \in ToSet(c3) : e.kind = "ToolOutcome"
       /\ \A e \in ToSet(c4) : e.kind = "TurnEnded"
  <2>1. \A e \in ToSet(c1) : \E x \in DOMAIN w1 : e = Entry("InteractionExpired", x, <<w1[x]>>)
    BY <1>4, Closes DEF c1
  <2>2. \A e \in ToSet(c2) : \E x \in DOMAIN w2 : e = Entry("GenEnded", x, <<w2[x]>>)
    BY <1>4, Closes DEF c2
  <2>3. \A e \in ToSet(c3) : \E x \in DOMAIN w3 : e = Entry("ToolOutcome", x, <<w3[x]>>)
    BY <1>4, Closes DEF c3
  <2>4. \A e \in ToSet(c4) : \E x \in DOMAIN w4 : e = Entry("TurnEnded", x, <<w4[x]>>)
    BY <1>4, Closes DEF c4
  <2> QED BY <2>1, <2>2, <2>3, <2>4 DEF Entry
<1> HIDE DEF c5
<1> DEFINE T == ToSet(c1) \cup ToSet(c2) \cup ToSet(c3) \cup ToSet(c4) \cup ToSet(c5)
<1>19. c1 \in Seq(T) /\ c2 \in Seq(T) /\ c3 \in Seq(T) /\ c4 \in Seq(T) /\ c5 \in Seq(T)
  BY <1>6, <1>8, <1>10, <1>12, <1>14
<1>20. \A e \in T : /\ e.kind \in ClosingKinds
                    /\ e.kind = "RunEnd" => \E x \in OpenRuns(h) : e = Entry("RunEnd", x, <<w5[x]>>)
  <2>1. \A e \in ToSet(c5) : e.kind = "RunEnd" BY <1>17 DEF Entry
  <2> QED BY <1>17, <1>18, <2>1 DEF ClosingKinds
<1>21. ToSet(c5) \subseteq T OBVIOUS
<1>22. /\ Good(h, c1 \o c2) /\ c1 \o c2 \in Seq(T) /\ ToSet(c1 \o c2) = ToSet(c1) \cup ToSet(c2)
  <2>1. Good(h, c1) /\ Good(h \cup ToSet(c1), c2) BY <1>6, <1>8
  <2>2. c1 \in Seq(T) /\ c2 \in Seq(T) BY <1>19
  <2> QED BY <2>1, <2>2, GoodThen
<1> HIDE DEF T
<1> DEFINE s2 == c1 \o c2
<1>23. Good(h, s2) /\ s2 \in Seq(T) /\ ToSet(s2) = ToSet(c1) \cup ToSet(c2) BY <1>22
<1> HIDE DEF s2
<1>24. h \cup ToSet(s2) = h2 BY <1>6, <1>8, <1>23
<1> DEFINE s3 == s2 \o c3
<1>25. Good(h, s3) /\ s3 \in Seq(T) /\ ToSet(s3) = ToSet(s2) \cup ToSet(c3)
  <2>1. Good(h \cup ToSet(s2), c3) BY <1>10, <1>24
  <2>2. s2 \in Seq(T) /\ c3 \in Seq(T) /\ Good(h, s2) BY <1>19, <1>23
  <2> QED BY <2>1, <2>2, GoodThen DEF s3
<1> HIDE DEF s3
<1>26. h \cup ToSet(s3) = h3 BY <1>10, <1>24, <1>25
<1> DEFINE s4 == s3 \o c4
<1>27. Good(h, s4) /\ s4 \in Seq(T) /\ ToSet(s4) = ToSet(s3) \cup ToSet(c4)
  <2>1. Good(h \cup ToSet(s3), c4) BY <1>12, <1>26
  <2>2. s3 \in Seq(T) /\ c4 \in Seq(T) /\ Good(h, s3) BY <1>19, <1>25
  <2> QED BY <2>1, <2>2, GoodThen DEF s4
<1> HIDE DEF s4
<1>28. h \cup ToSet(s4) = h4 BY <1>12, <1>26, <1>27
<1> DEFINE s5 == s4 \o c5
<1>29. Good(h, s5) /\ s5 \in Seq(T) /\ ToSet(s5) = ToSet(s4) \cup ToSet(c5)
  <2>1. Good(h \cup ToSet(s4), c5) BY <1>14, <1>28
  <2>2. s4 \in Seq(T) /\ c5 \in Seq(T) /\ Good(h, s4) BY <1>19, <1>27
  <2>3. Good(h, s4 \o c5) /\ s4 \o c5 \in Seq(T) /\ ToSet(s4 \o c5) = ToSet(s4) \cup ToSet(c5)
    BY <2>1, <2>2, GoodThen
  <2> QED BY <2>3
<1> HIDE DEF s5
<1>30. h \cup ToSet(s5) = h5 BY <1>14, <1>28, <1>29
<1>31. Settlement(h, r, tools) = s5 BY <1>1 DEF s2, s3, s4, s5
<1>32. ToSet(s5) \subseteq T /\ ToSet(c5) \subseteq ToSet(s5) BY <1>29, Within
<1> QED BY <1>15, <1>16, <1>20, <1>29, <1>30, <1>31, <1>32 DEF w5

-----------------------------------------------------------------------------
(* Where the task stands in the history, at step s, id x, result res and   *)
(* with question q.                                                        *)

(* Steps that are inside a tool call.                                      *)
Inside(s, x) == s \in {"call", "run", "ask", "result"} \/ (s = "generate" /\ ~Conversation(x))

(* What is open.                                                           *)
OpenAt(h, s, x, q) ==
  /\ OpenRuns(h) = {RunOf(x)}
  /\ OpenTurns(h) = IF s \in {"next", "end"} THEN {} ELSE {TurnOf(x)}
  /\ OpenGens(h) = IF s = "generate" THEN {x} ELSE {}
  /\ OpenTools(h) = IF Inside(s, x) /\ s # "call" THEN {x} ELSE {}
  /\ OpenInteractions(h) = IF s = "ask" /\ q = "pending" THEN {x} ELSE {}

(* The turns and generations of run r: one each, in order up to n, all but *)
(* the last with a call.                                                   *)
TurnsTo(r, n) == {<<r, t, 0>> : t \in 1..n}
NumberedTo(h, r, n) ==
  /\ {t \in Places(h, "TurnStarted") : t[1] = r} = TurnsTo(r, n)
  /\ {g \in Places(h, "GenStarted") : g[1] = r /\ Conversation(g)} = TurnsTo(r, n)
  /\ n >= 1
  /\ \A k \in 1..(n - 1) : Has(h, "ToolIntent", <<r, k, 1>>)
  /\ \E e \in h : e.kind = "InputConsumed" /\ RunOf(e.id) = <<r, 0, 0>>

(* The calls of a reply are taken in order, and the run may make them all. *)
CallAt(h, x) ==
  /\ TurnOf(x) \in Effective(h) /\ x \in CallsOf(h, TurnOf(x))
  /\ \A y \in CallsOf(h, TurnOf(x)) :
       /\ y[3] < x[3] => Has(h, "ToolOutcome", y)
       /\ y[3] > x[3] => ~Has(h, "ToolIntent", y)
  /\ \E n \in Nat : CallsOf(h, TurnOf(x)) = {<<x[1], x[2], c>> : c \in 1..n}
  /\ Cardinality(IntentsOf(h, x[1]) \cup CallsOf(h, TurnOf(x))) <= MaxCalls

(* A reply that asks for calls had its first one begun.                    *)
FirstBegun(h, x) ==
  x \in Effective(h) /\ CallsOf(h, x) # {} => Has(h, "ToolIntent", <<x[1], x[2], 1>>)

(* What was done, and not done yet.                                        *)
StandsAt(h, s, x, res) ==
  /\ IF Inside(s, x) THEN CallAt(h, x) ELSE Conversation(x)
  /\ s = "generate" => ~Has(h, "Message", x)
  /\ s = "call" => ~Has(h, "ToolIntent", x)
  /\ s = "run" => ~Has(h, "GenStarted", x) /\ ~Has(h, "InteractionOpened", x)
  /\ s \in {"turn", "end"} => res \in {"Completed", "Failed", "Cancelled"}
  /\ s = "turn" => /\ ClosedTools(h, x) /\ FirstBegun(h, x)
                   /\ res = "Completed" => Says(h, "GenEnded", x, "Completed")
  /\ s = "next" => Has(h, "ToolIntent", <<x[1], x[2], 1>>)
  /\ s = "end" /\ res = "Completed" => Says(h, "TurnEnded", x, "Completed")

PointAt(h, s, x, res, q) ==
  OpenAt(h, s, x, q) /\ NumberedTo(h, x[1], x[2]) /\ StandsAt(h, s, x, res)

-----------------------------------------------------------------------------
(* A list without repetitions has as many members as places.               *)
LEMMA Distinct ==
  ASSUME NEW n \in Nat, NEW f, \A i, j \in 1..n : f[i] = f[j] => i = j
  PROVE  IsFiniteSet({f[k] : k \in 1..n}) /\ Cardinality({f[k] : k \in 1..n}) = n
<1> DEFINE S == {f[k] : k \in 1..n}
           g == [k \in 1..n |-> f[k]]
<1>1. IsFiniteSet(1..n) /\ Cardinality(1..n) = n BY FS_Interval
<1>2. g \in [1..n -> S] /\ \A i, j \in 1..n : g[i] = g[j] => i = j OBVIOUS
<1>3. \A y \in S : \E k \in 1..n : g[k] = y OBVIOUS
<1> HIDE DEF S, g
<1>4. g \in Bijection(1..n, S) BY <1>2, <1>3 DEF Bijection, Injection, Surjection, IsInjective
<1>5. ExistsBijection(1..n, S) BY <1>4 DEF ExistsBijection
<1>6. IsFiniteSet(S) /\ Cardinality(S) = n BY <1>1, <1>5, FS_Bijection
<1> QED BY <1>6 DEF S

(* There are n turns up to n, and n first calls of them.                   *)
LEMMA CountTurns ==
  ASSUME NEW n \in Nat, NEW r
  PROVE  /\ Cardinality(TurnsTo(r, n)) = n
         /\ Cardinality({<<r, t, 1>> : t \in 1..n}) = n
<1>1. Cardinality(TurnsTo(r, n)) = n
  <2> DEFINE f == [t \in 1..n |-> <<r, t, 0>>]
  <2>1. {f[t] : t \in 1..n} = TurnsTo(r, n) BY DEF TurnsTo
  <2>2. \A i, j \in 1..n : f[i] = f[j] => i = j OBVIOUS
  <2> HIDE DEF f
  <2>3. Cardinality({f[t] : t \in 1..n}) = n BY <2>2, Distinct
  <2> QED BY <2>1, <2>3
<1>2. Cardinality({<<r, t, 1>> : t \in 1..n}) = n
  <2> DEFINE f == [t \in 1..n |-> <<r, t, 1>>]
  <2>1. {f[t] : t \in 1..n} = {<<r, t, 1>> : t \in 1..n} OBVIOUS
  <2>2. \A i, j \in 1..n : f[i] = f[j] => i = j OBVIOUS
  <2> HIDE DEF f
  <2>3. Cardinality({f[t] : t \in 1..n}) = n BY <2>2, Distinct
  <2> QED BY <2>1, <2>3
<1> QED BY <1>1, <1>2

(* The calls of a turn are as many as their numbers.                       *)
LEMMA CountCalls ==
  ASSUME NEW n \in Nat, NEW r, NEW t
  PROVE  LET S == {<<r, t, c>> : c \in 1..n} IN IsFiniteSet(S) /\ Cardinality(S) = n
<1> DEFINE f == [c \in 1..n |-> <<r, t, c>>]
<1>1. {f[c] : c \in 1..n} = {<<r, t, c>> : c \in 1..n} OBVIOUS
<1>2. \A i, j \in 1..n : f[i] = f[j] => i = j OBVIOUS
<1> HIDE DEF f
<1>3. IsFiniteSet({f[c] : c \in 1..n}) /\ Cardinality({f[c] : c \in 1..n}) = n BY <1>2, Distinct
<1> QED BY <1>1, <1>3

(* A call is not a turn, and its turn and run are those of its id.         *)
LEMMA CallShape ==
  ASSUME NEW h, NEW x \in Ids, x \in CallsOf(h, TurnOf(x))
  PROVE  /\ x = <<x[1], x[2], x[3]>> /\ x[3] # 0 /\ ~Conversation(x) /\ TurnOf(x) # x
         /\ RunOf(TurnOf(x)) = RunOf(x) /\ Conversation(TurnOf(x)) /\ TurnOf(x) \in Ids
<1>1. \E c \in 1..(Len(Words(h, "Message", TurnOf(x))) - 1) : x = <<TurnOf(x)[1], TurnOf(x)[2], c>>
  BY DEF CallsOf
<1>2. x[3] # 0 BY <1>1 DEF Ids
<1> QED BY <1>2 DEF Ids, Conversation, RunOf, TurnOf

(* More entries leave the numbers of the turns, unless they begin one.     *)
LEMMA KeepsNumbered ==
  ASSUME NEW h, NEW e, NEW r, NEW n, NumberedTo(h, r, n),
         e.kind # "TurnStarted", e.kind = "GenStarted" => ~Conversation(e.id)
  PROVE  NumberedTo(h \cup {e}, r, n)
<1> DEFINE g == h \cup {e}
<1>1. \A kind : Places(g, kind) = Places(h, kind) \cup (IF e.kind = kind THEN {e.id} ELSE {})
  BY Adds
<1>2. h \subseteq g OBVIOUS
<1> HIDE DEF g
<1>3. {t \in Places(g, "TurnStarted") : t[1] = r} = TurnsTo(r, n) BY <1>1 DEF NumberedTo
<1>4. {x \in Places(g, "GenStarted") : x[1] = r /\ Conversation(x)} = TurnsTo(r, n)
  BY <1>1 DEF NumberedTo
<1>5. \A k \in 1..(n - 1) : Has(g, "ToolIntent", <<r, k, 1>>) BY <1>1 DEF NumberedTo, Has
<1>6. \E f \in g : f.kind = "InputConsumed" /\ RunOf(f.id) = <<r, 0, 0>> BY <1>2 DEF NumberedTo
<1> QED BY <1>3, <1>4, <1>5, <1>6 DEF NumberedTo, g

(* ... and the order of the calls, unless they begin another.              *)
LEMMA KeepsCall ==
  ASSUME NEW h, NEW e, NEW x, CallAt(h, x), Accepts(h, e), e.kind = "ToolIntent" => e.id = x
  PROVE  CallAt(h \cup {e}, x)
<1> DEFINE g == h \cup {e}
<1>1. \A kind : Places(g, kind) = Places(h, kind) \cup (IF e.kind = kind THEN {e.id} ELSE {})
  BY Adds
<1>2. TurnOf(x) \in Effective(g) /\ CallsOf(g, TurnOf(x)) = CallsOf(h, TurnOf(x))
  BY KeepsReplies DEF CallAt
<1> HIDE DEF g
<1>3. \A y \in CallsOf(g, TurnOf(x)) : y[3] < x[3] => Has(g, "ToolOutcome", y)
  BY <1>1, <1>2 DEF CallAt, Has
<1>4. ASSUME NEW y \in CallsOf(g, TurnOf(x)), y[3] > x[3] PROVE ~Has(g, "ToolIntent", y)
  <2>1. ~Has(h, "ToolIntent", y) BY <1>2, <1>4 DEF CallAt
  <2>2. y # x
    <3>1. x \in CallsOf(h, TurnOf(x)) BY DEF CallAt
    <3>2. x[3] \in Nat BY <3>1 DEF CallsOf
    <3> QED BY <1>4, <3>2
  <2> QED BY <1>1, <2>1, <2>2 DEF Has
<1>5. IntentsOf(g, x[1]) \cup CallsOf(g, TurnOf(x)) = IntentsOf(h, x[1]) \cup CallsOf(h, TurnOf(x))
  BY <1>1, <1>2 DEF IntentsOf, CallAt
<1> QED BY <1>2, <1>3, <1>4, <1>5 DEF CallAt, g

(* What the context shows without a result changes with a completed reply  *)
(* or an outcome only.                                                     *)
LEMMA AddsUnclosed ==
  ASSUME NEW h, NEW e, Accepts(h, e)
  PROVE  LET g == h \cup {e} IN
         /\ e.kind \notin {"GenEnded", "ToolOutcome"} => Unclosed(g) = Unclosed(h)
         /\ e.kind = "GenEnded" /\ ~Conversation(e.id) => Unclosed(g) = Unclosed(h)
         /\ e.kind = "GenEnded" /\ e.words # <<"Completed">> => Unclosed(g) = Unclosed(h)
         /\ e.kind = "ToolOutcome" => Unclosed(g) = Unclosed(h) \ {e.id}
<1> DEFINE g == h \cup {e}
<1>1. Places(g, "ToolOutcome") = Places(h, "ToolOutcome") \cup (IF e.kind = "ToolOutcome" THEN {e.id} ELSE {})
  BY Adds
<1>2. /\ Effective(h) \subseteq Effective(g)
      /\ \A x \in Effective(h) : CallsOf(g, x) = CallsOf(h, x)
  BY KeepsReplies
<1>3. \A x : x \in Effective(g)
             <=> x \in Effective(h) \/ (Conversation(x) /\ e = Entry("GenEnded", x, <<"Completed">>))
  BY AddsEffective
<1>4. ASSUME NEW x, e = Entry("GenEnded", x, <<"Completed">>)
      PROVE  e.kind = "GenEnded" /\ e.id = x /\ e.words = <<"Completed">>
  BY <1>4 DEF Entry
<1> HIDE DEF g
<1>5. ASSUME e.kind # "GenEnded" \/ ~Conversation(e.id) \/ e.words # <<"Completed">>
      PROVE  \A y : (\E x \in Effective(g) : y \in CallsOf(g, x)) <=> \E x \in Effective(h) : y \in CallsOf(h, x)
  <2>1. Effective(g) = Effective(h) BY <1>3, <1>4, <1>5
  <2> QED BY <1>2, <2>1
<1>6. \A k, y : y \in Unclosed(k) <=> (\E x \in Effective(k) : y \in CallsOf(k, x)) /\ y \notin Places(k, "ToolOutcome")
  <2> SUFFICES ASSUME NEW k, NEW y
               PROVE  y \in Unclosed(k) <=> (\E x \in Effective(k) : y \in CallsOf(k, x)) /\ y \notin Places(k, "ToolOutcome")
    OBVIOUS
  <2>1. y \in UNION {CallsOf(k, x) : x \in Effective(k)} <=> \E x \in Effective(k) : y \in CallsOf(k, x)
    OBVIOUS
  <2> QED BY <2>1, Zenon DEF Unclosed
<1>7. e.kind \notin {"GenEnded", "ToolOutcome"} => Unclosed(g) = Unclosed(h) BY <1>1, <1>5, <1>6
<1>8. e.kind = "GenEnded" /\ ~Conversation(e.id) => Unclosed(g) = Unclosed(h) BY <1>1, <1>5, <1>6
<1>9. e.kind = "GenEnded" /\ e.words # <<"Completed">> => Unclosed(g) = Unclosed(h) BY <1>1, <1>5, <1>6
<1>10. e.kind = "ToolOutcome" => Unclosed(g) = Unclosed(h) \ {e.id} BY <1>1, <1>5, <1>6
<1> QED BY <1>7, <1>8, <1>9, <1>10 DEF g

(* g is h with e.                                                          *)
Plus(h, e, g) == g = h \cup {e}

(* The same by the kind of the entry that is added.                        *)
LEMMA NowOpen ==
  ASSUME NEW h, NEW e, NEW g, Plus(h, e, g)
  PROVE  /\ e.kind \notin {"RunStarted", "RunEnd"} => OpenRuns(g) = OpenRuns(h)
         /\ e.kind = "RunStarted" /\ e.id \notin Places(h, "RunEnd") => OpenRuns(g) = OpenRuns(h) \cup {e.id}
         /\ e.kind = "RunEnd" => OpenRuns(g) = OpenRuns(h) \ {e.id}
         /\ e.kind \notin {"TurnStarted", "TurnEnded"} => OpenTurns(g) = OpenTurns(h)
         /\ e.kind = "TurnStarted" /\ e.id \notin Places(h, "TurnEnded") => OpenTurns(g) = OpenTurns(h) \cup {e.id}
         /\ e.kind = "TurnEnded" => OpenTurns(g) = OpenTurns(h) \ {e.id}
         /\ e.kind \notin {"GenStarted", "GenEnded"} => OpenGens(g) = OpenGens(h)
         /\ e.kind = "GenStarted" /\ e.id \notin Places(h, "GenEnded") => OpenGens(g) = OpenGens(h) \cup {e.id}
         /\ e.kind = "GenEnded" => OpenGens(g) = OpenGens(h) \ {e.id}
         /\ e.kind \notin {"ToolIntent", "ToolOutcome"} => OpenTools(g) = OpenTools(h)
         /\ e.kind = "ToolIntent" /\ e.id \notin Places(h, "ToolOutcome") => OpenTools(g) = OpenTools(h) \cup {e.id}
         /\ e.kind = "ToolOutcome" => OpenTools(g) = OpenTools(h) \ {e.id}
         /\ e.kind \notin {"InteractionOpened", "InteractionResolved", "InteractionExpired"} =>
              OpenInteractions(g) = OpenInteractions(h)
         /\ e.kind = "InteractionOpened"
            /\ e.id \notin Places(h, "InteractionResolved") \cup Places(h, "InteractionExpired") =>
                OpenInteractions(g) = OpenInteractions(h) \cup {e.id}
         /\ e.kind \in {"InteractionResolved", "InteractionExpired"} =>
              OpenInteractions(g) = OpenInteractions(h) \ {e.id}
<1>1. \A kind : Places(g, kind) = Places(h, kind) \cup (IF e.kind = kind THEN {e.id} ELSE {})
  BY Adds DEF Plus
<1>2. \A kind : kind # e.kind => Places(g, kind) = Places(h, kind) BY <1>1
<1>3. Places(g, e.kind) = Places(h, e.kind) \cup {e.id} BY <1>1
<1>4. /\ e.kind \notin {"RunStarted", "RunEnd"} => OpenRuns(g) = OpenRuns(h)
      /\ e.kind = "RunStarted" /\ e.id \notin Places(h, "RunEnd") => OpenRuns(g) = OpenRuns(h) \cup {e.id}
      /\ e.kind = "RunEnd" => OpenRuns(g) = OpenRuns(h) \ {e.id}
  BY <1>2, <1>3 DEF OpenRuns
<1>5. /\ e.kind \notin {"TurnStarted", "TurnEnded"} => OpenTurns(g) = OpenTurns(h)
      /\ e.kind = "TurnStarted" /\ e.id \notin Places(h, "TurnEnded") => OpenTurns(g) = OpenTurns(h) \cup {e.id}
      /\ e.kind = "TurnEnded" => OpenTurns(g) = OpenTurns(h) \ {e.id}
  BY <1>2, <1>3 DEF OpenTurns
<1>6. /\ e.kind \notin {"GenStarted", "GenEnded"} => OpenGens(g) = OpenGens(h)
      /\ e.kind = "GenStarted" /\ e.id \notin Places(h, "GenEnded") => OpenGens(g) = OpenGens(h) \cup {e.id}
      /\ e.kind = "GenEnded" => OpenGens(g) = OpenGens(h) \ {e.id}
  BY <1>2, <1>3 DEF OpenGens
<1>7. /\ e.kind \notin {"ToolIntent", "ToolOutcome"} => OpenTools(g) = OpenTools(h)
      /\ e.kind = "ToolIntent" /\ e.id \notin Places(h, "ToolOutcome") => OpenTools(g) = OpenTools(h) \cup {e.id}
      /\ e.kind = "ToolOutcome" => OpenTools(g) = OpenTools(h) \ {e.id}
  BY <1>2, <1>3 DEF OpenTools
<1>8. /\ e.kind \notin {"InteractionOpened", "InteractionResolved", "InteractionExpired"} =>
           OpenInteractions(g) = OpenInteractions(h)
      /\ e.kind = "InteractionOpened"
         /\ e.id \notin Places(h, "InteractionResolved") \cup Places(h, "InteractionExpired") =>
             OpenInteractions(g) = OpenInteractions(h) \cup {e.id}
      /\ e.kind \in {"InteractionResolved", "InteractionExpired"} =>
           OpenInteractions(g) = OpenInteractions(h) \ {e.id}
  BY <1>2, <1>3 DEF OpenInteractions
<1> QED BY <1>4, <1>5, <1>6, <1>7, <1>8

(* Entries of other kinds stay where they are.                             *)
LEMMA NowPlaces ==
  ASSUME NEW h, NEW e, NEW g, Plus(h, e, g), NEW kind
  PROVE  /\ kind # e.kind => Places(g, kind) = Places(h, kind)
         /\ kind = e.kind => Places(g, kind) = Places(h, kind) \cup {e.id}
BY DEF Places, Plus

-----------------------------------------------------------------------------
(* The steps of the task, each on the history it stands at.                *)

(* Finitely many calls, which the run may make.                            *)
LEMMA CallCounts ==
  ASSUME NEW h, IsFiniteSet(h), NEW x \in Ids, CallAt(h, x)
  PROVE  Cardinality(IntentsOf(h, x[1]) \cup {x}) <= MaxCalls
<1> DEFINE S == IntentsOf(h, x[1]) \cup CallsOf(h, TurnOf(x))
<1>1. IsFiniteSet(IntentsOf(h, x[1])) BY PlacesFinite, FS_Subset DEF IntentsOf
<1>2. IsFiniteSet(CallsOf(h, TurnOf(x)))
  <2>1. PICK n \in Nat : CallsOf(h, TurnOf(x)) = {<<x[1], x[2], c>> : c \in 1..n} BY DEF CallAt
  <2>2. IsFiniteSet({<<x[1], x[2], c>> : c \in 1..n}) BY CountCalls
  <2> QED BY <2>1, <2>2
<1>3. IsFiniteSet(S) BY <1>1, <1>2, FS_Union
<1>4. IntentsOf(h, x[1]) \cup {x} \in SUBSET S BY DEF CallAt
<1>5. Cardinality(S) <= MaxCalls BY DEF CallAt
<1> HIDE DEF S
<1>6. /\ Cardinality(IntentsOf(h, x[1]) \cup {x}) <= Cardinality(S)
      /\ IsFiniteSet(IntentsOf(h, x[1]) \cup {x})
  BY <1>3, <1>4, FS_Subset
<1>7. Cardinality(S) \in Nat /\ Cardinality(IntentsOf(h, x[1]) \cup {x}) \in Nat
  BY <1>3, <1>6, FS_CardinalityType
<1> QED BY <1>5, <1>6, <1>7, MaxCallsAssumption

(* commit_intent: the call that the task is at may be begun.               *)
LEMMA HistIntent ==
  ASSUME NEW h, IsFiniteSet(h), Sound(h), NEW x \in Ids, NEW res, NEW q, PointAt(h, "call", x, res, q)
  PROVE  LET e == Entry("ToolIntent", x, <<Words(h, "Message", TurnOf(x))[x[3] + 1]>>)
             g == h \cup {e}
         IN  /\ Accepts(h, e) /\ Sound(g)
             /\ \A s \in {"run", "result"} : \A w, p : PointAt(g, s, x, w, p)
<1> DEFINE e == Entry("ToolIntent", x, <<Words(h, "Message", TurnOf(x))[x[3] + 1]>>)
           g == h \cup {e}
<1>1. e.kind = "ToolIntent" /\ e.id = x BY DEF Entry
<1>13. e.words = <<Words(h, "Message", TurnOf(x))[x[3] + 1]>> BY DEF Entry
<1>0. g = h \cup {e} /\ Plus(h, e, g) BY DEF Plus
<1> HIDE DEF e, g
<1>2. CallAt(h, x) /\ ~Has(h, "ToolIntent", x) BY DEF PointAt, StandsAt, Inside
<1>3. /\ OpenRuns(h) = {RunOf(x)} /\ OpenTurns(h) = {TurnOf(x)} /\ OpenGens(h) = {}
      /\ OpenTools(h) = {} /\ OpenInteractions(h) = {}
  BY DEF PointAt, OpenAt, Inside
<1>4. Accepts(h, e) BY <1>1, <1>2, <1>3, <1>13 DEF Accepts, ToolRule, CallAt
<1>5. Sound(g) BY <1>0, <1>1, <1>2, <1>4, CallCounts, Extends
<1>6. CallAt(g, x) BY <1>0, <1>1, <1>2, <1>4, KeepsCall
<1>7. NumberedTo(g, x[1], x[2]) BY <1>0, <1>1, KeepsNumbered DEF PointAt
<1>8. ~Conversation(x) BY <1>2, CallShape DEF CallAt
<1>9. x \notin Places(h, "ToolOutcome") BY <1>2 DEF Sound, Called, Has
<1>10. /\ OpenRuns(g) = {RunOf(x)} /\ OpenTurns(g) = {TurnOf(x)} /\ OpenGens(g) = {}
       /\ OpenTools(g) = {x} /\ OpenInteractions(g) = {}
  <2>1. /\ OpenRuns(g) = OpenRuns(h) /\ OpenTurns(g) = OpenTurns(h) /\ OpenGens(g) = OpenGens(h)
        /\ OpenInteractions(g) = OpenInteractions(h)
    BY <1>0, <1>1, NowOpen
  <2>2. OpenTools(g) = OpenTools(h) \cup {x} BY <1>0, <1>1, <1>9, NowOpen
  <2> QED BY <1>3, <2>1, <2>2
<1>11. ~Has(g, "GenStarted", x) /\ ~Has(g, "InteractionOpened", x)
  <2>1. x \notin Places(h, "GenStarted") /\ x \notin Places(h, "InteractionOpened")
    BY <1>2, <1>8 DEF Sound, Paired, Has
  <2>2. Places(g, "GenStarted") = Places(h, "GenStarted")
        /\ Places(g, "InteractionOpened") = Places(h, "InteractionOpened")
    BY <1>0, <1>1, NowPlaces
  <2> QED BY <2>1, <2>2 DEF Has
<1>12. ASSUME NEW s \in {"run", "result"}, NEW w, NEW p PROVE PointAt(g, s, x, w, p)
  BY <1>6, <1>7, <1>10, <1>11 DEF PointAt, OpenAt, StandsAt, Inside
<1> QED BY <1>4, <1>5, <1>12 DEF e, g

(* A call that comes to a result without a record, or has its answer.      *)
LEMMA HistResult ==
  ASSUME NEW h, NEW x \in Ids, NEW s \in {"run", "ask"}, NEW res, NEW q, PointAt(h, s, x, res, q),
         s = "ask" => q # "pending"
  PROVE  \A w, p : PointAt(h, "result", x, w, p)
BY DEF PointAt, OpenAt, StandsAt, Inside

(* WebFetch starts its helper generation.                                  *)
LEMMA HistExtract ==
  ASSUME NEW h, Sound(h), NEW x \in Ids, NEW res, NEW q, PointAt(h, "run", x, res, q)
  PROVE  LET e == Entry("GenStarted", x, <<>>)
             g == h \cup {e}
         IN  /\ Accepts(h, e) /\ Sound(g)
             /\ \A w, p : PointAt(g, "generate", x, w, p)
<1> DEFINE e == Entry("GenStarted", x, <<>>)
           g == h \cup {e}
<1>1. e.kind = "GenStarted" /\ e.id = x BY DEF Entry
<1>0. g = h \cup {e} /\ Plus(h, e, g) BY DEF Plus
<1> HIDE DEF e, g
<1>2. CallAt(h, x) /\ ~Has(h, "GenStarted", x) BY DEF PointAt, StandsAt, Inside
<1>3. /\ OpenRuns(h) = {RunOf(x)} /\ OpenTurns(h) = {TurnOf(x)} /\ OpenGens(h) = {}
      /\ OpenTools(h) = {x} /\ OpenInteractions(h) = {}
  BY DEF PointAt, OpenAt, Inside
<1>4. ~Conversation(x) BY <1>2, CallShape DEF CallAt
<1>5. Accepts(h, e) BY <1>1, <1>2, <1>3, <1>4 DEF Accepts, GenStartRule
<1>6. Sound(g) BY <1>0, <1>1, <1>5, Extends
<1>7. CallAt(g, x) BY <1>0, <1>1, <1>2, <1>5, KeepsCall
<1>8. NumberedTo(g, x[1], x[2]) BY <1>0, <1>1, <1>4, KeepsNumbered DEF PointAt
<1>9. x \notin Places(h, "GenEnded") /\ x \notin Places(h, "Message")
  BY <1>2 DEF Sound, Paired, Has
<1>10. /\ OpenRuns(g) = {RunOf(x)} /\ OpenTurns(g) = {TurnOf(x)} /\ OpenGens(g) = {x}
       /\ OpenTools(g) = {x} /\ OpenInteractions(g) = {}
  <2>1. /\ OpenRuns(g) = OpenRuns(h) /\ OpenTurns(g) = OpenTurns(h)
        /\ OpenGens(g) = OpenGens(h) \cup {x}
        /\ OpenTools(g) = OpenTools(h) /\ OpenInteractions(g) = OpenInteractions(h)
    BY <1>0, <1>1, <1>9, NowOpen
  <2> QED BY <1>3, <2>1
<1>11. ~Has(g, "Message", x)
  <2>1. Places(g, "Message") = Places(h, "Message") BY <1>0, <1>1, NowPlaces
  <2> QED BY <1>9, <2>1 DEF Has
<1>12. ASSUME NEW w, NEW p PROVE PointAt(g, "generate", x, w, p)
  BY <1>4, <1>7, <1>8, <1>10, <1>11 DEF PointAt, OpenAt, StandsAt, Inside
<1> QED BY <1>5, <1>6, <1>12 DEF e, g

(* A question is opened.                                                   *)
LEMMA HistAsk ==
  ASSUME NEW h, Sound(h), NEW x \in Ids, NEW res, NEW q, PointAt(h, "run", x, res, q)
  PROVE  LET e == Entry("InteractionOpened", x, <<>>)
             g == h \cup {e}
         IN  /\ Accepts(h, e) /\ Sound(g)
             /\ \A w : PointAt(g, "ask", x, w, "pending")
<1> DEFINE e == Entry("InteractionOpened", x, <<>>)
           g == h \cup {e}
<1>1. e.kind = "InteractionOpened" /\ e.id = x BY DEF Entry
<1>0. g = h \cup {e} /\ Plus(h, e, g) BY DEF Plus
<1> HIDE DEF e, g
<1>2. CallAt(h, x) /\ ~Has(h, "InteractionOpened", x) BY DEF PointAt, StandsAt, Inside
<1>3. /\ OpenRuns(h) = {RunOf(x)} /\ OpenTurns(h) = {TurnOf(x)} /\ OpenGens(h) = {}
      /\ OpenTools(h) = {x} /\ OpenInteractions(h) = {}
  BY DEF PointAt, OpenAt, Inside
<1>4. Accepts(h, e) BY <1>1, <1>2, <1>3 DEF Accepts, InteractionRule
<1>5. Sound(g) BY <1>0, <1>1, <1>4, Extends
<1>6. CallAt(g, x) BY <1>0, <1>1, <1>2, <1>4, KeepsCall
<1>7. NumberedTo(g, x[1], x[2]) BY <1>0, <1>1, KeepsNumbered DEF PointAt
<1>8. x \notin Places(h, "InteractionResolved") \cup Places(h, "InteractionExpired")
  BY <1>2 DEF Sound, Paired, Has
<1>9. /\ OpenRuns(g) = {RunOf(x)} /\ OpenTurns(g) = {TurnOf(x)} /\ OpenGens(g) = {}
      /\ OpenTools(g) = {x} /\ OpenInteractions(g) = {x}
  <2>1. /\ OpenRuns(g) = OpenRuns(h) /\ OpenTurns(g) = OpenTurns(h) /\ OpenGens(g) = OpenGens(h)
        /\ OpenTools(g) = OpenTools(h)
    BY <1>0, <1>1, NowOpen
  <2>2. OpenInteractions(g) = OpenInteractions(h) \cup {x} BY <1>0, <1>1, <1>8, NowOpen
  <2> QED BY <1>3, <2>1, <2>2
<1>10. ASSUME NEW w PROVE PointAt(g, "ask", x, w, "pending")
  BY <1>6, <1>7, <1>9 DEF PointAt, OpenAt, StandsAt, Inside
<1> QED BY <1>4, <1>5, <1>10 DEF e, g

(* A question is answered or expires.                                      *)
LEMMA HistAnswer ==
  ASSUME NEW h, Sound(h), NEW x \in Ids, NEW res, PointAt(h, "ask", x, res, "pending"),
         NEW kind \in {"InteractionResolved", "InteractionExpired"}, NEW words
  PROVE  LET e == Entry(kind, x, words)
             g == h \cup {e}
         IN  /\ Accepts(h, e) /\ Sound(g)
             /\ \A w, p : PointAt(g, "result", x, w, p)
             /\ \A w : PointAt(g, "ask", x, w, "resolved")
<1> DEFINE e == Entry(kind, x, words)
           g == h \cup {e}
<1>1. e.kind = kind /\ e.id = x BY DEF Entry
<1>0. g = h \cup {e} /\ Plus(h, e, g) BY DEF Plus
<1> HIDE DEF e, g
<1>2. CallAt(h, x) BY DEF PointAt, StandsAt, Inside
<1>3. /\ OpenRuns(h) = {RunOf(x)} /\ OpenTurns(h) = {TurnOf(x)} /\ OpenGens(h) = {}
      /\ OpenTools(h) = {x} /\ OpenInteractions(h) = {x}
  BY DEF PointAt, OpenAt, Inside
<1>4. Accepts(h, e) BY <1>1, <1>2, <1>3 DEF Accepts, InteractionRule
<1>5. Sound(g) BY <1>0, <1>1, <1>4, Extends
<1>6. CallAt(g, x) BY <1>0, <1>1, <1>2, <1>4, KeepsCall
<1>7. NumberedTo(g, x[1], x[2]) BY <1>0, <1>1, KeepsNumbered DEF PointAt
<1>8. /\ OpenRuns(g) = {RunOf(x)} /\ OpenTurns(g) = {TurnOf(x)} /\ OpenGens(g) = {}
      /\ OpenTools(g) = {x} /\ OpenInteractions(g) = {}
  <2>1. /\ OpenRuns(g) = OpenRuns(h) /\ OpenTurns(g) = OpenTurns(h) /\ OpenGens(g) = OpenGens(h)
        /\ OpenTools(g) = OpenTools(h) /\ OpenInteractions(g) = OpenInteractions(h) \ {e.id}
    BY <1>0, <1>1, NowOpen
  <2> QED BY <1>1, <1>3, <2>1
<1>9. ASSUME NEW w, NEW p PROVE PointAt(g, "result", x, w, p)
  BY <1>6, <1>7, <1>8 DEF PointAt, OpenAt, StandsAt, Inside
<1>10. ASSUME NEW w PROVE PointAt(g, "ask", x, w, "resolved")
  BY <1>6, <1>7, <1>8 DEF PointAt, OpenAt, StandsAt, Inside
<1> QED BY <1>4, <1>5, <1>9, <1>10 DEF e, g

-----------------------------------------------------------------------------
(* commit_result: the outcome, and the next call or the end of the turn.   *)
LEMMA HistOutcome ==
  ASSUME NEW h, Sound(h), NEW x \in Ids, NEW res, NEW q, PointAt(h, "result", x, res, q), NEW w
  PROVE  LET e == Entry("ToolOutcome", x, <<w>>)
             g == h \cup {e}
             next == <<x[1], x[2], x[3] + 1>>
         IN  /\ Accepts(h, e) /\ Sound(g) /\ Unclosed(g) = Unclosed(h) \ {x}
             /\ next \in CallsOf(h, TurnOf(x)) => \A v, p : PointAt(g, "call", next, v, p)
             /\ next \notin CallsOf(h, TurnOf(x)) => \A p : PointAt(g, "turn", TurnOf(x), "Completed", p)
<1> DEFINE e == Entry("ToolOutcome", x, <<w>>)
           g == h \cup {e}
           next == <<x[1], x[2], x[3] + 1>>
           turn == TurnOf(x)
<1>1. e.kind = "ToolOutcome" /\ e.id = x BY DEF Entry
<1>0. g = h \cup {e} /\ Plus(h, e, g) BY DEF Plus
<1> HIDE DEF e, g
<1>2. CallAt(h, x) BY DEF PointAt, StandsAt, Inside
<1>3. /\ OpenRuns(h) = {RunOf(x)} /\ OpenTurns(h) = {turn} /\ OpenGens(h) = {}
      /\ OpenTools(h) = {x} /\ OpenInteractions(h) = {}
  BY DEF PointAt, OpenAt, Inside
<1>4. Accepts(h, e) BY <1>1, <1>3 DEF Accepts, ToolRule
<1>5. Sound(g) BY <1>0, <1>1, <1>4, Extends
<1>6. CallAt(g, x) BY <1>0, <1>1, <1>2, <1>4, KeepsCall
<1>7. NumberedTo(g, x[1], x[2]) BY <1>0, <1>1, KeepsNumbered DEF PointAt
<1>8. /\ OpenRuns(g) = {RunOf(x)} /\ OpenTurns(g) = {turn} /\ OpenGens(g) = {}
      /\ OpenTools(g) = {} /\ OpenInteractions(g) = {}
  <2>1. /\ OpenRuns(g) = OpenRuns(h) /\ OpenTurns(g) = OpenTurns(h) /\ OpenGens(g) = OpenGens(h)
        /\ OpenTools(g) = OpenTools(h) \ {x} /\ OpenInteractions(g) = OpenInteractions(h)
    BY <1>0, <1>1, NowOpen
  <2> QED BY <1>3, <2>1
<1>9. Has(g, "ToolOutcome", x) BY <1>0, <1>1 DEF Has, Places
<1>10. /\ x = <<x[1], x[2], x[3]>> /\ x[3] # 0 /\ RunOf(turn) = RunOf(x) /\ Conversation(turn)
       /\ turn \in Ids /\ x[1] \in Nat /\ x[2] \in Nat /\ x[3] \in Nat
  BY <1>2, CallShape DEF CallAt, Ids
<1>11. turn[1] = x[1] /\ turn[2] = x[2] /\ TurnOf(turn) = turn BY DEF TurnOf
<1>12. CallsOf(g, turn) = CallsOf(h, turn)
  <2>1. ~(e.kind = "Message" /\ e.id = turn) BY <1>1
  <2> QED BY <1>0, <2>1, AddsCalls
<1>13. \A y \in CallsOf(g, turn) : y = <<x[1], x[2], y[3]>> /\ y[3] \in Nat
  BY <1>11 DEF CallsOf
<1>14. Unclosed(g) = Unclosed(h) \ {x} BY <1>0, <1>1, <1>4, AddsUnclosed
<1>15. ASSUME next \in CallsOf(h, turn), NEW v, NEW p PROVE PointAt(g, "call", next, v, p)
  <2>1. /\ next[1] = x[1] /\ next[2] = x[2] /\ next[3] = x[3] + 1
        /\ TurnOf(next) = turn /\ RunOf(next) = RunOf(x) /\ next[3] # 0
    BY <1>10 DEF TurnOf, RunOf
  <2> HIDE DEF next
  <2>2. \A y \in CallsOf(g, turn) : y[3] < next[3] => Has(g, "ToolOutcome", y)
    <3> SUFFICES ASSUME NEW y \in CallsOf(g, turn), y[3] < next[3] PROVE Has(g, "ToolOutcome", y)
      OBVIOUS
    <3>1. y[3] < x[3] \/ y[3] = x[3] BY <1>10, <1>13, <2>1
    <3>2. y[3] = x[3] => y = x BY <1>10, <1>13
    <3> QED BY <1>6, <1>9, <3>1, <3>2 DEF CallAt
  <2>3. \A y \in CallsOf(g, turn) : y[3] >= next[3] => ~Has(g, "ToolIntent", y)
    <3> SUFFICES ASSUME NEW y \in CallsOf(g, turn), y[3] >= next[3] PROVE ~Has(g, "ToolIntent", y)
      OBVIOUS
    <3>1. y[3] > x[3] BY <1>10, <1>13, <2>1
    <3> QED BY <1>6, <3>1 DEF CallAt
  <2>4. next \in CallsOf(g, turn) BY <1>12, <1>15
  <2>5. ~Has(g, "ToolIntent", next) BY <1>10, <2>1, <2>3, <2>4
  <2>6. \A y \in CallsOf(g, turn) : y[3] > next[3] => y[3] >= next[3] BY <1>10, <1>13, <2>1
  <2>7. CallAt(g, next) BY <1>6, <2>1, <2>2, <2>3, <2>4, <2>6 DEF CallAt
  <2>8. Inside("call", next) BY DEF Inside
  <2>9. StandsAt(g, "call", next, v) BY <2>5, <2>7, <2>8 DEF StandsAt
  <2>10. OpenAt(g, "call", next, p) BY <1>8, <2>1 DEF OpenAt
  <2> QED BY <1>7, <2>1, <2>9, <2>10 DEF PointAt
<1>16. ASSUME next \notin CallsOf(h, turn), NEW p PROVE PointAt(g, "turn", turn, "Completed", p)
  <2>1. \A y \in CallsOf(g, turn) : Has(g, "ToolOutcome", y)
    <3> SUFFICES ASSUME NEW y \in CallsOf(g, turn) PROVE Has(g, "ToolOutcome", y) OBVIOUS
    <3>1. PICK n \in Nat : CallsOf(g, turn) = {<<x[1], x[2], c>> : c \in 1..n} BY <1>6 DEF CallAt
    <3>2. y[3] \in 1..n BY <3>1
    <3>3. ~(y[3] > x[3])
      <4> SUFFICES ASSUME y[3] > x[3] PROVE FALSE OBVIOUS
      <4>1. x[3] + 1 \in 1..n BY <1>10, <3>2
      <4> QED BY <1>12, <1>16, <3>1, <4>1
    <3>5. y[3] < x[3] \/ y = x BY <1>10, <1>13, <3>3
    <3> QED BY <1>6, <1>9, <3>5 DEF CallAt
  <2>2. ClosedTools(g, turn) BY <2>1 DEF ClosedTools, Has
  <2>6. FirstBegun(g, turn)
    <3> SUFFICES ASSUME CallsOf(g, turn) # {} PROVE Has(g, "ToolIntent", <<x[1], x[2], 1>>)
      BY <1>11 DEF FirstBegun
    <3>1. PICK n \in Nat : CallsOf(g, turn) = {<<x[1], x[2], c>> : c \in 1..n} BY <1>6 DEF CallAt
    <3>2. PICK c \in 1..n : TRUE BY <3>1
    <3>3. 1 \in 1..n BY <3>2
    <3>4. <<x[1], x[2], 1>> \in CallsOf(g, turn) BY <3>1, <3>3
    <3>5. Places(g, "ToolOutcome") \subseteq Places(g, "ToolIntent") BY <1>5 DEF Sound, Called
    <3> QED BY <2>1, <3>4, <3>5 DEF Has
  <2>3. Says(g, "GenEnded", turn, "Completed") BY <1>6 DEF CallAt, Effective
  <2>4. StandsAt(g, "turn", turn, "Completed") BY <1>10, <2>2, <2>3, <2>6 DEF StandsAt, Inside
  <2>5. OpenAt(g, "turn", turn, p) BY <1>8, <1>10, <1>11 DEF OpenAt, Inside
  <2> QED BY <1>7, <1>11, <2>4, <2>5 DEF PointAt
<1> QED BY <1>4, <1>5, <1>14, <1>15, <1>16 DEF e, g

-----------------------------------------------------------------------------
(* record_generation: the message ...                                      *)
LEMMA HistMessage ==
  ASSUME NEW h, Sound(h), NEW x \in Ids, NEW res, NEW q, PointAt(h, "generate", x, res, q), NEW words
  PROVE  LET e == Entry("Message", x, words)
             g == h \cup {e}
         IN  /\ Accepts(h, e) /\ Sound(g) /\ Unclosed(g) = Unclosed(h)
             /\ OpenAt(g, "generate", x, q) /\ NumberedTo(g, x[1], x[2])
             /\ ~Conversation(x) => CallAt(g, x)
             /\ Has(g, "Message", x) /\ Words(g, "Message", x) = words
             /\ IntentsOf(g, x[1]) = IntentsOf(h, x[1])
<1> DEFINE e == Entry("Message", x, words)
           g == h \cup {e}
<1>1. e.kind = "Message" /\ e.id = x /\ e.words = words BY DEF Entry
<1>0. g = h \cup {e} /\ Plus(h, e, g) BY DEF Plus
<1> HIDE DEF e, g
<1>2. ~Has(h, "Message", x) /\ (~Conversation(x) => CallAt(h, x)) BY DEF PointAt, StandsAt, Inside
<1>3. /\ OpenRuns(h) = {RunOf(x)} /\ OpenTurns(h) = {TurnOf(x)} /\ OpenGens(h) = {x}
      /\ OpenTools(h) = IF Inside("generate", x) THEN {x} ELSE {}
      /\ OpenInteractions(h) = {}
  BY DEF PointAt, OpenAt
<1>4. Conversation(x) => TurnOf(x) = x BY DEF Conversation, TurnOf, Ids
<1>5. Accepts(h, e) BY <1>1, <1>2, <1>3, <1>4 DEF Accepts, GenRule
<1>6. Sound(g) BY <1>0, <1>1, <1>5, Extends
<1>7. ~Conversation(x) => CallAt(g, x) BY <1>0, <1>1, <1>2, <1>5, KeepsCall
<1>8. NumberedTo(g, x[1], x[2]) BY <1>0, <1>1, KeepsNumbered DEF PointAt
<1>9. OpenAt(g, "generate", x, q)
  <2>1. /\ OpenRuns(g) = OpenRuns(h) /\ OpenTurns(g) = OpenTurns(h) /\ OpenGens(g) = OpenGens(h)
        /\ OpenTools(g) = OpenTools(h) /\ OpenInteractions(g) = OpenInteractions(h)
    BY <1>0, <1>1, NowOpen
  <2> QED BY <1>3, <2>1 DEF OpenAt
<1>10. Unclosed(g) = Unclosed(h) BY <1>0, <1>1, <1>5, AddsUnclosed
<1>11. Has(g, "Message", x) BY <1>0, <1>1 DEF Has, Places
<1>12. Words(g, "Message", x) = words
  <2>1. \A f \in g : f.kind = "Message" /\ f.id = x <=> f = e
    BY <1>0, <1>1, <1>2 DEF Has, Places
  <2>2. e \in g BY <1>0
  <2>3. (CHOOSE f \in g : f.kind = "Message" /\ f.id = x) = e BY <2>1, <2>2
  <2> QED BY <1>1, <2>3 DEF Words
<1>13. IntentsOf(g, x[1]) = IntentsOf(h, x[1])
  <2>1. Places(g, "ToolIntent") = Places(h, "ToolIntent") BY <1>0, <1>1, NowPlaces
  <2> QED BY <2>1 DEF IntentsOf
<1> QED BY <1>5, <1>6, <1>7, <1>8, <1>9, <1>10, <1>11, <1>12, <1>13 DEF e, g

(* What the end of a generation closes.                                    *)
LEMMA NowGenEnded ==
  ASSUME NEW h, NEW e, NEW g, Plus(h, e, g), e.kind = "GenEnded"
  PROVE  /\ OpenRuns(g) = OpenRuns(h) /\ OpenTurns(g) = OpenTurns(h) /\ OpenGens(g) = OpenGens(h) \ {e.id}
         /\ OpenTools(g) = OpenTools(h) /\ OpenInteractions(g) = OpenInteractions(h)
BY NowOpen

(* ... and the end of a generation, of a turn or of a WebFetch call.       *)
LEMMA HistGenEnd ==
  ASSUME NEW h, Sound(h), NEW x \in Ids, NEW q, OpenAt(h, "generate", x, q),
         NumberedTo(h, x[1], x[2]), ~Conversation(x) => CallAt(h, x),
         NEW w, w = "Completed" => Has(h, "Message", x) /\ Head(Words(h, "Message", x)) = "Complete"
  PROVE  LET e == Entry("GenEnded", x, <<w>>)
             g == h \cup {e}
         IN  /\ Accepts(h, e) /\ Sound(g)
             /\ ~Conversation(x) => Unclosed(g) = Unclosed(h) /\ \A v, p : PointAt(g, "result", x, v, p)
             /\ Conversation(x) /\ w # "Completed" =>
                  /\ Unclosed(g) = Unclosed(h)
                  /\ \A v \in {"Failed", "Cancelled"} : \A p : PointAt(g, "turn", x, v, p)
<1> DEFINE e == Entry("GenEnded", x, <<w>>)
           g == h \cup {e}
<1>1. e.kind = "GenEnded" /\ e.id = x /\ e.words = <<w>> BY DEF Entry
<1>0. g = h \cup {e} /\ Plus(h, e, g) BY DEF Plus
<1> HIDE DEF e, g
<1>2. e.words = <<"Completed">> => w = "Completed"
  <2> SUFFICES ASSUME <<w>> = <<"Completed">> PROVE w = "Completed" BY <1>1
  <2>1. <<w>>[1] = <<"Completed">>[1] OBVIOUS
  <2> QED BY <2>1
<1>3. /\ OpenRuns(h) = {RunOf(x)} /\ OpenTurns(h) = {TurnOf(x)} /\ OpenGens(h) = {x}
      /\ OpenTools(h) = IF Inside("generate", x) THEN {x} ELSE {}
      /\ OpenInteractions(h) = {}
  BY DEF OpenAt
<1>4. Conversation(x) => TurnOf(x) = x BY DEF Conversation, TurnOf, Ids
<1>5. Accepts(h, e) BY <1>1, <1>2, <1>3, <1>4 DEF Accepts, GenRule
<1>6. Sound(g) BY <1>0, <1>1, <1>5, Extends
<1>7. ~Conversation(x) => CallAt(g, x) BY <1>0, <1>1, <1>5, KeepsCall
<1>8. NumberedTo(g, x[1], x[2]) BY <1>0, <1>1, KeepsNumbered
<1>9. /\ OpenRuns(g) = {RunOf(x)} /\ OpenTurns(g) = {TurnOf(x)} /\ OpenGens(g) = {}
      /\ OpenTools(g) = (IF Inside("generate", x) THEN {x} ELSE {})
      /\ OpenInteractions(g) = {}
  <2>1. /\ OpenRuns(g) = OpenRuns(h) /\ OpenTurns(g) = OpenTurns(h) /\ OpenGens(g) = OpenGens(h) \ {x}
        /\ OpenTools(g) = OpenTools(h) /\ OpenInteractions(g) = OpenInteractions(h)
    BY <1>0, <1>1, NowGenEnded
  <2> QED BY <1>3, <2>1
<1>10. ASSUME ~Conversation(x)
       PROVE  Unclosed(g) = Unclosed(h) /\ \A v, p : PointAt(g, "result", x, v, p)
  <2>1. Unclosed(g) = Unclosed(h) BY <1>0, <1>1, <1>5, <1>10, AddsUnclosed
  <2>2. ASSUME NEW v, NEW p PROVE PointAt(g, "result", x, v, p)
    BY <1>7, <1>8, <1>9, <1>10 DEF PointAt, OpenAt, StandsAt, Inside
  <2> QED BY <2>1, <2>2
<1>11. ASSUME Conversation(x), w # "Completed"
       PROVE  /\ Unclosed(g) = Unclosed(h)
              /\ \A v \in {"Failed", "Cancelled"} : \A p : PointAt(g, "turn", x, v, p)
  <2>1. Unclosed(g) = Unclosed(h) BY <1>0, <1>1, <1>2, <1>5, <1>11, AddsUnclosed
  <2>2. x \notin Effective(g)
    <3>1. x \notin Effective(h) BY <1>3 DEF Effective, OpenGens
    <3>2. e # Entry("GenEnded", x, <<"Completed">>) BY <1>2, <1>11 DEF Entry
    <3>3. x \in Effective(g) => x \in Effective(h) \/ e = Entry("GenEnded", x, <<"Completed">>)
      BY <1>0, AddsEffective
    <3> QED BY <3>1, <3>2, <3>3
  <2>3. ClosedTools(g, x) /\ FirstBegun(g, x) BY <2>2 DEF ClosedTools, FirstBegun
  <2>4. ~Inside("generate", x) BY <1>11 DEF Inside
  <2>5. ASSUME NEW v \in {"Failed", "Cancelled"}, NEW p PROVE PointAt(g, "turn", x, v, p)
    <3>1. OpenAt(g, "turn", x, p) BY <1>9, <2>4 DEF OpenAt, Inside
    <3>2. StandsAt(g, "turn", x, v) BY <1>11, <2>3 DEF StandsAt, Inside
    <3> QED BY <1>8, <3>1, <3>2 DEF PointAt
  <2> QED BY <2>1, <2>5
<1> QED BY <1>5, <1>6, <1>10, <1>11 DEF e, g

(* A complete reply of n calls, which the run may make.                    *)
Asks(h, x, n) ==
  /\ Has(h, "Message", x) /\ Head(Words(h, "Message", x)) = "Complete"
  /\ Len(Words(h, "Message", x)) = n + 1
  /\ Cardinality(IntentsOf(h, x[1])) + n <= MaxCalls

(* The end of a complete reply of n calls: the first of them, or the end   *)
(* of the turn.                                                            *)
LEMMA HistReply ==
  ASSUME NEW h, Sound(h), NEW x \in Ids, NEW q, OpenAt(h, "generate", x, q),
         NumberedTo(h, x[1], x[2]), Conversation(x), IsFiniteSet(h),
         NEW n, n \in Nat /\ Asks(h, x, n)
  PROVE  LET e == Entry("GenEnded", x, <<"Completed">>)
             g == h \cup {e}
         IN  /\ Accepts(h, e) /\ Sound(g) /\ Unclosed(g) = Unclosed(h) \cup CallsOf(g, x)
             /\ n > 0 => \A v, o : PointAt(g, "call", <<x[1], x[2], 1>>, v, o)
             /\ n = 0 => \A o : PointAt(g, "turn", x, "Completed", o)
<1> DEFINE e == Entry("GenEnded", x, <<"Completed">>)
           g == h \cup {e}
           first == <<x[1], x[2], 1>>
           C == {<<x[1], x[2], c>> : c \in 1..n}
<1>1. e.kind = "GenEnded" /\ e.id = x BY DEF Entry
<1>23. e.words = <<"Completed">> BY DEF Entry
<1>0. g = h \cup {e} /\ Plus(h, e, g) BY DEF Plus
<1> HIDE DEF e, g, C, first
<1>4. /\ OpenRuns(h) = {RunOf(x)} /\ OpenTurns(h) = {TurnOf(x)} /\ OpenGens(h) = {x}
      /\ OpenTools(h) = {} /\ OpenInteractions(h) = {}
  BY DEF OpenAt, Inside
<1>5. TurnOf(x) = x /\ x[1] \in Nat /\ x[2] \in Nat BY DEF Conversation, TurnOf, Ids
<1>6. Accepts(h, e) BY <1>1, <1>4, <1>5, <1>23 DEF Accepts, GenRule, Asks
<1>7. Sound(g) BY <1>0, <1>1, <1>6, <1>23, Extends
<1>8. NumberedTo(g, x[1], x[2]) BY <1>0, <1>1, KeepsNumbered
<1>9. /\ OpenRuns(g) = {RunOf(x)} /\ OpenTurns(g) = {x} /\ OpenGens(g) = {}
      /\ OpenTools(g) = {} /\ OpenInteractions(g) = {}
  <2>1. /\ OpenRuns(g) = OpenRuns(h) /\ OpenTurns(g) = OpenTurns(h) /\ OpenGens(g) = OpenGens(h) \ {x}
        /\ OpenTools(g) = OpenTools(h) /\ OpenInteractions(g) = OpenInteractions(h)
    BY <1>0, <1>1, NowGenEnded
  <2> QED BY <1>4, <1>5, <2>1
<1>10. CallsOf(g, x) = C
  <2>1. Words(g, "Message", x) = Words(h, "Message", x) BY <1>0, <1>1, AddsWords
  <2>2. Len(Words(h, "Message", x)) - 1 = n BY DEF Asks
  <2> QED BY <2>1, <2>2 DEF CallsOf, C
<1>11. IsFiniteSet(C) /\ Cardinality(C) = n
  <2>1. /\ IsFiniteSet({<<x[1], x[2], c>> : c \in 1..n})
        /\ Cardinality({<<x[1], x[2], c>> : c \in 1..n}) = n
    BY CountCalls
  <2> QED BY <2>1 DEF C
<1>12. Has(g, "GenEnded", x) /\ Says(g, "GenEnded", x, "Completed")
  BY <1>0, <1>1 DEF Has, Places, Says, e
<1>13. x \in Effective(g) BY <1>12 DEF Effective, Has
<1>14. x \notin Effective(h) BY <1>4 DEF Effective, OpenGens
<1>15. \A y \in C : TurnOf(y) = x
  <2> SUFFICES ASSUME NEW c \in 1..n PROVE TurnOf(<<x[1], x[2], c>>) = x BY DEF C
  <2> QED BY <1>5 DEF TurnOf
<1>16. \A y \in C : ~Has(h, "ToolIntent", y) /\ ~Has(h, "ToolOutcome", y)
  <2> SUFFICES ASSUME NEW y \in C, Has(h, "ToolIntent", y) PROVE FALSE
    BY DEF Sound, Called, Has
  <2>1. PICK f \in h : f.kind = "ToolIntent" /\ f.id = y BY DEF Has, Places
  <2>2. TurnOf(y) \in Effective(h) BY <2>1 DEF Sound, Called, IntentOK
  <2> QED BY <1>14, <1>15, <2>2
<1>17. /\ Places(g, "ToolIntent") = Places(h, "ToolIntent")
       /\ Places(g, "ToolOutcome") = Places(h, "ToolOutcome")
  BY <1>0, <1>1, NowPlaces
<1>18. Unclosed(g) = Unclosed(h) \cup CallsOf(g, x)
  <2>1. \A k, y : y \in Unclosed(k) <=> (\E z \in Effective(k) : y \in CallsOf(k, z)) /\ ~Has(k, "ToolOutcome", y)
    BY DEF Unclosed, Has
  <2>2. \A z : z \in Effective(g) <=> z \in Effective(h) \/ z = x
    <3>1. \A z : z \in Effective(g) <=> z \in Effective(h) \/ (Conversation(z) /\ e = Entry("GenEnded", z, <<"Completed">>))
      BY <1>0, AddsEffective
    <3>2. \A z : e = Entry("GenEnded", z, <<"Completed">>) => z = x BY <1>1 DEF Entry
    <3> QED BY <1>13, <3>1, <3>2
  <2>3. \A z \in Effective(h) : CallsOf(g, z) = CallsOf(h, z) BY <1>0, <1>6, KeepsReplies
  <2>4. \A y : Has(g, "ToolOutcome", y) <=> Has(h, "ToolOutcome", y) BY <1>17 DEF Has
  <2>5. \A y \in Unclosed(g) : y \in Unclosed(h) \cup CallsOf(g, x) BY <2>1, <2>2, <2>3, <2>4
  <2>6. \A y \in Unclosed(h) : y \in Unclosed(g) BY <2>1, <2>2, <2>3, <2>4
  <2>7. \A y \in CallsOf(g, x) : y \in Unclosed(g) BY <1>10, <1>13, <1>16, <2>1, <2>4
  <2> QED BY <2>5, <2>6, <2>7
<1>19. IntentsOf(g, x[1]) = IntentsOf(h, x[1]) BY <1>17 DEF IntentsOf
<1>20. Cardinality(IntentsOf(g, x[1]) \cup C) <= MaxCalls
  <2> DEFINE I == IntentsOf(h, x[1])
  <2>1. IsFiniteSet(I) BY PlacesFinite, FS_Subset DEF IntentsOf
  <2>2. Cardinality(I) + n <= MaxCalls BY DEF Asks
  <2> HIDE DEF I
  <2>3. Cardinality(I \cup C) = Cardinality(I) + Cardinality(C) - Cardinality(I \cap C) BY <1>11, <2>1, FS_Union
  <2>4. Cardinality(I \cap C) \in Nat
    <3>1. IsFiniteSet(I \cap C) BY <2>1, FS_Intersection, <1>11
    <3> QED BY <3>1, FS_CardinalityType
  <2>5. Cardinality(I) \in Nat BY <2>1, FS_CardinalityType
  <2>6. Cardinality(I \cup C) <= MaxCalls BY <1>11, <2>2, <2>3, <2>4, <2>5, MaxCallsAssumption
  <2> QED BY <1>19, <2>6 DEF I
<1>21. ASSUME n > 0, NEW v, NEW o PROVE PointAt(g, "call", first, v, o)
  <2>1. /\ first[1] = x[1] /\ first[2] = x[2] /\ first[3] = 1
        /\ TurnOf(first) = x /\ RunOf(first) = RunOf(x) /\ TurnOf(first) = TurnOf(x)
    BY <1>5 DEF TurnOf, RunOf, first
  <2>2. first \in C
    <3>1. 1 \in 1..n BY <1>11, <1>21
    <3> QED BY <3>1 DEF C, first
  <2>3. \A y \in C : y[3] \in 1..n BY DEF C
  <2>4. CallAt(g, first)
    <3>1. TurnOf(first) \in Effective(g) /\ first \in CallsOf(g, TurnOf(first)) BY <1>10, <1>13, <2>1, <2>2
    <3>2. ASSUME NEW y \in CallsOf(g, TurnOf(first))
          PROVE  /\ y[3] < first[3] => Has(g, "ToolOutcome", y)
                 /\ y[3] > first[3] => ~Has(g, "ToolIntent", y)
      <4>1. y \in C BY <1>10, <2>1, <3>2
      <4>3. y[3] \in 1..n BY <2>3, <4>1
      <4>2. ~(y[3] < 1) BY <4>3
      <4>4. ~Has(g, "ToolIntent", y) BY <1>16, <1>17, <4>1 DEF Has
      <4> QED BY <2>1, <4>2, <4>4
    <3>3. CallsOf(g, TurnOf(first)) = {<<first[1], first[2], c>> : c \in 1..n}
      BY <1>10, <2>1 DEF C
    <3>4. Cardinality(IntentsOf(g, first[1]) \cup CallsOf(g, TurnOf(first))) <= MaxCalls
      BY <1>10, <1>20, <2>1
    <3>5. \E m \in Nat : CallsOf(g, TurnOf(first)) = {<<first[1], first[2], c>> : c \in 1..m}
      BY <1>11, <3>3
    <3> QED BY <3>1, <3>2, <3>4, <3>5 DEF CallAt
  <2>5. ~Has(g, "ToolIntent", first) BY <1>16, <1>17, <2>2 DEF Has
  <2>6. StandsAt(g, "call", first, v) BY <2>4, <2>5 DEF StandsAt, Inside
  <2>7. OpenAt(g, "call", first, o) BY <1>5, <1>9, <2>1 DEF OpenAt
  <2> QED BY <1>8, <2>1, <2>6, <2>7 DEF PointAt
<1>22. ASSUME n = 0, NEW o PROVE PointAt(g, "turn", x, "Completed", o)
  <2>1. C = {}
    <3>1. 1..n = {} BY <1>22
    <3> QED BY <3>1 DEF C
  <2>2. ClosedTools(g, x) /\ FirstBegun(g, x) BY <1>10, <2>1 DEF ClosedTools, FirstBegun
  <2>3. StandsAt(g, "turn", x, "Completed") BY <1>12, <2>2 DEF StandsAt, Inside
  <2>4. OpenAt(g, "turn", x, o) BY <1>5, <1>9 DEF OpenAt, Inside
  <2> QED BY <1>8, <2>3, <2>4 DEF PointAt
<1> QED BY <1>6, <1>7, <1>18, <1>21, <1>22 DEF e, g, first

-----------------------------------------------------------------------------
(* An entry of a kind that opens and ends nothing.                         *)
LEMMA NowNote ==
  ASSUME NEW h, NEW e, NEW g, Plus(h, e, g), Accepts(h, e), Sound(h), e.id \in Ids,
         e.kind \in {"SystemContext", "InputAccepted", "InputConsumed"}
  PROVE  /\ OpenRuns(g) = OpenRuns(h) /\ OpenTurns(g) = OpenTurns(h) /\ OpenGens(g) = OpenGens(h)
         /\ OpenTools(g) = OpenTools(h) /\ OpenInteractions(g) = OpenInteractions(h)
         /\ Effective(g) = Effective(h) /\ (\A x : CallsOf(g, x) = CallsOf(h, x))
         /\ Unclosed(g) = Unclosed(h) /\ Sound(g)
<1>0. g = h \cup {e} BY DEF Plus
<1>1. /\ OpenRuns(g) = OpenRuns(h) /\ OpenTurns(g) = OpenTurns(h) /\ OpenGens(g) = OpenGens(h)
      /\ OpenTools(g) = OpenTools(h) /\ OpenInteractions(g) = OpenInteractions(h)
  BY NowOpen
<1>2. Effective(g) = Effective(h)
  <2>1. \A x : x \in Effective(g)
           <=> x \in Effective(h) \/ (Conversation(x) /\ e = Entry("GenEnded", x, <<"Completed">>))
    BY <1>0, AddsEffective
  <2>2. \A x : e # Entry("GenEnded", x, <<"Completed">>) BY DEF Entry
  <2> QED BY <2>1, <2>2
<1>3. \A x : CallsOf(g, x) = CallsOf(h, x) BY <1>0, AddsCalls
<1>4. Unclosed(g) = Unclosed(h) BY <1>0, AddsUnclosed
<1>5. Sound(g) BY <1>0, Extends
<1> QED BY <1>1, <1>2, <1>3, <1>4, <1>5

(* A system context before the end of a turn.                              *)
LEMMA HistContext ==
  ASSUME NEW h, Sound(h), NEW x \in Ids, NEW res, NEW q, PointAt(h, "turn", x, res, q)
  PROVE  LET e == Entry("SystemContext", NoId, <<>>)
             g == h \cup {e}
         IN  /\ Accepts(h, e) /\ Sound(g) /\ Unclosed(g) = Unclosed(h)
             /\ PointAt(g, "turn", x, res, q)
             /\ Effective(g) = Effective(h) /\ CallsOf(g, x) = CallsOf(h, x)
<1> DEFINE e == Entry("SystemContext", NoId, <<>>)
           g == h \cup {e}
<1>1. e.kind = "SystemContext" /\ e.id = NoId BY DEF Entry
<1>0. g = h \cup {e} /\ Plus(h, e, g) BY DEF Plus
<1> HIDE DEF e, g
<1>2. NoId \in Ids BY DEF NoId, Ids
<1>3. /\ OpenRuns(h) = {RunOf(x)} /\ OpenTurns(h) = {TurnOf(x)} /\ OpenGens(h) = {}
      /\ OpenTools(h) = {} /\ OpenInteractions(h) = {}
  BY DEF PointAt, OpenAt, Inside
<1>4. Conversation(x) /\ ClosedTools(h, x) BY DEF PointAt, StandsAt, Inside
<1>5. TurnOf(x) = x BY <1>4 DEF Conversation, TurnOf, Ids
<1>6. Accepts(h, e) BY <1>1, <1>3, <1>4, <1>5 DEF Accepts, ContextRule
<1>7. /\ OpenRuns(g) = OpenRuns(h) /\ OpenTurns(g) = OpenTurns(h) /\ OpenGens(g) = OpenGens(h)
      /\ OpenTools(g) = OpenTools(h) /\ OpenInteractions(g) = OpenInteractions(h)
      /\ Effective(g) = Effective(h) /\ (\A y : CallsOf(g, y) = CallsOf(h, y))
      /\ Unclosed(g) = Unclosed(h) /\ Sound(g)
  BY <1>0, <1>1, <1>2, <1>6, NowNote
<1>8. NumberedTo(g, x[1], x[2]) BY <1>0, <1>1, KeepsNumbered DEF PointAt
<1>9. OpenAt(g, "turn", x, q) BY <1>3, <1>7 DEF OpenAt, Inside
<1>10. /\ Places(g, "ToolOutcome") = Places(h, "ToolOutcome")
       /\ Places(g, "ToolIntent") = Places(h, "ToolIntent")
  BY <1>0, <1>1, NowPlaces
<1>11. ClosedTools(g, x) BY <1>4, <1>7, <1>10 DEF ClosedTools
<1>12. FirstBegun(g, x)
  <2>1. FirstBegun(h, x) BY DEF PointAt, StandsAt
  <2> QED BY <1>7, <1>10, <2>1 DEF FirstBegun, Has
<1>13. res \in {"Completed", "Failed", "Cancelled"}
       /\ (res = "Completed" => Says(g, "GenEnded", x, "Completed"))
  BY <1>0 DEF PointAt, StandsAt, Says
<1>14. StandsAt(g, "turn", x, res) BY <1>4, <1>11, <1>12, <1>13 DEF StandsAt, Inside
<1> QED BY <1>6, <1>7, <1>8, <1>9, <1>14 DEF e, g, PointAt

(* settle_turn: the turn ends, and the task goes on or ends the run.       *)
LEMMA HistEndTurn ==
  ASSUME NEW h, Sound(h), NEW x \in Ids, NEW res, NEW q, PointAt(h, "turn", x, res, q),
         NEW w \in {"Completed", "Failed", "Aborted"}, w = "Completed" => res = "Completed"
  PROVE  LET e == Entry("TurnEnded", x, <<w>>)
             g == h \cup {e}
         IN  /\ Accepts(h, e) /\ Sound(g) /\ Unclosed(g) = Unclosed(h)
             /\ \A v \in {"Completed", "Failed", "Cancelled"} :
                  (v = "Completed" => w = "Completed") => \A p : PointAt(g, "end", x, v, p)
             /\ x \in Effective(h) /\ CallsOf(h, x) # {} => \A v, p : PointAt(g, "next", x, v, p)
<1> DEFINE e == Entry("TurnEnded", x, <<w>>)
           g == h \cup {e}
<1>1. e.kind = "TurnEnded" /\ e.id = x BY DEF Entry
<1>15. e.words = <<w>> BY DEF Entry
<1>0. g = h \cup {e} /\ Plus(h, e, g) BY DEF Plus
<1> HIDE DEF e, g
<1>2. w = "Completed" <=> e.words = <<"Completed">>
  <2>1. <<w>>[1] = w /\ <<"Completed">>[1] = "Completed" OBVIOUS
  <2> QED BY <1>15, <2>1
<1>16. e.words # <<"Interrupted">>
  <2>1. <<w>>[1] = w /\ <<"Interrupted">>[1] = "Interrupted" /\ w # "Interrupted" OBVIOUS
  <2> QED BY <1>15, <2>1
<1>3. /\ OpenRuns(h) = {RunOf(x)} /\ OpenTurns(h) = {TurnOf(x)} /\ OpenGens(h) = {}
      /\ OpenTools(h) = {} /\ OpenInteractions(h) = {}
  BY DEF PointAt, OpenAt, Inside
<1>4. Conversation(x) /\ ClosedTools(h, x) /\ FirstBegun(h, x)
      /\ (res = "Completed" => Says(h, "GenEnded", x, "Completed"))
  BY DEF PointAt, StandsAt, Inside
<1>5. TurnOf(x) = x BY <1>4 DEF Conversation, TurnOf, Ids
<1>6. Accepts(h, e) BY <1>1, <1>2, <1>3, <1>4, <1>5 DEF Accepts, TurnEndRule
<1>7. Sound(g) BY <1>0, <1>1, <1>6, <1>16, Extends
<1>8. Unclosed(g) = Unclosed(h) BY <1>0, <1>1, <1>6, AddsUnclosed
<1>9. NumberedTo(g, x[1], x[2]) BY <1>0, <1>1, KeepsNumbered DEF PointAt
<1>10. /\ OpenRuns(g) = {RunOf(x)} /\ OpenTurns(g) = {} /\ OpenGens(g) = {}
       /\ OpenTools(g) = {} /\ OpenInteractions(g) = {}
  <2>1. /\ OpenRuns(g) = OpenRuns(h) /\ OpenTurns(g) = OpenTurns(h) \ {x} /\ OpenGens(g) = OpenGens(h)
        /\ OpenTools(g) = OpenTools(h) /\ OpenInteractions(g) = OpenInteractions(h)
    BY <1>0, <1>1, NowOpen
  <2> QED BY <1>3, <1>5, <2>1
<1>11. w = "Completed" => Says(g, "TurnEnded", x, "Completed") BY <1>0 DEF Says, e
<1>12. ASSUME NEW v \in {"Completed", "Failed", "Cancelled"}, v = "Completed" => w = "Completed", NEW p
       PROVE  PointAt(g, "end", x, v, p)
  BY <1>4, <1>9, <1>10, <1>11, <1>12 DEF PointAt, OpenAt, StandsAt, Inside
<1>13. ASSUME x \in Effective(h), CallsOf(h, x) # {}, NEW v, NEW p PROVE PointAt(g, "next", x, v, p)
  <2>1. Has(h, "ToolIntent", <<x[1], x[2], 1>>) BY <1>4, <1>13 DEF FirstBegun
  <2>2. Places(g, "ToolIntent") = Places(h, "ToolIntent") BY <1>0, <1>1, NowPlaces
  <2>3. Has(g, "ToolIntent", <<x[1], x[2], 1>>) BY <2>1, <2>2 DEF Has
  <2> QED BY <1>4, <1>9, <1>10, <2>3 DEF PointAt, OpenAt, StandsAt, Inside
<1> QED BY <1>6, <1>7, <1>8, <1>12, <1>13 DEF e, g

(* The run ends with the verdict on its last turn.                         *)
LEMMA HistEndRun ==
  ASSUME NEW h, Sound(h), IsFiniteSet(h), NEW x \in Ids, NEW res, NEW q, PointAt(h, "end", x, res, q),
         NEW w, w = "Completed" => res = "Completed"
  PROVE  LET e == Entry("RunEnd", RunOf(x), <<w>>)
             g == h \cup {e}
         IN  /\ Accepts(h, e) /\ Sound(g) /\ Unclosed(g) = Unclosed(h)
             /\ OpenRuns(g) = {} /\ ~Has(h, "RunEnd", RunOf(x)) /\ Has(h, "RunStarted", RunOf(x))
<1> DEFINE e == Entry("RunEnd", RunOf(x), <<w>>)
           g == h \cup {e}
<1>1. e.kind = "RunEnd" /\ e.id = RunOf(x) BY DEF Entry
<1>15. e.words = <<w>> BY DEF Entry
<1>0. g = h \cup {e} /\ Plus(h, e, g) BY DEF Plus
<1> HIDE DEF e, g
<1>2. e.words = <<"Completed">> => res = "Completed"
  <2>1. <<w>>[1] = w /\ <<"Completed">>[1] = "Completed" OBVIOUS
  <2> QED BY <1>15, <2>1
<1>3. /\ OpenRuns(h) = {RunOf(x)} /\ OpenTurns(h) = {} /\ OpenGens(h) = {}
      /\ OpenTools(h) = {} /\ OpenInteractions(h) = {}
  BY DEF PointAt, OpenAt, Inside
<1>4. Conversation(x) /\ (res = "Completed" => Says(h, "TurnEnded", x, "Completed"))
  BY DEF PointAt, StandsAt, Inside
<1>5. RunOf(x) \in Ids /\ RunOf(x)[1] = x[1] BY DEF RunOf, Ids
<1>6. Cardinality({y \in Places(h, "ToolIntent") : RunOf(y) = RunOf(x)}) <= MaxCalls
  <2>1. \A y \in Places(h, "ToolIntent") : RunOf(y) = RunOf(x) <=> y[1] = x[1] BY DEF RunOf
  <2>2. {y \in Places(h, "ToolIntent") : RunOf(y) = RunOf(x)} = IntentsOf(h, x[1]) BY <2>1 DEF IntentsOf
  <2>3. Cardinality(IntentsOf(h, x[1])) <= MaxCalls BY <1>3, <1>5 DEF Sound, Budgeted
  <2> QED BY <2>2, <2>3
<1>7. e.words = <<"Completed">> =>
        \E t \in Places(h, "TurnEnded") :
          /\ RunOf(t) = RunOf(x) /\ Says(h, "TurnEnded", t, "Completed")
          /\ \A u \in Places(h, "TurnStarted") : RunOf(u) = RunOf(x) => u[2] <= t[2]
  <2> SUFFICES ASSUME res = "Completed"
               PROVE  /\ x \in Places(h, "TurnEnded") /\ Says(h, "TurnEnded", x, "Completed")
                      /\ \A u \in Places(h, "TurnStarted") : RunOf(u) = RunOf(x) => u[2] <= x[2]
    BY <1>2
  <2>1. Says(h, "TurnEnded", x, "Completed") BY <1>4
  <2>2. x \in Places(h, "TurnEnded") BY <2>1 DEF Says, Places, Entry
  <2>3. ASSUME NEW u \in Places(h, "TurnStarted"), RunOf(u) = RunOf(x) PROVE u[2] <= x[2]
    <3>1. u[1] = x[1] BY <2>3 DEF RunOf
    <3>2. u \in TurnsTo(x[1], x[2]) BY <3>1 DEF PointAt, NumberedTo
    <3> QED BY <3>2 DEF TurnsTo
  <2> QED BY <2>1, <2>2, <2>3
<1>8. Accepts(h, e) BY <1>1, <1>3, <1>6, <1>7 DEF Accepts, RunEndRule
<1>9. Sound(g) BY <1>0, <1>1, <1>5, <1>8, Extends
<1>10. Unclosed(g) = Unclosed(h) BY <1>0, <1>1, <1>8, AddsUnclosed
<1>11. OpenRuns(g) = {}
  <2>1. OpenRuns(g) = OpenRuns(h) \ {RunOf(x)} BY <1>0, <1>1, NowOpen
  <2> QED BY <1>3, <2>1
<1>12. ~Has(h, "RunEnd", RunOf(x)) /\ Has(h, "RunStarted", RunOf(x)) BY <1>3 DEF OpenRuns, Has
<1> QED BY <1>8, <1>9, <1>10, <1>11, <1>12 DEF e, g

-----------------------------------------------------------------------------
(* There is room for the generation of one more turn after n with calls.   *)
LEMMA TurnsWithin ==
  ASSUME NEW h, Sound(h), IsFiniteSet(h), NEW r, NEW n \in Nat, <<r, 0, 0>> \in OpenRuns(h),
         \A k \in 1..n : Has(h, "ToolIntent", <<r, k, 1>>)
  PROVE  n <= MaxCalls
<1> DEFINE F == {<<r, t, 1>> : t \in 1..n}
           I == IntentsOf(h, r)
<1>1. IsFiniteSet(I) BY PlacesFinite, FS_Subset DEF IntentsOf
<1>2. F \in SUBSET I BY DEF IntentsOf, Has
<1>3. Cardinality(F) = n BY CountTurns
<1>4. Cardinality(I) <= MaxCalls
  <2>1. <<r, 0, 0>>[1] = r OBVIOUS
  <2> QED BY <2>1 DEF Sound, Budgeted
<1> HIDE DEF F, I
<1>5. Cardinality(F) <= Cardinality(I) BY <1>1, <1>2, FS_Subset
<1>6. Cardinality(I) \in Nat BY <1>1, FS_CardinalityType
<1> QED BY <1>3, <1>4, <1>5, <1>6, MaxCallsAssumption

(* What a turn that begins opens.                                          *)
LEMMA NowTurnStarted ==
  ASSUME NEW h, NEW e, NEW g, Plus(h, e, g), e.kind = "TurnStarted", e.id \notin Places(h, "TurnEnded")
  PROVE  /\ OpenRuns(g) = OpenRuns(h) /\ OpenTurns(g) = OpenTurns(h) \cup {e.id} /\ OpenGens(g) = OpenGens(h)
         /\ OpenTools(g) = OpenTools(h) /\ OpenInteractions(g) = OpenInteractions(h)
BY NowOpen

(* ... and a generation that starts.                                       *)
LEMMA NowGenStarted ==
  ASSUME NEW h, NEW e, NEW g, Plus(h, e, g), e.kind = "GenStarted", e.id \notin Places(h, "GenEnded")
  PROVE  /\ OpenRuns(g) = OpenRuns(h) /\ OpenTurns(g) = OpenTurns(h) /\ OpenGens(g) = OpenGens(h) \cup {e.id}
         /\ OpenTools(g) = OpenTools(h) /\ OpenInteractions(g) = OpenInteractions(h)
BY NowOpen

(* The next turn of a run begins, with its generation.                     *)
LEMMA HistNext ==
  ASSUME NEW h, Sound(h), IsFiniteSet(h), NEW x \in Ids, NEW res, NEW q, PointAt(h, "next", x, res, q)
  PROVE  LET turn == <<x[1], x[2] + 1, 0>>
             e == Entry("TurnStarted", turn, <<>>)
             f == Entry("GenStarted", turn, <<>>)
             g == h \cup {e}
             k == g \cup {f}
         IN  /\ Accepts(h, e) /\ Sound(g) /\ Accepts(g, f) /\ Sound(k)
             /\ Unclosed(k) = Unclosed(h)
             /\ \A v, p : PointAt(k, "generate", turn, v, p)
<1> DEFINE turn == <<x[1], x[2] + 1, 0>>
           n == x[2] + 1
           e == Entry("TurnStarted", turn, <<>>)
           f == Entry("GenStarted", turn, <<>>)
           g == h \cup {e}
           k == g \cup {f}
<1>1. e.kind = "TurnStarted" /\ e.id = turn BY DEF Entry
<1>2. f.kind = "GenStarted" /\ f.id = turn BY DEF Entry
<1>3. g = h \cup {e} /\ Plus(h, e, g) BY DEF Plus
<1>4. k = g \cup {f} /\ Plus(g, f, k) BY DEF Plus
<1>5. /\ turn[1] = x[1] /\ turn[2] = n /\ n \in Nat /\ x[2] \in Nat /\ x[1] \in Nat
      /\ TurnOf(turn) = turn /\ RunOf(turn) = RunOf(x) /\ Conversation(turn) /\ turn \in Ids
      /\ turn = <<x[1], n, 0>>
  BY DEF TurnOf, RunOf, Conversation, Ids
<1>20. n - 1 = x[2] /\ n >= 1 /\ x[2] < n BY <1>5
<1> HIDE DEF e, f, g, k, turn, n
<1>6. /\ OpenRuns(h) = {RunOf(x)} /\ OpenTurns(h) = {} /\ OpenGens(h) = {}
      /\ OpenTools(h) = {} /\ OpenInteractions(h) = {}
  BY DEF PointAt, OpenAt, Inside
<1>7. /\ {t \in Places(h, "TurnStarted") : t[1] = x[1]} = TurnsTo(x[1], x[2])
      /\ {y \in Places(h, "GenStarted") : y[1] = x[1] /\ Conversation(y)} = TurnsTo(x[1], x[2])
      /\ x[2] >= 1
      /\ \A j \in 1..(x[2] - 1) : Has(h, "ToolIntent", <<x[1], j, 1>>)
      /\ \E y \in h : y.kind = "InputConsumed" /\ RunOf(y.id) = RunOf(x)
  BY DEF PointAt, NumberedTo, RunOf
<1>8. Has(h, "ToolIntent", <<x[1], x[2], 1>>) BY DEF PointAt, StandsAt
<1>9. turn \notin TurnsTo(x[1], x[2]) BY <1>5, <1>20 DEF TurnsTo
<1>10. turn \notin Places(h, "TurnStarted") /\ turn \notin Places(h, "GenStarted")
  BY <1>5, <1>7, <1>9
<1>11. /\ turn \notin Places(h, "TurnEnded") /\ turn \notin Places(h, "GenEnded")
       /\ turn \notin Places(h, "Message")
  BY <1>10 DEF Sound, Paired
<1>12. Accepts(h, e)
  <2>1. \A u : RunOf(u) = RunOf(x) <=> u[1] = x[1] BY DEF RunOf
  <2>2. {u \in Places(h, "TurnStarted") : RunOf(u) = RunOf(x)} = TurnsTo(x[1], x[2]) BY <1>7, <2>1
  <2>3. Cardinality({u \in Places(h, "TurnStarted") : RunOf(u) = RunOf(x)}) = n - 1
    BY <1>5, <1>20, <2>2, CountTurns
  <2> QED BY <1>1, <1>5, <1>6, <1>10, <2>3 DEF Accepts, TurnStartRule, Has
<1>13. Sound(g) BY <1>1, <1>3, <1>5, <1>12, Extends
<1>14. /\ OpenRuns(g) = {RunOf(x)} /\ OpenTurns(g) = {turn} /\ OpenGens(g) = {}
       /\ OpenTools(g) = {} /\ OpenInteractions(g) = {}
  BY <1>1, <1>3, <1>6, <1>11, NowTurnStarted
<1>15. \A kind : kind # "TurnStarted" => Places(g, kind) = Places(h, kind) BY <1>1, <1>3, NowPlaces
<1>16. Places(g, "TurnStarted") = Places(h, "TurnStarted") \cup {turn} BY <1>1, <1>3, NowPlaces
<1>17. \A j \in 1..x[2] : Has(h, "ToolIntent", <<x[1], j, 1>>)
  <2> SUFFICES ASSUME NEW j \in 1..x[2] PROVE Has(h, "ToolIntent", <<x[1], j, 1>>) OBVIOUS
  <2>1. j \in 1..(x[2] - 1) \/ j = x[2] BY <1>5
  <2> QED BY <1>7, <1>8, <2>1
<1>18. Accepts(g, f)
  <2>1. \E y \in g : y.kind = "InputConsumed" /\ RunOf(y.id) = RunOf(x) BY <1>3, <1>7
  <2>2. n # 1 BY <1>5, <1>7, <1>20
  <2>3. \A u : RunOf(u) = RunOf(x) <=> u[1] = x[1] BY DEF RunOf
  <2>4. {y \in Places(g, "GenStarted") : Conversation(y) /\ RunOf(y) = RunOf(x)} = TurnsTo(x[1], x[2])
    BY <1>7, <1>15, <2>3
  <2>5. Cardinality({y \in Places(g, "GenStarted") : Conversation(y) /\ RunOf(y) = RunOf(x)}) <= MaxCalls
    <3>1. <<x[1], 0, 0>> \in OpenRuns(h) BY <1>6 DEF RunOf
    <3>2. x[2] <= MaxCalls BY <1>5, <1>17, <3>1, TurnsWithin
    <3>3. Cardinality(TurnsTo(x[1], x[2])) = x[2] BY <1>5, CountTurns
    <3> QED BY <2>4, <3>2, <3>3
  <2>6. turn \notin Places(g, "GenStarted") BY <1>10, <1>15
  <2> QED BY <1>2, <1>5, <1>14, <2>1, <2>2, <2>5, <2>6 DEF Accepts, GenStartRule, Has
<1>19. Sound(k) BY <1>2, <1>4, <1>5, <1>13, <1>18, Extends
<1>21. turn \notin Places(g, "GenEnded") /\ turn \notin Places(g, "Message") BY <1>11, <1>15
<1>22. /\ OpenRuns(k) = {RunOf(x)} /\ OpenTurns(k) = {turn} /\ OpenGens(k) = {turn}
       /\ OpenTools(k) = {} /\ OpenInteractions(k) = {}
  BY <1>2, <1>4, <1>14, <1>21, NowGenStarted
<1>23. \A kind : kind # "GenStarted" => Places(k, kind) = Places(g, kind) BY <1>2, <1>4, NowPlaces
<1>24. Places(k, "GenStarted") = Places(g, "GenStarted") \cup {turn} BY <1>2, <1>4, NowPlaces
<1>25. TurnsTo(x[1], n) = TurnsTo(x[1], x[2]) \cup {turn}
  <2>1. \A j : j \in 1..n <=> j \in 1..x[2] \/ j = n BY <1>5, <1>20
  <2> QED BY <1>5, <2>1 DEF TurnsTo
<1>26. NumberedTo(k, x[1], n)
  <2>1. {t \in Places(k, "TurnStarted") : t[1] = x[1]} = TurnsTo(x[1], n)
    BY <1>5, <1>7, <1>16, <1>23, <1>25
  <2>2. {y \in Places(k, "GenStarted") : y[1] = x[1] /\ Conversation(y)} = TurnsTo(x[1], n)
    BY <1>5, <1>7, <1>15, <1>24, <1>25
  <2>3. \A j \in 1..(n - 1) : Has(k, "ToolIntent", <<x[1], j, 1>>)
    BY <1>15, <1>17, <1>20, <1>23 DEF Has
  <2>4. \E y \in k : y.kind = "InputConsumed" /\ RunOf(y.id) = <<x[1], 0, 0>>
    BY <1>3, <1>4, <1>7 DEF RunOf
  <2> QED BY <1>20, <2>1, <2>2, <2>3, <2>4 DEF NumberedTo
<1>27. ~Has(k, "Message", turn) BY <1>21, <1>23 DEF Has
<1>28. ~Inside("generate", turn) BY <1>5 DEF Inside
<1>29. ASSUME NEW v, NEW p PROVE PointAt(k, "generate", turn, v, p)
  <2>1. OpenAt(k, "generate", turn, p) BY <1>5, <1>22, <1>28 DEF OpenAt
  <2>2. StandsAt(k, "generate", turn, v) BY <1>5, <1>27, <1>28 DEF StandsAt
  <2> QED BY <1>5, <1>26, <2>1, <2>2 DEF PointAt
<1>30. Unclosed(k) = Unclosed(h)
  <2>1. Unclosed(g) = Unclosed(h) BY <1>1, <1>3, <1>12, AddsUnclosed
  <2>2. Unclosed(k) = Unclosed(g) BY <1>2, <1>4, <1>18, AddsUnclosed
  <2> QED BY <2>1, <2>2
<1> QED BY <1>12, <1>13, <1>18, <1>19, <1>29, <1>30 DEF e, f, g, k, turn

-----------------------------------------------------------------------------
(* A history on which run r may begin for input i: nothing is open, no     *)
(* call is without a result, and neither the run nor the input is known.   *)
Fresh(h, r, i) ==
  /\ Sound(h) /\ IsFiniteSet(h) /\ OpenRuns(h) = {} /\ Unclosed(h) = {}
  /\ r \in Nat /\ r > 0
  /\ \A e \in h : e.id \in Ids /\ e.id[1] < r
  /\ \A e \in h : e.kind \in {"InputAccepted", "RunStarted", "InputConsumed"} => e.words # <<i>>

(* Without a run nothing else is open.                                     *)
LEMMA NothingOpen ==
  ASSUME NEW h, Sound(h), OpenRuns(h) = {}
  PROVE  /\ OpenTurns(h) = {} /\ OpenGens(h) = {} /\ OpenInteractions(h) = {}
         /\ \A tools \in Installs : Settleable(h, tools) = {}
BY DEF Sound, Nested

(* ... and no call without a result.                                       *)
LEMMA NoToolOpen ==
  ASSUME NEW h, Sound(h), Unclosed(h) = {}
  PROVE  OpenTools(h) = {}
<1> SUFFICES ASSUME NEW x \in OpenTools(h) PROVE FALSE OBVIOUS
<1>1. x \in Places(h, "ToolIntent") /\ x \notin Places(h, "ToolOutcome") BY DEF OpenTools
<1>2. TurnOf(x) \in Effective(h) /\ x \in CallsOf(h, TurnOf(x))
  BY <1>1 DEF Sound, Called, IntentOK, Places
<1>3. x \in Unclosed(h) BY <1>1, <1>2 DEF Unclosed
<1> QED BY <1>3

(* The system context, where a run may begin.                              *)
LEMMA FreshContext ==
  ASSUME NEW h, NEW r, NEW i, Fresh(h, r, i)
  PROVE  LET e == Entry("SystemContext", NoId, <<>>)
             g == h \cup {e}
         IN  Accepts(h, e) /\ Sound(g) /\ Fresh(g, r, i)
<1> DEFINE e == Entry("SystemContext", NoId, <<>>)
           g == h \cup {e}
<1>1. e.kind = "SystemContext" /\ e.id = NoId BY DEF Entry
<1>2. g = h \cup {e} /\ Plus(h, e, g) BY DEF Plus
<1>3. NoId \in Ids /\ NoId[1] = 0 BY DEF NoId, Ids
<1> HIDE DEF e, g
<1>4. Sound(h) /\ IsFiniteSet(h) /\ OpenRuns(h) = {} /\ Unclosed(h) = {} BY DEF Fresh
<1>5. OpenTurns(h) = {} /\ OpenGens(h) = {} /\ OpenTools(h) = {} BY <1>4, NothingOpen, NoToolOpen
<1>6. Accepts(h, e) BY <1>1, <1>5 DEF Accepts, ContextRule
<1>7. OpenRuns(g) = {} /\ Unclosed(g) = {} /\ Sound(g) BY <1>1, <1>2, <1>3, <1>4, <1>6, NowNote
<1>8. IsFiniteSet(g) BY <1>2, <1>4, FS_AddElement
<1>9. r \in Nat /\ r > 0 BY DEF Fresh
<1>10. \A x \in g : x.id \in Ids /\ x.id[1] < r BY <1>1, <1>2, <1>3, <1>9 DEF Fresh
<1>11. \A x \in g : x.kind \in {"InputAccepted", "RunStarted", "InputConsumed"} => x.words # <<i>>
  BY <1>1, <1>2 DEF Fresh
<1>12. Fresh(g, r, i) BY <1>4, <1>7, <1>8, <1>9, <1>10, <1>11 DEF Fresh
<1> QED BY <1>6, <1>7, <1>12 DEF e, g

(* ... and one on which run r has begun for input i, with no turn yet.     *)
Taken(h, r, i) ==
  /\ Sound(h) /\ r \in Nat /\ Unclosed(h) = {}
  /\ OpenRuns(h) = {<<r, 0, 0>>} /\ OpenTurns(h) = {} /\ OpenGens(h) = {}
  /\ OpenTools(h) = {} /\ OpenInteractions(h) = {}
  /\ Entry("InputAccepted", NoId, <<i>>) \in h /\ Entry("RunStarted", <<r, 0, 0>>, <<i>>) \in h
  /\ \A x \in h : x.kind \notin {"InputAccepted", "RunStarted"} => x.id[1] # r
  /\ \A x \in h : x.kind = "InputConsumed" => x.words # <<i>>

(* record_start: the input and the run ...                                 *)
LEMMA HistAccept ==
  ASSUME NEW h, NEW r, NEW i, Fresh(h, r, i)
  PROVE  LET run == <<r, 0, 0>>
             e == Entry("InputAccepted", NoId, <<i>>)
             f == Entry("RunStarted", run, <<i>>)
             g == h \cup {e}
             k == g \cup {f}
         IN  Accepts(h, e) /\ Sound(g) /\ Accepts(g, f) /\ Sound(k) /\ Taken(k, r, i)
<1> DEFINE run == <<r, 0, 0>>
           e == Entry("InputAccepted", NoId, <<i>>)
           f == Entry("RunStarted", run, <<i>>)
           g == h \cup {e}
           k == g \cup {f}
<1>1. e.kind = "InputAccepted" /\ e.id = NoId BY DEF Entry
<1>2. f.kind = "RunStarted" /\ f.id = run BY DEF Entry
<1>3. e.words = <<i>> /\ f.words = <<i>> BY DEF Entry
<1>4. g = h \cup {e} /\ Plus(h, e, g) BY DEF Plus
<1>5. k = g \cup {f} /\ Plus(g, f, k) BY DEF Plus
<1>6. NoId \in Ids /\ r \in Nat /\ r > 0 BY DEF NoId, Ids, Fresh
<1>7. run \in Ids /\ run[1] = r /\ run = <<run[1], 0, 0>> BY <1>6 DEF Ids
<1>8. e = Entry("InputAccepted", NoId, f.words) BY <1>3
<1> HIDE DEF e, f, g, k, run
<1>9. Sound(h) /\ OpenRuns(h) = {} /\ Unclosed(h) = {} BY DEF Fresh
<1>10. OpenTurns(h) = {} /\ OpenGens(h) = {} /\ OpenTools(h) = {} /\ OpenInteractions(h) = {}
  BY <1>9, NothingOpen, NoToolOpen
<1>11. Accepts(h, e)
  <2>1. e \notin h BY <1>1, <1>3 DEF Fresh
  <2> QED BY <1>1, <2>1 DEF Accepts, InputRule
<1>12. /\ OpenRuns(g) = {} /\ OpenTurns(g) = {} /\ OpenGens(g) = {} /\ OpenTools(g) = {}
       /\ OpenInteractions(g) = {} /\ Unclosed(g) = {} /\ Sound(g)
  BY <1>1, <1>4, <1>6, <1>9, <1>10, <1>11, NowNote
<1>13. \A kind : run \notin Places(h, kind)
  <2> SUFFICES ASSUME NEW x \in h, x.id = run PROVE FALSE BY DEF Places
  <2>1. x.id[1] < r BY DEF Fresh
  <2> QED BY <1>6, <1>7, <2>1
<1>14. \A kind : kind # "InputAccepted" => Places(g, kind) = Places(h, kind) BY <1>1, <1>4, NowPlaces
<1>15. Accepts(g, f)
  <2>1. run \notin Places(g, "RunStarted") BY <1>13, <1>14
  <2>2. e \in g BY <1>4
  <2>3. ASSUME NEW x \in g, x.kind \in {"RunStarted", "InputConsumed"} PROVE x.words # f.words
    <3>1. x # e BY <1>1, <2>3
    <3>2. x \in h BY <1>4, <3>1
    <3> QED BY <1>3, <2>3, <3>2 DEF Fresh
  <2> QED BY <1>2, <1>8, <1>12, <2>1, <2>2, <2>3 DEF Accepts, RunStartRule, Has
<1>16. IntentsOf(g, run[1]) = {}
  <2> SUFFICES ASSUME NEW y \in Places(h, "ToolIntent"), y[1] = r PROVE FALSE
    BY <1>7, <1>14 DEF IntentsOf
  <2>1. PICK x \in h : x.id = y BY DEF Places
  <2>2. x.id[1] < r BY DEF Fresh
  <2> QED BY <1>6, <2>1, <2>2
<1>17. Sound(k) BY <1>2, <1>5, <1>7, <1>12, <1>15, <1>16, Extends
<1>18. Unclosed(k) = {} BY <1>2, <1>5, <1>12, <1>15, AddsUnclosed
<1>19. /\ OpenRuns(k) = {run} /\ OpenTurns(k) = {} /\ OpenGens(k) = {}
       /\ OpenTools(k) = {} /\ OpenInteractions(k) = {}
  <2>1. run \notin Places(g, "RunEnd") BY <1>13, <1>14
  <2>2. /\ OpenRuns(k) = OpenRuns(g) \cup {run} /\ OpenTurns(k) = OpenTurns(g) /\ OpenGens(k) = OpenGens(g)
        /\ OpenTools(k) = OpenTools(g) /\ OpenInteractions(k) = OpenInteractions(g)
    BY <1>2, <1>5, <2>1, NowOpen
  <2> QED BY <1>12, <2>2
<1>20. \A x \in k : x.kind \notin {"InputAccepted", "RunStarted"} => x \in h
  BY <1>1, <1>2, <1>4, <1>5
<1>21. ASSUME NEW x \in k, x.kind \notin {"InputAccepted", "RunStarted"} PROVE x.id[1] # r
  <2>1. x.id \in Ids /\ x.id[1] < r BY <1>20, <1>21 DEF Fresh
  <2> QED BY <1>6, <2>1 DEF Ids
<1>22. \A x \in k : x.kind = "InputConsumed" => x.words # <<i>> BY <1>20 DEF Fresh
<1>23. Entry("InputAccepted", NoId, <<i>>) \in k /\ Entry("RunStarted", <<r, 0, 0>>, <<i>>) \in k
  BY <1>4, <1>5 DEF e, f, run
<1>24. OpenRuns(k) = {<<r, 0, 0>>} BY <1>19 DEF run
<1>25. Taken(k, r, i) BY <1>6, <1>17, <1>18, <1>19, <1>21, <1>22, <1>23, <1>24 DEF Taken
<1> QED BY <1>11, <1>12, <1>15, <1>17, <1>25 DEF e, f, g, k, run

(* ... and the first turn, which takes the input, with its generation.     *)
LEMMA HistFirstTurn ==
  ASSUME NEW h, NEW r, NEW i, Taken(h, r, i)
  PROVE  LET turn == <<r, 1, 0>>
             a == Entry("TurnStarted", turn, <<>>)
             b == Entry("InputConsumed", turn, <<i>>)
             c == Entry("GenStarted", turn, <<>>)
             u == h \cup {a}
             v == u \cup {b}
             w == v \cup {c}
         IN  /\ Accepts(h, a) /\ Sound(u) /\ Accepts(u, b) /\ Sound(v) /\ Accepts(v, c) /\ Sound(w)
             /\ Unclosed(w) = {} /\ \A res, q : PointAt(w, "generate", turn, res, q)
<1> DEFINE turn == <<r, 1, 0>>
           run == <<r, 0, 0>>
           a == Entry("TurnStarted", turn, <<>>)
           b == Entry("InputConsumed", turn, <<i>>)
           c == Entry("GenStarted", turn, <<>>)
           u == h \cup {a}
           v == u \cup {b}
           w == v \cup {c}
<1>1. a.kind = "TurnStarted" /\ a.id = turn BY DEF Entry
<1>2. b.kind = "InputConsumed" /\ b.id = turn BY DEF Entry
<1>3. c.kind = "GenStarted" /\ c.id = turn BY DEF Entry
<1>4. b.words = <<i>> BY DEF Entry
<1>5. u = h \cup {a} /\ Plus(h, a, u) BY DEF Plus
<1>6. v = u \cup {b} /\ Plus(u, b, v) BY DEF Plus
<1>7. w = v \cup {c} /\ Plus(v, c, w) BY DEF Plus
<1>8. /\ turn[1] = r /\ turn[2] = 1 /\ turn \in Ids /\ TurnOf(turn) = turn /\ RunOf(turn) = run
      /\ Conversation(turn) /\ turn = <<r, 1, 0>>
  BY DEF TurnOf, RunOf, Conversation, Ids, Taken
<1>9. /\ run \in OpenRuns(h) /\ OpenRuns(h) = {run} /\ OpenTurns(h) = {} /\ OpenGens(h) = {}
      /\ OpenTools(h) = {} /\ OpenInteractions(h) = {} /\ Sound(h) /\ Unclosed(h) = {}
  BY DEF Taken
<1>10. Entry("InputAccepted", NoId, b.words) \in h /\ Entry("RunStarted", run, b.words) \in h
  BY <1>4 DEF Taken
<1>11. \A x : RunOf(x) = run <=> x[1] = r BY DEF RunOf
<1> HIDE DEF a, b, c, u, v, w, turn, run
<1>12. \A kind : kind \notin {"InputAccepted", "RunStarted"} => \A x \in Places(h, kind) : x[1] # r
  BY DEF Places, Taken
<1>13. \A kind : kind \notin {"InputAccepted", "RunStarted"} => turn \notin Places(h, kind)
  BY <1>8, <1>12
<1>14. Accepts(h, a)
  <2>1. {y \in Places(h, "TurnStarted") : RunOf(y) = run} = {} BY <1>11, <1>12
  <2>2. Cardinality({y \in Places(h, "TurnStarted") : RunOf(y) = run}) = 1 - 1 BY <2>1, FS_EmptySet
  <2>3. turn \notin Places(h, "TurnStarted") BY <1>13
  <2> QED BY <1>1, <1>8, <1>9, <2>2, <2>3 DEF Accepts, TurnStartRule, Has
<1>15. Sound(u) BY <1>1, <1>5, <1>8, <1>9, <1>14, Extends
<1>16. turn \notin Places(h, "TurnEnded") /\ turn \notin Places(h, "GenEnded") BY <1>13
<1>17. /\ OpenRuns(u) = {run} /\ OpenTurns(u) = {turn} /\ OpenGens(u) = {}
       /\ OpenTools(u) = {} /\ OpenInteractions(u) = {}
  BY <1>1, <1>5, <1>9, <1>16, NowTurnStarted
<1>18. \A kind : kind # "TurnStarted" => Places(u, kind) = Places(h, kind) BY <1>1, <1>5, NowPlaces
<1>19. Accepts(u, b)
  <2>1. turn \notin Places(u, "GenStarted") BY <1>13, <1>18
  <2>2. Entry("InputAccepted", NoId, b.words) \in u /\ Entry("RunStarted", run, b.words) \in u
    BY <1>5, <1>10
  <2>3. \A x \in u : x.kind = "InputConsumed" => x.words # b.words
    <3> SUFFICES ASSUME NEW x \in u, x.kind = "InputConsumed" PROVE x.words # b.words OBVIOUS
    <3>1. x # a BY <1>1
    <3>2. x \in h BY <1>5, <3>1
    <3> QED BY <1>4, <3>2 DEF Taken
  <2> QED BY <1>2, <1>8, <1>17, <2>1, <2>2, <2>3 DEF Accepts, InputRule, Has
<1>20. /\ OpenRuns(v) = {run} /\ OpenTurns(v) = {turn} /\ OpenGens(v) = {}
       /\ OpenTools(v) = {} /\ OpenInteractions(v) = {} /\ Unclosed(v) = Unclosed(u) /\ Sound(v)
  BY <1>2, <1>6, <1>8, <1>15, <1>17, <1>19, NowNote
<1>21. \A kind : kind # "InputConsumed" => Places(v, kind) = Places(u, kind) BY <1>2, <1>6, NowPlaces
<1>22. Accepts(v, c)
  <2>1. Places(v, "GenStarted") = Places(h, "GenStarted") BY <1>18, <1>21
  <2>2. turn \notin Places(v, "GenStarted") BY <1>13, <2>1
  <2>3. b \in v BY <1>6
  <2>4. \E y \in v : y.kind = "InputConsumed" /\ RunOf(y.id) = run BY <1>2, <1>8, <2>3
  <2>5. turn \in Places(v, "InputConsumed") BY <1>2, <2>3 DEF Places
  <2>6. {y \in Places(v, "GenStarted") : Conversation(y) /\ RunOf(y) = run} = {} BY <1>11, <1>12, <2>1
  <2>7. Cardinality({y \in Places(v, "GenStarted") : Conversation(y) /\ RunOf(y) = run}) <= MaxCalls
    BY <2>6, FS_EmptySet, MaxCallsAssumption
  <2> QED BY <1>3, <1>8, <1>20, <2>2, <2>4, <2>5, <2>7 DEF Accepts, GenStartRule, Has
<1>23. Sound(w) BY <1>3, <1>7, <1>8, <1>20, <1>22, Extends
<1>24. turn \notin Places(v, "GenEnded") BY <1>16, <1>18, <1>21
<1>25. /\ OpenRuns(w) = {run} /\ OpenTurns(w) = {turn} /\ OpenGens(w) = {turn}
       /\ OpenTools(w) = {} /\ OpenInteractions(w) = {}
  BY <1>3, <1>7, <1>20, <1>24, NowGenStarted
<1>26. \A kind : kind # "GenStarted" => Places(w, kind) = Places(v, kind) BY <1>3, <1>7, NowPlaces
<1>27. Places(u, "TurnStarted") = Places(h, "TurnStarted") \cup {turn} BY <1>1, <1>5, NowPlaces
<1>28. Places(w, "GenStarted") = Places(v, "GenStarted") \cup {turn} BY <1>3, <1>7, NowPlaces
<1>29. TurnsTo(r, 1) = {turn}
  <2>1. \A j : j \in 1..1 <=> j = 1 OBVIOUS
  <2> QED BY <1>8, <2>1 DEF TurnsTo
<1>30. NumberedTo(w, r, 1)
  <2>1. {t \in Places(w, "TurnStarted") : t[1] = r} = {turn}
    <3>1. Places(w, "TurnStarted") = Places(h, "TurnStarted") \cup {turn} BY <1>21, <1>26, <1>27
    <3> QED BY <1>8, <1>12, <3>1
  <2>2. {y \in Places(w, "GenStarted") : y[1] = r /\ Conversation(y)} = {turn}
    <3>1. Places(w, "GenStarted") = Places(h, "GenStarted") \cup {turn} BY <1>18, <1>21, <1>28
    <3> QED BY <1>8, <1>12, <3>1
  <2>3. \A j \in 1..(1 - 1) : Has(w, "ToolIntent", <<r, j, 1>>) OBVIOUS
  <2>4. \E y \in w : y.kind = "InputConsumed" /\ RunOf(y.id) = <<r, 0, 0>>
    BY <1>2, <1>6, <1>7, <1>8 DEF run
  <2> QED BY <1>29, <2>1, <2>2, <2>3, <2>4 DEF NumberedTo
<1>31. ~Has(w, "Message", turn) BY <1>13, <1>18, <1>21, <1>26 DEF Has
<1>32. ~Inside("generate", turn) BY <1>8 DEF Inside
<1>33. ASSUME NEW res, NEW q PROVE PointAt(w, "generate", turn, res, q)
  <2>1. OpenAt(w, "generate", turn, q) BY <1>8, <1>25, <1>32 DEF OpenAt
  <2>2. StandsAt(w, "generate", turn, res) BY <1>8, <1>31, <1>32 DEF StandsAt
  <2> QED BY <1>8, <1>30, <2>1, <2>2 DEF PointAt
<1>34. Unclosed(w) = {}
  <2>1. Unclosed(u) = Unclosed(h) BY <1>1, <1>5, <1>14, AddsUnclosed
  <2>2. Unclosed(w) = Unclosed(v) BY <1>3, <1>7, <1>22, AddsUnclosed
  <2> QED BY <1>9, <1>20, <2>1, <2>2
<1> QED BY <1>14, <1>15, <1>19, <1>20, <1>22, <1>23, <1>33, <1>34 DEF a, b, c, u, v, w, turn

-----------------------------------------------------------------------------
(* Entries of a section, one after the other.                              *)
Then(h, e, g) == g = h \cup {e} /\ Accepts(h, e) /\ Sound(g)

(* Two entries.                                                            *)
LEMMA GoodTwo ==
  ASSUME NEW h, Sound(h), NEW a, NEW b, NEW g, NEW k, Then(h, a, g), Then(g, b, k)
  PROVE  Good(h, <<a, b>>) /\ <<a, b>> \in Seq({a, b}) /\ h \cup ToSet(<<a, b>>) = k
<1> DEFINE T == {a, b}
           es == <<a, b>>
<1>1. es \in Seq(T) /\ Len(es) = 2 /\ es[1] = a /\ es[2] = b OBVIOUS
<1> HIDE DEF T, es
<1>2. /\ Upto(h, es, 0) = h
      /\ Upto(h, es, 1) = Upto(h, es, 0) \cup {es[1]}
      /\ Upto(h, es, 2) = Upto(h, es, 1) \cup {es[2]}
      /\ Upto(h, es, 2) = h \cup ToSet(es)
  <2>1. /\ Upto(h, es, 0) = h /\ Upto(h, es, Len(es)) = h \cup ToSet(es)
        /\ \A n \in 1..Len(es) : Upto(h, es, n) = Upto(h, es, n - 1) \cup {es[n]}
    <3>1. es \in Seq(T) BY <1>1
    <3> QED BY <3>1, UptoSteps
  <2>2. 1 \in 1..Len(es) /\ 2 \in 1..Len(es) /\ 1 - 1 = 0 /\ 2 - 1 = 1 BY <1>1
  <2> QED BY <1>1, <2>1, <2>2
<1>3. Upto(h, es, 1) = g /\ Upto(h, es, 2) = k BY <1>1, <1>2 DEF Then
<1>4. ASSUME NEW n \in 0..Len(es) PROVE Sound(Upto(h, es, n))
  <2>1. n = 0 \/ n = 1 \/ n = 2 BY <1>1
  <2> QED BY <1>2, <1>3, <2>1 DEF Then
<1>5. ASSUME NEW n \in 1..Len(es) PROVE Accepts(Upto(h, es, n - 1), es[n])
  <2>1. (n = 1 /\ n - 1 = 0) \/ (n = 2 /\ n - 1 = 1) BY <1>1
  <2> QED BY <1>1, <1>2, <1>3, <2>1 DEF Then
<1>6. Good(h, es) BY <1>4, <1>5 DEF Good
<1> QED BY <1>1, <1>2, <1>3, <1>6 DEF es, T

(* The five entries of a start.                                            *)
LEMMA GoodFive ==
  ASSUME NEW h, Sound(h), NEW a, NEW b, NEW c, NEW d, NEW e,
         NEW g1, NEW g2, NEW g3, NEW g4, NEW g5,
         Then(h, a, g1), Then(g1, b, g2), Then(g2, c, g3), Then(g3, d, g4), Then(g4, e, g5)
  PROVE  /\ Good(h, <<a, b, c, d, e>>) /\ <<a, b, c, d, e>> \in Seq({a, b, c, d, e})
         /\ h \cup ToSet(<<a, b, c, d, e>>) = g5
<1> DEFINE T == {a, b, c, d, e}
           es == <<a, b, c, d, e>>
<1>1. es \in Seq(T) /\ Len(es) = 5 /\ es[1] = a /\ es[2] = b /\ es[3] = c /\ es[4] = d /\ es[5] = e
  OBVIOUS
<1> HIDE DEF T, es
<1>2. /\ Upto(h, es, 0) = h /\ Upto(h, es, 5) = h \cup ToSet(es)
      /\ Upto(h, es, 1) = Upto(h, es, 0) \cup {es[1]}
      /\ Upto(h, es, 2) = Upto(h, es, 1) \cup {es[2]}
      /\ Upto(h, es, 3) = Upto(h, es, 2) \cup {es[3]}
      /\ Upto(h, es, 4) = Upto(h, es, 3) \cup {es[4]}
      /\ Upto(h, es, 5) = Upto(h, es, 4) \cup {es[5]}
  <2>1. /\ Upto(h, es, 0) = h /\ Upto(h, es, Len(es)) = h \cup ToSet(es)
        /\ \A n \in 1..Len(es) : Upto(h, es, n) = Upto(h, es, n - 1) \cup {es[n]}
    <3>1. es \in Seq(T) BY <1>1
    <3> QED BY <3>1, UptoSteps
  <2>2. /\ 1 \in 1..Len(es) /\ 2 \in 1..Len(es) /\ 3 \in 1..Len(es) /\ 4 \in 1..Len(es) /\ 5 \in 1..Len(es)
        /\ 1 - 1 = 0 /\ 2 - 1 = 1 /\ 3 - 1 = 2 /\ 4 - 1 = 3 /\ 5 - 1 = 4
    BY <1>1
  <2> QED BY <1>1, <2>1, <2>2
<1>3. /\ Upto(h, es, 1) = g1 /\ Upto(h, es, 2) = g2 /\ Upto(h, es, 3) = g3
      /\ Upto(h, es, 4) = g4 /\ Upto(h, es, 5) = g5
  BY <1>1, <1>2 DEF Then
<1>4. ASSUME NEW n \in 0..Len(es) PROVE Sound(Upto(h, es, n))
  <2>1. n = 0 \/ n = 1 \/ n = 2 \/ n = 3 \/ n = 4 \/ n = 5 BY <1>1
  <2> QED BY <1>2, <1>3, <2>1 DEF Then
<1>5. ASSUME NEW n \in 1..Len(es) PROVE Accepts(Upto(h, es, n - 1), es[n])
  <2>1. \/ n = 1 /\ n - 1 = 0
        \/ n = 2 /\ n - 1 = 1
        \/ n = 3 /\ n - 1 = 2
        \/ n = 4 /\ n - 1 = 3
        \/ n = 5 /\ n - 1 = 4
    BY <1>1
  <2> QED BY <1>1, <1>2, <1>3, <2>1 DEF Then
<1>6. Good(h, es) BY <1>4, <1>5 DEF Good
<1> QED BY <1>1, <1>2, <1>3, <1>6 DEF es, T

-----------------------------------------------------------------------------
(* The second inductive invariant, of a session whose tools are the same   *)
(* at every load.                                                          *)

(* The journal can be recovered, with the entry in doubt and without.      *)
Sane ==
  /\ ~refused /\ Sound(log) /\ Sound(Written)
  /\ \A a, b \in doubt : a = b

(* The task is where the history says.                                     *)
Point ==
  active # 0 /\ step # "leave" /\ ~check => PointAt(log, step, at, result, question)

(* The session in memory is a projection of its journal, or wants a check. *)
Shown ==
  /\ installed \in Installs /\ check \in BOOLEAN /\ (check => loaded)
  /\ loaded /\ ~check => requests = Accepted(log) /\ unclosed = Unclosed(log)
  /\ active # 0 => failed \in {0, active} /\ (~check => failed = 0)
  /\ Quiet => OpenRuns(log) = {}

(* What it shows of the runs that are not active: how they ended, or that  *)
(* the failed one failed, which recovery will record.                      *)
Statuses == {"none", "InProgress", "Completed", "Failed", "Interrupted"}
SeenRun(r) ==
  /\ view[r] = "none" /\ r \in RunsIn(log) => check
  /\ view[r] # "none" => r \in RunsIn(log)
  /\ view[r] # "none" /\ r # active =>
       IF <<r, 0, 0>> \in OpenRuns(log) THEN r = failed /\ view[r] = "Failed"
       ELSE view[r] = EndOf(log, r)
Seen ==
  /\ view \in [RunIds -> Statuses]
  /\ loaded => \A r \in RunIds : SeenRun(r)
  /\ ~loaded => \A r \in RunIds : view[r] = "none"

(* The active run is open until its end is recorded.                       *)
Told(res) ==
  CASE res = "Completed" -> "Completed"
    [] res = "Cancelled" -> "Interrupted"
    [] OTHER -> "Failed"
Ongoing ==
  /\ runs <= MaxRuns
  /\ active # 0 =>
       /\ active \in RunsIn(log)
       /\ IF step = "leave" /\ result # "Error"
            THEN OpenRuns(log) = {} /\ EndOf(log, active) = Told(result)
            ELSE <<active, 0, 0>> \in OpenRuns(log)

SafeInv == RunInv /\ Sane /\ Point /\ Shown /\ Seen /\ Ongoing

-----------------------------------------------------------------------------
(* The same runs have begun and ended.                                     *)
SameRuns(h, g) ==
  /\ h \subseteq g
  /\ \A e \in g : e.kind \in {"RunStarted", "RunEnd"} => e \in h

(* ... and so are shown alike.                                             *)
LEMMA SameRunsAlike ==
  ASSUME NEW h, NEW g, SameRuns(h, g)
  PROVE  OpenRuns(g) = OpenRuns(h) /\ RunsIn(g) = RunsIn(h) /\ \A r : EndOf(g, r) = EndOf(h, r)
<1>1. Places(g, "RunStarted") = Places(h, "RunStarted") /\ Places(g, "RunEnd") = Places(h, "RunEnd")
  BY DEF SameRuns, Places
<1>2. \A x, w : Says(g, "RunEnd", x, w) <=> Says(h, "RunEnd", x, w)
  <2> SUFFICES ASSUME NEW x, NEW w PROVE Says(g, "RunEnd", x, w) <=> Says(h, "RunEnd", x, w) OBVIOUS
  <2>1. Entry("RunEnd", x, <<w>>).kind = "RunEnd" BY DEF Entry
  <2> QED BY <2>1 DEF Says, SameRuns
<1>3. \A r : EndOf(g, r) = EndOf(h, r) BY <1>2 DEF EndOf
<1> QED BY <1>1, <1>3 DEF OpenRuns, RunsIn

(* A step of the task, or about it, that neither begins nor ends its run.  *)
LEMMA Sustains ==
  ASSUME SafeInv, active # 0, step # "leave", SameRuns(log, log'),
         UNCHANGED <<loaded, installed, view, active, runs>>,
         failed' \in {failed, active}, ~check' => failed' = failed,
         step' = "leave" => result' = "Error", check => check', check' \in BOOLEAN,
         Sane', Point',
         ~check' => requests' = Accepted(log') /\ unclosed' = Unclosed(log')
  PROVE  Sane' /\ Point' /\ Shown' /\ Seen' /\ Ongoing'
<1>1. OpenRuns(log') = OpenRuns(log) /\ RunsIn(log') = RunsIn(log)
      /\ \A r : EndOf(log', r) = EndOf(log, r)
  BY SameRunsAlike
<1>2. loaded /\ loaded' BY DEF SafeInv, RunInv, Placed
<1>3. failed' \in {0, active} /\ (~check' => failed' = 0) BY DEF SafeInv, Shown
<1>4. Shown' BY <1>2, <1>3 DEF SafeInv, Shown, Quiet
<1>5. Ongoing' BY <1>1 DEF SafeInv, Ongoing
<1>6. \A r \in RunIds : SeenRun(r)'
  <2> SUFFICES ASSUME NEW r \in RunIds PROVE SeenRun(r)' OBVIOUS
  <2>1. SeenRun(r) BY <1>2 DEF SafeInv, Seen
  <2>2. ASSUME r # active, <<r, 0, 0>> \in OpenRuns(log) PROVE view[r] = "none"
    <3>1. failed \in {0, active} BY DEF SafeInv, Shown
    <3>2. r # 0 BY RunBounds DEF RunIds
    <3> QED BY <2>1, <2>2, <3>1, <3>2 DEF SeenRun
  <2> QED BY <1>1, <2>1, <2>2 DEF SeenRun
<1>7. Seen' BY <1>2, <1>6 DEF SafeInv, Seen
<1> QED BY <1>4, <1>5, <1>7

-----------------------------------------------------------------------------
(* A section that appends es leaves a journal that can be recovered.       *)
LEMMA AppendsGood ==
  ASSUME Sane, NEW T, NEW es \in Seq(T), ~check => Good(log, es), Succeed(es) \/ Fault(es)
  PROVE  Sane'
<1>1. CASE UNCHANGED <<journal, faults, refused>> BY <1>1 DEF Sane, Written, journal
<1>2. CASE ~check /\ (Commit(log, es) \/ Break(log, es))
  <2>1. ~refused' /\ Sound(log') /\ Sound(log' \cup doubt') BY <1>2, GoodAppends DEF Sane
  <2>2. \A a, b \in doubt' : a = b BY <1>2 DEF Commit, Break
  <2> QED BY <2>1, <2>2 DEF Sane, Written
<1> QED BY <1>1, <1>2 DEF Succeed, Fault

(* It begins and ends no run, unless an entry of it does.                  *)
LEMMA SameAfter ==
  ASSUME NEW T, NEW es \in Seq(T), Succeed(es) \/ Fault(es),
         \A e \in T : e.kind \notin {"RunStarted", "RunEnd"}
  PROVE  SameRuns(log, log')
<1>1. CASE UNCHANGED journal BY <1>1 DEF SameRuns, journal
<1>2. CASE Commit(log, es)
  <2>1. ToSet(es) \subseteq T BY Within
  <2> QED BY <1>2, <2>1 DEF Commit, SameRuns
<1>3. CASE Break(log, es)
  <2>1. PICK n \in 1..Len(es) : log' = log \cup ToSet(SubSeq(es, 1, n - 1)) BY <1>3 DEF Break
  <2>2. SubSeq(es, 1, n - 1) \in Seq(T) BY <2>1
  <2>3. ToSet(SubSeq(es, 1, n - 1)) \subseteq T BY <2>2, Within
  <2> QED BY <2>1, <2>3 DEF SameRuns
<1> QED BY <1>1, <1>2, <1>3 DEF Succeed, Fault

(* A failed section of one entry leaves the history.                       *)
LEMMA FaultOne ==
  ASSUME NEW e, Fault(<<e>>)
  PROVE  log' = log
<1>1. CASE UNCHANGED journal BY <1>1 DEF journal
<1>2. CASE Break(log, <<e>>)
  <2>1. PICK n \in 1..Len(<<e>>) : log' = log \cup ToSet(SubSeq(<<e>>, 1, n - 1)) BY <1>2 DEF Break
  <2>2. n = 1 BY <2>1
  <2>3. SubSeq(<<e>>, 1, n - 1) = <<>> BY <2>2
  <2> QED BY <2>1, <2>3, None
<1> QED BY <1>1, <1>2 DEF Fault

(* Where the task is, before a section that may append.                    *)
LEMMA Standing ==
  ASSUME SafeInv, step \notin {"idle", "leave"}
  PROVE  /\ active # 0 /\ loaded /\ at \in Ids /\ IsFiniteSet(log) /\ Sound(log)
         /\ ~check => /\ PointAt(log, step, at, result, question)
                      /\ requests = Accepted(log) /\ unclosed = Unclosed(log)
BY DEF SafeInv, RunInv, Placed, Filed, Sane, Point, Shown

(* What such a section leaves alone.                                       *)
Apart == UNCHANGED <<loaded, installed, view, active, runs, failed, requests>>

(* The section fails.                                                      *)
LEMMA FaultSustains ==
  ASSUME SafeInv, step \notin {"idle", "leave"}, NEW T, NEW es \in Seq(T),
         ~check => Good(log, es), Fault(es), SameRuns(log, log'), Apart,
         step' = "leave" => result' = "Error"
  PROVE  Sane' /\ Point' /\ Shown' /\ Seen' /\ Ongoing'
<1>1. active # 0 /\ loaded BY Standing
<1>2. check' = TRUE
  <2>1. check \in BOOLEAN BY DEF SafeInv, Shown
  <2> QED BY <1>1, <2>1 DEF Fault, Break, journal
<1>3. Sane' BY AppendsGood DEF SafeInv
<1>4. Point' BY <1>2 DEF Point
<1> QED BY <1>1, <1>2, <1>3, <1>4, Sustains DEF Apart

(* The section succeeds, and leaves the task where it should be.           *)
LEMMA SuccessSustains ==
  ASSUME SafeInv, step \notin {"idle", "leave"}, NEW T, NEW es \in Seq(T),
         Good(log, es), Succeed(es), Apart,
         \A e \in T : e.kind \notin {"RunStarted", "RunEnd", "InputAccepted"},
         step' # "leave", unclosed' = Unclosed(log'),
         PointAt(log', step', at', result', question')
  PROVE  Sane' /\ Point' /\ Shown' /\ Seen' /\ Ongoing'
<1>1. active # 0 BY Standing
<1>2. ~check /\ check' = FALSE /\ log' = log \cup ToSet(es) BY DEF Succeed, Commit
<1>3. Sane' BY AppendsGood DEF SafeInv
<1>4. Point' BY DEF Point
<1>5. SameRuns(log, log') BY SameAfter
<1>6. Accepted(log') = Accepted(log)
  <2>1. ToSet(es) \subseteq T BY Within
  <2> QED BY <1>2, <2>1 DEF Accepted
<1>7. requests' = Accepted(log') BY <1>2, <1>6, Standing DEF Apart
<1> QED BY <1>1, <1>2, <1>3, <1>4, <1>5, <1>7, Sustains DEF Apart

(* A step of the task that appends nothing.                                *)
LEMMA StillSustains ==
  ASSUME SafeInv, step \notin {"idle", "leave"}, Apart, UNCHANGED <<journal, refused, unclosed>>,
         step' = "leave" => result' = "Error",
         ~check /\ step' # "leave" => PointAt(log, step', at', result', question')
  PROVE  Sane' /\ Point' /\ Shown' /\ Seen' /\ Ongoing'
<1>1. active # 0 BY Standing
<1>2. log' = log /\ doubt' = doubt /\ check' = check BY DEF journal
<1>3. Sane' BY <1>2 DEF SafeInv, Sane, Written
<1>4. Point' BY <1>2 DEF Point
<1>5. SameRuns(log, log') BY <1>2 DEF SameRuns
<1>6. check' \in BOOLEAN BY <1>2 DEF SafeInv, Shown
<1>7. ~check' => requests' = Accepted(log') /\ unclosed' = Unclosed(log')
  BY <1>2, Standing DEF Apart
<1> QED BY <1>1, <1>2, <1>3, <1>4, <1>5, <1>6, <1>7, Sustains DEF Apart

(* A section of one entry.                                                 *)
LEMMA OneSustains ==
  ASSUME SafeInv, step \notin {"idle", "leave"}, NEW e,
         ~check => Accepts(log, e) /\ Sound(log \cup {e}), Apart,
         e.kind \notin {"RunStarted", "RunEnd", "InputAccepted"},
         \/ Fault(<<e>>) /\ (step' = "leave" => result' = "Error")
         \/ /\ Succeed(<<e>>) /\ step' # "leave" /\ unclosed' = Unclosed(log \cup {e})
            /\ PointAt(log \cup {e}, step', at', result', question')
  PROVE  Sane' /\ Point' /\ Shown' /\ Seen' /\ Ongoing'
<1> DEFINE es == <<e>>
           T == {e}
<1>1. ToSet(es) = {e} /\ es \in Seq(T) BY One
<1>2. ~check => Good(log, es) BY GoodOne, Standing
<1>3. \A f \in T : f.kind \notin {"RunStarted", "RunEnd", "InputAccepted"} OBVIOUS
<1>4. Fault(es) => log' = log BY FaultOne
<1>5. Succeed(es) => ~check /\ log' = log \cup {e} BY <1>1 DEF Succeed, Commit
<1>6. \/ Fault(es) /\ (step' = "leave" => result' = "Error")
      \/ /\ Succeed(es) /\ step' # "leave" /\ unclosed' = Unclosed(log \cup {e})
         /\ PointAt(log \cup {e}, step', at', result', question')
  OBVIOUS
<1> HIDE DEF es, T
<1>7. CASE Fault(es) /\ (step' = "leave" => result' = "Error")
  <2>1. SameRuns(log, log') BY <1>4, <1>7 DEF SameRuns
  <2> QED BY <1>1, <1>2, <1>7, <2>1, FaultSustains
<1>8. CASE /\ Succeed(es) /\ step' # "leave" /\ unclosed' = Unclosed(log \cup {e})
           /\ PointAt(log \cup {e}, step', at', result', question')
  <2>1. ~check /\ log' = log \cup {e} BY <1>5, <1>8
  <2>2. unclosed' = Unclosed(log') /\ PointAt(log', step', at', result', question') BY <1>8, <2>1
  <2> QED BY <1>1, <1>2, <1>3, <1>8, <2>1, <2>2, SuccessSustains
<1> QED BY <1>6, <1>7, <1>8

-----------------------------------------------------------------------------
(* One lemma per action.                                                   *)
LEMMA RefuseSustains ==
  ASSUME SafeInv, Refuse \/ RunLocal
  PROVE  Sane' /\ Point' /\ Shown' /\ Seen' /\ Ongoing'
<1>1. step = "run" /\ step' = "result" /\ at' = at BY DEF Refuse, RunLocal, GoTo
<1>2. Apart /\ UNCHANGED <<journal, refused, unclosed>> BY DEF Refuse, RunLocal, session, Apart
<1>3. at \in Ids /\ (~check => PointAt(log, "run", at, result, question)) BY <1>1, Standing
<1>4. ~check => PointAt(log, "result", at, result', question') BY <1>3, HistResult
<1> QED BY <1>1, <1>2, <1>4, StillSustains

(* Bash ends, is killed, or its outcome is unknown.                        *)
LEMMA RunBashSustains ==
  ASSUME SafeInv, RunBash
  PROVE  Sane' /\ Point' /\ Shown' /\ Seen' /\ Ongoing'
<1>1. step = "run" /\ at' = at /\ step' \in {"result", "leave"} /\ (step' = "leave" => result' = "Error")
  BY DEF RunBash, GoTo, GiveUp
<1>2. Apart /\ UNCHANGED <<journal, refused, unclosed>> BY DEF RunBash, session, Apart
<1>3. at \in Ids /\ (~check => PointAt(log, "run", at, result, question)) BY <1>1, Standing
<1>4. ~check => PointAt(log, "result", at, result', question') BY <1>3, HistResult
<1> QED BY <1>1, <1>2, <1>4, StillSustains

(* The intent of the next call is recorded.                                *)
LEMMA CommitIntentSustains ==
  ASSUME SafeInv, CommitIntent
  PROVE  Sane' /\ Point' /\ Shown' /\ Seen' /\ Ongoing'
<1> DEFINE e == Entry("ToolIntent", at, <<Tool(at)>>)
<1>1. step = "call" /\ at' = at /\ Apart BY DEF CommitIntent, GoTo, GiveUp, session, Apart
<1>2. /\ at \in Ids /\ IsFiniteSet(log) /\ Sound(log)
      /\ ~check => PointAt(log, "call", at, result, question) /\ unclosed = Unclosed(log)
  BY <1>1, Standing
<1>3. ~check => /\ Accepts(log, e) /\ Sound(log \cup {e})
                /\ \A s \in {"run", "result"} : \A w, p : PointAt(log \cup {e}, s, at, w, p)
  BY <1>2, HistIntent DEF Tool
<1>4. e.kind = "ToolIntent" BY DEF Entry
<1>5. \/ Fault(<<e>>) /\ (step' = "leave" => result' = "Error")
      \/ Succeed(<<e>>) /\ step' \in {"run", "result"} /\ unclosed' = unclosed
  BY DEF CommitIntent, GoTo, GiveUp, session
<1> HIDE DEF e
<1>6. ~check => Unclosed(log \cup {e}) = Unclosed(log) BY <1>3, <1>4, AddsUnclosed
<1>7. Succeed(<<e>>) => ~check BY DEF Succeed
<1> QED BY <1>1, <1>2, <1>3, <1>4, <1>5, <1>6, <1>7, OneSustains

(* The helper model of WebFetch is asked.                                  *)
LEMMA BeginExtractionSustains ==
  ASSUME SafeInv, BeginExtraction
  PROVE  Sane' /\ Point' /\ Shown' /\ Seen' /\ Ongoing'
<1> DEFINE e == Entry("GenStarted", at, <<>>)
<1>1. step = "run" /\ at' = at /\ Apart BY DEF BeginExtraction, GoTo, GiveUp, session, Apart
<1>2. /\ at \in Ids /\ Sound(log)
      /\ ~check => PointAt(log, "run", at, result, question) /\ unclosed = Unclosed(log)
  BY <1>1, Standing
<1>3. ~check => /\ Accepts(log, e) /\ Sound(log \cup {e})
                /\ \A w, p : PointAt(log \cup {e}, "generate", at, w, p)
  BY <1>2, HistExtract
<1>4. e.kind = "GenStarted" BY DEF Entry
<1>5. \/ Fault(<<e>>) /\ (step' = "leave" => result' = "Error")
      \/ Succeed(<<e>>) /\ step' = "generate" /\ unclosed' = unclosed
  BY DEF BeginExtraction, GoTo, GiveUp, session
<1> HIDE DEF e
<1>6. ~check => Unclosed(log \cup {e}) = Unclosed(log) BY <1>3, <1>4, AddsUnclosed
<1>7. Succeed(<<e>>) => ~check BY DEF Succeed
<1> QED BY <1>1, <1>2, <1>3, <1>4, <1>5, <1>6, <1>7, OneSustains

(* A question is opened, unless the run is cancelled.                      *)
LEMMA AskSustains ==
  ASSUME SafeInv, Ask
  PROVE  Sane' /\ Point' /\ Shown' /\ Seen' /\ Ongoing'
<1> DEFINE e == Entry("InteractionOpened", at, <<>>)
<1>1. step = "run" /\ at' = at /\ Apart BY DEF Ask, GoTo, GiveUp, session, Apart
<1>2. /\ at \in Ids /\ Sound(log)
      /\ ~check => PointAt(log, "run", at, result, question) /\ unclosed = Unclosed(log)
  BY <1>1, Standing
<1>3. CASE step' = "result" /\ UNCHANGED <<journal, refused, unclosed>>
  <2>1. ~check => PointAt(log, "result", at, result', question') BY <1>2, HistResult
  <2> QED BY <1>1, <1>3, <2>1, StillSustains
<1>4. CASE \/ Fault(<<e>>) /\ (step' = "leave" => result' = "Error")
           \/ Succeed(<<e>>) /\ step' = "ask" /\ question' = "pending" /\ unclosed' = unclosed
  <2>1. ~check => /\ Accepts(log, e) /\ Sound(log \cup {e})
                  /\ \A w : PointAt(log \cup {e}, "ask", at, w, "pending")
    BY <1>2, HistAsk
  <2>2. e.kind = "InteractionOpened" BY DEF Entry
  <2>3. ~check => Unclosed(log \cup {e}) = Unclosed(log) BY <2>1, <2>2, AddsUnclosed
  <2>4. Succeed(<<e>>) => ~check BY DEF Succeed
  <2> HIDE DEF e
  <2> QED BY <1>1, <1>2, <1>4, <2>1, <2>2, <2>3, <2>4, OneSustains
<1> QED BY <1>3, <1>4 DEF Ask, GoTo, GiveUp, session

(* The wait returns the answer.                                            *)
LEMMA AnsweredSustains ==
  ASSUME SafeInv, Answered
  PROVE  Sane' /\ Point' /\ Shown' /\ Seen' /\ Ongoing'
<1>1. step = "ask" /\ question # "pending" /\ step' = "result" /\ at' = at BY DEF Answered, GoTo
<1>2. Apart /\ UNCHANGED <<journal, refused, unclosed>> BY DEF Answered, session, Apart
<1>3. at \in Ids /\ (~check => PointAt(log, "ask", at, result, question)) BY <1>1, Standing
<1>4. ~check => PointAt(log, "result", at, result', question') BY <1>1, <1>3, HistResult
<1> QED BY <1>1, <1>2, <1>4, StillSustains

(* A client answers, or the question expires with the run.                 *)
LEMMA AnswerSustains ==
  ASSUME SafeInv, Respond \/ Expire
  PROVE  Sane' /\ Point' /\ Shown' /\ Seen' /\ Ongoing'
<1> DEFINE kind == IF Respond THEN "InteractionResolved" ELSE "InteractionExpired"
           words == IF Respond THEN <<>> ELSE <<"Stopped">>
           e == Entry(kind, at, words)
<1>1. step = "ask" /\ question = "pending" /\ at' = at /\ Apart
  BY DEF Respond, Expire, GoTo, GiveUp, session, Apart
<1>2. /\ at \in Ids /\ Sound(log)
      /\ ~check => PointAt(log, "ask", at, result, "pending") /\ unclosed = Unclosed(log)
  BY <1>1, Standing
<1>3. kind \in {"InteractionResolved", "InteractionExpired"} OBVIOUS
<1>4. \/ Fault(<<e>>) /\ (step' = "leave" => result' = "Error")
      \/ Succeed(<<e>>) /\ step' = "result" /\ unclosed' = unclosed
      \/ Succeed(<<e>>) /\ step' = "ask" /\ question' = "resolved" /\ unclosed' = unclosed
  <2>1. CASE Respond BY <1>1, <2>1 DEF Respond, session
  <2>2. CASE ~Respond /\ Expire BY <2>2 DEF Expire, GoTo, GiveUp, session
  <2> QED BY <2>1, <2>2
<1>5. e.kind = kind BY DEF Entry
<1> HIDE DEF kind, words
<1>6. ~check => /\ Accepts(log, e) /\ Sound(log \cup {e})
                /\ \A w, p : PointAt(log \cup {e}, "result", at, w, p)
                /\ \A w : PointAt(log \cup {e}, "ask", at, w, "resolved")
  BY <1>2, <1>3, HistAnswer
<1> HIDE DEF e
<1>7. ~check => Unclosed(log \cup {e}) = Unclosed(log) BY <1>3, <1>5, <1>6, AddsUnclosed
<1>8. Succeed(<<e>>) => ~check BY DEF Succeed
<1> QED BY <1>1, <1>2, <1>3, <1>4, <1>5, <1>6, <1>7, <1>8, OneSustains

(* The result of a call is recorded.                                       *)
LEMMA CommitResultSustains ==
  ASSUME SafeInv, CommitResult
  PROVE  Sane' /\ Point' /\ Shown' /\ Seen' /\ Ongoing'
<1> DEFINE e == Entry("ToolOutcome", at, <<result>>)
           next == <<at[1], at[2], at[3] + 1>>
<1>1. step = "result" /\ Apart BY DEF CommitResult, GoTo, GiveUp, Apart
<1>2. /\ at \in Ids /\ Sound(log)
      /\ ~check => PointAt(log, "result", at, result, question) /\ unclosed = Unclosed(log)
  BY <1>1, Standing
<1>3. ~check => /\ Accepts(log, e) /\ Sound(log \cup {e}) /\ Unclosed(log \cup {e}) = Unclosed(log) \ {at}
                /\ next \in CallsOf(log, TurnOf(at)) => \A v, p : PointAt(log \cup {e}, "call", next, v, p)
                /\ next \notin CallsOf(log, TurnOf(at)) =>
                     \A p : PointAt(log \cup {e}, "turn", TurnOf(at), "Completed", p)
  BY <1>2, HistOutcome
<1>4. e.kind = "ToolOutcome" BY DEF Entry
<1>5. \/ Fault(<<e>>) /\ (step' = "leave" => result' = "Error")
      \/ /\ Succeed(<<e>>) /\ unclosed' = unclosed \ {at}
         /\ IF next \in CallsOf(log, TurnOf(at))
              THEN step' = "call" /\ at' = next
              ELSE step' = "turn" /\ at' = TurnOf(at) /\ result' = "Completed"
  BY DEF CommitResult, GoTo, GiveUp
<1>6. Succeed(<<e>>) => ~check BY DEF Succeed
<1> HIDE DEF e, next
<1>7. CASE Fault(<<e>>) /\ (step' = "leave" => result' = "Error")
  BY <1>1, <1>3, <1>4, <1>7, OneSustains
<1>8. CASE /\ Succeed(<<e>>) /\ unclosed' = unclosed \ {at}
           /\ IF next \in CallsOf(log, TurnOf(at))
                THEN step' = "call" /\ at' = next
                ELSE step' = "turn" /\ at' = TurnOf(at) /\ result' = "Completed"
  <2>1. step' # "leave" /\ unclosed' = Unclosed(log \cup {e}) BY <1>2, <1>3, <1>6, <1>8
  <2>2. PointAt(log \cup {e}, step', at', result', question') BY <1>3, <1>6, <1>8
  <2> QED BY <1>1, <1>3, <1>4, <1>8, <2>1, <2>2, OneSustains
<1> QED BY <1>5, <1>7, <1>8

-----------------------------------------------------------------------------
(* A section of two entries.                                               *)
LEMMA TwoSustains ==
  ASSUME SafeInv, step \notin {"idle", "leave"}, NEW a, NEW b, NEW g, NEW k,
         ~check => Then(log, a, g) /\ Then(g, b, k), Apart,
         {a.kind, b.kind} \cap {"RunStarted", "RunEnd", "InputAccepted"} = {},
         \/ Fault(<<a, b>>) /\ (step' = "leave" => result' = "Error")
         \/ /\ Succeed(<<a, b>>) /\ step' # "leave" /\ unclosed' = Unclosed(k)
            /\ PointAt(k, step', at', result', question')
  PROVE  Sane' /\ Point' /\ Shown' /\ Seen' /\ Ongoing'
<1> DEFINE es == <<a, b>>
           T == {a, b}
<1>1. es \in Seq(T) OBVIOUS
<1>2. ~check => Good(log, es) /\ log \cup ToSet(es) = k BY GoodTwo, Standing
<1>3. \A f \in T : f.kind \notin {"RunStarted", "RunEnd", "InputAccepted"} OBVIOUS
<1>4. \/ Fault(es) /\ (step' = "leave" => result' = "Error")
      \/ /\ Succeed(es) /\ step' # "leave" /\ unclosed' = Unclosed(k)
         /\ PointAt(k, step', at', result', question')
  OBVIOUS
<1> HIDE DEF es, T
<1>5. CASE Fault(es) /\ (step' = "leave" => result' = "Error")
  <2>1. SameRuns(log, log') BY <1>1, <1>3, <1>5, SameAfter
  <2> QED BY <1>1, <1>2, <1>5, <2>1, FaultSustains
<1>6. CASE /\ Succeed(es) /\ step' # "leave" /\ unclosed' = Unclosed(k)
           /\ PointAt(k, step', at', result', question')
  <2>1. ~check /\ log' = k BY <1>2, <1>6 DEF Succeed, Commit
  <2>2. unclosed' = Unclosed(log') /\ PointAt(log', step', at', result', question') BY <1>6, <2>1
  <2> QED BY <1>1, <1>2, <1>3, <1>6, <2>1, <2>2, SuccessSustains
<1> QED BY <1>4, <1>5, <1>6

(* One entry after none, or after another.                                 *)
LEMMA PutTogether ==
  ASSUME NEW m, NEW e
  PROVE  <<>> \o <<e>> = <<e>> /\ <<m>> \o <<e>> = <<m, e>>
<1> DEFINE T == {m, e}
<1>1. <<>> \in Seq(T) /\ <<m>> \in Seq(T) /\ <<e>> \in Seq(T) /\ <<m, e>> \in Seq(T) OBVIOUS
<1>2. \A s, t \in Seq(T) : Len(s) = Len(t) /\ (\A n \in 1..Len(s) : s[n] = t[n]) => s = t OBVIOUS
<1>3. Len(<<>>) = 0 /\ Len(<<m>>) = 1 /\ Len(<<e>>) = 1 /\ Len(<<m, e>>) = 2 OBVIOUS
<1>4. <<m>>[1] = m /\ <<e>>[1] = e /\ <<m, e>>[1] = m /\ <<m, e>>[2] = e OBVIOUS
<1> HIDE DEF T
<1>5. <<>> \o <<e>> = <<e>>
  <2> DEFINE s == <<>> \o <<e>>
  <2>1. /\ s \in Seq(T) /\ Len(s) = Len(<<>>) + Len(<<e>>)
        /\ \A k \in 1..Len(<<e>>) : s[Len(<<>>) + k] = <<e>>[k]
    BY <1>1, Catenated
  <2> HIDE DEF s
  <2>2. Len(s) = 1 /\ s[1] = e BY <1>3, <1>4, <2>1
  <2>3. \A n \in 1..Len(s) : s[n] = <<e>>[n] BY <1>4, <2>2
  <2>4. s = <<e>> BY <1>1, <1>2, <1>3, <2>1, <2>2, <2>3
  <2> QED BY <2>4 DEF s
<1>6. <<m>> \o <<e>> = <<m, e>>
  <2> DEFINE s == <<m>> \o <<e>>
  <2>1. /\ s \in Seq(T) /\ Len(s) = Len(<<m>>) + Len(<<e>>)
        /\ \A k \in 1..Len(<<m>>) : s[k] = <<m>>[k]
        /\ \A k \in 1..Len(<<e>>) : s[Len(<<m>>) + k] = <<e>>[k]
    BY <1>1, Catenated
  <2> HIDE DEF s
  <2>6. 1 \in 1..Len(<<m>>) /\ 1 \in 1..Len(<<e>>) /\ Len(<<m>>) + 1 = 2 /\ Len(s) = 2 BY <1>3, <2>1
  <2>7. s[1] = <<m>>[1] /\ s[Len(<<m>>) + 1] = <<e>>[1] BY <2>1, <2>6
  <2>2. Len(s) = 2 /\ s[1] = m /\ s[2] = e BY <1>4, <2>6, <2>7
  <2>3. \A n \in 1..Len(s) : s[n] = <<m, e>>[n]
    <3> SUFFICES ASSUME NEW n \in 1..Len(s) PROVE s[n] = <<m, e>>[n] OBVIOUS
    <3>1. n = 1 \/ n = 2 BY <2>2
    <3> QED BY <1>4, <2>2, <3>1
  <2>4. Len(s) = Len(<<m, e>>) BY <1>3, <2>2
  <2>5. s = <<m, e>> BY <1>1, <1>2, <2>1, <2>3, <2>4
  <2> QED BY <2>5 DEF s
<1> QED BY <1>5, <1>6

(* What Record appends.                                                    *)
LEMMA RecordIs ==
  ASSUME NEW res, NEW words
  PROVE  /\ words = <<>> => Record(res, words) = <<Entry("GenEnded", at, <<Durable(res)>>)>>
         /\ words # <<>> =>
              Record(res, words) = <<Entry("Message", at, words), Entry("GenEnded", at, <<Durable(res)>>)>>
<1> DEFINE m == Entry("Message", at, words)
           e == Entry("GenEnded", at, <<Durable(res)>>)
<1>1. Record(res, words) = (IF words = <<>> THEN <<>> ELSE <<m>>) \o <<e>> BY DEF Record
<1> HIDE DEF m, e
<1>2. <<>> \o <<e>> = <<e>> /\ <<m>> \o <<e>> = <<m, e>> BY PutTogether
<1> QED BY <1>1, <1>2 DEF m, e

(* A generation ends that is not a reply: it failed, was cancelled, or was *)
(* an extraction.                                                          *)
LEMMA RecordSustains ==
  ASSUME SafeInv, step = "generate", Apart, unclosed' = unclosed, NEW res, NEW words,
         res = "Completed" => ~Conversation(at) /\ words # <<>> /\ Head(words) = "Complete",
         \/ Fault(Record(res, words)) /\ (step' = "leave" => result' = "Error")
         \/ /\ Succeed(Record(res, words)) /\ at' = at
            /\ IF Conversation(at) THEN step' = "turn" /\ result' \in {"Failed", "Cancelled"}
               ELSE step' = "result"
  PROVE  Sane' /\ Point' /\ Shown' /\ Seen' /\ Ongoing'
<1> DEFINE w == Durable(res)
           m == Entry("Message", at, words)
           e == Entry("GenEnded", at, <<w>>)
<1>1. /\ at \in Ids /\ Sound(log)
      /\ ~check => PointAt(log, "generate", at, result, question) /\ unclosed = Unclosed(log)
  BY Standing
<1>2. w = "Completed" => ~Conversation(at) /\ words # <<>> /\ Head(words) = "Complete"
  BY DEF Durable
<1>3. m.kind = "Message" /\ e.kind = "GenEnded" BY DEF Entry
<1>4. Succeed(Record(res, words)) => ~check BY DEF Succeed
<1>5. CASE words = <<>>
  <2>1. Record(res, words) = <<e>> BY <1>5, RecordIs
  <2>2. ~check => /\ OpenAt(log, "generate", at, question) /\ NumberedTo(log, at[1], at[2])
                  /\ ~Conversation(at) => CallAt(log, at)
    BY <1>1 DEF PointAt, StandsAt, Inside
  <2>3. w # "Completed" BY <1>2, <1>5
  <2> HIDE DEF w
  <2>4. ~check => /\ Accepts(log, e) /\ Sound(log \cup {e}) /\ Unclosed(log \cup {e}) = Unclosed(log)
                  /\ ~Conversation(at) => \A v, p : PointAt(log \cup {e}, "result", at, v, p)
                  /\ Conversation(at) =>
                       \A v \in {"Failed", "Cancelled"} : \A p : PointAt(log \cup {e}, "turn", at, v, p)
    BY <1>1, <2>2, <2>3, HistGenEnd
  <2> HIDE DEF e, m
  <2>5. \/ Fault(<<e>>) /\ (step' = "leave" => result' = "Error")
        \/ /\ Succeed(<<e>>) /\ step' # "leave" /\ unclosed' = Unclosed(log \cup {e})
           /\ PointAt(log \cup {e}, step', at', result', question')
    BY <1>1, <1>4, <2>1, <2>4
  <2> QED BY <1>3, <2>4, <2>5, OneSustains
<1>6. CASE words # <<>>
  <2> DEFINE g == log \cup {m}
             k == g \cup {e}
  <2>1. Record(res, words) = <<m, e>> BY <1>6, RecordIs
  <2> HIDE DEF w
  <2>2. ~check => /\ Accepts(log, m) /\ Sound(g) /\ Unclosed(g) = Unclosed(log)
                  /\ OpenAt(g, "generate", at, question) /\ NumberedTo(g, at[1], at[2])
                  /\ ~Conversation(at) => CallAt(g, at)
                  /\ Has(g, "Message", at) /\ Words(g, "Message", at) = words
    BY <1>1, HistMessage
  <2> HIDE DEF g, m
  <2>3. ~check => /\ Accepts(g, e) /\ Sound(k)
                  /\ ~Conversation(at) => Unclosed(k) = Unclosed(g) /\ \A v, p : PointAt(k, "result", at, v, p)
                  /\ Conversation(at) /\ w # "Completed" =>
                       /\ Unclosed(k) = Unclosed(g)
                       /\ \A v \in {"Failed", "Cancelled"} : \A p : PointAt(k, "turn", at, v, p)
    BY <1>1, <1>2, <2>2, HistGenEnd
  <2>4. g = log \cup {m} /\ k = g \cup {e} BY DEF g
  <2> HIDE DEF k, e
  <2>5. ~check => Then(log, m, g) /\ Then(g, e, k) BY <2>2, <2>3, <2>4 DEF Then
  <2>6. \/ Fault(<<m, e>>) /\ (step' = "leave" => result' = "Error")
        \/ /\ Succeed(<<m, e>>) /\ step' # "leave" /\ unclosed' = Unclosed(k)
           /\ PointAt(k, step', at', result', question')
    BY <1>1, <1>2, <1>4, <2>1, <2>2, <2>3
  <2> QED BY <1>3, <2>5, <2>6, TwoSustains
<1> QED BY <1>5, <1>6

(* The helper model ends, however it does.                                 *)
LEMMA EndExtractionSustains ==
  ASSUME SafeInv, EndExtraction
  PROVE  Sane' /\ Point' /\ Shown' /\ Seen' /\ Ongoing'
<1>1. step = "generate" /\ ~Conversation(at) /\ Apart /\ unclosed' = unclosed
  BY DEF EndExtraction, session, Apart
<1>2. PICK res, words :
        /\ res = "Completed" => words = <<"Complete">>
        /\ \/ Fault(Record(res, words)) /\ (step' = "leave" => result' = "Error")
           \/ Succeed(Record(res, words)) /\ at' = at /\ step' = "result"
  BY DEF EndExtraction, GoTo, GiveUp
<1>3. <<"Complete">> # <<>> /\ Head(<<"Complete">>) = "Complete" OBVIOUS
<1>4. res = "Completed" => ~Conversation(at) /\ words # <<>> /\ Head(words) = "Complete"
  BY <1>1, <1>2, <1>3
<1> QED BY <1>1, <1>2, <1>4, RecordSustains

(* The words of a complete reply.                                          *)
LEMMA ReplyWords ==
  ASSUME NEW S, NEW p \in Seq(S), NEW first \in S
  PROVE  LET words == <<first>> \o p IN
         words # <<>> /\ Head(words) = first /\ Len(words) = Len(p) + 1
<1> DEFINE one == <<first>>
           words == one \o p
<1>1. one \in Seq(S) OBVIOUS
<1>2. Len(one) = 1 OBVIOUS
<1>3. one[1] = first OBVIOUS
<1> HIDE DEF one
<1>4. /\ words \in Seq(S) /\ Len(words) = Len(one) + Len(p)
      /\ \A k \in 1..Len(one) : words[k] = one[k]
  BY <1>1, Catenated
<1> HIDE DEF words
<1>5. 1 \in 1..Len(one) BY <1>2
<1>6. words[1] = first BY <1>3, <1>4, <1>5
<1>7. Len(p) \in Nat OBVIOUS
<1>8. Len(words) = Len(p) + 1 BY <1>2, <1>4, <1>7
<1>9. words # <<>>
  <2> SUFFICES ASSUME words = <<>> PROVE FALSE OBVIOUS
  <2>1. Len(words) = 0 OBVIOUS
  <2> QED BY <1>7, <1>8, <2>1
<1>10. Head(words) = words[1] BY <1>4, <1>9
<1> QED BY <1>6, <1>8, <1>9, <1>10 DEF words, one

(* A complete reply of n calls that the run may still make.                *)
Fits(words, n) ==
  /\ words # <<>> /\ Head(words) = "Complete" /\ Len(words) = n + 1
  /\ Cardinality(IntentsOf(log, at[1])) + n <= MaxCalls

(* Such are the replies that count.                                        *)
LEMMA RepliesFit ==
  ASSUME SafeInv, step = "generate", NEW p \in Seq(STRING), Len(p) <= MaxCalls - Used
  PROVE  Len(p) \in Nat /\ Fits(<<"Complete">> \o p, Len(p))
<1> DEFINE n == Len(p)
           words == <<"Complete">> \o p
<1>1. words # <<>> /\ Head(words) = "Complete" /\ Len(words) = n + 1 BY ReplyWords
<1>2. n \in Nat /\ n <= MaxCalls - Used OBVIOUS
<1> HIDE DEF n, words
<1>3. Used = Cardinality(IntentsOf(log, at[1]))
  BY DEF Used, IntentsOf, SafeInv, RunInv, Placed
<1>4. IsFiniteSet(Places(log, "ToolIntent")) BY PlacesFinite, Standing
<1>5. IsFiniteSet(IntentsOf(log, at[1])) BY <1>4, FS_Subset DEF IntentsOf
<1>6. Cardinality(IntentsOf(log, at[1])) \in Nat BY <1>5, FS_CardinalityType
<1>7. Cardinality(IntentsOf(log, at[1])) + n <= MaxCalls BY <1>2, <1>3, <1>6, MaxCallsAssumption
<1>8. n \in Nat /\ Fits(words, n) BY <1>1, <1>2, <1>7 DEF Fits
<1> QED BY <1>8 DEF n, words

(* The model replies: its calls are the next the run makes, and within the *)
(* run's budget.                                                           *)
LEMMA ReplySustains ==
  ASSUME SafeInv, step = "generate", Conversation(at), Apart, NEW words, NEW n,
         n \in Nat /\ Fits(words, n),
         LET es == Record("Completed", words) IN
         \/ Fault(es) /\ (step' = "leave" => result' = "Error")
         \/ /\ Succeed(es) /\ unclosed' = unclosed \cup CallsOf(log', at)
            /\ IF Len(words) > 1 THEN step' = "call" /\ at' = <<at[1], at[2], 1>>
               ELSE step' = "turn" /\ at' = at /\ result' = "Completed"
  PROVE  Sane' /\ Point' /\ Shown' /\ Seen' /\ Ongoing'
<1> DEFINE m == Entry("Message", at, words)
           e == Entry("GenEnded", at, <<"Completed">>)
           g == log \cup {m}
           k == g \cup {e}
<1>1. n \in Nat /\ words # <<>> /\ Head(words) = "Complete" /\ Len(words) = n + 1
  BY DEF Fits
<1>2. /\ at \in Ids /\ Sound(log) /\ IsFiniteSet(log)
      /\ ~check => PointAt(log, "generate", at, result, question) /\ unclosed = Unclosed(log)
  BY Standing
<1>3. Cardinality(IntentsOf(log, at[1])) + n <= MaxCalls BY DEF Fits
<1>4. Record("Completed", words) = <<m, e>>
  <2>1. Durable("Completed") = "Completed" BY DEF Durable
  <2> QED BY <1>1, <2>1, RecordIs
<1>5. m.kind = "Message" /\ e.kind = "GenEnded" BY DEF Entry
<1>6. ~check => /\ Accepts(log, m) /\ Sound(g) /\ Unclosed(g) = Unclosed(log)
                /\ OpenAt(g, "generate", at, question) /\ NumberedTo(g, at[1], at[2])
                /\ Has(g, "Message", at) /\ Words(g, "Message", at) = words
                /\ IntentsOf(g, at[1]) = IntentsOf(log, at[1])
  BY <1>2, HistMessage
<1>7. IsFiniteSet(g)
  <2>1. IsFiniteSet({m}) BY FS_Singleton
  <2> QED BY <1>2, <2>1, FS_Union
<1>8. k = g \cup {e} /\ g = log \cup {m} OBVIOUS
<1> HIDE DEF g, m
<1>9. ~check => Asks(g, at, n) BY <1>1, <1>3, <1>6 DEF Asks
<1>10. ~check => /\ Accepts(g, e) /\ Sound(k) /\ Unclosed(k) = Unclosed(g) \cup CallsOf(k, at)
                 /\ n > 0 => \A v, o : PointAt(k, "call", <<at[1], at[2], 1>>, v, o)
                 /\ n = 0 => \A o : PointAt(k, "turn", at, "Completed", o)
  BY <1>1, <1>2, <1>6, <1>7, <1>9, HistReply
<1> HIDE DEF k, e
<1>11. ~check => Then(log, m, g) /\ Then(g, e, k) BY <1>6, <1>8, <1>10 DEF Then
<1>12. CASE Fault(<<m, e>>) /\ (step' = "leave" => result' = "Error")
  BY <1>5, <1>11, <1>12, TwoSustains
<1>13. CASE /\ Succeed(<<m, e>>) /\ unclosed' = unclosed \cup CallsOf(log', at)
            /\ IF Len(words) > 1 THEN step' = "call" /\ at' = <<at[1], at[2], 1>>
               ELSE step' = "turn" /\ at' = at /\ result' = "Completed"
  <2>1. ~check BY <1>13 DEF Succeed
  <2>2. log' = k
    <3>1. log \cup ToSet(<<m, e>>) = k BY <1>2, <1>11, <2>1, GoodTwo
    <3> QED BY <1>13, <3>1 DEF Succeed, Commit
  <2>3. unclosed' = Unclosed(k) BY <1>2, <1>6, <1>10, <1>13, <2>1, <2>2
  <2>4. IF n > 0 THEN step' = "call" /\ at' = <<at[1], at[2], 1>>
        ELSE step' = "turn" /\ at' = at /\ result' = "Completed"
    BY <1>1, <1>13
  <2>5. step' # "leave" BY <2>4
  <2>6. PointAt(k, step', at', result', question')
    <3>1. CASE n > 0 BY <1>10, <2>1, <2>4, <3>1
    <3>2. CASE ~(n > 0)
      <4>1. n = 0 BY <1>1, <3>2
      <4> QED BY <1>10, <2>1, <2>4, <3>2, <4>1
    <3> QED BY <3>1, <3>2
  <2> QED BY <1>5, <1>11, <1>13, <2>3, <2>5, <2>6, TwoSustains
<1> QED BY <1>4, <1>12, <1>13

(* A generation of a turn ends.                                            *)
LEMMA EndGenerationSustains ==
  ASSUME SafeInv, EndGeneration
  PROVE  Sane' /\ Point' /\ Shown' /\ Seen' /\ Ongoing'
<1>1. step = "generate" /\ Conversation(at) /\ Apart BY DEF EndGeneration, Apart
<1>2. PICK reply \in Replies :
        LET es == Record(reply[1], reply[2]) IN
        \/ /\ Succeed(es)
           /\ IF reply[1] = "Completed" /\ Len(reply[2]) > 1
                THEN GoTo("call", <<at[1], at[2], 1>>, "none")
                ELSE GoTo("turn", at, reply[1])
           /\ unclosed' = IF reply[1] = "Completed" THEN unclosed \cup CallsOf(log', at) ELSE unclosed
        \/ Fault(es) /\ GiveUp /\ UNCHANGED unclosed
  BY DEF EndGeneration
<1>3. CASE \E p \in Plans : Len(p) <= MaxCalls - Used /\ reply = <<"Completed", <<"Complete">> \o p>>
  <2>1. PICK p \in Plans : Len(p) <= MaxCalls - Used /\ reply = <<"Completed", <<"Complete">> \o p>>
    BY <1>3
  <2>2. p \in Seq(STRING) BY PlansAssumption
  <2> DEFINE words == <<"Complete">> \o p
  <2>3. reply[1] = "Completed" /\ reply[2] = words BY <2>1
  <2>4. words = <<"Complete">> \o p OBVIOUS
  <2> HIDE DEF words
  <2>5. LET es == Record("Completed", words) IN
        \/ Fault(es) /\ (step' = "leave" => result' = "Error")
        \/ /\ Succeed(es) /\ unclosed' = unclosed \cup CallsOf(log', at)
           /\ IF Len(words) > 1 THEN step' = "call" /\ at' = <<at[1], at[2], 1>>
              ELSE step' = "turn" /\ at' = at /\ result' = "Completed"
    BY <1>2, <2>3 DEF GoTo, GiveUp
  <2>6. Len(p) \in Nat /\ Fits(words, Len(p)) BY <1>1, <2>1, <2>2, <2>4, RepliesFit
  <2> QED BY <1>1, <2>5, <2>6, ReplySustains
<1>4. CASE reply[1] \in {"Failed", "Cancelled"}
  <2>1. unclosed' = unclosed BY <1>2, <1>4
  <2>2. \/ Fault(Record(reply[1], reply[2])) /\ (step' = "leave" => result' = "Error")
        \/ /\ Succeed(Record(reply[1], reply[2])) /\ at' = at
           /\ step' = "turn" /\ result' \in {"Failed", "Cancelled"}
    BY <1>2, <1>4 DEF GoTo, GiveUp
  <2> QED BY <1>1, <1>4, <2>1, <2>2, RecordSustains
<1>5. \/ \E p \in Plans : Len(p) <= MaxCalls - Used /\ reply = <<"Completed", <<"Complete">> \o p>>
      \/ reply[1] \in {"Failed", "Cancelled"}
  <2>1. CASE \E p \in Plans : Len(p) <= MaxCalls - Used /\ reply = <<"Completed", <<"Complete">> \o p>>
    BY <2>1
  <2>2. CASE \E words : reply = <<"Failed", words>> BY <2>2
  <2>3. CASE reply \in {"Failed", "Cancelled"} \X Torn BY <2>3
  <2>4. reply \in {"Failed", "Cancelled"} \X Torn
        \/ reply \in {<<"Completed", <<"Complete">> \o p>> : p \in {q \in Plans : Len(q) <= MaxCalls - Used}}
        \/ reply \in {<<"Failed", <<"Partial">> \o p>> : p \in {q \in Plans : Len(q) > MaxCalls - Used}}
    BY <1>2 DEF Replies
  <2> QED BY <2>1, <2>2, <2>3, <2>4
<1> QED BY <1>3, <1>4, <1>5

-----------------------------------------------------------------------------
(* A turn ends, after its system context if that changed.                  *)
LEMMA EndTurnSustains ==
  ASSUME SafeInv, EndTurn
  PROVE  Sane' /\ Point' /\ Shown' /\ Seen' /\ Ongoing'
<1> DEFINE calls == IF at \in Effective(log) THEN CallsOf(log, at) ELSE {}
           c == Entry("SystemContext", NoId, <<>>)
<1>1. step = "turn" /\ Apart /\ unclosed' = unclosed BY DEF EndTurn, session, Apart
<1>2. PICK status \in {Verdict, "Failed"}, context \in {<<c>>, <<>>} :
        LET es == context \o <<Entry("TurnEnded", at, <<Durable(status)>>)>> IN
        \/ Fault(es) /\ (step' = "leave" => result' = "Error")
        \/ /\ Succeed(es) /\ at' = at /\ result' = status
           /\ step' = IF calls # {} /\ status = "Completed" THEN "next" ELSE "end"
  <2>1. ContextChange(TRUE) = {<<c>>, <<>>} BY DEF ContextChange
  <2> QED BY <2>1 DEF EndTurn, GoTo, GiveUp
<1>3. /\ at \in Ids /\ Sound(log)
      /\ ~check => PointAt(log, "turn", at, result, question) /\ unclosed = Unclosed(log)
  BY <1>1, Standing
<1> DEFINE w == Durable(status)
           e == Entry("TurnEnded", at, <<w>>)
<1>4. ~check => /\ w \in {"Completed", "Failed", "Aborted"} /\ status \in {"Completed", "Failed", "Cancelled"}
                /\ w = "Completed" => result = "Completed" /\ status = "Completed"
                /\ status = "Completed" => w = "Completed"
  <2>1. ~check => result \in {"Completed", "Failed", "Cancelled"} BY <1>3 DEF PointAt, StandsAt
  <2> QED BY <1>2, <2>1 DEF Verdict, Durable
<1>5. e.kind = "TurnEnded" /\ c.kind = "SystemContext" BY DEF Entry
<1>6. <<>> \o <<e>> = <<e>> /\ <<c>> \o <<e>> = <<c, e>> BY PutTogether
<1>7. Succeed(<<e>>) \/ Succeed(<<c, e>>) => ~check BY DEF Succeed
<1>8. CASE context = <<>>
  <2>1. \/ Fault(<<e>>) /\ (step' = "leave" => result' = "Error")
        \/ /\ Succeed(<<e>>) /\ at' = at /\ result' = status
           /\ step' = IF calls # {} /\ status = "Completed" THEN "next" ELSE "end"
    BY <1>2, <1>6, <1>8
  <2> HIDE DEF w
  <2>2. ~check =>
          /\ Accepts(log, e) /\ Sound(log \cup {e}) /\ Unclosed(log \cup {e}) = Unclosed(log)
          /\ \A v \in {"Completed", "Failed", "Cancelled"} :
               (v = "Completed" => w = "Completed") => \A p : PointAt(log \cup {e}, "end", at, v, p)
          /\ at \in Effective(log) /\ CallsOf(log, at) # {} => \A v, p : PointAt(log \cup {e}, "next", at, v, p)
    <3>1. ~check => Sound(log) /\ PointAt(log, "turn", at, result, question) BY <1>3
    <3>2. ~check => w \in {"Completed", "Failed", "Aborted"} /\ (w = "Completed" => result = "Completed")
      BY <1>4
    <3>3. at \in Ids BY <1>3
    <3> QED BY <3>1, <3>2, <3>3, HistEndTurn
  <2> HIDE DEF e
  <2>4. CASE Fault(<<e>>) /\ (step' = "leave" => result' = "Error")
    BY <1>1, <1>5, <2>2, <2>4, OneSustains
  <2>5. CASE /\ Succeed(<<e>>) /\ at' = at /\ result' = status
             /\ step' = IF calls # {} /\ status = "Completed" THEN "next" ELSE "end"
    <3>1. ~check /\ step' # "leave" /\ unclosed' = Unclosed(log \cup {e}) BY <1>1, <1>3, <1>7, <2>2, <2>5
    <3>2. PointAt(log \cup {e}, step', at', result', question') BY <1>4, <2>2, <2>5, <3>1
    <3> QED BY <1>1, <1>5, <2>2, <2>5, <3>1, <3>2, OneSustains
  <2> QED BY <2>1, <2>4, <2>5
<1>9. CASE context = <<c>>
  <2> DEFINE g == log \cup {c}
             k == g \cup {e}
  <2>1. \/ Fault(<<c, e>>) /\ (step' = "leave" => result' = "Error")
        \/ /\ Succeed(<<c, e>>) /\ at' = at /\ result' = status
           /\ step' = IF calls # {} /\ status = "Completed" THEN "next" ELSE "end"
    BY <1>2, <1>6, <1>9
  <2> HIDE DEF w
  <2>2. ~check => /\ Accepts(log, c) /\ Sound(g) /\ Unclosed(g) = Unclosed(log)
                  /\ PointAt(g, "turn", at, result, question)
                  /\ Effective(g) = Effective(log) /\ CallsOf(g, at) = CallsOf(log, at)
    BY <1>3, HistContext
  <2>3. k = g \cup {e} /\ g = log \cup {c} OBVIOUS
  <2> HIDE DEF g, c
  <2>4. ~check =>
          /\ Accepts(g, e) /\ Sound(k) /\ Unclosed(k) = Unclosed(g)
          /\ \A v \in {"Completed", "Failed", "Cancelled"} :
               (v = "Completed" => w = "Completed") => \A p : PointAt(k, "end", at, v, p)
          /\ at \in Effective(g) /\ CallsOf(g, at) # {} => \A v, p : PointAt(k, "next", at, v, p)
    <3>1. ~check => Sound(g) /\ PointAt(g, "turn", at, result, question) BY <2>2
    <3>2. ~check => w \in {"Completed", "Failed", "Aborted"} /\ (w = "Completed" => result = "Completed")
      BY <1>4
    <3>3. at \in Ids BY <1>3
    <3> QED BY <3>1, <3>2, <3>3, HistEndTurn
  <2> HIDE DEF k, e
  <2>5. ~check => Then(log, c, g) /\ Then(g, e, k) BY <2>2, <2>3, <2>4 DEF Then
  <2>6. CASE Fault(<<c, e>>) /\ (step' = "leave" => result' = "Error")
    BY <1>1, <1>5, <2>5, <2>6, TwoSustains
  <2>7. CASE /\ Succeed(<<c, e>>) /\ at' = at /\ result' = status
             /\ step' = IF calls # {} /\ status = "Completed" THEN "next" ELSE "end"
    <3>1. ~check /\ step' # "leave" /\ unclosed' = Unclosed(k) BY <1>1, <1>3, <1>7, <2>2, <2>4, <2>7
    <3>2. PointAt(k, step', at', result', question') BY <1>4, <2>2, <2>4, <2>7, <3>1
    <3> QED BY <1>1, <1>5, <2>5, <2>7, <3>1, <3>2, TwoSustains
  <2> QED BY <2>1, <2>6, <2>7
<1> QED BY <1>2, <1>8, <1>9

(* The next turn begins.                                                   *)
LEMMA NextTurnSustains ==
  ASSUME SafeInv, NextTurn
  PROVE  Sane' /\ Point' /\ Shown' /\ Seen' /\ Ongoing'
<1> DEFINE turn == <<at[1], at[2] + 1, 0>>
           e == Entry("TurnStarted", turn, <<>>)
           f == Entry("GenStarted", turn, <<>>)
           g == log \cup {e}
           k == g \cup {f}
<1>1. step = "next" /\ Apart /\ unclosed' = unclosed BY DEF NextTurn, session, Apart
<1>2. \/ Fault(<<e, f>>) /\ (step' = "leave" => result' = "Error")
      \/ Succeed(<<e, f>>) /\ step' = "generate" /\ at' = turn
  BY DEF NextTurn, GoTo, GiveUp
<1>3. /\ at \in Ids /\ Sound(log) /\ IsFiniteSet(log)
      /\ ~check => PointAt(log, "next", at, result, question) /\ unclosed = Unclosed(log)
  BY <1>1, Standing
<1>4. ~check => /\ Accepts(log, e) /\ Sound(g) /\ Accepts(g, f) /\ Sound(k)
                /\ Unclosed(k) = Unclosed(log)
                /\ \A v, p : PointAt(k, "generate", turn, v, p)
  BY <1>3, HistNext
<1>5. e.kind = "TurnStarted" /\ f.kind = "GenStarted" BY DEF Entry
<1>6. k = g \cup {f} /\ g = log \cup {e} OBVIOUS
<1>7. Succeed(<<e, f>>) => ~check BY DEF Succeed
<1> HIDE DEF turn, e, f, g, k
<1>8. ~check => Then(log, e, g) /\ Then(g, f, k) BY <1>4, <1>6 DEF Then
<1>9. \/ Fault(<<e, f>>) /\ (step' = "leave" => result' = "Error")
      \/ /\ Succeed(<<e, f>>) /\ step' # "leave" /\ unclosed' = Unclosed(k)
         /\ PointAt(k, step', at', result', question')
  BY <1>1, <1>2, <1>3, <1>4, <1>7
<1> QED BY <1>1, <1>5, <1>8, <1>9, TwoSustains

(* What is read of a run that ended with word w.                           *)
Reads(w) ==
  CASE w = "Completed" -> "Completed"
    [] w = "Failed" -> "Failed"
    [] OTHER -> "Interrupted"

(* The end of a run is what is shown of it.                                *)
LEMMA RunEndAdded ==
  ASSUME NEW h, NEW x, NEW w, ~Has(h, "RunEnd", x)
  PROVE  LET g == h \cup {Entry("RunEnd", x, <<w>>)} IN
         /\ \A r : <<r, 0, 0>> # x => EndOf(g, r) = EndOf(h, r)
         /\ \A r : <<r, 0, 0>> = x => EndOf(g, r) = Reads(w)
         /\ RunsIn(g) = RunsIn(h) /\ Accepted(g) = Accepted(h)
         /\ OpenRuns(g) = OpenRuns(h) \ {x}
<1> DEFINE e == Entry("RunEnd", x, <<w>>)
           g == h \cup {e}
<1>1. e.kind = "RunEnd" /\ e.id = x BY DEF Entry
<1>2. \A y, v : Entry("RunEnd", y, <<v>>) = e <=> y = x /\ v = w
  <2> SUFFICES ASSUME NEW y, NEW v PROVE Entry("RunEnd", y, <<v>>) = e <=> y = x /\ v = w OBVIOUS
  <2>1. <<v>> = <<w>> => v = w OBVIOUS
  <2>2. Entry("RunEnd", y, <<v>>) = e <=> y = x /\ <<v>> = <<w>> BY DEF Entry
  <2> QED BY <2>1, <2>2
<1>3. \A v : ~Says(h, "RunEnd", x, v)
  BY DEF Says, Has, Places, Entry
<1>4. g = h \cup {e} OBVIOUS
<1> HIDE DEF e, g
<1>5. \A y, v : Says(g, "RunEnd", y, v) <=> Says(h, "RunEnd", y, v) \/ (y = x /\ v = w)
  BY <1>2, <1>4 DEF Says
<1>6. \A r : <<r, 0, 0>> # x => EndOf(g, r) = EndOf(h, r) BY <1>5 DEF EndOf
<1>7. \A r : <<r, 0, 0>> = x => EndOf(g, r) = Reads(w)
  <2>1. \A v : Says(g, "RunEnd", x, v) <=> v = w BY <1>3, <1>5
  <2> QED BY <2>1 DEF EndOf, Reads
<1>8. RunsIn(g) = RunsIn(h) /\ Accepted(g) = Accepted(h)
  BY <1>1, <1>4 DEF RunsIn, Accepted, Places
<1>9. OpenRuns(g) = OpenRuns(h) \ {x}
  <2>1. Plus(h, e, g) BY <1>4 DEF Plus
  <2> QED BY <1>1, <2>1, NowOpen
<1> QED BY <1>6, <1>7, <1>8, <1>9 DEF e, g

(* The run ends, and its end is recorded.                                  *)
LEMMA EndRunSustains ==
  ASSUME SafeInv, EndRun
  PROVE  Sane' /\ Point' /\ Shown' /\ Seen' /\ Ongoing'
<1> DEFINE w == Durable(result)
           x == RunOf(at)
           e == Entry("RunEnd", x, <<w>>)
           g == log \cup {e}
<1>1. step = "end" /\ Apart /\ unclosed' = unclosed BY DEF EndRun, session, Apart
<1>2. /\ step' = "leave"
      /\ \/ Fault(<<e>>) /\ result' = "Error"
         \/ Succeed(<<e>>) /\ result' = result
  BY DEF EndRun, GoTo, GiveUp
<1>3. /\ at \in Ids /\ Sound(log) /\ IsFiniteSet(log) /\ active # 0 /\ loaded
      /\ ~check => /\ PointAt(log, "end", at, result, question)
                   /\ requests = Accepted(log) /\ unclosed = Unclosed(log)
  BY <1>1, Standing
<1>4. w = "Completed" => result = "Completed" BY DEF Durable
<1>5. ~check => /\ result \in {"Completed", "Failed", "Cancelled"} /\ OpenRuns(log) = {x}
  BY <1>3 DEF PointAt, StandsAt, OpenAt
<1>6. x = <<active, 0, 0>> BY <1>3 DEF RunOf, SafeInv, RunInv, Placed
<1>7. result \in {"Completed", "Failed", "Cancelled"} => Reads(w) = Told(result)
  <2>1. CASE result = "Completed" BY <2>1 DEF Durable, Told, Reads
  <2>2. CASE result = "Failed" BY <2>2 DEF Durable, Told, Reads
  <2>3. CASE result = "Cancelled" BY <2>3 DEF Durable, Told, Reads
  <2> QED BY <2>1, <2>2, <2>3
<1> HIDE DEF w
<1>8. ~check => /\ Accepts(log, e) /\ Sound(g) /\ Unclosed(g) = Unclosed(log)
                /\ OpenRuns(g) = {} /\ ~Has(log, "RunEnd", x) /\ Has(log, "RunStarted", x)
  BY <1>3, <1>4, HistEndRun
<1> HIDE DEF x
<1>9. ~check => /\ \A r : <<r, 0, 0>> # x => EndOf(g, r) = EndOf(log, r)
                /\ \A r : <<r, 0, 0>> = x => EndOf(g, r) = Reads(w)
                /\ RunsIn(g) = RunsIn(log) /\ Accepted(g) = Accepted(log)
  BY <1>8, RunEndAdded
<1>10. ToSet(<<e>>) = {e} /\ <<e>> \in Seq({e}) BY One
<1>11. ~check => Good(log, <<e>>) BY <1>3, <1>8, GoodOne
<1>12. g = log \cup {e} OBVIOUS
<1> HIDE DEF e, g
<1>13. CASE Fault(<<e>>) /\ result' = "Error"
  <2>1. SameRuns(log, log') BY <1>13, FaultOne DEF SameRuns
  <2> QED BY <1>1, <1>10, <1>11, <1>13, <2>1, FaultSustains
<1>14. CASE Succeed(<<e>>) /\ result' = result
  <2>1. ~check /\ log' = g /\ check' = FALSE BY <1>10, <1>12, <1>14 DEF Succeed, Commit
  <2>2. Sane' BY <1>10, <1>11, <1>14, AppendsGood DEF SafeInv
  <2>3. Point' BY <1>2 DEF Point
  <2>4. failed' = failed /\ failed = 0 /\ loaded' /\ active' = active /\ view' = view /\ runs' = runs
    BY <1>1, <1>3, <2>1 DEF Apart, SafeInv, Shown
  <2>5. Shown'
    <3>1. requests' = Accepted(log') /\ unclosed' = Unclosed(log')
      BY <1>1, <1>3, <1>8, <1>9, <2>1 DEF Apart
    <3>2. installed' = installed BY <1>1 DEF Apart
    <3> QED BY <1>3, <2>1, <2>4, <3>1, <3>2 DEF SafeInv, Shown, Quiet
  <2>6. ASSUME NEW r \in RunIds PROVE SeenRun(r)'
    <3>1. SeenRun(r) BY <1>3 DEF SafeInv, Seen
    <3>2. RunsIn(log') = RunsIn(log) /\ OpenRuns(log') = {} BY <1>8, <1>9, <2>1
    <3>3. ASSUME r # active PROVE <<r, 0, 0>> # x /\ <<r, 0, 0>> \notin OpenRuns(log)
      BY <1>5, <1>6, <2>1, <3>3
    <3>4. r # active => EndOf(log', r) = EndOf(log, r) BY <1>9, <2>1, <3>3
    <3> QED BY <2>1, <2>4, <3>1, <3>2, <3>3, <3>4 DEF SeenRun
  <2>7. Seen' BY <2>4, <2>6 DEF SafeInv, Seen
  <2>8. Ongoing'
    <3>1. EndOf(log', active) = Told(result) BY <1>5, <1>6, <1>7, <1>9, <2>1
    <3>2. active \in RunsIn(log') /\ runs <= MaxRuns BY <1>3, <1>9, <2>1 DEF SafeInv, Ongoing
    <3>3. OpenRuns(log') = {} BY <1>8, <2>1
    <3>4. result # "Error" BY <1>5, <2>1
    <3> QED BY <1>2, <1>14, <2>4, <3>1, <3>2, <3>3, <3>4 DEF Ongoing
  <2> QED BY <2>2, <2>3, <2>5, <2>7, <2>8
<1> QED BY <1>2, <1>13, <1>14

(* The task is over, and the session shows how.                            *)
LEMMA LeaveSustains ==
  ASSUME SafeInv, Leave
  PROVE  Sane' /\ Point' /\ Shown' /\ Seen' /\ Ongoing'
<1>1. /\ step = "leave" /\ active' = 0 /\ log' = log /\ doubt' = doubt /\ check' = check
      /\ loaded' = loaded /\ installed' = installed /\ requests' = requests /\ unclosed' = unclosed
      /\ runs' = runs /\ refused' = refused
      /\ failed' = (IF result = "Error" THEN active ELSE failed)
      /\ view' = [view EXCEPT ![active] = Told(result)]
  BY DEF Leave, journal, Told
<1>2. active # 0 /\ loaded BY <1>1 DEF SafeInv, RunInv, Placed
<1>3. Sane' BY <1>1 DEF SafeInv, Sane, Written
<1>4. Point' BY <1>1 DEF Point
<1>5. failed \in {0, active} /\ Ongoing BY <1>2 DEF SafeInv, Shown
<1>6. Shown' BY <1>1, <1>2, <1>5 DEF SafeInv, Shown, Quiet, Ongoing
<1>7. Told(result) \in Statuses \ {"none"} BY DEF Told, Statuses
<1>8. view \in [RunIds -> Statuses] /\ \A r \in RunIds : SeenRun(r) BY <1>2 DEF SafeInv, Seen
<1>9. ASSUME NEW r \in RunIds PROVE SeenRun(r)'
  <2>1. r # 0 BY RunBounds DEF RunIds
  <2>2. CASE r # active
    <3>1. view'[r] = view[r] BY <1>1, <1>8, <2>2
    <3>2. view[r] # "none" => <<r, 0, 0>> \notin OpenRuns(log) BY <1>5, <1>8, <2>1, <2>2 DEF SeenRun
    <3> QED BY <1>1, <1>8, <2>2, <3>1, <3>2 DEF SeenRun
  <2>3. CASE r = active
    <3>1. view'[r] = Told(result) /\ view'[r] # "none" BY <1>1, <1>7, <1>8, <2>3
    <3>2. active \in RunsIn(log) BY <1>2, <1>5 DEF Ongoing
    <3>3. CASE result = "Error"
      <4>1. Told(result) = "Failed" BY <3>3 DEF Told
      <4>2. <<active, 0, 0>> \in OpenRuns(log) BY <1>2, <1>5, <3>3 DEF Ongoing
      <4> QED BY <1>1, <2>3, <3>1, <3>2, <3>3, <4>1, <4>2 DEF SeenRun
    <3>4. CASE result # "Error"
      <4>1. OpenRuns(log) = {} /\ EndOf(log, active) = Told(result) BY <1>1, <1>2, <1>5, <3>4 DEF Ongoing
      <4> QED BY <1>1, <2>3, <3>1, <3>2, <4>1 DEF SeenRun
    <3> QED BY <3>3, <3>4
  <2> QED BY <2>2, <2>3
<1>10. view' \in [RunIds -> Statuses] BY <1>1, <1>7, <1>8
<1>11. Seen' BY <1>1, <1>2, <1>9, <1>10 DEF Seen
<1>12. Ongoing' BY <1>1, <1>5 DEF Ongoing
<1> QED BY <1>3, <1>4, <1>6, <1>11, <1>12

(* The run is interrupted: nothing it says of itself changes.              *)
LEMMA InterruptSustains ==
  ASSUME SafeInv, Interrupt
  PROVE  Sane' /\ Point' /\ Shown' /\ Seen' /\ Ongoing'
<1>1. UNCHANGED <<log, doubt, check, loaded, installed, failed, requests, unclosed, view, active,
                  step, at, result, question, runs, refused>>
  BY DEF Interrupt, journal, session
<1>2. Sane' BY <1>1 DEF SafeInv, Sane, Written
<1>3. Point' BY <1>1 DEF SafeInv, Point
<1>4. Shown' BY <1>1 DEF SafeInv, Shown, Quiet
<1>5. Seen' BY <1>1 DEF SafeInv, Seen, SeenRun
<1>6. Ongoing' BY <1>1 DEF SafeInv, Ongoing
<1> QED BY <1>2, <1>3, <1>4, <1>5, <1>6

-----------------------------------------------------------------------------
(* Recovery.  What it has appended so far, g, ends runs that were open,    *)
(* the failed one as failed.                                               *)
LEMMA SettlingRuns ==
  ASSUME OneInstall, NEW h, Sound(h), IsFiniteSet(h), \A e \in h : e.id \in Ids,
         NEW f, NEW tools \in Installs, NEW g, h \subseteq g,
         g \subseteq h \cup ToSet(Settlement(h, f, tools))
  PROVE  /\ RunsIn(g) = RunsIn(h) /\ OpenRuns(g) \subseteq OpenRuns(h)
         /\ \A r : <<r, 0, 0>> \notin OpenRuns(h) => EndOf(g, r) = EndOf(h, r)
         /\ \A r : <<r, 0, 0>> \in OpenRuns(h) \ OpenRuns(g) =>
              EndOf(g, r) = IF r = f THEN "Failed" ELSE "Interrupted"
<1> DEFINE new == ToSet(Settlement(h, f, tools))
<1>1. \A e \in new :
        /\ e.kind \in ClosingKinds
        /\ e.kind = "RunEnd" => \E x \in OpenRuns(h) : e = Entry("RunEnd", x, <<RunEnds(h, f)[x]>>)
  BY SettlementGood
<1>2. g \subseteq h \cup new OBVIOUS
<1> HIDE DEF new
<1>3. Places(g, "RunStarted") = Places(h, "RunStarted") BY <1>1, <1>2 DEF Places, ClosingKinds
<1>4. Places(h, "RunEnd") \subseteq Places(g, "RunEnd") BY DEF Places
<1>5. RunsIn(g) = RunsIn(h) /\ OpenRuns(g) \subseteq OpenRuns(h)
  BY <1>3, <1>4 DEF RunsIn, OpenRuns
<1>6. \A x, v : Entry("RunEnd", x, <<v>>).kind = "RunEnd" /\ Entry("RunEnd", x, <<v>>).id = x
                /\ Entry("RunEnd", x, <<v>>).words = <<v>>
  BY DEF Entry
<1>7. \A u, v : <<u>> = <<v>> => u = v OBVIOUS
<1>8. ASSUME NEW x, NEW v, Says(g, "RunEnd", x, v)
      PROVE  Says(h, "RunEnd", x, v) \/ (x \in OpenRuns(h) /\ v = RunEnds(h, f)[x])
  <2>1. CASE Entry("RunEnd", x, <<v>>) \in h BY <2>1 DEF Says
  <2>2. CASE Entry("RunEnd", x, <<v>>) \in new
    <3>1. PICK y \in OpenRuns(h) : Entry("RunEnd", x, <<v>>) = Entry("RunEnd", y, <<RunEnds(h, f)[y]>>)
      BY <1>1, <1>6, <2>2
    <3>2. x = y /\ <<v>> = <<RunEnds(h, f)[y]>> BY <1>6, <3>1
    <3> QED BY <1>7, <3>2
  <2> QED BY <1>2, <1>8, <2>1, <2>2 DEF Says
<1>9. \A x, v : Says(h, "RunEnd", x, v) => Says(g, "RunEnd", x, v) BY DEF Says
<1>10. \A r : <<r, 0, 0>> \notin OpenRuns(h) => EndOf(g, r) = EndOf(h, r)
  BY <1>8, <1>9 DEF EndOf
<1>11. ASSUME NEW r, <<r, 0, 0>> \in OpenRuns(h), <<r, 0, 0>> \notin OpenRuns(g)
       PROVE  EndOf(g, r) = IF r = f THEN "Failed" ELSE "Interrupted"
  <2> DEFINE x == <<r, 0, 0>>
             w == IF r = f THEN "Failed" ELSE "Interrupted"
  <2>1. x \in OpenRuns(h) /\ x \notin OpenRuns(g) BY <1>11
  <2>2. RunEnds(h, f)[x] = w BY <2>1 DEF RunEnds
  <2>9. x \notin Places(h, "RunEnd") BY <2>1 DEF OpenRuns
  <2>3. \A v : ~Says(h, "RunEnd", x, v)
    <3> HIDE DEF x
    <3> SUFFICES ASSUME NEW v, Entry("RunEnd", x, <<v>>) \in h PROVE FALSE BY DEF Says
    <3>1. Entry("RunEnd", x, <<v>>).kind = "RunEnd" /\ Entry("RunEnd", x, <<v>>).id = x BY <1>6
    <3> QED BY <2>9, <3>1 DEF Places
  <2>4. x \in Places(g, "RunEnd") BY <1>3, <2>1 DEF OpenRuns
  <2>5. Says(g, "RunEnd", x, w)
    <3>1. PICK e \in g : e.kind = "RunEnd" /\ e.id = x BY <2>4 DEF Places
    <3>2. e \notin h BY <2>1, <3>1 DEF OpenRuns, Places
    <3>3. PICK y \in OpenRuns(h) : e = Entry("RunEnd", y, <<RunEnds(h, f)[y]>>) BY <1>1, <1>2, <3>1, <3>2
    <3>4. y = x BY <1>6, <3>1, <3>3
    <3> QED BY <2>2, <3>1, <3>3, <3>4 DEF Says
  <2>6. \A v : Says(g, "RunEnd", x, v) <=> v = w BY <1>8, <2>2, <2>3, <2>5
  <2>7. EndOf(g, r) = CASE w = "Completed" -> "Completed" [] w = "Failed" -> "Failed"
                        [] OTHER -> "Interrupted"
    BY <2>6 DEF EndOf
  <2> QED BY <2>7
<1> QED BY <1>5, <1>10, <1>11

(* Its appends on h, where they can be made.                               *)
LEMMA SettlesGood ==
  ASSUME OneInstall, SafeInv, NEW h, Sound(h), IsFiniteSet(h), h \subseteq Written,
         NEW f, NEW tools \in Installs,
         LET es == Settlement(h, f, tools) IN Commit(h, es) \/ Break(h, es)
  PROVE  /\ Sane' /\ h \subseteq log' /\ log' \subseteq h \cup ToSet(Settlement(h, f, tools))
         /\ Commit(h, Settlement(h, f, tools)) => OpenRuns(log') = {}
<1> DEFINE es == Settlement(h, f, tools)
<1>1. \A e \in h : e.id \in Ids BY DEF SafeInv, RunInv, Filed, EntryOK
<1>2. Good(h, es) /\ (\E T : es \in Seq(T)) /\ OpenRuns(h \cup ToSet(es)) = {}
  BY <1>1, SettlementGood
<1>3. PICK T : es \in Seq(T) BY <1>2
<1>4. Commit(h, es) \/ Break(h, es) OBVIOUS
<1> HIDE DEF es
<1>5. ~refused' /\ Sound(log') /\ Sound(log' \cup doubt')
  BY <1>2, <1>3, <1>4, GoodAppends DEF SafeInv, Sane
<1>6. \A a, b \in doubt' : a = b BY <1>4 DEF Commit, Break
<1>7. Sane' BY <1>5, <1>6 DEF Sane, Written
<1>8. CASE Commit(h, es)
  <2>1. log' = h \cup ToSet(es) BY <1>8 DEF Commit
  <2> QED BY <1>2, <1>7, <2>1 DEF es
<1>9. CASE Break(h, es) /\ ~Commit(h, es)
  <2>1. PICK n \in 1..Len(es) : log' = h \cup ToSet(SubSeq(es, 1, n - 1)) BY <1>9 DEF Break
  <2>2. ToSet(SubSeq(es, 1, n - 1)) \subseteq ToSet(es) BY <1>3, <2>1 DEF ToSet
  <2> QED BY <1>7, <1>9, <2>1, <2>2 DEF es
<1> QED BY <1>4, <1>8, <1>9

(* A failed session is checked, settled and projected again.               *)
LEMMA PrepareSustains ==
  ASSUME OneInstall, SafeInv, Prepare
  PROVE  Sane' /\ Point' /\ Shown' /\ Seen' /\ Ongoing'
<1> DEFINE es == Settlement(log, failed, installed)
<1>1. /\ loaded /\ active = 0 /\ loaded' = loaded /\ installed' = installed
      /\ active' = active /\ runs' = runs
      /\ \/ Commit(log, es) /\ failed' = 0 /\ Project(log', view)
         \/ Break(log, es) /\ UNCHANGED <<failed, requests, unclosed, view>>
  BY DEF Prepare, session, drive
<1>2. Sound(log) /\ IsFiniteSet(log) /\ log \subseteq Written /\ installed \in Installs
      /\ \A e \in log : e.id \in Ids
  BY DEF SafeInv, Sane, RunInv, Filed, EntryOK, Shown, Written
<1>3. /\ Sane' /\ log \subseteq log' /\ log' \subseteq log \cup ToSet(es)
      /\ Commit(log, es) => OpenRuns(log') = {}
  BY <1>1, <1>2, SettlesGood
<1>4. /\ RunsIn(log') = RunsIn(log) /\ OpenRuns(log') \subseteq OpenRuns(log)
      /\ \A r : <<r, 0, 0>> \notin OpenRuns(log) => EndOf(log', r) = EndOf(log, r)
      /\ \A r : <<r, 0, 0>> \in OpenRuns(log) \ OpenRuns(log') =>
           EndOf(log', r) = IF r = failed THEN "Failed" ELSE "Interrupted"
  BY <1>2, <1>3, SettlingRuns
<1> HIDE DEF es
<1>5. Point' BY <1>1 DEF Point
<1>6. Ongoing' BY <1>1 DEF SafeInv, Ongoing
<1>7. view \in [RunIds -> Statuses] /\ \A r \in RunIds : SeenRun(r) BY <1>1 DEF SafeInv, Seen
<1>8. \A r \in RunIds : view[r] # "none" =>
        /\ r \in RunsIn(log')
        /\ IF <<r, 0, 0>> \in OpenRuns(log') THEN r = failed /\ view[r] = "Failed"
           ELSE view[r] = EndOf(log', r)
  <2> SUFFICES ASSUME NEW r \in RunIds, view[r] # "none"
               PROVE  /\ r \in RunsIn(log')
                      /\ IF <<r, 0, 0>> \in OpenRuns(log') THEN r = failed /\ view[r] = "Failed"
                         ELSE view[r] = EndOf(log', r)
    OBVIOUS
  <2>1. SeenRun(r) /\ r # active BY <1>1, <1>7, RunBounds DEF RunIds
  <2> QED BY <1>4, <2>1 DEF SeenRun
<1>9. CASE Commit(log, es) /\ failed' = 0 /\ Project(log', view)
  <2>1. check' = FALSE /\ OpenRuns(log') = {} BY <1>3, <1>9 DEF Commit
  <2>2. requests' = Accepted(log') /\ unclosed' = Unclosed(log') BY <1>9 DEF Project
  <2>3. Shown' BY <1>1, <2>1, <2>2 DEF SafeInv, Shown, Quiet
  <2>4. \A r \in RunIds :
          view'[r] = IF view[r] = "none" /\ r \in RunsIn(log') THEN EndOf(log', r) ELSE view[r]
    BY <1>9 DEF Project
  <2>5. \A r : EndOf(log', r) \in Statuses \ {"none"} BY DEF EndOf, Statuses
  <2>6. view' \in [RunIds -> Statuses] BY <1>7, <1>9, <2>5 DEF Project
  <2>7. ASSUME NEW r \in RunIds PROVE SeenRun(r)'
    <3>1. CASE view[r] = "none" BY <2>1, <2>4, <2>5, <3>1 DEF SeenRun
    <3>2. CASE view[r] # "none" BY <1>8, <2>1, <2>4, <3>2 DEF SeenRun
    <3> QED BY <3>1, <3>2
  <2>8. Seen' BY <1>1, <2>6, <2>7 DEF Seen
  <2> QED BY <1>3, <1>5, <1>6, <2>3, <2>8
<1>10. CASE Break(log, es) /\ UNCHANGED <<failed, requests, unclosed, view>>
  <2>1. check' = TRUE BY <1>1, <1>10 DEF Break
  <2>2. Shown' BY <1>1, <1>2, <2>1 DEF Shown, Quiet
  <2>3. ASSUME NEW r \in RunIds PROVE SeenRun(r)'
    BY <1>1, <1>8, <1>10, <2>1 DEF SeenRun
  <2>4. Seen' BY <1>1, <1>7, <1>10, <2>3 DEF Seen
  <2> QED BY <1>3, <1>5, <1>6, <2>2, <2>4
<1> QED BY <1>1, <1>9, <1>10

(* A session is loaded, with the entry in doubt or without.                *)
LEMMA LoadSustains ==
  ASSUME OneInstall, SafeInv, Load
  PROVE  Sane' /\ Point' /\ Shown' /\ Seen' /\ Ongoing'
<1>1. PICK found \in SUBSET doubt, tools \in Installs :
        LET h == log \cup found
            es == Settlement(h, 0, tools)
        IN  \/ /\ Commit(h, es)
               /\ loaded' = TRUE /\ installed' = tools /\ failed' = 0
               /\ Project(log', view)
            \/ Break(h, es) /\ UNCHANGED session
  BY DEF Load
<1> DEFINE h == log \cup found
           es == Settlement(h, 0, tools)
<1>2. ~loaded /\ active' = active /\ runs' = runs BY DEF Load, drive
<1>3. active = 0 BY <1>2 DEF SafeInv, RunInv, Placed
<1>4. h = log \/ h = Written
  <2>1. \A a, b \in doubt : a = b BY DEF SafeInv, Sane
  <2> QED BY <2>1 DEF Written
<1>5. Sound(h) /\ h \subseteq Written BY <1>4 DEF SafeInv, Sane, Written
<1>6. IsFiniteSet(h) /\ \A e \in h : e.id \in Ids
  <2>1. IsFiniteSet(found) BY FS_Subset DEF SafeInv, RunInv, Filed
  <2>2. IsFiniteSet(h) BY <2>1, FS_Union DEF SafeInv, RunInv, Filed
  <2> QED BY <2>2 DEF SafeInv, RunInv, Filed, EntryOK, Written
<1>7. \/ /\ Commit(h, es)
         /\ loaded' = TRUE /\ installed' = tools /\ failed' = 0
         /\ Project(log', view)
      \/ Break(h, es) /\ UNCHANGED session
  BY <1>1
<1> HIDE DEF h
<1>8. /\ Sane' /\ h \subseteq log' /\ log' \subseteq h \cup ToSet(es)
      /\ Commit(h, es) => OpenRuns(log') = {}
  BY <1>5, <1>6, <1>7, SettlesGood
<1> HIDE DEF es
<1>9. Point' BY <1>2, <1>3 DEF Point
<1>10. Ongoing' BY <1>2, <1>3 DEF SafeInv, Ongoing
<1>11. view \in [RunIds -> Statuses] /\ \A r \in RunIds : view[r] = "none"
  BY <1>2 DEF SafeInv, Seen
<1>12. CASE /\ Commit(h, es)
            /\ loaded' = TRUE /\ installed' = tools /\ failed' = 0
            /\ Project(log', view)
  <2>1. check' = FALSE /\ OpenRuns(log') = {} BY <1>8, <1>12 DEF Commit
  <2>2. requests' = Accepted(log') /\ unclosed' = Unclosed(log') BY <1>12 DEF Project
  <2>3. Shown' BY <1>2, <1>3, <1>12, <2>1, <2>2 DEF Shown, Quiet
  <2>4. \A r \in RunIds : view'[r] = IF r \in RunsIn(log') THEN EndOf(log', r) ELSE "none"
    BY <1>11, <1>12 DEF Project
  <2>5. \A r : EndOf(log', r) \in Statuses \ {"none"} BY DEF EndOf, Statuses
  <2>6. view' \in [RunIds -> Statuses] BY <1>11, <1>12, <2>5 DEF Project
  <2>7. ASSUME NEW r \in RunIds PROVE SeenRun(r)' BY <2>1, <2>4, <2>5 DEF SeenRun
  <2>8. Seen' BY <1>12, <2>6, <2>7 DEF Seen
  <2> QED BY <1>8, <1>9, <1>10, <2>3, <2>8
<1>13. CASE Break(h, es) /\ UNCHANGED session
  <2>1. check' = FALSE /\ loaded' = loaded /\ installed' = installed /\ view' = view
    BY <1>2, <1>13 DEF Break, session, SafeInv, Shown
  <2>2. Shown' BY <1>2, <1>3, <2>1 DEF SafeInv, Shown, Quiet
  <2>3. Seen' BY <1>2, <1>11, <2>1 DEF Seen
  <2> QED BY <1>8, <1>9, <1>10, <2>2, <2>3
<1> QED BY <1>7, <1>12, <1>13

(* A session leaves memory.                                                *)
LEMMA ForgetSustains ==
  ASSUME SafeInv, Forget
  PROVE  Sane' /\ Point' /\ Shown' /\ Seen' /\ Ongoing'
<1>1. /\ loaded' = FALSE /\ check' = FALSE /\ active' = 0 /\ view' = [r \in RunIds |-> "none"]
      /\ log' = log /\ doubt' = doubt /\ installed' = installed /\ runs' = runs /\ refused' = refused
  BY DEF Forget
<1>2. Sane' BY <1>1 DEF SafeInv, Sane, Written
<1>3. Shown' BY <1>1 DEF SafeInv, Shown, Quiet
<1>4. Seen' BY <1>1 DEF Seen, Statuses
<1> QED BY <1>1, <1>2, <1>3, <1>4 DEF Point, SafeInv, Ongoing

(* A retry is answered.                                                    *)
LEMMA RetrySustains ==
  ASSUME SafeInv, NEW i, Retry(i)
  PROVE  Sane' /\ Point' /\ Shown' /\ Seen' /\ Ongoing'
<1>1. UNCHANGED <<log, doubt, check, loaded, installed, failed, requests, unclosed, view, active,
                  step, at, result, question, runs, refused>>
  BY DEF Retry, journal, session, drive
<1>2. Sane' BY <1>1 DEF SafeInv, Sane, Written
<1>3. Point' BY <1>1 DEF SafeInv, Point
<1>4. Shown' BY <1>1 DEF SafeInv, Shown, Quiet
<1>5. Seen' BY <1>1 DEF SafeInv, Seen, SeenRun
<1>6. Ongoing' BY <1>1 DEF SafeInv, Ongoing
<1> QED BY <1>2, <1>3, <1>4, <1>5, <1>6

(* The model's configuration cannot be recorded.                           *)
LEMMA ConfigureSustains ==
  ASSUME SafeInv, Configure
  PROVE  Sane' /\ Point' /\ Shown' /\ Seen' /\ Ongoing'
<1> DEFINE e == Entry("Meta", NoId, <<>>)
<1>1. /\ loaded /\ ~check /\ failed = 0 /\ Break(log, <<e>>) /\ failed' = active
      /\ UNCHANGED <<loaded, installed, requests, unclosed, view, active, step, at, result, runs>>
  BY DEF Configure, CommitMeta
<1>2. e.kind = "Meta" /\ e.id \in Ids BY DEF Entry, NoId, Ids
<1> HIDE DEF e
<1>3. Accepts(log, e) BY <1>2 DEF Accepts
<1>4. Sound(log) BY DEF SafeInv, Sane
<1>5. Sound(log \cup {e}) BY <1>2, <1>3, <1>4, Extends
<1>6. Good(log, <<e>>) BY <1>3, <1>4, <1>5, GoodOne
<1>7. Fault(<<e>>) BY <1>1 DEF Fault
<1>8. log' = log /\ check' = TRUE BY <1>1, <1>7, FaultOne DEF Break
<1>9. Sane'
  <2>1. <<e>> \in Seq({e}) OBVIOUS
  <2> QED BY <1>6, <1>7, <2>1, AppendsGood DEF SafeInv
<1>10. Point' BY <1>8 DEF Point
<1>11. Shown' BY <1>1, <1>8 DEF SafeInv, Shown, Quiet
<1>12. ASSUME NEW r \in RunIds PROVE SeenRun(r)'
  <2>1. SeenRun(r) /\ r # 0 BY <1>1, RunBounds DEF SafeInv, Seen, RunIds
  <2> QED BY <1>1, <1>8, <2>1 DEF SeenRun
<1>13. Seen' BY <1>1, <1>12 DEF SafeInv, Seen
<1>14. Ongoing'
  <2>1. step' = "leave" <=> step = "leave" BY <1>1
  <2> QED BY <1>1, <1>8, <2>1 DEF SafeInv, Ongoing
<1> QED BY <1>9, <1>10, <1>11, <1>13, <1>14

-----------------------------------------------------------------------------
(* A run starts.  Its entries, with the system context or without.         *)
Starts(h, r, i, es) ==
  /\ Good(h, es) /\ \E T : es \in Seq(T)
  /\ Unclosed(h \cup ToSet(es)) = {}
  /\ \A res, q : PointAt(h \cup ToSet(es), "generate", <<r, 1, 0>>, res, q)
  /\ Entry("InputAccepted", NoId, <<i>>) \in ToSet(es)
  /\ Entry("RunStarted", <<r, 0, 0>>, <<i>>) \in ToSet(es)

StartEntry(e, r, i) ==
  /\ e.kind # "RunEnd"
  /\ e.kind = "RunStarted" => e.id = <<r, 0, 0>>
  /\ e.kind = "InputAccepted" => e.words = <<i>>

(* The five entries that record_start appends.                             *)
LEMMA RecordStartGood ==
  ASSUME NEW h, NEW r, NEW i, Fresh(h, r, i)
  PROVE  Starts(h, r, i, RecordStart(r, i)) /\ \A e \in ToSet(RecordStart(r, i)) : StartEntry(e, r, i)
<1> DEFINE turn == <<r, 1, 0>>
           a == Entry("InputAccepted", NoId, <<i>>)
           b == Entry("RunStarted", <<r, 0, 0>>, <<i>>)
           c == Entry("TurnStarted", turn, <<>>)
           d == Entry("InputConsumed", turn, <<i>>)
           e == Entry("GenStarted", turn, <<>>)
           g1 == h \cup {a}
           g2 == g1 \cup {b}
           g3 == g2 \cup {c}
           g4 == g3 \cup {d}
           g5 == g4 \cup {e}
<1>1. Accepts(h, a) /\ Sound(g1) /\ Accepts(g1, b) /\ Sound(g2) /\ Taken(g2, r, i) BY HistAccept
<1>2. g1 = h \cup {a} /\ g2 = g1 \cup {b} OBVIOUS
<1>3. RecordStart(r, i) = <<a, b, c, d, e>> BY DEF RecordStart
<1>4. StartEntry(a, r, i) /\ StartEntry(b, r, i) /\ StartEntry(c, r, i) /\ StartEntry(d, r, i)
      /\ StartEntry(e, r, i)
  BY DEF StartEntry, Entry
<1>5. Sound(h) BY DEF Fresh
<1>11. Starts(h, r, i, RecordStart(r, i)) <=>
         /\ Good(h, RecordStart(r, i)) /\ \E T : RecordStart(r, i) \in Seq(T)
         /\ Unclosed(h \cup ToSet(RecordStart(r, i))) = {}
         /\ \A res, q : PointAt(h \cup ToSet(RecordStart(r, i)), "generate", turn, res, q)
         /\ a \in ToSet(RecordStart(r, i)) /\ b \in ToSet(RecordStart(r, i))
  BY DEF Starts
<1> HIDE DEF g1, g2
<1>6. /\ Accepts(g2, c) /\ Sound(g3) /\ Accepts(g3, d) /\ Sound(g4) /\ Accepts(g4, e) /\ Sound(g5)
      /\ Unclosed(g5) = {} /\ \A res, q : PointAt(g5, "generate", turn, res, q)
  BY <1>1, HistFirstTurn
<1>7. g3 = g2 \cup {c} /\ g4 = g3 \cup {d} /\ g5 = g4 \cup {e} OBVIOUS
<1> HIDE DEF a, b, c, d, e, g3, g4, g5
<1>8. Then(h, a, g1) /\ Then(g1, b, g2) /\ Then(g2, c, g3) /\ Then(g3, d, g4) /\ Then(g4, e, g5)
  BY <1>1, <1>2, <1>6, <1>7 DEF Then
<1> DEFINE es == <<a, b, c, d, e>>
<1>9. Good(h, es) /\ es \in Seq({a, b, c, d, e}) /\ h \cup ToSet(es) = g5
  BY <1>5, <1>8, GoodFive
<1>10. /\ a \in ToSet(es) /\ b \in ToSet(es) /\ \A f \in ToSet(es) : f \in {a, b, c, d, e}
  <2>1. ToSet(es) \subseteq {a, b, c, d, e} BY <1>9, Within
  <2>2. DOMAIN es = 1..5 /\ es[1] = a /\ es[2] = b OBVIOUS
  <2> HIDE DEF es
  <2>3. 1 \in DOMAIN es /\ 2 \in DOMAIN es BY <2>2
  <2>4. es[1] \in ToSet(es) /\ es[2] \in ToSet(es) BY <2>3 DEF ToSet
  <2> QED BY <2>1, <2>2, <2>4
<1> HIDE DEF es
<1>12. RecordStart(r, i) = es BY <1>3 DEF es
<1>13. \E T : es \in Seq(T) BY <1>9
<1>14. Starts(h, r, i, RecordStart(r, i)) BY <1>6, <1>9, <1>10, <1>11, <1>12, <1>13
<1>15. \A f \in ToSet(RecordStart(r, i)) : StartEntry(f, r, i) BY <1>4, <1>10, <1>12
<1> QED BY <1>14, <1>15

(* ... after the system context, or at once.                               *)
LEMMA StartGood ==
  ASSUME NEW h, NEW r, NEW i, Fresh(h, r, i), NEW context \in ContextChange(TRUE)
  PROVE  LET es == context \o RecordStart(r, i) IN
         Starts(h, r, i, es) /\ \A e \in ToSet(es) : StartEntry(e, r, i)
<1> DEFINE c == Entry("SystemContext", NoId, <<>>)
           start == RecordStart(r, i)
           es == context \o start
<1>1. context = <<>> \/ context = <<c>> BY DEF ContextChange
<1>2. Accepts(h, c) /\ Sound(h \cup {c}) /\ Fresh(h \cup {c}, r, i) BY FreshContext
<1>3. StartEntry(c, r, i) BY DEF StartEntry, Entry
<1>4. Sound(h) BY DEF Fresh
<1> HIDE DEF c
<1> DEFINE g == h \cup ToSet(context)
<1>5. /\ Good(h, context) /\ (\E T : context \in Seq(T)) /\ Fresh(g, r, i)
      /\ \A e \in ToSet(context) : StartEntry(e, r, i)
  <2>1. CASE context = <<>>
    <3>1. Good(h, <<>>) /\ <<>> \in Seq({}) BY <1>4, GoodNone
    <3>2. ToSet(<<>>) = {} BY None
    <3>3. g = h BY <2>1, <3>2
    <3>4. context \in Seq({}) /\ \A e \in ToSet(context) : StartEntry(e, r, i) BY <2>1, <3>1, <3>2
    <3> QED BY <2>1, <3>1, <3>3, <3>4
  <2>2. CASE context = <<c>>
    <3>1. Good(h, <<c>>) BY <1>2, <1>4, GoodOne
    <3>2. ToSet(<<c>>) = {c} /\ <<c>> \in Seq({c}) BY One
    <3>3. g = h \cup {c} BY <2>2, <3>2
    <3>4. Fresh(g, r, i) BY <1>2, <3>3
    <3>5. \E T : context \in Seq(T) BY <2>2, <3>2
    <3>6. \A e \in ToSet(context) : StartEntry(e, r, i) BY <1>3, <2>2, <3>2
    <3> QED BY <2>2, <3>1, <3>4, <3>5, <3>6
  <2> QED BY <1>1, <2>1, <2>2
<1> HIDE DEF start
<1>6. Starts(g, r, i, start) /\ \A e \in ToSet(start) : StartEntry(e, r, i)
  BY <1>5, RecordStartGood DEF start
<1>7. PICK T : context \in Seq(T) BY <1>5
<1>8. PICK U : start \in Seq(U) BY <1>6 DEF Starts
<1>9. context \in Seq(T \cup U) /\ start \in Seq(T \cup U) BY <1>7, <1>8
<1>10. Good(g, start) BY <1>6 DEF Starts
<1>11. Good(h, es) /\ es \in Seq(T \cup U) /\ ToSet(es) = ToSet(context) \cup ToSet(start)
  BY <1>5, <1>9, <1>10, GoodThen
<1>12. h \cup ToSet(es) = g \cup ToSet(start) BY <1>11
<1> HIDE DEF es, g
<1>13. Starts(h, r, i, es) BY <1>6, <1>11, <1>12 DEF Starts
<1>14. \A e \in ToSet(es) : StartEntry(e, r, i) BY <1>5, <1>6, <1>11
<1> QED BY <1>13, <1>14 DEF es, start

(* What has been appended so far, g, begins run r at most, and ends none.  *)
Between(h, g, S) == h \subseteq g /\ g \subseteq h \cup S
AllStart(S, r, i) == \A e \in S : StartEntry(e, r, i)
BeginsOne(h, g, r) ==
  /\ RunsIn(h) \subseteq RunsIn(g) /\ RunsIn(g) \subseteq RunsIn(h) \cup {r}
  /\ OpenRuns(g) \subseteq OpenRuns(h) \cup {<<r, 0, 0>>}
  /\ \A x : EndOf(g, x) = EndOf(h, x)

(* Such are the sections that start a run, whatever becomes of them.       *)
LEMMA StartingRuns ==
  ASSUME NEW h, NEW r, NEW i, NEW S, AllStart(S, r, i), NEW g, Between(h, g, S)
  PROVE  BeginsOne(h, g, r)
<1>7. h \subseteq g /\ g \subseteq h \cup S /\ \A e \in S : StartEntry(e, r, i) BY DEF Between, AllStart
<1>1. Places(h, "RunStarted") \subseteq Places(g, "RunStarted")
      /\ Places(g, "RunStarted") \subseteq Places(h, "RunStarted") \cup {<<r, 0, 0>>}
  BY <1>7 DEF Places, StartEntry
<1>2. Places(g, "RunEnd") = Places(h, "RunEnd") BY <1>7 DEF Places, StartEntry
<1>3. <<r, 0, 0>>[1] = r OBVIOUS
<1>4. \A x, v : Entry("RunEnd", x, <<v>>).kind = "RunEnd" BY DEF Entry
<1>5. \A x, v : Says(g, "RunEnd", x, v) <=> Says(h, "RunEnd", x, v) BY <1>4, <1>7 DEF Says, StartEntry
<1>6. \A x : EndOf(g, x) = EndOf(h, x) BY <1>5 DEF EndOf
<1>8. RunsIn(h) \subseteq RunsIn(g) /\ RunsIn(g) \subseteq RunsIn(h) \cup {r} BY <1>1, <1>3 DEF RunsIn
<1>9. OpenRuns(g) \subseteq OpenRuns(h) \cup {<<r, 0, 0>>} BY <1>1, <1>2 DEF OpenRuns
<1> QED BY <1>6, <1>8, <1>9 DEF BeginsOne

(* A client's input starts a run.                                          *)
LEMMA StartSustains ==
  ASSUME SafeInv, NEW i, Start(i)
  PROVE  Sane' /\ Point' /\ Shown' /\ Seen' /\ Ongoing'
<1> DEFINE r == runs + 1
<1>1. /\ loaded /\ active = 0 /\ ~check /\ failed = 0 /\ i \notin requests /\ unclosed = {}
      /\ runs < MaxRuns /\ runs' = r
  BY DEF Start
<1>2. PICK context \in ContextChange(TRUE) :
        LET es == context \o RecordStart(r, i) IN
        \/ /\ Commit(log, es)
           /\ active' = r /\ requests' = requests \cup {i}
           /\ view' = [view EXCEPT ![r] = "InProgress"]
           /\ step' = "generate" /\ at' = <<r, 1, 0>>
           /\ UNCHANGED <<loaded, installed, failed, unclosed>>
        \/ /\ Break(log, es)
           /\ UNCHANGED <<loaded, installed, requests, unclosed, view, active>>
  BY <1>1 DEF Start, ContextChange, GoTo, drive
<1>3. /\ Sane /\ Sound(log) /\ IsFiniteSet(log) /\ requests = Accepted(log) /\ unclosed = Unclosed(log)
      /\ OpenRuns(log) = {} /\ runs \in Nat /\ installed \in Installs
      /\ \A e \in log : e.id \in Ids /\ e.id[1] <= runs
      /\ view \in [RunIds -> Statuses] /\ \A n \in RunIds : SeenRun(n)
  BY <1>1 DEF SafeInv, Sane, Shown, Quiet, RunInv, Placed, Filed, EntryOK, Written, Seen
<1>4. r \in Nat /\ r > 0 /\ r \in RunIds /\ r <= MaxRuns /\ (\A n \in Nat : n <= runs => n < r)
  BY <1>1, <1>3, RunBounds DEF RunIds
<1>5. \A n \in RunsIn(log) : n # r
  <2>1. \A e \in log : e.id[1] # r BY <1>3, <1>4 DEF Ids
  <2> QED BY <2>1 DEF RunsIn, Places
<1> HIDE DEF r
<1>6. Fresh(log, r, i)
  <2>1. ASSUME NEW e \in log, e.kind = "InputAccepted" PROVE e.words # <<i>>
    <3>1. e.words[1] \in Accepted(log) BY <2>1 DEF Accepted
    <3> QED BY <1>1, <1>3, <3>1
  <2>2. ASSUME NEW e \in log, e.kind \in {"RunStarted", "InputConsumed"} PROVE e.words # <<i>>
    <3>1. Entry("InputAccepted", NoId, e.words) \in log BY <1>3, <2>2 DEF Sound, Sourced
    <3>2. Entry("InputAccepted", NoId, e.words).kind = "InputAccepted"
          /\ Entry("InputAccepted", NoId, e.words).words = e.words
      BY DEF Entry
    <3> QED BY <2>1, <3>1, <3>2
  <2>3. \A e \in log : e.id \in Ids /\ e.id[1] < r BY <1>3, <1>4 DEF Ids
  <2> QED BY <1>1, <1>3, <1>4, <2>1, <2>2, <2>3 DEF Fresh
<1> DEFINE es == context \o RecordStart(r, i)
           S == ToSet(es)
           k == log \cup S
<1>7. Starts(log, r, i, es) /\ \A e \in S : StartEntry(e, r, i) BY <1>6, StartGood
<1>8. \/ /\ Commit(log, es)
         /\ active' = r /\ requests' = requests \cup {i}
         /\ view' = [view EXCEPT ![r] = "InProgress"]
         /\ step' = "generate" /\ at' = <<r, 1, 0>>
         /\ UNCHANGED <<loaded, installed, failed, unclosed>>
      \/ /\ Break(log, es)
         /\ UNCHANGED <<loaded, installed, requests, unclosed, view, active>>
  BY <1>2
<1> HIDE DEF es
<1>9. Sane'
  <2>1. PICK T : es \in Seq(T) BY <1>7 DEF Starts
  <2>2. Good(log, es) BY <1>7 DEF Starts
  <2>3. Succeed(es) \/ Fault(es) BY <1>1, <1>8 DEF Succeed, Fault
  <2> QED BY <1>3, <2>1, <2>2, <2>3, AppendsGood
<1>10. log \subseteq log' /\ log' \subseteq log \cup S
  <2>1. CASE Commit(log, es) BY <2>1 DEF Commit
  <2>2. CASE Break(log, es)
    <3>1. PICK T : es \in Seq(T) BY <1>7 DEF Starts
    <3>2. PICK n \in 1..Len(es) : log' = log \cup ToSet(SubSeq(es, 1, n - 1)) BY <2>2 DEF Break
    <3>3. ToSet(SubSeq(es, 1, n - 1)) \subseteq ToSet(es) BY <3>1, <3>2 DEF ToSet
    <3> QED BY <3>2, <3>3
  <2> QED BY <1>8, <2>1, <2>2
<1> HIDE DEF S
<1>11. /\ RunsIn(log) \subseteq RunsIn(log') /\ RunsIn(log') \subseteq RunsIn(log) \cup {r}
       /\ OpenRuns(log') \subseteq OpenRuns(log) \cup {<<r, 0, 0>>}
       /\ \A x : EndOf(log', x) = EndOf(log, x)
  <2>1. AllStart(S, r, i) BY <1>7 DEF AllStart
  <2>2. Between(log, log', S) BY <1>10 DEF Between
  <2>3. BeginsOne(log, log', r) BY <2>1, <2>2, StartingRuns
  <2> QED BY <2>3 DEF BeginsOne
<1>12. ASSUME NEW n \in RunIds, view[n] # "none"
       PROVE  n # r /\ n \in RunsIn(log') /\ <<n, 0, 0>> \notin OpenRuns(log') /\ view[n] = EndOf(log', n)
  <2>1. SeenRun(n) /\ n # active BY <1>1, <1>3, <1>12, RunBounds DEF RunIds
  <2>2. n \in RunsIn(log) /\ view[n] = EndOf(log, n) BY <1>3, <1>12, <2>1 DEF SeenRun
  <2>3. n # r BY <1>5, <2>2
  <2> QED BY <1>3, <1>11, <2>2, <2>3
<1>13. CASE /\ Commit(log, es)
            /\ active' = r /\ requests' = requests \cup {i}
            /\ view' = [view EXCEPT ![r] = "InProgress"]
            /\ step' = "generate" /\ at' = <<r, 1, 0>>
            /\ UNCHANGED <<loaded, installed, failed, unclosed>>
  <2>1. check' = FALSE /\ log' = k BY <1>13 DEF Commit, S
  <2>2. Unclosed(log') = {} /\ PointAt(log', "generate", <<r, 1, 0>>, result', question')
    BY <1>7, <2>1 DEF Starts, S
  <2>3. Point' BY <1>13, <2>2 DEF Point
  <2>4. OpenRuns(log') = {<<r, 0, 0>>} BY <2>2 DEF PointAt, OpenAt, RunOf
  <2>5. r \in RunsIn(log')
    <3>1. Entry("RunStarted", <<r, 0, 0>>, <<i>>) \in log' BY <1>7, <2>1 DEF Starts, S
    <3>2. Entry("RunStarted", <<r, 0, 0>>, <<i>>).kind = "RunStarted"
          /\ Entry("RunStarted", <<r, 0, 0>>, <<i>>).id = <<r, 0, 0>>
      BY DEF Entry
    <3>3. <<r, 0, 0>> \in Places(log', "RunStarted") BY <3>1, <3>2 DEF Places
    <3>4. <<r, 0, 0>>[1] = r OBVIOUS
    <3> QED BY <3>3, <3>4 DEF RunsIn
  <2>6. Accepted(log') = Accepted(log) \cup {i}
    <3>1. Entry("InputAccepted", NoId, <<i>>) \in S BY <1>7 DEF Starts, S
    <3>2. Entry("InputAccepted", NoId, <<i>>).kind = "InputAccepted"
          /\ Entry("InputAccepted", NoId, <<i>>).words[1] = i
      BY DEF Entry
    <3>3. \A e \in S : e.kind = "InputAccepted" => e.words[1] = i BY <1>7 DEF StartEntry
    <3> QED BY <2>1, <3>1, <3>2, <3>3 DEF Accepted
  <2>7. Shown'
    <3>1. requests' = Accepted(log') /\ unclosed' = Unclosed(log') BY <1>1, <1>3, <1>13, <2>2, <2>6
    <3>2. active' # 0 /\ loaded' /\ installed' \in Installs /\ failed' = 0 BY <1>1, <1>3, <1>4, <1>13
    <3> QED BY <2>1, <3>1, <3>2 DEF Shown, Quiet
  <2>8. view' \in [RunIds -> Statuses] /\ view'[r] = "InProgress"
        /\ \A n \in RunIds : n # r => view'[n] = view[n]
    BY <1>3, <1>4, <1>13 DEF Statuses
  <2>9. ASSUME NEW n \in RunIds PROVE SeenRun(n)'
    <3>1. CASE n = r BY <1>13, <2>5, <2>8, <3>1 DEF SeenRun
    <3>2. CASE n # r
      <4>1. view'[n] = view[n] /\ SeenRun(n) BY <1>3, <2>8, <3>2
      <4>2. view[n] = "none" => n \notin RunsIn(log') BY <1>1, <1>11, <3>2, <4>1 DEF SeenRun
      <4> QED BY <1>12, <4>1, <4>2 DEF SeenRun
    <3> QED BY <3>1, <3>2
  <2>10. Seen' BY <1>1, <1>13, <2>8, <2>9 DEF Seen
  <2>11. Ongoing' BY <1>1, <1>4, <1>13, <2>4, <2>5 DEF Ongoing
  <2> QED BY <1>9, <2>3, <2>7, <2>10, <2>11
<1>14. CASE /\ Break(log, es)
            /\ UNCHANGED <<loaded, installed, requests, unclosed, view, active>>
  <2>1. check' = TRUE BY <1>1, <1>14 DEF Break
  <2>2. Point' BY <2>1 DEF Point
  <2>3. Shown' BY <1>1, <1>3, <1>14, <2>1 DEF Shown, Quiet
  <2>4. ASSUME NEW n \in RunIds PROVE SeenRun(n)' BY <1>12, <1>14, <2>1 DEF SeenRun
  <2>5. Seen' BY <1>1, <1>3, <1>14, <2>4 DEF Seen
  <2>6. Ongoing' BY <1>1, <1>4, <1>14 DEF Ongoing
  <2> QED BY <1>9, <2>2, <2>3, <2>5, <2>6
<1> QED BY <1>8, <1>13, <1>14

(* An empty journal, with nothing to show.                                 *)
LEMMA InitSafe == ASSUME Init PROVE SafeInv
<1>1. RunInv BY InitKeeps
<1>2. /\ log = {} /\ doubt = {} /\ check = FALSE /\ loaded = TRUE /\ installed \in Installs /\ active = 0
      /\ failed = 0 /\ requests = {} /\ unclosed = {} /\ view = [r \in RunIds |-> "none"]
      /\ runs = 0 /\ ~refused
  BY DEF Init
<1>3. \A k : Places({}, k) = {} BY DEF Places
<1>4. /\ OpenRuns({}) = {} /\ OpenTurns({}) = {} /\ OpenGens({}) = {} /\ OpenTools({}) = {}
      /\ OpenInteractions({}) = {} /\ Effective({}) = {} /\ RunsIn({}) = {}
  BY <1>3 DEF OpenRuns, OpenTurns, OpenGens, OpenTools, OpenInteractions, Effective, RunsIn
<1>5. Sound({})
  <2>1. Nested({}) BY <1>4 DEF Nested, Settleable
  <2>2. Called({}) BY <1>3 DEF Called
  <2>3. Budgeted({}) BY <1>4 DEF Budgeted
  <2>4. Paired({}) BY <1>3 DEF Paired
  <2>5. Sourced({}) BY DEF Sourced
  <2> QED BY <2>1, <2>2, <2>3, <2>4, <2>5 DEF Sound
<1>6. Sane
  <2>1. Written = {} BY <1>2 DEF Written
  <2> QED BY <1>2, <1>5, <2>1 DEF Sane
<1>7. Point BY <1>2 DEF Point
<1>8. Unclosed({}) = {} /\ Accepted({}) = {} BY <1>4 DEF Unclosed, Accepted
<1>9. Shown BY <1>2, <1>4, <1>8 DEF Shown, Quiet
<1>10. Seen BY <1>2, <1>4 DEF Seen, SeenRun, Statuses
<1>11. Ongoing BY <1>2, RunBounds DEF Ongoing
<1> QED BY <1>1, <1>6, <1>7, <1>9, <1>10, <1>11 DEF SafeInv

(* Every step keeps all of it.                                             *)
LEMMA NextSafe ==
  ASSUME OneInstall, SafeInv, [Next]_vars
  PROVE  SafeInv'
<1>1. RunInv' BY NextKeeps DEF SafeInv
<1> SUFFICES Sane' /\ Point' /\ Shown' /\ Seen' /\ Ongoing' BY <1>1 DEF SafeInv
<1>2. CASE UNCHANGED vars
  <2>1. UNCHANGED <<log, doubt, check, loaded, installed, failed, requests, unclosed, view, active,
                    step, at, result, question, runs, refused>>
    BY <1>2 DEF vars, journal, session, drive
  <2>2. Sane' BY <2>1 DEF SafeInv, Sane, Written
  <2>3. Point' BY <2>1 DEF SafeInv, Point
  <2>4. Shown' BY <2>1 DEF SafeInv, Shown, Quiet
  <2>5. Seen' BY <2>1 DEF SafeInv, Seen, SeenRun
  <2>6. Ongoing' BY <2>1 DEF SafeInv, Ongoing
  <2> QED BY <2>2, <2>3, <2>4, <2>5, <2>6
<1>3. CASE Client
  <2>1. ASSUME NEW i \in Inputs, Start(i) \/ Retry(i)
        PROVE  Sane' /\ Point' /\ Shown' /\ Seen' /\ Ongoing'
    BY <2>1, StartSustains, RetrySustains
  <2> QED BY <1>3, <2>1, PrepareSustains, InterruptSustains, ConfigureSustains, AnswerSustains DEF Client
<1>4. CASE Generation BY <1>4, EndGenerationSustains, EndExtractionSustains DEF Generation
<1>5. CASE Call
  BY <1>5, CommitIntentSustains, RefuseSustains, RunBashSustains, BeginExtractionSustains, AskSustains,
     AnsweredSustains, AnswerSustains, CommitResultSustains DEF Call
<1>6. CASE Ending
  BY <1>6, EndTurnSustains, NextTurnSustains, EndRunSustains, LeaveSustains DEF Ending
<1>7. CASE Unload \/ Crash BY <1>7, ForgetSustains DEF Unload, Crash
<1>8. CASE Load BY <1>8, LoadSustains
<1> QED BY <1>2, <1>3, <1>4, <1>5, <1>6, <1>7, <1>8 DEF Next

(* The second inductive invariant.                                         *)
THEOREM SafeInductive ==
  ASSUME OneInstall
  PROVE  Spec => []SafeInv
<1>1. Init => SafeInv BY InitSafe
<1>2. SafeInv /\ [Next]_vars => SafeInv' BY NextSafe
<1> QED BY <1>1, <1>2, PTL DEF Spec

(* append never answers that the live code, or recovery, tried to record    *)
(* what may not follow: provided the assembled tools are the same at every  *)
(* load of a session.                                                      *)
THEOREM Unrefused ==
  ASSUME OneInstall
  PROVE  Spec => []NeverRefused
<1>1. SafeInv => NeverRefused BY DEF SafeInv, Sane, NeverRefused
<1> QED BY <1>1, SafeInductive, PTL

(* What a session at rest shows is what reading its journal again gives.    *)
THEOREM ReplaysAgree ==
  ASSUME OneInstall
  PROVE  Spec => []ViewIsReplay
<1>1. SafeInv => ViewIsReplay
  <2> SUFFICES ASSUME SafeInv, Quiet PROVE ViewIsReplay BY DEF ViewIsReplay
  <2>1. requests = Accepted(log) /\ unclosed = Unclosed(log) /\ OpenRuns(log) = {}
    BY DEF SafeInv, Shown, Quiet
  <2>2. \A r \in RunIds : view[r] = IF r \in RunsIn(log) THEN EndOf(log, r) ELSE "none"
    <3> SUFFICES ASSUME NEW r \in RunIds
                 PROVE  view[r] = IF r \in RunsIn(log) THEN EndOf(log, r) ELSE "none"
      OBVIOUS
    <3>1. SeenRun(r) /\ r # active BY RunBounds DEF SafeInv, Seen, Quiet, RunIds
    <3> QED BY <2>1, <3>1 DEF SeenRun, Quiet
  <2> QED BY <2>1, <2>2 DEF ViewIsReplay
<1> QED BY <1>1, SafeInductive, PTL

(* A session at rest has nothing open but calls that recovery may not      *)
(* close.                                                                  *)
THEOREM RestIsSettled ==
  ASSUME OneInstall
  PROVE  Spec => []Settled
<1>1. SafeInv => Settled
  <2> SUFFICES ASSUME SafeInv, Quiet
               PROVE  /\ OpenRuns(log) \cup OpenTurns(log) \cup OpenGens(log) \cup OpenInteractions(log) = {}
                      /\ \A x \in OpenTools(log) :
                           Tool(x) \notin Builtin \cup IF installed THEN {"WebFetch"} ELSE {}
    BY DEF Settled
  <2>1. OpenRuns(log) = {} /\ Sound(log) /\ installed \in Installs BY DEF SafeInv, Shown, Sane
  <2>2. /\ OpenTurns(log) = {} /\ OpenGens(log) = {} /\ OpenInteractions(log) = {}
        /\ \A tools \in Installs : Settleable(log, tools) = {}
    BY <2>1, NothingOpen
  <2>3. ASSUME NEW x \in OpenTools(log)
        PROVE  Tool(x) \notin Builtin \cup IF installed THEN {"WebFetch"} ELSE {}
    <3>1. x \in Places(log, "ToolIntent") BY DEF OpenTools
    <3> DEFINE e == CHOOSE e \in log : e.kind = "ToolIntent" /\ e.id = x
    <3>2. e \in log /\ e.kind = "ToolIntent" /\ e.id = x BY <3>1 DEF Places
    <3>3. Words(log, "ToolIntent", x) = e.words BY DEF Words
    <3> HIDE DEF e
    <3>4. IntentOK(log, e) BY <2>1, <3>2 DEF Sound, Called
    <3>5. e.words = <<Tool(x)>> BY <3>2, <3>4 DEF IntentOK, Tool
    <3>6. Words(log, "ToolIntent", x)[1] = Tool(x) BY <3>3, <3>5
    <3>7. x \notin Settleable(log, installed) BY <2>1, <2>2
    <3> QED BY <3>6, <3>7 DEF Settleable
  <2> QED BY <2>1, <2>2, <2>3
<1> QED BY <1>1, SafeInductive, PTL
=============================================================================
