--------------------------------- MODULE Tools ---------------------------------
(***************************************************************************)
(* The tools of a run: files that are read, written and edited, the todo   *)
(* list, and the permissions a user grants (run_loop.rs and the tools of   *)
(* xw-agent-runtime).  What the executors remember is rebuilt from the     *)
(* committed history whenever a run starts; other programs change the      *)
(* files at any moment.                                                    *)
(*                                                                         *)
(* A file is a sequence of lines.  A path stands for what it resolves to,  *)
(* a grant for the paths it covers; a call is one of MCCalls' kind.  Glob, *)
(* Grep, skills, Bash and the web tools are not called here.               *)
(***************************************************************************)
EXTENDS Naturals, Sequences, SequencesExt

CONSTANTS Paths,       \* the files that may be there
          Inside,      \* those that may be written without a grant
          Texts,       \* the contents other programs and Write give them
          Phrase,      \* a line that says "content unchanged since last read"
          Window,      \* the lines that fit into the answer of one Read
          ToolCalls,   \* the calls a model may make
          MaxSaid      \* bound: entries in the history

VARIABLES tree,        \* Paths -> contents
          said,        \* the committed calls, answers of the user, and results
          doubt,       \* an entry whose append failed: it may be in the file
          task,        \* "live", "over", "broken" (to be recovered) or "stuck"
          stopped,     \* the run's cancellation token
          call,        \* the call being executed
          reads,       \* FileTools.reads: the text last shown, by path and range
          todos,       \* TodoWrite.todos
          grants,      \* FileTools.grants
          granted,     \* Session.granted_paths
          wrote        \* every path a tool ever wrote

toolvars == <<tree, said, doubt, task, stopped, call, reads, todos, grants, granted, wrote>>
executors == <<reads, todos, grants>>

NoFile == <<"missing">>
Quiet == [at |-> "idle"]
Nothing == [kind |-> "nothing"]

Keys == {<<c.path, c.offset, c.limit>> : c \in {d \in ToolCalls : d.name = "Read"}}
KeyOf(c) == <<c.path, c.offset, c.limit>>

(***************************************************************************)
(* The text of a Read: the lines of the range as far as they fit, and how  *)
(* many lines stand before and after them.                                 *)
(***************************************************************************)
Lesser(a, b) == IF a < b THEN a ELSE b

Excerpt(content, offset, limit) ==
  LET n == Len(content)
      start == Lesser(offset - 1, n)
      fits == Lesser(start + Window, n)
      end == IF limit = 0 THEN fits ELSE Lesser(start + limit, fits)
  IN [kind |-> "text", before |-> start, lines |-> SubSeq(content, start + 1, end),
      after |-> n - end]

SaysUnchanged(text) ==
  text.kind = "same" \/ (text.kind = "text" /\ \E i \in DOMAIN text.lines : text.lines[i] = Phrase)

(***************************************************************************)
(* What a run finds in the history.  The provider's identity of a call     *)
(* means something only until the next reply.                              *)
(***************************************************************************)
Recall(known, e) ==
  IF e.type = "call" THEN [known EXCEPT !.pending = IF e.call.name = "Read" THEN <<KeyOf(e.call)>> ELSE <<>>]
  ELSE IF e.type = "result" /\ e.ok /\ known.pending # <<>>
  THEN [pending |-> <<>>,
        reads |-> IF SaysUnchanged(e.text) THEN known.reads
                  ELSE [known.reads EXCEPT ![known.pending[1]] = e.text]]
  ELSE known

Hydrated(h) ==
  LET known[i \in 0..Len(h)] ==
        IF i = 0 THEN [pending |-> <<>>, reads |-> [k \in Keys |-> Nothing]]
        ELSE Recall(known[i - 1], h[i])
  IN known

ReadsOf(h) == Hydrated(h)[Len(h)].reads

TodosOf(h) ==
  LET done == {i \in DOMAIN h : h[i].type = "result" /\ h[i].ok /\ h[i].text.kind = "todos"}
  IN IF done = {} THEN <<>> ELSE h[CHOOSE i \in done : \A j \in done : j <= i].text.list

GrantsOf(h) == {h[i].path : i \in {j \in DOMAIN h : h[j].type = "answer" /\ h[j].allow}}

ToolsInit ==
  /\ tree \in [Paths -> Texts \cup {NoFile}] /\ \A p \in Paths \ Inside : tree[p] = NoFile
  /\ said = <<>> /\ doubt = <<>> /\ task = "live" /\ stopped = FALSE /\ call = Quiet
  /\ reads = ReadsOf(<<>>) /\ todos = <<>> /\ grants = {} /\ granted = {} /\ wrote = {}

(* drive, from the start: the executors of a run.                          *)
StartRun ==
  /\ task = "over"
  /\ task' = "live" /\ stopped' = FALSE
  /\ reads' = ReadsOf(said) /\ todos' = TodosOf(said) /\ grants' = granted
  /\ UNCHANGED <<tree, said, doubt, call, granted, wrote>>

EndRun ==
  /\ task = "live" /\ call = Quiet /\ task' = "over"
  /\ UNCHANGED <<tree, said, doubt, stopped, call, executors, granted, wrote>>

StopRun ==
  /\ task = "live" /\ ~stopped /\ stopped' = TRUE
  /\ UNCHANGED <<tree, said, doubt, task, call, executors, granted, wrote>>

(***************************************************************************)
(* The records of a call.  An append that fails ends the run: its entry    *)
(* may be found in the file or not.                                        *)
(***************************************************************************)
AppendFails(e) ==
  /\ task' = "broken" /\ call' = Quiet /\ doubt' = <<e>>
  /\ UNCHANGED <<tree, said, stopped, executors, granted, wrote>>

CallEntry(c) == [type |-> "call", call |-> c]
Result(ok, text) == [at |-> "done", ok |-> ok, text |-> text]
Failed == Result(FALSE, Nothing)

Begin(c) ==
  /\ task = "live" /\ call = Quiet /\ ~stopped /\ Len(said) < MaxSaid
  /\ \/ /\ said' = Append(said, CallEntry(c)) /\ call' = [at |-> "begun", of |-> c]
        /\ UNCHANGED <<tree, doubt, task, stopped, executors, granted, wrote>>
     \/ AppendFails(CallEntry(c))

ResultEntry == [type |-> "result", ok |-> call.ok, text |-> call.text]

Commit ==
  /\ task = "live" /\ call.at = "done"
  /\ \/ /\ said' = Append(said, ResultEntry) /\ call' = Quiet
        /\ UNCHANGED <<tree, doubt, task, stopped, executors, granted, wrote>>
     \/ AppendFails(ResultEntry)

Executing(name) == task = "live" /\ call.at = "begun" /\ call.of.name = name
Settle(result) ==
  /\ call' = result
  /\ UNCHANGED <<said, doubt, task, stopped, granted>>

(* Cancelled between the intent and its execution.                         *)
Skip ==
  /\ task = "live" /\ call.at = "begun" /\ stopped
  /\ \/ Settle(Failed) /\ UNCHANGED <<tree, executors, wrote>>
     \/ AppendFails([type |-> "question"])
-----------------------------------------------------------------------------
(* Files.                                                                  *)
Writable(path) == path \in Inside \cup grants

ReadAnyRange(c) == CHOOSE k \in Keys : k[1] = c.path
ReadKey(c) == KeyOf(c)

Read ==
  LET c == call.of
      text == Excerpt(tree[c.path], c.offset, c.limit)
  IN /\ Executing("Read") /\ ~stopped
     /\ \/ /\ tree[c.path] = NoFile /\ c.allowMissing
           /\ Settle(Result(TRUE, [kind |-> "missing"])) /\ UNCHANGED reads
        \/ /\ tree[c.path] # NoFile /\ reads[ReadKey(c)] = text
           /\ Settle(Result(TRUE, [kind |-> "same", is |-> text])) /\ UNCHANGED reads
        \/ /\ tree[c.path] # NoFile /\ reads[ReadKey(c)] # text
           /\ Settle(Result(TRUE, text)) /\ reads' = [reads EXCEPT ![ReadKey(c)] = text]
        \/ Settle(Failed) /\ UNCHANGED reads
     /\ UNCHANGED <<tree, todos, grants, wrote>>

(* The target is checked, the old text read, the parents created.          *)
CheckWrite ==
  /\ Executing("Write") /\ ~stopped
  /\ Settle(IF Writable(call.of.path)
            THEN [at |-> "writing", path |-> call.of.path, text |-> call.of.contents]
            ELSE Failed)
  /\ UNCHANGED <<tree, executors, wrote>>

Matches(content, old) == {i \in DOMAIN content : content[i] = old}

CheckEdit ==
  LET c == call.of
      before == tree[c.path]
      found == Matches(before, c.old)
  IN /\ Executing("Edit") /\ ~stopped
     /\ Settle(IF /\ Writable(c.path) /\ before # NoFile
                  /\ found # {} /\ (c.all \/ \A i, j \in found : i = j)
               THEN [at |-> "writing", path |-> c.path,
                     text |-> [i \in DOMAIN before |-> IF i \in found THEN c.new ELSE before[i]]]
               ELSE Failed)
     /\ UNCHANGED <<tree, executors, wrote>>

(* Checked again and written, whatever others wrote meanwhile, and even if *)
(* the run was stopped: a write that fails may have emptied the file.      *)
WriteOut ==
  /\ task = "live" /\ call.at = "writing"
  /\ IF Writable(call.path)
     THEN /\ wrote' = wrote \cup {call.path}
          /\ \/ tree' = [tree EXCEPT ![call.path] = call.text] /\ Settle(Result(TRUE, Nothing))
             \/ tree' \in {tree, [tree EXCEPT ![call.path] = <<>>]} /\ Settle(Failed)
     ELSE UNCHANGED <<tree, wrote>> /\ Settle(Failed)
  /\ UNCHANGED executors

OtherWrites(p, content) ==
  /\ tree[p] # content /\ tree' = [tree EXCEPT ![p] = content]
  /\ UNCHANGED <<said, doubt, task, stopped, call, executors, granted, wrote>>
-----------------------------------------------------------------------------
(* The todo list: merged item by item, by identity, or replaced.           *)
Put(list, item) ==
  LET same == {i \in DOMAIN list : list[i].id = item.id}
  IN IF same = {} THEN Append(list, item)
     ELSE [list EXCEPT ![CHOOSE i \in same : \A j \in same : i <= j] = item]

Merged(list, c) == IF c.merge THEN FoldLeft(Put, list, c.items) ELSE c.items

TodoWrite ==
  /\ Executing("TodoWrite") /\ ~stopped
  /\ \/ /\ todos' = Merged(todos, call.of)
        /\ Settle(Result(TRUE, [kind |-> "todos", list |-> todos']))
     \/ UNCHANGED todos /\ Settle(Failed)
  /\ UNCHANGED <<tree, reads, grants, wrote>>
-----------------------------------------------------------------------------
(* Permissions: the question is recorded, the user answers it or not, and  *)
(* the run goes on with the answer even if it was stopped after it.        *)
AskUser ==
  /\ Executing("RequestPermission") /\ ~stopped
  /\ \/ Settle([at |-> "asking", path |-> call.of.path])
     \/ Settle(Failed)
  /\ UNCHANGED <<tree, executors, wrote>>

AskUserFails ==
  /\ Executing("RequestPermission") /\ ~stopped /\ AppendFails([type |-> "question"])

Respond(allow) ==
  LET answer == [type |-> "answer", path |-> call.path, allow |-> allow]
  IN /\ task = "live" /\ call.at = "asking" /\ ~stopped
     /\ \/ /\ said' = Append(said, answer)
           /\ granted' = IF allow THEN granted \cup {call.path} ELSE granted
           /\ call' = [at |-> "answered", allow |-> allow]
           /\ UNCHANGED <<tree, doubt, task, stopped, executors, wrote>>
        \/ AppendFails(answer)

TakeAnswer ==
  /\ task = "live" /\ call.at = "answered"
  /\ grants' = granted
  /\ Settle(Result(TRUE, [kind |-> "permission", allow |-> call.allow]))
  /\ UNCHANGED <<tree, reads, todos, wrote>>

Expire ==
  /\ task = "live" /\ call.at = "asking" /\ stopped
  /\ \/ Settle(Failed) /\ UNCHANGED <<tree, executors, wrote>>
     \/ AppendFails([type |-> "question"])
-----------------------------------------------------------------------------
(* The process dies, maybe inside a write.                                 *)
Crash ==
  /\ task = "live"
  /\ task' = "broken" /\ call' = Quiet
  /\ tree' \in IF call.at = "writing" /\ Writable(call.path)
               THEN {tree, [tree EXCEPT ![call.path] = <<>>], [tree EXCEPT ![call.path] = call.text]}
               ELSE {tree}
  /\ wrote' = IF call.at = "writing" /\ Writable(call.path) THEN wrote \cup {call.path} ELSE wrote
  /\ UNCHANGED <<said, doubt, stopped, executors, granted>>

(* What recovery makes of the call that was cut short: session-local tools *)
(* get a result, from the user's answer if there is one; the effect of a   *)
(* file tool is unknown, and its session takes no further input.           *)
Unfinished(h) == h # <<>> /\ h[Len(h)].type # "result"
Closing(h) ==
  LET last == h[Len(h)]
  IN IF last.type = "answer"
     THEN [type |-> "result", ok |-> TRUE, text |-> [kind |-> "permission", allow |-> last.allow]]
     ELSE [type |-> "result", ok |-> FALSE, text |-> Nothing]

Recovered(h) ==
  /\ said' = IF Unfinished(h) THEN Append(h, Closing(h)) ELSE h
  /\ task' = "over"

RecoverSession ==
  /\ task = "broken"
  /\ \E found \in {<<>>, doubt} :
       LET h == said \o found
       IN /\ \A i \in DOMAIN found : found[i].type # "question"
          /\ granted' = GrantsOf(h)
          /\ IF Unfinished(h) /\ h[Len(h)].type = "call"
                /\ h[Len(h)].call.name \in {"Read", "Write", "Edit"}
             THEN said' = h /\ task' = "stuck"
             ELSE Recovered(h)
  /\ doubt' = <<>>
  /\ UNCHANGED <<tree, stopped, call, executors, wrote>>

ToolsNext ==
  \/ StartRun \/ EndRun \/ StopRun \/ Commit \/ Skip
  \/ \E c \in ToolCalls : Begin(c)
  \/ Read \/ CheckWrite \/ CheckEdit \/ WriteOut \/ TodoWrite
  \/ \E p \in Inside, content \in Texts \cup {NoFile} : OtherWrites(p, content)
  \/ AskUser \/ AskUserFails \/ TakeAnswer \/ Expire
  \/ \E allow \in BOOLEAN : Respond(allow)
  \/ Crash \/ RecoverSession

ToolsSpec == ToolsInit /\ [][ToolsNext]_toolvars
-----------------------------------------------------------------------------
(* The calls of the history that were answered, and with what.             *)
Answered(h) == {i \in DOMAIN h : h[i].type = "result" /\ h[i].ok}
CallAt(h, i) == h[CHOOSE j \in 1..(i - 1) : h[j].type = "call"
                    /\ \A k \in (j + 1)..(i - 1) : h[k].type # "call"].call
FullBefore(h, i) ==
  {j \in Answered(h) : j < i /\ h[j].text.kind = "text" /\ KeyOf(CallAt(h, j)) = KeyOf(CallAt(h, i))}

(* A model that is told that a file is unchanged was shown, in the newest  *)
(* text of that range that it has, what the file contained just then -     *)
(* whatever was written by anybody, lost in a crash or rebuilt since.  A   *)
(* text that itself says so is not recognised when a run starts again.     *)
UnchangedIsShown ==
  \A i \in Answered(said) : said[i].text.kind = "same"
    => LET full == FullBefore(said, i)
       IN (\A j \in full : ~SaysUnchanged(said[j].text))
          => \E j \in full : said[j].text = said[i].text.is /\ \A k \in full : k <= j

(* The todo list is what the committed calls make of it, one by one.       *)
TodosFollow ==
  /\ \A i \in Answered(said) : said[i].text.kind = "todos"
       => said[i].text.list = Merged(TodosOf(SubSeq(said, 1, i - 1)), CallAt(said, i))
  /\ task = "live" /\ call = Quiet => todos = TodosOf(said)

(* Nothing outside is written without a permission on record, a run knows  *)
(* the permissions on record whenever it executes something, and the model *)
(* hears that it has one exactly when it has.                              *)
GrantsFollow ==
  /\ wrote \subseteq Inside \cup granted
  /\ granted = GrantsOf(said)
  /\ task = "live" /\ call.at # "answered" => grants = granted
  /\ \A i \in Answered(said) :
       said[i].text = [kind |-> "permission", allow |-> TRUE] => CallAt(said, i).path \in granted

(* What the tools remember is what the committed history says.             *)
SessionToolsKept == UnchangedIsShown /\ TodosFollow /\ GrantsFollow
=============================================================================
