------------------------------ MODULE MCJournal ------------------------------
(* The journal of a session, the form of its records, the tools of a run   *)
(* which read them, the Bash tool, the web search, and the instructions of *)
(* a model: a behaviour is that of one of them.  Two writers contend for   *)
(* the journal.                                                            *)
EXTENDS Rollout, Records, SessionTools, Shell

CONSTANTS w1, w2

VARIABLE part

MCWriters == {w1, w2}

MCTexts == {<<"x">>, <<"x", "y">>, <<"p">>}
MCRead(limit, allow) ==
  [name |-> "Read", path |-> "in", offset |-> 1, limit |-> limit, allowMissing |-> allow]
MCTodo(merge, items) == [name |-> "TodoWrite", merge |-> merge, items |-> items]
MCItem(id, status) == [id |-> id, status |-> status]
MCToolCalls ==
  {MCRead(0, TRUE), MCRead(1, FALSE),
   [name |-> "Write", path |-> "out", contents |-> <<"x">>],
   [name |-> "Edit", path |-> "in", old |-> "x", new |-> "y", all |-> FALSE],
   MCTodo(FALSE, <<MCItem(1, "pending")>>),
   MCTodo(TRUE, <<MCItem(1, "completed"), MCItem(2, "pending")>>),
   [name |-> "RequestPermission", path |-> "out"]}

MCBatches == {<<"s">>, <<"s", "t">>}

MCInit ==
  /\ part \in {"journal", "records", "tools", "shell", "web", "context"}
  /\ Init /\ RecordsInit /\ ToolsInit /\ ShellInit /\ WebInit /\ ContextInit
  /\ part # "tools" => \A p \in Paths : tree[p] = NoFile
  /\ part # "shell" => ~token
  /\ part # "context" => shelf = [d \in DOMAIN shelf |-> [n \in Skills |-> NoBody]]

MCNext ==
  /\ UNCHANGED part
  /\ \/ part = "journal" /\ Next /\ UNCHANGED <<rvars, toolvars, shellvars, webvars, contextvars>>
     \/ part = "records" /\ RecordsNext /\ UNCHANGED <<vars, toolvars, shellvars, webvars, contextvars>>
     \/ part = "tools" /\ ToolsNext /\ UNCHANGED <<vars, rvars, shellvars, webvars, contextvars>>
     \/ part = "shell" /\ ShellNext /\ UNCHANGED <<vars, rvars, toolvars, webvars, contextvars>>
     \/ part = "web" /\ WebNext /\ UNCHANGED <<vars, rvars, toolvars, shellvars, contextvars>>
     \/ part = "context" /\ ContextNext /\ UNCHANGED <<vars, rvars, toolvars, shellvars, webvars>>

MCSpec == MCInit /\ [][MCNext]_<<part, vars, rvars, toolvars, shellvars, webvars, contextvars>>
=============================================================================
