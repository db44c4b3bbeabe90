----------------------------- MODULE MCAgentRun -----------------------------
(* Small instances of AgentRun.                                            *)
EXTENDS AgentRun

(* A text reply, and replies with calls of every kind.                     *)
MCPlans ==
  {<<>>, <<"Bash">>, <<"WebFetch">>, <<"AskUserQuestion", "Bash">>, <<"Skill", "TodoWrite">>}

(* Enough for instances with several runs.                                 *)
MCShortPlans == {<<>>, <<"Bash">>}

MCNothing == {<<>>}
MCTorn == {<<>>, <<"Partial">>}
MCAlways == {TRUE}
MCChanging == BOOLEAN
InputSymmetry == Permutations(Inputs)
=============================================================================
