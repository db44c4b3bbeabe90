----------------------------- MODULE SessionTools -----------------------------
(* What the runs of a session remember: the tools of a run, the search     *)
(* tool, and the instructions of its model.                                *)
EXTENDS Tools, WebTools, SystemContext

(* What the tools of a run and the search tool remember, and what a model  *)
(* is told, is what the committed history and the settings say.            *)
ToolsKept == SessionToolsKept /\ ProviderKept /\ ContextKept
=============================================================================
