------------------------------- MODULE WebTools -------------------------------
(***************************************************************************)
(* The web search of the agent follows the search settings (tools.rs and   *)
(* lib.rs of xiaowei-agent, web_search.rs of xw-storage).  An event about  *)
(* the settings only wakes a task, which reads the provider and its key    *)
(* and replaces the provider in use.  The agent can be cancelled or closed *)
(* at any point of its start.                                              *)
(***************************************************************************)
EXTENDS Integers, FiniteSets

CONSTANTS Providers,    \* search providers that need a key, "bing" does not
          SearchKeys,   \* keys a user may enter
          MaxUpdates    \* bound: changes of the settings

VARIABLES
  stored,      \* the stored settings: selected provider, keys
  updates,
  events,      \* notifications on their way to the assembly
  woken,       \* the watch channel has a version the task has not seen
  agent,       \* what activate, cancel or close is at
  follower,    \* the task, and the configuration it has read
  current,     \* the configuration the task believes to be in use
  inUse,       \* the provider of the WebSearch tool
  missed,      \* the last refresh failed
  ended        \* the cancellation token

webvars == <<stored, updates, events, woken, agent, follower, current, inUse, missed, ended>>

NoKey == "no key"
Unset == [provider |-> "none", key |-> NoKey]

(* A selected provider without a key falls back to the built-in one.       *)
Config(s) ==
  IF s.selected # "bing" /\ s.keys[s.selected] # NoKey
  THEN [provider |-> s.selected, key |-> s.keys[s.selected]]
  ELSE [provider |-> "bing", key |-> NoKey]

WebInit ==
  /\ stored = [selected |-> "bing", keys |-> [p \in Providers |-> NoKey]]
  /\ updates = 0 /\ events = 0 /\ woken = FALSE
  /\ agent = [at |-> "new"] /\ follower = [at |-> "none"]
  /\ current = Unset /\ inUse = Unset /\ missed = FALSE /\ ended = FALSE

Subscribed == agent.at \notin {"new", "failed", "closed"}

(* update_web_search: saved, then published.                               *)
Selected(s, p) == [s EXCEPT !.selected = p]
Entered(s, p, k) == [s EXCEPT !.keys[p] = k]
KeyRemoved(s, p) ==
  [s EXCEPT !.keys[p] = NoKey, !.selected = IF s.selected = p THEN "bing" ELSE s.selected]

UpdateSearch(next) ==
  /\ updates < MaxUpdates /\ updates' = updates + 1
  /\ stored' = next
  /\ events' = IF Subscribed THEN events + 1 ELSE events
  /\ UNCHANGED <<woken, agent, follower, current, inUse, missed, ended>>

Wake ==
  /\ events > 0 /\ events' = events - 1
  /\ woken' = TRUE
  /\ UNCHANGED <<stored, updates, agent, follower, current, inUse, missed, ended>>

(***************************************************************************)
(* activate: subscribe, read, assemble, and keep it unless cancelled.      *)
(***************************************************************************)
SubscribeFirst ==
  /\ agent.at = "new" /\ agent' = [at |-> "reading"]
  /\ UNCHANGED <<stored, updates, events, woken, follower, current, inUse, missed, ended>>

FirstRead ==
  /\ agent.at = "reading" /\ ~ended
  /\ agent' = [at |-> "assembling", config |-> Config(stored)]
  /\ UNCHANGED <<stored, updates, events, woken, follower, current, inUse, missed, ended>>

(* The read was cancelled or failed, a client could not be made, or the    *)
(* service takes no tools: the subscription is closed.                     *)
StartFailed ==
  /\ agent.at \in {"reading", "assembling"}
  /\ agent' = [at |-> "failed"] /\ events' = 0
  /\ UNCHANGED <<stored, updates, woken, follower, current, inUse, missed, ended>>

Assemble ==
  /\ agent.at = "assembling"
  /\ current' = agent.config /\ inUse' = agent.config
  /\ follower' = [at |-> "waits"]
  /\ agent' = [at |-> "assembled"]
  /\ UNCHANGED <<stored, updates, events, woken, missed, ended>>

Activate ==
  /\ agent.at = "assembled"
  /\ IF ended THEN agent' = [at |-> "closing"] /\ events' = 0
              ELSE agent' = [at |-> "active"] /\ UNCHANGED events
  /\ UNCHANGED <<stored, updates, woken, follower, current, inUse, missed, ended>>

(* cancel does not wait; close takes an assembly that is there and waits.  *)
CancelAgent ==
  /\ ~ended /\ ended' = TRUE
  /\ events' = IF agent.at = "active" THEN 0 ELSE events
  /\ UNCHANGED <<stored, updates, woken, agent, follower, current, inUse, missed>>

CloseAgent ==
  /\ agent.at = "active" /\ agent' = [at |-> "closing"]
  /\ ended' = TRUE /\ events' = 0
  /\ UNCHANGED <<stored, updates, woken, follower, current, inUse, missed>>

Closed ==
  /\ agent.at = "closing" /\ follower.at = "none"
  /\ agent' = [at |-> "closed"]
  /\ UNCHANGED <<stored, updates, events, woken, follower, current, inUse, missed, ended>>

(***************************************************************************)
(* The task.                                                               *)
(***************************************************************************)
Follow == UNCHANGED <<stored, updates, events, agent, ended>>

TakeWake ==
  /\ follower.at = "waits" /\ woken /\ ~ended
  /\ woken' = FALSE /\ follower' = [at |-> "reads"]
  /\ UNCHANGED <<current, inUse, missed>> /\ Follow

ReadAgain ==
  /\ follower.at = "reads"
  /\ \/ ~ended /\ follower' = [at |-> "creates", config |-> Config(stored)] /\ UNCHANGED missed
     \/ follower' = [at |-> "waits"] /\ missed' = TRUE
  /\ UNCHANGED <<woken, current, inUse>> /\ Follow

Same(config) == config = current
SameProvider(config) == config.provider = current.provider

Replace ==
  /\ follower.at = "creates"
  /\ \/ /\ Same(follower.config)
        /\ follower' = [at |-> "waits"] /\ missed' = FALSE
        /\ UNCHANGED <<current, inUse>>
     \/ /\ ~Same(follower.config) /\ ~ended
        /\ inUse' = follower.config /\ current' = follower.config
        /\ follower' = [at |-> "waits"] /\ missed' = FALSE
     \/ /\ ~Same(follower.config)
        /\ follower' = [at |-> "waits"] /\ missed' = TRUE
        /\ UNCHANGED <<current, inUse>>
  /\ UNCHANGED woken /\ Follow

Leave ==
  /\ ended /\ follower.at \in {"waits", "creates"}
  /\ follower' = [at |-> "none"]
  /\ UNCHANGED <<woken, current, inUse, missed>> /\ Follow

WebNext ==
  \/ \E p \in Providers \cup {"bing"} : UpdateSearch(Selected(stored, p))
  \/ \E p \in Providers, k \in SearchKeys : UpdateSearch(Entered(stored, p, k))
  \/ \E p \in Providers : UpdateSearch(KeyRemoved(stored, p))
  \/ Wake \/ SubscribeFirst \/ FirstRead \/ StartFailed \/ Assemble \/ Activate
  \/ CancelAgent \/ CloseAgent \/ Closed
  \/ TakeWake \/ ReadAgain \/ Replace \/ Leave

WebSpec == WebInit /\ [][WebNext]_webvars
-----------------------------------------------------------------------------
(* A task with nothing left to do has the provider and the key that the    *)
(* settings name, also when they changed while the agent started; a failed *)
(* refresh is made up for by the next event only.                          *)
Follows ==
  follower.at = "waits" /\ ~woken /\ events = 0 /\ ~missed /\ ~ended
  => inUse = Config(stored)

(* An agent that is closed, or whose start was cancelled or failed, leaves *)
(* no task behind that would go on reading keys.                           *)
NothingBehind == agent.at \in {"closed", "failed"} => follower.at = "none"

(* The search tool follows the settings for as long as the agent lives.    *)
ProviderKept == Follows /\ NothingBehind
=============================================================================
