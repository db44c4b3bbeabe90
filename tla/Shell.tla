--------------------------------- MODULE Shell ---------------------------------
(***************************************************************************)
(* The Bash tool (bash/mod.rs): one command in a process group of its own, *)
(* ended by itself, by cancellation or by its time limit, and then cleaned *)
(* up.  Other processes of the group may outlive the shell, ignore SIGTERM *)
(* or fork until SIGKILL; a process that leaves the group is not counted,  *)
(* but may hold the pipes open.                                            *)
(***************************************************************************)
EXTENDS Naturals

CONSTANT MaxForks    \* bound: processes the command starts beside the shell

VARIABLES
  bash,        \* what execute is at, and in the end its answer
  shell,       \* "none", "runs", "doomed" (sent SIGKILL), "zombie" or "reaped"
  others,      \* other processes of the group that run
  doomed,      \* other processes of the group that were sent SIGKILL
  outsider,    \* a process that left the group holds a pipe
  forks,
  token,       \* the cancellation token is set
  cause,       \* what ended the wait: "cancelled", "timeout", "exit" or none yet
  armed        \* ProcessGroup.armed: there is a group to be killed on drop

shellvars == <<bash, shell, others, doomed, outsider, forks, token, cause, armed>>
processes == <<shell, others, doomed, outsider, forks>>

ShellInit ==
  /\ bash = "called" /\ shell = "none" /\ others = 0 /\ doomed = 0 /\ outsider = FALSE
  /\ forks = 0 /\ token \in BOOLEAN /\ cause = "none" /\ armed = FALSE

GroupExists == shell \in {"runs", "doomed", "zombie"} \/ others + doomed > 0
ZombieOnly == shell = "zombie" /\ others + doomed = 0

(* Bad arguments, a denied command, no sandbox; then a run that stopped.    *)
Refuse ==
  /\ bash = "called" /\ bash' = "unstarted"
  /\ UNCHANGED <<processes, token, cause, armed>>

CheckToken ==
  /\ bash = "called" /\ bash' = IF token THEN "unstarted" ELSE "spawning"
  /\ UNCHANGED <<processes, token, cause, armed>>

Spawn ==
  /\ bash = "spawning"
  /\ \/ bash' = "waiting" /\ shell' = "runs" /\ armed' = TRUE
     \/ bash' = "unstarted" /\ UNCHANGED <<shell, armed>>
  /\ UNCHANGED <<others, doomed, outsider, forks, token, cause>>

(* The first of the three that is ready, in the order of the code.         *)
EndWait ==
  /\ bash = "waiting"
  /\ \/ token /\ cause' = "cancelled" /\ UNCHANGED shell
     \/ ~token /\ cause' = "timeout" /\ UNCHANGED shell
     \/ ~token /\ shell = "zombie" /\ cause' = "exit" /\ shell' = "reaped"
  /\ bash' = "terminating"
  /\ UNCHANGED <<others, doomed, outsider, forks, token, armed>>

(* kill(-pid, signal): nobody there, sent, or refused as it may be when an *)
(* unreaped shell is all there is.  SIGKILL dooms the whole group.         *)
Refused == bash' = "unknown"

Terminate ==
  /\ bash = "terminating"
  /\ \/ ZombieOnly /\ Refused
     \/ bash' = "reaping"
  /\ UNCHANGED <<processes, token, cause, armed>>

Reap ==
  /\ bash = "reaping" /\ bash' = "killing"
  /\ shell' = IF shell = "zombie" THEN "reaped" ELSE shell
  /\ UNCHANGED <<others, doomed, outsider, forks, token, cause, armed>>

KillGroup ==
  /\ shell' = IF shell = "runs" THEN "doomed" ELSE shell
  /\ others' = 0 /\ doomed' = doomed + others

Kill ==
  /\ bash = "killing"
  /\ \/ ZombieOnly /\ Refused /\ UNCHANGED <<shell, others, doomed>>
     \/ bash' = "collecting" /\ KillGroup
  /\ UNCHANGED <<outsider, forks, token, cause, armed>>

Collect ==
  /\ bash = "collecting" /\ shell \in {"zombie", "reaped"}
  /\ bash' = "confirming" /\ shell' = "reaped"
  /\ UNCHANGED <<others, doomed, outsider, forks, token, cause, armed>>

(* Polled until there is no group, for two seconds.                        *)
ConfirmedAtOnce == TRUE
Confirmed == ~GroupExists

Confirm ==
  /\ bash = "confirming"
  /\ \/ Confirmed /\ bash' = "reading" /\ armed' = FALSE
     \/ ~Confirmed /\ bash' = "unknown" /\ UNCHANGED armed
  /\ UNCHANGED <<processes, token, cause>>

(* Both pipes end when nobody holds them; a second is waited for that.     *)
JoinReaders ==
  /\ bash = "reading"
  /\ \/ ~outsider /\ bash' \in {"done", "unknown"}
     \/ outsider /\ bash' = "unknown"
  /\ UNCHANGED <<processes, token, cause, armed>>

(* The future is dropped where it waits, or returns an error: what is      *)
(* armed sends SIGKILL, unless it is refused.                              *)
DropCall ==
  /\ bash \in {"waiting", "terminating", "collecting", "confirming", "reading", "unknown"}
  /\ bash' = "dropped" /\ armed' = FALSE
  /\ IF armed /\ ~ZombieOnly THEN KillGroup ELSE UNCHANGED <<shell, others, doomed>>
  /\ UNCHANGED <<outsider, forks, token, cause>>

SetToken ==
  /\ ~token /\ token' = TRUE
  /\ UNCHANGED <<bash, processes, cause, armed>>

(* The processes: a shell that exits is a zombie until it is waited for.   *)
Exit ==
  /\ \/ shell \in {"runs", "doomed"} /\ shell' = "zombie" /\ UNCHANGED <<others, doomed>>
     \/ others > 0 /\ others' = others - 1 /\ UNCHANGED <<shell, doomed>>
     \/ doomed > 0 /\ doomed' = doomed - 1 /\ UNCHANGED <<shell, others>>
  /\ UNCHANGED <<bash, outsider, forks, token, cause, armed>>

Fork ==
  /\ shell = "runs" \/ others > 0
  /\ forks < MaxForks /\ forks' = forks + 1
  /\ \/ others' = others + 1 /\ UNCHANGED outsider
     \/ outsider' = TRUE /\ UNCHANGED others
  /\ UNCHANGED <<bash, shell, doomed, token, cause, armed>>

LetGo ==
  /\ outsider /\ outsider' = FALSE
  /\ UNCHANGED <<bash, shell, others, doomed, forks, token, cause, armed>>

ShellNext ==
  \/ Refuse \/ CheckToken \/ Spawn \/ EndWait \/ Terminate \/ Reap \/ Kill \/ Collect
  \/ Confirm \/ JoinReaders \/ DropCall \/ SetToken \/ Exit \/ Fork \/ LetGo

ShellSpec == ShellInit /\ [][ShellNext]_shellvars
-----------------------------------------------------------------------------
(* A command that was answered has no process left in its group and all of *)
(* its output was read; one that is said not to have started has not.      *)
AnsweredIsOver ==
  /\ bash = "done" => ~GroupExists /\ shell = "reaped"
  /\ bash = "unstarted" => shell = "none" /\ forks = 0

(* However the call ends - by an error or a caller that went away - nothing *)
(* of the group is left that was not sent SIGKILL.                         *)
NobodyEscapes == bash \in {"done", "dropped"} => others = 0 /\ shell # "runs"

(* What the tool says of a command is true of its processes.               *)
ShellKept == AnsweredIsOver /\ NobodyEscapes
=============================================================================
