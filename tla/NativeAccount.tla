----------------------------- MODULE NativeAccount -----------------------------
(* The account service the native addon gives the desktop's main process:  *)
(* operations that the host starts, continues after each checkpoint, and   *)
(* cancels, reads and releases when it gives up; requests that carry the   *)
(* account they were issued under; and the service's end.  What an         *)
(* operation does on the network is in Account: here it is the pairs it    *)
(* rotates.                                                                *)
EXTENDS Integers, FiniteSets

CONSTANTS Operations,     \* operation ids, each used once
          Requests,       \* transport tokens, each used once
          Accounts,       \* accounts a request may be issued under
          MaxOperations,  \* bound of the code: operations at a time
          MaxRotations    \* bound: pairs an operation may rotate

VARIABLES host,      \* execute: where the host is with the operation
          aborted,   \* the operations whose signal was aborted
          offered,   \* the pair the host was last given
          operations,\* Service::operations
          task,      \* the future that drives the operation's core
          core,      \* the operation's core
          closing,   \* Service::close
          account,   \* Service::current_context
          requests,  \* Service::requests
          request,   \* the life of a request
          heard      \* history: operations that called out after their abort

navars == <<host, aborted, offered, operations, task, core, closing>>
reqvars == <<account, requests, request>>
nativevars == <<navars, reqvars, heard>>

NoAccount == "none"
NoAnswer == [code |-> "none", pair |-> 0, checkpoint |-> FALSE]

NativeInit ==
  /\ host = [o \in Operations |-> "idle"] /\ aborted = {} /\ offered = [o \in Operations |-> 0]
  /\ operations = {} /\ task = [o \in Operations |-> [at |-> "none", answer |-> NoAnswer]]
  /\ core = [o \in Operations |-> [cancel |-> FALSE, stopped |-> FALSE, pair |-> 0]]
  /\ closing = [at |-> "open"] /\ heard = {}
  /\ account = NoAccount /\ requests = [t \in Requests |-> NoAccount]
  /\ request = [t \in Requests |-> [at |-> "idle"]]

Ended == closing.at # "open"

(***************************************************************************)
(* The operation's future.                                                 *)
(***************************************************************************)
Returned(o, answer) == [task EXCEPT ![o] = [at |-> "returned", answer |-> answer]]
Answer(o, code, pair, more) ==
  Returned(o, [code |-> code, pair |-> pair, checkpoint |-> more /\ code = "ok"])

(* start and resume: a core that was closed begins nothing, and resume of  *)
(* a cancelled operation answers with what the core has.  The future looks *)
(* at the service's end before it is driven.                               *)
BeginTask(o) ==
  /\ task[o].at \in {"spawned", "resumed"} /\ (Ended => core[o].cancel)
  /\ IF core[o].stopped \/ (task[o].at = "resumed" /\ core[o].cancel)
     THEN task' = Answer(o, "cancelled", core[o].pair, FALSE)
     ELSE task' = [task EXCEPT ![o].at = "driving"]
  /\ UNCHANGED <<host, aborted, offered, operations, core, closing, reqvars, heard>>

(* Each phase looks at the target and at the token before it calls out.    *)
EnterPhase(o) ==
  /\ task[o].at = "driving"
  /\ IF core[o].stopped
     THEN task' = Answer(o, "cancelled", 0, FALSE) /\ UNCHANGED heard
     ELSE IF core[o].cancel
     THEN task' = Answer(o, "cancelled", core[o].pair, FALSE) /\ UNCHANGED heard
     ELSE /\ task' = [task EXCEPT ![o].at = "calling"]
          /\ heard' = IF o \in aborted /\ ~Ended THEN heard \cup {o} ELSE heard
  /\ UNCHANGED <<host, aborted, offered, operations, core, closing, reqvars>>

(* The answer: an error, nothing new, or a new pair; with more to come a   *)
(* new pair is a checkpoint, anything else goes on to the next phase.      *)
Reply(o, error, rotated, more) ==
  /\ task[o].at = "calling" /\ (rotated => core[o].pair < MaxRotations)
  /\ LET pair == core[o].pair + (IF rotated THEN 1 ELSE 0)
         code == IF core[o].cancel \/ core[o].stopped THEN "cancelled"
                 ELSE IF error THEN "error" ELSE "ok"
     IN /\ core' = [core EXCEPT ![o].pair = pair]
        /\ task' = IF more /\ code = "ok" /\ ~rotated THEN [task EXCEPT ![o].at = "driving"]
                   ELSE Answer(o, code, pair, more)
  /\ UNCHANGED <<host, aborted, offered, operations, closing, reqvars, heard>>

(* Whenever it is polled, it cancels its operation when the service ends.  *)
SeeClosed(o) ==
  /\ Ended /\ task[o].at \in {"spawned", "resumed", "driving", "calling"} /\ ~core[o].cancel
  /\ core' = [core EXCEPT ![o].cancel = TRUE]
  /\ UNCHANGED <<host, aborted, offered, operations, task, closing, reqvars, heard>>

(***************************************************************************)
(* The host: execute.                                                      *)
(***************************************************************************)
(* The operation is in the map, with its token, before a task is spawned.  *)
Available == closing.at = "open" /\ Cardinality(operations) < MaxOperations

Execute(o) ==
  /\ host[o] = "idle"
  /\ IF o \notin aborted /\ Available
     THEN /\ operations' = operations \cup {o} /\ host' = [host EXCEPT ![o] = "awaits"]
          /\ task' = [task EXCEPT ![o].at = "spawned"]
     ELSE host' = [host EXCEPT ![o] = "ended"] /\ UNCHANGED <<operations, task>>
  /\ UNCHANGED <<aborted, offered, core, closing, reqvars, heard>>

CancelledOnceBegun(o) == o \in operations /\ task[o].at # "spawned"
Cancels(o) == o \in operations
Cancelled(o) == IF Cancels(o) THEN [core EXCEPT ![o].cancel = TRUE] ELSE core

Abort(o) ==
  /\ o \notin aborted /\ host[o] # "ended" /\ aborted' = aborted \cup {o}
  /\ core' = Cancelled(o)
  /\ UNCHANGED <<host, offered, operations, task, closing, reqvars, heard>>

(* A pair is given to the host's accept before the code is looked at, once. *)
Offers(answer) == answer.pair

Consume(o) ==
  /\ host[o] = "awaits" /\ task[o].at = "returned"
  /\ offered' = [offered EXCEPT ![o] = IF Offers(task[o].answer) # 0 THEN Offers(task[o].answer) ELSE @]
  /\ host' = [host EXCEPT ![o] = "accepts"]
  /\ UNCHANGED <<aborted, operations, task, core, closing, reqvars, heard>>

(* accept may fail; on any failure the operation is stopped and read.      *)
Goes(o, accepted) == accepted /\ task[o].answer.code = "ok" /\ o \notin aborted

Accept(o, accepted) ==
  /\ host[o] = "accepts"
  /\ IF Goes(o, accepted) /\ ~task[o].answer.checkpoint
     THEN host' = [host EXCEPT ![o] = "releases"] /\ UNCHANGED <<task, core>>
     ELSE IF Goes(o, accepted) /\ o \in operations
     THEN /\ host' = [host EXCEPT ![o] = "awaits"] /\ UNCHANGED core
          /\ task' = [task EXCEPT ![o].at = "resumed"]
     ELSE /\ host' = [host EXCEPT ![o] = IF o \in operations THEN "reads" ELSE "releases"]
          /\ core' = Cancelled(o) /\ UNCHANGED task
  /\ UNCHANGED <<aborted, offered, operations, closing, reqvars, heard>>

(* A paused operation that was cancelled ends here; its pair is read.      *)
ReadResult(o) ==
  /\ host[o] = "reads"
  /\ offered' = [offered EXCEPT ![o] = IF core[o].pair # 0 THEN core[o].pair ELSE @]
  /\ host' = [host EXCEPT ![o] = "releases"]
  /\ UNCHANGED <<aborted, operations, task, core, closing, reqvars, heard>>

Release(o) ==
  /\ host[o] = "releases"
  /\ operations' = operations \ {o} /\ core' = Cancelled(o)
  /\ host' = [host EXCEPT ![o] = "ended"]
  /\ UNCHANGED <<aborted, offered, task, closing, reqvars, heard>>

(***************************************************************************)
(* The end of the service: each operation that is left is stopped and      *)
(* waited for, one after the other.                                        *)
(***************************************************************************)
CloseService ==
  /\ closing.at = "open" /\ closing' = [at |-> "closed"]
  /\ UNCHANGED <<host, aborted, offered, operations, task, core, reqvars, heard>>

TakeOperations ==
  /\ closing.at = "closed"
  /\ closing' = [at |-> "drain", left |-> operations] /\ operations' = {}
  /\ UNCHANGED <<host, aborted, offered, task, core, reqvars, heard>>

CloseCore(o) ==
  /\ closing.at = "drain" /\ o \in closing.left /\ \A x \in closing.left : ~core[x].stopped
  /\ core' = [core EXCEPT ![o].stopped = TRUE, ![o].cancel = TRUE]
  /\ UNCHANGED <<host, aborted, offered, operations, task, closing, reqvars, heard>>

CoreClosed(o) ==
  /\ closing.at = "drain" /\ o \in closing.left /\ core[o].stopped
  /\ task[o].at \notin {"driving", "calling"}
  /\ closing' = [closing EXCEPT !.left = @ \ {o}]
  /\ UNCHANGED <<host, aborted, offered, operations, task, core, reqvars, heard>>

ClearRequests ==
  /\ closing.at = "drain" /\ closing.left = {}
  /\ closing' = [at |-> "clear"]
  /\ requests' = [t \in Requests |-> NoAccount]
  /\ UNCHANGED <<host, aborted, offered, operations, task, core, account, request, heard>>

ServiceEnds ==
  /\ closing.at = "clear" /\ closing' = [at |-> "done"] /\ account' = NoAccount
  /\ UNCHANGED <<host, aborted, offered, operations, task, core, requests, request, heard>>

(***************************************************************************)
(* Requests: rpc_control, then the handler.                                *)
(***************************************************************************)
SetSession(a) ==
  /\ a # account /\ account' = a
  /\ UNCHANGED <<navars, requests, request, heard>>

PrepareRequest(t, a) ==
  /\ request[t].at = "idle"
  /\ requests' = [requests EXCEPT ![t] = a]
  /\ request' = [request EXCEPT ![t] = [at |-> "prepared", under |-> a]]
  /\ UNCHANGED <<navars, account, heard>>

ApiContext(t) == IF requests[t] # NoAccount THEN requests[t] ELSE account

ReadContext(t) ==
  /\ request[t].at = "prepared"
  /\ request' = [request EXCEPT ![t] = [at |-> "ready", under |-> @.under, as |-> ApiContext(t)]]
  /\ UNCHANGED <<navars, account, requests, heard>>

(* The service's end is looked at before the work is.                      *)
SendRequest(t) ==
  /\ request[t].at = "ready"
  /\ request' = [request EXCEPT ![t].at = IF Ended THEN "answered" ELSE "sent"]
  /\ UNCHANGED <<navars, account, requests, heard>>

(* It is answered, or its caller goes away: its context goes with it.      *)
DropLease(t) ==
  /\ request[t].at \in {"prepared", "sent", "answered"}
  /\ request' = [request EXCEPT ![t] = [at |-> "over"]]
  /\ requests' = [requests EXCEPT ![t] = NoAccount]
  /\ UNCHANGED <<navars, account, heard>>

CloseNext == CloseService \/ TakeOperations \/ ClearRequests \/ ServiceEnds

OperationsNext ==
  \/ \E o \in Operations :
       \/ BeginTask(o) \/ EnterPhase(o) \/ SeeClosed(o) \/ Execute(o) \/ Abort(o) \/ Consume(o)
       \/ Reply(o, TRUE, FALSE, FALSE)
       \/ \E rotated, more \in BOOLEAN : Reply(o, FALSE, rotated, more)
       \/ \E accepted \in BOOLEAN : Accept(o, accepted)
       \/ ReadResult(o) \/ Release(o) \/ CloseCore(o) \/ CoreClosed(o)
  \/ CloseNext

RequestsNext ==
  \/ \E a \in Accounts : SetSession(a)
  \/ \E t \in Requests :
       \/ \E a \in Accounts \cup {NoAccount} : PrepareRequest(t, a)
       \/ ReadContext(t) \/ SendRequest(t) \/ DropLease(t)
  \/ CloseNext

NativeSpec == NativeInit /\ [][OperationsNext \/ RequestsNext]_nativevars

(***************************************************************************)
(* Properties.                                                             *)
(***************************************************************************)
(* However an execution ends, its host was given the last pair that was    *)
(* rotated for it, and the service keeps nothing of it.                    *)
PairsDelivered ==
  \A o \in Operations : host[o] = "ended" => offered[o] = core[o].pair /\ o \notin operations

(* A signal that is aborted, however early, lets no network action begin:  *)
(* when the service ends meanwhile, its end stops the operation.           *)
AbortHolds == heard = {}

(* When close has returned, no operation is or goes to work.               *)
QuietWhenClosed ==
  closing.at \in {"clear", "done"} =>
    operations = {} /\ \A o \in Operations : task[o].at \notin {"driving", "calling"}

(* A request that was issued under an account is sent as no other, though  *)
(* the host changes its own or the service ends meanwhile.                 *)
OwnAccount ==
  \A t \in Requests : request[t].at = "sent" /\ request[t].under # NoAccount =>
    request[t].as = request[t].under

NativeKept == PairsDelivered /\ AbortHolds /\ QuietWhenClosed /\ OwnAccount
=============================================================================
