------------------------------- MODULE Settings -------------------------------
(* The settings service of xw-storage and its listener in the clipboard    *)
(* service.  A change is applied to the system, saved and published under  *)
(* one lock; the listener subscribes, reads a snapshot, and from then on   *)
(* lets the newest event decide whether the clipboard is monitored.        *)
EXTENDS Integers

CONSTANTS Days,        \* retention periods
          MaxChanges   \* bound: settings changed

VARIABLES saved,       \* the settings in the meta table
          system,      \* the shortcuts and the login item the system really has
          astray,      \* the last attempt to put the system back failed
          update,      \* the change that holds the lock
          published,   \* the last snapshot published
          slot,        \* the newest snapshot on its way to the listener
          watch,       \* the snapshot the listener's channel holds
          fresh,       \* that snapshot was not looked at yet
          life,        \* what start_services, the worker or stop_services is at
          applied,     \* the settings the worker has applied
          monitor,     \* the clipboard is polled
          changes

pvars == <<saved, system, astray, update, published, slot, changes>>
lvars == <<watch, fresh, life, applied, monitor>>
setvars == <<pvars, lvars>>

ASSUME DaysAssumption == Days # {}

None == [step |-> "none"]
Free == [step |-> "free"]

(* What a change may set: shortcuts and autostart are applied outside, the *)
(* rest is not.  A key is a search provider's, removed or entered.         *)
Changes == [key : {"system"}, to : {"s0", "s1"}]
    \cup [key : {"enabled"}, to : BOOLEAN]
    \cup [key : {"days"}, to : Days]
    \cup [key : {"search"}, to : {"bing", "tavily"}]
    \cup [key : {"searchKey"}, to : BOOLEAN]

Defaults == [system |-> "s0", enabled |-> TRUE, days |-> CHOOSE d \in Days : TRUE,
             search |-> "bing", searchKey |-> FALSE]

(* Removing the key of the selected provider selects the built-in one.     *)
Changed(s, change) ==
  IF change = [key |-> "searchKey", to |-> FALSE]
  THEN [s EXCEPT !.searchKey = FALSE, !.search = "bing"]
  ELSE [s EXCEPT ![change.key] = change.to]

IsSearch(change) == change.key \in {"search", "searchKey"}

SettingsInit ==
  /\ saved = Defaults /\ system = Defaults.system /\ astray = FALSE
  /\ update = Free /\ published = None /\ slot = None /\ changes = 0
  /\ watch = None /\ fresh = FALSE /\ life = [step |-> "new"]
  /\ applied = Defaults /\ monitor = FALSE

(***************************************************************************)
(* A change.                                                               *)
(***************************************************************************)
Unlocked == update.step = "free"

Update(change) ==
  /\ Unlocked /\ changes < MaxChanges
  /\ changes' = changes + 1
  /\ update' = [step |-> IF IsSearch(change) THEN "save" ELSE "apply",
                change |-> change, previous |-> saved, next |-> Changed(saved, change)]
  /\ UNCHANGED <<saved, system, astray, published, slot, lvars>>

(* The call into the host is made only when the part it owns differs.      *)
NeedsApply == update.previous.system # update.next.system

Apply ==
  /\ update.step = "apply"
  /\ update' = [update EXCEPT !.step = "save"]
  /\ IF NeedsApply THEN system' = update.next.system /\ astray' = FALSE
                   ELSE UNCHANGED <<system, astray>>
  /\ UNCHANGED <<saved, published, slot, changes, lvars>>

(* It failed, or its caller was gone: the host may have done it all the same. *)
ApplyFails ==
  /\ update.step = "apply" /\ NeedsApply
  /\ system' \in {system, update.next.system}
  /\ update' = [update EXCEPT !.step = "undo"]
  /\ UNCHANGED <<saved, astray, published, slot, changes, lvars>>

Listening == life.step \notin {"new", "closed"}

(* The row is committed and the event published before the lock is let go. *)
Save ==
  /\ update.step = "save"
  /\ saved' = Changed(saved, update.change)
  /\ published' = update.next
  /\ slot' = IF Listening THEN update.next ELSE slot
  /\ update' = Free
  /\ UNCHANGED <<system, astray, changes, lvars>>

(* A search setting has nothing to undo.                                   *)
SaveFails ==
  /\ update.step = "save"
  /\ update' = IF IsSearch(update.change) THEN Free ELSE [update EXCEPT !.step = "undo"]
  /\ UNCHANGED <<saved, system, astray, published, slot, changes, lvars>>

Undo ==
  /\ update.step = "undo"
  /\ IF NeedsApply THEN system' = update.previous.system /\ astray' = FALSE
                   ELSE UNCHANGED <<system, astray>>
  /\ update' = Free
  /\ UNCHANGED <<saved, published, slot, changes, lvars>>

UndoFails ==
  /\ update.step = "undo" /\ NeedsApply
  /\ system' \in {system, update.previous.system}
  /\ astray' = TRUE /\ update' = Free
  /\ UNCHANGED <<saved, published, slot, changes, lvars>>

(***************************************************************************)
(* The listener: start_services, its worker, stop_services.                *)
(***************************************************************************)
Subscribe ==
  /\ life.step = "new" /\ life' = [step |-> "get"]
  /\ UNCHANGED <<pvars, watch, fresh, applied, monitor>>

DeliverChange ==
  /\ Listening /\ slot # None
  /\ watch' = slot /\ fresh' = TRUE /\ slot' = None
  /\ UNCHANGED <<saved, system, astray, update, published, changes, life, applied, monitor>>

(* GET waits for the lock; when it fails, the subscription is closed.      *)
GetSnapshot ==
  /\ life.step = "get" /\ Unlocked
  /\ life' = [step |-> "adopt", snapshot |-> saved]
  /\ UNCHANGED <<pvars, watch, fresh, applied, monitor>>

StartFails ==
  /\ life.step = "get"
  /\ life' = [step |-> "new"] /\ slot' = None /\ watch' = None /\ fresh' = FALSE
  /\ UNCHANGED <<saved, system, astray, update, published, changes, applied, monitor>>

(* An event that came in meanwhile is newer than the snapshot.             *)
SnapshotOnly == life.snapshot
Adopted == IF watch # None THEN watch ELSE life.snapshot

Adopt ==
  /\ life.step = "adopt"
  /\ applied' = Adopted /\ fresh' = FALSE
  /\ monitor' = Adopted.enabled
  /\ life' = [step |-> "loop"]
  /\ UNCHANGED <<pvars, watch>>

Notice ==
  /\ life.step = "loop" /\ fresh
  /\ life' = [step |-> "switch", next |-> watch] /\ fresh' = FALSE
  /\ UNCHANGED <<pvars, watch, applied, monitor>>

(* Only a difference with what was applied before is acted upon.           *)
Switch ==
  /\ life.step = "switch"
  /\ monitor' = IF life.next.enabled # applied.enabled THEN life.next.enabled ELSE monitor
  /\ life' = [life EXCEPT !.step = "retain"]
  /\ UNCHANGED <<pvars, watch, fresh, applied>>

Retain ==
  /\ life.step = "retain"
  /\ applied' = life.next /\ life' = [step |-> "loop"]
  /\ UNCHANGED <<pvars, watch, fresh, monitor>>

(* A worker that is at work sees the stop when it is back in its loop.     *)
StopServices ==
  /\ life.step \in {"new", "loop"}
  /\ life' = [step |-> "closed"] /\ monitor' = FALSE
  /\ slot' = None /\ watch' = None /\ fresh' = FALSE
  /\ UNCHANGED <<saved, system, astray, update, published, changes, applied>>

SettingsNext ==
  \/ \E change \in Changes : Update(change)
  \/ Apply \/ ApplyFails \/ Save \/ SaveFails \/ Undo \/ UndoFails
  \/ Subscribe \/ DeliverChange \/ GetSnapshot \/ StartFails \/ Adopt
  \/ Notice \/ Switch \/ Retain \/ StopServices

SettingsSpec == SettingsInit /\ [][SettingsNext]_setvars

(***************************************************************************)
(* Properties.                                                             *)
(***************************************************************************)
(* Whatever failed on the way, once no change is under way the system has  *)
(* what is saved, unless the change ended with the report that putting it  *)
(* back failed.                                                            *)
SystemIsSaved == Unlocked /\ ~astray => system = saved.system

(* The last event is what a reader would now get: events leave in the      *)
(* order of the saves, each with every other setting as it was saved.      *)
PublishedIsSaved == Unlocked /\ published # None => published = saved

(* A change made at any moment of the start reaches the worker: when it    *)
(* rests, the clipboard is monitored as the settings now say.              *)
MonitorFollows ==
  life.step = "loop" /\ ~fresh /\ slot = None /\ Unlocked => monitor = saved.enabled

(* No late event turns monitoring on again after stop_services.            *)
StoppedStays == life.step = "closed" => ~monitor

SettingsKept == SystemIsSaved /\ PublishedIsSaved /\ MonitorFollows /\ StoppedStays
=============================================================================
