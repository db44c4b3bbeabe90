---------------------------- MODULE DesktopProofs ----------------------------
(***************************************************************************)
(* Proofs about the desktop host: the settings and the listener they       *)
(* reach, the clipboard history, the account service behind the native     *)
(* process, the commands it runs for an agent, and the indexes of the      *)
(* launcher.                                                               *)
(***************************************************************************)
EXTENDS Settings, Clipboard, NativeAccount, Shell, Launcher, FiniteSetTheorems, TLAPS

(***************************************************************************)
(* Settings (desktop settings and the clipboard's worker).                 *)
(***************************************************************************)

(* What the settings range over.                                           *)
SettingsOf ==
  [system : {"s0", "s1"}, enabled : BOOLEAN, days : Days, search : {"bing", "tavily"},
   searchKey : BOOLEAN]

(* What the variables range over.                                          *)
SettingsTypes ==
  /\ saved \in SettingsOf /\ applied \in SettingsOf
  /\ published \in SettingsOf \cup {None}
  /\ slot \in SettingsOf \cup {None} /\ watch \in SettingsOf \cup {None}
  /\ astray \in BOOLEAN /\ fresh \in BOOLEAN /\ monitor \in BOOLEAN
  /\ update \in {Free} \cup [step : {"apply", "save", "undo"}, change : Changes,
                             previous : SettingsOf, next : SettingsOf]
  /\ life \in [step : {"new", "get", "loop", "closed"}]
              \cup [step : {"adopt"}, snapshot : SettingsOf]
              \cup [step : {"switch", "retain"}, next : SettingsOf]

(* The lock's holder works on what is saved, and nobody else saves.        *)
LockHolds ==
  update.step # "free" => update.previous = saved /\ update.next = Changed(saved, update.change)

(* What a step of the change left the system with.                         *)
SystemFollows ==
  ~astray =>
    /\ Unlocked => system = saved.system
    /\ update.step = "apply" => system = saved.system
    /\ update.step = "save" => system = update.next.system
    /\ update.step = "undo" /\ ~NeedsApply => system = saved.system

(* The newest event of a listener is the last save since it subscribed.    *)
EventsFollow ==
  /\ published # None => published = saved
  /\ slot # None => slot = saved
  /\ slot = None /\ watch # None => watch = saved
  /\ ~Listening => slot = None /\ watch = None
  /\ fresh => watch # None

(* What the worker goes by, when no newer event is on its way to it.       *)
WorkerFollows ==
  slot = None =>
    /\ life.step = "adopt" /\ watch = None => life.snapshot = saved
    /\ life.step = "loop" /\ ~fresh => applied = saved
    /\ life.step \in {"switch", "retain"} /\ ~fresh => life.next = saved

(* The monitor is switched by the settings the worker adopted, and off     *)
(* once it has stopped.                                                    *)
MonitorIsSwitched ==
  /\ life.step \in {"loop", "switch"} => monitor = applied.enabled
  /\ life.step = "retain" => monitor = life.next.enabled
  /\ life.step = "closed" => monitor = FALSE

(* The inductive invariant: SettingsKept, and what the holder of the lock  *)
(* and the listener know that makes every step preserve it.                *)
SettingsInv ==
  SettingsTypes /\ LockHolds /\ SystemFollows /\ EventsFollow /\ WorkerFollows /\ MonitorIsSwitched

(* No event is no settings.                                                *)
LEMMA NoneIsNoSettings == \A s \in SettingsOf : s # None
BY DEF SettingsOf, None

(* The defaults are settings.                                              *)
LEMMA DefaultsAreSettings == Defaults \in SettingsOf
<1>1. (CHOOSE d \in Days : TRUE) \in Days BY DaysAssumption
<1> QED BY <1>1 DEF Defaults, SettingsOf

(* A change leaves the settings settings, and one of search leaves alone   *)
(* what the system was given.                                              *)
LEMMA ChangedIsSettings ==
  ASSUME NEW s \in SettingsOf, NEW change \in Changes
  PROVE  /\ Changed(s, change) \in SettingsOf
         /\ IsSearch(change) => Changed(s, change).system = s.system
<1> USE DEF SettingsOf, Changed, IsSearch
<1>1. CASE change \in [key : {"system"}, to : {"s0", "s1"}] BY <1>1
<1>2. CASE change \in [key : {"enabled"}, to : BOOLEAN] BY <1>2
<1>3. CASE change \in [key : {"days"}, to : Days] BY <1>3
<1>4. CASE change \in [key : {"search"}, to : {"bing", "tavily"}] BY <1>4
<1>5. CASE change \in [key : {"searchKey"}, to : BOOLEAN] BY <1>5
<1> QED BY <1>1, <1>2, <1>3, <1>4, <1>5 DEF Changes

(* A fresh start satisfies the invariant.                                  *)
LEMMA SettingsStart == SettingsInit => SettingsInv
<1> SUFFICES ASSUME SettingsInit PROVE SettingsInv OBVIOUS
<1> USE DEF SettingsInit
<1>1. SettingsTypes BY DefaultsAreSettings DEF SettingsTypes
<1>2. LockHolds /\ SystemFollows BY DEF LockHolds, SystemFollows, Unlocked, Free
<1>3. EventsFollow /\ WorkerFollows /\ MonitorIsSwitched
  BY DEF EventsFollow, WorkerFollows, MonitorIsSwitched, Listening
<1> QED BY <1>1, <1>2, <1>3 DEF SettingsInv

(* A change begins: its next settings are settings.                        *)
LEMMA UpdateKeeps ==
  ASSUME SettingsInv, NEW change \in Changes, Update(change)
  PROVE  SettingsInv'
<1> USE DEF SettingsInv, Update, Unlocked, pvars, lvars
<1>1. SettingsTypes' BY ChangedIsSettings DEF SettingsTypes
<1>2. LockHolds' BY DEF LockHolds
<1>3. SystemFollows' BY ChangedIsSettings DEF SystemFollows, SettingsTypes
<1>4. (EventsFollow /\ WorkerFollows /\ MonitorIsSwitched)'
  BY DEF EventsFollow, WorkerFollows, MonitorIsSwitched, Listening
<1> QED BY <1>1, <1>2, <1>3, <1>4

(* The other steps of a change that save nothing.                          *)
LEMMA HolderKeeps ==
  ASSUME SettingsInv, Apply \/ ApplyFails \/ SaveFails \/ Undo \/ UndoFails
  PROVE  SettingsInv'
<1> USE DEF SettingsInv, pvars, lvars
<1>1. /\ update \in [step : {"apply", "save", "undo"}, change : Changes,
                      previous : SettingsOf, next : SettingsOf]
      /\ update.step # "free"
  BY DEF Apply, ApplyFails, SaveFails, Undo, UndoFails, SettingsTypes, Free
<1>2. \/ update' = Free
      \/ \E s \in {"save", "undo"} :
           update' = [step |-> s, change |-> update.change,
                      previous |-> update.previous, next |-> update.next]
  BY <1>1 DEF Apply, ApplyFails, SaveFails, Undo, UndoFails
<1>3. (SettingsTypes /\ LockHolds)'
  <2>1. UNCHANGED <<saved, published, slot, watch, life, applied, fresh, monitor>> /\ astray' \in BOOLEAN
    BY DEF Apply, ApplyFails, SaveFails, Undo, UndoFails, SettingsTypes
  <2>2. update' \in {Free} \cup [step : {"apply", "save", "undo"}, change : Changes,
                                previous : SettingsOf, next : SettingsOf]
    BY <1>1, <1>2
  <2>3. LockHolds' BY <1>1, <1>2, <2>1 DEF LockHolds, Free
  <2> QED BY <2>1, <2>2, <2>3 DEF SettingsTypes
<1>4. SystemFollows'
  <2> USE DEF SettingsTypes, LockHolds, SystemFollows, Unlocked, NeedsApply, Free
  <2>1. CASE Apply BY <2>1 DEF Apply
  <2>2. CASE ApplyFails BY <2>2 DEF ApplyFails
  <2>3. CASE SaveFails BY <2>3, ChangedIsSettings DEF SaveFails
  <2>4. CASE Undo BY <2>4 DEF Undo
  <2>5. CASE UndoFails BY <2>5 DEF UndoFails
  <2> QED BY <2>1, <2>2, <2>3, <2>4, <2>5
<1>5. UNCHANGED <<saved, published, slot, lvars>>
  BY DEF Apply, ApplyFails, SaveFails, Undo, UndoFails
<1>6. (EventsFollow /\ WorkerFollows /\ MonitorIsSwitched)'
  BY <1>5 DEF EventsFollow, WorkerFollows, MonitorIsSwitched, Listening
<1> QED BY <1>3, <1>4, <1>6

(* The save publishes what it saves, to a listener that is there.          *)
LEMMA SaveKeeps ==
  ASSUME SettingsInv, Save
  PROVE  SettingsInv'
<1> USE DEF SettingsInv, Save, pvars, lvars
<1>1. update.step = "save" /\ update # Free BY DEF Free
<1>2. update.next \in SettingsOf /\ update.next = Changed(saved, update.change)
  BY <1>1 DEF SettingsTypes, LockHolds
<1>3. saved' = update.next /\ published' = saved' BY <1>2
<1>4. update.next # None BY <1>2, NoneIsNoSettings
<1>5. Listening => slot' = saved' BY <1>3
<1>6. ~Listening => slot' = None /\ watch' = None BY DEF EventsFollow
<1>7. (SettingsTypes /\ LockHolds)' BY <1>2, <1>3 DEF SettingsTypes, LockHolds, Free
<1>8. SystemFollows' BY <1>1, <1>3 DEF SystemFollows, Unlocked, Free
<1>9. EventsFollow' BY <1>3, <1>4, <1>5, <1>6 DEF EventsFollow, Listening
<1>10. WorkerFollows' BY <1>3, <1>4, <1>5, <1>6 DEF WorkerFollows, Listening, SettingsTypes
<1>11. MonitorIsSwitched' BY DEF MonitorIsSwitched
<1> QED BY <1>7, <1>8, <1>9, <1>10, <1>11

(* The listener's steps, which leave the change and the settings alone.    *)
LEMMA ListenerKeeps ==
  ASSUME SettingsInv,
         \/ Subscribe \/ DeliverChange \/ GetSnapshot \/ StartFails \/ Adopt
         \/ Notice \/ Switch \/ Retain \/ StopServices
  PROVE  SettingsInv'
<1> USE DEF SettingsInv, pvars, lvars, SettingsTypes, EventsFollow, WorkerFollows, MonitorIsSwitched,
            Listening
<1>1. UNCHANGED <<saved, system, astray, update, published>>
  BY DEF Subscribe, DeliverChange, GetSnapshot, StartFails, Adopt, Notice, Switch, Retain, StopServices
<1>2. (LockHolds /\ SystemFollows)' BY <1>1 DEF LockHolds, SystemFollows, Unlocked, NeedsApply
<1>3. (SettingsTypes /\ EventsFollow /\ WorkerFollows /\ MonitorIsSwitched)'
  <2>1. CASE Subscribe BY <2>1 DEF Subscribe
  <2>2. CASE DeliverChange BY <2>2 DEF DeliverChange
  <2>3. CASE GetSnapshot BY <2>3 DEF GetSnapshot
  <2>4. CASE StartFails BY <2>4 DEF StartFails
  <2>5. CASE Adopt
    <3>1. life \in [step : {"adopt"}, snapshot : SettingsOf] BY <2>5 DEF Adopt
    <3>2. Adopted \in SettingsOf BY <3>1 DEF Adopted
    <3>3. Adopted.enabled \in BOOLEAN BY <3>2 DEF SettingsOf
    <3>4. SettingsTypes' BY <2>5, <3>2, <3>3 DEF Adopt
    <3>5. slot = None => Adopted = saved BY <2>5 DEF Adopt, Adopted
    <3>6. (EventsFollow /\ WorkerFollows /\ MonitorIsSwitched)' BY <2>5, <3>5 DEF Adopt
    <3> QED BY <3>4, <3>6
  <2>6. CASE Notice BY <2>6 DEF Notice
  <2>7. CASE Switch
    <3>1. life \in [step : {"switch"}, next : SettingsOf] BY <2>7 DEF Switch
    <3>2. life' = [step |-> "retain", next |-> life.next] BY <2>7, <3>1 DEF Switch
    <3>3. life.next \in SettingsOf BY <3>1
    <3>4. monitor' = life.next.enabled BY <2>7 DEF Switch
    <3>5. life'.step = "retain" /\ life'.next = life.next BY <3>2
    <3>6. MonitorIsSwitched' BY <3>4, <3>5
    <3>7. WorkerFollows' BY <2>7, <3>5 DEF Switch
    <3>8. EventsFollow' BY <2>7, <3>5 DEF Switch
    <3>9. SettingsTypes' BY <2>7, <3>1, <3>2, <3>3, <3>4 DEF Switch, SettingsOf
    <3> QED BY <3>6, <3>7, <3>8, <3>9
  <2>8. CASE Retain BY <2>8 DEF Retain
  <2>9. CASE StopServices BY <2>9 DEF StopServices
  <2> QED BY <2>1, <2>2, <2>3, <2>4, <2>5, <2>6, <2>7, <2>8, <2>9
<1> QED BY <1>2, <1>3

(* What is stated of the settings follows from the invariant.              *)
LEMMA SettingsMeans == SettingsInv => SettingsKept
BY DEF SettingsInv, SystemFollows, EventsFollow, WorkerFollows, MonitorIsSwitched, SettingsKept,
       SystemIsSaved, PublishedIsSaved, MonitorFollows, StoppedStays

(* What is saved is what the system and the listener have been given, and  *)
(* the monitor follows it: SettingsKept in every reachable state, whatever *)
(* the changes, the ranges of the settings and the order of the failures.  *)
THEOREM SettingsReachTheListener == SettingsSpec => []SettingsKept
<1>1. SettingsInit => SettingsInv BY SettingsStart
<1>2. SettingsInv /\ [SettingsNext]_setvars => SettingsInv'
  <2> SUFFICES ASSUME SettingsInv, [SettingsNext]_setvars PROVE SettingsInv' OBVIOUS
  <2>1. CASE SettingsNext BY <2>1, UpdateKeeps, HolderKeeps, SaveKeeps, ListenerKeeps DEF SettingsNext
  <2>2. CASE UNCHANGED setvars
    BY <2>2 DEF setvars, pvars, lvars, SettingsInv, SettingsTypes, LockHolds, SystemFollows, EventsFollow,
                WorkerFollows, MonitorIsSwitched, Unlocked, NeedsApply, Listening
  <2> QED BY <2>1, <2>2
<1>3. SettingsInv => SettingsKept BY SettingsMeans
<1> QED BY <1>1, <1>2, <1>3, PTL DEF SettingsSpec

(***************************************************************************)
(* Clipboard: the history.                                                 *)
(***************************************************************************)

(* A row, and the calls that may hold the lock at one of their steps.      *)
Row == [at : Nat, changed : Nat, favorite : BOOLEAN, noted : BOOLEAN]

(* What may hold the lock, by the step it is at.                           *)
Reading == [kind : {"poll"}, step : {"read"}, n : Nat]
Polling == [kind : {"poll"}, step : {"check", "file", "row"}, n : Nat, c : Contents \cup {Empty}]
Adding == [kind : {"add"}, step : {"file", "row"}, c : Texts]
Copying == [kind : {"copy"}, step : {"write"}, c : Contents]
Copied == [kind : {"copy"}, step : {"touch"}, c : Contents, n : Nat]
Editing == [kind : {"edit"}, step : {"file", "row"}, from : Texts, c : Texts]
Sweeping == [kind : {"purge", "clear"}, step : {"batch"}, cutoff : Nat, count : Nat]
Swept == [kind : {"purge", "clear"}, step : {"clean"}, cutoff : Nat, count : Nat,
          left : SUBSET Contents, more : BOOLEAN]
Cleaning == [kind : {"edit", "delete"}, step : {"clean"}, left : SUBSET Contents,
             more : {FALSE}, count : {1}]

(* What the pasteboard, the rows and the memory of the poll range over.    *)
ClipTypes ==
  /\ board \in [n : Nat \ {0}, c : Contents \cup {Empty}]
  /\ rows \in [Contents -> Row \cup {Gone}]
  /\ IsFiniteSet(Present)
  /\ seen \in Nat /\ last \in Contents \cup {Empty} /\ ours \in Nat /\ taken \subseteq Nat
  /\ now \in Nat /\ halfway \in BOOLEAN

(* What the call that has the lock is.                                     *)
OpTypes ==
  \/ op = Idle \/ op \in Reading \/ op \in Polling \/ op \in Adding \/ op \in Copying
  \/ op \in Copied \/ op \in Editing \/ op \in Sweeping \/ op \in Swept \/ op \in Cleaning

(* A content is on its way to the files and the rows.                      *)
Saving == op \in Polling \cup Adding \cup Editing /\ op.step \in {"file", "row"}

(* What is about to become a row was on the pasteboard or entered, and has *)
(* its file once that was written; what is copied has a row.               *)
WorkIsSound ==
  /\ board.c \in typed
  /\ Saving => op.c \in Contents \cap typed
  /\ Saving /\ op.step = "row" /\ op.c \in InFile => op.c \in files
  /\ op \in Copying \cup Copied => op.c \in Present
  /\ op \in Editing => op.from \in Present

(* What a poll read, it read from the pasteboard at that version.          *)
ReadIsTrue ==
  /\ op \in Reading \cup Polling => op.n <= board.n
  /\ op \in Polling /\ op.n = board.n => op.c = board.c

(* The inductive invariant behind HistoryKept.                             *)
KeptInv == ClipTypes /\ OpTypes /\ WorkIsSound /\ ReadIsTrue /\ HistoryKept

(* A row is a row, also after a touch.                                     *)
LEMMA RowsAreThere ==
  /\ \A r \in Row : r # Gone
  /\ \A r \in Row, t \in Nat : [r EXCEPT !.at = t] \in Row /\ [r EXCEPT !.changed = t] \in Row
BY DEF Row, Gone

(* The forms are apart.                                                    *)
LEMMA Apart ==
  ASSUME NEW o
  PROVE  /\ o = Idle => o.kind = "idle"
         /\ o \in Reading => o.kind = "poll" /\ o.step = "read"
         /\ o \in Polling => o.kind = "poll" /\ o.step \in {"check", "file", "row"}
         /\ o \in Adding => o.kind = "add" /\ o.step \in {"file", "row"} /\ o.c \in Texts
         /\ o \in Copying => o.kind = "copy" /\ o.step = "write"
         /\ o \in Copied => o.kind = "copy" /\ o.step = "touch"
         /\ o \in Editing => o.kind = "edit" /\ o.step \in {"file", "row"} /\ o.c \in Texts
         /\ o \in Sweeping => o.kind \in {"purge", "clear"} /\ o.step = "batch"
         /\ o \in Swept => o.kind \in {"purge", "clear"} /\ o.step = "clean"
         /\ o \in Cleaning => o.kind \in {"edit", "delete"} /\ o.step = "clean"
<1>1. o = Idle => o.kind = "idle" BY DEF Idle
<1>2. o \in Reading => o.kind = "poll" /\ o.step = "read" BY DEF Reading
<1>3. o \in Polling => o.kind = "poll" /\ o.step \in {"check", "file", "row"} BY DEF Polling
<1>4. o \in Adding => o.kind = "add" /\ o.step \in {"file", "row"} /\ o.c \in Texts BY DEF Adding
<1>5. o \in Copying => o.kind = "copy" /\ o.step = "write" BY DEF Copying
<1>6. o \in Copied => o.kind = "copy" /\ o.step = "touch" BY DEF Copied
<1>7. o \in Editing => o.kind = "edit" /\ o.step \in {"file", "row"} /\ o.c \in Texts BY DEF Editing
<1>8. o \in Sweeping => o.kind \in {"purge", "clear"} /\ o.step = "batch" BY DEF Sweeping
<1>9. o \in Swept => o.kind \in {"purge", "clear"} /\ o.step = "clean" BY DEF Swept
<1>10. o \in Cleaning => o.kind \in {"edit", "delete"} /\ o.step = "clean" BY DEF Cleaning
<1> QED BY <1>1, <1>2, <1>3, <1>4, <1>5, <1>6, <1>7, <1>8, <1>9, <1>10

(* Who holds the lock, by the guards of the steps.                         *)
LEMMA WhoHolds ==
  ASSUME OpTypes
  PROVE  /\ op.kind = "poll" /\ op.step = "read" => op \in Reading
         /\ op.kind = "poll" /\ op.step # "read" => op \in Polling
         /\ op.kind = "add" => op \in Adding
         /\ op.kind = "copy" /\ op.step = "write" => op \in Copying
         /\ op.kind = "copy" /\ op.step = "touch" => op \in Copied
         /\ op.kind = "edit" /\ op.step # "clean" => op \in Editing
         /\ op.kind \in {"purge", "clear"} /\ op.step = "batch" => op \in Sweeping
         /\ op.kind # "idle" /\ op.step = "clean" => op \in Swept \cup Cleaning
         /\ op.kind \in {"purge", "clear"} /\ op.step = "clean" => op \in Swept
BY Apart DEF OpTypes

(* An edit leaves the rows rows, and adds at most the one it is edited to. *)
LEMMA EditedRows ==
  ASSUME ClipTypes, NEW c \in Present, NEW d \in Contents, rows' = Edited(c, d)
  PROVE  rows' \in [Contents -> Row \cup {Gone}] /\ Present' \subseteq Present \cup {d}
<1>1. /\ rows \in [Contents -> Row \cup {Gone}] /\ now \in Nat
      /\ c \in Contents /\ rows[c] \in Row
  BY DEF ClipTypes, Present
<1>2. CASE c = d BY <1>1, <1>2 DEF Edited, Present
<1>3. CASE c # d
  <2> DEFINE r == IF rows[d] = Gone THEN [rows[c] EXCEPT !.changed = now] ELSE Merged(c, d)
  <2>1. rows' = [rows EXCEPT ![c] = Gone, ![d] = r] BY <1>1, <1>3 DEF Edited
  <2>2. r \in Row
    <3>1. CASE rows[d] = Gone BY <1>1, <3>1, RowsAreThere
    <3>2. CASE rows[d] # Gone
      <4>1. rows[d] \in Row BY <1>1, <3>2
      <4> QED BY <1>1, <3>2, <4>1 DEF Merged, Row
    <3> QED BY <3>1, <3>2
  <2> QED BY <1>1, <1>3, <2>1, <2>2 DEF Present
<1> QED BY <1>2, <1>3

(* A capture makes a row of what it captures, and leaves the others.       *)
LEMMA CapturedRow ==
  ASSUME ClipTypes, NEW c \in Contents, rows' = Captured(c)
  PROVE  rows' \in [Contents -> Row \cup {Gone}] /\ Present' = Present \cup {c}
<1>1. now \in Nat /\ rows \in [Contents -> Row \cup {Gone}] BY DEF ClipTypes
<1>2. NewRow \in Row BY <1>1 DEF NewRow, Row
<1> DEFINE r == IF rows[c] = Gone THEN NewRow ELSE [rows[c] EXCEPT !.at = now]
<1>3. r \in Row BY <1>1, <1>2, RowsAreThere
<1>4. rows' = [rows EXCEPT ![c] = r] BY DEF Captured
<1> QED BY <1>1, <1>3, <1>4, RowsAreThere DEF Present

(* A mark changes a row that is there.                                     *)
LEMMA MarkedRows ==
  ASSUME ClipTypes, NEW c, NEW b \in BOOLEAN, Mark(c, "favorite", b) \/ Mark(c, "noted", b)
  PROVE  rows' \in [Contents -> Row \cup {Gone}] /\ Present' = Present
<1>1. c \in Present /\ c \in Contents BY DEF Mark, Present
<1>2. rows \in [Contents -> Row \cup {Gone}] /\ rows[c] \in Row /\ now \in Nat
  BY <1>1 DEF ClipTypes, Present
<1>3. \E r \in Row : rows' = [rows EXCEPT ![c] = r]
  <2>1. CASE Mark(c, "favorite", b)
    <3> DEFINE r == [rows[c] EXCEPT !.favorite = b,
                                    !.changed = IF rows[c].favorite = b THEN @ ELSE now]
    <3>1. rows' = [rows EXCEPT ![c] = r] BY <1>1, <1>2, <2>1 DEF Mark, Row
    <3>2. r \in Row BY <1>2 DEF Row
    <3> QED BY <3>1, <3>2
  <2>2. CASE Mark(c, "noted", b)
    <3> DEFINE r == [rows[c] EXCEPT !.noted = b,
                                    !.changed = IF rows[c].noted = b THEN @ ELSE now]
    <3>1. rows' = [rows EXCEPT ![c] = r] BY <1>1, <1>2, <2>2 DEF Mark, Row
    <3>2. r \in Row BY <1>2 DEF Row
    <3> QED BY <3>1, <3>2
  <2> QED BY <2>1, <2>2
<1> QED BY <1>1, <1>2, <1>3, RowsAreThere DEF Present

(* The items of a category that goes stay.                                 *)
LEMMA CategoryRows ==
  ASSUME ClipTypes, NEW items, NEW remarked, DeleteCategory(items, remarked)
  PROVE  rows' \in [Contents -> Row \cup {Gone}] /\ Present' = Present
<1>1. rows \in [Contents -> Row \cup {Gone}] /\ now \in Nat BY DEF ClipTypes
<1> DEFINE r(c) == [rows[c] EXCEPT !.noted = c \in remarked, !.changed = now]
<1>2. rows' = [c \in Contents |-> IF c \in items THEN r(c) ELSE rows[c]] BY DEF DeleteCategory
<1>3. ASSUME NEW c \in items PROVE c \in Present /\ rows[c] # Gone /\ r(c) \in Row
  <2>1. c \in Present BY DEF DeleteCategory
  <2>2. rows[c] \in Row BY <1>1, <2>1 DEF Present
  <2>3. (c \in remarked) \in BOOLEAN OBVIOUS
  <2>4. r(c) \in Row BY <1>1, <2>2, <2>3 DEF Row
  <2> QED BY <2>1, <2>4 DEF Present
<1> HIDE DEF r
<1>4. ASSUME NEW c \in Contents
      PROVE rows'[c] \in Row \cup {Gone} /\ (rows'[c] = Gone <=> rows[c] = Gone)
  BY <1>1, <1>2, <1>3, RowsAreThere
<1> QED BY <1>2, <1>4 DEF Present

(* An empty history satisfies the invariant.                               *)
LEMMA KeptStarts == ClipboardInit => KeptInv
<1> SUFFICES ASSUME ClipboardInit PROVE KeptInv OBVIOUS
<1>1. Present = {} BY DEF ClipboardInit, Present
<1>2. ClipTypes
  <2>1. rows \in [Contents -> Row \cup {Gone}] BY DEF ClipboardInit
  <2>2. IsFiniteSet(Present) BY <1>1, FS_EmptySet
  <2>3. board \in [n : Nat \ {0}, c : Contents \cup {Empty}] BY DEF ClipboardInit
  <2>4. seen = 0 /\ ours = 0 /\ now = 1 /\ last = Empty /\ taken = {} /\ halfway = FALSE
    BY DEF ClipboardInit, Unknown
  <2> QED BY <2>1, <2>2, <2>3, <2>4 DEF ClipTypes
<1>3. OpTypes BY DEF ClipboardInit, OpTypes
<1>4. board.c \in typed /\ op = Idle BY DEF ClipboardInit
<1>5. WorkIsSound BY <1>4, Apart DEF WorkIsSound, Saving
<1>6. ReadIsTrue BY <1>4, Apart DEF ReadIsTrue
<1>7. HistoryKept BY <1>1 DEF HistoryKept, FilesKept, OnlyTyped
<1> QED BY <1>2, <1>3, <1>5, <1>6, <1>7 DEF KeptInv

(* Another program, and the clock.                                         *)
LEMMA OutsideKeeps ==
  ASSUME KeptInv, NEW c, (c \in Contents \cup {Empty} /\ Paste(c)) \/ Tick
  PROVE  KeptInv'
<1> USE DEF KeptInv
<1>1. UNCHANGED <<rows, files, seen, last, op, taken, ours, halfway>> /\ now' \in Nat /\ typed \subseteq typed'
  BY DEF Paste, Tick, ClipTypes, ghosts
<1>2. /\ board' \in [n : Nat \ {0}, c : Contents \cup {Empty}]
      /\ board'.c \in typed' /\ (board' = board \/ board'.n > board.n)
  BY DEF Paste, Tick, ClipTypes, ghosts, WorkIsSound
<1>3. Present' = Present BY <1>1 DEF Present
<1>4. ClipTypes' BY <1>1, <1>2, <1>3 DEF ClipTypes
<1>5. OpTypes' BY <1>1 DEF OpTypes
<1>6. WorkIsSound' BY <1>1, <1>2, <1>3 DEF WorkIsSound, Saving
<1>7. op \in Reading \cup Polling => op.n \in Nat BY DEF Reading, Polling
<1>8. ReadIsTrue' BY <1>1, <1>2, <1>7 DEF ReadIsTrue, ClipTypes
<1>9. HistoryKept' BY <1>1, <1>3 DEF HistoryKept, FilesKept, OnlyTyped
<1> QED BY <1>4, <1>5, <1>6, <1>8, <1>9

(* The poll until it has something to save.                                *)
LEMMA PollKeeps ==
  ASSUME KeptInv, NEW c, Poll \/ (c \in Contents \cup {Empty} /\ Read(c)) \/ CheckRead
  PROVE  KeptInv'
<1> USE DEF KeptInv
<1>1. UNCHANGED <<board, rows, files, now, typed, taken, ours>>
  BY DEF Poll, Read, CheckRead, ghosts
<1>2. seen' \in Nat /\ last' \in Contents \cup {Empty} /\ halfway' \in BOOLEAN
  <2>1. CASE Poll \/ Read(c) BY <2>1 DEF Poll, Read, ghosts, ClipTypes
  <2>2. CASE CheckRead
    <3>1. op \in Polling BY <2>2, WhoHolds DEF CheckRead
    <3>2. op.n \in Nat BY <3>1 DEF Polling
    <3>3. seen' \in Nat /\ last' \in Contents \cup {Empty} BY <2>2, <3>2 DEF CheckRead, ClipTypes
    <3>4. halfway' \in BOOLEAN BY <2>2 DEF CheckRead
    <3> QED BY <3>3, <3>4
  <2> QED BY <2>1, <2>2
<1>3. Present' = Present BY <1>1 DEF Present
<1>4. ClipTypes' BY <1>1, <1>2, <1>3 DEF ClipTypes
<1>5. HistoryKept' BY <1>1, <1>3 DEF HistoryKept, FilesKept, OnlyTyped
<1>6. \/ op' = Idle
      \/ op' \in Reading /\ op'.n = board.n
      \/ /\ op' \in Polling /\ op'.n <= board.n /\ (op'.n = board.n => op'.c = board.c)
         /\ op'.step = "check" \/ (op'.step = "file" /\ op'.n = board.n /\ op'.c # Empty)
  <2>1. CASE Poll BY <2>1 DEF Poll, Reading, ClipTypes
  <2>2. CASE c \in Contents \cup {Empty} /\ Read(c)
    <3>1. op \in Reading BY <2>2, WhoHolds DEF Read
    <3>2. op' = [kind |-> "poll", step |-> "check", n |-> op.n, c |-> c] BY <2>2 DEF Read
    <3>3. op.n <= board.n /\ (op.n = board.n => c = board.c) BY <2>2, <3>1 DEF Read, ReadIsTrue
    <3>4. op.n \in Nat BY <3>1 DEF Reading
    <3>5. op' \in Polling BY <2>2, <3>2, <3>4 DEF Polling
    <3> QED BY <3>2, <3>3, <3>5
  <2>3. CASE CheckRead
    <3>1. op \in Polling BY <2>3, WhoHolds DEF CheckRead
    <3>2. op' = Idle \/ (op' = [op EXCEPT !.step = "file"] /\ StillThere /\ op.c # Empty) BY <2>3 DEF CheckRead
    <3>3. op.n <= board.n /\ (op.n = board.n => op.c = board.c) BY <3>1 DEF ReadIsTrue
    <3> QED BY <3>1, <3>2, <3>3 DEF Polling, StillThere
  <2> QED BY <2>1, <2>2, <2>3
<1>7. OpTypes' BY <1>6 DEF OpTypes
<1>8. WorkIsSound'
  <2>1. board.c \in typed /\ board.c \in Contents \cup {Empty} BY DEF WorkIsSound, ClipTypes
  <2>2. Saving' => op'.c \in Contents \cap typed
    BY <1>6, <2>1, Apart DEF Saving
  <2> QED BY <1>1, <1>6, <2>1, <2>2, Apart DEF WorkIsSound, Saving
<1>9. ReadIsTrue' BY <1>1, <1>6, Apart DEF ReadIsTrue, ClipTypes
<1> QED BY <1>4, <1>5, <1>7, <1>8, <1>9

(* A capture writes the file first, and then the row.                      *)
LEMMA CaptureKeeps ==
  ASSUME KeptInv, NEW c, AddText(c) \/ WriteFile \/ CaptureRow
  PROVE  KeptInv'
<1> USE DEF KeptInv
<1>1. CASE AddText(c)
  <2>1. UNCHANGED <<board, rows, files, seen, last, now, taken, ours, halfway>> /\ typed' = typed \cup {c}
    BY <1>1 DEF AddText
  <2>2. op' \in Adding /\ op'.c = c /\ op'.step = "file" /\ c \in Contents
    BY <1>1, ClipboardAssumption DEF AddText, Call, Adding
  <2>3. Present' = Present BY <2>1 DEF Present
  <2>4. ClipTypes' BY <2>1, <2>3 DEF ClipTypes
  <2>5. OpTypes' BY <2>2 DEF OpTypes
  <2>6. WorkIsSound' BY <2>1, <2>2, Apart DEF WorkIsSound, Saving
  <2>7. ReadIsTrue' BY <2>2, Apart DEF ReadIsTrue
  <2>8. HistoryKept' BY <2>1, <2>3 DEF HistoryKept, FilesKept, OnlyTyped
  <2> QED BY <2>4, <2>5, <2>6, <2>7, <2>8
<1>2. CASE WriteFile
  <2>1. UNCHANGED <<board, rows, seen, last, now, taken, ours, halfway, typed>>
        /\ files' = files \cup ({op.c} \cap InFile)
    BY <1>2 DEF WriteFile, ghosts
  <2>2. /\ op \in Polling \cup Adding \cup Editing /\ op.step = "file"
        /\ op' = [op EXCEPT !.step = "row"]
    BY <1>2, WhoHolds DEF WriteFile
  <2>3. /\ op \in Polling => op' \in Polling /\ op'.n = op.n
        /\ op \in Adding => op' \in Adding
        /\ op \in Editing => op' \in Editing /\ op'.from = op.from
        /\ op'.c = op.c
    BY <2>2 DEF Polling, Adding, Editing
  <2>4. Present' = Present BY <2>1 DEF Present
  <2>5. ClipTypes' BY <2>1, <2>4 DEF ClipTypes
  <2>6. OpTypes' BY <2>2, <2>3 DEF OpTypes
  <2>7. op.c \in Contents \cap typed BY <2>2 DEF WorkIsSound, Saving
  <2>8. WorkIsSound' BY <2>1, <2>2, <2>3, <2>4, <2>7, Apart DEF WorkIsSound, Saving
  <2>9. ReadIsTrue' BY <2>1, <2>2, <2>3, Apart DEF ReadIsTrue
  <2>10. HistoryKept' BY <2>1, <2>4 DEF HistoryKept, FilesKept, OnlyTyped
  <2> QED BY <2>5, <2>6, <2>8, <2>9, <2>10
<1>3. CASE CaptureRow
  <2>1. UNCHANGED <<board, files, now, typed, ours>> /\ op' = Idle /\ rows' = Captured(op.c)
    BY <1>3 DEF CaptureRow
  <2>2. op \in Polling \cup Adding /\ op.step = "row" BY <1>3, WhoHolds DEF CaptureRow
  <2>3. op.c \in Contents \cap typed /\ (op.c \in InFile => op.c \in files)
    BY <2>2 DEF WorkIsSound, Saving
  <2>4. rows' \in [Contents -> Row \cup {Gone}] /\ Present' = Present \cup {op.c}
    BY <2>1, <2>3, CapturedRow
  <2>5. seen' \in Nat /\ last' \in Contents \cup {Empty} /\ taken' \subseteq Nat /\ halfway' \in BOOLEAN
    <3>1. CASE op.kind = "poll"
      <4>1. op.n \in Nat BY <2>2, <3>1, Apart DEF Polling
      <4> QED BY <1>3, <2>3, <3>1, <4>1 DEF CaptureRow, Remember, ClipTypes
    <3>2. CASE op.kind # "poll" BY <1>3, <3>2 DEF CaptureRow, ClipTypes
    <3> QED BY <3>1, <3>2
  <2>6. IsFiniteSet(Present') BY <2>4, FS_AddElement DEF ClipTypes
  <2>7. ClipTypes' BY <2>1, <2>4, <2>5, <2>6 DEF ClipTypes
  <2>8. OpTypes' BY <2>1 DEF OpTypes
  <2>9. WorkIsSound' /\ ReadIsTrue' BY <2>1, Apart DEF WorkIsSound, Saving, ReadIsTrue
  <2>10. HistoryKept' BY <2>1, <2>3, <2>4 DEF HistoryKept, FilesKept, OnlyTyped
  <2> QED BY <2>7, <2>8, <2>9, <2>10
<1> QED BY <1>1, <1>2, <1>3

(* A copy writes an item that is there, which stays until it is touched.   *)
LEMMA CopyKeeps ==
  ASSUME KeptInv, NEW c, Copy(c) \/ WriteBoard \/ Touch
  PROVE  KeptInv'
<1> USE DEF KeptInv
<1>1. CASE Copy(c)
  <2>1. UNCHANGED <<board, rows, files, seen, last, now, typed, taken, ours, halfway>>
        /\ c \in Present /\ c \in Contents
    BY <1>1 DEF Copy, ghosts, Present
  <2>2. op' \in Copying /\ op'.c = c BY <1>1, <2>1 DEF Copy, Call, Copying
  <2>3. Present' = Present BY <2>1 DEF Present
  <2>4. ClipTypes' BY <2>1, <2>3 DEF ClipTypes
  <2>5. OpTypes' BY <2>2 DEF OpTypes
  <2>6. WorkIsSound' BY <2>1, <2>2, <2>3, Apart DEF WorkIsSound, Saving
  <2>7. ReadIsTrue' BY <2>2, Apart DEF ReadIsTrue
  <2>8. HistoryKept' BY <2>1, <2>3 DEF HistoryKept, FilesKept, OnlyTyped
  <2> QED BY <2>4, <2>5, <2>6, <2>7, <2>8
<1>2. CASE WriteBoard
  <2>1. UNCHANGED <<rows, files, seen, last, now, typed, taken, ours, halfway>> BY <1>2 DEF WriteBoard, ghosts
  <2>2. op \in Copying BY <1>2, WhoHolds DEF WriteBoard
  <2>3. op.c \in Contents BY <2>2 DEF Copying
  <2>4. board.n \in Nat /\ board.n + 1 \in Nat \ {0} BY DEF ClipTypes
  <2>5. board' = [n |-> board.n + 1, c |-> op.c]
        /\ op' = [kind |-> "copy", step |-> "touch", c |-> op.c, n |-> board.n + 1]
    BY <1>2 DEF WriteBoard
  <2>6. op' \in Copied /\ op'.c = op.c BY <2>3, <2>4, <2>5 DEF Copied
  <2>7. Present' = Present BY <2>1 DEF Present
  <2>8. board' \in [n : Nat \ {0}, c : Contents \cup {Empty}] /\ board'.c = op.c BY <2>3, <2>4, <2>5
  <2>9. ClipTypes' BY <2>1, <2>7, <2>8 DEF ClipTypes
  <2>10. OpTypes' BY <2>6 DEF OpTypes
  <2>11. op.c \in Present BY <2>2 DEF WorkIsSound
  <2>12. WorkIsSound'
    BY <2>1, <2>6, <2>7, <2>8, <2>11, Apart DEF WorkIsSound, Saving, HistoryKept, OnlyTyped
  <2>13. ReadIsTrue' BY <2>6, Apart DEF ReadIsTrue
  <2>14. HistoryKept' BY <2>1, <2>7 DEF HistoryKept, FilesKept, OnlyTyped
  <2> QED BY <2>9, <2>10, <2>12, <2>13, <2>14
<1>3. CASE Touch
  <2>1. UNCHANGED <<board, files, now, typed, taken>> /\ op' = Idle
        /\ seen' = 0 /\ last' = op.c /\ ours' = op.n /\ halfway' = FALSE
        /\ rows' = [rows EXCEPT ![op.c].at = now]
    BY <1>3 DEF Touch, CountAfterCopy, Unknown
  <2>2. op \in Copied BY <1>3, WhoHolds DEF Touch
  <2>3. op.c \in Contents /\ op.n \in Nat BY <2>2 DEF Copied
  <2>4. op.c \in Present BY <2>2 DEF WorkIsSound
  <2>5. rows' \in [Contents -> Row \cup {Gone}] /\ Present' = Present
    <3>1. now \in Nat /\ rows \in [Contents -> Row \cup {Gone}] BY DEF ClipTypes
    <3>2. rows[op.c] \in Row BY <2>4, <3>1 DEF Present
    <3>3. [rows[op.c] EXCEPT !.at = now] \in Row BY <3>1, <3>2, RowsAreThere
    <3> QED BY <2>1, <2>3, <2>4, <3>1, <3>3, RowsAreThere DEF Present
  <2>6. ClipTypes' BY <2>1, <2>3, <2>5 DEF ClipTypes
  <2>7. OpTypes' BY <2>1 DEF OpTypes
  <2>8. WorkIsSound' /\ ReadIsTrue' BY <2>1, Apart DEF WorkIsSound, Saving, ReadIsTrue
  <2>9. HistoryKept' BY <2>1, <2>5 DEF HistoryKept, FilesKept, OnlyTyped
  <2> QED BY <2>6, <2>7, <2>8, <2>9
<1> QED BY <1>1, <1>2, <1>3

(* Marks and edits: an edited item may be merged into another.             *)
LEMMA EditKeeps ==
  ASSUME KeptInv, NEW c, NEW d, NEW b,
         \/ b \in BOOLEAN /\ (Mark(c, "favorite", b) \/ Mark(c, "noted", b))
         \/ Edit(c, d) \/ EditRow
  PROVE  KeptInv'
<1> USE DEF KeptInv
<1>1. CASE b \in BOOLEAN /\ (Mark(c, "favorite", b) \/ Mark(c, "noted", b))
  <2>1. UNCHANGED <<board, files, seen, last, op, now, typed, taken, ours, halfway>> /\ c \in Present
    BY <1>1 DEF Mark, ghosts
  <2>2. rows' \in [Contents -> Row \cup {Gone}] /\ Present' = Present BY <1>1, MarkedRows
  <2>3. ClipTypes' BY <2>1, <2>2 DEF ClipTypes
  <2>4. OpTypes' BY <2>1 DEF OpTypes
  <2>5. WorkIsSound' /\ ReadIsTrue' BY <2>1, <2>2 DEF WorkIsSound, Saving, ReadIsTrue
  <2>6. HistoryKept' BY <2>1, <2>2 DEF HistoryKept, FilesKept, OnlyTyped
  <2> QED BY <2>3, <2>4, <2>5, <2>6
<1>2. CASE Edit(c, d)
  <2>1. UNCHANGED <<board, rows, files, seen, last, now, taken, ours, halfway>> /\ typed' = typed \cup {d}
    BY <1>2 DEF Edit
  <2>2. op' \in Editing /\ op'.c = d /\ op'.step = "file" /\ op'.from = c /\ c \in Present
    BY <1>2 DEF Edit, Call, Editing
  <2>3. Present' = Present BY <2>1 DEF Present
  <2>4. ClipTypes' BY <2>1, <2>3 DEF ClipTypes
  <2>5. OpTypes' BY <2>2 DEF OpTypes
  <2>6. WorkIsSound' BY <2>1, <2>2, <2>3, Apart, ClipboardAssumption DEF WorkIsSound, Saving
  <2>7. ReadIsTrue' BY <2>2, Apart DEF ReadIsTrue
  <2>8. HistoryKept' BY <2>1, <2>3 DEF HistoryKept, FilesKept, OnlyTyped
  <2> QED BY <2>4, <2>5, <2>6, <2>7, <2>8
<1>3. CASE EditRow
  <2>1. UNCHANGED <<board, files, seen, last, now, typed, taken, ours, halfway>>
        /\ rows' = Edited(op.from, op.c)
    BY <1>3 DEF EditRow, ghosts
  <2>2. op \in Editing /\ op.step = "row" BY <1>3, WhoHolds DEF EditRow
  <2>3. op.from \in Present /\ op.from \in Contents /\ op.c \in Contents
    BY <2>2, ClipboardAssumption DEF Editing, WorkIsSound
  <2>4. op.c \in typed /\ (op.c \in InFile => op.c \in files) BY <2>2 DEF WorkIsSound, Saving
  <2>5. op' \in Cleaning BY <1>3, <2>3 DEF EditRow, Cleaning
  <2>6. rows' \in [Contents -> Row \cup {Gone}] /\ Present' \subseteq Present \cup {op.c}
    BY <2>1, <2>3, EditedRows
  <2>7. IsFiniteSet(Present') BY <2>6, FS_AddElement, FS_Subset DEF ClipTypes
  <2>8. ClipTypes' BY <2>1, <2>6, <2>7 DEF ClipTypes
  <2>9. OpTypes' BY <2>5 DEF OpTypes
  <2>10. WorkIsSound' /\ ReadIsTrue' BY <2>1, <2>5, Apart DEF WorkIsSound, Saving, ReadIsTrue
  <2>11. HistoryKept' BY <2>1, <2>4, <2>6 DEF HistoryKept, FilesKept, OnlyTyped
  <2> QED BY <2>8, <2>9, <2>10, <2>11
<1> QED BY <1>1, <1>2, <1>3

(* A category that goes takes none of its items with it.                   *)
LEMMA CategoryKeeps ==
  ASSUME KeptInv, NEW items, NEW remarked, DeleteCategory(items, remarked)
  PROVE  KeptInv'
<1> USE DEF KeptInv
<1>1. UNCHANGED <<board, files, seen, last, op, now, typed, taken, ours, halfway>>
  BY DEF DeleteCategory, ghosts
<1>2. rows' \in [Contents -> Row \cup {Gone}] /\ Present' = Present BY CategoryRows
<1>3. ClipTypes' BY <1>1, <1>2 DEF ClipTypes
<1>4. OpTypes' BY <1>1 DEF OpTypes
<1>5. WorkIsSound' /\ ReadIsTrue' BY <1>1, <1>2 DEF WorkIsSound, Saving, ReadIsTrue
<1>6. HistoryKept' BY <1>1, <1>2 DEF HistoryKept, FilesKept, OnlyTyped
<1> QED BY <1>3, <1>4, <1>5, <1>6

(* What is removed loses its file when no row is left that needs it.       *)
LEMMA RemoveKeeps ==
  ASSUME KeptInv, NEW c, NEW t,
         Delete(c) \/ Purge(t) \/ ClearHistory \/ RemoveBatch \/ Clean(c) \/ NextBatch \/ Removed
  PROVE  KeptInv'
<1> USE DEF KeptInv
<1>1. CASE Purge(t) \/ ClearHistory \/ NextBatch
  <2>1. UNCHANGED <<board, rows, files, seen, last, now, typed, taken, ours, halfway>>
    BY <1>1 DEF Purge, ClearHistory, NextBatch, ghosts
  <2>2. op' \in Sweeping
    <3>1. CASE Purge(t) BY <3>1 DEF Purge, Call, Sweeping, ClipTypes
    <3>2. CASE ClearHistory BY <3>2 DEF ClearHistory, Call, Sweeping
    <3>3. CASE NextBatch
      <4>1. op \in Swept \cup Cleaning /\ op.more = TRUE BY <3>3, WhoHolds DEF NextBatch, Swept, Cleaning
      <4>2. op \in Swept BY <4>1 DEF Cleaning
      <4> QED BY <3>3, <4>2 DEF NextBatch, Swept, Sweeping
    <3> QED BY <1>1, <3>1, <3>2, <3>3
  <2>3. Present' = Present BY <2>1 DEF Present
  <2>4. ClipTypes' BY <2>1, <2>3 DEF ClipTypes
  <2>5. OpTypes' BY <2>2 DEF OpTypes
  <2>6. WorkIsSound' /\ ReadIsTrue' BY <2>1, <2>2, Apart DEF WorkIsSound, Saving, ReadIsTrue
  <2>7. HistoryKept' BY <2>1, <2>3 DEF HistoryKept, FilesKept, OnlyTyped
  <2> QED BY <2>4, <2>5, <2>6, <2>7
<1>2. CASE Delete(c) \/ RemoveBatch
  <2>1. UNCHANGED <<board, files, seen, last, now, typed, taken, ours, halfway>>
    BY <1>2 DEF Delete, RemoveBatch, ghosts
  <2>2. op' \in Swept \cup Cleaning
    <3>1. CASE Delete(c) BY <3>1 DEF Delete, Call, Cleaning, Present
    <3>2. CASE RemoveBatch
      <4>1. op \in Sweeping BY <3>2, WhoHolds DEF RemoveBatch
      <4>2. PICK gone \in SUBSET Removable :
                   op' = [kind |-> op.kind, step |-> "clean", cutoff |-> op.cutoff,
                          count |-> op.count + Cardinality(gone),
                          left |-> gone, more |-> Cardinality(gone) = Batch]
        BY <3>2 DEF RemoveBatch, kSubset
      <4>3. gone \in SUBSET Present BY <4>2 DEF Removable
      <4>4. gone \in SUBSET Contents BY <4>3 DEF Present
      <4>5. Cardinality(gone) \in Nat BY <4>3, FS_Subset, FS_CardinalityType DEF ClipTypes
      <4>6. op' \in Swept BY <4>1, <4>2, <4>4, <4>5 DEF Sweeping, Swept
      <4> QED BY <4>6
    <3> QED BY <1>2, <3>1, <3>2
  <2>3. rows' \in [Contents -> Row \cup {Gone}] /\ Present' \subseteq Present
    <3>1. rows \in [Contents -> Row \cup {Gone}] BY DEF ClipTypes
    <3>2. CASE Delete(c) BY <3>1, <3>2 DEF Delete, Present
    <3>3. CASE RemoveBatch BY <3>1, <3>3 DEF RemoveBatch, Present
    <3> QED BY <1>2, <3>2, <3>3
  <2>4. IsFiniteSet(Present') BY <2>3, FS_Subset DEF ClipTypes
  <2>5. ClipTypes' BY <2>1, <2>3, <2>4 DEF ClipTypes
  <2>6. OpTypes' BY <2>2 DEF OpTypes
  <2>7. WorkIsSound' /\ ReadIsTrue' BY <2>1, <2>2, Apart DEF WorkIsSound, Saving, ReadIsTrue
  <2>8. HistoryKept' BY <2>1, <2>3 DEF HistoryKept, FilesKept, OnlyTyped
  <2> QED BY <2>5, <2>6, <2>7, <2>8
<1>3. CASE Clean(c)
  <2>1. UNCHANGED <<board, rows, seen, last, now, typed, taken, ours, halfway>>
        /\ (files' = files \/ (c \notin Present /\ files' = files \ {c}))
    BY <1>3 DEF Clean, Unreferenced, ghosts
  <2>2. op \in Swept \cup Cleaning /\ op' = [op EXCEPT !.left = @ \ {c}] BY <1>3, WhoHolds DEF Clean
  <2>3. op' \in Swept \cup Cleaning BY <2>2 DEF Swept, Cleaning
  <2>4. Present' = Present BY <2>1 DEF Present
  <2>5. ClipTypes' BY <2>1, <2>4 DEF ClipTypes
  <2>6. OpTypes' BY <2>3 DEF OpTypes
  <2>7. WorkIsSound' /\ ReadIsTrue' BY <2>1, <2>3, Apart DEF WorkIsSound, Saving, ReadIsTrue
  <2>8. HistoryKept' BY <2>1, <2>4 DEF HistoryKept, FilesKept, OnlyTyped
  <2> QED BY <2>5, <2>6, <2>7, <2>8
<1>4. CASE Removed
  <2>1. UNCHANGED <<board, rows, files, seen, now, typed, taken>> /\ op' = Idle
        /\ last' \in {last, Empty} /\ ours' \in {ours, 0} /\ halfway' \in BOOLEAN
    BY <1>4 DEF Removed, Unknown, ClipTypes
  <2>2. Present' = Present BY <2>1 DEF Present
  <2>3. ClipTypes' BY <2>1, <2>2 DEF ClipTypes
  <2>4. OpTypes' BY <2>1 DEF OpTypes
  <2>5. WorkIsSound' /\ ReadIsTrue' BY <2>1, Apart DEF WorkIsSound, Saving, ReadIsTrue
  <2>6. HistoryKept' BY <2>1, <2>2 DEF HistoryKept, FilesKept, OnlyTyped
  <2> QED BY <2>3, <2>4, <2>5, <2>6
<1> QED BY <1>1, <1>2, <1>3, <1>4

(* A step fails, or the process ends: rows stay, and no file goes that one *)
(* of them needs.                                                          *)
LEMMA FailureKeeps ==
  ASSUME KeptInv, Fail \/ Crash
  PROVE  KeptInv'
<1> USE DEF KeptInv
<1>1. UNCHANGED <<board, rows, now, typed>> /\ op' = Idle BY DEF Fail, Crash
<1>2. seen' \in Nat /\ last' \in Contents \cup {Empty} /\ ours' \in Nat /\ taken' \subseteq Nat
  <2>1. CASE Fail BY <2>1 DEF Fail, ClipTypes
  <2>2. CASE Crash BY <2>2 DEF Crash, ClipTypes, Unknown
  <2> QED BY <2>1, <2>2
<1>3. halfway' \in BOOLEAN
  <2>1. CASE Fail BY <2>1 DEF Fail
  <2>2. CASE Crash BY <2>2 DEF Crash
  <2> QED BY <2>1, <2>2
<1>4. files' = files \/ (op.c \notin Present /\ files' = files \ {op.c})
  BY DEF Fail, Crash, Unreferenced
<1>5. Present' = Present BY <1>1 DEF Present
<1>6. ClipTypes' BY <1>1, <1>2, <1>3, <1>5 DEF ClipTypes
<1>7. OpTypes' BY <1>1 DEF OpTypes
<1>8. WorkIsSound' /\ ReadIsTrue' BY <1>1, Apart DEF WorkIsSound, Saving, ReadIsTrue
<1>9. HistoryKept' BY <1>1, <1>4, <1>5 DEF HistoryKept, FilesKept, OnlyTyped
<1> QED BY <1>6, <1>7, <1>8, <1>9

(* Every step preserves it.                                                *)
LEMMA KeptSteps == KeptInv /\ [ClipboardNext]_bvars => KeptInv'
<1> SUFFICES ASSUME KeptInv, [ClipboardNext]_bvars PROVE KeptInv' OBVIOUS
<1>1. CASE ClipboardNext
  BY <1>1, OutsideKeeps, PollKeeps, CaptureKeeps, CopyKeeps, EditKeeps, CategoryKeeps, RemoveKeeps, FailureKeeps
     DEF ClipboardNext
<1>2. CASE UNCHANGED bvars
  BY <1>2 DEF bvars, KeptInv, ClipTypes, OpTypes, WorkIsSound, Saving, ReadIsTrue, HistoryKept,
              FilesKept, OnlyTyped, Present
<1> QED BY <1>1, <1>2

(* Every item has its file, nothing is kept that nobody copied, and the    *)
(* rest of HistoryKept: in every reachable state, for any contents,        *)
(* retention times and failures.                                           *)
THEOREM HistoryIsKept == ClipboardSpec => []HistoryKept
<1>1. KeptInv => HistoryKept BY DEF KeptInv
<1> QED BY <1>1, KeptStarts, KeptSteps, PTL DEF ClipboardSpec

(***************************************************************************)
(* What the poll remembers.                                                *)
(***************************************************************************)
Removing == op \in Sweeping \cup Swept \cup Cleaning /\ op.count > 0

(* The hash that is remembered is an item's, until an item went: then it   *)
(* is forgotten by the end of the call, or the call failed halfway.        *)
LastIsThere == ~halfway /\ last # Empty /\ ~Removing => last \in Present

(* A version at work is newer than all that were captured or copied.       *)
TakenBefore ==
  /\ seen <= board.n /\ ours <= board.n
  /\ \A n \in taken : n < board.n \/ n = seen
  /\ op \in Copied =>
       /\ op.n <= board.n /\ (op.n = board.n => op.c = board.c)
       /\ \A n \in taken : n < op.n
  /\ op \in Reading \cup Polling => op.n \notin taken /\ seen < op.n /\ ours <= op.n
  /\ op \in Polling /\ op.step \in {"file", "row"} => op.n # ours

(* The version the program wrote itself is remembered with its content.    *)
OursIsLast == ours # Unknown /\ ours = board.n => last = board.c

(* What the action properties need of the state they start in.             *)
PollInv == KeptInv /\ LastIsThere /\ TakenBefore /\ OursIsLast

(* An empty history satisfies it.                                          *)
LEMMA PollInvStarts == ClipboardInit => PollInv
<1> SUFFICES ASSUME ClipboardInit PROVE PollInv OBVIOUS
<1>1. /\ board.n = 1 /\ last = Empty /\ op = Idle /\ taken = {}
      /\ seen = 0 /\ ours = 0
  BY DEF ClipboardInit, Unknown
<1>2. LastIsThere BY <1>1 DEF LastIsThere
<1>3. TakenBefore BY <1>1, Apart DEF TakenBefore
<1>4. OursIsLast BY <1>1 DEF OursIsLast, Unknown
<1> QED BY <1>2, <1>3, <1>4, KeptStarts DEF PollInv

(* A step of an operation that is neither the poll nor a copy under way.   *)
LEMMA PollFrame ==
  ASSUME TakenBefore, OursIsLast, UNCHANGED <<board, seen, last, ours, taken>>,
         op' \notin Reading \cup Polling \cup Copied
  PROVE  TakenBefore' /\ OursIsLast'
BY DEF TakenBefore, OursIsLast

(* Another program and the clock preserve what the poll remembers.         *)
LEMMA OutsidePolls ==
  ASSUME PollInv, NEW c, (c \in Contents \cup {Empty} /\ Paste(c)) \/ Tick
  PROVE  (LastIsThere /\ TakenBefore /\ OursIsLast)'
<1> USE DEF PollInv, KeptInv
<1>1. UNCHANGED <<rows, files, seen, last, op, taken, ours, halfway>> BY DEF Paste, Tick, ghosts
<1>2. board' = board \/ board'.n = board.n + 1 BY DEF Paste, Tick
<1>3. /\ board.n \in Nat /\ seen \in Nat /\ ours \in Nat /\ taken \subseteq Nat
      /\ op \in Reading \cup Polling \cup Copied => op.n \in Nat
  BY DEF ClipTypes, Reading, Polling, Copied
<1>4. LastIsThere' BY <1>1 DEF LastIsThere, Removing, Present
<1>5. TakenBefore' BY <1>1, <1>2, <1>3 DEF TakenBefore
<1>6. OursIsLast' BY <1>1, <1>2, <1>3 DEF OursIsLast, TakenBefore
<1> QED BY <1>4, <1>5, <1>6

(* So do the steps of a poll before it saves,                              *)
LEMMA PollPolls ==
  ASSUME PollInv, NEW c, Poll \/ (c \in Contents \cup {Empty} /\ Read(c)) \/ CheckRead
  PROVE  (LastIsThere /\ TakenBefore /\ OursIsLast)'
<1> USE DEF PollInv, KeptInv
<1>1. UNCHANGED <<board, rows, taken, ours>> /\ Present' = Present
  BY DEF Poll, Read, CheckRead, ghosts, Present
<1>2. board.n \in Nat /\ seen \in Nat /\ ours \in Nat /\ taken \subseteq Nat BY DEF ClipTypes
<1>3. CASE Poll
  <2>1. op' \in Reading /\ op'.n = board.n /\ seen # board.n /\ op = Idle
    BY <1>2, <1>3 DEF Poll, Reading
  <2>2. UNCHANGED <<seen, last, halfway>> BY <1>3 DEF Poll, ghosts
  <2>3. LastIsThere' BY <1>1, <2>1, <2>2, Apart DEF LastIsThere, Removing
  <2>4. TakenBefore' BY <1>1, <1>2, <2>1, <2>2, Apart DEF TakenBefore
  <2>5. OursIsLast' BY <1>1, <2>2 DEF OursIsLast
  <2> QED BY <2>3, <2>4, <2>5
<1>4. CASE c \in Contents \cup {Empty} /\ Read(c)
  <2>1. op \in Reading /\ op' = [kind |-> "poll", step |-> "check", n |-> op.n, c |-> c]
    BY <1>4, WhoHolds DEF Read
  <2>2. op.n \in Nat BY <2>1 DEF Reading
  <2>3. op' \in Polling /\ op'.n = op.n /\ op'.step = "check" BY <1>4, <2>1, <2>2 DEF Polling
  <2>4. UNCHANGED <<seen, last, halfway>> BY <1>4 DEF Read, ghosts
  <2>5. LastIsThere' BY <1>1, <2>1, <2>3, <2>4, Apart DEF LastIsThere, Removing
  <2>6. TakenBefore' BY <1>1, <2>1, <2>3, <2>4, Apart DEF TakenBefore
  <2>7. OursIsLast' BY <1>1, <2>4 DEF OursIsLast
  <2> QED BY <2>5, <2>6, <2>7
<1>5. CASE CheckRead
  <2>1. op \in Polling BY <1>5, WhoHolds DEF CheckRead
  <2>2. op.n \in Nat /\ op.n <= board.n /\ (op.n = board.n => op.c = board.c)
    BY <2>1 DEF Polling, ReadIsTrue
  <2>3. ~Removing BY <2>1, Apart DEF Removing
  <2>4. CASE op' = Idle /\ UNCHANGED <<seen, last>>
    <3>1. halfway' = halfway BY <1>5, <2>4 DEF CheckRead, ClipTypes
    <3>2. LastIsThere' BY <1>1, <2>3, <2>4, <3>1 DEF LastIsThere
    <3> QED BY <1>1, <2>4, <3>2, Apart, PollFrame
  <2>5. CASE op' = Idle /\ StillThere /\ seen' = op.n /\ last' = op.c /\ (op.c = Empty \/ op.c = last)
    <3>1. op.n = board.n /\ last' = board.c BY <2>2, <2>5 DEF StillThere
    <3>2. last' # Empty => last' = last /\ halfway' = halfway BY <1>5, <2>5 DEF CheckRead, ClipTypes
    <3>3. LastIsThere' BY <1>1, <2>3, <3>2 DEF LastIsThere
    <3>4. OursIsLast' BY <1>1, <3>1 DEF OursIsLast
    <3>5. TakenBefore' BY <1>1, <1>2, <2>1, <2>2, <2>5, <3>1, Apart DEF TakenBefore
    <3> QED BY <3>3, <3>4, <3>5
  <2>6. CASE op' = [op EXCEPT !.step = "file"] /\ StillThere /\ op.c # last /\ UNCHANGED <<seen, last>>
    <3>1. op' \in Polling /\ op'.n = op.n BY <2>1, <2>6 DEF Polling
    <3>2. op.n = board.n /\ op.c = board.c BY <2>2, <2>6 DEF StillThere
    <3>3. halfway' = halfway BY <1>5, <2>6 DEF CheckRead, ClipTypes
    <3>4. LastIsThere' BY <1>1, <2>3, <2>6, <3>3 DEF LastIsThere
    <3>5. OursIsLast' BY <1>1, <2>6 DEF OursIsLast
    <3>6. op.n # ours
      <4>1. seen < op.n BY <2>1 DEF TakenBefore
      <4> QED BY <1>2, <2>2, <2>6, <3>2, <4>1 DEF OursIsLast, Unknown
    <3>7. TakenBefore' BY <1>1, <2>1, <2>6, <3>1, <3>6, Apart DEF TakenBefore
    <3> QED BY <3>4, <3>5, <3>7
  <2> QED BY <1>5, <2>4, <2>5, <2>6 DEF CheckRead
<1> QED BY <1>3, <1>4, <1>5

(* the steps that save,                                                    *)
LEMMA CapturePolls ==
  ASSUME PollInv, NEW c, AddText(c) \/ WriteFile \/ CaptureRow
  PROVE  (LastIsThere /\ TakenBefore /\ OursIsLast)'
<1> USE DEF PollInv, KeptInv
<1>1. board.n \in Nat /\ seen \in Nat /\ ours \in Nat /\ taken \subseteq Nat BY DEF ClipTypes
<1>2. CASE AddText(c)
  <2>1. UNCHANGED <<board, rows, seen, last, taken, ours, halfway>> /\ op = Idle BY <1>2 DEF AddText, Call
  <2>2. op' \in Adding BY <1>2 DEF AddText, Call, Adding
  <2>3. LastIsThere' BY <2>1, <2>2, Apart DEF LastIsThere, Removing, Present
  <2> QED BY <2>1, <2>2, <2>3, Apart, PollFrame
<1>3. CASE WriteFile
  <2>1. UNCHANGED <<board, rows, seen, last, taken, ours, halfway>> BY <1>3 DEF WriteFile, ghosts
  <2>2. /\ op \in Polling \cup Adding \cup Editing /\ op.step = "file"
        /\ op' = [op EXCEPT !.step = "row"]
    BY <1>3, WhoHolds DEF WriteFile
  <2>3. /\ op \in Polling => op' \in Polling /\ op'.n = op.n
        /\ op \in Adding => op' \in Adding
        /\ op \in Editing => op' \in Editing
    BY <2>2 DEF Polling, Adding, Editing
  <2>4. LastIsThere' BY <2>1, <2>2, <2>3, Apart DEF LastIsThere, Removing, Present
  <2>5. OursIsLast' BY <2>1 DEF OursIsLast
  <2>6. TakenBefore' BY <2>1, <2>2, <2>3, Apart DEF TakenBefore
  <2> QED BY <2>4, <2>5, <2>6
<1>4. CASE CaptureRow
  <2>1. UNCHANGED <<board, ours>> /\ op' = Idle BY <1>4 DEF CaptureRow
  <2>2. op \in Polling \cup Adding /\ op.step = "row" BY <1>4, WhoHolds DEF CaptureRow
  <2>3. op.c \in Contents BY <2>2 DEF WorkIsSound, Saving
  <2>4. Present \cup {op.c} \subseteq Present' BY <1>4, <2>3, CapturedRow DEF CaptureRow
  <2>5. CASE op \in Adding
    <3>1. UNCHANGED <<seen, last, taken, halfway>> BY <1>4, <2>5, Apart DEF CaptureRow
    <3>2. LastIsThere' BY <2>4, <2>5, <3>1, Apart DEF LastIsThere, Removing
    <3> QED BY <2>1, <3>1, <3>2, Apart, PollFrame
  <2>6. CASE op \in Polling
    <3>1. seen' = op.n /\ last' = op.c /\ taken' = taken \cup {op.n}
      BY <1>4, <2>6, Apart DEF CaptureRow, Remember
    <3>2. op.n \in Nat /\ op.n <= board.n /\ (op.n = board.n => op.c = board.c)
      BY <2>6 DEF Polling, ReadIsTrue
    <3>3. seen < op.n /\ ours <= op.n /\ op.n # ours BY <2>2, <2>6 DEF TakenBefore
    <3>4. LastIsThere' BY <2>4, <3>1 DEF LastIsThere
    <3>5. OursIsLast' BY <1>1, <2>1, <3>2, <3>3 DEF OursIsLast
    <3>6. TakenBefore' BY <1>1, <2>1, <3>1, <3>2, <3>3, Apart DEF TakenBefore
    <3> QED BY <3>4, <3>5, <3>6
  <2> QED BY <2>2, <2>5, <2>6
<1> QED BY <1>2, <1>3, <1>4

(* those of a copy,                                                        *)
LEMMA CopyPolls ==
  ASSUME PollInv, NEW c, Copy(c) \/ WriteBoard \/ Touch
  PROVE  (LastIsThere /\ TakenBefore /\ OursIsLast)'
<1> USE DEF PollInv, KeptInv
<1>1. board.n \in Nat /\ seen \in Nat /\ ours \in Nat /\ taken \subseteq Nat BY DEF ClipTypes
<1>2. CASE Copy(c)
  <2>1. UNCHANGED <<board, rows, seen, last, taken, ours, halfway>> /\ op = Idle /\ c \in Present
    BY <1>2 DEF Copy, Call, ghosts
  <2>2. op' \in Copying BY <1>2, <2>1 DEF Copy, Call, Copying, Present
  <2>3. LastIsThere' BY <2>1, <2>2, Apart DEF LastIsThere, Removing, Present
  <2> QED BY <2>1, <2>2, <2>3, Apart, PollFrame
<1>3. CASE WriteBoard
  <2>1. UNCHANGED <<rows, seen, last, taken, ours, halfway>> BY <1>3 DEF WriteBoard, ghosts
  <2>2. op \in Copying BY <1>3, WhoHolds DEF WriteBoard
  <2>3. op.c \in Contents BY <2>2 DEF Copying
  <2>4. board' = [n |-> board.n + 1, c |-> op.c]
        /\ op' = [kind |-> "copy", step |-> "touch", c |-> op.c, n |-> board.n + 1]
    BY <1>3 DEF WriteBoard
  <2>5. /\ op' \in Copied /\ op'.n = board.n + 1 /\ op'.c = op.c
        /\ board'.n = board.n + 1 /\ board'.c = op.c
    BY <1>1, <2>3, <2>4 DEF Copied
  <2>6. LastIsThere' BY <2>1, <2>2, <2>5, Apart DEF LastIsThere, Removing, Present
  <2>7. OursIsLast' BY <1>1, <2>1, <2>5 DEF OursIsLast, TakenBefore
  <2>8. TakenBefore' BY <1>1, <2>1, <2>5, Apart DEF TakenBefore
  <2> QED BY <2>6, <2>7, <2>8
<1>4. CASE Touch
  <2>1. UNCHANGED <<board, taken>> /\ op' = Idle /\ seen' = 0 /\ last' = op.c /\ ours' = op.n
        /\ rows' = [rows EXCEPT ![op.c].at = now]
    BY <1>4 DEF Touch, CountAfterCopy, Unknown
  <2>2. op \in Copied BY <1>4, WhoHolds DEF Touch
  <2>3. op.c \in Contents /\ op.n \in Nat BY <2>2 DEF Copied
  <2>4. op.c \in Present BY <2>2 DEF WorkIsSound
  <2>5. op.c \in Present'
    <3>1. now \in Nat /\ rows \in [Contents -> Row \cup {Gone}] BY DEF ClipTypes
    <3>2. rows[op.c] \in Row BY <2>4, <3>1 DEF Present
    <3>3. [rows[op.c] EXCEPT !.at = now] \in Row BY <3>1, <3>2, RowsAreThere
    <3> QED BY <2>1, <2>3, <3>1, <3>3, RowsAreThere DEF Present
  <2>6. op.n <= board.n /\ (op.n = board.n => op.c = board.c) /\ \A n \in taken : n < op.n
    BY <2>2 DEF TakenBefore
  <2>7. LastIsThere' BY <2>1, <2>5 DEF LastIsThere
  <2>8. OursIsLast' BY <2>1, <2>6 DEF OursIsLast
  <2>9. TakenBefore' BY <1>1, <2>1, <2>3, <2>6, Apart DEF TakenBefore
  <2> QED BY <2>7, <2>8, <2>9
<1> QED BY <1>2, <1>3, <1>4

(* marks and edits,                                                        *)
LEMMA EditPolls ==
  ASSUME PollInv, NEW c, NEW d, NEW b,
         \/ b \in BOOLEAN /\ (Mark(c, "favorite", b) \/ Mark(c, "noted", b))
         \/ Edit(c, d) \/ EditRow
  PROVE  (LastIsThere /\ TakenBefore /\ OursIsLast)'
<1> USE DEF PollInv, KeptInv
<1>1. UNCHANGED <<board, seen, last, taken, ours, halfway>> BY DEF Mark, Edit, EditRow, ghosts
<1>2. CASE b \in BOOLEAN /\ (Mark(c, "favorite", b) \/ Mark(c, "noted", b))
  <2>1. op' = op /\ op = Idle BY <1>2 DEF Mark
  <2>2. Present' = Present BY <1>2, MarkedRows
  <2>3. LastIsThere' BY <1>1, <2>1, <2>2, Apart DEF LastIsThere, Removing
  <2> QED BY <1>1, <2>1, <2>3, Apart, PollFrame
<1>3. CASE Edit(c, d)
  <2>1. UNCHANGED rows /\ op = Idle /\ op' \in Editing BY <1>3 DEF Edit, Call, Editing
  <2>2. LastIsThere' BY <1>1, <2>1, Apart DEF LastIsThere, Removing, Present
  <2> QED BY <1>1, <2>1, <2>2, Apart, PollFrame
<1>4. CASE EditRow
  <2>1. op \in Editing BY <1>4, WhoHolds DEF EditRow
  <2>2. op' \in Cleaning /\ op'.count = 1 BY <1>4, <2>1, ClipboardAssumption DEF EditRow, Editing, Cleaning
  <2>3. Removing' BY <2>2 DEF Removing
  <2>4. LastIsThere' BY <2>3 DEF LastIsThere
  <2> QED BY <1>1, <2>2, <2>4, Apart, PollFrame
<1> QED BY <1>2, <1>3, <1>4

(* categories that go,                                                     *)
LEMMA CategoryPolls ==
  ASSUME PollInv, NEW items, NEW remarked, DeleteCategory(items, remarked)
  PROVE  (LastIsThere /\ TakenBefore /\ OursIsLast)'
<1> USE DEF PollInv, KeptInv
<1>1. UNCHANGED <<board, seen, last, taken, ours, halfway>> /\ op' = op /\ op = Idle
  BY DEF DeleteCategory, ghosts
<1>2. Present' = Present BY CategoryRows
<1>3. LastIsThere' BY <1>1, <1>2, Apart DEF LastIsThere, Removing
<1> QED BY <1>1, <1>3, Apart, PollFrame

(* removals, which forget a hash that is no longer an item's,              *)
LEMMA RemovePolls ==
  ASSUME PollInv, NEW c, NEW t,
         Delete(c) \/ Purge(t) \/ ClearHistory \/ RemoveBatch \/ Clean(c) \/ NextBatch \/ Removed
  PROVE  (LastIsThere /\ TakenBefore /\ OursIsLast)'
<1> USE DEF PollInv, KeptInv
<1>1. board.n \in Nat /\ seen \in Nat /\ ours \in Nat /\ taken \subseteq Nat BY DEF ClipTypes
<1>2. CASE Purge(t) \/ ClearHistory
  <2>1. UNCHANGED <<board, rows, seen, last, taken, ours, halfway>> /\ op = Idle
    BY <1>2 DEF Purge, ClearHistory, Call, ghosts
  <2>2. op' \in Sweeping
    <3>1. CASE Purge(t) BY <3>1 DEF Purge, Call, Sweeping, ClipTypes
    <3>2. CASE ClearHistory BY <3>2 DEF ClearHistory, Call, Sweeping
    <3> QED BY <1>2, <3>1, <3>2
  <2>3. LastIsThere' BY <2>1, <2>2, Apart DEF LastIsThere, Removing, Present
  <2> QED BY <2>1, <2>2, <2>3, Apart, PollFrame
<1>3. CASE Delete(c)
  <2>1. UNCHANGED <<board, seen, last, taken, ours, halfway>> BY <1>3 DEF Delete, ghosts
  <2>2. op' \in Cleaning /\ op'.count = 1 BY <1>3 DEF Delete, Call, Cleaning, Present
  <2>3. Removing' BY <2>2 DEF Removing
  <2>4. LastIsThere' BY <2>3 DEF LastIsThere
  <2> QED BY <2>1, <2>2, <2>4, Apart, PollFrame
<1>4. CASE RemoveBatch
  <2>1. UNCHANGED <<board, seen, last, taken, ours, halfway>> BY <1>4 DEF RemoveBatch, ghosts
  <2>2. op \in Sweeping BY <1>4, WhoHolds DEF RemoveBatch
  <2>3. PICK gone \in SUBSET Removable :
          /\ rows' = [x \in Contents |-> IF x \in gone THEN Gone ELSE rows[x]]
          /\ op' = [kind |-> op.kind, step |-> "clean", cutoff |-> op.cutoff,
                    count |-> op.count + Cardinality(gone),
                    left |-> gone, more |-> Cardinality(gone) = Batch]
    BY <1>4 DEF RemoveBatch, kSubset
  <2>4. gone \in SUBSET Present BY <2>3 DEF Removable
  <2>5. gone \in SUBSET Contents BY <2>4 DEF Present
  <2>6. IsFiniteSet(gone) BY <2>4, FS_Subset DEF ClipTypes
  <2>7. Cardinality(gone) \in Nat /\ (Cardinality(gone) = 0 <=> gone = {})
    BY <2>6, FS_CardinalityType, FS_EmptySet
  <2>8. op.count \in Nat /\ op.kind \in {"purge", "clear"} /\ op.cutoff \in Nat BY <2>2 DEF Sweeping
  <2>9. op' \in Swept /\ op'.count = op.count + Cardinality(gone)
    BY <2>3, <2>5, <2>7, <2>8 DEF Swept
  <2>10. LastIsThere'
    <3>1. CASE op.count > 0 \/ gone # {}
      <4>1. Removing' BY <2>7, <2>8, <2>9, <3>1 DEF Removing
      <4> QED BY <4>1 DEF LastIsThere
    <3>2. CASE op.count = 0 /\ gone = {}
      <4>1. Present' = Present BY <2>3, <3>2 DEF Present
      <4> QED BY <2>1, <3>2, <4>1 DEF LastIsThere, Removing
    <3> QED BY <2>8, <3>1, <3>2
  <2> QED BY <2>1, <2>9, <2>10, Apart, PollFrame
<1>5. CASE Clean(c) \/ NextBatch
  <2>1. UNCHANGED <<board, rows, seen, last, taken, ours, halfway>> BY <1>5 DEF Clean, NextBatch, ghosts
  <2>2. op \in Swept \cup Cleaning BY <1>5, WhoHolds DEF Clean, NextBatch
  <2>3. op' \in Sweeping \cup Swept \cup Cleaning /\ op'.count = op.count
    <3>1. CASE Clean(c) BY <2>2, <3>1 DEF Clean, Swept, Cleaning
    <3>2. CASE NextBatch
      <4>1. op \in Swept BY <2>2, <3>2 DEF NextBatch, Cleaning
      <4> QED BY <3>2, <4>1 DEF NextBatch, Swept, Sweeping
    <3> QED BY <1>5, <3>1, <3>2
  <2>4. LastIsThere' BY <2>1, <2>2, <2>3 DEF LastIsThere, Removing, Present
  <2> QED BY <2>1, <2>3, <2>4, Apart, PollFrame
<1>6. CASE Removed
  <2>1. UNCHANGED <<board, rows, seen, taken>> /\ op' = Idle BY <1>6 DEF Removed
  <2>2. CASE Forgets
    <3>1. last' = Empty /\ ours' = 0 BY <1>6, <2>2 DEF Removed, Unknown
    <3>2. LastIsThere' BY <3>1 DEF LastIsThere
    <3>3. OursIsLast' BY <3>1 DEF OursIsLast, Unknown
    <3>4. TakenBefore' BY <1>1, <2>1, <3>1, Apart DEF TakenBefore
    <3> QED BY <3>2, <3>3, <3>4
  <2>3. CASE ~Forgets
    <3>1. last' = last /\ ours' = ours /\ halfway' = halfway BY <1>6, <2>3 DEF Removed, ClipTypes
    <3>2. ~Removing BY <2>3 DEF Forgets, Removing
    <3>3. LastIsThere' BY <2>1, <3>1, <3>2 DEF LastIsThere, Present
    <3> QED BY <2>1, <3>1, <3>3, Apart, PollFrame
  <2> QED BY <2>2, <2>3
<1> QED BY <1>2, <1>3, <1>4, <1>5, <1>6

(* and failures, which leave it halfway.                                   *)
LEMMA FailurePolls ==
  ASSUME PollInv, Fail \/ Crash
  PROVE  (LastIsThere /\ TakenBefore /\ OursIsLast)'
<1> USE DEF PollInv, KeptInv
<1>1. CASE Fail
  <2>1. UNCHANGED <<board, rows, seen, last, taken, ours>> /\ op' = Idle BY <1>1 DEF Fail
  <2>2. Removing => halfway'
    <3> SUFFICES ASSUME Removing PROVE halfway' OBVIOUS
    <3>1. (op.kind # "poll" /\ op.step = "clean") \/ (op.kind \in {"purge", "clear"} /\ op.count > 0)
      BY Apart DEF Removing
    <3> QED BY <1>1, <3>1 DEF Fail
  <2>3. halfway => halfway' BY <1>1 DEF Fail
  <2>4. LastIsThere' BY <2>1, <2>2, <2>3 DEF LastIsThere, Present
  <2> QED BY <2>1, <2>4, Apart, PollFrame
<1>2. CASE Crash
  <2>1. /\ board' = board /\ op' = Idle /\ seen' = 0 /\ last' = Empty
        /\ taken' = {} /\ ours' = 0
    BY <1>2 DEF Crash, Unknown
  <2>2. LastIsThere' BY <2>1 DEF LastIsThere
  <2>3. OursIsLast' BY <2>1 DEF OursIsLast, Unknown
  <2>4. board.n \in Nat BY DEF ClipTypes
  <2>5. TakenBefore' BY <2>1, <2>4, Apart DEF TakenBefore
  <2> QED BY <2>2, <2>3, <2>5
<1> QED BY <1>1, <1>2

(* So every step preserves it.                                             *)
LEMMA PollInvSteps == PollInv /\ [ClipboardNext]_bvars => PollInv'
<1> SUFFICES ASSUME PollInv, [ClipboardNext]_bvars PROVE (LastIsThere /\ TakenBefore /\ OursIsLast)'
  BY KeptSteps DEF PollInv
<1>1. CASE ClipboardNext
  BY <1>1, OutsidePolls, PollPolls, CapturePolls, CopyPolls, EditPolls, CategoryPolls, RemovePolls, FailurePolls
     DEF ClipboardNext
<1>2. CASE UNCHANGED bvars
  BY <1>2 DEF bvars, PollInv, LastIsThere, Removing, TakenBefore, OursIsLast, Present
<1> QED BY <1>1, <1>2

(* It holds in every reachable state.                                      *)
LEMMA PollInvHolds == ClipboardSpec => []PollInv
BY PollInvStarts, PollInvSteps, PTL DEF ClipboardSpec

(* A version is passed over only after its content was saved or refused.   *)
LEMMA SeenThenSaved == PollInv /\ ClipboardNext => SeenIsSaved
<1> SUFFICES ASSUME PollInv, ClipboardNext, seen' # seen, seen' = board.n, ~halfway
             PROVE  board.c = Empty \/ rows'[board.c] # Gone
  BY DEF SeenIsSaved
<1> USE DEF PollInv, KeptInv
<1>1. board.n \in Nat \ {0} /\ rows \in [Contents -> Row \cup {Gone}] BY DEF ClipTypes
<1>2. CASE CheckRead
  <2>1. op \in Polling BY <1>2, WhoHolds DEF CheckRead
  <2>2. rows' = rows /\ seen' = op.n /\ (op.c = Empty \/ op.c = last) BY <1>2 DEF CheckRead
  <2>3. op.c = board.c BY <2>1, <2>2 DEF ReadIsTrue
  <2>4. ~Removing BY <2>1, Apart DEF Removing
  <2>5. last = Empty \/ last \in Present BY <2>4 DEF LastIsThere
  <2> QED BY <2>2, <2>3, <2>5 DEF Present
<1>3. CASE CaptureRow
  <2>1. op \in Polling /\ op.step = "row" /\ seen' = op.n
    BY <1>3, WhoHolds, Apart DEF CaptureRow, Remember
  <2>2. op.c = board.c BY <2>1 DEF ReadIsTrue
  <2>3. op.c \in Contents BY <2>1 DEF WorkIsSound, Saving
  <2>4. op.c \in Present' BY <1>3, <2>3, CapturedRow DEF CaptureRow
  <2> QED BY <2>2, <2>4 DEF Present
<1>4. CASE Touch \/ Crash BY <1>1, <1>4 DEF Touch, Crash, CountAfterCopy, Unknown
<1>5. CheckRead \/ CaptureRow \/ Touch \/ Crash
  BY DEF ClipboardNext, Paste, Read, Tick, Poll, WriteFile, WriteBoard, AddText, Copy, Delete, Clean,
         Mark, DeleteCategory, Edit, EditRow, Purge, ClearHistory, RemoveBatch, NextBatch, Removed, Fail
<1> QED BY <1>2, <1>3, <1>4, <1>5

(* The poll captures no version twice and none that a copy wrote, however  *)
(* polls, copies and failures interleave.                                  *)
LEMMA TakenNewly == PollInv => TakenOnce
<1> SUFFICES ASSUME PollInv, op.kind = "poll", op.step = "row"
             PROVE  op.n \notin taken /\ op.n # ours
  BY DEF TakenOnce, PollCaptures
<1> USE DEF PollInv, KeptInv
<1>1. op \in Polling BY WhoHolds
<1> QED BY <1>1 DEF TakenBefore

(* Nothing but its own deletion, or an edit into an equal item, removes a  *)
(* favorite.                                                               *)
LEMMA FavoritesAreKept == PollInv /\ ClipboardNext => FavoritesStay
<1> SUFFICES ASSUME PollInv, ClipboardNext,
                    NEW c \in Contents, rows[c] # Gone, rows[c].favorite, rows'[c] = Gone
             PROVE  \/ op'.kind = "delete"
                    \/ op.kind = "edit" /\ rows'[op.c] # Gone /\ rows'[op.c].favorite
  BY DEF FavoritesStay
<1> USE DEF PollInv, KeptInv
<1>1. rows \in [Contents -> Row \cup {Gone}] /\ now \in Nat BY DEF ClipTypes
<1>2. rows' # rows OBVIOUS
<1>3. CASE \E x : Delete(x) BY <1>3 DEF Delete, Call
<1>4. CASE EditRow
  <2>1. op \in Editing /\ op.kind = "edit" /\ rows' = Edited(op.from, op.c)
    BY <1>4, WhoHolds DEF EditRow
  <2>2. op.from \in Present /\ op.from \in Contents /\ op.c \in Contents
    BY <2>1, ClipboardAssumption DEF Editing, WorkIsSound
  <2>3. op.from # op.c BY <1>2, <2>1 DEF Edited
  <2> DEFINE r == IF rows[op.c] = Gone THEN [rows[op.from] EXCEPT !.changed = now]
                  ELSE Merged(op.from, op.c)
  <2>4. rows' = [rows EXCEPT ![op.from] = Gone, ![op.c] = r] BY <1>1, <2>1, <2>2, <2>3 DEF Edited
  <2>5. rows'[op.c] = r BY <1>1, <2>2, <2>4
  <2>6. rows[op.from] \in Row BY <1>1, <2>2 DEF Present
  <2>7. c = op.from
    <3>1. r # Gone
      <4>1. CASE rows[op.c] = Gone BY <1>1, <2>6, <4>1, RowsAreThere
      <4>2. CASE rows[op.c] # Gone
        <5>1. rows[op.c] \in Row BY <1>1, <2>2, <4>2
        <5>2. Merged(op.from, op.c) \in Row BY <1>1, <2>6, <5>1 DEF Merged, Row
        <5> QED BY <4>2, <5>2, RowsAreThere
      <4> QED BY <4>1, <4>2
    <3> QED BY <1>1, <2>2, <2>4, <3>1
  <2>8. r # Gone /\ r.favorite
    <3>1. CASE rows[op.c] = Gone
      <4>1. r = [rows[op.from] EXCEPT !.changed = now] BY <3>1
      <4>2. r \in Row BY <1>1, <2>6, <4>1, RowsAreThere, ZenonT(60)
      <4>3. r.favorite = rows[op.from].favorite BY <2>6, <4>1 DEF Row
      <4> QED BY <2>7, <4>2, <4>3, RowsAreThere
    <3>2. CASE rows[op.c] # Gone
      <4>1. r = Merged(op.from, op.c) BY <3>2
      <4>2. rows[op.c] \in Row BY <1>1, <2>2, <3>2
      <4>3. r \in Row BY <1>1, <2>6, <4>1, <4>2 DEF Merged, Row
      <4>4. r.favorite = (rows[op.from].favorite \/ rows[op.c].favorite)
        BY <1>1, <2>6, <4>1, <4>2 DEF Merged, Row
      <4> QED BY <2>7, <4>3, <4>4, RowsAreThere
    <3> QED BY <3>1, <3>2
  <2> QED BY <2>1, <2>5, <2>8
<1>5. CASE RemoveBatch
  <2>1. c \in Removable BY <1>1, <1>5 DEF RemoveBatch, kSubset
  <2> QED BY <2>1 DEF Removable
<1>6. CASE CaptureRow
  <2>1. op.c \in Contents BY <1>6, WhoHolds DEF CaptureRow, WorkIsSound, Saving
  <2>2. Present \subseteq Present' BY <1>6, <2>1, CapturedRow DEF CaptureRow
  <2> QED BY <2>2 DEF Present
<1>7. CASE Touch
  <2>1. op \in Copied BY <1>7, WhoHolds DEF Touch
  <2>2. op.c \in Present BY <2>1 DEF WorkIsSound
  <2>3. rows[op.c] \in Row /\ op.c \in Contents BY <1>1, <2>2 DEF Present
  <2>4. rows' = [rows EXCEPT ![op.c].at = now] BY <1>7 DEF Touch
  <2>5. [rows[op.c] EXCEPT !.at = now] \in Row BY <1>1, <2>3, RowsAreThere
  <2> QED BY <1>1, <2>3, <2>4, <2>5, RowsAreThere
<1>8. CASE \E x \in Contents, b \in BOOLEAN : Mark(x, "favorite", b) \/ Mark(x, "noted", b)
  <2>1. Present' = Present BY <1>8, MarkedRows
  <2> QED BY <2>1 DEF Present
<1>9. CASE \E items, remarked : DeleteCategory(items, remarked)
  <2>1. Present' = Present BY <1>9, CategoryRows
  <2> QED BY <2>1 DEF Present
<1>10. \/ \E x : Delete(x)
       \/ EditRow \/ RemoveBatch \/ CaptureRow \/ Touch
       \/ \E x \in Contents, b \in BOOLEAN : Mark(x, "favorite", b) \/ Mark(x, "noted", b)
       \/ \E items, remarked : DeleteCategory(items, remarked)
  BY <1>2 DEF ClipboardNext, Paste, Read, CheckRead, Tick, Poll, WriteFile, WriteBoard, AddText, Copy,
         Clean, Edit, Purge, ClearHistory, NextBatch, Removed, Fail, Crash
<1> QED BY <1>3, <1>4, <1>5, <1>6, <1>7, <1>8, <1>9, <1>10

(* What was copied is captured, once, and favorites stay: HistoryTrue, a   *)
(* property of every step, proved from PollInv.                            *)
THEOREM HistoryIsTrue == ClipboardSpec => HistoryTrue
<1>1. PollInv /\ [ClipboardNext]_bvars => [SeenIsSaved /\ TakenOnce /\ FavoritesStay]_bvars
  BY SeenThenSaved, TakenNewly, FavoritesAreKept
<1> QED BY <1>1, PollInvHolds, PTL DEF ClipboardSpec, HistoryTrue

(***************************************************************************)
(* NativeAccount: the account service.                                     *)
(***************************************************************************)

(* What the fields range over.                                             *)
Answers == [code : {"none", "ok", "error", "cancelled"}, pair : Nat, checkpoint : BOOLEAN]
Hosts == {"idle", "awaits", "accepts", "reads", "releases", "ended"}
Tasks == {"none", "spawned", "resumed", "driving", "calling", "returned"}
Contexts == Accounts \cup {NoAccount}

(* What the variables range over.                                          *)
NativeTypes ==
  /\ host \in [Operations -> Hosts] /\ offered \in [Operations -> Nat]
  /\ operations \subseteq Operations
  /\ task \in [Operations -> [at : Tasks, answer : Answers]]
  /\ core \in [Operations -> [cancel : BOOLEAN, stopped : BOOLEAN, pair : Nat]]
  /\ closing \in [at : {"open", "closed", "clear", "done"}]
                 \cup [at : {"drain"}, left : SUBSET Operations]

(* The future is at work only while the host awaits it.                    *)
TaskAwaited(o) ==
  /\ host[o] = "idle" => task[o].at = "none"
  /\ host[o] = "awaits" => task[o].at # "none"
  /\ host[o] \in {"accepts", "reads", "releases"} => task[o].at = "returned"
  /\ host[o] = "ended" => task[o].at \in {"none", "returned"}

(* An operation is under way.                                              *)
Busy(o) == host[o] \notin {"idle", "ended"}

(* The map holds the operations under way, until the service takes them.   *)
MapHolds(o) ==
  /\ o \in operations => Busy(o) /\ closing.at \in {"open", "closed"}
  /\ closing.at \in {"open", "closed"} /\ Busy(o) => o \in operations

(* The host has the core's pair, or the answer it awaits brings it.        *)
PairOffered(o) ==
  IF host[o] = "awaits" /\ task[o].at = "returned" /\ task[o].answer.pair # 0
  THEN task[o].answer.pair = core[o].pair
  ELSE offered[o] = core[o].pair

(* An abort stops the core of whatever it found under way.                 *)
AbortStops(o) == closing.at = "open" /\ o \in aborted /\ Busy(o) => core[o].cancel

(* What was taken and waited for does not go to work again.                *)
Quiet(o) == Busy(o) => core[o].stopped /\ task[o].at \notin {"driving", "calling"}
(* Once the service has waited for an operation it stays quiet.            *)
DrainQuiets(o) ==
  closing.at \in {"clear", "done"} \/ (closing.at = "drain" /\ o \notin closing.left) => Quiet(o)

(* What is true of each operation, whatever the others do.                 *)
OperationInv(o) ==
  TaskAwaited(o) /\ MapHolds(o) /\ PairOffered(o) /\ AbortStops(o) /\ DrainQuiets(o)

(* ... of all operations,                                                  *)
OperationsInv == NativeTypes /\ heard = {} /\ \A o \in Operations : OperationInv(o)

(* and of the requests of the renderer: what they range over,              *)
RequestTypes ==
  request \in [Requests -> [at : {"idle", "over"}] \cup [at : {"prepared"}, under : Contexts]
                           \cup [at : {"ready", "sent", "answered"}, under : Contexts, as : Contexts]]
  /\ requests \in [Requests -> Contexts] /\ account \in Contexts

(* A context is lost only to the service's end, which is seen before the   *)
(* request is sent.                                                        *)
ContextHeld ==
  \A t \in Requests : request[t].at \in {"prepared", "ready", "sent"} /\ request[t].under # NoAccount =>
    /\ request[t].at = "prepared" => requests[t] = request[t].under \/ Ended
    /\ request[t].at = "ready" => request[t].as = request[t].under \/ Ended
    /\ request[t].at = "sent" => request[t].as = request[t].under

(* and what they keep.                                                     *)
RequestsInv == RequestTypes /\ ContextHeld
(* The inductive invariant of the account service.                         *)
NativeInv == OperationsInv /\ RequestsInv

(* A fresh service satisfies it.                                           *)
LEMMA NativeStarts == NativeInit => NativeInv
<1> SUFFICES ASSUME NativeInit PROVE NativeInv OBVIOUS
<1>1. NativeTypes BY DEF NativeInit, NativeTypes, Hosts, Tasks, Answers, NoAnswer
<1>2. ASSUME NEW o \in Operations PROVE OperationInv(o)
  BY DEF NativeInit, OperationInv, TaskAwaited, MapHolds, PairOffered, AbortStops, DrainQuiets, Quiet, Busy
<1>3. RequestTypes BY DEF NativeInit, RequestTypes, Contexts
<1>4. ContextHeld BY DEF NativeInit, ContextHeld
<1>5. heard = {} BY DEF NativeInit
<1> QED BY <1>1, <1>2, <1>3, <1>4, <1>5 DEF NativeInv, OperationsInv, RequestsInv

(* An operation that a step does not touch.                                *)
LEMMA OthersStay ==
  ASSUME NEW o, OperationInv(o),
         host'[o] = host[o], offered'[o] = offered[o], task'[o] = task[o], core'[o] = core[o],
         o \in operations' <=> o \in operations, o \in aborted' <=> o \in aborted, closing' = closing
  PROVE  OperationInv(o)'
BY DEF OperationInv, TaskAwaited, MapHolds, PairOffered, AbortStops, DrainQuiets, Quiet, Busy

(* The future's own steps.                                                 *)
LEMMA TaskKeeps ==
  ASSUME OperationsInv, NEW o \in Operations,
         BeginTask(o) \/ EnterPhase(o) \/ SeeClosed(o)
         \/ \E error, rotated, more \in BOOLEAN : Reply(o, error, rotated, more)
  PROVE  OperationsInv'
<1> USE DEF OperationsInv
<1>1. UNCHANGED <<host, aborted, offered, operations, closing>>
  BY DEF BeginTask, EnterPhase, SeeClosed, Reply
<1>2. task[o] \in [at : Tasks, answer : Answers]
      /\ core[o] \in [cancel : BOOLEAN, stopped : BOOLEAN, pair : Nat]
  BY DEF NativeTypes
<1>3. host[o] = "awaits" /\ Busy(o)
  BY DEF BeginTask, EnterPhase, SeeClosed, Reply, OperationInv, TaskAwaited, NativeTypes, Hosts, Busy
<1>4. \E t \in [at : Tasks, answer : Answers], c \in [cancel : BOOLEAN, stopped : BOOLEAN, pair : Nat] :
        /\ task' = [task EXCEPT ![o] = t] /\ core' = [core EXCEPT ![o] = c]
        /\ c.stopped = core[o].stopped /\ (core[o].cancel => c.cancel)
        /\ t.at # "none"
        /\ t.at \in {"driving", "calling"} /\ core[o].stopped => task[o].at \in {"driving", "calling"}
        /\ \/ t.at = "returned" /\ t.answer.pair # 0 /\ t.answer.pair = c.pair
           \/ t.at = "returned" /\ t.answer.pair = 0 /\ c.pair = core[o].pair /\ task[o].at # "returned"
           \/ t.at # "returned" /\ c.pair = core[o].pair /\ task[o].at # "returned"
  <2>1. CASE BeginTask(o)
    <3> DEFINE t == IF core[o].stopped \/ (task[o].at = "resumed" /\ core[o].cancel)
                    THEN [at |-> "returned",
                          answer |-> [code |-> "cancelled", pair |-> core[o].pair, checkpoint |-> FALSE]]
                    ELSE [at |-> "driving", answer |-> task[o].answer]
    <3>1. task' = [task EXCEPT ![o] = t] BY <1>2, <2>1 DEF BeginTask, Answer, Returned
    <3>2. core' = [core EXCEPT ![o] = core[o]] BY <2>1 DEF BeginTask, NativeTypes
    <3>3. t \in [at : Tasks, answer : Answers] BY <1>2 DEF Tasks, Answers
    <3>4. task[o].at # "returned" BY <2>1 DEF BeginTask
    <3> QED BY <1>2, <3>1, <3>2, <3>3, <3>4
  <2>2. CASE EnterPhase(o)
    <3> DEFINE t == IF core[o].stopped
                    THEN [at |-> "returned",
                          answer |-> [code |-> "cancelled", pair |-> 0, checkpoint |-> FALSE]]
                    ELSE IF core[o].cancel
                    THEN [at |-> "returned",
                          answer |-> [code |-> "cancelled", pair |-> core[o].pair, checkpoint |-> FALSE]]
                    ELSE [at |-> "calling", answer |-> task[o].answer]
    <3>1. task' = [task EXCEPT ![o] = t] BY <1>2, <2>2 DEF EnterPhase, Answer, Returned
    <3>2. core' = [core EXCEPT ![o] = core[o]] BY <2>2 DEF EnterPhase, NativeTypes
    <3>3. t \in [at : Tasks, answer : Answers] BY <1>2 DEF Tasks, Answers
    <3>4. task[o].at = "driving" BY <2>2 DEF EnterPhase
    <3> QED BY <1>2, <3>1, <3>2, <3>3, <3>4, ZenonT(60)
  <2>3. CASE SeeClosed(o)
    <3> DEFINE c == [core[o] EXCEPT !.cancel = TRUE]
    <3>1. task' = [task EXCEPT ![o] = task[o]] BY <2>3 DEF SeeClosed, NativeTypes
    <3>2. core' = [core EXCEPT ![o] = c] BY <1>2, <2>3 DEF SeeClosed
    <3>3. c \in [cancel : BOOLEAN, stopped : BOOLEAN, pair : Nat] BY <1>2
    <3>4. task[o].at \notin {"none", "returned"} BY <2>3 DEF SeeClosed
    <3> QED BY <1>2, <3>1, <3>2, <3>3, <3>4
  <2>4. CASE \E error, rotated, more \in BOOLEAN : Reply(o, error, rotated, more)
    <3>1. PICK error, rotated, more \in BOOLEAN : Reply(o, error, rotated, more) BY <2>4
    <3> DEFINE pair == core[o].pair + (IF rotated THEN 1 ELSE 0)
               code == IF core[o].cancel \/ core[o].stopped THEN "cancelled"
                       ELSE IF error THEN "error" ELSE "ok"
               c == [cancel |-> core[o].cancel, stopped |-> core[o].stopped, pair |-> pair]
    <3>2. core' = [core EXCEPT ![o].pair = pair] BY <3>1 DEF Reply
    <3>3. core' = [core EXCEPT ![o] = c]
      <4>1. core'[o] = c BY <1>2, <3>2 DEF NativeTypes
      <4> QED BY <3>2, <4>1 DEF NativeTypes
    <3>4. task[o].at = "calling" BY <3>1 DEF Reply
    <3>5. pair \in Nat /\ (rotated => pair # 0) /\ (~rotated => pair = core[o].pair)
      BY <1>2
    <3>6. code \in {"cancelled", "error", "ok"} OBVIOUS
    <3>7. \/ ~rotated /\ task' = [task EXCEPT ![o].at = "driving"]
          \/ task' = Answer(o, code, pair, more)
      BY <3>1 DEF Reply
    <3> HIDE DEF pair, code
    <3>8. c \in [cancel : BOOLEAN, stopped : BOOLEAN, pair : Nat] BY <1>2, <3>5
    <3>9. c.stopped = core[o].stopped /\ c.cancel = core[o].cancel /\ c.pair = pair OBVIOUS
    <3>10. CASE ~rotated /\ task' = [task EXCEPT ![o].at = "driving"]
      <4> DEFINE t == [at |-> "driving", answer |-> task[o].answer]
      <4>1. t \in [at : Tasks, answer : Answers] BY <1>2 DEF Tasks
      <4>2. task' = [task EXCEPT ![o] = t]
        <5>1. task' = [task EXCEPT ![o] = [task[o] EXCEPT !.at = "driving"]] BY <3>10
        <5>2. [task[o] EXCEPT !.at = "driving"] = t BY <1>2
        <5> QED BY <5>1, <5>2
      <4>3. t.at = "driving" OBVIOUS
      <4> HIDE DEF t, c
      <4> QED BY <3>3, <3>4, <3>5, <3>8, <3>9, <3>10, <4>1, <4>2, <4>3
    <3>11. CASE task' = Answer(o, code, pair, more)
      <4> DEFINE a == [code |-> code, pair |-> pair, checkpoint |-> more /\ code = "ok"]
                 t == [at |-> "returned", answer |-> a]
      <4>1. a \in Answers BY <3>5, <3>6 DEF Answers
      <4>2. t \in [at : Tasks, answer : Answers] BY <4>1 DEF Tasks
      <4>3. task' = [task EXCEPT ![o] = t] BY <3>11 DEF Answer, Returned
      <4>4. t.at = "returned" /\ t.answer.pair = pair OBVIOUS
      <4> HIDE DEF t, c
      <4> QED BY <3>3, <3>4, <3>5, <3>8, <3>9, <4>2, <4>3, <4>4
    <3> QED BY <3>7, <3>10, <3>11
  <2> QED BY <2>1, <2>2, <2>3, <2>4
<1>5. heard' = {}
  <2>1. CASE EnterPhase(o) BY <1>3, <2>1 DEF EnterPhase, OperationInv, AbortStops, Ended
  <2>2. CASE ~EnterPhase(o) BY <2>2 DEF BeginTask, SeeClosed, Reply
  <2> QED BY <2>1, <2>2
<1>6. PICK t \in [at : Tasks, answer : Answers], c \in [cancel : BOOLEAN, stopped : BOOLEAN, pair : Nat] :
        <1>4!(t, c)
  BY <1>4
<1>7. task'[o] = t /\ core'[o] = c BY <1>6 DEF NativeTypes
<1>8. OperationInv(o)'
  BY <1>1, <1>2, <1>3, <1>6, <1>7
     DEF OperationInv, TaskAwaited, MapHolds, PairOffered, AbortStops, DrainQuiets, Quiet, Busy
<1>9. ASSUME NEW x \in Operations, x # o PROVE OperationInv(x)'
  BY <1>1, <1>6, <1>9, OthersStay DEF NativeTypes
<1>10. NativeTypes' BY <1>1, <1>6 DEF NativeTypes
<1> QED BY <1>5, <1>8, <1>9, <1>10

(* A step that changes what is kept of one operation alone.                *)
ChangesOne(o, h, f, t, c, in) ==
  /\ host' = [host EXCEPT ![o] = h] /\ offered' = [offered EXCEPT ![o] = f]
  /\ task' = [task EXCEPT ![o] = t] /\ core' = [core EXCEPT ![o] = c]
  /\ operations' = IF in THEN operations \cup {o} ELSE operations \ {o}
  /\ aborted \subseteq aborted' /\ aborted' \subseteq aborted \cup {o}
  /\ UNCHANGED <<closing, heard>>

(* Such a step preserves the invariant when the operation it changes       *)
(* satisfies it afterwards: the others stay as they were.                  *)
LEMMA ChangeKeeps ==
  ASSUME OperationsInv, NEW o \in Operations,
         NEW h \in Hosts, NEW f \in Nat, NEW t \in [at : Tasks, answer : Answers],
         NEW c \in [cancel : BOOLEAN, stopped : BOOLEAN, pair : Nat], NEW in,
         ChangesOne(o, h, f, t, c, in), OperationInv(o)'
  PROVE  OperationsInv'
<1>1. NativeTypes' BY DEF NativeTypes, OperationsInv, ChangesOne
<1>2. ASSUME NEW x \in Operations, x # o PROVE OperationInv(x)'
  BY <1>2, OthersStay DEF NativeTypes, OperationsInv, ChangesOne
<1> QED BY <1>1, <1>2 DEF OperationsInv, ChangesOne

(* The host's steps.                                                       *)
LEMMA HostKeeps ==
  ASSUME OperationsInv, NEW o \in Operations,
         Execute(o) \/ Abort(o) \/ Consume(o) \/ ReadResult(o) \/ Release(o)
         \/ \E accepted \in BOOLEAN : Accept(o, accepted)
  PROVE  OperationsInv'
<1>1. NativeTypes /\ OperationInv(o) /\ operations \subseteq Operations BY DEF OperationsInv, NativeTypes
<1>2. task[o] \in [at : Tasks, answer : Answers]
      /\ core[o] \in [cancel : BOOLEAN, stopped : BOOLEAN, pair : Nat]
      /\ host[o] \in Hosts /\ offered[o] \in Nat
  BY <1>1 DEF NativeTypes
<1> DEFINE Cancel == IF o \in operations THEN [core[o] EXCEPT !.cancel = TRUE] ELSE core[o]
<1>3. Cancelled(o) = [core EXCEPT ![o] = Cancel]
  <2>1. core = [core EXCEPT ![o] = core[o]] BY <1>1 DEF NativeTypes
  <2>2. [core EXCEPT ![o].cancel = TRUE] = [core EXCEPT ![o] = [core[o] EXCEPT !.cancel = TRUE]] OBVIOUS
  <2> QED BY <2>1, <2>2 DEF Cancelled, Cancels
<1>4. Cancel \in [cancel : BOOLEAN, stopped : BOOLEAN, pair : Nat] BY <1>2
<1>5. /\ core[o].cancel \/ o \in operations => Cancel.cancel
      /\ Cancel.stopped = core[o].stopped /\ Cancel.pair = core[o].pair
  BY <1>2
<1> HIDE DEF Cancel
<1>6. CASE Execute(o)
  <2> DEFINE t == [at |-> "spawned", answer |-> task[o].answer]
  <2>1. t \in [at : Tasks, answer : Answers] BY <1>2 DEF Tasks
  <2>2. CASE o \notin aborted /\ Available
    <3>1. ChangesOne(o, "awaits", offered[o], t, core[o], TRUE)
      BY <1>1, <1>2, <1>6, <2>2 DEF ChangesOne, Execute, NativeTypes
    <3>2. OperationInv(o)'
      BY <1>1, <1>2, <1>5, <1>6, <2>2, <3>1
         DEF ChangesOne, Execute, Available, NativeTypes, OperationInv,
             TaskAwaited, MapHolds, PairOffered, AbortStops, DrainQuiets, Quiet, Busy
    <3> QED BY ChangeKeeps, <1>2, <2>1, <3>1, <3>2 DEF Hosts
  <2>3. CASE ~(o \notin aborted /\ Available)
    <3>1. o \notin operations BY <1>1, <1>6 DEF Execute, OperationInv, MapHolds, Busy
    <3>2. ChangesOne(o, "ended", offered[o], task[o], core[o], FALSE)
      BY <1>1, <1>2, <1>6, <2>3, <3>1 DEF ChangesOne, Execute, NativeTypes
    <3>3. OperationInv(o)'
      BY <1>1, <1>2, <1>5, <1>6, <2>3, <3>2
         DEF ChangesOne, Execute, NativeTypes, OperationInv,
             TaskAwaited, MapHolds, PairOffered, AbortStops, DrainQuiets, Quiet, Busy
    <3> QED BY ChangeKeeps, <1>2, <3>2, <3>3 DEF Hosts
  <2> QED BY <2>2, <2>3
<1>7. CASE Abort(o)
  <2>1. ChangesOne(o, host[o], offered[o], task[o], Cancel, o \in operations)
      BY <1>1, <1>2, <1>3, <1>7 DEF ChangesOne, Abort, NativeTypes
  <2>2. OperationInv(o)'
    BY <1>1, <1>2, <1>5, <1>7, <2>1
       DEF ChangesOne, Abort, NativeTypes, OperationInv,
           TaskAwaited, MapHolds, PairOffered, AbortStops, DrainQuiets, Quiet, Busy
  <2> QED BY ChangeKeeps, <1>2, <1>4, <2>1, <2>2
<1>8. CASE Consume(o)
  <2> DEFINE f == IF task[o].answer.pair # 0 THEN task[o].answer.pair ELSE offered[o]
  <2>1. f \in Nat BY <1>2 DEF Answers
  <2>2. ChangesOne(o, "accepts", f, task[o], core[o], o \in operations)
      BY <1>1, <1>2, <1>8 DEF ChangesOne, Consume, Offers, NativeTypes
  <2>3. OperationInv(o)'
    BY <1>1, <1>2, <1>5, <1>8, <2>2
       DEF ChangesOne, Consume, NativeTypes, OperationInv,
           TaskAwaited, MapHolds, PairOffered, AbortStops, DrainQuiets, Quiet, Busy
  <2> QED BY ChangeKeeps, <1>2, <2>1, <2>2, <2>3 DEF Hosts
<1>9. CASE \E accepted \in BOOLEAN : Accept(o, accepted)
  <2>1. PICK accepted \in BOOLEAN : Accept(o, accepted) BY <1>9
  <2>2. CASE Goes(o, accepted) /\ ~task[o].answer.checkpoint
    <3>1. ChangesOne(o, "releases", offered[o], task[o], core[o], o \in operations)
      BY <1>1, <1>2, <2>1, <2>2 DEF ChangesOne, Accept, NativeTypes
    <3>2. OperationInv(o)'
      BY <1>1, <1>2, <1>5, <2>1, <2>2, <3>1
         DEF ChangesOne, Accept, NativeTypes, OperationInv,
             TaskAwaited, MapHolds, PairOffered, AbortStops, DrainQuiets, Quiet, Busy
    <3> QED BY ChangeKeeps, <1>2, <2>1, <3>1, <3>2 DEF Hosts
  <2>3. CASE Goes(o, accepted) /\ task[o].answer.checkpoint /\ o \in operations
    <3> DEFINE t == [at |-> "resumed", answer |-> task[o].answer]
    <3>1. t \in [at : Tasks, answer : Answers] BY <1>2 DEF Tasks
    <3>2. ChangesOne(o, "awaits", offered[o], t, core[o], o \in operations)
      BY <1>1, <1>2, <2>1, <2>3 DEF ChangesOne, Accept, NativeTypes
    <3>3. OperationInv(o)'
      BY <1>1, <1>2, <1>5, <2>1, <2>3, <3>2
         DEF ChangesOne, Accept, NativeTypes, Goes, OperationInv,
             TaskAwaited, MapHolds, PairOffered, AbortStops, DrainQuiets, Quiet, Busy
    <3> QED BY ChangeKeeps, <1>2, <2>1, <3>1, <3>2, <3>3 DEF Hosts
  <2>4. CASE ~Goes(o, accepted) \/ (task[o].answer.checkpoint /\ o \notin operations)
    <3> DEFINE h == IF o \in operations THEN "reads" ELSE "releases"
    <3>1. ChangesOne(o, h, offered[o], task[o], Cancel, o \in operations)
      BY <1>1, <1>2, <1>3, <2>1, <2>4 DEF ChangesOne, Accept, NativeTypes
    <3>2. OperationInv(o)'
      BY <1>1, <1>2, <1>5, <2>1, <3>1
         DEF ChangesOne, Accept, NativeTypes, OperationInv,
             TaskAwaited, MapHolds, PairOffered, AbortStops, DrainQuiets, Quiet, Busy
    <3>3. h \in Hosts BY DEF Hosts
    <3> QED BY ChangeKeeps, <1>2, <1>4, <2>1, <3>1, <3>2, <3>3
  <2> QED BY <2>2, <2>3, <2>4
<1>10. CASE ReadResult(o)
  <2> DEFINE f == IF core[o].pair # 0 THEN core[o].pair ELSE offered[o]
  <2>1. f \in Nat BY <1>2
  <2>2. ChangesOne(o, "releases", f, task[o], core[o], o \in operations)
      BY <1>1, <1>2, <1>10 DEF ChangesOne, ReadResult, NativeTypes
  <2>3. OperationInv(o)'
    BY <1>1, <1>2, <1>5, <1>10, <2>2
       DEF ChangesOne, ReadResult, NativeTypes, OperationInv,
           TaskAwaited, MapHolds, PairOffered, AbortStops, DrainQuiets, Quiet, Busy
  <2> QED BY ChangeKeeps, <1>2, <2>1, <2>2, <2>3 DEF Hosts
<1>11. CASE Release(o)
  <2>1. ChangesOne(o, "ended", offered[o], task[o], Cancel, FALSE)
      BY <1>1, <1>2, <1>3, <1>11 DEF ChangesOne, Release, NativeTypes
  <2>2. OperationInv(o)'
    BY <1>1, <1>2, <1>5, <1>11, <2>1
       DEF ChangesOne, Release, NativeTypes, OperationInv,
           TaskAwaited, MapHolds, PairOffered, AbortStops, DrainQuiets, Quiet, Busy
  <2> QED BY ChangeKeeps, <1>2, <1>4, <2>1, <2>2 DEF Hosts
<1> QED BY <1>6, <1>7, <1>8, <1>9, <1>10, <1>11

(* The end of the service.                                                 *)
LEMMA CloseKeeps ==
  ASSUME OperationsInv, CloseNext \/ \E o \in Operations : CloseCore(o) \/ CoreClosed(o)
  PROVE  OperationsInv'
<1> USE DEF OperationsInv, OperationInv, TaskAwaited, MapHolds, PairOffered, AbortStops, DrainQuiets,
            Quiet, Busy
<1>1. UNCHANGED <<host, aborted, offered, task, heard>>
  BY DEF CloseNext, CloseService, TakeOperations, ClearRequests, ServiceEnds, CloseCore, CoreClosed
<1>2. CASE CloseService BY <1>1, <1>2 DEF CloseService, NativeTypes
<1>3. CASE TakeOperations BY <1>1, <1>3 DEF TakeOperations, NativeTypes
<1>4. CASE ClearRequests \/ ServiceEnds BY <1>1, <1>4 DEF ClearRequests, ServiceEnds, NativeTypes
<1>5. CASE \E o \in Operations : CloseCore(o)
  <2>1. PICK o \in Operations : CloseCore(o) BY <1>5
  <2> DEFINE c == [core[o] EXCEPT !.stopped = TRUE, !.cancel = TRUE]
  <2>2. core[o] \in [cancel : BOOLEAN, stopped : BOOLEAN, pair : Nat] BY DEF NativeTypes
  <2>3. core' = [core EXCEPT ![o] = c] BY <2>1, <2>2 DEF CloseCore
  <2>4. c \in [cancel : BOOLEAN, stopped : BOOLEAN, pair : Nat] /\ c.stopped /\ c.cancel /\ c.pair = core[o].pair
    BY <2>2
  <2>5. UNCHANGED <<operations, closing>> BY <2>1 DEF CloseCore
  <2> HIDE DEF c
  <2>6. NativeTypes' BY <1>1, <2>3, <2>4, <2>5 DEF NativeTypes
  <2>7. ASSUME NEW x \in Operations PROVE OperationInv(x)'
    BY <1>1, <2>3, <2>4, <2>5 DEF NativeTypes
  <2> QED BY <1>1, <2>6, <2>7
<1>6. CASE \E o \in Operations : CoreClosed(o)
  <2>1. PICK o \in Operations : CoreClosed(o) BY <1>6
  <2>2. closing \in [at : {"drain"}, left : SUBSET Operations] BY <2>1 DEF CoreClosed, NativeTypes
  <2>3. closing' = [at |-> "drain", left |-> closing.left \ {o}] BY <2>1, <2>2 DEF CoreClosed
  <2>4. UNCHANGED <<operations, core>> BY <2>1 DEF CoreClosed
  <2>5. NativeTypes' BY <1>1, <2>2, <2>3, <2>4 DEF NativeTypes
  <2>6. ASSUME NEW x \in Operations PROVE OperationInv(x)'
    BY <1>1, <2>1, <2>2, <2>3, <2>4 DEF CoreClosed
  <2> QED BY <1>1, <2>5, <2>6
<1> QED BY <1>2, <1>3, <1>4, <1>5, <1>6 DEF CloseNext

(* The operations' steps leave the requests alone.                         *)
LEMMA RequestsStay ==
  ASSUME RequestsInv, UNCHANGED reqvars, Ended => Ended'
  PROVE  RequestsInv'
BY DEF RequestsInv, RequestTypes, ContextHeld, reqvars

(* Every step of an operation, or of the closing of the service, preserves *)
(* the invariant,                                                          *)
LEMMA OperationsKeep ==
  ASSUME NativeInv, OperationsNext PROVE NativeInv'
<1>1. CASE CloseNext
  <2>1. OperationsInv' BY <1>1, CloseKeeps DEF NativeInv
  <2>2. UNCHANGED request /\ Ended'
    BY <1>1 DEF CloseNext, CloseService, TakeOperations, ClearRequests, ServiceEnds, Ended, reqvars
  <2>3. RequestTypes'
    BY <1>1, <2>2 DEF NativeInv, RequestsInv, RequestTypes, CloseNext, CloseService, TakeOperations,
                      ClearRequests, ServiceEnds, reqvars, Contexts
  <2>4. ContextHeld' BY <2>2 DEF NativeInv, RequestsInv, ContextHeld, Ended
  <2> QED BY <2>1, <2>3, <2>4 DEF NativeInv, RequestsInv
<1>2. ASSUME NEW o \in Operations,
             BeginTask(o) \/ EnterPhase(o) \/ SeeClosed(o)
             \/ \E error, rotated, more \in BOOLEAN : Reply(o, error, rotated, more)
      PROVE  NativeInv'
  <2>1. OperationsInv' BY <1>2, TaskKeeps DEF NativeInv
  <2>2. UNCHANGED <<reqvars, closing>> BY <1>2 DEF BeginTask, EnterPhase, SeeClosed, Reply
  <2> QED BY <2>1, <2>2, RequestsStay DEF NativeInv, Ended
<1>3. ASSUME NEW o \in Operations,
             Execute(o) \/ Abort(o) \/ Consume(o) \/ ReadResult(o) \/ Release(o)
             \/ \E accepted \in BOOLEAN : Accept(o, accepted)
      PROVE  NativeInv'
  <2>1. OperationsInv' BY <1>3, HostKeeps DEF NativeInv
  <2>2. UNCHANGED <<reqvars, closing>> BY <1>3 DEF Execute, Abort, Consume, ReadResult, Release, Accept
  <2> QED BY <2>1, <2>2, RequestsStay DEF NativeInv, Ended
<1>4. ASSUME NEW o \in Operations, CloseCore(o) \/ CoreClosed(o) PROVE NativeInv'
  <2>1. OperationsInv' BY <1>4, CloseKeeps DEF NativeInv
  <2>2. UNCHANGED reqvars /\ (Ended => Ended') BY <1>4, <2>1 DEF CloseCore, CoreClosed, Ended, NativeInv, OperationsInv, NativeTypes
  <2> QED BY <2>1, <2>2, RequestsStay DEF NativeInv
<1> QED BY <1>1, <1>2, <1>3, <1>4 DEF OperationsNext

(* and every step of a request.                                            *)
LEMMA RequestsKeep ==
  ASSUME NativeInv, RequestsNext PROVE NativeInv'
<1> USE DEF NativeInv
<1>1. CASE CloseNext BY <1>1, OperationsKeep DEF OperationsNext
<1>2. ASSUME UNCHANGED <<navars, heard>> PROVE OperationsInv' /\ Ended' = Ended
  BY <1>2 DEF navars, Ended, OperationsInv, NativeTypes, OperationInv, TaskAwaited, MapHolds, PairOffered,
              AbortStops, DrainQuiets, Quiet, Busy
<1>3. CASE \E a \in Accounts : SetSession(a)
  BY <1>2, <1>3 DEF SetSession, RequestsInv, RequestTypes, ContextHeld, Contexts
<1>4. ASSUME NEW t \in Requests,
             (\E a \in Accounts \cup {NoAccount} : PrepareRequest(t, a))
             \/ ReadContext(t) \/ SendRequest(t) \/ DropLease(t)
      PROVE  NativeInv'
  <2>1. OperationsInv' /\ Ended' = Ended /\ account' = account
    BY <1>2, <1>4 DEF PrepareRequest, ReadContext, SendRequest, DropLease
  <2>2. \E r \in [at : {"idle", "over"}] \cup [at : {"prepared"}, under : Contexts]
                \cup [at : {"ready", "sent", "answered"}, under : Contexts, as : Contexts],
            c \in Contexts :
          /\ request' = [request EXCEPT ![t] = r] /\ requests' = [requests EXCEPT ![t] = c]
          /\ r.at \in {"prepared", "ready", "sent"} /\ r.under # NoAccount =>
               /\ r.at = "prepared" => c = r.under
               /\ r.at = "ready" => r.as = r.under \/ Ended
               /\ r.at = "sent" => r.as = r.under
    <3>1. ASSUME NEW a \in Contexts, PrepareRequest(t, a) PROVE <2>2
      <4> DEFINE r == [at |-> "prepared", under |-> a]
      <4>1. r \in [at : {"prepared"}, under : Contexts] /\ r.at = "prepared" /\ r.under = a OBVIOUS
      <4>2. request' = [request EXCEPT ![t] = r] /\ requests' = [requests EXCEPT ![t] = a]
        BY <3>1 DEF PrepareRequest
      <4> HIDE DEF r
      <4> QED BY <4>1, <4>2
    <3>2. CASE ReadContext(t)
      <4> DEFINE r == [at |-> "ready", under |-> request[t].under, as |-> ApiContext(t)]
      <4>1. request[t] \in [at : {"prepared"}, under : Contexts] /\ requests[t] \in Contexts
        BY <3>2 DEF ReadContext, RequestsInv, RequestTypes
      <4>2. ApiContext(t) \in Contexts BY <4>1 DEF ApiContext, RequestsInv, RequestTypes
      <4>3. r \in [at : {"ready", "sent", "answered"}, under : Contexts, as : Contexts]
            /\ r.at = "ready" /\ r.under = request[t].under /\ r.as = ApiContext(t)
        BY <4>1, <4>2
      <4>4. request' = [request EXCEPT ![t] = r] /\ requests' = [requests EXCEPT ![t] = requests[t]]
        BY <3>2 DEF ReadContext, RequestsInv, RequestTypes
      <4>5. r.under # NoAccount => r.as = r.under \/ Ended
        BY <4>1, <4>3 DEF ApiContext, RequestsInv, ContextHeld
      <4> HIDE DEF r
      <4> QED BY <4>1, <4>3, <4>4, <4>5
    <3>3. CASE SendRequest(t)
      <4> DEFINE at == IF Ended THEN "answered" ELSE "sent"
                 r == [at |-> at, under |-> request[t].under, as |-> request[t].as]
      <4>1. request[t] \in [at : {"ready", "sent", "answered"}, under : Contexts, as : Contexts]
            /\ requests[t] \in Contexts /\ request[t].at = "ready"
        BY <3>3 DEF SendRequest, RequestsInv, RequestTypes
      <4>2. r \in [at : {"ready", "sent", "answered"}, under : Contexts, as : Contexts]
            /\ r.at = at /\ r.under = request[t].under /\ r.as = request[t].as
        BY <4>1
      <4>3. request' = [request EXCEPT ![t] = [request[t] EXCEPT !.at = at]]
        BY <3>3 DEF SendRequest
      <4>4. [request[t] EXCEPT !.at = at] = r BY <4>1
      <4>5. requests' = [requests EXCEPT ![t] = requests[t]]
        BY <3>3 DEF SendRequest, RequestsInv, RequestTypes
      <4>6. r.under # NoAccount => r.as = r.under \/ Ended
        BY <4>1, <4>2 DEF RequestsInv, ContextHeld
      <4>7. r.at = "answered" \/ (r.at = "sent" /\ ~Ended) BY <4>2
      <4> HIDE DEF r
      <4> QED BY <4>1, <4>2, <4>3, <4>4, <4>5, <4>6, <4>7
    <3>4. CASE DropLease(t)
      <4> DEFINE r == [at |-> "over"]
      <4>1. r \in [at : {"idle", "over"}] /\ r.at = "over" OBVIOUS
      <4>2. request' = [request EXCEPT ![t] = r] /\ requests' = [requests EXCEPT ![t] = NoAccount]
        BY <3>4 DEF DropLease
      <4> HIDE DEF r
      <4> QED BY <4>1, <4>2 DEF Contexts
    <3> QED BY <1>4, <3>1, <3>2, <3>3, <3>4 DEF Contexts
  <2>3. RequestTypes' BY <2>1, <2>2 DEF RequestsInv, RequestTypes
  <2>4. ContextHeld' BY <2>1, <2>2 DEF RequestsInv, RequestTypes, ContextHeld
  <2> QED BY <2>1, <2>3, <2>4 DEF RequestsInv
<1> QED BY <1>1, <1>3, <1>4 DEF RequestsNext

(* What is stated of the service follows from the invariant.               *)
LEMMA NativeMeans == NativeInv => NativeKept
<1> SUFFICES ASSUME NativeInv PROVE NativeKept OBVIOUS
<1> USE DEF NativeInv, OperationsInv, OperationInv
<1>1. PairsDelivered BY DEF PairsDelivered, PairOffered, MapHolds, Busy
<1>2. AbortHolds BY DEF AbortHolds
<1>3. QuietWhenClosed
  BY DEF QuietWhenClosed, MapHolds, DrainQuiets, Quiet, TaskAwaited, NativeTypes, Busy
<1>4. OwnAccount BY DEF OwnAccount, RequestsInv, ContextHeld
<1> QED BY <1>1, <1>2, <1>3, <1>4 DEF NativeKept

(* An abort ends what it found, a pair reaches the host that accepts it, a *)
(* request is sent under the account it was prepared for, and a closed     *)
(* service is quiet: NativeKept in every reachable state, for any          *)
(* operations and requests.                                                *)
THEOREM NativeServiceIsKept == NativeSpec => []NativeKept
<1>1. NativeInv /\ [OperationsNext \/ RequestsNext]_nativevars => NativeInv'
  <2>1. ASSUME NativeInv, UNCHANGED nativevars PROVE NativeInv'
    BY <2>1 DEF nativevars, navars, reqvars, NativeInv, OperationsInv, NativeTypes, OperationInv, TaskAwaited,
                MapHolds, PairOffered, AbortStops, DrainQuiets, Quiet, Busy, RequestsInv, RequestTypes,
                ContextHeld, Ended
  <2> QED BY <2>1, OperationsKeep, RequestsKeep
<1> QED BY <1>1, NativeStarts, NativeMeans, PTL DEF NativeSpec

(***************************************************************************)
(* Commands (the bash tool): ShellKept, for any number of processes that a *)
(* command starts.                                                         *)
(***************************************************************************)

Steps == {"called", "spawning", "unstarted", "waiting", "terminating", "reaping", "killing",
          "collecting", "confirming", "reading", "done", "unknown", "dropped"}

ShellTypes ==
  /\ bash \in Steps
  /\ shell \in {"none", "runs", "doomed", "zombie", "reaped"}
  /\ others \in Nat /\ doomed \in Nat /\ forks \in Nat

(* Before it is spawned there is nothing; from then until it is confirmed  *)
(* that the group is gone, somebody who drops the call will kill it.       *)
NothingYet ==
  bash \in {"called", "spawning", "unstarted"}
  => shell = "none" /\ others = 0 /\ doomed = 0 /\ forks = 0

StaysArmed ==
  bash \in {"waiting", "terminating", "reaping", "killing", "collecting", "confirming"} => armed

(* Once the group was killed nobody in it can fork.                        *)
Killed == others = 0 /\ shell # "runs"
KilledInTime ==
  /\ bash \in {"collecting", "confirming", "reading", "done", "dropped"} => Killed
  /\ bash = "unknown" => armed \/ Killed

GoneInTime ==
  /\ bash = "confirming" => shell = "reaped"
  /\ bash \in {"reading", "done"} => shell = "reaped" /\ doomed = 0

ShellInv == ShellTypes /\ NothingYet /\ StaysArmed /\ KilledInTime /\ GoneInTime

(* The invariant holds before the command is started.                      *)
LEMMA ShellStarts == ShellInit => ShellInv
BY DEF ShellInit, ShellInv, ShellTypes, Steps, NothingYet, StaysArmed, KilledInTime, Killed,
   GoneInTime

(* The steps of the call before its group is killed.                       *)
LEMMA CallSteps ==
  ASSUME ShellInv, Refuse \/ CheckToken \/ Spawn \/ EndWait \/ Terminate \/ Reap
  PROVE  ShellInv'
<1> USE DEF ShellInv, ShellTypes, Steps, NothingYet, StaysArmed, Killed, KilledInTime, GoneInTime,
            processes
<1>1. CASE Refuse BY <1>1 DEF Refuse
<1>2. CASE CheckToken BY <1>2 DEF CheckToken
<1>3. CASE Spawn BY <1>3 DEF Spawn
<1>4. CASE EndWait BY <1>4 DEF EndWait
<1>5. CASE Terminate BY <1>5 DEF Terminate, Refused
<1>6. CASE Reap BY <1>6 DEF Reap
<1> QED BY <1>1, <1>2, <1>3, <1>4, <1>5, <1>6

(* Those that kill it, wait for it and read what it wrote.                 *)
LEMMA EndSteps ==
  ASSUME ShellInv, Kill \/ Collect \/ Confirm \/ JoinReaders \/ DropCall
  PROVE  ShellInv'
<1> USE DEF ShellInv, ShellTypes, Steps, NothingYet, StaysArmed, Killed, KilledInTime, GoneInTime,
            processes, ZombieOnly, KillGroup
<1>1. CASE Kill BY <1>1 DEF Kill, Refused
<1>2. CASE Collect BY <1>2 DEF Collect
<1>3. CASE Confirm
  <2>1. Confirmed => doomed = 0 BY <1>3 DEF Confirmed, GroupExists
  <2> QED BY <1>3, <2>1 DEF Confirm
<1>4. CASE JoinReaders BY <1>4 DEF JoinReaders
<1>5. CASE DropCall BY <1>5 DEF DropCall
<1> QED BY <1>1, <1>2, <1>3, <1>4, <1>5

(* Those of the processes themselves, at any moment.                       *)
LEMMA ProcessSteps ==
  ASSUME ShellInv, SetToken \/ Exit \/ Fork \/ LetGo
  PROVE  ShellInv'
<1> USE DEF ShellInv, ShellTypes, Steps, NothingYet, StaysArmed, Killed, KilledInTime, GoneInTime,
            processes
<1>1. CASE SetToken BY <1>1 DEF SetToken
<1>2. CASE Exit BY <1>2 DEF Exit
<1>3. CASE Fork BY <1>3 DEF Fork
<1>4. CASE LetGo BY <1>4 DEF LetGo
<1> QED BY <1>1, <1>2, <1>3, <1>4

(* The invariant says what the run checks.                                 *)
LEMMA ShellMeans == ShellInv => ShellKept
BY DEF ShellInv, ShellTypes, NothingYet, Killed, KilledInTime, GoneInTime, ShellKept,
       AnsweredIsOver, NobodyEscapes, GroupExists

(* bash/mod.rs, execute: what the tool says of a command is true of its    *)
(* processes, and no process of its group is left that was not killed -    *)
(* however many it forks, and wherever the call is stopped or dropped.     *)
THEOREM NobodyIsLeft == ShellSpec => []ShellKept
<1>1. ShellInit => ShellInv BY ShellStarts
<1>2. ShellInv /\ [ShellNext]_shellvars => ShellInv'
  <2> SUFFICES ASSUME ShellInv, [ShellNext]_shellvars PROVE ShellInv' OBVIOUS
  <2>1. CASE ShellNext BY <2>1, CallSteps, EndSteps, ProcessSteps DEF ShellNext
  <2>2. CASE UNCHANGED shellvars
    BY <2>2 DEF shellvars, ShellInv, ShellTypes, NothingYet, StaysArmed, Killed, KilledInTime,
                GoneInTime
  <2> QED BY <2>1, <2>2
<1>3. ShellInv => ShellKept BY ShellMeans
<1> QED BY <1>1, <1>2, <1>3, PTL DEF ShellSpec

(***************************************************************************)
(* The launcher's index (xw-bookmark, xw-app): that it is raw and fresh    *)
(* and that no bookmark vanishes, for any files and directories.  What a   *)
(* use does to a query is not a matter of steps and is left to TLC.        *)
(***************************************************************************)

(* The files, their loading, and what a loading has read of them.          *)
Loading(l) ==
  \/ l = Rest
  \/ /\ l.step \in {"read", "write", "index"}
     /\ l = [step |-> l.step, next |-> l.next, merged |-> l.merged, sure |-> l.sure]
     /\ l.step = "read" => l.next \in 1..2
     /\ l.step = "write" => l.next = 3
BooksTyped ==
  /\ stage \in {"apps", "bookmarks", "open"}
  /\ DOMAIN file = Files /\ DOMAIN good = Files
  /\ \A f \in Files : file[f] # Broken => file[f].state # "broken" /\ good[f] = file[f].holds
  /\ Loading(load)
  /\ stage = "apps" => load = Rest
  /\ changed # {} => stage = "open"

Holds(f) == Collected(file[f].holds)
Both == Holds(Sources[1]) \cup Holds(Sources[2])
Sound(i) == file[Sources[i]] # Broken

(* What a loading nothing came between has read, and what it left.         *)
ReadTrue ==
  load.step \in {"read", "write"} /\ load.sure /\ changed = {} =>
    /\ load.next = 1 => load.merged = {}
    /\ load.next = 2 => load.merged = Holds(Sources[1]) /\ Sound(1)
    /\ load.next = 3 => load.merged = Both /\ Sound(1) /\ Sound(2)
LeftTrue ==
  changed = {} /\ ~suspect =>
    /\ load.step = "index" => entries = Both /\ Sound(1) /\ Sound(2)
    /\ load = Rest /\ stage # "apps" /\ Sound(1) /\ Sound(2) => entries = Both
BooksInv == BooksTyped /\ ReadTrue /\ LeftTrue /\ (load.step # "index" => marks = entries)

(* There are two files of bookmarks, and they differ.                      *)
LEMMA TwoFiles == Files = {Sources[1], Sources[2]} /\ Sources[1] # Sources[2]
                  /\ Sources[1] = "Bookmarks" /\ Sources[2] = "AccountBookmarks"
<1>1. Sources[1] = "Bookmarks" /\ Sources[2] = "AccountBookmarks" BY DEF Sources
<1>2. 1..2 = {1, 2} OBVIOUS
<1> QED BY <1>1, <1>2 DEF Files

(* The invariant of the bookmarks holds at first.                          *)
LEMMA BooksStart == LauncherInit => BooksInv
<1> SUFFICES ASSUME LauncherInit PROVE BooksInv OBVIOUS
<1>1. \A f \in Files : file[f].state # "broken" /\ good[f] = file[f].holds
  <2>1. \A f \in Files : file[f] = Missing \/ \E s : file[f] = Holding(s) BY DEF LauncherInit
  <2>2. \A f \in Files : good[f] = file[f].holds BY DEF LauncherInit
  <2>3. Missing.state # "broken" /\ \A s : Holding(s).state # "broken" BY DEF Missing, Holding
  <2> QED BY <2>1, <2>2, <2>3
<1>2. DOMAIN file = Files /\ DOMAIN good = Files /\ load = Rest /\ stage = "apps" /\ entries = {} /\ marks = {}
      /\ changed = {}
  BY DEF LauncherInit
<1>3. Rest.step = "idle" BY DEF Rest
<1> QED BY <1>1, <1>2, <1>3 DEF BooksInv, BooksTyped, ReadTrue, LeftTrue, Loading

(* A file of bookmarks is written, and whoever is reading is disturbed.    *)
LEMMA FileChanges ==
  ASSUME BooksInv, NEW f \in Files, NEW content, ChangeFile(f, content),
         content = Broken \/ content.state # "broken"
  PROVE  BooksInv'
<1> USE DEF BooksInv
<1>1. /\ file' = [file EXCEPT ![f] = content] /\ UNCHANGED <<stage, entries, marks>>
      /\ good' = IF content = Broken THEN good ELSE [good EXCEPT ![f] = content.holds]
      /\ changed' = IF stage = "open" THEN changed \cup {f} ELSE changed
      /\ suspect' = (suspect \/ stage # "open")
      /\ load' = IF load # Rest /\ stage # "open" THEN [load EXCEPT !.sure = FALSE] ELSE load
  BY DEF ChangeFile, BookmarksWatched
<1>2. CASE stage = "open"
  <2>1. changed' # {} /\ load' = load BY <1>1, <1>2
  <2> QED BY <1>1, <2>1 DEF BooksTyped, ReadTrue, LeftTrue
<1>3. CASE stage # "open"
  <2>1. Loading(load)' /\ load'.step = load.step /\ (load = Rest <=> load' = Rest) /\ (load # Rest => load'.sure = FALSE)
    <3>1. CASE load = Rest BY <1>1, <3>1 DEF Loading
    <3>2. CASE load # Rest
      <4>1. load' = [load EXCEPT !.sure = FALSE] /\ load.step \in {"read", "write", "index"}
            /\ load = [step |-> load.step, next |-> load.next, merged |-> load.merged, sure |-> load.sure]
            /\ (load.step = "read" => load.next \in 1..2) /\ (load.step = "write" => load.next = 3)
        BY <1>1, <1>3, <3>2 DEF BooksTyped, Loading
      <4>2. load' = [step |-> load.step, next |-> load.next, merged |-> load.merged, sure |-> FALSE]
        BY <4>1
      <4>3. load' # Rest BY <4>2 DEF Rest
      <4> QED BY <4>1, <4>2, <4>3, <3>2 DEF Loading
    <3> QED BY <3>1, <3>2
  <2>2. suspect' BY <1>1, <1>3
  <2>3. BooksTyped' BY <1>1, <2>1 DEF BooksTyped
  <2>4. Rest.step = "idle" BY DEF Rest
  <2> QED BY <1>1, <2>1, <2>2, <2>3, <2>4 DEF ReadTrue, LeftTrue
<1> QED BY <1>2, <1>3

(* A reload reads the files one by one and replaces the entries and the    *)
(* index.                                                                  *)
LEMMA LoadSteps ==
  ASSUME BooksInv, Reload \/ LoadFile \/ WriteEntries \/ IndexBookmarks
  PROVE  BooksInv'
<1> USE DEF BooksInv
<1>0. Rest.step = "idle" BY DEF Rest
<1>1. CASE Reload
  <2>1. load' = [step |-> "read", next |-> 1, merged |-> {}, sure |-> TRUE] /\ load = Rest
        /\ stage # "apps" /\ changed' = {} /\ UNCHANGED <<stage, file, entries, marks, good, suspect>>
    BY <1>1 DEF Reload, StartLoad, BooksTyped
  <2> QED BY <1>0, <2>1 DEF BooksTyped, ReadTrue, LeftTrue, Loading
<1>2. CASE LoadFile
  <2> DEFINE f == Sources[load.next]
  <2>1. /\ load.step = "read" /\ UNCHANGED <<stage, file, changed, entries, marks, good, suspect>>
        /\ load' = IF ~Readable(f) THEN Rest
                   ELSE [load EXCEPT !.step = IF load.next = 2 THEN "write" ELSE "read",
                                     !.next = @ + 1,
                                     !.merged = @ \cup Collected(file[f].holds)]
    BY <1>2 DEF LoadFile
  <2>2. /\ load = [step |-> "read", next |-> load.next, merged |-> load.merged, sure |-> load.sure]
        /\ load.next = 1 \/ load.next = 2
        /\ load # Rest
    BY <1>0, <2>1 DEF BooksTyped, Loading
  <2>3. f \in Files BY <2>2, TwoFiles
  <2>4. CASE ~Readable(f)
    <3>1. file[f] = Broken BY <2>3, <2>4 DEF Readable, BooksTyped
    <3>2. load' = Rest BY <2>1, <2>4
    <3>3. ~Sound(1) \/ ~Sound(2) BY <2>2, <3>1 DEF Sound
    <3>4. BooksTyped' BY <2>1, <3>2 DEF BooksTyped, Loading
    <3>5. ReadTrue' BY <1>0, <3>2 DEF ReadTrue
    <3>6. LeftTrue' BY <1>0, <2>1, <3>2, <3>3 DEF LeftTrue, Sound
    <3>7. marks' = entries' BY <1>0, <2>1
    <3> QED BY <3>4, <3>5, <3>6, <3>7
  <2>5. CASE Readable(f)
    <3>1. file[f] # Broken BY <2>5 DEF Readable, Broken
    <3>2. load' = [step |-> IF load.next = 2 THEN "write" ELSE "read", next |-> load.next + 1,
                   merged |-> load.merged \cup Holds(f), sure |-> load.sure]
      BY <2>1, <2>2, <2>5 DEF Holds
    <3>3. BooksTyped'
      <4>1. Loading(load)' BY <2>2, <3>2 DEF Loading
      <4>2. stage # "apps" BY <2>2 DEF BooksTyped
      <4> QED BY <2>1, <4>1, <4>2 DEF BooksTyped
    <3>4. ReadTrue'
      <4>1. CASE load.next = 1
        <5>1. load'.next = 2 /\ load'.merged = load.merged \cup Holds(Sources[1]) /\ load'.sure = load.sure BY <3>2, <4>1
        <5>2. Sound(1) BY <3>1, <4>1 DEF Sound
        <5> QED BY <2>1, <4>1, <5>1, <5>2 DEF ReadTrue, Sound, Holds
      <4>2. CASE load.next = 2
        <5>1. load'.next = 3 /\ load'.merged = load.merged \cup Holds(Sources[2]) /\ load'.sure = load.sure BY <3>2, <4>2
        <5>2. Sound(2) BY <3>1, <4>2 DEF Sound
        <5> QED BY <2>1, <4>2, <5>1, <5>2 DEF ReadTrue, Sound, Holds, Both
      <4> QED BY <2>2, <4>1, <4>2
    <3>5. load' # Rest /\ load'.step # "index" BY <1>0, <3>2
    <3>6. LeftTrue' BY <3>5 DEF LeftTrue
    <3>7. marks' = entries' BY <2>1
    <3> QED BY <3>3, <3>4, <3>6, <3>7
  <2> QED BY <2>4, <2>5
<1>3. CASE WriteEntries
  <2>1. /\ load.step = "write" /\ UNCHANGED <<stage, file, changed, marks, good>>
        /\ entries' = load.merged /\ suspect' = ~load.sure /\ load' = [load EXCEPT !.step = "index"]
    BY <1>3 DEF WriteEntries
  <2>2. /\ load = [step |-> "write", next |-> load.next, merged |-> load.merged, sure |-> load.sure]
        /\ load # Rest /\ load.next = 3
    BY <1>0, <2>1 DEF BooksTyped, Loading
  <2>3. load' = [step |-> "index", next |-> load.next, merged |-> load.merged, sure |-> load.sure]
    BY <2>1, <2>2
  <2>4. load' # Rest /\ load'.step = "index" /\ Loading(load)' BY <1>0, <2>3 DEF Loading
  <2>5. stage # "apps" BY <2>2 DEF BooksTyped
  <2>6. BooksTyped' BY <2>1, <2>4, <2>5 DEF BooksTyped
  <2>7. ReadTrue' BY <2>4 DEF ReadTrue
  <2>8. LeftTrue'
    <3>1. load.sure /\ changed = {} => load.merged = Both /\ Sound(1) /\ Sound(2) BY <2>1, <2>2 DEF ReadTrue
    <3> QED BY <2>1, <2>4, <3>1 DEF LeftTrue, Both, Holds, Sound
  <2> QED BY <2>4, <2>6, <2>7, <2>8
<1>4. CASE IndexBookmarks
  <2>1. /\ load.step = "index" /\ marks' = entries /\ load' = Rest
        /\ UNCHANGED <<stage, file, changed, entries, good, suspect>>
    BY <1>4 DEF IndexBookmarks
  <2> QED BY <1>0, <2>1 DEF BooksTyped, ReadTrue, LeftTrue, Loading, Both, Holds, Sound
<1> QED BY <1>1, <1>2, <1>3, <1>4

(* Who leaves the bookmarks alone; and the two steps of the engine.        *)
LEMMA BooksStay ==
  ASSUME BooksInv, UNCHANGED <<bookvars, stage>>
  PROVE  BooksInv'
BY DEF bookvars, BooksInv, BooksTyped, ReadTrue, LeftTrue, Both, Holds, Sound

(* The engine watches the directories and begins to load the bookmarks,    *)
(* then it is open.                                                        *)
LEMMA EngineSteps ==
  ASSUME BooksInv, WatchDirs \/ WatchBookmarks
  PROVE  BooksInv'
<1> USE DEF BooksInv
<1>0. Rest.step = "idle" BY DEF Rest
<1>1. CASE WatchDirs
  <2>1. /\ stage = "apps" /\ stage' = "bookmarks" /\ UNCHANGED <<file, changed, entries, marks, good, suspect>>
        /\ load' = [step |-> "read", next |-> 1, merged |-> {}, sure |-> TRUE]
    BY <1>1 DEF WatchDirs, StartLoad
  <2> QED BY <1>0, <2>1 DEF BooksTyped, ReadTrue, LeftTrue, Loading
<1>2. CASE WatchBookmarks
  <2>1. stage = "bookmarks" /\ load = Rest /\ stage' = "open" /\ UNCHANGED bookvars BY <1>2 DEF WatchBookmarks
  <2> QED BY <1>0, <2>1 DEF bookvars, BooksTyped, ReadTrue, LeftTrue, Loading, Both, Holds, Sound
<1> QED BY <1>1, <1>2

(* The directories and their scans: what a scan nothing came between has   *)
(* read, and what the list and the indexes made of it are.                 *)
Threads == {Opener} \cup Dirs
Scanning(s) ==
  \/ s = Rest
  \/ /\ s.step \in {"read", "write", "make"}
     /\ s = [step |-> s.step, next |-> s.next, apps |-> s.apps, sure |-> s.sure]
     /\ s.step = "read" => s.next \in 1..NDirs
     /\ s.step = "write" => s.next = NDirs + 1
  \/ s.step = "made" /\ s = [step |-> "made", index |-> s.index, sure |-> s.sure]
ScansTyped ==
  /\ stage \in {"apps", "bookmarks", "open"}
  /\ DOMAIN dir = Dirs /\ DOMAIN scan = Threads /\ \A t \in Threads : Scanning(scan[t])
  /\ stirred \subseteq watching /\ watching \subseteq Dirs
  /\ IF stage = "apps" THEN watching = {} ELSE scan[Opener] = Rest

Seen(n) == UNION {dir[d].holds : d \in 1..n}
ScanTrue ==
  stirred = {} => \A t \in Threads : Underway(t) /\ scan[t].sure => scan[t].apps = Seen(scan[t].next - 1)
FoundTrue ==
  stirred = {} /\ ~doubtful /\ (\A t \in Threads : ~Underway(t)) => found = Seen(NDirs)
MadeTrue == \A t \in Threads : scan[t].step = "made" => scan[t].index = Indexed(found)
AppsTrue ==
  scan[Opener] = Rest /\ (\A t \in Threads : scan[t].step \notin {"make", "made"}) => apps = Indexed(found)
AppsInv == ScansTyped /\ ScanTrue /\ FoundTrue /\ MadeTrue /\ AppsTrue

(* There is a directory, and the thread that opens the engine is none of   *)
(* them.                                                                   *)
LEMMA Directories == Opener \notin Dirs /\ NDirs \in Nat /\ NDirs # 0 /\ Rest.step = "idle"
BY DirsAssumption DEF Opener, Dirs, Rest

(* The invariant of the applications holds at first.                       *)
LEMMA AppsStart == LauncherInit => AppsInv
<1> SUFFICES ASSUME LauncherInit PROVE AppsInv OBVIOUS
<1>1. /\ stage = "apps" /\ DOMAIN dir = Dirs /\ DOMAIN scan = Threads /\ stirred = {} /\ watching = {}
      /\ found = {} /\ scan[Opener] = [step |-> "read", next |-> 1, apps |-> {}, sure |-> TRUE]
      /\ \A d \in Dirs : scan[d] = Rest
  BY Directories DEF LauncherInit, Threads
<1>2. Scanning(scan[Opener]) /\ scan[Opener].step = "read" /\ scan[Opener] # Rest /\ Underway(Opener)
  BY <1>1, Directories DEF Scanning, Underway
<1>3. \A t \in Threads : t = Opener \/ (scan[t] = Rest /\ scan[t].step = "idle")
  BY <1>1, Directories DEF Threads
<1>4. ScansTyped BY <1>1, <1>2, <1>3 DEF ScansTyped, Scanning
<1>5. ScanTrue
  <2>1. Seen(0) = {} BY DEF Seen
  <2>2. scan[Opener].apps = Seen(scan[Opener].next - 1) BY <1>1, <2>1
  <2> QED BY <1>3, <2>2 DEF ScanTrue, Underway
<1>6. FoundTrue /\ MadeTrue /\ AppsTrue BY <1>2, <1>3 DEF FoundTrue, MadeTrue, AppsTrue, Threads
<1> QED BY <1>4, <1>5, <1>6 DEF AppsInv

(* A directory changes, watched or not.                                    *)
LEMMA DirChanges ==
  ASSUME AppsInv, NEW d \in Dirs, NEW content, ChangeDir(d, content)
  PROVE  AppsInv'
<1> USE DEF AppsInv
<1>1. /\ DOMAIN dir' = Dirs /\ UNCHANGED <<stage, watching, found, apps>>
  BY DEF ChangeDir, ScansTyped
<1>2. CASE d \in watching
  <2>1. scan' = scan /\ stirred' = stirred \cup {d} /\ stirred' # {} BY <1>2 DEF ChangeDir
  <2>2. ScansTyped' BY <1>1, <1>2, <2>1 DEF ScansTyped
  <2> QED BY <1>1, <2>1, <2>2 DEF ScanTrue, FoundTrue, MadeTrue, AppsTrue, Indexed
<1>3. CASE d \notin watching
  <2>1. doubtful' /\ stirred' = stirred /\ DOMAIN scan' = Threads
        /\ \A t \in Threads : scan'[t] = IF scan[t] = Rest THEN Rest ELSE [scan[t] EXCEPT !.sure = FALSE]
    BY <1>3 DEF ChangeDir, ScansTyped
  <2>2. ASSUME NEW t \in Threads
        PROVE  /\ Scanning(scan'[t]) /\ scan'[t].step = scan[t].step /\ (scan'[t] = Rest <=> scan[t] = Rest)
               /\ scan[t].step = "made" => scan'[t].index = scan[t].index
               /\ Underway(t)' => ~scan'[t].sure
    <3>1. Scanning(scan[t]) BY DEF ScansTyped
    <3>2. CASE scan[t] = Rest BY <2>1, <3>2, Directories DEF Scanning, Underway
    <3>3. CASE /\ scan[t] # Rest /\ scan[t].step \in {"read", "write", "make"}
               /\ scan[t] = [step |-> scan[t].step, next |-> scan[t].next, apps |-> scan[t].apps, sure |-> scan[t].sure]
               /\ scan[t].step = "read" => scan[t].next \in 1..NDirs
               /\ scan[t].step = "write" => scan[t].next = NDirs + 1
      <4>1. scan'[t] = [step |-> scan[t].step, next |-> scan[t].next, apps |-> scan[t].apps, sure |-> FALSE]
        BY <2>1, <3>3
      <4> QED BY <3>3, <4>1, Directories DEF Scanning
    <3>4. CASE /\ scan[t] # Rest /\ scan[t].step = "made"
               /\ scan[t] = [step |-> "made", index |-> scan[t].index, sure |-> scan[t].sure]
      <4>1. scan'[t] = [step |-> "made", index |-> scan[t].index, sure |-> FALSE] BY <2>1, <3>4
      <4> QED BY <3>4, <4>1, Directories DEF Scanning
    <3> QED BY <3>1, <3>2, <3>3, <3>4 DEF Scanning
  <2>3. ScansTyped' BY <1>1, <2>1, <2>2 DEF ScansTyped, Threads
  <2>4. ScanTrue' BY <2>2 DEF ScanTrue
  <2>5. FoundTrue' BY <2>1 DEF FoundTrue
  <2>6. MadeTrue' BY <1>1, <2>2 DEF MadeTrue, Indexed
  <2>7. AppsTrue' BY <1>1, <2>2 DEF AppsTrue, Indexed, Threads
  <2> QED BY <2>3, <2>4, <2>5, <2>6, <2>7
<1> QED BY <1>2, <1>3

(* A watcher's thread begins a scan; one that overlaps it is not sure.     *)
LEMMA RescanKeeps ==
  ASSUME AppsInv, NEW d \in Dirs, Rescan(d)
  PROVE  AppsInv'
<1> USE DEF AppsInv
<1>1. /\ d \in stirred /\ scan[d] = Rest /\ stirred' = stirred \ {d} /\ DOMAIN scan' = Threads
      /\ UNCHANGED <<stage, dir, watching, found, apps, doubtful>>
      /\ \A t \in Threads : t # d =>
           scan'[t] = IF Underway(t) THEN [scan[t] EXCEPT !.sure = FALSE] ELSE scan[t]
  BY DEF Rescan, ScansTyped
<1>2. scan'[d] = [step |-> "read", next |-> 1, apps |-> {}, sure |-> scan'[d].sure]
  <2>1. d \in Threads BY DEF Threads
  <2> DEFINE b == ~\E u \in DOMAIN scan : Underway(u)
  <2>2. scan'[d] = [step |-> "read", next |-> 1, apps |-> {}, sure |-> b]
    BY <2>1 DEF Rescan, ScansTyped
  <2> HIDE DEF b
  <2> QED BY <2>2
<1>3. Scanning(scan'[d]) /\ scan'[d].step = "read" /\ Underway(d)' /\ scan'[d].apps = {} /\ scan'[d].next - 1 = 0
  BY <1>2, Directories DEF Scanning, Underway
<1>4. ASSUME NEW t \in Threads, t # d
      PROVE  /\ Scanning(scan'[t]) /\ scan'[t].step = scan[t].step /\ (scan'[t] = Rest <=> scan[t] = Rest)
             /\ scan[t].step = "made" => scan'[t].index = scan[t].index
             /\ Underway(t)' => ~scan'[t].sure
  <2>1. Scanning(scan[t]) BY DEF ScansTyped
  <2>2. CASE ~Underway(t) BY <1>1, <1>4, <2>1, <2>2 DEF Underway
  <2>3. CASE Underway(t)
    <3>1. /\ scan[t] # Rest /\ scan[t].step \in {"read", "write"}
          /\ scan[t] = [step |-> scan[t].step, next |-> scan[t].next, apps |-> scan[t].apps, sure |-> scan[t].sure]
          /\ scan[t].step = "read" => scan[t].next \in 1..NDirs
          /\ scan[t].step = "write" => scan[t].next = NDirs + 1
      BY <2>1, <2>3, Directories DEF Underway, Scanning
    <3>2. scan'[t] = [step |-> scan[t].step, next |-> scan[t].next, apps |-> scan[t].apps, sure |-> FALSE]
      BY <1>1, <1>4, <2>3, <3>1
    <3> QED BY <3>1, <3>2, Directories DEF Scanning
  <2> QED BY <2>2, <2>3
<1>5. Opener # d /\ Opener \in Threads /\ d \in Threads BY Directories DEF Threads
<1>6. ScansTyped' BY <1>1, <1>3, <1>4, <1>5 DEF ScansTyped
<1>7. ScanTrue'
  <2>1. Seen(0)' = {} BY DEF Seen
  <2>2. (scan[d].apps = Seen(scan[d].next - 1))' BY <1>3, <2>1
  <2> QED BY <1>4, <2>2 DEF ScanTrue
<1>8. FoundTrue' BY <1>3, <1>5 DEF FoundTrue
<1>9. MadeTrue' BY <1>1, <1>3, <1>4 DEF MadeTrue, Indexed
<1>10. AppsTrue'
  <2>1. scan[d].step = "idle" BY <1>1, Directories
  <2> QED BY <1>1, <1>4, <1>5, <2>1 DEF AppsTrue, Indexed
<1> QED BY <1>6, <1>7, <1>8, <1>9, <1>10

(* A scan goes on.                                                         *)
LEMMA ScanKeeps ==
  ASSUME AppsInv, NEW t \in Threads, ScanDir(t)
  PROVE  AppsInv'
<1> USE DEF AppsInv
<1>1. /\ scan[t].step = "read" /\ DOMAIN scan' = Threads
      /\ UNCHANGED <<stage, dir, stirred, watching, found, apps, doubtful>>
      /\ \A u \in Threads : u # t => scan'[u] = scan[u]
  BY DEF ScanDir, ScansTyped
<1>2. /\ scan[t] = [step |-> "read", next |-> scan[t].next, apps |-> scan[t].apps, sure |-> scan[t].sure]
      /\ scan[t].next \in 1..NDirs /\ scan[t] # Rest
  BY <1>1, Directories DEF ScansTyped, Scanning
<1>3. scan'[t] = [step |-> IF scan[t].next = NDirs THEN "write" ELSE "read", next |-> scan[t].next + 1,
                  apps |-> scan[t].apps \cup dir[scan[t].next].holds, sure |-> scan[t].sure]
  <2>1. scan'[t] = [scan[t] EXCEPT !.step = IF scan[t].next = NDirs THEN "write" ELSE "read",
                                   !.next = @ + 1,
                                   !.apps = @ \cup dir[scan[t].next].holds]
    BY DEF ScanDir, ScansTyped
  <2> QED BY <1>2, <2>1
<1>4. Scanning(scan'[t]) /\ scan'[t].step \in {"read", "write"} /\ Underway(t)' /\ scan'[t] # Rest
  BY <1>2, <1>3, Directories DEF Scanning, Underway
<1>5. ScansTyped' BY <1>1, <1>2, <1>4 DEF ScansTyped, Threads
<1>6. ScanTrue'
  <2> SUFFICES ASSUME stirred = {}, scan[t].sure PROVE scan'[t].apps = Seen(scan'[t].next - 1)
    <3>1. \A u \in Threads : u # t /\ Underway(u)' => Underway(u) BY <1>1 DEF Underway
    <3> QED BY <1>1, <1>3, <3>1 DEF ScanTrue, Seen
  <2>1. scan[t].apps = Seen(scan[t].next - 1) BY <1>1 DEF ScanTrue, Underway
  <2>2. scan'[t].apps = scan[t].apps \cup dir[scan[t].next].holds /\ scan'[t].next - 1 = scan[t].next
    BY <1>2, <1>3
  <2>3. \A d : d \in 1..scan[t].next <=> d \in 1..(scan[t].next - 1) \/ d = scan[t].next BY <1>2, Directories
  <2>4. Seen(scan[t].next) = Seen(scan[t].next - 1) \cup dir[scan[t].next].holds
    <3> DEFINE n == scan[t].next
    <3> HIDE DEF n
    <3> QED BY <2>3 DEF Seen, n
  <2> QED BY <2>1, <2>2, <2>4
<1>7. FoundTrue' BY <1>4 DEF FoundTrue
<1>8. MadeTrue' BY <1>1, <1>4 DEF MadeTrue, Indexed
<1>9. AppsTrue' BY <1>1, <1>2, <1>4 DEF AppsTrue, Indexed, Threads
<1> QED BY <1>5, <1>6, <1>7, <1>8, <1>9

(* The list is written, its index made and put in place.                   *)
LEMMA WriteKeeps ==
  ASSUME AppsInv, NEW t \in Threads, WriteApps(t) \/ MakeIndex(t) \/ PlaceIndex(t)
  PROVE  AppsInv'
<1> USE DEF AppsInv
<1>1. CASE WriteApps(t)
  <2>1. /\ scan[t].step = "write" /\ DOMAIN scan' = Threads
        /\ found' = scan[t].apps /\ doubtful' = ~scan[t].sure
        /\ UNCHANGED <<stage, dir, stirred, watching, apps>>
        /\ \A u \in Threads : u # t => scan'[u] = scan[u]
        /\ \A u \in Threads : scan[u].step # "made"
        /\ scan'[t] = [scan[t] EXCEPT !.step = "make"]
    BY <1>1 DEF WriteApps, Writable, ScansTyped
  <2>2. /\ scan[t] = [step |-> "write", next |-> scan[t].next, apps |-> scan[t].apps, sure |-> scan[t].sure]
        /\ scan[t].next = NDirs + 1 /\ scan[t] # Rest
    BY <2>1, Directories DEF ScansTyped, Scanning
  <2>3. scan'[t] = [step |-> "make", next |-> scan[t].next, apps |-> scan[t].apps, sure |-> scan[t].sure]
    BY <2>1, <2>2
  <2>4. scan'[t].step = "make" /\ Scanning(scan'[t]) /\ scan'[t] # Rest BY <2>3, Directories DEF Scanning
  <2>5. ScansTyped' BY <2>1, <2>2, <2>4 DEF ScansTyped, Threads
  <2>10. \A n : Seen(n)' = Seen(n) BY <2>1 DEF Seen
  <2>6. ScanTrue'
    <3>1. ~Underway(t)' /\ \A u \in Threads : u # t => (Underway(u)' <=> Underway(u))
      BY <2>1, <2>4 DEF Underway
    <3> QED BY <2>1, <2>10, <3>1 DEF ScanTrue
  <2>7. FoundTrue'
    <3>1. stirred = {} /\ scan[t].sure => scan[t].apps = Seen(scan[t].next - 1) BY <2>1 DEF ScanTrue, Underway
    <3>2. scan[t].next - 1 = NDirs BY <2>2, Directories
    <3>3. ~doubtful' => scan[t].sure BY <2>1
    <3> QED BY <2>1, <2>10, <3>1, <3>2, <3>3 DEF FoundTrue
  <2>8. MadeTrue' /\ AppsTrue' BY <2>1, <2>4 DEF MadeTrue, AppsTrue
  <2> QED BY <2>5, <2>6, <2>7, <2>8
<1>2. CASE MakeIndex(t)
  <2>1. /\ scan[t].step = "make" /\ DOMAIN scan' = Threads
        /\ UNCHANGED <<stage, dir, stirred, watching, found, apps, doubtful>>
        /\ \A u \in Threads : u # t => scan'[u] = scan[u]
        /\ scan'[t] = [step |-> "made", index |-> Indexed(found), sure |-> TRUE]
    BY <1>2 DEF MakeIndex, ScansTyped
  <2>2. scan'[t].step = "made" /\ Scanning(scan'[t]) /\ scan'[t].index = Indexed(found) /\ scan[t] # Rest
    BY <2>1, Directories DEF Scanning
  <2>3. \A u \in Threads : Underway(u)' <=> Underway(u) BY <2>1, <2>2 DEF Underway
  <2>4. \A u \in Threads : Underway(u) => u # t BY <2>1 DEF Underway
  <2>5. ScansTyped' BY <2>1, <2>2 DEF ScansTyped, Threads
  <2>6. ScanTrue' BY <2>1, <2>3, <2>4 DEF ScanTrue, Seen
  <2>7. FoundTrue' BY <2>1, <2>3 DEF FoundTrue, Seen
  <2>8. MadeTrue' BY <2>1, <2>2 DEF MadeTrue, Indexed
  <2>9. AppsTrue' BY <2>2 DEF AppsTrue
  <2> QED BY <2>5, <2>6, <2>7, <2>8, <2>9
<1>3. CASE PlaceIndex(t)
  <2>1. /\ scan[t].step = "made" /\ DOMAIN scan' = Threads /\ apps' = scan[t].index
        /\ UNCHANGED <<stage, dir, stirred, watching, found, doubtful>>
        /\ \A u \in Threads : u # t => scan'[u] = scan[u]
        /\ scan'[t] = Rest
    BY <1>3 DEF PlaceIndex, ScansTyped
  <2>2. scan'[t].step = "idle" /\ Scanning(scan'[t]) BY <2>1, Directories DEF Scanning
  <2>3. \A u \in Threads : Underway(u)' <=> Underway(u) BY <2>1, <2>2 DEF Underway
  <2>4. \A u \in Threads : Underway(u) => u # t BY <2>1 DEF Underway
  <2>5. ScansTyped' BY <2>1, <2>2 DEF ScansTyped, Threads
  <2>6. ScanTrue' BY <2>1, <2>3, <2>4 DEF ScanTrue, Seen
  <2>7. FoundTrue' BY <2>1, <2>3 DEF FoundTrue, Seen
  <2>8. MadeTrue' BY <2>1, <2>2 DEF MadeTrue, Indexed
  <2>9. apps' = Indexed(found) BY <2>1 DEF MadeTrue
  <2>10. AppsTrue' BY <2>1, <2>9 DEF AppsTrue, Indexed
  <2> QED BY <2>5, <2>6, <2>7, <2>8, <2>10
<1> QED BY <1>1, <1>2, <1>3

(* What leaves the applications alone keeps the invariant, and so do the   *)
(* two steps of the engine.                                                *)
LEMMA AppsStay ==
  ASSUME AppsInv, UNCHANGED <<appvars, stage>> \/ WatchDirs \/ WatchBookmarks
  PROVE  AppsInv'
<1> USE DEF AppsInv
<1>1. ASSUME UNCHANGED <<dir, stirred, scan, found, apps, doubtful>>, ScansTyped' PROVE AppsInv'
  BY <1>1 DEF ScanTrue, FoundTrue, MadeTrue, AppsTrue, Underway, Seen, Indexed
<1>2. CASE UNCHANGED <<appvars, stage>>
  <2>1. UNCHANGED <<dir, stirred, scan, found, apps, doubtful, watching, stage>> BY <1>2 DEF appvars
  <2> QED BY <1>1, <2>1 DEF ScansTyped
<1>3. CASE WatchDirs
  <2>1. /\ UNCHANGED <<dir, stirred, scan, found, apps, doubtful>> /\ stage = "apps" /\ stage' = "bookmarks"
        /\ scan[Opener] = Rest /\ watching' \subseteq Dirs
    BY <1>3 DEF WatchDirs
  <2> QED BY <1>1, <2>1 DEF ScansTyped
<1>4. CASE WatchBookmarks
  <2>1. /\ UNCHANGED <<dir, stirred, scan, found, apps, doubtful, watching>> /\ stage = "bookmarks" /\ stage' = "open"
    BY <1>4 DEF WatchBookmarks, appvars
  <2> QED BY <1>1, <2>1 DEF ScansTyped
<1> QED BY <1>2, <1>3, <1>4

(* Every step of the launcher keeps both invariants.                       *)
LEMMA LauncherSteps ==
  ASSUME BooksInv, AppsInv, [LauncherNext]_launchvars
  PROVE  BooksInv' /\ AppsInv'
<1>1. CASE UNCHANGED launchvars
  <2>1. UNCHANGED <<bookvars, stage>> /\ UNCHANGED <<appvars, stage>> BY <1>1 DEF launchvars
  <2> QED BY <2>1, BooksStay, AppsStay
<1>2. ASSUME NEW f \in Files, NEW content, ChangeFile(f, content), content = Broken \/ content.state # "broken"
      PROVE  BooksInv' /\ AppsInv'
  <2>1. UNCHANGED <<appvars, stage>> BY <1>2 DEF ChangeFile
  <2> QED BY <1>2, <2>1, FileChanges, AppsStay
<1>3. ASSUME NEW f \in Files, \E s \in SUBSET Bookmarks : ChangeFile(f, Holding(s))
      PROVE  BooksInv' /\ AppsInv'
  <2>1. \A s : Holding(s).state # "broken" BY DEF Holding
  <2> QED BY <1>2, <1>3, <2>1
<1>4. ASSUME NEW f \in Files, ChangeFile(f, Missing) \/ ChangeFile(f, Broken)
      PROVE  BooksInv' /\ AppsInv'
  <2>1. Missing.state # "broken" BY DEF Missing
  <2> QED BY <1>2, <1>4, <2>1
<1>5. CASE Reload \/ LoadFile \/ WriteEntries \/ IndexBookmarks
  <2>1. UNCHANGED <<appvars, stage>> BY <1>5 DEF Reload, LoadFile, WriteEntries, IndexBookmarks
  <2> QED BY <1>5, <2>1, LoadSteps, AppsStay
<1>6. ASSUME NEW d \in Dirs, Rescan(d) \/ \E a \in SUBSET Apps : ChangeDir(d, Holding(a))
      PROVE  BooksInv' /\ AppsInv'
  <2>1. UNCHANGED <<bookvars, stage>> BY <1>6 DEF Rescan, ChangeDir
  <2> QED BY <1>6, <2>1, BooksStay, RescanKeeps, DirChanges
<1>7. ASSUME NEW t \in DOMAIN scan, ScanDir(t) \/ WriteApps(t) \/ MakeIndex(t) \/ PlaceIndex(t)
      PROVE  BooksInv' /\ AppsInv'
  <2>1. UNCHANGED <<bookvars, stage>> BY <1>7 DEF ScanDir, WriteApps, MakeIndex, PlaceIndex
  <2>2. t \in Threads BY <1>7 DEF AppsInv, ScansTyped
  <2> QED BY <1>7, <2>1, <2>2, BooksStay, ScanKeeps, WriteKeeps
<1>8. CASE WatchDirs \/ WatchBookmarks BY <1>8, EngineSteps, AppsStay
<1>9. CASE (\E k \in Keys : RecordUsage(k)) \/ HalfLife
  <2>1. UNCHANGED <<bookvars, stage>> /\ UNCHANGED <<appvars, stage>> BY <1>9 DEF RecordUsage, HalfLife
  <2> QED BY <2>1, BooksStay, AppsStay
<1> QED BY <1>1, <1>3, <1>4, <1>5, <1>6, <1>7, <1>8, <1>9 DEF LauncherNext

(* The invariants say what the run checks.                                 *)
LEMMA IndexesMeant == BooksInv /\ AppsInv => IndexIsRaw /\ IndexIsFresh /\ NothingVanishes
<1> SUFFICES ASSUME BooksInv, AppsInv PROVE IndexIsRaw /\ IndexIsFresh /\ NothingVanishes OBVIOUS
<1> USE DEF BooksInv, AppsInv
<1>0. Rest.step = "idle" /\ Opener \in Threads /\ DOMAIN scan = Threads
  BY Directories DEF Threads, ScansTyped
<1>1. IndexIsRaw BY <1>0 DEF IndexIsRaw, AppsTrue, ScansTyped
<1>2. UNION {Collected(file[f].holds) : f \in Files} = Both BY TwoFiles DEF Both, Holds
<1>3. IndexIsFresh
  <2>1. Settled /\ ~suspect /\ (\A f \in Files : file[f] # Broken) => marks = Both
    BY <1>0, TwoFiles DEF Settled, LeftTrue, Sound
  <2>2. Scanned /\ ~doubtful => found = Seen(NDirs)
    BY <1>0 DEF Scanned, FoundTrue, Underway
  <2>3. Seen(NDirs) = UNION {dir[d].holds : d \in Dirs} BY DEF Seen, Dirs
  <2> QED BY <1>2, <2>1, <2>2, <2>3 DEF IndexIsFresh
<1>4. NothingVanishes
  <2> SUFFICES ASSUME load.step = "index", changed = {}, ~suspect, NEW f \in Files
               PROVE  Collected(good[f]) \subseteq entries
    BY DEF NothingVanishes
  <2>1. entries = Both /\ file[f] # Broken BY TwoFiles DEF LeftTrue, Sound
  <2>2. good[f] = file[f].holds BY <2>1 DEF BooksTyped
  <2> QED BY <1>2, <2>1, <2>2
<1> QED BY <1>1, <1>3, <1>4

(* xw-bookmark and xw-app, watcher.rs and the engine: in every reachable   *)
(* state, for any files, directories and changes of them, no index stays   *)
(* behind its list, what is shown is what is there once the watchers rest, *)
(* and no bookmark goes because a file could not be read.                  *)
THEOREM IndexesAreKept == LauncherSpec => [](IndexIsRaw /\ IndexIsFresh /\ NothingVanishes)
<1>1. (BooksInv /\ AppsInv) /\ [LauncherNext]_launchvars => (BooksInv /\ AppsInv)' BY LauncherSteps
<1>2. LauncherInit => BooksInv /\ AppsInv BY BooksStart, AppsStart
<1> QED BY <1>1, <1>2, IndexesMeant, PTL DEF LauncherSpec
=============================================================================
