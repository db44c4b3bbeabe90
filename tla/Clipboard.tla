------------------------------ MODULE Clipboard ------------------------------
(* The clipboard history.  Everything it does runs under the lock of its   *)
(* state: the poll of the pasteboard, which other programs change at any   *)
(* moment, and the calls of the user.  Large texts and images lie in files *)
(* named by their hash, the rows in the database.  An item is known by its *)
(* content here: the hash is unique.                                       *)
EXTENDS Integers, FiniteSets, FiniteSetsExt

CONSTANTS Contents,    \* what a pasteboard may hold
          Texts,       \* the contents that are text
          InFile,      \* the contents kept in a file: large texts and images
          Batch,       \* bound of the code: rows removed by one statement
          MaxVersions, \* bound: changes of the pasteboard
          MaxCalls,    \* bound: calls of the user
          MaxTime,     \* bound: clock
          MaxFailures  \* bound: failures of storage or of the disk, and crashes

VARIABLES board,       \* the pasteboard: its change count and content
          rows,        \* the items in the database
          files,       \* the attachments on disk
          seen,        \* last_count
          last,        \* last_hash
          op,          \* what holds the lock
          now, calls, failures,
          typed,       \* history: contents that were on the pasteboard or entered
          taken,       \* history: versions of the pasteboard that were captured
          ours,        \* history: the version a copy of ours wrote
          halfway      \* history: an item went, but the call failed before forgetting its hash

bvars == <<board, rows, files, seen, last, op, now, calls, failures, typed, taken, ours, halfway>>
ghosts == <<typed, taken, ours, halfway>>

Empty == "empty"

ASSUME ClipboardAssumption ==
  Texts \subseteq Contents /\ InFile \subseteq Contents /\ Empty \notin Contents

Gone == [at |-> 0]
Unknown == 0
Idle == [kind |-> "idle"]

Present == {c \in Contents : rows[c] # Gone}
NewRow == [at |-> now, changed |-> now, favorite |-> FALSE, noted |-> FALSE]

ClipboardInit ==
  /\ board \in [n : {1}, c : Contents \cup {Empty}]
  /\ rows = [c \in Contents |-> Gone] /\ files = {}
  /\ seen = Unknown /\ last = Empty /\ op = Idle
  /\ now = 1 /\ calls = 0 /\ failures = 0
  /\ typed = {board.c} /\ taken = {} /\ ours = Unknown /\ halfway = FALSE

(* Another program, at any moment.                                         *)
Paste(c) ==
  /\ board.n < MaxVersions
  /\ board' = [n |-> board.n + 1, c |-> c] /\ typed' = typed \cup {c}
  /\ UNCHANGED <<rows, files, seen, last, op, now, calls, failures, taken, ours, halfway>>

Tick == /\ now < MaxTime /\ now' = now + 1
        /\ UNCHANGED <<board, rows, files, seen, last, op, calls, failures, ghosts>>

(***************************************************************************)
(* The poll.                                                               *)
(***************************************************************************)
Poll ==
  /\ op = Idle /\ seen # board.n
  /\ op' = [kind |-> "poll", step |-> "read", n |-> board.n]
  /\ UNCHANGED <<board, rows, files, seen, last, now, calls, failures, ghosts>>

(* What is read while the pasteboard changes may be no content it ever had. *)
Read(c) ==
  /\ op.kind = "poll" /\ op.step = "read"
  /\ op.n = board.n => c = board.c
  /\ op' = [kind |-> "poll", step |-> "check", n |-> op.n, c |-> c]
  /\ UNCHANGED <<board, rows, files, seen, last, now, calls, failures, ghosts>>

StillThere == board.n = op.n

(* The version is done with when there is nothing in it, or what the last  *)
(* capture or copy left there; otherwise it is saved first.                *)
CheckRead ==
  /\ op.kind = "poll" /\ op.step = "check"
  /\ IF ~StillThere THEN op' = Idle /\ UNCHANGED <<seen, last>>
     ELSE IF op.c = Empty THEN op' = Idle /\ seen' = op.n /\ last' = Empty
     ELSE IF op.c = last THEN op' = Idle /\ seen' = op.n /\ UNCHANGED last
     ELSE op' = [op EXCEPT !.step = "file"] /\ UNCHANGED <<seen, last>>
  /\ halfway' = (halfway /\ last' = last)
  /\ UNCHANGED <<board, rows, files, now, calls, failures, typed, taken, ours>>

(***************************************************************************)
(* Capture: of the poll, and of a text that is entered.                    *)
(***************************************************************************)
Call(o) == /\ op = Idle /\ calls < MaxCalls
           /\ calls' = calls + 1 /\ op' = o

AddText(c) ==
  /\ c \in Texts /\ Call([kind |-> "add", step |-> "file", c |-> c])
  /\ typed' = typed \cup {c}
  /\ UNCHANGED <<board, rows, files, seen, last, now, failures, taken, ours, halfway>>

(* A file that is already there is not written again.                      *)
WriteFile ==
  /\ op.kind \in {"poll", "add", "edit"} /\ op.step = "file"
  /\ op' = [op EXCEPT !.step = "row"]
  /\ files' = files \cup ({op.c} \cap InFile)
  /\ UNCHANGED <<board, rows, seen, last, now, calls, failures, ghosts>>

Captured(c) ==
  [rows EXCEPT ![c] = IF @ = Gone THEN NewRow ELSE [@ EXCEPT !.at = now]]

RememberLatest == seen' = board.n /\ last' = op.c
RememberHash == UNCHANGED seen /\ last' = op.c
Remember == seen' = op.n /\ last' = op.c

CaptureRow ==
  /\ op.kind \in {"poll", "add"} /\ op.step = "row"
  /\ rows' = Captured(op.c) /\ op' = Idle
  /\ IF op.kind = "poll"
     THEN Remember /\ taken' = taken \cup {op.n} /\ halfway' = FALSE
     ELSE UNCHANGED <<seen, last, taken, halfway>>
  /\ UNCHANGED <<board, files, now, calls, failures, typed, ours>>

(***************************************************************************)
(* Copy: another program may write between our write and its end.          *)
(***************************************************************************)
Copy(c) ==
  /\ c \in Present /\ (c \in InFile => c \in files)
  /\ Call([kind |-> "copy", step |-> "write", c |-> c])
  /\ UNCHANGED <<board, rows, files, seen, last, now, failures, ghosts>>

WriteBoard ==
  /\ op.kind = "copy" /\ op.step = "write"
  /\ board' = [n |-> board.n + 1, c |-> op.c]
  /\ op' = [kind |-> "copy", step |-> "touch", c |-> op.c, n |-> board.n + 1]
  /\ UNCHANGED <<rows, files, seen, last, now, calls, failures, ghosts>>

CountAfterCopy == Unknown

Touch ==
  /\ op.kind = "copy" /\ op.step = "touch"
  /\ rows' = [rows EXCEPT ![op.c].at = now]
  /\ seen' = CountAfterCopy /\ last' = op.c
  /\ ours' = op.n /\ halfway' = FALSE /\ op' = Idle
  /\ UNCHANGED <<board, files, now, calls, failures, typed, taken>>

(***************************************************************************)
(* Edit, delete, purge and clear.                                          *)
(***************************************************************************)
Mark(c, field, value) ==
  /\ c \in Present /\ op = Idle /\ calls < MaxCalls /\ calls' = calls + 1
  /\ rows' = [rows EXCEPT ![c][field] = value,
                          ![c].changed = IF rows[c][field] = value THEN @ ELSE now]
  /\ UNCHANGED <<board, files, seen, last, op, now, failures, ghosts>>

(* A category of items goes: the items stay, but only those with a remark  *)
(* of their own remain noted.                                              *)
DeleteCategory(items, remarked) ==
  /\ op = Idle /\ calls < MaxCalls /\ calls' = calls + 1
  /\ items \subseteq {c \in Present : rows[c].noted} /\ remarked \subseteq items
  /\ rows' = [c \in Contents |-> IF c \in items
                                 THEN [rows[c] EXCEPT !.noted = c \in remarked, !.changed = now]
                                 ELSE rows[c]]
  /\ UNCHANGED <<board, files, seen, last, op, now, failures, ghosts>>

Edit(c, d) ==
  /\ c \in Present \cap Texts /\ d \in Texts
  /\ Call([kind |-> "edit", step |-> "file", from |-> c, c |-> d])
  /\ typed' = typed \cup {d}
  /\ UNCHANGED <<board, rows, files, seen, last, now, failures, taken, ours, halfway>>

(* An item that is edited into what another item holds is merged into it.  *)
Merged(c, d) ==
  LET source == rows[c]
      target == rows[d]
      marks == [favorite |-> source.favorite \/ target.favorite,
                noted |-> source.noted \/ target.noted]
      same == marks.favorite = target.favorite /\ marks.noted = target.noted
  IN [target EXCEPT !.favorite = marks.favorite, !.noted = marks.noted,
                    !.changed = IF same THEN @ ELSE now]

Edited(c, d) ==
  IF c = d THEN rows
  ELSE [rows EXCEPT ![c] = Gone,
                    ![d] = IF @ = Gone THEN [rows[c] EXCEPT !.changed = now] ELSE Merged(c, d)]

(* The lock's last holder forgets the hash when an item went.              *)
EditRow ==
  /\ op.kind = "edit" /\ op.step = "row"
  /\ rows' = Edited(op.from, op.c)
  /\ op' = [kind |-> "edit", step |-> "clean", left |-> {op.from}, more |-> FALSE, count |-> 1]
  /\ UNCHANGED <<board, files, seen, last, now, calls, failures, ghosts>>

Delete(c) ==
  /\ c \in Present /\ Call([kind |-> "delete", step |-> "clean", left |-> {c},
                            more |-> FALSE, count |-> 1])
  /\ rows' = [rows EXCEPT ![c] = Gone]
  /\ UNCHANGED <<board, files, seen, last, now, failures, ghosts>>

Purge(cutoff) ==
  /\ cutoff \in 1..now
  /\ Call([kind |-> "purge", step |-> "batch", cutoff |-> cutoff, count |-> 0])
  /\ UNCHANGED <<board, rows, files, seen, last, now, failures, ghosts>>

ClearHistory ==
  /\ Call([kind |-> "clear", step |-> "batch", cutoff |-> 0, count |-> 0])
  /\ UNCHANGED <<board, rows, files, seen, last, now, failures, ghosts>>

Removable ==
  IF op.kind = "clear" THEN {c \in Present : ~rows[c].favorite}
  ELSE {c \in Present : /\ ~rows[c].favorite /\ ~rows[c].noted
                        /\ rows[c].at < op.cutoff /\ rows[c].changed < op.cutoff}

RemoveBatch ==
  /\ op.kind \in {"purge", "clear"} /\ op.step = "batch"
  /\ \E gone \in kSubset(IF Cardinality(Removable) < Batch THEN Cardinality(Removable)
                                                           ELSE Batch, Removable) :
       /\ rows' = [c \in Contents |-> IF c \in gone THEN Gone ELSE rows[c]]
       /\ op' = [kind |-> op.kind, step |-> "clean", cutoff |-> op.cutoff,
                 count |-> op.count + Cardinality(gone),
                 left |-> gone, more |-> Cardinality(gone) = Batch]
  /\ UNCHANGED <<board, files, seen, last, now, calls, failures, ghosts>>

(* A file goes when no row has its hash: an edit may have kept the hash.   *)
Unasked(c) == TRUE
Unreferenced(c) == c \notin Present

Clean(c) ==
  /\ op.kind # "idle" /\ op.step = "clean" /\ c \in op.left
  /\ files' = IF Unreferenced(c) THEN files \ {c} ELSE files
  /\ op' = [op EXCEPT !.left = @ \ {c}]
  /\ UNCHANGED <<board, rows, seen, last, now, calls, failures, ghosts>>

NextBatch ==
  /\ op.kind # "idle" /\ op.step = "clean" /\ op.left = {} /\ op.more
  /\ op' = [kind |-> op.kind, step |-> "batch", cutoff |-> op.cutoff, count |-> op.count]
  /\ UNCHANGED <<board, rows, files, seen, last, now, calls, failures, ghosts>>

Forgets == op.kind # "purge" \/ op.count > 0

Removed ==
  /\ op.kind # "idle" /\ op.step = "clean" /\ op.left = {} /\ ~op.more
  /\ last' = IF Forgets THEN Empty ELSE last
  /\ halfway' = (halfway /\ ~Forgets)
  /\ ours' = IF Forgets THEN Unknown ELSE ours
  /\ op' = Idle
  /\ UNCHANGED <<board, rows, files, seen, now, calls, failures, typed, taken>>

(* Any step under way may fail: the call ends there.  An edit whose row    *)
(* was not written tries to remove the file it wrote for it.               *)
Fail ==
  /\ op # Idle /\ failures < MaxFailures /\ failures' = failures + 1
  /\ op' = Idle
  /\ files' \in IF op.kind = "edit" /\ op.step = "row" /\ Unreferenced(op.c)
                THEN {files, files \ {op.c}} ELSE {files}
  /\ halfway' = (halfway \/ (op.kind # "poll" /\ op.step = "clean")
                 \/ (op.kind \in {"purge", "clear"} /\ op.count > 0))
  /\ UNCHANGED <<board, rows, seen, last, now, calls, typed, taken, ours>>

(* The process ends: the rows and the files stay.                          *)
Crash ==
  /\ failures < MaxFailures /\ failures' = failures + 1
  /\ op' = Idle /\ seen' = Unknown /\ last' = Empty
  /\ taken' = {} /\ ours' = Unknown /\ halfway' = FALSE
  /\ UNCHANGED <<board, rows, files, now, calls, typed>>

ClipboardNext ==
  \/ \E c \in Contents \cup {Empty} : Paste(c) \/ Read(c)
  \/ Tick \/ Poll \/ CheckRead \/ WriteFile \/ CaptureRow \/ WriteBoard \/ Touch
  \/ \E c \in Contents :
       \/ AddText(c) \/ Copy(c) \/ Delete(c) \/ Clean(c)
       \/ \E b \in BOOLEAN : Mark(c, "favorite", b) \/ Mark(c, "noted", b)
       \/ \E d \in Texts : Edit(c, d)
  \/ \E items \in SUBSET Contents : \E remarked \in SUBSET items : DeleteCategory(items, remarked)
  \/ EditRow \/ (\E t \in 1..MaxTime : Purge(t)) \/ ClearHistory
  \/ RemoveBatch \/ NextBatch \/ Removed \/ Fail \/ Crash

ClipboardSpec == ClipboardInit /\ [][ClipboardNext]_bvars

(***************************************************************************)
(* Properties.                                                             *)
(***************************************************************************)
(* Whatever failed on the way, a row whose content lies in a file has it.  *)
FilesKept == InFile \cap Present \subseteq files

(* Nothing is in the history that was neither on the pasteboard nor        *)
(* entered: a read torn by another program's write is not kept.            *)
OnlyTyped == Present \subseteq typed

HistoryKept == FilesKept /\ OnlyTyped

(* When the poll is done with the version that is on the pasteboard, its   *)
(* content is in the history: a save that failed and a write right after   *)
(* our own are still to come.                                              *)
SeenIsSaved ==
  seen' # seen /\ seen' = board.n /\ ~halfway => board.c = Empty \/ rows'[board.c] # Gone

(* The poll writes the row of what it read: the one step out of this stage *)
(* that neither fails nor ends the process.                                *)
PollCaptures ==
  /\ op.kind = "poll" /\ op.step = "row"
  /\ op' = Idle /\ failures' = failures

(* The poll captures no version a second time, and the one a copy wrote    *)
(* not at all: an item that was deleted since would come back.             *)
TakenOnce == PollCaptures => op.n \notin taken /\ op.n # ours

(* A favourite goes only when it is deleted, or merged into one.           *)
FavoritesStay ==
  \A c \in Contents : rows[c] # Gone /\ rows[c].favorite /\ rows'[c] = Gone =>
    \/ op'.kind = "delete"
    \/ op.kind = "edit" /\ rows'[op.c] # Gone /\ rows'[op.c].favorite

HistoryTrue == [][SeenIsSaved /\ TakenOnce /\ FavoritesStay]_bvars
=============================================================================
