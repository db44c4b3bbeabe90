------------------------------- MODULE Rollout -------------------------------
(***************************************************************************)
(* The file layer of one conversation: the JSONL journal of                *)
(* crates/xw-agent-rollout, the OS lock that gives it one writer, and the  *)
(* catalogue row under which crates/xw-agent creates, opens and deletes    *)
(* it.  A record is its entry identity, which EntryId::new makes unique;   *)
(* what a record says is the business of module AgentRun.                  *)
(*                                                                         *)
(* The storage under the code is modelled by what it promises: a write is  *)
(* visible to every process at once (page) and reaches the device when it  *)
(* is synced or written back (disk); a directory entry likewise (seen,     *)
(* kept).  A process can die at any step and leaves what is visible; a     *)
(* power loss leaves what is on the device.                                *)
(***************************************************************************)
EXTENDS Naturals, Sequences, SequencesExt

CONSTANTS
  Writers,     \* processes, or sessions of one process, that may open it
  NoWriter,    \* the lock is free
  MaxEntries   \* bound on the entry identities handed out

ASSUME WriterAssumption == NoWriter \notin Writers
ASSUME BoundAssumption == MaxEntries \in Nat

VARIABLES
  page,        \* the file as every process sees it
  disk,        \* the file as the device holds it
  seen,        \* the directory entry is visible
  kept,        \* the directory entry is on the device
  holder,      \* owner of the WriterLock, or NoWriter
  phase,       \* phase[w]: what the handle of w is in the middle of
  entries,     \* entries[w]: the entries its Journal holds
  pending,     \* pending[w]: the identity it is writing or dropping, or 0
  setup,       \* the handle belongs to a create that has not finished
  row,         \* what SQLite knows of the session, and before and after it
  nextId,      \* the next fresh entry identity
  confirmed,   \* history: the records some sync has confirmed
  discarded,   \* history: the identities a completed repair has dropped
  refused      \* history: the identities whose append returned an error

handle == <<phase, entries, pending, setup>>
entry == <<seen, kept>>
vars == <<page, disk, seen, kept, holder, phase, entries, pending, setup,
          row, nextId, confirmed, discarded, refused>>

Ids == 1..MaxEntries

(* A file is complete lines and, behind the last newline, possibly the     *)
(* tail of a record whose newline was not written: 0 when there is none.   *)
File(lines, tail) == [lines |-> lines, tail |-> tail]
Files == [lines : Seq(Ids), tail : 0..MaxEntries]
EmptyFile == File(<<>>, 0)

(* The phases of a handle: a Journal (Ready, inside an append, NeedsCheck, *)
(* inside a check or a repair) or the SessionFiles of a deletion.          *)
Phases == {"closed", "ready", "writing", "written", "needs_check",
           "truncated", "repairing", "claimed", "removed"}

(* "none" is an identity nobody has used yet and "creating" one whose row   *)
(* is not registered: SQLite holds a row for "live" and "deleting" only.   *)
Rows == {"none", "creating", "live", "deleting", "gone"}

(* The handle of w becomes one in phase p that holds es and works on x.    *)
Become(w, p, es, x) ==
  /\ phase' = [phase EXCEPT ![w] = p]
  /\ entries' = [entries EXCEPT ![w] = es]
  /\ pending' = [pending EXCEPT ![w] = x]

(* The handle of w goes on to phase p.                                     *)
Move(w, p) ==
  /\ phase' = [phase EXCEPT ![w] = p]
  /\ UNCHANGED <<entries, pending, setup>>

(* The handle of w goes away: dropped, or lost with its process.           *)
Drop(w) ==
  /\ Become(w, "closed", <<>>, 0)
  /\ setup' = FALSE
  /\ holder' = NoWriter

-----------------------------------------------------------------------------
Init ==
  /\ page = EmptyFile /\ disk = EmptyFile
  /\ seen = FALSE /\ kept = FALSE
  /\ holder = NoWriter
  /\ phase = [w \in Writers |-> "closed"]
  /\ entries = [w \in Writers |-> <<>>]
  /\ pending = [w \in Writers |-> 0]
  /\ setup = FALSE
  /\ row = "none"
  /\ nextId = 1
  /\ confirmed = <<>>
  /\ discarded = {} /\ refused = {}

(* create_with_cwd: the lock, then a new file that must not exist yet.     *)
Create(w) ==
  /\ row = "none"
  /\ row' = "creating"
  /\ holder = NoWriter
  /\ holder' = w
  /\ seen' = TRUE
  /\ page' = EmptyFile
  /\ disk' = EmptyFile
  /\ Become(w, "ready", <<>>, 0)
  /\ setup' = TRUE
  /\ UNCHANGED <<kept, nextId, confirmed, discarded, refused>>

(* append: refused while NeedsCheck; a fresh identity, then bytes.         *)
BeginAppend(w) ==
  /\ phase[w] = "ready"
  /\ setup => Len(entries[w]) < 2
  /\ nextId \in Ids
  /\ Become(w, "writing", entries[w], nextId)
  /\ nextId' = nextId + 1
  /\ UNCHANGED <<page, disk, entry, holder, setup, row, confirmed, discarded, refused>>

(* write_all of the record: a prefix of its bytes is in the file.          *)
WriteRecord(w) ==
  /\ phase[w] = "writing"
  /\ page.tail = 0
  /\ page' = File(page.lines, pending[w])
  /\ UNCHANGED <<disk, entry, holder, handle, row, nextId, confirmed, discarded, refused>>

(* write_all of the newline: the line is complete, though not synced.      *)
WriteNewline(w) ==
  /\ phase[w] = "writing"
  /\ page.tail = pending[w]
  /\ page' = File(Append(page.lines, pending[w]), 0)
  /\ Move(w, "written")
  /\ UNCHANGED <<disk, entry, holder, row, nextId, confirmed, discarded, refused>>

(* Mutant: the record is committed before its sync.                        *)
CommitAppendUnsynced(w) ==
  /\ phase[w] = "written"
  /\ confirmed' = page.lines
  /\ Become(w, "ready", Append(entries[w], pending[w]), 0)
  /\ UNCHANGED <<page, disk, entry, holder, setup, row, nextId, discarded, refused>>

(* flush and sync_data succeed: the record is pushed to the live entries.  *)
CommitAppend(w) ==
  /\ phase[w] = "written"
  /\ disk' = page
  /\ confirmed' = page.lines
  /\ Become(w, "ready", Append(entries[w], pending[w]), 0)
  /\ UNCHANGED <<page, entry, holder, setup, row, nextId, discarded, refused>>

(* Mutant: the error is returned and the journal stays Ready.              *)
FailAppendReady(w) ==
  /\ phase[w] \in {"writing", "written"} /\ ~setup
  /\ Become(w, "ready", entries[w], 0)
  /\ refused' = refused \cup {pending[w]}
  /\ UNCHANGED <<page, disk, entry, holder, setup, row, nextId, confirmed, discarded>>

(* Any I/O error of append: NeedsCheck, entries and position as they were. *)
FailAppend(w) ==
  /\ phase[w] \in {"writing", "written"} /\ ~setup
  /\ Move(w, "needs_check")
  /\ refused' = refused \cup {pending[w]}
  /\ UNCHANGED <<page, disk, entry, holder, row, nextId, confirmed, discarded>>

(* A failed create removes its file, or cannot; the handle goes either way. *)
FailCreate(w) ==
  /\ phase[w] \in {"writing", "written"} /\ setup
  /\ \E removed \in BOOLEAN : seen' = ~removed
  /\ Drop(w)
  /\ UNCHANGED <<page, disk, kept, row, nextId, confirmed, discarded, refused>>

(* Mutant: create returns without syncing the directory.                   *)
FinishCreateUnsynced(w) ==
  /\ phase[w] = "ready" /\ setup
  /\ Len(entries[w]) = 2
  /\ setup' = FALSE
  /\ UNCHANGED <<page, disk, entry, holder, phase, entries, pending,
                 row, nextId, confirmed, discarded, refused>>

(* The directory is synced and create returns a Journal.                   *)
FinishCreate(w) ==
  /\ phase[w] = "ready" /\ setup
  /\ Len(entries[w]) = 2
  /\ kept' = seen
  /\ setup' = FALSE
  /\ UNCHANGED <<page, disk, seen, holder, phase, entries, pending,
                 row, nextId, confirmed, discarded, refused>>

(* create_session registers the row only now; when SQLite refuses it, the  *)
(* session is forgotten and its file removed like that of a deleted one.   *)
Register(w) ==
  /\ row = "creating"
  /\ phase[w] = "ready" /\ ~setup
  /\ row' = "live"
  /\ UNCHANGED <<page, disk, entry, holder, handle, nextId, confirmed, discarded, refused>>

FailRegister(w) ==
  /\ row = "creating"
  /\ phase[w] = "ready" /\ ~setup
  /\ Become(w, "claimed", <<>>, 0)
  /\ UNCHANGED <<page, disk, entry, holder, setup, row, nextId, confirmed, discarded, refused>>

-----------------------------------------------------------------------------
(* check_after_failure: keep a diagnostic copy, cut the file back to the   *)
(* committed position, sync, read it again.  An error at any point leaves  *)
(* NeedsCheck, and the next check starts over.                             *)
CheckTruncate(w) ==
  /\ phase[w] = "needs_check"
  /\ page' = File(SubSeq(page.lines, 1, Len(entries[w])), 0)
  /\ Move(w, "truncated")
  /\ UNCHANGED <<disk, entry, holder, row, nextId, confirmed, discarded, refused>>

(* Mutant: Ready again before the truncation is synced.                    *)
CheckFinishUnsynced(w) ==
  /\ phase[w] = "truncated"
  /\ confirmed' = page.lines
  /\ discarded' = discarded \cup {pending[w]}
  /\ Become(w, "ready", page.lines, 0)
  /\ UNCHANGED <<page, disk, entry, holder, setup, row, nextId, refused>>

CheckFinish(w) ==
  /\ phase[w] = "truncated"
  /\ disk' = page
  /\ confirmed' = page.lines
  /\ discarded' = discarded \cup {pending[w]}
  /\ Become(w, "ready", page.lines, 0)
  /\ UNCHANGED <<page, entry, holder, setup, row, nextId, refused>>

CheckFail(w) ==
  /\ phase[w] = "truncated"
  /\ Move(w, "needs_check")
  /\ UNCHANGED <<page, disk, entry, holder, row, nextId, confirmed, discarded, refused>>

(* open_registered: the lock first, then read_and_repair.  With no tail    *)
(* the complete lines are the history as they stand; a tail is copied      *)
(* aside and cut off, and that is synced before the open returns.          *)
Open(w) ==
  /\ row = "live" /\ seen
  /\ holder = NoWriter
  /\ page.lines # <<>>
  /\ holder' = w
  /\ IF page.tail = 0
       THEN Become(w, "ready", page.lines, 0)
       ELSE Become(w, "repairing", <<>>, page.tail)
  /\ page' = File(page.lines, 0)
  /\ UNCHANGED <<disk, entry, setup, row, nextId, confirmed, discarded, refused>>

RepairFinish(w) ==
  /\ phase[w] = "repairing"
  /\ disk' = page
  /\ confirmed' = page.lines
  /\ discarded' = discarded \cup {pending[w]}
  /\ Become(w, "ready", page.lines, 0)
  /\ UNCHANGED <<page, entry, holder, setup, row, nextId, refused>>

-----------------------------------------------------------------------------
(* Mutant: the files are claimed without taking the lock first.            *)
ClaimUnlocked(w) ==
  /\ row \in {"live", "deleting"}
  /\ holder' = w
  /\ Become(w, "claimed", <<>>, 0)
  /\ UNCHANGED <<page, disk, entry, setup, row, nextId, confirmed, discarded, refused>>

(* Deletion: delete_target takes the files of a session that is not loaded *)
(* by claim_registered; a deleting row is claimed again until it is done.  *)
Claim(w) ==
  /\ row \in {"live", "deleting"}
  /\ holder = NoWriter
  /\ holder' = w
  /\ Become(w, "claimed", <<>>, 0)
  /\ UNCHANGED <<page, disk, entry, setup, row, nextId, confirmed, discarded, refused>>

(* mark_deleting commits; a loaded session then releases its journal.      *)
MarkDeleting(w) ==
  /\ row = "live"
  /\ phase[w] \in {"ready", "needs_check", "claimed"}
  /\ row' = "deleting"
  /\ IF phase[w] = "claimed" THEN UNCHANGED <<handle, holder>> ELSE Drop(w)
  /\ UNCHANGED <<page, disk, entry, nextId, confirmed, discarded, refused>>

(* delete_files: remove_file, then a sync of its directory.                *)
RemoveFile(w) ==
  /\ phase[w] = "claimed" /\ row \in {"creating", "deleting"}
  /\ seen
  /\ seen' = FALSE
  /\ Move(w, "removed")
  /\ UNCHANGED <<page, disk, kept, holder, row, nextId, confirmed, discarded, refused>>

SyncRemoval(w) ==
  /\ phase[w] = "removed"
  /\ kept' = FALSE
  /\ row' = "gone"
  /\ Drop(w)
  /\ UNCHANGED <<page, disk, seen, nextId, confirmed, discarded, refused>>

(* NotFound counts as removed: no sync, and the row goes.                  *)
AlreadyRemoved(w) ==
  /\ phase[w] = "claimed" /\ row \in {"creating", "deleting"}
  /\ ~seen
  /\ row' = "gone"
  /\ Drop(w)
  /\ UNCHANGED <<page, disk, entry, nextId, confirmed, discarded, refused>>

-----------------------------------------------------------------------------
(* The Journal is dropped (close, archive, an open that could not finish   *)
(* its repair) or its process dies: the OS lock goes, the bytes stay.      *)
Release(w) ==
  /\ holder = w
  /\ Drop(w)
  /\ UNCHANGED <<page, disk, entry, row, nextId, confirmed, discarded, refused>>

(* The OS writes dirty pages, or the directory, back at a time of its own. *)
WritebackFile ==
  /\ disk' = page
  /\ UNCHANGED <<page, entry, holder, handle, row, nextId, confirmed, discarded, refused>>

WritebackName ==
  /\ kept' = seen
  /\ UNCHANGED <<page, disk, seen, holder, handle, row, nextId, confirmed, discarded, refused>>

(* Every process dies and the file is what the device holds.               *)
PowerLoss ==
  /\ page' = disk
  /\ seen' = kept
  /\ phase' = [w \in Writers |-> "closed"]
  /\ entries' = [w \in Writers |-> <<>>]
  /\ pending' = [w \in Writers |-> 0]
  /\ setup' = FALSE
  /\ holder' = NoWriter
  /\ UNCHANGED <<disk, kept, row, nextId, confirmed, discarded, refused>>

CreateStep(w) ==
  \/ Create(w) \/ FailCreate(w) \/ FinishCreate(w)
  \/ Register(w) \/ FailRegister(w)

AppendStep(w) ==
  \/ BeginAppend(w) \/ WriteRecord(w) \/ WriteNewline(w)
  \/ CommitAppend(w) \/ FailAppend(w)

RepairStep(w) ==
  \/ CheckTruncate(w) \/ CheckFinish(w) \/ CheckFail(w)
  \/ Open(w) \/ RepairFinish(w)

DeleteStep(w) ==
  \/ Claim(w) \/ MarkDeleting(w) \/ RemoveFile(w)
  \/ SyncRemoval(w) \/ AlreadyRemoved(w)

Environment == WritebackFile \/ WritebackName \/ PowerLoss

Next ==
  \/ \E w \in Writers :
       \/ CreateStep(w) \/ AppendStep(w) \/ RepairStep(w) \/ DeleteStep(w)
       \/ Release(w)
  \/ Environment

Spec == Init /\ [][Next]_vars

-----------------------------------------------------------------------------
(* A handle that shows entries() to the session that owns it.              *)
Showing == {"ready", "writing", "written", "needs_check", "truncated"}

(* Types, and the lock: only its holder has the file open.                 *)
TypeOK ==
  /\ page \in Files /\ disk \in Files
  /\ seen \in BOOLEAN /\ kept \in BOOLEAN
  /\ holder \in Writers \cup {NoWriter}
  /\ phase \in [Writers -> Phases]
  /\ entries \in [Writers -> Seq(Ids)]
  /\ pending \in [Writers -> 0..MaxEntries]
  /\ setup \in BOOLEAN
  /\ row \in Rows
  /\ nextId \in 1..(MaxEntries + 1)
  /\ confirmed \in Seq(Ids)
  /\ discarded \subseteq Ids /\ refused \subseteq Ids
  /\ \A w \in Writers : phase[w] # "closed" => holder = w

(* A registered session can be opened, and shows every record that was     *)
(* ever confirmed, from its header on: after any crash, any power loss and *)
(* any failed append or interrupted repair.  It rests on the order of      *)
(* create (two synced records, the directory, and only then the row) and   *)
(* on repair never cutting before the committed position.                  *)
ConfirmedSurvives ==
  row = "live" =>
    /\ seen /\ kept
    /\ Len(confirmed) >= 2
    /\ IsPrefix(confirmed, page.lines)
    /\ IsPrefix(confirmed, disk.lines)

(* "Keep the live cache identical to replay": the entries a Ready journal  *)
(* holds are what reading the file again would return, whatever failures,  *)
(* checks and reopenings came before.                                      *)
LiveEqualsReplay ==
  \A w \in Writers :
    phase[w] = "ready" => page.tail = 0 /\ entries[w] = page.lines

(* A record that a completed repair dropped never comes back: no append    *)
(* after it, crash or power loss (the truncation was synced before Ready)  *)
(* makes it part of the file again.                                        *)
DiscardedStaysOut ==
  \A f \in {page, disk} :
    discarded \cap (Range(f.lines) \cup {f.tail}) = {}

-----------------------------------------------------------------------------
(* What the journal promises its session is module DurableLog.             *)
Doubtful ==
  LET inFiles == UNION {Range(f.lines) \cup {f.tail} : f \in {page, disk}}
      tried == {pending[w] : w \in Writers}
  IN  ((inFiles \cup tried) \ {0}) \ (Range(confirmed) \cup discarded)

Owned == \E w \in Writers : phase[w] \in Showing

Log == INSTANCE DurableLog
         WITH log <- confirmed, doubt <- Doubtful, used <- nextId - 1, open <- Owned,
              shown <- IF Owned THEN entries[holder] ELSE <<>>

(* The file implements the abstract log: confirmed records only grow, in   *)
(* order, from records in doubt; what is decided stays decided; and an     *)
(* owner always sees the confirmed records, then some that are in doubt.   *)
ImplementsLog == Log!Spec

-----------------------------------------------------------------------------
(* What the comments and the format document say, checked against the code *)
(* in runs of their own.                                                   *)

(* "Even a complete line whose sync failed is uncommitted; do not promote  *)
(* it by reopening": a record whose append reported an error to the run is *)
(* never part of the history a handle shows.                               *)
RefusedIsNotPromoted ==
  \A w \in Writers : Range(entries[w]) \cap refused = {}

(* "Only after the whole line, the newline and flush/sync_data succeeded   *)
(* does the confirmed position advance": the records a Ready journal holds *)
(* as committed would survive a power loss at that moment.                 *)
CommittedIsSynced ==
  \A w \in Writers :
    phase[w] = "ready" => IsPrefix(entries[w], disk.lines)

(* The row goes only after its file was deleted: a session SQLite has      *)
(* forgotten leaves no journal a power loss could bring back.              *)
ForgottenIsErased == row = "gone" => ~seen /\ ~kept
=============================================================================
