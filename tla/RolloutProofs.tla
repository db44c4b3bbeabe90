---------------------------- MODULE RolloutProofs ----------------------------
(***************************************************************************)
(* Proofs about a journal and the tools of its runs: the safety invariants *)
(* of the file layer for any set of writers and any number of records, and *)
(* that it implements module DurableLog; what the file tools, the todo     *)
(* list and the search tool remember; what a model was told.               *)
(***************************************************************************)
EXTENDS Rollout, SessionTools, FiniteSetTheorems, FunctionTheorems, SequenceTheorems, TLAPS

(* IsPrefix, element by element: the form the provers work with.           *)
Begins(s, t) == Len(s) <= Len(t) /\ \A i \in 1..Len(s) : s[i] = t[i]

(* The identity x is not in the sequence s.                                *)
Absent(x, s) == \A i \in 1..Len(s) : s[i] # x

-----------------------------------------------------------------------------
(* The inductive invariant.                                                *)

(* A handle that appends, or cuts the file back, has an identity in hand.  *)
Pending == {"writing", "written", "needs_check", "truncated", "repairing"}

(* Identities in a file were handed out, none was discarded, and the tail  *)
(* is none of the lines.                                                   *)
FileOK(f) ==
  /\ \A i \in 1..Len(f.lines) : f.lines[i] < nextId /\ f.lines[i] \notin discarded
  /\ f.tail < nextId
  /\ f.tail # 0 => f.tail \notin discarded /\ Absent(f.tail, f.lines)

FilesOK ==
  /\ FileOK(page)
  /\ FileOK(disk)
  /\ \A d \in discarded : d < nextId

(* How the file stands to the entries of the handle that writes it.        *)
HandleOK(w) ==
  /\ phase[w] \in {"ready", "truncated"} => page.lines = entries[w] /\ page.tail = 0
  /\ phase[w] = "writing" => page.lines = entries[w] /\ page.tail \in {0, pending[w]}
  /\ phase[w] = "written" => page.lines = Append(entries[w], pending[w]) /\ page.tail = 0
  /\ phase[w] = "needs_check" =>
       \/ page.lines = entries[w] /\ page.tail \in {0, pending[w]}
       \/ page.lines = Append(entries[w], pending[w]) /\ page.tail = 0
  /\ phase[w] = "repairing" => page.tail = 0 /\ Absent(pending[w], page.lines)

(* A pending identity is used once and is in none of the entries.          *)
PendingOK(w) ==
  phase[w] \in Pending =>
    /\ pending[w] \in Ids /\ pending[w] < nextId
    /\ phase[w] # "repairing" => pending[w] \notin discarded /\ Absent(pending[w], entries[w])

(* The file stands in its directory, durably, with both setup records.     *)
Settled == seen /\ kept /\ Len(confirmed) >= 2

(* Where the creation, the repair or the deletion of a handle stands.      *)
StageOK(w) ==
  /\ setup => /\ phase[w] \in {"closed", "ready", "writing", "written"}
              /\ phase[w] = "ready" => confirmed = entries[w]
  /\ row = "creating" /\ phase[w] \in Showing /\ ~setup => Settled
  /\ phase[w] = "repairing" => row = "live"
  /\ phase[w] = "removed" => row \in {"creating", "deleting"}
  /\ phase[w] \in Showing => Begins(confirmed, entries[w]) /\ row # "none"

HandlesOK == \A w \in Writers : HandleOK(w) /\ PendingOK(w) /\ StageOK(w)

(* Confirmed records lead the file and its image on the device.            *)
ConfirmedOK ==
  /\ Begins(confirmed, page.lines)
  /\ Begins(confirmed, disk.lines)

RowOK ==
  /\ row = "none" => confirmed = <<>>
  /\ row = "live" => Settled
  /\ setup => row = "creating" /\ seen

IndInv == TypeOK /\ FilesOK /\ ConfirmedOK /\ RowOK /\ HandlesOK

-----------------------------------------------------------------------------
(* What a step of handle w starts from: the invariant as it stands for w,  *)
(* while every other handle is closed.                                     *)
Known(w) ==
  /\ page \in Files /\ disk \in Files
  /\ page.lines \in Seq(Ids) /\ disk.lines \in Seq(Ids)
  /\ page.tail \in 0..MaxEntries /\ disk.tail \in 0..MaxEntries
  /\ confirmed \in Seq(Ids) /\ nextId \in 1..(MaxEntries + 1)
  /\ entries[w] \in Seq(Ids) /\ pending[w] \in 0..MaxEntries
  /\ HandleOK(w) /\ PendingOK(w) /\ StageOK(w)
  /\ holder \in {NoWriter, w}
  /\ \A v \in Writers : v # w => phase[v] = "closed"

-----------------------------------------------------------------------------

(* Cutting a sequence, or one record more, at its length gives the         *)
(* sequence: what the truncation of check_after_failure leaves.            *)
LEMMA Cut ==
  ASSUME NEW s \in Seq(Ids), NEW x \in Ids
  PROVE  /\ SubSeq(s, 1, Len(s)) = s
         /\ SubSeq(Append(s, x), 1, Len(s)) = s
<1>1. SubSeq(s, 1, Len(s)) = s  BY SubSeqFull
<1>2. /\ SubSeq(Append(s, x), 1, Len(s)) \in Seq(Ids)
      /\ Len(SubSeq(Append(s, x), 1, Len(s))) = Len(s)
      /\ \A i \in 1..Len(s) : SubSeq(Append(s, x), 1, Len(s))[i] = s[i]
  BY AppendProperties, SubSeqProperties
<1>3. SubSeq(Append(s, x), 1, Len(s)) = s  BY <1>2, SeqEqual
<1>. QED  BY <1>1, <1>3

(* The lock makes a handle that acts the only open one.                    *)
LEMMA Facts ==
  ASSUME IndInv, NEW w \in Writers, phase[w] # "closed" \/ holder \in {NoWriter, w}
  PROVE  Known(w)
<1>1. holder \in {NoWriter, w}  BY WriterAssumption DEF IndInv, TypeOK
<1>2. \A v \in Writers : v # w => phase[v] = "closed"
  BY <1>1, WriterAssumption DEF IndInv, TypeOK
<1>. QED  BY <1>1, <1>2, WriterAssumption DEF Known, IndInv, TypeOK, HandlesOK, Files

(* Only the acting handle needs an argument: the others are closed.        *)
LEMMA Others ==
  ASSUME NEW w \in Writers,
         \A v \in Writers : v # w => phase'[v] = "closed",
         HandleOK(w)', PendingOK(w)', StageOK(w)'
  PROVE  HandlesOK'
<1>1. SUFFICES ASSUME NEW v \in Writers, v # w
               PROVE  HandleOK(v)' /\ PendingOK(v)' /\ StageOK(v)'
  BY DEF HandlesOK
<1>2. phase'[v] = "closed"  BY <1>1
<1>. QED  BY <1>2 DEF HandleOK, PendingOK, StageOK, Pending, Showing

(* A handle that lets its file go leaves every handle closed.              *)
LEMMA Dropped ==
  ASSUME TypeOK, NEW w \in Writers, Drop(w), \A v \in Writers : v # w => phase[v] = "closed"
  PROVE  /\ phase' \in [Writers -> Phases]
         /\ entries' \in [Writers -> Seq(Ids)]
         /\ pending' \in [Writers -> 0..MaxEntries]
         /\ setup' = FALSE /\ holder' = NoWriter
         /\ \A v \in Writers : phase'[v] = "closed"
BY BoundAssumption DEF TypeOK, Drop, Become, Phases

-----------------------------------------------------------------------------
(* Every step of a handle keeps the invariant.                             *)

(* Creation starts from an empty file that nobody holds.                   *)
LEMMA CreateInv ==
  ASSUME IndInv, NEW w \in Writers, Create(w)
  PROVE  IndInv'
<1>1. Known(w)  BY Facts DEF Create
<1>2. EmptyFile \in Files /\ confirmed = <<>>
  BY BoundAssumption DEF Create, EmptyFile, File, Files, IndInv, RowOK
<1>3. TypeOK'
  BY <1>1, <1>2, WriterAssumption, BoundAssumption
     DEF Create, Become, IndInv, TypeOK, Rows, Phases, Known
<1>4. FilesOK'
  BY <1>1 DEF Create, IndInv, FilesOK, FileOK, File, EmptyFile, Known
<1>5. ConfirmedOK'  BY <1>2 DEF Create, ConfirmedOK, Begins, File, EmptyFile
<1>6. RowOK'  BY <1>2 DEF Create, RowOK
<1>7. HandleOK(w)'  BY DEF Create, Become, IndInv, TypeOK, HandleOK, File, EmptyFile
<1>8. PendingOK(w)'  BY DEF Create, Become, IndInv, TypeOK, PendingOK, Pending
<1>9. StageOK(w)'  BY <1>2 DEF Create, Become, IndInv, TypeOK, StageOK, Begins, Showing
<1>10. \A v \in Writers : v # w => phase'[v] = "closed"
  BY <1>1 DEF Create, Become, Known
<1>. QED  BY <1>3, <1>4, <1>5, <1>6, <1>7, <1>8, <1>9, <1>10, Others DEF IndInv

(* The directory sync makes the name durable; both records already are.    *)
LEMMA FinishCreateInv ==
  ASSUME IndInv, NEW w \in Writers, FinishCreate(w)
  PROVE  IndInv'
<1>1. Known(w)  BY Facts DEF FinishCreate
<1>2. TypeOK'  BY DEF FinishCreate, IndInv, TypeOK
<1>3. FilesOK'  BY DEF FinishCreate, IndInv, FilesOK, FileOK
<1>4. ConfirmedOK'  BY DEF FinishCreate, IndInv, ConfirmedOK
<1>5. RowOK'  BY DEF FinishCreate, IndInv, RowOK
<1>6. HandleOK(w)'  BY <1>1 DEF FinishCreate, HandleOK, Known
<1>7. PendingOK(w)'  BY <1>1 DEF FinishCreate, PendingOK, Known
<1>8. StageOK(w)'
  BY <1>1 DEF FinishCreate, IndInv, StageOK, RowOK, Settled, Begins, Known
<1>9. \A v \in Writers : v # w => phase'[v] = "closed"
  BY <1>1 DEF FinishCreate, Known
<1>. QED  BY <1>2, <1>3, <1>4, <1>5, <1>6, <1>7, <1>8, <1>9, Others DEF IndInv

(* A failed creation leaves no row that needs the file.                    *)
LEMMA FailCreateInv ==
  ASSUME IndInv, NEW w \in Writers, FailCreate(w)
  PROVE  IndInv'
<1>1. Known(w)  BY Facts DEF FailCreate
<1>2. Drop(w)  BY DEF FailCreate
<1>3. /\ phase' \in [Writers -> Phases] /\ entries' \in [Writers -> Seq(Ids)]
      /\ pending' \in [Writers -> 0..MaxEntries] /\ setup' = FALSE
      /\ holder' = NoWriter /\ \A v \in Writers : phase'[v] = "closed"
  BY <1>1, <1>2, Dropped DEF IndInv, Known
<1>4. TypeOK'  BY <1>3 DEF FailCreate, IndInv, TypeOK
<1>5. FilesOK'  BY DEF FailCreate, IndInv, FilesOK, FileOK
<1>6. ConfirmedOK'  BY DEF FailCreate, IndInv, ConfirmedOK
<1>7. RowOK'  BY <1>3 DEF FailCreate, IndInv, RowOK
<1>8. HandlesOK'
  BY <1>3 DEF HandlesOK, HandleOK, PendingOK, Pending, StageOK, Showing
<1>. QED  BY <1>4, <1>5, <1>6, <1>7, <1>8 DEF IndInv

(* The row goes live over a settled file.                                  *)
LEMMA RegisterInv ==
  ASSUME IndInv, NEW w \in Writers, Register(w)
  PROVE  IndInv'
<1>1. Known(w)  BY Facts DEF Register
<1>2. TypeOK'  BY DEF Register, entry, handle, IndInv, TypeOK, Rows
<1>3. FilesOK'  BY DEF Register, IndInv, FilesOK, FileOK
<1>4. ConfirmedOK'  BY DEF Register, IndInv, ConfirmedOK
<1>5. RowOK'
  BY <1>1 DEF Register, entry, handle, RowOK, Settled, StageOK, Showing, Known
<1>6. HandleOK(w)'  BY <1>1 DEF Register, handle, HandleOK, Known
<1>7. PendingOK(w)'  BY <1>1 DEF Register, handle, PendingOK, Known
<1>8. StageOK(w)'  BY <1>1 DEF Register, handle, StageOK, Known
<1>9. \A v \in Writers : v # w => phase'[v] = "closed"
  BY <1>1 DEF Register, handle, Known
<1>. QED  BY <1>2, <1>3, <1>4, <1>5, <1>6, <1>7, <1>8, <1>9, Others DEF IndInv

(* A refused row turns the creating handle into a deleting one.            *)
LEMMA FailRegisterInv ==
  ASSUME IndInv, NEW w \in Writers, FailRegister(w)
  PROVE  IndInv'
<1>1. Known(w)  BY Facts DEF FailRegister
<1>2. TypeOK'
  BY BoundAssumption DEF FailRegister, Become, entry, IndInv, TypeOK, Phases
<1>3. FilesOK'  BY DEF FailRegister, IndInv, FilesOK, FileOK
<1>4. ConfirmedOK'  BY DEF FailRegister, IndInv, ConfirmedOK
<1>5. RowOK'  BY DEF FailRegister, RowOK
<1>6. HandleOK(w)'  BY DEF FailRegister, Become, IndInv, TypeOK, HandleOK
<1>7. PendingOK(w)'  BY DEF FailRegister, Become, PendingOK, Pending
<1>8. StageOK(w)'  BY DEF FailRegister, Become, IndInv, TypeOK, StageOK, Showing
<1>9. \A v \in Writers : v # w => phase'[v] = "closed"
  BY <1>1 DEF FailRegister, Become, Known
<1>. QED  BY <1>2, <1>3, <1>4, <1>5, <1>6, <1>7, <1>8, <1>9, Others DEF IndInv

(* A fresh identity is in no file and was never discarded.                 *)
LEMMA BeginAppendInv ==
  ASSUME IndInv, NEW w \in Writers, BeginAppend(w)
  PROVE  IndInv'
<1>1. Known(w)  BY Facts DEF BeginAppend
<1>2. /\ nextId \in Ids /\ nextId' = nextId + 1 /\ UNCHANGED <<page, disk, discarded>>
      /\ \A i \in 1..Len(page.lines) : page.lines[i] \in Ids
      /\ \A i \in 1..Len(disk.lines) : disk.lines[i] \in Ids
      /\ discarded \subseteq Ids
  BY <1>1 DEF BeginAppend, IndInv, TypeOK, Known
<1>3. TypeOK'
  BY BoundAssumption DEF BeginAppend, Become, entry, IndInv, TypeOK, Ids, Phases
<1>4. FilesOK'  BY <1>1, <1>2, SMTT(30) DEF IndInv, FilesOK, FileOK, HandleOK, Ids, Known
<1>5. ConfirmedOK'  BY DEF BeginAppend, IndInv, ConfirmedOK
<1>6. RowOK'  BY DEF BeginAppend, entry, IndInv, RowOK, Settled
<1>7. HandleOK(w)'  BY <1>1 DEF BeginAppend, Become, HandleOK, Known
<1>8. PendingOK(w)'
  BY <1>1 DEF BeginAppend, Become, IndInv, TypeOK, PendingOK, Pending, FilesOK,
       FileOK, HandleOK, Absent, Ids, Known
<1>9. StageOK(w)'
  BY <1>1 DEF BeginAppend, Become, entry, StageOK, Settled, Showing, Known
<1>10. \A v \in Writers : v # w => phase'[v] = "closed"
  BY <1>1 DEF BeginAppend, Become, Known
<1>. QED  BY <1>3, <1>4, <1>5, <1>6, <1>7, <1>8, <1>9, <1>10, Others DEF IndInv

(* The record without its newline is the tail of the file.                 *)
LEMMA WriteRecordInv ==
  ASSUME IndInv, NEW w \in Writers, WriteRecord(w)
  PROVE  IndInv'
<1>1. Known(w)  BY Facts DEF WriteRecord
<1>2. TypeOK'  BY DEF WriteRecord, handle, entry, IndInv, TypeOK, Files, File
<1>3. FilesOK'
  BY <1>1 DEF WriteRecord, IndInv, FilesOK, FileOK, HandleOK, PendingOK, Pending,
       File, Known
<1>4. ConfirmedOK'  BY DEF WriteRecord, IndInv, ConfirmedOK, File
<1>5. RowOK'  BY DEF WriteRecord, handle, entry, IndInv, RowOK, Settled
<1>6. HandleOK(w)'  BY <1>1 DEF WriteRecord, handle, HandleOK, File, Known
<1>7. PendingOK(w)'  BY <1>1 DEF WriteRecord, handle, PendingOK, Known
<1>8. StageOK(w)'
  BY <1>1 DEF WriteRecord, handle, entry, StageOK, Settled, Known
<1>9. \A v \in Writers : v # w => phase'[v] = "closed"
  BY <1>1 DEF WriteRecord, handle, Known
<1>. QED  BY <1>2, <1>3, <1>4, <1>5, <1>6, <1>7, <1>8, <1>9, Others DEF IndInv

(* The completed line extends the entries by the pending identity.         *)
LEMMA WriteNewlineInv ==
  ASSUME IndInv, NEW w \in Writers, WriteNewline(w)
  PROVE  IndInv'
<1>1. Known(w)  BY Facts DEF WriteNewline
<1>2. TypeOK'
  BY <1>1, BoundAssumption DEF WriteNewline, Move, entry, IndInv, TypeOK, Files, File,
       Phases, PendingOK, Pending, Known
<1>0. /\ page.lines \in Seq(Ids) /\ pending[w] \in Ids /\ pending[w] < nextId
      /\ pending[w] \notin discarded
      /\ page'.lines = Append(page.lines, pending[w]) /\ page'.tail = 0
      /\ UNCHANGED <<disk, nextId, discarded, confirmed>>
  BY <1>1 DEF WriteNewline, PendingOK, Pending, File, Known
<1>10. /\ Len(page.lines) \in Nat /\ Len(page'.lines) = Len(page.lines) + 1
      /\ page'.lines[Len(page.lines) + 1] = pending[w]
      /\ \A i \in 1..Len(page.lines) : page'.lines[i] = page.lines[i]
  BY <1>0, AppendProperties
<1>3. FilesOK'
  <2>1. FileOK(page) /\ FileOK(disk) /\ (\A d \in discarded : d < nextId) /\ 0 < nextId
    BY <1>1 DEF IndInv, FilesOK, Known
  <2>2. \A i \in 1..Len(page'.lines) : i \in 1..Len(page.lines) \/ i = Len(page.lines) + 1
    BY <1>10
  <2>3. \A i \in 1..Len(page'.lines) : page'.lines[i] < nextId /\ page'.lines[i] \notin discarded
    BY <1>0, <1>10, <2>1, <2>2 DEF FileOK
  <2>4. FileOK(page)'  BY <1>0, <2>1, <2>3 DEF FileOK
  <2>5. FileOK(disk)'  BY <1>0, <2>1 DEF FileOK, Absent
  <2>. QED  BY <1>0, <2>1, <2>4, <2>5 DEF FilesOK
<1>4. ConfirmedOK'
  <2>1. Begins(confirmed, page.lines) /\ Begins(confirmed, disk.lines) /\ Len(confirmed) \in Nat
    BY <1>1 DEF IndInv, ConfirmedOK, Known
  <2>2. Begins(confirmed, page'.lines)  BY <1>0, <1>10, <2>1 DEF Begins
  <2>. QED  BY <1>0, <2>1, <2>2 DEF ConfirmedOK
<1>5. RowOK'  BY DEF WriteNewline, Move, entry, IndInv, RowOK, Settled
<1>6. HandleOK(w)'
  BY <1>1 DEF WriteNewline, Move, IndInv, TypeOK, HandleOK, File, Known
<1>7. PendingOK(w)'  BY <1>1 DEF WriteNewline, Move, PendingOK, Pending, Known
<1>8. StageOK(w)'
  BY <1>1 DEF WriteNewline, Move, entry, StageOK, Settled, Showing, Known
<1>9. \A v \in Writers : v # w => phase'[v] = "closed"
  BY <1>1 DEF WriteNewline, Move, Known
<1>. QED  BY <1>2, <1>3, <1>4, <1>5, <1>6, <1>7, <1>8, <1>9, Others DEF IndInv

(* The synced line joins the entries, the confirmed records and the        *)
(* device.                                                                 *)
LEMMA CommitAppendInv ==
  ASSUME IndInv, NEW w \in Writers, CommitAppend(w)
  PROVE  IndInv'
<1>1. Known(w)  BY Facts DEF CommitAppend
<1>2. TypeOK'
  BY <1>1, BoundAssumption DEF CommitAppend, Become, entry, IndInv, TypeOK, Phases,
       PendingOK, Pending, Known
<1>3. FilesOK'  BY DEF CommitAppend, IndInv, FilesOK, FileOK
<1>4. ConfirmedOK'  BY DEF CommitAppend, ConfirmedOK, Begins
<1>5. RowOK'
  BY <1>1 DEF CommitAppend, entry, IndInv, RowOK, Settled, Begins, HandleOK, StageOK,
       Showing, Known
<1>6. HandleOK(w)'
  BY <1>1 DEF CommitAppend, Become, IndInv, TypeOK, HandleOK, Known
<1>7. PendingOK(w)'
  BY DEF CommitAppend, Become, IndInv, TypeOK, PendingOK, Pending
<1>8. StageOK(w)'
  BY <1>1, SMTT(30) DEF CommitAppend, Become, entry, IndInv, TypeOK, StageOK, RowOK, Settled,
       ConfirmedOK, Begins, HandleOK, Showing, Known
<1>9. \A v \in Writers : v # w => phase'[v] = "closed"
  BY <1>1 DEF CommitAppend, Become, Known
<1>. QED  BY <1>2, <1>3, <1>4, <1>5, <1>6, <1>7, <1>8, <1>9, Others DEF IndInv

(* A failed append leaves the file at the entries, perhaps with the        *)
(* record.                                                                 *)
LEMMA FailAppendInv ==
  ASSUME IndInv, NEW w \in Writers, FailAppend(w)
  PROVE  IndInv'
<1>1. Known(w)  BY Facts DEF FailAppend
<1>2. TypeOK'
  BY <1>1 DEF FailAppend, Move, entry, IndInv, TypeOK, Phases, PendingOK, Pending, Known
<1>3. FilesOK'  BY DEF FailAppend, IndInv, FilesOK, FileOK
<1>4. ConfirmedOK'  BY DEF FailAppend, IndInv, ConfirmedOK
<1>5. RowOK'  BY DEF FailAppend, Move, entry, IndInv, RowOK, Settled
<1>6. HandleOK(w)'  BY <1>1 DEF FailAppend, Move, HandleOK, Known
<1>7. PendingOK(w)'  BY <1>1 DEF FailAppend, Move, PendingOK, Pending, Known
<1>8. StageOK(w)'
  BY <1>1 DEF FailAppend, Move, entry, IndInv, StageOK, Settled, Showing, Known
<1>9. \A v \in Writers : v # w => phase'[v] = "closed"
  BY <1>1 DEF FailAppend, Move, Known
<1>. QED  BY <1>2, <1>3, <1>4, <1>5, <1>6, <1>7, <1>8, <1>9, Others DEF IndInv

(* Cutting at the committed position gives back exactly the entries.       *)
LEMMA CheckTruncateInv ==
  ASSUME IndInv, NEW w \in Writers, CheckTruncate(w)
  PROVE  IndInv'
<1>1. Known(w)
  BY Facts DEF CheckTruncate
<1>2. SubSeq(page.lines, 1, Len(entries[w])) = entries[w]
  <2>1. pending[w] \in Ids  BY <1>1 DEF CheckTruncate, PendingOK, Pending, Known
  <2>2. page.lines \in {entries[w], Append(entries[w], pending[w])}
    BY <1>1 DEF CheckTruncate, HandleOK, Known
  <2>3. SubSeq(entries[w], 1, Len(entries[w])) = entries[w]
    BY <1>1, <2>1, Cut DEF Known
  <2>4. SubSeq(Append(entries[w], pending[w]), 1, Len(entries[w])) = entries[w]
    BY <1>1, <2>1, Cut DEF Known
  <2>. QED  BY <2>2, <2>3, <2>4
<1>3. page' = File(entries[w], 0) /\ page' \in Files
  <2>1. page' = File(entries[w], 0)  BY <1>2 DEF CheckTruncate
  <2>2. File(entries[w], 0) \in Files  BY <1>1, BoundAssumption DEF File, Files, Known
  <2>. QED  BY <2>1, <2>2
<1>4. TypeOK'
  BY <1>1, <1>3 DEF CheckTruncate, Move, entry, IndInv, TypeOK, Rows, Ids, Phases, Known
<1>5. FilesOK'
  <2>1. FileOK(page) /\ FileOK(disk) /\ \A d \in discarded : d < nextId
    BY DEF IndInv, FilesOK
  <2>2. page.lines \in {entries[w], Append(entries[w], pending[w])}
    BY <1>1 DEF CheckTruncate, HandleOK, Known
  <2>3. \A i \in 1..Len(entries[w]) : i \in 1..Len(page.lines) /\ page.lines[i] = entries[w][i]
    <3>1. pending[w] \in Ids  BY <1>1 DEF CheckTruncate, PendingOK, Pending, Known
    <3>2. CASE page.lines = entries[w]  BY <1>1, <3>2 DEF Known
    <3>3. CASE page.lines = Append(entries[w], pending[w])
      BY <1>1, <3>1, <3>3, AppendProperties DEF Known
    <3>. QED  BY <2>2, <3>2, <3>3
  <2>4. \A i \in 1..Len(entries[w]) : entries[w][i] < nextId /\ entries[w][i] \notin discarded
    BY <2>1, <2>3 DEF FileOK
  <2>5. page'.lines = entries[w] /\ page'.tail = 0 /\ UNCHANGED <<disk, nextId, discarded>>
    BY <1>3 DEF CheckTruncate, entry, File
  <2>. QED  BY <1>1, <2>1, <2>4, <2>5 DEF FilesOK, FileOK, Known
<1>6. ConfirmedOK'
  <2>1. Begins(confirmed, entries[w])
    BY <1>1 DEF CheckTruncate, StageOK, Showing, Known
  <2>2. page'.lines = entries[w]  BY <1>3 DEF File
  <2>. QED  BY <2>1, <2>2 DEF CheckTruncate, IndInv, ConfirmedOK, Begins
<1>7. RowOK'
  BY <1>1, <1>3 DEF CheckTruncate, Move, entry, IndInv, RowOK, Settled, Known
<1>8. HandleOK(w)'
  BY <1>1, <1>3 DEF CheckTruncate, Move, IndInv, TypeOK, HandleOK, File, Known
<1>9. PendingOK(w)'
  BY <1>1, <1>3 DEF CheckTruncate, Move, entry, IndInv, TypeOK, PendingOK, Pending,
       Known
<1>10. StageOK(w)'
  BY <1>1, <1>3 DEF CheckTruncate, Move, entry, IndInv, TypeOK, StageOK, Settled,
       Showing, Begins, Known
<1>11. \A v \in Writers : v # w => phase'[v] = "closed"
  BY <1>1 DEF CheckTruncate, Move, IndInv, TypeOK, Known
<1>. QED
  BY <1>4, <1>5, <1>6, <1>7, <1>8, <1>9, <1>10, <1>11, Others DEF IndInv

(* The synced truncation discards the pending identity for good.           *)
LEMMA CheckFinishInv ==
  ASSUME IndInv, NEW w \in Writers, CheckFinish(w)
  PROVE  IndInv'
<1>1. Known(w)  BY Facts DEF CheckFinish
<1>2. /\ pending[w] \in Ids
      /\ phase' \in [Writers -> Phases] /\ entries' \in [Writers -> Seq(Ids)]
      /\ pending' \in [Writers -> 0..MaxEntries]
  BY <1>1, BoundAssumption DEF CheckFinish, Become, IndInv, TypeOK, PendingOK,
       Pending, Phases, Known
<1>3. TypeOK'  BY <1>2 DEF CheckFinish, Become, entry, IndInv, TypeOK
<1>4. FilesOK'
  BY <1>1 DEF CheckFinish, IndInv, FilesOK, FileOK, HandleOK, PendingOK, Pending,
       Absent, Known
<1>5. ConfirmedOK'  BY DEF CheckFinish, ConfirmedOK, Begins
<1>6. RowOK'
  BY <1>1 DEF CheckFinish, entry, IndInv, RowOK, Settled, Begins, HandleOK, StageOK,
       Showing, Known
<1>7. HandleOK(w)'  BY <1>1 DEF CheckFinish, Become, HandleOK, Known
<1>8. PendingOK(w)'  BY <1>2 DEF CheckFinish, Become, PendingOK, Pending
<1>9. StageOK(w)'
  BY <1>1 DEF CheckFinish, Become, entry, StageOK, Settled, Begins, HandleOK, Showing,
       Known
<1>10. \A v \in Writers : v # w => phase'[v] = "closed"
  BY <1>1 DEF CheckFinish, Become, Known
<1>. QED  BY <1>3, <1>4, <1>5, <1>6, <1>7, <1>8, <1>9, <1>10, Others DEF IndInv

(* A failed check is a failed append again.                                *)
LEMMA CheckFailInv ==
  ASSUME IndInv, NEW w \in Writers, CheckFail(w)
  PROVE  IndInv'
<1>1. Known(w)  BY Facts DEF CheckFail
<1>2. TypeOK'  BY DEF CheckFail, Move, entry, IndInv, TypeOK, Phases
<1>3. FilesOK'  BY DEF CheckFail, IndInv, FilesOK, FileOK
<1>4. ConfirmedOK'  BY DEF CheckFail, IndInv, ConfirmedOK
<1>5. RowOK'  BY DEF CheckFail, Move, entry, IndInv, RowOK, Settled
<1>6. HandleOK(w)'  BY <1>1 DEF CheckFail, Move, HandleOK, Known
<1>7. PendingOK(w)'  BY <1>1 DEF CheckFail, Move, PendingOK, Pending, Known
<1>8. StageOK(w)'
  BY <1>1 DEF CheckFail, Move, entry, StageOK, Settled, Showing, Known
<1>9. \A v \in Writers : v # w => phase'[v] = "closed"
  BY <1>1 DEF CheckFail, Move, Known
<1>. QED  BY <1>2, <1>3, <1>4, <1>5, <1>6, <1>7, <1>8, <1>9, Others DEF IndInv

(* A cold open adopts the complete lines, and cuts off the tail.           *)
LEMMA OpenInv ==
  ASSUME IndInv, NEW w \in Writers, Open(w)
  PROVE  IndInv'
<1>1. Known(w)
  BY Facts DEF Open
<1>2. page' = File(page.lines, 0) /\ page' \in Files /\ Settled /\ ~setup
  BY <1>1, BoundAssumption DEF Open, File, Files, IndInv, RowOK, Known
<1>3. TypeOK' /\ HandleOK(w)' /\ PendingOK(w)' /\ StageOK(w)'
  <2>1. CASE page.tail = 0
    <3>1. Become(w, "ready", page.lines, 0)  BY <2>1 DEF Open
    <3>2. TypeOK'
      BY <1>1, <1>2, <3>1, BoundAssumption DEF Open, entry, Become, IndInv, TypeOK,
           Phases, Known
    <3>3. HandleOK(w)' /\ PendingOK(w)'
      BY <1>1, <1>2, <3>1 DEF Become, IndInv, TypeOK, HandleOK, PendingOK, Pending,
           File, Known
    <3>4. StageOK(w)'
      BY <1>1, <1>2, <3>1 DEF Open, Become, IndInv, TypeOK, StageOK, Showing,
           ConfirmedOK, Begins, Known
    <3>. QED  BY <3>2, <3>3, <3>4
  <2>2. CASE page.tail # 0
    <3>1. Become(w, "repairing", <<>>, page.tail)  BY <2>2 DEF Open
    <3>2. TypeOK'
      BY <1>1, <1>2, <3>1, BoundAssumption DEF Open, entry, Become, IndInv, TypeOK,
           Phases, Known
    <3>3. HandleOK(w)' /\ PendingOK(w)'
      BY <1>1, <1>2, <2>2, <3>1 DEF Open, Become, IndInv, TypeOK, HandleOK, PendingOK,
           Pending, FilesOK, FileOK, File, Ids, Known
    <3>4. StageOK(w)'
      BY <1>1, <1>2, <3>1 DEF Open, Become, IndInv, TypeOK, StageOK, Showing, Known
    <3>. QED  BY <3>2, <3>3, <3>4
  <2>. QED  BY <2>1, <2>2
<1>4. FilesOK'
  BY <1>1, <1>2 DEF Open, IndInv, FilesOK, FileOK, File, Known
<1>5. ConfirmedOK' /\ RowOK'
  BY <1>1, <1>2 DEF Open, entry, IndInv, ConfirmedOK, RowOK, Settled, File, Known
<1>6. \A v \in Writers : v # w => phase'[v] = "closed"
  BY <1>1 DEF Open, Become, IndInv, TypeOK, Known
<1>. QED  BY <1>3, <1>4, <1>5, <1>6, Others DEF IndInv

(* The synced repair confirms the lines and discards the tail.             *)
LEMMA RepairFinishInv ==
  ASSUME IndInv, NEW w \in Writers, RepairFinish(w)
  PROVE  IndInv'
<1>1. Known(w)  BY Facts DEF RepairFinish
<1>2. /\ pending[w] \in Ids
      /\ phase' \in [Writers -> Phases] /\ entries' \in [Writers -> Seq(Ids)]
      /\ pending' \in [Writers -> 0..MaxEntries]
  BY <1>1, BoundAssumption DEF RepairFinish, Become, IndInv, TypeOK, PendingOK,
       Pending, Phases, Known
<1>3. TypeOK'  BY <1>2 DEF RepairFinish, Become, entry, IndInv, TypeOK
<1>4. FilesOK'
  BY <1>1 DEF RepairFinish, IndInv, FilesOK, FileOK, HandleOK, PendingOK, Pending,
       Absent, Known
<1>5. ConfirmedOK'  BY DEF RepairFinish, ConfirmedOK, Begins
<1>6. RowOK'
  BY <1>1 DEF RepairFinish, entry, IndInv, RowOK, Settled, Begins, StageOK,
       ConfirmedOK, Known
<1>7. HandleOK(w)'  BY <1>1, <1>2 DEF RepairFinish, Become, HandleOK, Known
<1>8. PendingOK(w)'  BY <1>2 DEF RepairFinish, Become, PendingOK, Pending
<1>9. StageOK(w)'
  BY <1>1, <1>2 DEF RepairFinish, Become, StageOK, Begins, Known
<1>10. \A v \in Writers : v # w => phase'[v] = "closed"
  BY <1>1 DEF RepairFinish, Become, Known
<1>. QED  BY <1>3, <1>4, <1>5, <1>6, <1>7, <1>8, <1>9, <1>10, Others DEF IndInv

(* A deletion claims a closed file.                                        *)
LEMMA ClaimInv ==
  ASSUME IndInv, NEW w \in Writers, Claim(w)
  PROVE  IndInv'
<1>1. Known(w)  BY Facts DEF Claim
<1>2. TypeOK'
  BY WriterAssumption, BoundAssumption DEF Claim, Become, entry, IndInv, TypeOK, Phases
<1>3. FilesOK'  BY DEF Claim, IndInv, FilesOK, FileOK
<1>4. ConfirmedOK'  BY DEF Claim, IndInv, ConfirmedOK
<1>5. RowOK'  BY DEF Claim, entry, IndInv, RowOK, Settled
<1>6. HandleOK(w)'  BY DEF Claim, Become, IndInv, TypeOK, HandleOK
<1>7. PendingOK(w)'  BY DEF Claim, Become, IndInv, TypeOK, PendingOK, Pending
<1>8. StageOK(w)'  BY DEF Claim, Become, IndInv, TypeOK, StageOK, RowOK, Showing
<1>9. \A v \in Writers : v # w => phase'[v] = "closed"
  BY <1>1 DEF Claim, Become, Known
<1>. QED  BY <1>2, <1>3, <1>4, <1>5, <1>6, <1>7, <1>8, <1>9, Others DEF IndInv

(* The deletion commits in the row while the files are still there.        *)
LEMMA MarkDeletingInv ==
  ASSUME IndInv, NEW w \in Writers, MarkDeleting(w)
  PROVE  IndInv'
<1>1. holder = w /\ \A v \in Writers : v # w => phase[v] = "closed"
  BY Facts, WriterAssumption DEF MarkDeleting, IndInv, TypeOK, Known
<1>2. /\ row' = "deleting"
      /\ UNCHANGED <<page, disk, seen, kept, nextId, confirmed, discarded, refused>>
  BY DEF MarkDeleting, entry
<1>3. FilesOK' /\ ConfirmedOK'
  BY <1>2 DEF IndInv, FilesOK, FileOK, ConfirmedOK
<1>4. CASE phase[w] = "claimed"
  <2>1. UNCHANGED <<phase, entries, pending, setup, holder>> /\ ~setup
    BY <1>4 DEF MarkDeleting, handle, IndInv, HandlesOK, StageOK
  <2>2. TypeOK' /\ RowOK'
    BY <1>2, <2>1 DEF IndInv, TypeOK, RowOK, Rows
  <2>3. HandlesOK'
    BY <1>1, <1>2, <1>4, <2>1 DEF IndInv, HandlesOK, HandleOK, PendingOK, Pending,
         StageOK, Showing
  <2>. QED  BY <1>3, <2>2, <2>3 DEF IndInv
<1>5. CASE phase[w] # "claimed"
  <2>1. Drop(w)  BY <1>5 DEF MarkDeleting
  <2>2. /\ phase' \in [Writers -> Phases]
        /\ entries' \in [Writers -> Seq(Ids)]
        /\ pending' \in [Writers -> 0..MaxEntries]
        /\ setup' = FALSE /\ holder' = NoWriter
        /\ \A v \in Writers : phase'[v] = "closed"
    BY <1>1, <2>1, Dropped DEF IndInv
  <2>3. TypeOK' /\ RowOK'
    BY <1>2, <2>2 DEF IndInv, TypeOK, RowOK, Rows
  <2>4. HandlesOK'
    BY <2>2 DEF HandlesOK, HandleOK, PendingOK, Pending, StageOK, Showing
  <2>. QED  BY <1>3, <2>3, <2>4 DEF IndInv
<1>. QED  BY <1>4, <1>5

(* The file goes only after the row says so.                               *)
LEMMA RemoveFileInv ==
  ASSUME IndInv, NEW w \in Writers, RemoveFile(w)
  PROVE  IndInv'
<1>1. Known(w)  BY Facts DEF RemoveFile
<1>2. TypeOK'  BY DEF RemoveFile, Move, IndInv, TypeOK, Phases
<1>3. FilesOK'  BY DEF RemoveFile, IndInv, FilesOK, FileOK
<1>4. ConfirmedOK'  BY DEF RemoveFile, IndInv, ConfirmedOK
<1>5. RowOK'  BY <1>1 DEF RemoveFile, Move, RowOK, StageOK, Known
<1>6. HandleOK(w)'  BY DEF RemoveFile, Move, HandleOK
<1>7. PendingOK(w)'  BY DEF RemoveFile, Move, PendingOK, Pending
<1>8. StageOK(w)'  BY <1>1 DEF RemoveFile, Move, StageOK, Showing, Known
<1>9. \A v \in Writers : v # w => phase'[v] = "closed"
  BY <1>1 DEF RemoveFile, Move, Known
<1>. QED  BY <1>2, <1>3, <1>4, <1>5, <1>6, <1>7, <1>8, <1>9, Others DEF IndInv

(* The row goes after the removal was synced.                              *)
LEMMA SyncRemovalInv ==
  ASSUME IndInv, NEW w \in Writers, SyncRemoval(w)
  PROVE  IndInv'
<1>1. Known(w)  BY Facts DEF SyncRemoval
<1>2. Drop(w)  BY DEF SyncRemoval
<1>3. /\ phase' \in [Writers -> Phases] /\ entries' \in [Writers -> Seq(Ids)]
      /\ pending' \in [Writers -> 0..MaxEntries] /\ setup' = FALSE
      /\ holder' = NoWriter /\ \A v \in Writers : phase'[v] = "closed"
  BY <1>1, <1>2, Dropped DEF IndInv, Known
<1>4. TypeOK'  BY <1>3 DEF SyncRemoval, IndInv, TypeOK, Rows
<1>5. FilesOK'  BY DEF SyncRemoval, IndInv, FilesOK, FileOK
<1>6. ConfirmedOK'  BY DEF SyncRemoval, IndInv, ConfirmedOK
<1>7. RowOK'  BY <1>3 DEF SyncRemoval, RowOK
<1>8. HandlesOK'
  BY <1>3 DEF HandlesOK, HandleOK, PendingOK, Pending, StageOK, Showing
<1>. QED  BY <1>4, <1>5, <1>6, <1>7, <1>8 DEF IndInv

(* The row also goes when the file was not there.                          *)
LEMMA AlreadyRemovedInv ==
  ASSUME IndInv, NEW w \in Writers, AlreadyRemoved(w)
  PROVE  IndInv'
<1>1. Known(w)  BY Facts DEF AlreadyRemoved
<1>2. Drop(w)  BY DEF AlreadyRemoved
<1>3. /\ phase' \in [Writers -> Phases] /\ entries' \in [Writers -> Seq(Ids)]
      /\ pending' \in [Writers -> 0..MaxEntries] /\ setup' = FALSE
      /\ holder' = NoWriter /\ \A v \in Writers : phase'[v] = "closed"
  BY <1>1, <1>2, Dropped DEF IndInv, Known
<1>4. TypeOK'  BY <1>3 DEF AlreadyRemoved, entry, IndInv, TypeOK, Rows
<1>5. FilesOK'  BY DEF AlreadyRemoved, IndInv, FilesOK, FileOK
<1>6. ConfirmedOK'  BY DEF AlreadyRemoved, IndInv, ConfirmedOK
<1>7. RowOK'  BY <1>3 DEF AlreadyRemoved, RowOK
<1>8. HandlesOK'
  BY <1>3 DEF HandlesOK, HandleOK, PendingOK, Pending, StageOK, Showing
<1>. QED  BY <1>4, <1>5, <1>6, <1>7, <1>8 DEF IndInv

(* Closing a handle touches no file and no confirmed record.               *)
LEMMA ReleaseInv ==
  ASSUME IndInv, NEW w \in Writers, Release(w)
  PROVE  IndInv'
<1>1. Known(w)  BY Facts DEF Release
<1>2. Drop(w)  BY DEF Release
<1>3. /\ phase' \in [Writers -> Phases] /\ entries' \in [Writers -> Seq(Ids)]
      /\ pending' \in [Writers -> 0..MaxEntries] /\ setup' = FALSE
      /\ holder' = NoWriter /\ \A v \in Writers : phase'[v] = "closed"
  BY <1>1, <1>2, Dropped DEF IndInv, Known
<1>4. TypeOK'  BY <1>3 DEF Release, entry, IndInv, TypeOK
<1>5. FilesOK'  BY DEF Release, IndInv, FilesOK, FileOK
<1>6. ConfirmedOK'  BY DEF Release, IndInv, ConfirmedOK
<1>7. RowOK'  BY <1>3 DEF Release, entry, IndInv, RowOK, Settled
<1>8. HandlesOK'
  BY <1>3 DEF HandlesOK, HandleOK, PendingOK, Pending, StageOK, Showing
<1>. QED  BY <1>4, <1>5, <1>6, <1>7, <1>8 DEF IndInv

(* Writeback and power loss keep it: the device holds what was confirmed.  *)
LEMMA EnvironmentInv ==
  ASSUME IndInv, Environment
  PROVE  IndInv'
<1>1. page \in Files /\ disk \in Files /\ seen \in BOOLEAN /\ kept \in BOOLEAN
  BY DEF IndInv, TypeOK
<1>2. ASSUME WritebackFile PROVE IndInv'
  BY <1>1, <1>2 DEF WritebackFile, entry, handle, IndInv, TypeOK, FilesOK, FileOK,
       ConfirmedOK, RowOK, Settled, HandlesOK, HandleOK, PendingOK, StageOK
<1>3. ASSUME WritebackName PROVE IndInv'
  <2>1. TypeOK' /\ FilesOK' /\ ConfirmedOK'
    BY <1>1, <1>3 DEF WritebackName, handle, IndInv, TypeOK, FilesOK, FileOK,
         ConfirmedOK
  <2>2. RowOK' /\ HandlesOK'
    BY <1>3 DEF WritebackName, handle, IndInv, RowOK, Settled, HandlesOK, HandleOK,
         PendingOK, StageOK
  <2>. QED  BY <2>1, <2>2 DEF IndInv
<1>4. ASSUME PowerLoss PROVE IndInv'
  <2>1. TypeOK'
    <3>1. /\ phase' \in [Writers -> Phases]
          /\ entries' \in [Writers -> Seq(Ids)]
          /\ pending' \in [Writers -> 0..MaxEntries]
          /\ \A w \in Writers : phase'[w] = "closed"
      BY <1>4, BoundAssumption DEF PowerLoss, Phases
    <3>. QED  BY <1>1, <1>4, <3>1 DEF PowerLoss, IndInv, TypeOK
  <2>2. FilesOK' /\ ConfirmedOK' /\ RowOK'
    BY <1>4 DEF PowerLoss, IndInv, FilesOK, FileOK, ConfirmedOK, RowOK, Settled
  <2>3. HandlesOK'
    BY <1>4 DEF PowerLoss, HandlesOK, HandleOK, PendingOK, Pending, StageOK, Showing
  <2>. QED  BY <2>1, <2>2, <2>3 DEF IndInv
<1>. QED  BY <1>2, <1>3, <1>4 DEF Environment

(* It holds before anything was created.                                   *)
LEMMA InitInv ==
  ASSUME Init
  PROVE  IndInv
<1>1. <<>> \in Seq(Ids) /\ EmptyFile \in Files
  BY BoundAssumption DEF EmptyFile, File, Files
<1>2. TypeOK
  <2>1. /\ phase \in [Writers -> Phases]
        /\ entries \in [Writers -> Seq(Ids)]
        /\ pending \in [Writers -> 0..MaxEntries]
        /\ \A w \in Writers : phase[w] = "closed"
    BY BoundAssumption DEF Init, Phases
  <2>2. nextId \in 1..(MaxEntries + 1)  BY BoundAssumption DEF Init
  <2>. QED  BY <1>1, <2>1, <2>2 DEF Init, TypeOK, Rows
<1>3. FilesOK /\ ConfirmedOK /\ RowOK
  BY <1>1 DEF Init, EmptyFile, File, FilesOK, FileOK, ConfirmedOK, Begins, RowOK
<1>4. HandlesOK
  BY DEF Init, HandlesOK, HandleOK, PendingOK, Pending, StageOK, Showing
<1>. QED  BY <1>2, <1>3, <1>4 DEF IndInv

(* It holds when nothing changes.                                          *)
LEMMA StutterInv ==
  ASSUME IndInv, UNCHANGED vars
  PROVE  IndInv'
BY DEF vars, IndInv, TypeOK, FilesOK, FileOK, ConfirmedOK, RowOK, Settled, HandlesOK,
     HandleOK, PendingOK, StageOK

-----------------------------------------------------------------------------
(* One step of the file layer, whoever takes it, keeps the invariant.      *)
LEMMA NextInv ==
  ASSUME IndInv, [Next]_vars
  PROVE  IndInv'
<1>1. ASSUME NEW w \in Writers, CreateStep(w) PROVE IndInv'
  BY <1>1, CreateInv, FailCreateInv, FinishCreateInv, RegisterInv, FailRegisterInv
     DEF CreateStep
<1>2. ASSUME NEW w \in Writers, AppendStep(w) PROVE IndInv'
  BY <1>2, BeginAppendInv, WriteRecordInv, WriteNewlineInv, CommitAppendInv, FailAppendInv
     DEF AppendStep
<1>3. ASSUME NEW w \in Writers, RepairStep(w) PROVE IndInv'
  BY <1>3, CheckTruncateInv, CheckFinishInv, CheckFailInv, OpenInv, RepairFinishInv
     DEF RepairStep
<1>4. ASSUME NEW w \in Writers, DeleteStep(w) PROVE IndInv'
  BY <1>4, ClaimInv, MarkDeletingInv, RemoveFileInv, SyncRemovalInv, AlreadyRemovedInv
     DEF DeleteStep
<1>. QED
  BY <1>1, <1>2, <1>3, <1>4, ReleaseInv, EnvironmentInv, StutterInv DEF Next

(* The inductive invariant: the file, its image on the device, the handle  *)
(* and the row stay in step through every append, repair and deletion.     *)
THEOREM Inductive == Spec => []IndInv
<1>1. Init => IndInv  BY InitInv
<1>2. IndInv /\ [Next]_vars => IndInv'  BY NextInv
<1>. QED  BY <1>1, <1>2, PTL DEF Spec

(* Every variable keeps its type, and only the holder of the writer lock   *)
(* has the file open.                                                      *)
THEOREM TypeCorrect == Spec => []TypeOK
<1>1. IndInv => TypeOK  BY DEF IndInv
<1>. QED  BY <1>1, Inductive, PTL

(* Begins is IsPrefix.                                                     *)
LEMMA Prefix ==
  ASSUME NEW s \in Seq(Ids), NEW t \in Seq(Ids), Begins(s, t)
  PROVE  IsPrefix(s, t)
<1>1. Len(s) \in 0..Len(t)  BY DEF Begins
<1>2. /\ SubSeq(t, 1, Len(s)) \in Seq(Ids)
      /\ Len(SubSeq(t, 1, Len(s))) = Len(s)
      /\ \A i \in 1..Len(s) : SubSeq(t, 1, Len(s))[i] = t[i]
  BY <1>1, SubSeqProperties
<1>3. \A i \in 1..Len(s) : s[i] = SubSeq(t, 1, Len(s))[i]  BY <1>2 DEF Begins
<1>4. s = SubSeq(t, 1, Len(s))  BY <1>2, <1>3, SeqEqual
<1>5. SubSeq(s, 1, Len(s)) = s  BY SubSeqFull
<1>. QED  BY <1>1, <1>4, <1>5 DEF IsPrefix

(* A registered session keeps every record that was ever confirmed, in the *)
(* file and on the device, whatever fails.                                 *)
THEOREM Survives == Spec => []ConfirmedSurvives
<1>1. ASSUME IndInv PROVE ConfirmedSurvives
  <2>1. /\ confirmed \in Seq(Ids) /\ page.lines \in Seq(Ids) /\ disk.lines \in Seq(Ids)
        /\ Begins(confirmed, page.lines) /\ Begins(confirmed, disk.lines)
    BY <1>1 DEF IndInv, TypeOK, ConfirmedOK, Files
  <2>2. IsPrefix(confirmed, page.lines) /\ IsPrefix(confirmed, disk.lines)
    BY <2>1, Prefix
  <2>. QED  BY <1>1, <2>2 DEF ConfirmedSurvives, IndInv, RowOK, Settled
<1>. QED  BY <1>1, Inductive, PTL

(* A Ready journal holds exactly what replaying its file would return.     *)
THEOREM Replay == Spec => []LiveEqualsReplay
<1>1. IndInv => LiveEqualsReplay
  BY DEF IndInv, HandlesOK, HandleOK, LiveEqualsReplay
<1>. QED  BY <1>1, Inductive, PTL

(* A record that a completed repair dropped is in no file ever after.      *)
THEOREM StaysOut == Spec => []DiscardedStaysOut
<1>1. ASSUME IndInv PROVE DiscardedStaysOut
  <2>1. SUFFICES ASSUME NEW f \in {page, disk}, NEW d \in discarded
                 PROVE  d # f.tail /\ d \notin Range(f.lines)
    BY DEF DiscardedStaysOut
  <2>2. f \in Files /\ FileOK(f) /\ d \in Ids
    BY <1>1 DEF IndInv, TypeOK, FilesOK
  <2>3. d # f.tail  BY <2>2 DEF FileOK, Ids
  <2>4. f.lines \in Seq(Ids)  BY <2>2 DEF Files
  <2>5. \A i \in DOMAIN f.lines : f.lines[i] # d  BY <2>2, <2>4 DEF FileOK
  <2>. QED  BY <2>3, <2>5 DEF Range
<1>. QED  BY <1>1, Inductive, PTL

-----------------------------------------------------------------------------
(* The file layer implements the abstract log: the mapping is that of the  *)
(* instance Log in module Rollout.                                         *)

(* No record stands twice in the sequence s.                               *)
Distinct(s) == \A i, j \in 1..Len(s) : s[i] = s[j] => i = j

(* No file holds a record twice, and only a handle that appends or cuts    *)
(* the file back has an identity in hand.                                  *)
OnceOK ==
  /\ Distinct(page.lines)
  /\ Distinct(disk.lines)
  /\ \A w \in Writers : phase[w] \notin Pending => pending[w] = 0

(* At first the files are empty and nothing is pending.                    *)
LEMMA OnceInit ==
  ASSUME Init
  PROVE  OnceOK
BY DEF Init, OnceOK, Distinct, EmptyFile, File

(* A record that is not in the sequence can follow it.                     *)
LEMMA OnceMore ==
  ASSUME NEW s \in Seq(Ids), NEW x \in Ids, Distinct(s), Absent(x, s)
  PROVE  Distinct(Append(s, x))
<1>1. /\ Len(Append(s, x)) = Len(s) + 1 /\ Append(s, x)[Len(s) + 1] = x
      /\ \A i \in 1..Len(s) : Append(s, x)[i] = s[i]
  BY AppendProperties
<1>. QED  BY <1>1 DEF Distinct, Absent

(* What is cut off a sequence leaves no record twice.                      *)
LEMMA OnceCut ==
  ASSUME NEW s \in Seq(Ids), NEW n \in Nat, n <= Len(s), Distinct(s)
  PROVE  Distinct(SubSeq(s, 1, n))
<1>1. Len(SubSeq(s, 1, n)) = n /\ \A i \in 1..n : SubSeq(s, 1, n)[i] = s[i]
  BY SubSeqProperties
<1>. QED  BY <1>1 DEF Distinct

(* Only the writing of a newline puts a record into a file.                *)
LEMMA OnceNext ==
  ASSUME IndInv, OnceOK, [Next]_vars
  PROVE  OnceOK'
<1>. USE DEF OnceOK
<1>1. /\ page.lines \in Seq(Ids) /\ disk.lines \in Seq(Ids)
      /\ phase \in [Writers -> Phases] /\ pending \in [Writers -> 0..MaxEntries]
  BY DEF IndInv, TypeOK, Files
<1>2. ASSUME NEW w \in Writers, CreateStep(w) PROVE OnceOK'
  <2>1. CASE Create(w)
    BY <1>1, <2>1 DEF Create, Become, Distinct, EmptyFile, File
  <2>2. CASE FailCreate(w)
    BY <1>1, <2>2 DEF FailCreate, Drop, Become, Distinct, Pending
  <2>3. CASE FinishCreate(w)
    BY <1>1, <2>3 DEF FinishCreate, Distinct
  <2>4. CASE Register(w)
    BY <1>1, <2>4 DEF Register, handle, Distinct
  <2>5. CASE FailRegister(w)
    BY <1>1, <2>5 DEF FailRegister, Become, Distinct, Pending
  <2>. QED  BY <1>2, <2>1, <2>2, <2>3, <2>4, <2>5 DEF CreateStep
<1>3. ASSUME NEW w \in Writers, AppendStep(w) PROVE OnceOK'
  <2>1. CASE BeginAppend(w)
    BY <1>1, <2>1 DEF BeginAppend, Become, Distinct, Pending
  <2>2. CASE WriteRecord(w)
    BY <1>1, <2>2 DEF WriteRecord, handle, Distinct, File
  <2>3. CASE WriteNewline(w)
    <3>1. Known(w)  BY <2>3, Facts DEF WriteNewline
    <3>2. pending[w] \in Ids /\ Absent(pending[w], page.lines)
      BY <2>3, <3>1 DEF WriteNewline, Known, HandleOK, PendingOK, Pending
    <3>3. Distinct(page'.lines)
      BY <1>1, <2>3, <3>2, OnceMore DEF WriteNewline, File
    <3>. QED  BY <1>1, <2>3, <3>3 DEF WriteNewline, Move, Distinct, Pending
  <2>4. CASE CommitAppend(w)
    BY <1>1, <2>4 DEF CommitAppend, Become, Distinct, Pending
  <2>5. CASE FailAppend(w)
    BY <1>1, <2>5 DEF FailAppend, Move, Distinct, Pending
  <2>. QED  BY <1>3, <2>1, <2>2, <2>3, <2>4, <2>5 DEF AppendStep
<1>4. ASSUME NEW w \in Writers, RepairStep(w) PROVE OnceOK'
  <2>1. CASE CheckTruncate(w)
    <3>1. Known(w)  BY <2>1, Facts DEF CheckTruncate
    <3>2. Len(entries[w]) \in Nat /\ Len(entries[w]) <= Len(page.lines)
      BY <2>1, <3>1 DEF CheckTruncate, Known, HandleOK
    <3>3. Distinct(page'.lines)
      BY <1>1, <2>1, <3>2, OnceCut DEF CheckTruncate, File
    <3>. QED  BY <1>1, <2>1, <3>3 DEF CheckTruncate, Move, Distinct, Pending
  <2>2. CASE CheckFinish(w)
    BY <1>1, <2>2 DEF CheckFinish, Become, Distinct, Pending
  <2>3. CASE CheckFail(w)
    BY <1>1, <2>3 DEF CheckFail, Move, Distinct, Pending
  <2>4. CASE Open(w)
    BY <1>1, <2>4 DEF Open, Become, Distinct, Pending, File
  <2>5. CASE RepairFinish(w)
    BY <1>1, <2>5 DEF RepairFinish, Become, Distinct, Pending
  <2>. QED  BY <1>4, <2>1, <2>2, <2>3, <2>4, <2>5 DEF RepairStep
<1>5. ASSUME NEW w \in Writers, DeleteStep(w) PROVE OnceOK'
  <2>1. CASE Claim(w)
    BY <1>1, <2>1 DEF Claim, Become, Distinct, Pending
  <2>2. CASE MarkDeleting(w)
    BY <1>1, <2>2 DEF MarkDeleting, handle, Drop, Become, Distinct, Pending
  <2>3. CASE RemoveFile(w)
    BY <1>1, <2>3 DEF RemoveFile, Move, Distinct, Pending
  <2>4. CASE SyncRemoval(w)
    BY <1>1, <2>4 DEF SyncRemoval, Drop, Become, Distinct, Pending
  <2>5. CASE AlreadyRemoved(w)
    BY <1>1, <2>5 DEF AlreadyRemoved, Drop, Become, Distinct, Pending
  <2>. QED  BY <1>5, <2>1, <2>2, <2>3, <2>4, <2>5 DEF DeleteStep
<1>6. ASSUME NEW w \in Writers, Release(w) PROVE OnceOK'
  BY <1>1, <1>6 DEF Release, Drop, Become, Distinct, Pending
<1>7. CASE Environment
  BY <1>1, <1>7 DEF Environment, WritebackFile, WritebackName, PowerLoss, handle, Distinct
<1>8. CASE UNCHANGED vars
  BY <1>1, <1>8 DEF vars, Distinct
<1>. QED  BY <1>2, <1>3, <1>4, <1>5, <1>6, <1>7, <1>8 DEF Next

-----------------------------------------------------------------------------
(* The identities a file holds, and those of both files and the handles.   *)
Held(f) == Range(f.lines) \cup {f.tail}
Pool == Held(page) \cup Held(disk) \cup {pending[w] : w \in Writers}

(* The entries of the handle that shows them lead the file.                *)
LEMMA ShownLeads ==
  ASSUME IndInv, Owned
  PROVE  /\ holder \in Writers
         /\ entries[holder] \in Seq(Ids)
         /\ Begins(confirmed, entries[holder])
         /\ Begins(entries[holder], page.lines)
<1>1. PICK w \in Writers : phase[w] \in Showing  BY DEF Owned
<1>2. holder = w  BY <1>1 DEF IndInv, TypeOK, Showing
<1>3. Known(w)  BY <1>1, Facts DEF Showing
<1>4. /\ entries[w] \in Seq(Ids) /\ pending[w] \in Ids \cup {0}
      /\ Begins(confirmed, entries[w])
  BY <1>1, <1>3, BoundAssumption DEF Known, StageOK, Ids
<1>5. CASE page.lines = entries[w]
  BY <1>2, <1>4, <1>5 DEF Begins
<1>6. CASE phase[w] \in {"written", "needs_check"} /\ page.lines = Append(entries[w], pending[w])
  <2>1. pending[w] \in Ids  BY <1>3, <1>6 DEF Known, PendingOK, Pending
  <2>2. /\ Len(page.lines) = Len(entries[w]) + 1
        /\ \A i \in 1..Len(entries[w]) : page.lines[i] = entries[w][i]
    BY <1>4, <1>6, <2>1, AppendProperties
  <2>. QED  BY <1>2, <1>4, <2>2 DEF Begins
<1>. QED  BY <1>1, <1>3, <1>5, <1>6 DEF Known, HandleOK, Showing

(* A line of a file behind the confirmed records is in doubt.              *)
LEMMA LineInDoubt ==
  ASSUME IndInv, OnceOK, NEW i \in (Len(confirmed) + 1)..Len(page.lines)
  PROVE  page.lines[i] \in Doubtful
<1>1. /\ page.lines \in Seq(Ids) /\ confirmed \in Seq(Ids)
      /\ Begins(confirmed, page.lines) /\ Distinct(page.lines)
      /\ i \in 1..Len(page.lines)
  BY DEF IndInv, TypeOK, Files, ConfirmedOK, OnceOK
<1>2. page.lines[i] \in Range(page.lines) /\ page.lines[i] # 0
  <2>1. DOMAIN page.lines = 1..Len(page.lines)  BY <1>1
  <2>2. page.lines[i] \in Range(page.lines)  BY <1>1, <2>1 DEF Range
  <2>3. page.lines[i] \in Ids  BY <1>1, ElementOfSeq
  <2>. QED  BY <2>2, <2>3 DEF Ids
<1>3. page.lines[i] \notin Range(confirmed)
  <2>1. DOMAIN confirmed = 1..Len(confirmed) /\ Len(confirmed) \in Nat  BY <1>1
  <2>2. \A j \in 1..Len(confirmed) : j \in 1..Len(page.lines) /\ j # i /\ confirmed[j] = page.lines[j]
    BY <1>1, <2>1 DEF Begins
  <2>3. \A j \in 1..Len(confirmed) : confirmed[j] # page.lines[i]
    BY <1>1, <2>2 DEF Distinct
  <2>. QED  BY <2>1, <2>3 DEF Range
<1>4. page.lines[i] \notin discarded  BY <1>1 DEF IndInv, FilesOK, FileOK
<1>. QED  BY <1>2, <1>3, <1>4 DEF Doubtful

(* An owner sees the confirmed records and, after them, records in doubt.  *)
LEMMA ViewHolds ==
  ASSUME IndInv, OnceOK
  PROVE  Log!ViewOK
<1>. DEFINE es == entries[holder]
<1>1. SUFFICES ASSUME Owned
               PROVE  /\ IsPrefix(confirmed, es)
                      /\ Range(SubSeq(es, Len(confirmed) + 1, Len(es))) \subseteq Doubtful
  BY DEF Log!ViewOK, Log!Range, Log!IsPrefix, Range, IsPrefix
<1>2. /\ es \in Seq(Ids) /\ Begins(confirmed, es) /\ Begins(es, page.lines)
      /\ confirmed \in Seq(Ids) /\ page.lines \in Seq(Ids)
  BY <1>1, ShownLeads DEF IndInv, TypeOK, Files
<1>. HIDE DEF es
<1>3. IsPrefix(confirmed, es)  BY <1>2, Prefix
<1>4. ASSUME NEW x \in Range(SubSeq(es, Len(confirmed) + 1, Len(es)))
      PROVE  x \in Doubtful
  <2>1. PICK k \in DOMAIN SubSeq(es, Len(confirmed) + 1, Len(es)) :
               x = SubSeq(es, Len(confirmed) + 1, Len(es))[k]
    BY <1>4 DEF Range
  <2>2. k \in 1..(Len(es) - Len(confirmed)) /\ x = es[Len(confirmed) + k]
    BY <1>2, <2>1, SubSeqProperties DEF Begins
  <2>3. /\ Len(confirmed) \in Nat /\ Len(es) \in Nat /\ Len(page.lines) \in Nat
        /\ Len(es) <= Len(page.lines) /\ k \in Nat
        /\ \A i \in 1..Len(es) : es[i] = page.lines[i]
    <3>1. Len(confirmed) \in Nat /\ Len(es) \in Nat /\ Len(page.lines) \in Nat  BY <1>2
    <3>2. k \in Nat  BY <2>2, <3>1
    <3>3. Len(es) <= Len(page.lines) /\ \A i \in 1..Len(es) : es[i] = page.lines[i]
      BY <1>2 DEF Begins
    <3>. QED  BY <3>1, <3>2, <3>3
  <2>4. /\ Len(confirmed) + k \in (Len(confirmed) + 1)..Len(page.lines)
        /\ Len(confirmed) + k \in 1..Len(es)
    BY <2>2, <2>3
  <2>5. x = page.lines[Len(confirmed) + k]  BY <2>2, <2>3, <2>4
  <2>. QED  BY <2>4, <2>5, LineInDoubt
<1>. QED  BY <1>3, <1>4

(* What is decided: nothing new joins the pool, and the confirmed records  *)
(* stay or become the lines of the file.                                   *)
LEMMA Decided ==
  ASSUME IndInv, OnceOK, IndInv', OnceOK', Pool' \subseteq Pool \cup {0},
         discarded \subseteq discarded', nextId' = nextId,
         confirmed' \in {confirmed, page.lines}
  PROVE  Log!Decide
<1>. DEFINE new == SubSeq(confirmed', Len(confirmed) + 1, Len(confirmed'))
<1>1. /\ confirmed \in Seq(Ids) /\ page.lines \in Seq(Ids) /\ confirmed' \in Seq(Ids)
      /\ Begins(confirmed, page.lines)
  BY DEF IndInv, TypeOK, Files, ConfirmedOK
<1>2. IsPrefix(confirmed, confirmed')
  BY <1>1, Prefix DEF Begins
<1>3. /\ Len(confirmed) <= Len(confirmed')
      /\ new \in Seq(Ids)
      /\ DOMAIN new = 1..(Len(confirmed') - Len(confirmed))
      /\ \A k \in DOMAIN new : new[k] = confirmed'[Len(confirmed) + k]
  BY <1>1, SubSeqProperties DEF Begins
<1>. HIDE DEF new
<1>4. \A k \in DOMAIN new : /\ Len(confirmed) + k \in (Len(confirmed) + 1)..Len(page.lines)
                            /\ new[k] = page.lines[Len(confirmed) + k]
  BY <1>1, <1>3
<1>5. IsInjective(new)
  <2>1. SUFFICES ASSUME NEW j \in DOMAIN new, NEW k \in DOMAIN new, new[j] = new[k]
                 PROVE  j = k
    BY DEF IsInjective
  <2>2. /\ Len(confirmed) \in Nat /\ j \in Nat /\ k \in Nat
        /\ Len(confirmed) + j \in 1..Len(page.lines)
        /\ Len(confirmed) + k \in 1..Len(page.lines)
    BY <1>1, <1>3, <1>4
  <2>3. page.lines[Len(confirmed) + j] = page.lines[Len(confirmed) + k]
    BY <1>4, <2>1
  <2>4. Len(confirmed) + j = Len(confirmed) + k
    BY <2>2, <2>3 DEF OnceOK, Distinct
  <2>. QED  BY <2>2, <2>4
<1>6. Range(new) \subseteq Doubtful
  BY <1>4, LineInDoubt DEF Range
<1>7. Range(confirmed) \subseteq Range(confirmed') /\ Range(new) \subseteq Range(confirmed')
  <2>1. Range(confirmed) \subseteq Range(confirmed')
    BY <1>1 DEF Range, Begins
  <2>2. Range(new) \subseteq Range(confirmed')
    BY <1>1, <1>3 DEF Range
  <2>. QED  BY <2>1, <2>2
<1>8. /\ Doubtful = (Pool \ {0}) \ (Range(confirmed) \cup discarded)
      /\ Doubtful' = (Pool' \ {0}) \ (Range(confirmed') \cup discarded')
  BY DEF Doubtful, Pool, Held
<1>9. Doubtful' \subseteq Doubtful \ Range(new)
  BY <1>7, <1>8
<1>10. Log!ViewOK'  BY ViewHolds, PTL
<1>. QED  BY <1>2, <1>5, <1>6, <1>9, <1>10
  DEF Log!Decide, new, Log!IsPrefix, Log!IsInjective, Log!Range, IsPrefix, IsInjective, Range

(* A fresh record is offered to the log.                                   *)
LEMMA Offered ==
  ASSUME IndInv, OnceOK, NEW w \in Writers, BeginAppend(w)
  PROVE  Log!Offer
<1>1. /\ UNCHANGED <<page, disk, confirmed, discarded, holder, entries>>
      /\ nextId \in Nat /\ nextId' = nextId + 1
      /\ pending' = [pending EXCEPT ![w] = nextId] /\ pending[w] = 0
      /\ pending \in [Writers -> 0..MaxEntries]
      /\ phase[w] = "ready" /\ phase' = [phase EXCEPT ![w] = "writing"]
      /\ phase \in [Writers -> Phases]
  <2>1. entries' = entries
    BY DEF BeginAppend, Become, IndInv, TypeOK
  <2>2. pending[w] = 0
    BY DEF BeginAppend, OnceOK, Pending
  <2>. QED  BY <2>1, <2>2 DEF BeginAppend, Become, IndInv, TypeOK
<1>2. Owned /\ Owned'
  BY <1>1 DEF Owned, Showing
<1>3. nextId # 0 /\ nextId \notin Range(confirmed) /\ nextId \notin discarded
  <2>1. /\ confirmed \in Seq(Ids) /\ page.lines \in Seq(Ids) /\ discarded \subseteq Ids
        /\ nextId \in 1..(MaxEntries + 1) /\ Begins(confirmed, page.lines)
    BY DEF IndInv, TypeOK, Files, ConfirmedOK
  <2>2. nextId \notin discarded /\ \A i \in 1..Len(page.lines) : page.lines[i] # nextId
    BY <2>1 DEF IndInv, FilesOK, FileOK, Ids
  <2>3. nextId \notin Range(confirmed)
    BY <2>1, <2>2 DEF Begins, Range
  <2>. QED  BY <2>1, <2>2, <2>3
<1>4. {pending'[v] : v \in Writers} \ {0} = ({pending[v] : v \in Writers} \ {0}) \cup {nextId}
  BY <1>1, <1>3
<1>5. Doubtful' = Doubtful \cup {nextId}
  BY <1>1, <1>3, <1>4 DEF Doubtful
<1>6. nextId = (nextId' - 1) /\ nextId' - 1 = (nextId - 1) + 1
  BY <1>1
<1>. QED  BY <1>1, <1>2, <1>5, <1>6 DEF Log!Offer

(* Every other step decides, or changes nothing a session can tell.        *)
LEMMA StepDecides ==
  ASSUME IndInv, OnceOK, [Next]_vars, ~ \E w \in Writers : BeginAppend(w)
  PROVE  /\ Pool' \subseteq Pool \cup {0}
         /\ discarded \subseteq discarded'
         /\ nextId' = nextId
         /\ confirmed' \in {confirmed, page.lines}
<1>. DEFINE Goal == /\ Pool' \subseteq Pool \cup {0}
                    /\ discarded \subseteq discarded'
                    /\ nextId' = nextId
                    /\ confirmed' \in {confirmed, page.lines}
<1>1. /\ page.lines \in Seq(Ids) /\ disk.lines \in Seq(Ids)
      /\ phase \in [Writers -> Phases] /\ pending \in [Writers -> 0..MaxEntries]
  BY DEF IndInv, TypeOK, Files
<1>2. ASSUME Held(page') \subseteq Pool \cup {0}, Held(disk') \subseteq Pool \cup {0},
             \A v \in Writers : pending'[v] \in Pool \cup {0}
      PROVE  Pool' \subseteq Pool \cup {0}
  BY <1>2 DEF Pool
<1>3. /\ Held(page) \subseteq Pool /\ Held(disk) \subseteq Pool
      /\ \A v \in Writers : pending[v] \in Pool
      /\ page.tail \in Pool
  BY DEF Pool, Held
<1>4. Held(EmptyFile) \subseteq {0}
  BY DEF Held, EmptyFile, File, Range
<1>5. \A v \in Writers : \A p, es, x :
        Become(v, p, es, x) /\ x \in Pool \cup {0}
          => \A u \in Writers : pending'[u] \in Pool \cup {0}
  BY <1>1, <1>3 DEF Become
<1>6. \A v \in Writers : Drop(v) => \A u \in Writers : pending'[u] \in Pool \cup {0}
  BY <1>5 DEF Drop
<1>7. ASSUME NEW w \in Writers, CreateStep(w) PROVE Goal
  <2>1. CASE Create(w)
    BY <1>2, <1>3, <1>4, <1>5, <2>1 DEF Create
  <2>2. CASE FailCreate(w)
    BY <1>2, <1>3, <1>6, <2>2 DEF FailCreate
  <2>3. CASE FinishCreate(w)
    BY <1>2, <1>3, <2>3 DEF FinishCreate
  <2>4. CASE Register(w)
    BY <1>2, <1>3, <2>4 DEF Register, handle
  <2>5. CASE FailRegister(w)
    BY <1>2, <1>3, <1>5, <2>5 DEF FailRegister
  <2>. QED  BY <1>7, <2>1, <2>2, <2>3, <2>4, <2>5 DEF CreateStep
<1>8. ASSUME NEW w \in Writers, AppendStep(w) PROVE Goal
  <2>1. pending[w] \in Pool  BY <1>3
  <2>2. CASE WriteRecord(w)
    <3>1. Held(page') \subseteq Pool
      BY <1>3, <2>1, <2>2 DEF WriteRecord, Held, File
    <3>. QED  BY <1>2, <1>3, <2>2, <3>1 DEF WriteRecord, handle
  <2>3. CASE WriteNewline(w)
    <3>1. pending[w] \in Ids
      BY <2>3, Facts DEF WriteNewline, Known, PendingOK, Pending
    <3>2. Range(Append(page.lines, pending[w])) \subseteq Range(page.lines) \cup {pending[w]}
      BY <1>1, <3>1, AppendProperties DEF Range
    <3>3. Held(page') \subseteq Pool \cup {0}
      BY <1>3, <2>1, <2>3, <3>2 DEF WriteNewline, Held, File
    <3>. QED  BY <1>2, <1>3, <2>3, <3>3 DEF WriteNewline, Move
  <2>4. CASE CommitAppend(w)
    BY <1>2, <1>3, <1>5, <2>4 DEF CommitAppend
  <2>5. CASE FailAppend(w)
    BY <1>2, <1>3, <2>5 DEF FailAppend, Move
  <2>. QED  BY <1>8, <2>2, <2>3, <2>4, <2>5 DEF AppendStep
<1>9. ASSUME NEW w \in Writers, RepairStep(w) PROVE Goal
  <2>1. CASE CheckTruncate(w)
    <3>1. Known(w)  BY <2>1, Facts DEF CheckTruncate
    <3>2. Len(entries[w]) \in Nat /\ Len(entries[w]) <= Len(page.lines)
      BY <2>1, <3>1 DEF CheckTruncate, Known, HandleOK
    <3>3. Range(SubSeq(page.lines, 1, Len(entries[w]))) \subseteq Range(page.lines)
      <4>1. /\ DOMAIN SubSeq(page.lines, 1, Len(entries[w])) = 1..Len(entries[w])
            /\ \A i \in 1..Len(entries[w]) :
                 SubSeq(page.lines, 1, Len(entries[w]))[i] = page.lines[i]
        BY <1>1, <3>2, SubSeqProperties
      <4>. QED  BY <1>1, <3>2, <4>1 DEF Range
    <3>4. Held(page') \subseteq Pool \cup {0}
      BY <1>3, <2>1, <3>3 DEF CheckTruncate, Held, File
    <3>. QED  BY <1>2, <1>3, <2>1, <3>4 DEF CheckTruncate, Move
  <2>2. CASE CheckFinish(w)
    BY <1>2, <1>3, <1>5, <2>2 DEF CheckFinish
  <2>3. CASE CheckFail(w)
    BY <1>2, <1>3, <2>3 DEF CheckFail, Move
  <2>4. CASE Open(w)
    <3>1. Held(page') \subseteq Pool \cup {0}
      BY <1>3, <2>4 DEF Open, Held, File
    <3>2. \A u \in Writers : pending'[u] \in Pool \cup {0}
      BY <1>3, <1>5, <2>4 DEF Open
    <3>. QED  BY <1>2, <1>3, <2>4, <3>1, <3>2 DEF Open
  <2>5. CASE RepairFinish(w)
    BY <1>2, <1>3, <1>5, <2>5 DEF RepairFinish
  <2>. QED  BY <1>9, <2>1, <2>2, <2>3, <2>4, <2>5 DEF RepairStep
<1>10. ASSUME NEW w \in Writers, DeleteStep(w) PROVE Goal
  <2>1. CASE Claim(w)
    BY <1>2, <1>3, <1>5, <2>1 DEF Claim
  <2>2. CASE MarkDeleting(w)
    BY <1>2, <1>3, <1>6, <2>2 DEF MarkDeleting, handle
  <2>3. CASE RemoveFile(w)
    BY <1>2, <1>3, <2>3 DEF RemoveFile, Move
  <2>4. CASE SyncRemoval(w)
    BY <1>2, <1>3, <1>6, <2>4 DEF SyncRemoval
  <2>5. CASE AlreadyRemoved(w)
    BY <1>2, <1>3, <1>6, <2>5 DEF AlreadyRemoved
  <2>. QED  BY <1>10, <2>1, <2>2, <2>3, <2>4, <2>5 DEF DeleteStep
<1>11. ASSUME NEW w \in Writers, Release(w) PROVE Goal
  BY <1>2, <1>3, <1>6, <1>11 DEF Release
<1>12. CASE Environment
  BY <1>2, <1>3, <1>12 DEF Environment, WritebackFile, WritebackName, PowerLoss, handle
<1>13. CASE UNCHANGED vars
  BY <1>2, <1>3, <1>13 DEF vars
<1>. QED  BY <1>7, <1>8, <1>9, <1>10, <1>11, <1>12, <1>13 DEF Next

(* Every step of the file layer is one of the log, or no step of it.       *)
LEMMA LogStep ==
  ASSUME IndInv, OnceOK, IndInv', OnceOK', [Next]_vars
  PROVE  [Log!Next]_(Log!lvars)
<1>1. CASE \E w \in Writers : BeginAppend(w)
  BY <1>1, Offered DEF Log!Next
<1>2. CASE ~ \E w \in Writers : BeginAppend(w)
  <2>1. /\ Pool' \subseteq Pool \cup {0}
        /\ discarded \subseteq discarded'
        /\ nextId' = nextId
        /\ confirmed' \in {confirmed, page.lines}
    BY <1>2, StepDecides
  <2>. QED  BY <2>1, Decided DEF Log!Next
<1>. QED  BY <1>1, <1>2

(* Before anything was created the log is empty and nobody owns it.        *)
LEMMA LogInit ==
  ASSUME Init
  PROVE  Log!Init
<1>1. ~Owned  BY DEF Init, Owned, Showing
<1>2. Doubtful = {}
  BY DEF Init, Doubtful, EmptyFile, File, Range
<1>. QED  BY <1>1, <1>2 DEF Init, Log!Init

(* No file of a conversation ever holds a record twice.                    *)
THEOREM RecordedOnce == Spec => []OnceOK
<1>1. Init => OnceOK  BY OnceInit
<1>2. IndInv /\ OnceOK /\ [Next]_vars => OnceOK'  BY OnceNext
<1>. QED  BY <1>1, <1>2, Inductive, PTL DEF Spec

(* The file layer implements the abstract log: whatever fails, confirmed   *)
(* records only grow, from records in doubt, and an owner sees all of them *)
(* and then records in doubt only.                                         *)
THEOREM Implements == Spec => ImplementsLog
<1>1. Init => Log!Init  BY LogInit
<1>2. IndInv /\ OnceOK /\ IndInv' /\ OnceOK' /\ [Next]_vars => [Log!Next]_(Log!lvars)
  BY LogStep
<1>. QED  BY <1>1, <1>2, Inductive, RecordedOnce, PTL DEF Spec, ImplementsLog, Log!Spec

(***************************************************************************)
(* Permissions (the tools of a run): GrantsFollow, for any paths, calls,   *)
(* contents and length of the history.                                     *)
(***************************************************************************)

Sequential(h) == \E T : h \in Seq(T)
Allowed == [kind |-> "permission", allow |-> TRUE]

(* The call that the first n entries of h end with.                        *)
LastCall(h, n, c) ==
  \E j \in 1..n : /\ h[j].type = "call" /\ h[j].call = c
                  /\ \A k \in (j + 1)..n : h[k].type # "call"

(* Entry e may come after h: an answer is of the path that was asked for,  *)
(* and a result that permits has a permission on record.                   *)
MayFollow(h, n, e) ==
  /\ e.type = "answer" => \E c : LastCall(h, n, c) /\ c.path = e.path
  /\ e.type = "result" /\ e.ok /\ e.text = Allowed => \E c : LastCall(h, n, c) /\ c.path \in GrantsOf(h)
Story(h) == \A i \in DOMAIN h : MayFollow(h, i - 1, h[i])

(* What appending an entry makes of a sequence, wherever its entries come  *)
(* from.                                                                   *)
LEMMA Appended ==
  ASSUME NEW h, Sequential(h), NEW e
  PROVE  LET g == Append(h, e) IN
         /\ Sequential(g) /\ Len(h) \in Nat /\ Len(g) = Len(h) + 1 /\ h \o <<e>> = g
         /\ DOMAIN h = 1..Len(h) /\ DOMAIN g = 1..(Len(h) + 1)
         /\ g[Len(h) + 1] = e /\ \A i \in 1..Len(h) : g[i] = h[i]
<1>1. PICK T : h \in Seq(T) BY DEF Sequential
<1>2. h \in Seq(T \cup {e}) BY <1>1
<1>3. Append(h, e) \in Seq(T \cup {e}) BY <1>2
<1>4. h \o <<e>> = Append(h, e) BY <1>2
<1> QED BY <1>2, <1>3, <1>4 DEF Sequential

(* An answer that allows adds its path to the permissions on record; any   *)
(* other entry adds none.                                                  *)
LEMMA GrantsGrow ==
  ASSUME NEW h, Sequential(h), NEW e
  PROVE  GrantsOf(Append(h, e)) =
           GrantsOf(h) \cup IF e.type = "answer" /\ e.allow THEN {e.path} ELSE {}
<1> DEFINE g == Append(h, e)
           n == Len(h) + 1
           A(s) == {j \in DOMAIN s : s[j].type = "answer" /\ s[j].allow}
<1>1. n \in DOMAIN g /\ n \notin DOMAIN h /\ g[n] = e /\ (\A i \in DOMAIN h : i \in DOMAIN g /\ g[i] = h[i])
      /\ \A i \in DOMAIN g : i \in DOMAIN h \/ i = n
  BY Appended
<1> HIDE DEF g, n
<1>2. A(g) = A(h) \cup IF e.type = "answer" /\ e.allow THEN {n} ELSE {} BY <1>1
<1>3. GrantsOf(g) = {g[i].path : i \in A(g)} /\ GrantsOf(h) = {h[i].path : i \in A(h)} BY DEF GrantsOf
<1>4. \A i \in A(h) : g[i] = h[i] BY <1>1
<1> HIDE DEF A
<1>5. {g[i].path : i \in A(h)} = {h[i].path : i \in A(h)} BY <1>4
<1>6. CASE e.type = "answer" /\ e.allow
  <2>1. GrantsOf(g) = {g[i].path : i \in A(h) \cup {n}} BY <1>2, <1>3, <1>6
  <2>2. GrantsOf(g) = {g[i].path : i \in A(h)} \cup {g[n].path} BY <2>1
  <2> QED BY <1>1, <1>3, <1>5, <1>6, <2>2 DEF g
<1>7. CASE ~(e.type = "answer" /\ e.allow)
  <2>1. A(g) = A(h) BY <1>2, <1>7
  <2> QED BY <1>3, <1>5, <1>7, <2>1 DEF g
<1> QED BY <1>6, <1>7

(* What the history has had stays so.                                      *)
LEMMA CallsStand ==
  ASSUME NEW h, Sequential(h), NEW e, NEW n \in 0..Len(h), NEW c, LastCall(h, n, c)
  PROVE  LastCall(Append(h, e), n, c)
<1>1. \A i \in 1..n : Append(h, e)[i] = h[i] BY Appended
<1>2. PICK j \in 1..n : h[j].type = "call" /\ h[j].call = c /\ \A k \in (j + 1)..n : h[k].type # "call"
  BY DEF LastCall
<1>3. \A k \in (j + 1)..n : k \in 1..n BY Appended
<1> QED BY <1>1, <1>2, <1>3 DEF LastCall

(* A history stays in order when an entry that may come next is added.     *)
LEMMA StoryGrows ==
  ASSUME NEW h, Sequential(h), Story(h), NEW e, MayFollow(h, Len(h), e)
  PROVE  Story(Append(h, e))
<1> DEFINE g == Append(h, e)
<1>1. /\ Len(h) \in Nat /\ DOMAIN h = 1..Len(h) /\ DOMAIN g = 1..(Len(h) + 1) /\ g[Len(h) + 1] = e
      /\ \A i \in 1..Len(h) : g[i] = h[i]
  BY Appended
<1>2. GrantsOf(h) \subseteq GrantsOf(g) BY GrantsGrow
<1>3. ASSUME NEW n \in 0..Len(h), NEW f, MayFollow(h, n, f) PROVE MayFollow(g, n, f)
  <2>1. \A c : LastCall(h, n, c) => LastCall(g, n, c) BY CallsStand
  <2> HIDE DEF g
  <2> QED BY <1>2, <1>3, <2>1 DEF MayFollow
<1> HIDE DEF g
<1>4. ASSUME NEW i \in DOMAIN g PROVE MayFollow(g, i - 1, g[i])
  <2>1. CASE i \in 1..Len(h)
    <3>1. MayFollow(h, i - 1, h[i]) /\ i - 1 \in 0..Len(h) BY <1>1, <2>1 DEF Story
    <3> QED BY <1>1, <1>3, <2>1, <3>1
  <2>2. CASE i = Len(h) + 1
    <3>1. i - 1 = Len(h) /\ Len(h) \in 0..Len(h) BY <1>1, <2>2
    <3> QED BY <1>1, <1>3, <2>2, <3>1
  <2> QED BY <1>1, <2>1, <2>2
<1> QED BY <1>4 DEF Story, g

(* What is not a call leaves the last call the last one.                   *)
LEMMA LastStays ==
  ASSUME NEW h, Sequential(h), NEW e, e.type # "call", NEW c, LastCall(h, Len(h), c)
  PROVE  LastCall(Append(h, e), Len(Append(h, e)), c)
<1> DEFINE g == Append(h, e)
<1>1. /\ Len(h) \in Nat /\ Len(g) = Len(h) + 1 /\ g[Len(h) + 1] = e /\ LastCall(g, Len(h), c)
  <2>1. Len(h) \in 0..Len(h) BY Appended
  <2> QED BY <2>1, Appended, CallsStand
<1> HIDE DEF g
<1>2. PICK j \in 1..Len(h) : /\ g[j].type = "call" /\ g[j].call = c
                             /\ \A k \in (j + 1)..Len(h) : g[k].type # "call"
  BY <1>1 DEF LastCall
<1>3. j \in 1..(Len(h) + 1) /\ \A k \in (j + 1)..(Len(h) + 1) : k = Len(h) + 1 \/ k \in (j + 1)..Len(h) BY <1>1
<1>4. \A k \in (j + 1)..(Len(h) + 1) : g[k].type # "call" BY <1>1, <1>2, <1>3
<1>5. LastCall(g, Len(g), c) BY <1>1, <1>2, <1>3, <1>4 DEF LastCall
<1> QED BY <1>5 DEF g

(* The call just said is the last one.                                     *)
LEMMA LastIsCall ==
  ASSUME NEW h, Sequential(h), NEW c
  PROVE  LET g == Append(h, CallEntry(c)) IN LastCall(g, Len(g), c)
<1> DEFINE g == Append(h, CallEntry(c))
<1>1. Len(h) \in Nat /\ Len(g) = Len(h) + 1 /\ g[Len(h) + 1] = CallEntry(c) BY Appended
<1>2. CallEntry(c).type = "call" /\ CallEntry(c).call = c BY DEF CallEntry
<1> HIDE DEF g
<1>3. Len(h) + 1 \in 1..Len(g) /\ \A k \in (Len(h) + 1 + 1)..Len(g) : FALSE BY <1>1
<1> QED BY <1>1, <1>2, <1>3 DEF LastCall, g

(* The state: what the call at work has asked for, and an entry in doubt.  *)
Recorded ==
  /\ Sequential(said) /\ Story(said) /\ granted = GrantsOf(said)
  /\ task # "live" => call = Quiet
  /\ doubt = <<>> \/ \E e : doubt = <<e>> /\ task = "broken"
                            /\ (e.type # "question" => MayFollow(said, Len(said), e))
AtWork(c) ==
  /\ call.at = "begun" => call.of = c
  /\ call.at = "asking" => call.path = c.path
  /\ call.at = "answered" /\ call.allow = TRUE => c.path \in granted
  /\ call.at = "done" /\ call.ok /\ call.text = Allowed => c.path \in granted
Working == call = Quiet \/ \E c : LastCall(said, Len(said), c) /\ AtWork(c)
Permitted ==
  /\ wrote \subseteq Inside \cup granted
  /\ task = "live" /\ call.at # "answered" => grants = granted
  /\ task = "live" => grants \subseteq granted
GrantsInv == Recorded /\ Working /\ Permitted

(* The invariant holds at first: nothing is said and nothing permitted.    *)
LEMMA GrantsStart == ToolsInit => GrantsInv
<1> SUFFICES ASSUME ToolsInit PROVE GrantsInv OBVIOUS
<1>1. said = <<>> /\ doubt = <<>> /\ task = "live" /\ call = Quiet /\ grants = {} /\ granted = {} /\ wrote = {}
  BY DEF ToolsInit
<1>2. Sequential(<<>>) /\ Story(<<>>) /\ GrantsOf(<<>>) = {}
  <2>1. <<>> \in Seq({}) /\ DOMAIN <<>> = {} OBVIOUS
  <2> QED BY <2>1 DEF Sequential, Story, GrantsOf
<1> QED BY <1>1, <1>2 DEF GrantsInv, Recorded, Working, Permitted

(* Steps that say nothing: the call goes on, or is given a result.         *)
LEMMA GoesOn ==
  ASSUME GrantsInv, UNCHANGED <<said, doubt, granted, grants>>, task' = "live",
         task = "live", call # Quiet, call.at # "answered",
         \A c : LastCall(said, Len(said), c) /\ AtWork(c) => AtWork(c)',
         wrote' \subseteq Inside \cup granted
  PROVE  GrantsInv'
<1>1. Recorded' BY DEF GrantsInv, Recorded
<1>2. Working' BY DEF GrantsInv, Working
<1>3. Permitted' BY DEF GrantsInv, Permitted
<1> QED BY <1>1, <1>2, <1>3 DEF GrantsInv

(* The result of a tool that was not asked for a permission.               *)
LEMMA ResultGiven ==
  ASSUME GrantsInv, UNCHANGED grants, task = "live", call.at # "idle", call.at # "answered", wrote' \subseteq Inside \cup granted,
         NEW ok, NEW text, text # Allowed, Settle(Result(ok, text))
  PROVE  GrantsInv'
<1>1. UNCHANGED <<said, doubt, granted, task>> /\ call' = [at |-> "done", ok |-> ok, text |-> text]
  BY DEF Settle, Result
<1>2. call # Quiet BY DEF Quiet
<1>3. \A c : AtWork(c)' BY <1>1 DEF AtWork
<1> QED BY <1>1, <1>2, <1>3, GoesOn

(* An entry is added, and the call goes on.                                *)
LEMMA Says ==
  ASSUME GrantsInv, NEW e, said' = Append(said, e), MayFollow(said, Len(said), e), task = "live", doubt = <<>>
  PROVE  /\ Sequential(said') /\ Story(said')
         /\ GrantsOf(said') = GrantsOf(said) \cup IF e.type = "answer" /\ e.allow THEN {e.path} ELSE {}
         /\ \A c : e.type # "call" /\ LastCall(said, Len(said), c) => LastCall(said', Len(said'), c)
BY Appended, StoryGrows, GrantsGrow, LastStays DEF GrantsInv, Recorded

(* An entry whose append failed is in doubt, and the run is over.          *)
LEMMA FailsToSay ==
  ASSUME GrantsInv, task = "live", NEW e, e.type # "question" => MayFollow(said, Len(said), e), AppendFails(e)
  PROVE  GrantsInv'
<1>1. /\ task' = "broken" /\ call' = Quiet /\ doubt' = <<e>> /\ UNCHANGED <<said, granted, wrote>>
  BY DEF AppendFails
<1> QED BY <1>1 DEF GrantsInv, Recorded, Working, Permitted

(* A call, its result and the answer of the user are said in that order.   *)
LEMMA CallsSaid ==
  ASSUME GrantsInv, (\E c \in ToolCalls : Begin(c)) \/ Commit \/ (\E allow \in BOOLEAN : Respond(allow))
  PROVE  GrantsInv'
<1>1. ASSUME task = "live" PROVE doubt = <<>> BY <1>1 DEF GrantsInv, Recorded
<1>2. ASSUME NEW c \in ToolCalls, Begin(c) PROVE GrantsInv'
  <2>1. MayFollow(said, Len(said), CallEntry(c)) /\ CallEntry(c).type = "call" BY DEF MayFollow, CallEntry
  <2>2. CASE AppendFails(CallEntry(c)) BY <1>2, <2>1, <2>2, FailsToSay DEF Begin
  <2>3. CASE /\ said' = Append(said, CallEntry(c)) /\ call' = [at |-> "begun", of |-> c]
             /\ UNCHANGED <<tree, doubt, task, stopped, executors, granted, wrote>>
    <3>1. task = "live" /\ call = Quiet /\ UNCHANGED <<doubt, task, grants, granted, wrote>>
      BY <1>2, <2>3 DEF Begin, executors
    <3>2. /\ Sequential(said') /\ Story(said') /\ GrantsOf(said') = GrantsOf(said)
      BY <1>1, <2>1, <2>3, <3>1, Says
    <3>3. LastCall(said', Len(said'), c) BY <2>3, LastIsCall DEF GrantsInv, Recorded
    <3>4. AtWork(c)' BY <2>3 DEF AtWork
    <3>5. Recorded' BY <1>1, <3>1, <3>2 DEF GrantsInv, Recorded
    <3>6. Permitted' BY <2>3, <3>1 DEF GrantsInv, Permitted, Quiet
    <3> QED BY <3>3, <3>4, <3>5, <3>6 DEF GrantsInv, Working
  <2> QED BY <1>2, <2>2, <2>3 DEF Begin
<1>3. CASE Commit
  <2>1. task = "live" /\ call.at = "done" /\ call # Quiet BY <1>3 DEF Commit, Quiet
  <2>2. ResultEntry.type = "result" /\ ResultEntry.ok = call.ok /\ ResultEntry.text = call.text BY DEF ResultEntry
  <2>3. MayFollow(said, Len(said), ResultEntry)
    <3>1. PICK c : LastCall(said, Len(said), c) /\ AtWork(c) BY <2>1 DEF GrantsInv, Working
    <3> QED BY <2>1, <2>2, <3>1 DEF MayFollow, AtWork, GrantsInv, Recorded
  <2>4. CASE AppendFails(ResultEntry) BY <2>1, <2>3, <2>4, FailsToSay
  <2>5. CASE /\ said' = Append(said, ResultEntry) /\ call' = Quiet
             /\ UNCHANGED <<tree, doubt, task, stopped, executors, granted, wrote>>
    <3>1. UNCHANGED <<doubt, task, grants, granted, wrote>> BY <2>5 DEF executors
    <3>2. /\ Sequential(said') /\ Story(said') /\ GrantsOf(said') = GrantsOf(said)
      BY <1>1, <2>1, <2>2, <2>3, <2>5, Says
    <3>3. Recorded' BY <1>1, <2>1, <3>1, <3>2 DEF GrantsInv, Recorded
    <3>4. Permitted' BY <2>1, <3>1 DEF GrantsInv, Permitted
    <3> QED BY <2>5, <3>3, <3>4 DEF GrantsInv, Working
  <2> QED BY <1>3, <2>4, <2>5 DEF Commit
<1>4. ASSUME NEW allow \in BOOLEAN, Respond(allow) PROVE GrantsInv'
  <2> DEFINE e == [type |-> "answer", path |-> call.path, allow |-> allow]
  <2>1. task = "live" /\ call.at = "asking" /\ call # Quiet BY <1>4 DEF Respond, Quiet
  <2>2. e.type = "answer" /\ e.path = call.path /\ e.allow = allow OBVIOUS
  <2>3. \/ AppendFails(e)
        \/ /\ said' = Append(said, e)
           /\ granted' = IF allow THEN granted \cup {call.path} ELSE granted
           /\ call' = [at |-> "answered", allow |-> allow]
           /\ UNCHANGED <<tree, doubt, task, stopped, executors, wrote>>
    BY <1>4 DEF Respond
  <2> HIDE DEF e
  <2>4. PICK c : LastCall(said, Len(said), c) /\ c.path = call.path
    BY <2>1 DEF GrantsInv, Working, AtWork
  <2>5. MayFollow(said, Len(said), e) BY <2>2, <2>4 DEF MayFollow
  <2>6. CASE AppendFails(e) BY <2>1, <2>5, <2>6, FailsToSay
  <2>7. CASE /\ said' = Append(said, e)
             /\ granted' = IF allow THEN granted \cup {call.path} ELSE granted
             /\ call' = [at |-> "answered", allow |-> allow]
             /\ UNCHANGED <<tree, doubt, task, stopped, executors, wrote>>
    <3>1. UNCHANGED <<doubt, task, grants, wrote>> BY <2>7 DEF executors
    <3>2. /\ Sequential(said') /\ Story(said') /\ LastCall(said', Len(said'), c)
          /\ GrantsOf(said') = GrantsOf(said) \cup IF allow THEN {call.path} ELSE {}
      BY <1>1, <2>1, <2>2, <2>4, <2>5, <2>7, Says
    <3>3. granted' = GrantsOf(said') /\ granted \subseteq granted' BY <2>7, <3>2 DEF GrantsInv, Recorded
    <3>4. Recorded' BY <1>1, <2>1, <3>1, <3>2, <3>3 DEF GrantsInv, Recorded
    <3>5. AtWork(c)' BY <2>4, <2>7 DEF AtWork
    <3>6. Permitted' BY <2>1, <2>7, <3>1, <3>3 DEF GrantsInv, Permitted
    <3> QED BY <3>2, <3>4, <3>5, <3>6 DEF GrantsInv, Working
  <2> QED BY <2>3, <2>6, <2>7
<1> QED BY <1>2, <1>3, <1>4

(* No result of a file or of the todo list reads as a permission.          *)
LEMMA OtherTexts ==
  /\ Failed = Result(FALSE, Nothing) /\ Nothing # Allowed
  /\ \A c, o, l : Excerpt(c, o, l) # Allowed
  /\ [kind |-> "missing"] # Allowed
  /\ \A x : [kind |-> "same", is |-> x] # Allowed
  /\ \A x : [kind |-> "todos", list |-> x] # Allowed
<1>1. Allowed.kind = "permission" BY DEF Allowed
<1>2. Nothing.kind = "nothing" BY DEF Nothing
<1>3. \A c, o, l : Excerpt(c, o, l).kind = "text" BY DEF Excerpt
<1>4. /\ [kind |-> "missing"].kind = "missing"
      /\ \A x : [kind |-> "same", is |-> x].kind = "same"
      /\ \A x : [kind |-> "todos", list |-> x].kind = "todos"
  OBVIOUS
<1> QED BY <1>1, <1>2, <1>3, <1>4 DEF Failed

(* The tools.                                                              *)
LEMMA ToolSteps ==
  ASSUME GrantsInv, Read \/ CheckWrite \/ CheckEdit \/ WriteOut \/ TodoWrite
  PROVE  GrantsInv'
<1>1. wrote \subseteq Inside \cup granted BY DEF GrantsInv, Permitted
<1>2. CASE Read
  <2>1. task = "live" /\ call.at = "begun" /\ UNCHANGED <<grants, wrote>> BY <1>2 DEF Read, Executing
  <2>2. \/ Settle(Result(TRUE, [kind |-> "missing"]))
        \/ \E x : Settle(Result(TRUE, [kind |-> "same", is |-> x]))
        \/ \E c, o, l : Settle(Result(TRUE, Excerpt(c, o, l)))
        \/ Settle(Failed)
    BY <1>2 DEF Read
  <2>3. \E ok, text : text # Allowed /\ Settle(Result(ok, text)) BY <2>2, OtherTexts
  <2> QED BY <1>1, <2>1, <2>3, ResultGiven
<1>3. CASE CheckWrite \/ CheckEdit
  <2>1. PICK path, text :
          /\ task = "live" /\ call.at = "begun" /\ UNCHANGED <<grants, wrote>>
          /\ Settle(Failed) \/ Settle([at |-> "writing", path |-> path, text |-> text])
    BY <1>3 DEF CheckWrite, CheckEdit, Executing, executors
  <2>2. CASE Settle(Failed) BY <1>1, <2>1, <2>2, OtherTexts, ResultGiven
  <2>3. CASE Settle([at |-> "writing", path |-> path, text |-> text])
    <3>1. call'.at = "writing" /\ UNCHANGED <<said, doubt, granted, task>> BY <2>3 DEF Settle
    <3>2. call # Quiet BY <2>1 DEF Quiet
    <3>3. \A c : AtWork(c)' BY <3>1 DEF AtWork
    <3> QED BY <1>1, <2>1, <3>1, <3>2, <3>3, GoesOn
  <2> QED BY <2>1, <2>2, <2>3
<1>4. CASE WriteOut
  <2>1. /\ task = "live" /\ call.at = "writing" /\ UNCHANGED grants
        /\ \E ok : Settle(Result(ok, Nothing))
        /\ wrote' = wrote \/ (Writable(call.path) /\ wrote' = wrote \cup {call.path})
    BY <1>4, OtherTexts DEF WriteOut, executors
  <2>2. grants = granted BY <2>1 DEF GrantsInv, Permitted
  <2>3. wrote' \subseteq Inside \cup granted BY <1>1, <2>1, <2>2 DEF Writable
  <2> QED BY <2>1, <2>3, OtherTexts, ResultGiven
<1>5. CASE TodoWrite
  <2>1. /\ task = "live" /\ call.at = "begun" /\ UNCHANGED <<grants, wrote>>
        /\ \E ok, text : text # Allowed /\ Settle(Result(ok, text))
    BY <1>5, OtherTexts DEF TodoWrite, Executing
  <2> QED BY <1>1, <2>1, ResultGiven
<1> QED BY <1>2, <1>3, <1>4, <1>5

(* Asking, and the answer that is taken or not.                            *)
LEMMA AskingSteps ==
  ASSUME GrantsInv, AskUser \/ AskUserFails \/ TakeAnswer \/ Expire \/ Skip
  PROVE  GrantsInv'
<1>1. wrote \subseteq Inside \cup granted BY DEF GrantsInv, Permitted
<1>2. ASSUME task = "live", AppendFails([type |-> "question"]) PROVE GrantsInv'
  <2> DEFINE e == [type |-> "question"]
  <2>1. e.type = "question" OBVIOUS
  <2> HIDE DEF e
  <2>2. AppendFails(e) BY <1>2 DEF e
  <2> QED BY <1>2, <2>1, <2>2, FailsToSay
<1>3. ASSUME task = "live", call.at \in {"begun", "asking"}, Settle(Failed), UNCHANGED <<tree, executors, wrote>>
      PROVE  GrantsInv'
  <2>1. UNCHANGED <<grants, wrote>> BY <1>3 DEF executors
  <2> QED BY <1>1, <1>3, <2>1, OtherTexts, ResultGiven
<1>4. CASE AskUser
  <2>1. /\ task = "live" /\ call.at = "begun" /\ UNCHANGED <<tree, executors, wrote>>
        /\ Settle([at |-> "asking", path |-> call.of.path]) \/ Settle(Failed)
    BY <1>4 DEF AskUser, Executing
  <2>2. CASE Settle([at |-> "asking", path |-> call.of.path])
    <3>1. call' = [at |-> "asking", path |-> call.of.path] /\ UNCHANGED <<said, doubt, granted, task, grants, wrote>>
      BY <2>1, <2>2 DEF Settle, executors
    <3>2. call # Quiet BY <2>1 DEF Quiet
    <3>3. \A c : AtWork(c) => AtWork(c)' BY <2>1, <3>1 DEF AtWork
    <3> QED BY <1>1, <2>1, <3>1, <3>2, <3>3, GoesOn
  <2> QED BY <1>3, <2>1, <2>2
<1>5. CASE AskUserFails BY <1>2, <1>5 DEF AskUserFails, Executing
<1>6. CASE Expire BY <1>2, <1>3, <1>6 DEF Expire
<1>7. CASE Skip BY <1>2, <1>3, <1>7 DEF Skip
<1>8. CASE TakeAnswer
  <2>1. /\ task = "live" /\ call.at = "answered" /\ grants' = granted
        /\ UNCHANGED <<said, doubt, granted, task, wrote>>
        /\ call' = [at |-> "done", ok |-> TRUE, text |-> [kind |-> "permission", allow |-> call.allow]]
    BY <1>8 DEF TakeAnswer, Settle, Result
  <2>2. call'.at = "done" /\ call'.text = [kind |-> "permission", allow |-> call.allow] BY <2>1
  <2>3. call'.text = Allowed => call.allow = TRUE
    <3>1. [kind |-> "permission", allow |-> call.allow].allow = call.allow /\ Allowed.allow = TRUE BY DEF Allowed
    <3> QED BY <2>2, <3>1
  <2>4. \A c : AtWork(c) => AtWork(c)' BY <2>1, <2>2, <2>3 DEF AtWork
  <2>5. call # Quiet BY <2>1 DEF Quiet
  <2>6. Recorded' BY <2>1 DEF GrantsInv, Recorded
  <2>7. Working' BY <2>1, <2>4, <2>5 DEF GrantsInv, Working
  <2>8. Permitted' BY <2>1, <2>2 DEF GrantsInv, Permitted
  <2> QED BY <2>6, <2>7, <2>8 DEF GrantsInv
<1> QED BY <1>4, <1>5, <1>6, <1>7, <1>8

(* Runs, other programs, and a crash.                                      *)
LEMMA RunSteps ==
  ASSUME GrantsInv,
         StartRun \/ EndRun \/ StopRun \/ Crash
         \/ \E p \in Inside, content \in Texts \cup {NoFile} : OtherWrites(p, content)
  PROVE  GrantsInv'
<1> USE DEF GrantsInv, Recorded, Working, Permitted
<1>1. CASE StartRun
  <2>1. task = "over" /\ task' = "live" /\ grants' = granted /\ UNCHANGED <<said, doubt, call, granted, wrote>>
    BY <1>1 DEF StartRun
  <2>2. call = Quiet /\ doubt = <<>> BY <2>1
  <2> QED BY <2>1, <2>2
<1>2. CASE EndRun
  <2>1. task = "live" /\ call = Quiet /\ task' = "over" /\ UNCHANGED <<said, doubt, call, granted, wrote>>
    BY <1>2 DEF EndRun
  <2>2. doubt = <<>> BY <2>1
  <2> QED BY <2>1, <2>2
<1>3. CASE StopRun \/ \E p \in Inside, content \in Texts \cup {NoFile} : OtherWrites(p, content)
  <2>1. UNCHANGED <<said, doubt, task, call, grants, granted, wrote>> BY <1>3 DEF StopRun, OtherWrites, executors
  <2> QED BY <2>1 DEF AtWork
<1>4. CASE Crash
  <2>1. /\ task = "live" /\ task' = "broken" /\ call' = Quiet /\ UNCHANGED <<said, doubt, granted>>
        /\ wrote' = wrote \/ (call.at = "writing" /\ Writable(call.path) /\ wrote' = wrote \cup {call.path})
    BY <1>4 DEF Crash
  <2>2. doubt = <<>> /\ (call.at = "writing" => grants = granted) BY <2>1
  <2>3. wrote' \subseteq Inside \cup granted' BY <2>1, <2>2 DEF Writable
  <2> QED BY <2>1, <2>2, <2>3
<1> QED BY <1>1, <1>2, <1>3, <1>4

(* Recovery: the entry in doubt is found or not, and a call that was cut   *)
(* short is closed.                                                        *)
LEMMA RecoverySteps ==
  ASSUME GrantsInv, RecoverSession
  PROVE  GrantsInv'
<1>1. /\ task = "broken" /\ call = Quiet /\ doubt' = <<>> /\ UNCHANGED <<call, wrote>>
  BY DEF RecoverSession, GrantsInv, Recorded
<1>2. PICK h : /\ Sequential(h) /\ Story(h) /\ granted \subseteq GrantsOf(h) /\ granted' = GrantsOf(h)
               /\ \/ said' = h /\ task' = "stuck"
                  \/ Recovered(h)
  <2>1. PICK found \in {<<>>, doubt} :
          LET h == said \o found
          IN /\ \A i \in DOMAIN found : found[i].type # "question"
             /\ granted' = GrantsOf(h)
             /\ (said' = h /\ task' = "stuck") \/ Recovered(h)
    BY DEF RecoverSession
  <2>2. CASE found = <<>>
    <3>1. PICK T : said \in Seq(T) BY DEF GrantsInv, Recorded, Sequential
    <3>2. said \o found = said BY <2>2, <3>1
    <3> QED BY <2>1, <3>2 DEF GrantsInv, Recorded
  <2>3. CASE found # <<>>
    <3>1. PICK e : found = <<e>> /\ (e.type # "question" => MayFollow(said, Len(said), e))
      BY <2>3 DEF GrantsInv, Recorded
    <3>2. e.type # "question"
      <4>1. 1 \in DOMAIN <<e>> /\ <<e>>[1] = e OBVIOUS
      <4> QED BY <2>1, <3>1, <4>1
    <3>3. Sequential(said) /\ Story(said) /\ granted = GrantsOf(said) BY DEF GrantsInv, Recorded
    <3>4. said \o found = Append(said, e) BY <3>1, <3>3, Appended
    <3>5. Sequential(Append(said, e)) /\ Story(Append(said, e)) /\ GrantsOf(said) \subseteq GrantsOf(Append(said, e))
      BY <3>1, <3>2, <3>3, Appended, StoryGrows, GrantsGrow
    <3> QED BY <2>1, <3>3, <3>4, <3>5
  <2> QED BY <2>2, <2>3
<1>3. task' # "live" /\ Sequential(said') /\ Story(said') /\ GrantsOf(said') = GrantsOf(h)
  <2>1. CASE said' = h BY <1>2, <2>1 DEF Recovered
  <2>2. CASE said' # h
    <3> DEFINE n == Len(h)
               e == Closing(h)
    <3>1. said' = Append(h, e) /\ task' = "over" /\ h # <<>> BY <1>2, <2>2 DEF Recovered, Unfinished
    <3>2. n \in Nat /\ DOMAIN h = 1..n /\ n # 0 /\ n \in 1..n
      <4>1. PICK T : h \in Seq(T) BY <1>2 DEF Sequential
      <4> QED BY <3>1, <4>1
    <3>3. e.type = "result" /\ e.ok /\ e.text = Allowed => h[n].type = "answer" /\ h[n].allow = TRUE
      <4>1. CASE h[n].type = "answer"
        <5>1. e.text = [kind |-> "permission", allow |-> h[n].allow] BY <4>1 DEF Closing
        <5>2. [kind |-> "permission", allow |-> h[n].allow].allow = h[n].allow /\ Allowed.allow = TRUE BY DEF Allowed
        <5> QED BY <4>1, <5>1, <5>2
      <4>2. CASE h[n].type # "answer"
        <5>1. e = [type |-> "result", ok |-> FALSE, text |-> Nothing] BY <4>2 DEF Closing
        <5> QED BY <5>1
      <4> QED BY <4>1, <4>2
    <3>4. e.type = "result"
      <4>1. CASE h[n].type = "answer" BY <4>1 DEF Closing
      <4>2. CASE h[n].type # "answer" BY <4>2 DEF Closing
      <4> QED BY <4>1, <4>2
    <3> HIDE DEF e
    <3>5. ASSUME h[n].type = "answer", h[n].allow = TRUE PROVE \E c : LastCall(h, n, c) /\ c.path \in GrantsOf(h)
      <4>1. PICK c : LastCall(h, n - 1, c) /\ c.path = h[n].path BY <1>2, <3>2, <3>5 DEF Story, MayFollow
      <4>2. LastCall(h, n, c)
        <5>1. PICK j \in 1..(n - 1) : h[j].type = "call" /\ h[j].call = c /\ \A k \in (j + 1)..(n - 1) : h[k].type # "call"
          BY <4>1 DEF LastCall
        <5>2. j \in 1..n /\ \A k \in (j + 1)..n : k = n \/ k \in (j + 1)..(n - 1)
          <6>1. n \in Nat /\ j \in Int /\ 1 <= j /\ j <= n - 1 BY <3>2, <5>1
          <6> HIDE DEF n
          <6> QED BY <6>1
        <5>3. \A k \in (j + 1)..n : h[k].type # "call" BY <3>5, <5>1, <5>2
        <5> QED BY <5>1, <5>2, <5>3 DEF LastCall
      <4>3. h[n].path \in GrantsOf(h) BY <3>2, <3>5 DEF GrantsOf
      <4> QED BY <4>1, <4>2, <4>3
    <3>6. MayFollow(h, n, e) BY <3>3, <3>4, <3>5 DEF MayFollow
    <3>7. Sequential(Append(h, e)) /\ Story(Append(h, e)) /\ GrantsOf(Append(h, e)) = GrantsOf(h)
      <4>1. Sequential(Append(h, e)) BY <1>2, Appended
      <4>2. Story(Append(h, e)) BY <1>2, <3>6, StoryGrows
      <4>3. GrantsOf(Append(h, e)) = GrantsOf(h) BY <1>2, <3>4, GrantsGrow
      <4> QED BY <4>1, <4>2, <4>3
    <3> QED BY <3>1, <3>7
  <2> QED BY <2>1, <2>2
<1>4. Recorded' BY <1>1, <1>2, <1>3 DEF Recorded
<1>5. Working' BY <1>1 DEF Working
<1>6. Permitted' BY <1>1, <1>2, <1>3 DEF Permitted, GrantsInv
<1> QED BY <1>4, <1>5, <1>6 DEF GrantsInv

(* The call that a result is of is the last one before it.                 *)
LEMMA TheCall ==
  ASSUME NEW h, NEW i, NEW c, LastCall(h, i - 1, c)
  PROVE  CallAt(h, i) = c
<1> DEFINE P(j) == h[j].type = "call" /\ \A k \in (j + 1)..(i - 1) : h[k].type # "call"
<1>1. PICK j \in 1..(i - 1) : P(j) /\ h[j].call = c BY DEF LastCall
<1>2. \A m \in 1..(i - 1) : P(m) => m = j
  <2> SUFFICES ASSUME NEW m \in 1..(i - 1), P(m), m # j PROVE FALSE OBVIOUS
  <2>1. m \in (j + 1)..(i - 1) \/ j \in (m + 1)..(i - 1) OBVIOUS
  <2> QED BY <1>1, <2>1
<1> DEFINE w == CHOOSE m \in 1..(i - 1) : P(m)
<1>3. w = j BY <1>1, <1>2
<1>4. CallAt(h, i) = h[w].call BY DEF CallAt
<1> HIDE DEF w
<1> QED BY <1>1, <1>3, <1>4

(* The invariant says what the run checks.                                 *)
LEMMA GrantsMeant == GrantsInv => GrantsFollow
<1> SUFFICES ASSUME GrantsInv PROVE GrantsFollow OBVIOUS
<1>1. ASSUME NEW i \in Answered(said), said[i].text = Allowed PROVE CallAt(said, i).path \in granted
  <2>1. i \in DOMAIN said /\ said[i].type = "result" /\ said[i].ok BY DEF Answered
  <2>2. PICK c : LastCall(said, i - 1, c) /\ c.path \in GrantsOf(said)
    BY <1>1, <2>1 DEF GrantsInv, Recorded, Story, MayFollow
  <2> QED BY <2>2, TheCall DEF GrantsInv, Recorded
<1> QED BY <1>1 DEF GrantsFollow, GrantsInv, Recorded, Permitted, Allowed

(* The tools (xw-agent-runtime) and permissions of a session: nothing      *)
(* outside is written without a permission on record, a run knows those on *)
(* record whenever it executes something, and the model hears that it has  *)
(* one only when it has - wherever a call is stopped, an append fails or   *)
(* the process dies: GrantsFollow in every reachable state.                *)
THEOREM GrantsAreFollowed == ToolsSpec => []GrantsFollow
<1>1. GrantsInv /\ [ToolsNext]_toolvars => GrantsInv'
  <2> SUFFICES ASSUME GrantsInv, [ToolsNext]_toolvars PROVE GrantsInv' OBVIOUS
  <2>1. CASE UNCHANGED toolvars
    BY <2>1 DEF toolvars, GrantsInv, Recorded, Working, Permitted, AtWork
  <2>2. CASE ToolsNext
    BY <2>2, CallsSaid, ToolSteps, AskingSteps, RunSteps, RecoverySteps DEF ToolsNext
  <2> QED BY <2>1, <2>2
<1> QED BY <1>1, GrantsStart, GrantsMeant, PTL DEF ToolsSpec

(* A set that has zero and each successor of its members has every natural *)
(* number: of the members below one that it had not, the successor would   *)
(* be an injection that leaves out zero.                                   *)
LEMMA Induction ==
  ASSUME NEW S, 0 \in S, \A n \in Nat : n \in S => n + 1 \in S
  PROVE  \A n \in Nat : n \in S
<1> SUFFICES ASSUME NEW m \in Nat, m \notin S PROVE FALSE OBVIOUS
<1> DEFINE B == {k \in 0..m : \A j \in 0..k : j \in S}
           f == [k \in B |-> k + 1]
<1>1. IsFiniteSet(B) /\ 0 \in B
  <2>1. IsFiniteSet(0..m) BY FS_Interval
  <2>2. IsFiniteSet(B) BY <2>1, FS_Subset
  <2> QED BY <2>2
<1>2. \A k \in B : k \in Nat /\ k # m /\ k + 1 \in B
  <2> SUFFICES ASSUME NEW k \in B PROVE k \in Nat /\ k # m /\ k + 1 \in B OBVIOUS
  <2>1. k \in 0..m /\ \A j \in 0..k : j \in S OBVIOUS
  <2>2. k \in S /\ k # m BY <2>1
  <2>3. k + 1 \in 0..m /\ k + 1 \in S BY <2>1, <2>2
  <2>4. \A j \in 0..(k + 1) : j \in 0..k \/ j = k + 1 BY <2>1
  <2> QED BY <2>1, <2>2, <2>3, <2>4
<1> HIDE DEF B
<1>3. f \in [B -> B] /\ \A a, b \in B : f[a] = f[b] => a = b BY <1>2
<1>4. f \in Injection(B, B) BY <1>3, Fun_IsInj
<1>5. f \in Surjection(B, B) BY <1>1, <1>4, FS_Injection
<1>6. \E k \in B : f[k] = 0 BY <1>1, <1>5, Fun_SurjectionProperties
<1> QED BY <1>2, <1>6

(***************************************************************************)
(* What the tools remember (Tools): UnchangedIsShown and TodosFollow, for  *)
(* any paths, calls, contents and length of the history.                   *)
(***************************************************************************)

(* The call that the first n entries of h end with, if it has no result.   *)
Waits(h, n, c) ==
  \E j \in 1..n : /\ h[j].type = "call" /\ h[j].call = c
                  /\ \A k \in (j + 1)..n : h[k].type # "call" /\ h[k].type # "result"

(* The texts of the range k among them, that no text says it is unchanged, *)
(* and that t, if it is a text, is the newest.                             *)
Shown(h, n, k) ==
  {j \in 1..n : /\ h[j].type = "result" /\ h[j].ok /\ h[j].text.kind = "text"
                /\ \E c : LastCall(h, j - 1, c) /\ KeyOf(c) = k}
Clean(h, n, k) == \A j \in Shown(h, n, k) : ~SaysUnchanged(h[j].text)
IsNewest(h, n, k, t) ==
  t.kind = "text" => \E j \in Shown(h, n, k) : t = h[j].text /\ \A m \in Shown(h, n, k) : m <= j
Newest(h, n, k, t) == Clean(h, n, k) => IsNewest(h, n, k, t)

(* The todo list among them.                                               *)
Listed(h, n) == {i \in 1..n : h[i].type = "result" /\ h[i].ok /\ h[i].text.kind = "todos"}
TodosAre(h, n, l) ==
  IF Listed(h, n) = {} THEN l = <<>>
  ELSE \E i \in Listed(h, n) : l = h[i].text.list /\ \A j \in Listed(h, n) : j <= i

(* What may be said of the call c after them, and what may be said at all. *)
Fitting(h, n, c, text) ==
  /\ text.kind \in {"text", "same"} => c.name = "Read" /\ c \in ToolCalls
  /\ text.kind = "same" => text.is.kind = "text" /\ Newest(h, n, KeyOf(c), text.is)
  /\ text.kind = "todos" => \A l : TodosAre(h, n, l) => text.list = Merged(l, c)
Tells(h, n, e) ==
  /\ e.type = "answer" => \E c : Waits(h, n, c)
  /\ e.type = "result" /\ e.ok => \E c : Waits(h, n, c) /\ Fitting(h, n, c, e.text)
Account(h) == \A i \in DOMAIN h : Tells(h, i - 1, h[i])

(* All of this is about the entries that it counts, so a history that goes *)
(* on leaves it as it is.                                                  *)
LEMMA SamePrefix ==
  ASSUME NEW g, NEW h, NEW n \in Nat, \A i \in 1..n : g[i] = h[i]
  PROVE  /\ \A c : Waits(g, n, c) <=> Waits(h, n, c)
         /\ \A k : Shown(g, n, k) = Shown(h, n, k)
         /\ \A k, t : Newest(g, n, k, t) <=> Newest(h, n, k, t)
         /\ Listed(g, n) = Listed(h, n)
         /\ \A l : TodosAre(g, n, l) <=> TodosAre(h, n, l)
         /\ \A e : Tells(g, n, e) <=> Tells(h, n, e)
<1>1. ASSUME NEW c PROVE Waits(g, n, c) <=> Waits(h, n, c)
  <2>1. \A j \in 1..n : \A k \in (j + 1)..n : k \in 1..n OBVIOUS
  <2> QED BY <2>1 DEF Waits
<1>2. ASSUME NEW j \in 1..n, NEW c PROVE LastCall(g, j - 1, c) <=> LastCall(h, j - 1, c)
  <2>1. \A m \in 1..(j - 1) : m \in 1..n /\ \A k \in (m + 1)..(j - 1) : k \in 1..n OBVIOUS
  <2> QED BY <2>1 DEF LastCall
<1>3. ASSUME NEW k PROVE Shown(g, n, k) = Shown(h, n, k) BY <1>2 DEF Shown
<1>4. ASSUME NEW k, NEW t PROVE Newest(g, n, k, t) <=> Newest(h, n, k, t)
  <2>1. \A j \in Shown(h, n, k) : g[j] = h[j] BY DEF Shown
  <2> QED BY <1>3, <2>1 DEF Newest, Clean, IsNewest
<1>5. Listed(g, n) = Listed(h, n) BY DEF Listed
<1>6. ASSUME NEW l PROVE TodosAre(g, n, l) <=> TodosAre(h, n, l)
  <2>1. \A j \in Listed(h, n) : g[j] = h[j] BY DEF Listed
  <2> QED BY <1>5, <2>1 DEF TodosAre
<1>7. ASSUME NEW c, NEW t PROVE Fitting(g, n, c, t) <=> Fitting(h, n, c, t)
  BY <1>4, <1>6 DEF Fitting
<1>8. ASSUME NEW e PROVE Tells(g, n, e) <=> Tells(h, n, e)
  BY <1>1, <1>7 DEF Tells
<1> QED BY <1>1, <1>3, <1>4, <1>5, <1>6, <1>8

(* What one more entry changes.                                            *)
LEMMA OneMore ==
  ASSUME NEW h, NEW n \in Nat
  PROVE  LET e == h[n + 1]
             given == e.type = "result" /\ e.ok
         IN /\ \A c : Waits(h, n, c) => LastCall(h, n, c)
            /\ \A c, d : Waits(h, n, c) /\ LastCall(h, n, d) => c = d
            /\ e.type = "call" => \A c : Waits(h, n + 1, c) <=> c = e.call
            /\ e.type # "call" => \A c : Waits(h, n + 1, c) => Waits(h, n, c) /\ e.type # "result"
            /\ e.type \notin {"call", "result"} => \A c : Waits(h, n, c) => Waits(h, n + 1, c)
            /\ \A c : given /\ e.text.kind = "text" /\ LastCall(h, n, c)
                 => Shown(h, n + 1, KeyOf(c)) = Shown(h, n, KeyOf(c)) \cup {n + 1}
            /\ \A c, k : ~(given /\ e.text.kind = "text") \/ (LastCall(h, n, c) /\ k # KeyOf(c))
                 => Shown(h, n + 1, k) = Shown(h, n, k)
            /\ Listed(h, n + 1) =
                 Listed(h, n) \cup IF given /\ e.text.kind = "todos" THEN {n + 1} ELSE {}
<1> DEFINE e == h[n + 1]
           given == e.type = "result" /\ e.ok
<1>0. /\ 1..(n + 1) = 1..n \cup {n + 1} /\ n + 1 \notin 1..n /\ n + 1 - 1 = n
      /\ \A j \in 1..n : j \in 1..(n + 1) /\ (j + 1)..(n + 1) = (j + 1)..n \cup {n + 1}
      /\ (n + 1 + 1)..(n + 1) = {}
  OBVIOUS
<1>1. \A c : Waits(h, n, c) => LastCall(h, n, c) BY DEF Waits, LastCall
<1>2. ASSUME NEW c, NEW d, LastCall(h, n, c), LastCall(h, n, d) PROVE c = d
  <2>1. PICK i \in 1..n : h[i].type = "call" /\ h[i].call = c /\ \A k \in (i + 1)..n : h[k].type # "call"
    BY <1>2 DEF LastCall
  <2>2. PICK j \in 1..n : h[j].type = "call" /\ h[j].call = d /\ \A k \in (j + 1)..n : h[k].type # "call"
    BY <1>2 DEF LastCall
  <2>3. i = j \/ i \in (j + 1)..n \/ j \in (i + 1)..n OBVIOUS
  <2> QED BY <2>1, <2>2, <2>3
<1>3. ASSUME e.type = "call", NEW c PROVE Waits(h, n + 1, c) <=> c = e.call
  <2>1. ASSUME c = e.call PROVE Waits(h, n + 1, c) BY <1>0, <1>3, <2>1 DEF Waits
  <2>2. ASSUME Waits(h, n + 1, c) PROVE c = e.call
    <3>1. PICK j \in 1..(n + 1) : h[j].call = c /\ \A k \in (j + 1)..(n + 1) : h[k].type # "call"
      BY <2>2 DEF Waits
    <3>2. j = n + 1 BY <1>0, <1>3, <3>1
    <3> QED BY <3>1, <3>2
  <2> QED BY <2>1, <2>2
<1>4. ASSUME e.type # "call", NEW c, Waits(h, n + 1, c) PROVE Waits(h, n, c) /\ e.type # "result"
  <2>1. PICK j \in 1..(n + 1) : /\ h[j].type = "call" /\ h[j].call = c
                               /\ \A k \in (j + 1)..(n + 1) : h[k].type # "call" /\ h[k].type # "result"
    BY <1>4 DEF Waits
  <2>2. j \in 1..n BY <1>0, <1>4, <2>1
  <2> QED BY <1>0, <2>1, <2>2 DEF Waits
<1>5. ASSUME e.type \notin {"call", "result"}, NEW c, Waits(h, n, c) PROVE Waits(h, n + 1, c)
  <2>1. PICK j \in 1..n : /\ h[j].type = "call" /\ h[j].call = c
                         /\ \A k \in (j + 1)..n : h[k].type # "call" /\ h[k].type # "result"
    BY <1>5 DEF Waits
  <2> QED BY <1>0, <1>5, <2>1 DEF Waits
<1>6. ASSUME NEW c, given, e.text.kind = "text", LastCall(h, n, c)
      PROVE  Shown(h, n + 1, KeyOf(c)) = Shown(h, n, KeyOf(c)) \cup {n + 1}
  BY <1>0, <1>6 DEF Shown
<1>7. ASSUME NEW c, NEW k, ~(given /\ e.text.kind = "text") \/ (LastCall(h, n, c) /\ k # KeyOf(c))
      PROVE  Shown(h, n + 1, k) = Shown(h, n, k)
  <2>1. n + 1 \notin Shown(h, n + 1, k) BY <1>0, <1>2, <1>7 DEF Shown
  <2>2. \A j \in 1..n : j \in Shown(h, n + 1, k) <=> j \in Shown(h, n, k) BY <1>0 DEF Shown
  <2>3. Shown(h, n, k) \subseteq 1..n /\ Shown(h, n + 1, k) \subseteq 1..(n + 1) BY DEF Shown
  <2> QED BY <1>0, <2>1, <2>2, <2>3
<1>8. Listed(h, n + 1) = Listed(h, n) \cup IF given /\ e.text.kind = "todos" THEN {n + 1} ELSE {}
  BY <1>0 DEF Listed
<1> QED BY <1>1, <1>2, <1>3, <1>4, <1>5, <1>6, <1>7, <1>8

(* What a run finds in the history, entry by entry.                        *)
NothingKnown == [pending |-> <<>>, reads |-> [k \in Keys |-> Nothing]]

(* The recursive definition of Hydrated says what its name promises: the   *)
(* definitions up to an entry exist and agree, by induction on the entry.  *)
LEMMA HydratedSteps ==
  ASSUME NEW h, Len(h) \in Nat
  PROVE  /\ Hydrated(h)[0] = NothingKnown
         /\ \A i \in 1..Len(h) : Hydrated(h)[i] = Recall(Hydrated(h)[i - 1], h[i])
<1> DEFINE D(n) == 0..n
           Sat(f, n) == f = [i \in D(n) |-> IF i = 0 THEN NothingKnown ELSE Recall(f[i - 1], h[i])]
           S == {n \in Nat : n <= Len(h) => \E f : Sat(f, n)}
<1>1. 0 \in S
  <2> DEFINE f == [i \in D(0) |-> NothingKnown]
  <2>1. Sat(f, 0) OBVIOUS
  <2> HIDE DEF Sat
  <2> QED BY <2>1
<1>2. ASSUME NEW n \in Nat, n \in S PROVE n + 1 \in S
  <2> SUFFICES ASSUME n + 1 <= Len(h) PROVE \E f : Sat(f, n + 1) OBVIOUS
  <2>1. PICK f : Sat(f, n) BY <1>2
  <2> DEFINE g == [i \in D(n + 1) |-> IF i = n + 1 THEN Recall(f[n], h[n + 1]) ELSE f[i]]
  <2>2. ASSUME NEW i \in D(n + 1) PROVE g[i] = IF i = 0 THEN NothingKnown ELSE Recall(g[i - 1], h[i])
    <3>1. CASE i = n + 1
      <4>1. i # 0 /\ i - 1 = n /\ n \in D(n + 1) /\ n # n + 1 BY <3>1
      <4>2. g[i] = Recall(f[n], h[i]) BY <3>1
      <4>3. g[n] = f[n] BY <4>1
      <4> QED BY <4>1, <4>2, <4>3
    <3>2. CASE i # n + 1
      <4>1. i \in D(n) /\ (i # 0 => i - 1 \in D(n + 1) /\ i - 1 # n + 1) BY <3>2
      <4>2. g[i] = f[i] /\ (i # 0 => g[i - 1] = f[i - 1]) BY <3>2, <4>1
      <4>3. f[i] = IF i = 0 THEN NothingKnown ELSE Recall(f[i - 1], h[i]) BY <2>1, <4>1
      <4> QED BY <4>2, <4>3
    <3> QED BY <3>1, <3>2
  <2>3. g = [i \in D(n + 1) |-> g[i]] OBVIOUS
  <2> HIDE DEF g
  <2>4. Sat(g, n + 1) BY <2>2, <2>3
  <2> HIDE DEF Sat
  <2> QED BY <2>4
<1>3. \E f : Sat(f, Len(h))
  <2> HIDE DEF Sat
  <2>1. \A n \in Nat : n \in S
    <3> HIDE DEF S
    <3> QED BY <1>1, <1>2, Induction
  <2> QED BY <2>1
<1>4. Sat(Hydrated(h), Len(h))
  <2>1. Hydrated(h) = CHOOSE f : Sat(f, Len(h)) BY DEF Hydrated, NothingKnown
  <2> HIDE DEF Sat
  <2> QED BY <1>3, <2>1
<1> QED BY <1>4

(* What one more entry makes of the newest text of a range, and of the     *)
(* todo list.                                                              *)
LEMMA NewestAfter ==
  ASSUME NEW h, NEW n \in Nat, h[n + 1].type = "result", h[n + 1].ok, h[n + 1].text.kind = "text",
         NEW c, Waits(h, n, c)
  PROVE  /\ Newest(h, n + 1, KeyOf(c), h[n + 1].text)
         /\ \A k, t : k # KeyOf(c) => (Newest(h, n + 1, k, t) <=> Newest(h, n, k, t))
<1>1. LastCall(h, n, c) BY OneMore
<1>2. Shown(h, n + 1, KeyOf(c)) = Shown(h, n, KeyOf(c)) \cup {n + 1} BY <1>1, OneMore
<1>3. \A j \in Shown(h, n, KeyOf(c)) : j <= n + 1 BY DEF Shown
<1>4. Newest(h, n + 1, KeyOf(c), h[n + 1].text) BY <1>2, <1>3 DEF Newest, IsNewest
<1>5. \A k : k # KeyOf(c) => Shown(h, n + 1, k) = Shown(h, n, k) BY <1>1, OneMore
<1> QED BY <1>4, <1>5 DEF Newest, Clean, IsNewest

(* An entry that shows no text leaves what was shown last.                 *)
LEMMA NewestStays ==
  ASSUME NEW h, NEW n \in Nat,
         ~(h[n + 1].type = "result" /\ h[n + 1].ok /\ h[n + 1].text.kind = "text")
  PROVE  \A k, t : Newest(h, n + 1, k, t) <=> Newest(h, n, k, t)
<1>1. \A k : Shown(h, n + 1, k) = Shown(h, n, k) BY OneMore
<1> QED BY <1>1 DEF Newest, Clean, IsNewest

(* The list is the one of the last result, or what it was.                 *)
LEMMA TodosAfter ==
  ASSUME NEW h, NEW n \in Nat
  PROVE  IF h[n + 1].type = "result" /\ h[n + 1].ok /\ h[n + 1].text.kind = "todos"
         THEN \A l : TodosAre(h, n + 1, l) <=> l = h[n + 1].text.list
         ELSE \A l : TodosAre(h, n + 1, l) <=> TodosAre(h, n, l)
<1>1. Listed(h, n) \subseteq 1..n BY DEF Listed
<1>2. CASE h[n + 1].type = "result" /\ h[n + 1].ok /\ h[n + 1].text.kind = "todos"
  <2>1. Listed(h, n + 1) = Listed(h, n) \cup {n + 1} BY <1>2, OneMore
  <2>2. \A i \in Listed(h, n + 1) : i <= n + 1 /\ (n + 1 <= i => i = n + 1) BY <1>1, <2>1
  <2> QED BY <1>2, <2>1, <2>2 DEF TodosAre
<1>3. CASE ~(h[n + 1].type = "result" /\ h[n + 1].ok /\ h[n + 1].text.kind = "todos")
  <2>0. Listed(h, n + 1) = Listed(h, n) \cup
          IF h[n + 1].type = "result" /\ h[n + 1].ok /\ h[n + 1].text.kind = "todos" THEN {n + 1} ELSE {}
    BY OneMore
  <2>1. Listed(h, n + 1) = Listed(h, n) BY <1>3, <2>0
  <2> QED BY <1>3, <2>1 DEF TodosAre
<1> QED BY <1>2, <1>3

(* Whatever the history, there is one list, and the code finds it.         *)
LEMMA OneList ==
  ASSUME NEW h, Sequential(h), NEW l, TodosAre(h, Len(h), l)
  PROVE  TodosOf(h) = l
<1>1. Len(h) \in Nat /\ DOMAIN h = 1..Len(h) BY Appended
<1> DEFINE done == {i \in DOMAIN h : h[i].type = "result" /\ h[i].ok /\ h[i].text.kind = "todos"}
           IsLast(i) == i \in done /\ \A j \in done : j <= i
<1>2. done = Listed(h, Len(h)) BY <1>1 DEF Listed
<1>3. done \subseteq Nat BY <1>1
<1>4. CASE done = {} BY <1>2, <1>4 DEF TodosAre, TodosOf
<1>5. CASE done # {}
  <2>1. PICK i : IsLast(i) /\ l = h[i].text.list BY <1>2, <1>5 DEF TodosAre
  <2> DEFINE w == CHOOSE m \in done : \A j \in done : j <= m
  <2>2. w \in done /\ \A j \in done : j <= w
    <3> HIDE DEF done
    <3> QED BY <2>1
  <2>3. w = i
    <3> HIDE DEF w, done
    <3> QED BY <1>3, <2>1, <2>2
  <2>4. TodosOf(h) = h[w].text.list BY <1>5 DEF TodosOf
  <2> HIDE DEF w
  <2> QED BY <2>1, <2>3, <2>4
<1> QED BY <1>4, <1>5

(* An account goes on with what may be told.                               *)
LEMMA AccountGrows ==
  ASSUME NEW h, Sequential(h), Account(h), NEW e, Tells(h, Len(h), e)
  PROVE  Account(Append(h, e))
<1> DEFINE g == Append(h, e)
<1>1. /\ Len(h) \in Nat /\ DOMAIN h = 1..Len(h) /\ DOMAIN g = 1..(Len(h) + 1) /\ g[Len(h) + 1] = e
      /\ \A i \in 1..Len(h) : g[i] = h[i]
  BY Appended
<1> HIDE DEF g
<1>2. ASSUME NEW i \in DOMAIN g PROVE Tells(g, i - 1, g[i])
  <2>1. i - 1 \in Nat /\ \A j \in 1..(i - 1) : g[j] = h[j] BY <1>1
  <2>2. \A f : Tells(g, i - 1, f) <=> Tells(h, i - 1, f) BY <2>1, SamePrefix
  <2>3. CASE i \in 1..Len(h) BY <1>1, <2>2, <2>3 DEF Account
  <2>4. CASE i = Len(h) + 1 BY <1>1, <2>2, <2>4
  <2> QED BY <1>1, <2>3, <2>4
<1> QED BY <1>2 DEF Account, g

(* What a run finds is the newest text of each range.                      *)
Knows(h, n) ==
  LET r == Hydrated(h)[n]
  IN /\ r = [pending |-> r.pending, reads |-> r.reads] /\ DOMAIN r.reads = Keys
     /\ \A c : Waits(h, n, c) => r.pending = IF c.name = "Read" THEN <<KeyOf(c)>> ELSE <<>>
     /\ \A k \in Keys : Newest(h, n, k, r.reads[k])

(* What a run knows stays right with one entry more.                       *)
LEMMA KnowsOneMore ==
  ASSUME NEW h, NEW n \in Nat, Knows(h, n), Tells(h, n, h[n + 1]),
         Hydrated(h)[n + 1] = Recall(Hydrated(h)[n], h[n + 1])
  PROVE  Knows(h, n + 1)
<1> DEFINE e == h[n + 1]
           r == Hydrated(h)[n]
           s == Hydrated(h)[n + 1]
<1>1. /\ r = [pending |-> r.pending, reads |-> r.reads] /\ DOMAIN r.reads = Keys
      /\ \A c : Waits(h, n, c) => r.pending = IF c.name = "Read" THEN <<KeyOf(c)>> ELSE <<>>
      /\ \A k \in Keys : Newest(h, n, k, r.reads[k])
      /\ s = Recall(r, e)
  BY DEF Knows
<1> HIDE DEF r, s
<1>2. CASE e.type = "call"
  <2>1. s = [pending |-> IF e.call.name = "Read" THEN <<KeyOf(e.call)>> ELSE <<>>, reads |-> r.reads]
    BY <1>1, <1>2 DEF Recall
  <2>2. \A c : Waits(h, n + 1, c) => c = e.call BY <1>2, OneMore
  <2>3. \A k, t : Newest(h, n + 1, k, t) <=> Newest(h, n, k, t) BY <1>2, NewestStays
  <2> QED BY <1>1, <2>1, <2>2, <2>3 DEF Knows, s
<1>3. CASE e.type = "result" /\ e.ok
  <2>1. PICK c : Waits(h, n, c) /\ Fitting(h, n, c, e.text) BY <1>3 DEF Tells
  <2>2. r.pending = IF c.name = "Read" THEN <<KeyOf(c)>> ELSE <<>> BY <1>1, <2>1
  <2>3. \A d : ~Waits(h, n + 1, d)
    <3>1. e.type # "call" BY <1>3
    <3> QED BY <1>3, <3>1, OneMore
  <2>4. CASE c.name # "Read" \/ SaysUnchanged(e.text)
    <3>1. s = [pending |-> IF c.name = "Read" THEN <<>> ELSE r.pending, reads |-> r.reads]
      <4>1. e.type # "call" BY <1>3
      <4>2. CASE c.name = "Read"
        <5>1. r.pending # <<>> BY <2>2, <4>2
        <5> QED BY <1>1, <1>3, <2>4, <4>1, <4>2, <5>1 DEF Recall
      <4>3. CASE c.name # "Read"
        <5>1. r.pending = <<>> BY <2>2, <4>3
        <5> QED BY <1>1, <1>3, <4>1, <4>3, <5>1 DEF Recall
      <4> QED BY <4>2, <4>3
    <3>2. ASSUME NEW k \in Keys PROVE Newest(h, n + 1, k, r.reads[k])
      <4>1. Newest(h, n, k, r.reads[k]) BY <1>1
      <4>2. CASE e.text.kind # "text" BY <4>1, <4>2, NewestStays
      <4>3. CASE e.text.kind = "text" /\ k # KeyOf(c) BY <1>3, <2>1, <4>1, <4>3, NewestAfter
      <4>4. CASE e.text.kind = "text" /\ k = KeyOf(c)
        <5>1. SaysUnchanged(e.text) BY <2>1, <2>4, <4>4 DEF Fitting
        <5>2. LastCall(h, n, c) BY <2>1, OneMore
        <5>3. Shown(h, n + 1, KeyOf(c)) = Shown(h, n, KeyOf(c)) \cup {n + 1}
          BY <1>3, <4>4, <5>2, OneMore
        <5>. HIDE DEF e
        <5>4. n + 1 \in Shown(h, n + 1, k) BY <4>4, <5>3
        <5>5. ~Clean(h, n + 1, k) BY <5>1, <5>4 DEF Clean, e
        <5> QED BY <5>5 DEF Newest
      <4> QED BY <4>2, <4>3, <4>4
    <3> QED BY <1>1, <2>3, <3>1, <3>2 DEF Knows, s
  <2>5. CASE c.name = "Read" /\ ~SaysUnchanged(e.text)
    <3>1. r.pending = <<KeyOf(c)>> /\ r.pending # <<>> /\ r.pending[1] = KeyOf(c) BY <2>2, <2>5
    <3>2. s = [pending |-> <<>>, reads |-> [r.reads EXCEPT ![KeyOf(c)] = e.text]]
      <4>1. e.type # "call" BY <1>3
      <4> QED BY <1>1, <1>3, <2>5, <3>1, <4>1 DEF Recall
    <3>3. s.reads = [r.reads EXCEPT ![KeyOf(c)] = e.text] BY <3>2
    <3>4. ASSUME NEW k \in Keys PROVE Newest(h, n + 1, k, s.reads[k])
      <4>1. Newest(h, n, k, r.reads[k]) BY <1>1
      <4>2. CASE k # KeyOf(c)
        <5>1. s.reads[k] = r.reads[k] BY <1>1, <3>3, <4>2
        <5>2. CASE e.text.kind = "text" BY <1>3, <2>1, <4>1, <4>2, <5>1, <5>2, NewestAfter
        <5>3. CASE e.text.kind # "text" BY <4>1, <5>1, <5>3, NewestStays
        <5> QED BY <5>2, <5>3
      <4>3. CASE k = KeyOf(c)
        <5>1. s.reads[k] = e.text BY <1>1, <3>3, <4>3
        <5>2. CASE e.text.kind = "text" BY <1>3, <2>1, <4>3, <5>1, <5>2, NewestAfter
        <5>3. CASE e.text.kind # "text" BY <5>1, <5>3 DEF Newest, IsNewest
        <5> QED BY <5>2, <5>3
      <4> QED BY <4>2, <4>3
    <3>5. DOMAIN s.reads = Keys BY <1>1, <3>3
    <3> QED BY <2>3, <3>2, <3>4, <3>5 DEF Knows, s
  <2> QED BY <2>4, <2>5
<1>4. CASE e.type # "call" /\ ~(e.type = "result" /\ e.ok)
  <2>1. s = r BY <1>1, <1>4 DEF Recall
  <2>2. \A c : Waits(h, n + 1, c) => Waits(h, n, c) BY <1>4, OneMore
  <2>3. \A k, t : Newest(h, n + 1, k, t) <=> Newest(h, n, k, t) BY <1>4, NewestStays
  <2> QED BY <1>1, <2>1, <2>2, <2>3 DEF Knows, s
<1> QED BY <1>2, <1>3, <1>4

(* A run finds in the history, for each key, the text that was shown last. *)
LEMMA RunKnows ==
  ASSUME NEW h, Sequential(h), Account(h)
  PROVE  DOMAIN ReadsOf(h) = Keys /\ \A k \in Keys : Newest(h, Len(h), k, ReadsOf(h)[k])
<1>1. Len(h) \in Nat /\ DOMAIN h = 1..Len(h) BY Appended
<1>2. /\ Hydrated(h)[0] = NothingKnown
      /\ \A i \in 1..Len(h) : Hydrated(h)[i] = Recall(Hydrated(h)[i - 1], h[i])
  BY <1>1, HydratedSteps
<1> DEFINE S == {n \in Nat : n <= Len(h) => Knows(h, n)}
<1>3. Knows(h, 0)
  <2>1. \A c : ~Waits(h, 0, c) BY DEF Waits
  <2>2. \A k : Newest(h, 0, k, Nothing) BY DEF Newest, IsNewest, Nothing
  <2>3. /\ NothingKnown = [pending |-> NothingKnown.pending, reads |-> NothingKnown.reads]
        /\ DOMAIN NothingKnown.reads = Keys /\ \A k \in Keys : NothingKnown.reads[k] = Nothing
    BY DEF NothingKnown
  <2> QED BY <1>2, <2>1, <2>2, <2>3 DEF Knows
<1>4. ASSUME NEW n \in Nat, n \in S PROVE n + 1 \in S
  <2> SUFFICES ASSUME n + 1 <= Len(h) PROVE Knows(h, n + 1) OBVIOUS
  <2>1. n + 1 \in 1..Len(h) /\ n + 1 - 1 = n /\ n <= Len(h) BY <1>1
  <2>2. Knows(h, n) BY <1>4, <2>1
  <2>3. Tells(h, n, h[n + 1]) BY <1>1, <2>1 DEF Account
  <2>4. Hydrated(h)[n + 1] = Recall(Hydrated(h)[n], h[n + 1]) BY <1>2, <2>1
  <2> QED BY <2>2, <2>3, <2>4, KnowsOneMore
<1>5. \A n \in Nat : n \in S
  <2>1. 0 \in S BY <1>3
  <2> HIDE DEF S
  <2> QED BY <1>4, <2>1, Induction
<1>6. Knows(h, Len(h)) BY <1>1, <1>5
<1> QED BY <1>6 DEF Knows, ReadsOf

(* There is always a todo list, if only the empty one.                     *)
LEMMA SomeList ==
  ASSUME NEW h
  PROVE  \A n \in Nat : \E l : TodosAre(h, n, l)
<1> DEFINE S == {n \in Nat : \E l : TodosAre(h, n, l)}
<1>1. 0 \in S
  <2>1. Listed(h, 0) = {} BY DEF Listed
  <2> QED BY <2>1 DEF TodosAre
<1>2. ASSUME NEW n \in Nat, n \in S PROVE n + 1 \in S
  <2>1. PICK l : TodosAre(h, n, l) BY <1>2
  <2>2. \E m : TodosAre(h, n + 1, m)
    <3>1. CASE h[n + 1].type = "result" /\ h[n + 1].ok /\ h[n + 1].text.kind = "todos"
      <4>1. \A m : TodosAre(h, n + 1, m) <=> m = h[n + 1].text.list BY <3>1, TodosAfter
      <4> QED BY <4>1
    <3>2. CASE ~(h[n + 1].type = "result" /\ h[n + 1].ok /\ h[n + 1].text.kind = "todos")
      <4>1. \A m : TodosAre(h, n + 1, m) <=> TodosAre(h, n, m) BY <3>2, TodosAfter
      <4> QED BY <2>1, <4>1
    <3> QED BY <3>1, <3>2
  <2> QED BY <2>2
<1>3. \A n \in Nat : n \in S
  <2> HIDE DEF S
  <2> QED BY <1>1, <1>2, Induction
<1> QED BY <1>3

(* The state: the call at work, and what its executor has just shown or    *)
(* listed and not yet said.                                                *)
JustRead(k) ==
  /\ call.at = "done" /\ call.ok /\ call.text.kind = "text"
  /\ \E c : Waits(said, Len(said), c) /\ KeyOf(c) = k
JustListed == call.at = "done" /\ call.ok /\ call.text.kind = "todos"
InHand(c) ==
  /\ call.at = "begun" => call.of = c
  /\ call.at = "done" /\ call.ok => Fitting(said, Len(said), c, call.text)
Accounted ==
  /\ Account(said)
  /\ \A e : doubt = <<e>> /\ e.type # "question" => Tells(said, Len(said), e)
AtHand == call = Quiet \/ \E c \in ToolCalls : Waits(said, Len(said), c) /\ InHand(c)
Memory ==
  task = "live" =>
    /\ DOMAIN reads = Keys
    /\ \A k \in Keys : IF JustRead(k) THEN reads[k] = call.text
                       ELSE Newest(said, Len(said), k, reads[k])
    /\ IF JustListed THEN todos = call.text.list ELSE TodosAre(said, Len(said), todos)
MemoryInv == GrantsInv /\ Accounted /\ AtHand /\ Memory

(* The invariant holds at first.                                           *)
LEMMA MemoryStarts == ToolsInit => Accounted /\ AtHand /\ Memory
<1> SUFFICES ASSUME ToolsInit PROVE Accounted /\ AtHand /\ Memory OBVIOUS
<1>1. said = <<>> /\ doubt = <<>> /\ call = Quiet /\ reads = ReadsOf(<<>>) /\ todos = <<>>
  BY DEF ToolsInit
<1>2. Sequential(<<>>) /\ DOMAIN <<>> = {} /\ Len(<<>>) = 0
  <2>1. <<>> \in Seq({}) /\ DOMAIN <<>> = {} /\ Len(<<>>) = 0 OBVIOUS
  <2> QED BY <2>1 DEF Sequential
<1>3. Account(<<>>) BY <1>2 DEF Account
<1>4. \A e : <<>> # <<e>> OBVIOUS
<1>5. ~JustListed /\ \A k : ~JustRead(k) BY <1>1 DEF JustListed, JustRead, Quiet
<1>6. TodosAre(<<>>, 0, <<>>)
  <2>1. Listed(<<>>, 0) = {} BY DEF Listed
  <2> QED BY <2>1 DEF TodosAre
<1>7. DOMAIN reads = Keys /\ \A k \in Keys : Newest(said, Len(said), k, reads[k])
  BY <1>1, <1>2, <1>3, RunKnows
<1> QED BY <1>1, <1>2, <1>3, <1>4, <1>5, <1>6, <1>7 DEF Accounted, AtHand, Memory

(* The call goes on, or has a result that shows and lists nothing.         *)
LEMMA MemoryGoesOn ==
  ASSUME MemoryInv, UNCHANGED <<said, doubt, reads, todos>>, task = "live",
         call # Quiet, call.at # "done", call'.at # "begun",
         call'.at = "done" /\ call'.ok => call'.text.kind \notin {"text", "same", "todos"}
  PROVE  (Accounted /\ AtHand /\ Memory)'
<1>1. Accounted' BY DEF MemoryInv, Accounted
<1>2. PICK c \in ToolCalls : Waits(said, Len(said), c) /\ InHand(c) BY DEF MemoryInv, AtHand
<1>3. InHand(c)' BY DEF InHand, Fitting
<1>4. AtHand' BY <1>2, <1>3 DEF AtHand
<1>5. ~JustListed /\ ~JustListed' /\ \A k : ~JustRead(k) /\ ~JustRead(k)'
  BY DEF JustListed, JustRead
<1>6. Memory' BY <1>5 DEF MemoryInv, Memory
<1> QED BY <1>1, <1>4, <1>6

(* An entry whose append failed is in doubt, and the run is over.          *)
LEMMA MemoryFails ==
  ASSUME MemoryInv, NEW e, e.type # "question" => Tells(said, Len(said), e), AppendFails(e)
  PROVE  (Accounted /\ AtHand /\ Memory)'
<1>1. task' = "broken" /\ call' = Quiet /\ doubt' = <<e>> /\ said' = said BY DEF AppendFails
<1>2. \A d : doubt' = <<d>> => d = e BY <1>1
<1> QED BY <1>1, <1>2 DEF MemoryInv, Accounted, AtHand, Memory

(* An entry is said.                                                       *)
LEMMA MemorySays ==
  ASSUME MemoryInv, NEW e, said' = Append(said, e), Tells(said, Len(said), e),
         doubt = <<>>, doubt' = <<>>
  PROVE  /\ Accounted' /\ Len(said) \in Nat /\ Len(said') = Len(said) + 1 /\ said'[Len(said) + 1] = e
         /\ \A c : Waits(said', Len(said), c) <=> Waits(said, Len(said), c)
         /\ \A k, t : Newest(said', Len(said), k, t) <=> Newest(said, Len(said), k, t)
         /\ \A l : TodosAre(said', Len(said), l) <=> TodosAre(said, Len(said), l)
<1>1. Sequential(said) BY DEF MemoryInv, GrantsInv, Recorded
<1>2. /\ Len(said) \in Nat /\ Len(said') = Len(said) + 1 /\ said'[Len(said) + 1] = e
      /\ \A i \in 1..Len(said) : said'[i] = said[i]
  BY <1>1, Appended
<1>3. Account(said') BY <1>1, AccountGrows DEF MemoryInv, Accounted
<1>4. \A d : <<>> # <<d>> OBVIOUS
<1>5. Accounted' BY <1>3, <1>4 DEF Accounted
<1> QED BY <1>2, <1>5, SamePrefix

(* A call, its result and the answer of the user are said in that order.   *)
LEMMA MemoryCalls ==
  ASSUME MemoryInv, (\E c \in ToolCalls : Begin(c)) \/ Commit \/ (\E allow \in BOOLEAN : Respond(allow))
  PROVE  (Accounted /\ AtHand /\ Memory)'
<1> DEFINE n == Len(said)
<1>1. ASSUME task = "live" PROVE doubt = <<>> BY <1>1 DEF MemoryInv, GrantsInv, Recorded
<1>2. ASSUME NEW c \in ToolCalls, Begin(c) PROVE (Accounted /\ AtHand /\ Memory)'
  <2>1. Tells(said, n, CallEntry(c)) /\ CallEntry(c).type = "call" /\ CallEntry(c).call = c
    BY DEF Tells, CallEntry
  <2>2. CASE AppendFails(CallEntry(c)) BY <2>1, <2>2, MemoryFails
  <2>3. CASE /\ said' = Append(said, CallEntry(c)) /\ call' = [at |-> "begun", of |-> c]
             /\ UNCHANGED <<tree, doubt, task, stopped, executors, granted, wrote>>
    <3>1. task = "live" /\ call = Quiet /\ UNCHANGED <<doubt, task, reads, todos>>
      BY <1>2, <2>3 DEF Begin, executors
    <3>2. /\ Accounted' /\ n \in Nat /\ Len(said') = n + 1 /\ said'[n + 1] = CallEntry(c)
          /\ \A k, t : Newest(said', n, k, t) <=> Newest(said, n, k, t)
          /\ \A l : TodosAre(said', n, l) <=> TodosAre(said, n, l)
      BY <1>1, <2>1, <2>3, <3>1, MemorySays
    <3> HIDE DEF n
    <3>3. Waits(said', n + 1, c) BY <2>1, <3>2, OneMore
    <3>4. InHand(c)' BY <2>3 DEF InHand
    <3>5. AtHand' BY <3>2, <3>3, <3>4 DEF AtHand
    <3>6. ~JustListed /\ ~JustListed' /\ \A k : ~JustRead(k) /\ ~JustRead(k)'
      BY <2>3, <3>1 DEF JustListed, JustRead, Quiet
    <3>7. \A k, t : Newest(said', n + 1, k, t) <=> Newest(said, n, k, t) BY <2>1, <3>2, NewestStays
    <3>8. \A l : TodosAre(said', n + 1, l) <=> TodosAre(said, n, l) BY <2>1, <3>2, TodosAfter
    <3>9. Memory' BY <3>1, <3>2, <3>6, <3>7, <3>8 DEF MemoryInv, Memory, n
    <3> QED BY <3>2, <3>5, <3>9
  <2> QED BY <1>2, <2>2, <2>3 DEF Begin
<1>3. CASE Commit
  <2> DEFINE e == ResultEntry
  <2>1. task = "live" /\ call.at = "done" /\ call # Quiet BY <1>3 DEF Commit, Quiet
  <2>2. e.type = "result" /\ e.ok = call.ok /\ e.text = call.text BY DEF ResultEntry
  <2>3. PICK c \in ToolCalls : Waits(said, n, c) /\ InHand(c) BY <2>1 DEF MemoryInv, AtHand
  <2>4. Tells(said, n, e) BY <2>1, <2>2, <2>3 DEF Tells, InHand
  <2>5. CASE AppendFails(ResultEntry) BY <2>2, <2>4, <2>5, MemoryFails
  <2>6. CASE /\ said' = Append(said, ResultEntry) /\ call' = Quiet
             /\ UNCHANGED <<tree, doubt, task, stopped, executors, granted, wrote>>
    <3>1. UNCHANGED <<doubt, task, reads, todos>> BY <2>6 DEF executors
    <3>2. /\ Accounted' /\ n \in Nat /\ Len(said') = n + 1 /\ said'[n + 1] = e
          /\ \A d : Waits(said', n, d) <=> Waits(said, n, d)
          /\ \A k, t : Newest(said', n, k, t) <=> Newest(said, n, k, t)
          /\ \A l : TodosAre(said', n, l) <=> TodosAre(said, n, l)
      BY <1>1, <2>1, <2>4, <2>6, <3>1, MemorySays
    <3>3. /\ DOMAIN reads = Keys
          /\ \A k \in Keys : IF JustRead(k) THEN reads[k] = call.text ELSE Newest(said, n, k, reads[k])
          /\ IF JustListed THEN todos = call.text.list ELSE TodosAre(said, n, todos)
      BY <2>1 DEF MemoryInv, Memory
    <3>4. \A k : JustRead(k) <=> (call.ok /\ call.text.kind = "text" /\ k = KeyOf(c))
      <4>1. \A d : Waits(said, n, d) => d = c
        <5>1. n \in Nat /\ LastCall(said, n, c) BY <2>3, <3>2, OneMore
        <5> QED BY <5>1, OneMore
      <4> QED BY <2>1, <2>3, <4>1 DEF JustRead
    <3> HIDE DEF n, e
    <3>5. ~JustListed' /\ \A k : ~JustRead(k)' BY <2>6 DEF JustListed, JustRead, Quiet
    <3>6. ASSUME NEW k \in Keys PROVE Newest(said', n + 1, k, reads[k])
      <4>1. CASE call.ok /\ call.text.kind = "text"
        <5>1. /\ Newest(said', n + 1, KeyOf(c), e.text)
              /\ \A j, t : j # KeyOf(c) => (Newest(said', n + 1, j, t) <=> Newest(said', n, j, t))
          BY <2>2, <2>3, <3>2, <4>1, NewestAfter
        <5> QED BY <2>2, <3>2, <3>3, <3>4, <4>1, <5>1
      <4>2. CASE ~(call.ok /\ call.text.kind = "text")
        <5>1. \A j, t : Newest(said', n + 1, j, t) <=> Newest(said', n, j, t)
          BY <2>2, <3>2, <4>2, NewestStays
        <5> QED BY <3>2, <3>3, <3>4, <4>2, <5>1
      <4> QED BY <4>1, <4>2
    <3>7. TodosAre(said', n + 1, todos)
      <4>1. CASE call.ok /\ call.text.kind = "todos"
        <5>1. \A l : TodosAre(said', n + 1, l) <=> l = e.text.list BY <2>2, <3>2, <4>1, TodosAfter
        <5> QED BY <2>1, <2>2, <3>3, <4>1, <5>1 DEF JustListed
      <4>2. CASE ~(call.ok /\ call.text.kind = "todos")
        <5>1. \A l : TodosAre(said', n + 1, l) <=> TodosAre(said', n, l) BY <2>2, <3>2, <4>2, TodosAfter
        <5> QED BY <3>2, <3>3, <4>2, <5>1 DEF JustListed
      <4> QED BY <4>1, <4>2
    <3>8. Memory' BY <3>1, <3>2, <3>3, <3>5, <3>6, <3>7 DEF Memory
    <3> QED BY <2>6, <3>2, <3>8 DEF AtHand
  <2> QED BY <1>3, <2>5, <2>6 DEF Commit
<1>4. ASSUME NEW allow \in BOOLEAN, Respond(allow) PROVE (Accounted /\ AtHand /\ Memory)'
  <2> DEFINE e == [type |-> "answer", path |-> call.path, allow |-> allow]
  <2>1. task = "live" /\ call.at = "asking" /\ call # Quiet BY <1>4 DEF Respond, Quiet
  <2>2. e.type = "answer" OBVIOUS
  <2>3. \/ AppendFails(e)
        \/ /\ said' = Append(said, e) /\ call' = [at |-> "answered", allow |-> allow]
           /\ UNCHANGED <<tree, doubt, task, stopped, executors, wrote>>
    BY <1>4 DEF Respond
  <2> HIDE DEF e
  <2>4. PICK c \in ToolCalls : Waits(said, n, c) BY <2>1 DEF MemoryInv, AtHand
  <2>5. Tells(said, n, e) BY <2>2, <2>4 DEF Tells
  <2>6. CASE AppendFails(e) BY <2>5, <2>6, MemoryFails
  <2>7. CASE /\ said' = Append(said, e) /\ call' = [at |-> "answered", allow |-> allow]
             /\ UNCHANGED <<tree, doubt, task, stopped, executors, wrote>>
    <3>1. UNCHANGED <<doubt, task, reads, todos>> BY <2>7 DEF executors
    <3>2. /\ Accounted' /\ n \in Nat /\ Len(said') = n + 1 /\ said'[n + 1] = e
          /\ \A d : Waits(said', n, d) <=> Waits(said, n, d)
          /\ \A k, t : Newest(said', n, k, t) <=> Newest(said, n, k, t)
          /\ \A l : TodosAre(said', n, l) <=> TodosAre(said, n, l)
      BY <1>1, <2>1, <2>5, <2>7, <3>1, MemorySays
    <3>3. ~JustListed /\ ~JustListed' /\ \A k : ~JustRead(k) /\ ~JustRead(k)'
      BY <2>1, <2>7 DEF JustListed, JustRead
    <3>4. /\ DOMAIN reads = Keys /\ TodosAre(said, n, todos)
          /\ \A k \in Keys : Newest(said, n, k, reads[k])
      BY <2>1, <3>3 DEF MemoryInv, Memory
    <3> HIDE DEF n
    <3>5. Waits(said', n + 1, c) BY <2>2, <2>4, <3>2, OneMore
    <3>6. AtHand' BY <2>7, <3>2, <3>5 DEF AtHand, InHand
    <3>7. \A k, t : Newest(said', n + 1, k, t) <=> Newest(said', n, k, t) BY <2>2, <3>2, NewestStays
    <3>8. \A l : TodosAre(said', n + 1, l) <=> TodosAre(said', n, l) BY <2>2, <3>2, TodosAfter
    <3>9. Memory' BY <3>1, <3>2, <3>3, <3>4, <3>7, <3>8 DEF Memory
    <3> QED BY <3>2, <3>6, <3>9
  <2> QED BY <2>3, <2>6, <2>7
<1> QED BY <1>2, <1>3, <1>4

(* The tools: what a Read shows is remembered as its newest, and what it   *)
(* says to be unchanged is what it remembers.                              *)
LEMMA MemoryTools ==
  ASSUME MemoryInv, Read \/ CheckWrite \/ CheckEdit \/ WriteOut \/ TodoWrite
  PROVE  (Accounted /\ AtHand /\ Memory)'
<1> DEFINE n == Len(said)
<1>1. ASSUME task = "live", call.at \in {"begun", "writing"}, UNCHANGED <<reads, todos>>,
             \/ Settle(Failed)
             \/ \E ok, text : /\ text.kind \notin {"text", "same", "todos"}
                              /\ Settle(Result(ok, text))
             \/ \E path, text : Settle([at |-> "writing", path |-> path, text |-> text])
      PROVE  (Accounted /\ AtHand /\ Memory)'
  <2>1. UNCHANGED <<said, doubt, task>> /\ call # Quiet BY <1>1 DEF Settle, Quiet
  <2>2. call'.at # "begun" /\ (call'.at = "done" /\ call'.ok => call'.text.kind \notin {"text", "same", "todos"})
    <3>1. CASE Settle(Failed) BY <3>1 DEF Settle, Failed, Result
    <3>2. ASSUME NEW ok, NEW text, text.kind \notin {"text", "same", "todos"}, Settle(Result(ok, text))
          PROVE  call'.at = "done" /\ call'.text = text
      BY <3>2 DEF Settle, Result
    <3>3. ASSUME NEW path, NEW text, Settle([at |-> "writing", path |-> path, text |-> text])
          PROVE  call'.at = "writing"
      BY <3>3 DEF Settle
    <3> QED BY <1>1, <3>1, <3>2, <3>3
  <2> QED BY <1>1, <2>1, <2>2, MemoryGoesOn
<1>2. CASE Read
  <2>1. /\ task = "live" /\ call.at = "begun" /\ call # Quiet /\ call.of.name = "Read"
        /\ UNCHANGED todos
    BY <1>2 DEF Read, Executing, Quiet
  <2>2. PICK c \in ToolCalls : Waits(said, n, c) /\ c = call.of
    BY <2>1 DEF MemoryInv, AtHand, InHand
  <2> DEFINE k == KeyOf(c)
  <2>3. PICK text : /\ text.kind = "text"
                    /\ \/ /\ Settle(Result(TRUE, [kind |-> "missing"])) \/ Settle(Failed)
                          /\ UNCHANGED reads
                       \/ /\ reads[k] = text /\ UNCHANGED reads
                          /\ Settle(Result(TRUE, [kind |-> "same", is |-> text]))
                       \/ Settle(Result(TRUE, text)) /\ reads' = [reads EXCEPT ![k] = text]
    <3> DEFINE t == Excerpt(tree[c.path], c.offset, c.limit)
    <3>1. t.kind = "text" BY DEF Excerpt
    <3>2. \/ /\ Settle(Result(TRUE, [kind |-> "missing"])) \/ Settle(Failed)
             /\ UNCHANGED reads
          \/ /\ reads[k] = t /\ UNCHANGED reads
             /\ Settle(Result(TRUE, [kind |-> "same", is |-> t]))
          \/ Settle(Result(TRUE, t)) /\ reads' = [reads EXCEPT ![k] = t]
      BY <1>2, <2>2 DEF Read, ReadKey
    <3> HIDE DEF t
    <3> QED BY <3>1, <3>2
  <2>5. k \in Keys BY <2>1, <2>2 DEF Keys, KeyOf
  <2>6. n \in Nat BY Appended DEF MemoryInv, GrantsInv, Recorded
  <2>7. \A d : Waits(said, n, d) => d = c
    <3> HIDE DEF n
    <3>1. LastCall(said, n, c) BY <2>2, <2>6, OneMore
    <3> QED BY <2>6, <3>1, OneMore
  <2>8. /\ DOMAIN reads = Keys /\ TodosAre(said, n, todos)
        /\ \A j \in Keys : Newest(said, n, j, reads[j])
    BY <2>1 DEF MemoryInv, Memory, JustRead, JustListed
  <2> HIDE DEF k
  <2>9. CASE (Settle(Result(TRUE, [kind |-> "missing"])) \/ Settle(Failed)) /\ UNCHANGED reads
    <3>1. [kind |-> "missing"].kind = "missing" OBVIOUS
    <3>2. [kind |-> "missing"].kind \notin {"text", "same", "todos"} BY <3>1
    <3> QED BY <1>1, <2>1, <2>9, <3>2
  <2>10. CASE /\ reads[k] = text /\ UNCHANGED reads
              /\ Settle(Result(TRUE, [kind |-> "same", is |-> text]))
    <3>1. /\ UNCHANGED <<said, doubt, task>>
          /\ call'.at = "done" /\ call'.text.kind = "same" /\ call'.text.is = text
      BY <2>10 DEF Settle, Result
    <3>2. Newest(said, n, KeyOf(c), text) BY <2>5, <2>8, <2>10 DEF k
    <3>3. Fitting(said, n, c, call'.text) BY <2>1, <2>2, <2>3, <3>1, <3>2 DEF Fitting
    <3>4. InHand(c)' BY <3>1, <3>3 DEF InHand
    <3>5. AtHand' BY <2>2, <3>1, <3>4 DEF AtHand
    <3>6. Accounted' BY <3>1 DEF MemoryInv, Accounted
    <3>7. ~JustListed' /\ \A j : ~JustRead(j)' BY <3>1 DEF JustListed, JustRead
    <3>8. Memory' BY <2>1, <2>8, <2>10, <3>1, <3>7 DEF Memory
    <3> QED BY <3>5, <3>6, <3>8
  <2>11. CASE Settle(Result(TRUE, text)) /\ reads' = [reads EXCEPT ![k] = text]
    <3>1. UNCHANGED <<said, doubt, task>> /\ call'.at = "done" /\ call'.ok = TRUE /\ call'.text = text
      BY <2>11 DEF Settle, Result
    <3>2. Fitting(said, n, c, call'.text) BY <2>1, <2>2, <2>3, <3>1 DEF Fitting
    <3>3. InHand(c)' BY <3>1, <3>2 DEF InHand
    <3>4. AtHand' BY <2>2, <3>1, <3>3 DEF AtHand
    <3>5. Accounted' BY <3>1 DEF MemoryInv, Accounted
    <3>6. ~JustListed' /\ \A j : JustRead(j)' <=> j = k
      BY <2>2, <2>3, <2>7, <3>1 DEF JustListed, JustRead, k
    <3>7. Memory' BY <2>1, <2>5, <2>8, <2>11, <3>1, <3>6 DEF Memory
    <3> QED BY <3>4, <3>5, <3>7
  <2> QED BY <2>3, <2>9, <2>10, <2>11
<1>3. CASE CheckWrite \/ CheckEdit
  <2>1. /\ task = "live" /\ call.at = "begun" /\ UNCHANGED <<reads, todos>>
        /\ Settle(Failed) \/ \E path, text : Settle([at |-> "writing", path |-> path, text |-> text])
    BY <1>3 DEF CheckWrite, CheckEdit, Executing, executors
  <2> QED BY <1>1, <2>1
<1>4. CASE WriteOut
  <2>1. /\ task = "live" /\ call.at = "writing" /\ UNCHANGED <<reads, todos>>
        /\ Settle(Failed) \/ Settle(Result(TRUE, Nothing))
    BY <1>4 DEF WriteOut, executors
  <2>2. Nothing.kind \notin {"text", "same", "todos"} BY DEF Nothing
  <2> QED BY <1>1, <2>1, <2>2
<1>5. CASE TodoWrite
  <2>1. /\ task = "live" /\ call.at = "begun" /\ call # Quiet /\ UNCHANGED reads
        /\ \/ /\ todos' = Merged(todos, call.of)
              /\ Settle(Result(TRUE, [kind |-> "todos", list |-> todos']))
           \/ UNCHANGED todos /\ Settle(Failed)
    <3>1. task = "live" /\ call.at = "begun" BY <1>5 DEF TodoWrite, Executing
    <3>2. call # Quiet BY <3>1 DEF Quiet
    <3>3. UNCHANGED reads BY <1>5 DEF TodoWrite
    <3>4. \/ /\ todos' = Merged(todos, call.of)
             /\ Settle(Result(TRUE, [kind |-> "todos", list |-> todos']))
          \/ UNCHANGED todos /\ Settle(Failed)
      BY <1>5 DEF TodoWrite
    <3> QED BY <3>1, <3>2, <3>3, <3>4
  <2>2. CASE UNCHANGED todos /\ Settle(Failed) BY <1>1, <2>1, <2>2
  <2>3. CASE /\ todos' = Merged(todos, call.of)
             /\ Settle(Result(TRUE, [kind |-> "todos", list |-> todos']))
    <3>1. /\ UNCHANGED <<said, doubt, task>>
          /\ call'.at = "done" /\ call'.ok = TRUE /\ call'.text.kind = "todos" /\ call'.text.list = todos'
      BY <2>3 DEF Settle, Result
    <3>2. /\ DOMAIN reads = Keys /\ TodosAre(said, n, todos)
          /\ \A j \in Keys : Newest(said, n, j, reads[j])
      BY <2>1 DEF MemoryInv, Memory, JustRead, JustListed
    <3>3. PICK c \in ToolCalls : Waits(said, n, c) /\ call.of = c BY <2>1 DEF MemoryInv, AtHand, InHand
    <3>4. n \in Nat BY Appended DEF MemoryInv, GrantsInv, Recorded
    <3> HIDE DEF n
    <3>5. ASSUME NEW l, TodosAre(said, n, l) PROVE l = todos
      <4>1. Listed(said, n) \subseteq Nat BY DEF Listed
      <4>2. CASE Listed(said, n) = {} BY <3>2, <3>5, <4>2 DEF TodosAre
      <4>3. CASE Listed(said, n) # {}
        <5>1. PICK i \in Listed(said, n) : l = said[i].text.list /\ \A j \in Listed(said, n) : j <= i
          BY <3>5, <4>3 DEF TodosAre
        <5>2. PICK m \in Listed(said, n) : todos = said[m].text.list /\ \A j \in Listed(said, n) : j <= m
          BY <3>2, <4>3 DEF TodosAre
        <5>3. i = m BY <4>1, <5>1, <5>2
        <5> QED BY <5>1, <5>2, <5>3
      <4> QED BY <4>2, <4>3
    <3>6. InHand(c)' BY <2>3, <3>1, <3>3, <3>5 DEF InHand, Fitting, n
    <3>7. AtHand' BY <3>1, <3>3, <3>6 DEF AtHand, n
    <3>8. Accounted' BY <3>1 DEF MemoryInv, Accounted
    <3>9. JustListed' /\ \A j : ~JustRead(j)' BY <3>1 DEF JustListed, JustRead
    <3>10. Memory' BY <2>1, <3>1, <3>2, <3>9 DEF Memory, n
    <3> QED BY <3>7, <3>8, <3>10
  <2> QED BY <2>1, <2>2, <2>3
<1> QED BY <1>2, <1>3, <1>4, <1>5

(* Asking, runs, other programs, and a crash.                              *)
LEMMA MemoryRuns ==
  ASSUME MemoryInv,
         \/ AskUser \/ AskUserFails \/ TakeAnswer \/ Expire \/ Skip
         \/ StartRun \/ EndRun \/ StopRun \/ Crash
         \/ \E p \in Inside, content \in Texts \cup {NoFile} : OtherWrites(p, content)
  PROVE  (Accounted /\ AtHand /\ Memory)'
<1> DEFINE n == Len(said)
<1>1. ASSUME AppendFails([type |-> "question"]) PROVE (Accounted /\ AtHand /\ Memory)'
  <2> DEFINE e == [type |-> "question"]
  <2>1. e.type = "question" OBVIOUS
  <2> HIDE DEF e
  <2>2. AppendFails(e) BY <1>1 DEF e
  <2> QED BY <2>1, <2>2, MemoryFails
<1>2. CASE AskUser \/ AskUserFails \/ TakeAnswer \/ Expire \/ Skip
  <2>1. CASE AppendFails([type |-> "question"]) BY <1>1, <2>1
  <2>2. CASE /\ task = "live" /\ call.at \in {"begun", "asking", "answered"} /\ UNCHANGED <<reads, todos>>
             /\ \/ Settle(Failed) \/ Settle([at |-> "asking", path |-> call.of.path])
                \/ Settle(Result(TRUE, [kind |-> "permission", allow |-> call.allow]))
    <3>0. call # Quiet
      <4>1. Quiet.at = "idle" BY DEF Quiet
      <4> QED BY <2>2, <4>1
    <3>1. UNCHANGED <<said, doubt, task>> /\ call # Quiet BY <2>2, <3>0 DEF Settle
    <3>2. call'.at # "begun" /\ (call'.at = "done" /\ call'.ok => call'.text.kind = "permission")
      BY <2>2 DEF Settle, Failed, Result
    <3>3. call'.at = "done" /\ call'.ok => call'.text.kind \notin {"text", "same", "todos"} BY <3>2
    <3> QED BY <2>2, <3>1, <3>2, <3>3, MemoryGoesOn
  <2>3. CASE AskUser BY <2>2, <2>3 DEF AskUser, Executing, executors
  <2>4. CASE AskUserFails BY <2>1, <2>4 DEF AskUserFails
  <2>5. CASE TakeAnswer BY <2>2, <2>5 DEF TakeAnswer
  <2>6. CASE Expire BY <2>1, <2>2, <2>6 DEF Expire, executors
  <2>7. CASE Skip BY <2>1, <2>2, <2>7 DEF Skip, executors
  <2> QED BY <1>2, <2>3, <2>4, <2>5, <2>6, <2>7
<1>3. CASE StartRun
  <2>1. /\ task = "over" /\ UNCHANGED <<said, doubt, call>>
        /\ reads' = ReadsOf(said) /\ todos' = TodosOf(said)
    BY <1>3 DEF StartRun
  <2>2. call = Quiet /\ Sequential(said) /\ n \in Nat BY <2>1, Appended DEF MemoryInv, GrantsInv, Recorded
  <2>3. DOMAIN reads' = Keys /\ \A k \in Keys : Newest(said, n, k, reads'[k])
    BY <2>1, <2>2, RunKnows DEF MemoryInv, Accounted
  <2>4. TodosAre(said, n, todos')
    <3>1. PICK l : TodosAre(said, n, l) BY <2>2, SomeList
    <3> QED BY <2>1, <2>2, <3>1, OneList
  <2>5. ~JustListed' /\ \A k : ~JustRead(k)' BY <2>1, <2>2 DEF JustListed, JustRead, Quiet
  <2>6. Memory' BY <2>1, <2>3, <2>4, <2>5 DEF Memory
  <2>7. Accounted' BY <2>1 DEF MemoryInv, Accounted
  <2>8. AtHand' BY <2>1, <2>2 DEF AtHand
  <2> QED BY <2>6, <2>7, <2>8
<1>4. CASE EndRun \/ Crash
  <2>1. /\ task' # "live" /\ call' = Quiet /\ UNCHANGED <<said, doubt>> BY <1>4 DEF EndRun, Crash
  <2> QED BY <2>1 DEF MemoryInv, Accounted, AtHand, Memory
<1>5. CASE StopRun \/ \E p \in Inside, content \in Texts \cup {NoFile} : OtherWrites(p, content)
  <2>1. UNCHANGED <<said, doubt, task, call, reads, todos>> BY <1>5 DEF StopRun, OtherWrites, executors
  <2>2. Accounted' BY <2>1 DEF MemoryInv, Accounted
  <2>3. \A c : InHand(c)' <=> InHand(c) BY <2>1 DEF InHand, Fitting
  <2>4. AtHand' BY <2>1, <2>3 DEF MemoryInv, AtHand
  <2>5. JustListed' <=> JustListed BY <2>1 DEF JustListed
  <2>6. \A k : JustRead(k)' <=> JustRead(k) BY <2>1 DEF JustRead
  <2>7. Memory' BY <2>1, <2>5, <2>6 DEF MemoryInv, Memory
  <2> QED BY <2>2, <2>4, <2>7
<1> QED BY <1>2, <1>3, <1>4, <1>5

(* Recovery: the entry in doubt is found or not, and a call that was cut   *)
(* short is closed.                                                        *)
LEMMA MemoryRecovers ==
  ASSUME MemoryInv, RecoverSession
  PROVE  (Accounted /\ AtHand /\ Memory)'
<1>1. /\ task = "broken" /\ call = Quiet /\ doubt' = <<>> /\ UNCHANGED call /\ Sequential(said)
  BY DEF RecoverSession, MemoryInv, GrantsInv, Recorded
<1>2. PICK h : /\ Sequential(h) /\ Account(h)
               /\ \/ said' = h /\ task' = "stuck"
                  \/ Recovered(h)
  <2>1. PICK found \in {<<>>, doubt} :
          LET h == said \o found
          IN /\ \A i \in DOMAIN found : found[i].type # "question"
             /\ (said' = h /\ task' = "stuck") \/ Recovered(h)
    BY DEF RecoverSession
  <2>2. CASE found = <<>>
    <3>1. PICK T : said \in Seq(T) BY <1>1 DEF Sequential
    <3>2. said \o found = said BY <2>2, <3>1
    <3> QED BY <1>1, <2>1, <3>2 DEF MemoryInv, Accounted
  <2>3. CASE found # <<>>
    <3>1. PICK e : found = <<e>> BY <2>3 DEF MemoryInv, GrantsInv, Recorded
    <3>2. e.type # "question"
      <4>1. 1 \in DOMAIN <<e>> /\ <<e>>[1] = e OBVIOUS
      <4> QED BY <2>1, <3>1, <4>1
    <3>3. Tells(said, Len(said), e) BY <2>3, <3>1, <3>2 DEF MemoryInv, Accounted
    <3>4. said \o found = Append(said, e) BY <1>1, <3>1, Appended
    <3>5. Sequential(Append(said, e)) /\ Account(Append(said, e))
      BY <1>1, <3>3, Appended, AccountGrows DEF MemoryInv, Accounted
    <3> QED BY <2>1, <3>4, <3>5
  <2> QED BY <2>2, <2>3
<1>3. task' # "live" /\ Account(said')
  <2>1. CASE said' = h BY <1>2, <2>1 DEF Recovered
  <2>2. CASE said' # h
    <3> DEFINE n == Len(h)
               e == Closing(h)
    <3>1. said' = Append(h, e) /\ task' = "over" /\ h # <<>> BY <1>2, <2>2 DEF Recovered, Unfinished
    <3>2. n \in Nat /\ DOMAIN h = 1..n /\ n # 0 /\ n \in 1..n
      <4>1. PICK T : h \in Seq(T) BY <1>2 DEF Sequential
      <4> QED BY <3>1, <4>1
    <3>3. CASE h[n].type = "answer"
      <4>1. e.type = "result" /\ e.text.kind = "permission" BY <3>3 DEF Closing
      <4>2. PICK m \in Nat : n = m + 1
        <5>1. n - 1 \in Nat /\ n = (n - 1) + 1 BY <3>2
        <5> QED BY <5>1
      <4>3. h[m + 1].type = "answer" /\ Tells(h, m, h[m + 1])
        <5>1. n - 1 = m BY <4>2
        <5> QED BY <1>2, <3>2, <3>3, <4>2, <5>1 DEF Account
      <4>4. PICK c : Waits(h, m, c) BY <4>3 DEF Tells
      <4>5. Waits(h, m + 1, c) BY <4>3, <4>4, OneMore
      <4> HIDE DEF e
      <4>6. Tells(h, n, e) BY <4>1, <4>2, <4>5 DEF Tells, Fitting
      <4> QED BY <1>2, <3>1, <4>6, AccountGrows
    <3>4. CASE h[n].type # "answer"
      <4>1. e.type = "result" /\ e.ok = FALSE BY <3>4 DEF Closing
      <4> HIDE DEF e
      <4>2. Tells(h, n, e) BY <4>1 DEF Tells
      <4> QED BY <1>2, <3>1, <4>2, AccountGrows
    <3> QED BY <3>3, <3>4
  <2> QED BY <2>1, <2>2
<1>4. \A e : <<>> # <<e>> OBVIOUS
<1> QED BY <1>1, <1>3, <1>4 DEF Accounted, AtHand, Memory

(* The invariant says what the run checks.                                 *)
LEMMA MemoryMeant == MemoryInv => UnchangedIsShown /\ TodosFollow
<1> SUFFICES ASSUME MemoryInv PROVE UnchangedIsShown /\ TodosFollow OBVIOUS
<1>1. Sequential(said) /\ Account(said) BY DEF MemoryInv, GrantsInv, Recorded, Accounted
<1>2. Len(said) \in Nat /\ DOMAIN said = 1..Len(said) BY <1>1, Appended
<1>3. ASSUME NEW i \in Answered(said)
      PROVE  /\ i \in 1..Len(said) /\ i - 1 \in Nat /\ said[i].type = "result" /\ said[i].ok
             /\ \E c : /\ Waits(said, i - 1, c) /\ LastCall(said, i - 1, c) /\ CallAt(said, i) = c
                       /\ Fitting(said, i - 1, c, said[i].text)
  <2>1. i \in 1..Len(said) /\ said[i].type = "result" /\ said[i].ok BY <1>2 DEF Answered
  <2>2. i - 1 \in Nat BY <1>2, <2>1
  <2>3. PICK c : Waits(said, i - 1, c) /\ Fitting(said, i - 1, c, said[i].text)
    BY <1>1, <1>2, <2>1 DEF Account, Tells
  <2>4. LastCall(said, i - 1, c) BY <2>2, <2>3, OneMore
  <2> QED BY <2>1, <2>2, <2>3, <2>4, TheCall
<1>4. ASSUME NEW i \in Answered(said), said[i].text.kind = "same"
      PROVE  LET full == FullBefore(said, i)
             IN (\A j \in full : ~SaysUnchanged(said[j].text))
                => \E j \in full : said[j].text = said[i].text.is /\ \A k \in full : k <= j
  <2>1. PICK c : CallAt(said, i) = c /\ Fitting(said, i - 1, c, said[i].text) BY <1>3
  <2> DEFINE full == FullBefore(said, i)
             shown == Shown(said, i - 1, KeyOf(c))
  <2>2. ASSUME NEW j \in Answered(said), j < i
        PROVE  KeyOf(CallAt(said, j)) = KeyOf(c) <=> \E d : LastCall(said, j - 1, d) /\ KeyOf(d) = KeyOf(c)
    <3>1. PICK b : Waits(said, j - 1, b) /\ LastCall(said, j - 1, b) /\ CallAt(said, j) = b BY <1>3
    <3>2. j - 1 \in Nat BY <1>3
    <3>3. \A d : LastCall(said, j - 1, d) => d = b BY <3>1, <3>2, OneMore
    <3> QED BY <3>1, <3>3
  <2>3. full = shown
    <3>1. \A j \in Answered(said) : j < i <=> j \in 1..(i - 1)
      <4>1. \A j \in Answered(said) : j \in 1..Len(said) BY <1>3
      <4> QED BY <1>2, <4>1
    <3>2. 1..(i - 1) \subseteq DOMAIN said
      <4>1. i \in 1..Len(said) BY <1>3
      <4> QED BY <1>2, <4>1
    <3>3. \A j \in 1..(i - 1) : j \in Answered(said) <=> said[j].type = "result" /\ said[j].ok
      BY <3>2 DEF Answered
    <3>4. ASSUME NEW j PROVE j \in full <=> j \in shown
      <4>1. j \in full <=> /\ j \in Answered(said) /\ j < i /\ said[j].text.kind = "text"
                          /\ KeyOf(CallAt(said, j)) = KeyOf(c)
        BY <2>1 DEF FullBefore
      <4>2. j \in shown <=> /\ j \in 1..(i - 1) /\ said[j].type = "result" /\ said[j].ok
                           /\ said[j].text.kind = "text"
                           /\ \E d : LastCall(said, j - 1, d) /\ KeyOf(d) = KeyOf(c)
        BY DEF Shown
      <4> HIDE DEF full, shown
      <4> QED BY <2>2, <3>1, <3>3, <4>1, <4>2
    <3> HIDE DEF full, shown
    <3> QED BY <3>4
  <2>4. said[i].text.is.kind = "text" /\ Newest(said, i - 1, KeyOf(c), said[i].text.is)
    BY <1>4, <2>1 DEF Fitting
  <2>5. (\A j \in shown : ~SaysUnchanged(said[j].text))
        => \E j \in shown : said[i].text.is = said[j].text /\ \A k \in shown : k <= j
    BY <2>4 DEF Newest, Clean, IsNewest
  <2> HIDE DEF full, shown
  <2>6. (\A j \in full : ~SaysUnchanged(said[j].text))
        => \E j \in full : said[j].text = said[i].text.is /\ \A k \in full : k <= j
    BY <2>3, <2>5
  <2> QED BY <2>6 DEF full
<1>5. ASSUME NEW i \in Answered(said), said[i].text.kind = "todos"
      PROVE  said[i].text.list = Merged(TodosOf(SubSeq(said, 1, i - 1)), CallAt(said, i))
  <2>1. PICK c : CallAt(said, i) = c /\ Fitting(said, i - 1, c, said[i].text) BY <1>3
  <2> DEFINE g == SubSeq(said, 1, i - 1)
  <2>2. i - 1 \in Nat /\ i \in 1..Len(said) BY <1>3
  <2>3. Sequential(g) /\ Len(g) = i - 1 /\ \A j \in 1..(i - 1) : g[j] = said[j]
    <3>1. PICK T : said \in Seq(T) BY <1>1 DEF Sequential
    <3>2. i - 1 \in 0..Len(said) BY <1>2, <2>2
    <3>3. g \in Seq(T) /\ Len(g) = i - 1 /\ \A j \in 1..(i - 1) : g[j] = said[j]
      BY <3>1, <3>2, SubSeqProperties
    <3> QED BY <3>3 DEF Sequential
  <2> HIDE DEF g
  <2>4. PICK l : TodosAre(g, i - 1, l) BY <2>2, SomeList
  <2>5. TodosAre(said, i - 1, l) BY <2>2, <2>3, <2>4, SamePrefix
  <2>6. TodosOf(g) = l BY <2>3, <2>4, OneList
  <2>7. said[i].text.list = Merged(l, c) BY <1>5, <2>1, <2>5 DEF Fitting
  <2> QED BY <2>1, <2>6, <2>7 DEF g
<1>6. ASSUME task = "live", call = Quiet PROVE todos = TodosOf(said)
  <2>1. ~JustListed BY <1>6 DEF JustListed, Quiet
  <2>2. TodosAre(said, Len(said), todos) BY <1>6, <2>1 DEF MemoryInv, Memory
  <2> QED BY <1>1, <2>2, OneList
<1> QED BY <1>4, <1>5, <1>6 DEF UnchangedIsShown, TodosFollow

(* The tools of a session: SessionToolsKept in every reachable state.      *)
THEOREM ToolsRemember == ToolsSpec => []SessionToolsKept
<1>1. MemoryInv /\ [ToolsNext]_toolvars => MemoryInv'
  <2> SUFFICES ASSUME MemoryInv, [ToolsNext]_toolvars PROVE MemoryInv' OBVIOUS
  <2>1. CASE UNCHANGED toolvars
    BY <2>1 DEF toolvars, MemoryInv, GrantsInv, Recorded, Working, Permitted, AtWork,
       Accounted, AtHand, InHand, Memory, JustRead, JustListed
  <2>2. CASE ToolsNext
    <3>1. GrantsInv' BY <2>2, CallsSaid, ToolSteps, AskingSteps, RunSteps, RecoverySteps DEF ToolsNext, MemoryInv
    <3>2. (Accounted /\ AtHand /\ Memory)'
      BY <2>2, MemoryCalls, MemoryTools, MemoryRuns, MemoryRecovers DEF ToolsNext
    <3> QED BY <3>1, <3>2 DEF MemoryInv
  <2> QED BY <2>1, <2>2
<1>2. ToolsInit => MemoryInv BY GrantsStart, MemoryStarts DEF MemoryInv
<1>3. MemoryInv => SessionToolsKept BY GrantsMeant, MemoryMeant DEF MemoryInv, SessionToolsKept
<1> QED BY <1>1, <1>2, <1>3, PTL DEF ToolsSpec

(***************************************************************************)
(* The search tool (xiaowei-agent, tools.rs): ProviderKept, for any        *)
(* providers, keys and number of changes.                                  *)
(***************************************************************************)

(* The task is there from the assembly until the agent is closed, and as   *)
(* long as it is there the agent hears of changes.                         *)
TaskOwned ==
  /\ agent.at \in {"new", "reading", "assembling", "assembled", "active", "closing", "closed", "failed"}
  /\ follower.at \in {"none", "waits", "reads", "creates"}
  /\ follower.at # "none" => agent.at \in {"assembled", "active", "closing"}
  /\ events \in Nat

(* Who read the settings has what they are, or a change is still to come.  *)
Fresh(config) == woken \/ events # 0 \/ ended \/ config = Config(stored)
SettingsFollowed ==
  /\ current = inUse
  /\ agent.at = "assembling" => Fresh(agent.config)
  /\ follower.at = "creates" => Fresh(follower.config)
  /\ follower.at = "waits" => missed \/ Fresh(inUse)

WebInv == TaskOwned /\ SettingsFollowed

(* The invariant holds at first.                                           *)
LEMMA WebStarts == WebInit => WebInv
BY DEF WebInit, WebInv, TaskOwned, SettingsFollowed

(* The settings change, and the task is told.                              *)
LEMMA ChangesTold ==
  ASSUME WebInv, Wake \/ \E next : UpdateSearch(next)
  PROVE  WebInv'
<1> USE DEF WebInv, TaskOwned, SettingsFollowed, Fresh
<1>1. CASE Wake BY <1>1 DEF Wake
<1>2. ASSUME NEW next, UpdateSearch(next) PROVE WebInv'
  <2>1. /\ agent' = agent /\ follower' = follower /\ current' = current /\ inUse' = inUse
        /\ missed' = missed /\ events' \in Nat
        /\ agent.at \in {"reading", "assembling", "assembled", "active", "closing"} => events' # 0
    BY <1>2 DEF UpdateSearch, Subscribed
  <2> QED BY <2>1
<1> QED BY <1>1, <1>2

(* The agent starts, and is cancelled or closed.                           *)
LEMMA AgentSteps ==
  ASSUME WebInv,
         SubscribeFirst \/ FirstRead \/ StartFailed \/ Assemble \/ Activate \/ CancelAgent
         \/ CloseAgent \/ Closed
  PROVE  WebInv'
<1> USE DEF WebInv, TaskOwned, SettingsFollowed, Fresh
<1>1. CASE SubscribeFirst BY <1>1 DEF SubscribeFirst
<1>2. CASE FirstRead BY <1>2 DEF FirstRead
<1>3. CASE StartFailed BY <1>3 DEF StartFailed
<1>4. CASE Assemble BY <1>4 DEF Assemble
<1>5. CASE Activate BY <1>5 DEF Activate
<1>6. CASE CancelAgent BY <1>6 DEF CancelAgent
<1>7. CASE CloseAgent BY <1>7 DEF CloseAgent
<1>8. CASE Closed BY <1>8 DEF Closed
<1> QED BY <1>1, <1>2, <1>3, <1>4, <1>5, <1>6, <1>7, <1>8

(* The task reads and replaces.                                            *)
LEMMA TaskSteps ==
  ASSUME WebInv, TakeWake \/ ReadAgain \/ Replace \/ Leave
  PROVE  WebInv'
<1> USE DEF WebInv, TaskOwned, SettingsFollowed, Fresh, Follow
<1>1. CASE TakeWake BY <1>1 DEF TakeWake
<1>2. CASE ReadAgain BY <1>2 DEF ReadAgain
<1>3. CASE Replace BY <1>3 DEF Replace, Same
<1>4. CASE Leave BY <1>4 DEF Leave
<1> QED BY <1>1, <1>2, <1>3, <1>4

(* A task with nothing left to do has the provider and the key that the    *)
(* settings name, and none is left behind by an agent that is gone,        *)
(* wherever its start was cancelled: ProviderKept in every reachable state. *)
THEOREM SearchFollows == WebSpec => []ProviderKept
<1>1. WebInv /\ [WebNext]_webvars => WebInv'
  <2> SUFFICES ASSUME WebInv, [WebNext]_webvars PROVE WebInv' OBVIOUS
  <2>1. CASE WebNext BY <2>1, ChangesTold, AgentSteps, TaskSteps DEF WebNext
  <2>2. CASE UNCHANGED webvars
    BY <2>2 DEF webvars, WebInv, TaskOwned, SettingsFollowed, Fresh
  <2> QED BY <2>1, <2>2
<1>2. WebInv => ProviderKept
  BY DEF WebInv, TaskOwned, SettingsFollowed, Fresh, ProviderKept, Follows, NothingBehind
<1> QED BY <1>1, <1>2, WebStarts, PTL DEF WebSpec

(***************************************************************************)
(* What a model is told (SystemContext): ContextKept, for any skills,      *)
(* tools and edits, and any length of the history.                         *)
(***************************************************************************)
IsFun(f) == f = [x \in DOMAIN f |-> f[x]]
Formed(c) ==
  /\ c = [instructions |-> c.instructions, tools |-> c.tools]
  /\ IsFun(c.instructions) /\ IsFun(c.tools)

(* A context is neither none nor one that a difference was refused by.     *)
LEMMA NoneIsNoContext ==
  /\ \A c : Formed(c) => c # None /\ c # Inapplicable
  /\ None # Inapplicable
<1>1. DOMAIN None = {"none"} /\ DOMAIN Inapplicable = {"refused"} BY DEF None, Inapplicable
<1>2. ASSUME NEW c, Formed(c) PROVE DOMAIN c = {"instructions", "tools"}
  <2>1. DOMAIN [instructions |-> c.instructions, tools |-> c.tools] = {"instructions", "tools"} OBVIOUS
  <2> QED BY <1>2, <2>1 DEF Formed
<1>3. {"instructions", "tools"} # {"none"} /\ {"instructions", "tools"} # {"refused"} /\ {"none"} # {"refused"}
  OBVIOUS
<1> QED BY <1>1, <1>2, <1>3

(* Two functions without a difference are the same.                        *)
LEMMA NoDifference ==
  ASSUME NEW f, NEW g, IsFun(f), IsFun(g), Differing(f, g) = {}, DOMAIN f \subseteq DOMAIN g
  PROVE  f = g
<1>1. \A x \in DOMAIN g : x \in DOMAIN f /\ f[x] = g[x] BY DEF Differing
<1>2. DOMAIN f = DOMAIN g BY <1>1
<1> QED BY <1>1, <1>2 DEF IsFun

(* The difference planned between two contexts makes the one the other.    *)
LEMMA PlanApplies ==
  ASSUME NEW p, NEW d, p = None \/ Formed(p), Formed(d)
  PROVE  IF Plan(p, d) = None THEN p = d ELSE Apply(Plan(p, d), p) = d
<1> DEFINE u == Plan(p, d)
<1>0. p # Inapplicable /\ d # None BY NoneIsNoContext
<1>1. CASE p = None
  <2>1. u = [kind |-> "baseline", is |-> d] BY <1>1 DEF Plan
  <2>2. u.kind = "baseline" /\ u.is = d BY <2>1
  <2>3. u # None
    <3>1. DOMAIN [kind |-> "baseline", is |-> d] = {"kind", "is"} /\ DOMAIN None = {"none"} BY DEF None
    <3> QED BY <2>1, <3>1
  <2> HIDE DEF u
  <2>4. Apply(u, p) = d BY <1>0, <1>1, <2>2 DEF Apply, ValidUpdate
  <2> QED BY <2>3, <2>4 DEF u
<1>2. CASE p = d
  <2>1. u = None BY <1>0, <1>2 DEF Plan
  <2> QED BY <1>2, <2>1
<1>3. CASE p # None /\ p # d
  <2> DEFINE rules == Differing(p.instructions, d.instructions)
             tools == Differing(p.tools, d.tools)
             gone == DOMAIN p.instructions \ DOMAIN d.instructions
             replaced == Differing(d.tools, p.tools)
  <2>1. /\ Formed(p) /\ IsFun(p.instructions) /\ IsFun(p.tools)
        /\ IsFun(d.instructions) /\ IsFun(d.tools)
    BY <1>3 DEF Formed
  <2>2. u = [kind |-> "delta",
             instructions |-> [x \in rules |-> d.instructions[x]], instructionsRemoved |-> gone,
             toolsAdded |-> [t \in tools |-> d.tools[t]], toolsRemoved |-> replaced]
    BY <1>3 DEF Plan
  <2>3. /\ u.kind = "delta" /\ u.instructionsRemoved = gone /\ u.toolsRemoved = replaced
        /\ u.instructions = [x \in rules |-> d.instructions[x]]
        /\ u.toolsAdded = [t \in tools |-> d.tools[t]]
    BY <2>2
  <2>4. u # None
    <3>1. "kind" \in DOMAIN u BY <2>2
    <3>2. DOMAIN None = {"none"} BY DEF None
    <3> HIDE DEF u
    <3> QED BY <3>1, <3>2
  <2> HIDE DEF u
  <2>5. /\ rules \subseteq DOMAIN d.instructions /\ tools \subseteq DOMAIN d.tools
        /\ replaced \subseteq DOMAIN p.tools
    BY DEF Differing
  <2>6. rules # {} \/ gone # {} \/ tools # {} \/ replaced # {}
    <3> SUFFICES ASSUME rules = {}, gone = {}, tools = {}, replaced = {} PROVE FALSE OBVIOUS
    <3>1. p.instructions = d.instructions BY <2>1, NoDifference
    <3>2. DOMAIN p.tools \subseteq DOMAIN d.tools BY DEF Differing
    <3>3. p.tools = d.tools BY <2>1, <3>2, NoDifference
    <3> QED BY <1>3, <2>1, <3>1, <3>3 DEF Formed
  <2>7. ValidUpdate(u)
    <3>1. DOMAIN u.instructions = rules /\ DOMAIN u.toolsAdded = tools BY <2>3
    <3>2. gone \cap rules = {} BY <2>5
    <3> HIDE DEF rules, gone, tools, replaced
    <3> QED BY <2>3, <2>6, <3>1, <3>2 DEF ValidUpdate
  <2> DEFINE rest == Without(p.tools, replaced)
             next == [instructions |-> Extended(Without(p.instructions, gone), u.instructions),
                      tools |-> Extended(rest, u.toolsAdded)]
  <2>8. Extended(Without(p.instructions, gone), u.instructions) = d.instructions
    <3> DEFINE f == Extended(Without(p.instructions, gone), u.instructions)
    <3>1. DOMAIN f = DOMAIN d.instructions BY <2>3 DEF Extended, Without, Differing
    <3>2. \A x \in DOMAIN d.instructions : f[x] = d.instructions[x] BY <2>3 DEF Extended, Without, Differing
    <3>3. IsFun(f) BY DEF IsFun, Extended
    <3> HIDE DEF f
    <3>4. f = d.instructions BY <2>1, <3>1, <3>2, <3>3 DEF IsFun
    <3> QED BY <3>4 DEF f
  <2>9. Extended(rest, u.toolsAdded) = d.tools /\ DOMAIN u.toolsAdded \cap DOMAIN rest = {}
    <3> DEFINE f == Extended(rest, u.toolsAdded)
    <3>1. DOMAIN f = DOMAIN d.tools BY <2>3 DEF Extended, Without, Differing
    <3>2. \A x \in DOMAIN d.tools : f[x] = d.tools[x] BY <2>3 DEF Extended, Without, Differing
    <3>3. IsFun(f) BY DEF IsFun, Extended
    <3>4. DOMAIN u.toolsAdded \cap DOMAIN rest = {} BY <2>3 DEF Without, Differing
    <3> HIDE DEF f
    <3>5. f = d.tools BY <2>1, <3>1, <3>2, <3>3 DEF IsFun
    <3> QED BY <3>4, <3>5 DEF f
  <2>10. next = d BY <2>8, <2>9 DEF Formed
  <2>11. Delta(u, p) = d
    <3>1. /\ u.instructionsRemoved \subseteq DOMAIN p.instructions
          /\ u.toolsRemoved \subseteq DOMAIN p.tools
      BY <2>3, <2>5
    <3>2. Delta(u, p) = IF /\ u.instructionsRemoved \subseteq DOMAIN p.instructions
                           /\ u.toolsRemoved \subseteq DOMAIN p.tools
                           /\ DOMAIN u.toolsAdded \cap DOMAIN rest = {}
                           /\ next # p
                        THEN next ELSE Inapplicable
      BY <2>3 DEF Delta
    <3> HIDE DEF next, rest
    <3> QED BY <1>3, <2>9, <2>10, <3>1, <3>2
  <2>12. Apply(u, p) = d BY <1>0, <1>3, <2>3, <2>7, <2>11 DEF Apply
  <2> QED BY <2>4, <2>12 DEF u
<1> QED BY <1>1, <1>2, <1>3

(* What the history says, entry by entry.                                  *)
NothingLearned == [context |-> None, names |-> {}]

(* The recursive definition of Learned exists, entry by entry.             *)
LEMMA LearnedSteps ==
  ASSUME NEW h, Len(h) \in Nat
  PROVE  /\ Learned(h)[0] = NothingLearned
         /\ \A i \in 1..Len(h) : Learned(h)[i] = Learn(Learned(h)[i - 1], h[i])
<1> DEFINE D(n) == 0..n
           Sat(f, n) == f = [i \in D(n) |-> IF i = 0 THEN NothingLearned ELSE Learn(f[i - 1], h[i])]
           S == {n \in Nat : n <= Len(h) => \E f : Sat(f, n)}
<1>1. 0 \in S
  <2> DEFINE f == [i \in D(0) |-> NothingLearned]
  <2>1. Sat(f, 0) OBVIOUS
  <2> HIDE DEF Sat
  <2> QED BY <2>1
<1>2. ASSUME NEW n \in Nat, n \in S PROVE n + 1 \in S
  <2> SUFFICES ASSUME n + 1 <= Len(h) PROVE \E f : Sat(f, n + 1) OBVIOUS
  <2>1. PICK f : Sat(f, n) BY <1>2
  <2> DEFINE g == [i \in D(n + 1) |-> IF i = n + 1 THEN Learn(f[n], h[n + 1]) ELSE f[i]]
  <2>2. ASSUME NEW i \in D(n + 1) PROVE g[i] = IF i = 0 THEN NothingLearned ELSE Learn(g[i - 1], h[i])
    <3>1. CASE i = n + 1
      <4>1. i # 0 /\ i - 1 = n /\ n \in D(n + 1) /\ n # n + 1 BY <3>1
      <4>2. g[i] = Learn(f[n], h[i]) BY <3>1
      <4>3. g[n] = f[n] BY <4>1
      <4> QED BY <4>1, <4>2, <4>3
    <3>2. CASE i # n + 1
      <4>1. i \in D(n) /\ (i # 0 => i - 1 \in D(n + 1) /\ i - 1 # n + 1) BY <3>2
      <4>2. g[i] = f[i] /\ (i # 0 => g[i - 1] = f[i - 1]) BY <3>2, <4>1
      <4>3. f[i] = IF i = 0 THEN NothingLearned ELSE Learn(f[i - 1], h[i]) BY <2>1, <4>1
      <4> QED BY <4>2, <4>3
    <3> QED BY <3>1, <3>2
  <2>3. g = [i \in D(n + 1) |-> g[i]] OBVIOUS
  <2> HIDE DEF g
  <2>4. Sat(g, n + 1) BY <2>2, <2>3
  <2> HIDE DEF Sat
  <2> QED BY <2>4
<1>3. \E f : Sat(f, Len(h))
  <2> HIDE DEF Sat
  <2>1. \A n \in Nat : n \in S
    <3> HIDE DEF S
    <3> QED BY <1>1, <1>2, Induction
  <2> QED BY <2>1
<1>4. Sat(Learned(h), Len(h))
  <2>1. Learned(h) = CHOOSE f : Sat(f, Len(h)) BY DEF Learned, NothingLearned
  <2> HIDE DEF Sat
  <2> QED BY <1>3, <2>1
<1> QED BY <1>4

(* A history that goes on says what it said before.                        *)
LEMMA LearnedBefore ==
  ASSUME NEW g, NEW h, Len(g) \in Nat, Len(h) \in Nat, Len(h) <= Len(g),
         \A i \in 1..Len(h) : g[i] = h[i]
  PROVE  \A n \in 0..Len(h) : Learned(g)[n] = Learned(h)[n]
<1> DEFINE S == {n \in Nat : n <= Len(h) => Learned(g)[n] = Learned(h)[n]}
<1>1. 0 \in S BY LearnedSteps
<1>2. ASSUME NEW n \in Nat, n \in S PROVE n + 1 \in S
  <2> SUFFICES ASSUME n + 1 <= Len(h) PROVE Learned(g)[n + 1] = Learned(h)[n + 1] OBVIOUS
  <2>1. n + 1 \in 1..Len(h) /\ n + 1 \in 1..Len(g) /\ n + 1 - 1 = n /\ n <= Len(h) OBVIOUS
  <2>2. Learned(g)[n] = Learned(h)[n] BY <1>2, <2>1
  <2>3. Learned(g)[n + 1] = Learn(Learned(g)[n], g[n + 1]) BY <2>1, LearnedSteps
  <2>4. Learned(h)[n + 1] = Learn(Learned(h)[n], h[n + 1]) BY <2>1, LearnedSteps
  <2> QED BY <2>1, <2>2, <2>3, <2>4
<1>3. \A n \in Nat : n \in S
  <2> HIDE DEF S
  <2> QED BY <1>1, <1>2, Induction
<1> QED BY <1>3

(* A history that every difference on record applies to, that offers what  *)
(* it has loaded, and that says so.                                        *)
Offers(c) == Formed(c) /\ Catalog \in DOMAIN c.instructions
CatalogOf(c) == c.instructions[Catalog]
Taught(h, i) ==
  /\ h[i].already = (h[i].skill \in Learned(h)[i - 1].names)
  /\ \/ \E j \in (i + 1)..Len(h) : NotOffered(h, h[i].skill, j)
     \/ h[i].skill \in LoadedNames(h)
Sound(h) ==
  /\ Sequential(h)
  /\ Learned(h)[Len(h)] = [context |-> Rebuilt(h), names |-> LoadedNames(h)]
  /\ \/ Rebuilt(h) = None /\ LoadedNames(h) = {}
     \/ Offers(Rebuilt(h)) /\ LoadedNames(h) \subseteq CatalogOf(Rebuilt(h))
  /\ \A i \in DOMAIN h : h[i].type = "result" /\ h[i].ok => Taught(h, i)

(* What may be told next.                                                  *)
Replaces(d, names) ==
  /\ Offers(d) /\ BodiesIn(d) \subseteq CatalogOf(d)
  /\ \A n \in names : n \in CatalogOf(d) => n \in BodiesIn(d)
MayBeTold(h, e) ==
  /\ e.type = "update" => Replaces(Apply(e.update, Rebuilt(h)), LoadedNames(h))
  /\ e.type = "result" /\ e.ok =>
       /\ Rebuilt(h) # None /\ e.skill \in CatalogOf(Rebuilt(h))
       /\ e.already = (e.skill \in LoadedNames(h))

(* A sound history stays sound with one entry more, which is learned alone. *)
LEMMA SoundGrows ==
  ASSUME NEW h, Sound(h), NEW e, MayBeTold(h, e)
  PROVE  LET g == Append(h, e) IN
         /\ Sound(g)
         /\ IF e.type = "update"
            THEN Rebuilt(g) = Apply(e.update, Rebuilt(h)) /\ LoadedNames(g) = BodiesIn(Rebuilt(g))
            ELSE /\ Rebuilt(g) = Rebuilt(h)
                 /\ LoadedNames(g) = LoadedNames(h) \cup IF e.type = "result" /\ e.ok THEN {e.skill} ELSE {}
<1> DEFINE g == Append(h, e)
           n == Len(h)
<1>1. /\ Sequential(g) /\ n \in Nat /\ Len(g) = n + 1 /\ DOMAIN h = 1..n /\ DOMAIN g = 1..(n + 1)
      /\ g[n + 1] = e /\ \A i \in 1..n : g[i] = h[i]
  BY Appended DEF Sound
<1> HIDE DEF g, n
<1>2. \A m \in 0..n : Learned(g)[m] = Learned(h)[m]
  <2>1. Len(g) \in Nat /\ Len(h) \in Nat /\ Len(h) <= Len(g) BY <1>1 DEF n
  <2>2. \A i \in 1..Len(h) : g[i] = h[i] BY <1>1 DEF n
  <2> QED BY <2>1, <2>2, LearnedBefore DEF n
<1>3. Learned(h)[n] = [context |-> Rebuilt(h), names |-> LoadedNames(h)] BY DEF Sound, n
<1>4. Learned(g)[n + 1] = Learn([context |-> Rebuilt(h), names |-> LoadedNames(h)], e)
  <2>1. n + 1 \in 1..Len(g) /\ n + 1 - 1 = n /\ n \in 0..n /\ Len(g) \in Nat BY <1>1
  <2>2. Learned(g)[n + 1] = Learn(Learned(g)[n], e) BY <1>1, <2>1, LearnedSteps
  <2> QED BY <1>2, <1>3, <2>1, <2>2
<1>5. Rebuilt(g) = Learned(g)[n + 1].context /\ LoadedNames(g) = Learned(g)[n + 1].names
  BY <1>1 DEF Rebuilt, LoadedNames
<1>6. CASE e.type = "update"
  <2> DEFINE d == Apply(e.update, Rebuilt(h))
  <2>1. Learned(g)[n + 1] = [context |-> d, names |-> BodiesIn(d)] BY <1>4, <1>6 DEF Learn
  <2>2. Rebuilt(g) = d /\ LoadedNames(g) = BodiesIn(d) BY <1>5, <2>1
  <2>3. Replaces(d, LoadedNames(h)) BY <1>6 DEF MayBeTold
  <2> HIDE DEF d
  <2>4. ASSUME NEW i \in DOMAIN g, g[i].type = "result", g[i].ok PROVE Taught(g, i)
    <3>1. i \in 1..n /\ g[i] = h[i] /\ i - 1 \in 0..n
      <4>1. i # n + 1 BY <1>1, <1>6, <2>4
      <4> QED BY <1>1, <4>1
    <3>2. Taught(h, i) BY <1>1, <2>4, <3>1 DEF Sound
    <3>3. g[i].already = (g[i].skill \in Learned(g)[i - 1].names) BY <1>2, <3>1, <3>2 DEF Taught
    <3>4. CASE \E j \in (i + 1)..n : NotOffered(h, h[i].skill, j)
      <4>1. PICK j \in (i + 1)..n : NotOffered(h, h[i].skill, j) BY <3>4
      <4>2. j \in (i + 1)..Len(g) /\ j \in 0..n /\ g[j] = h[j] BY <1>1, <3>1, <4>1
      <4>3. NotOffered(g, g[i].skill, j) BY <1>2, <3>1, <4>1, <4>2 DEF NotOffered
      <4> QED BY <3>3, <4>2, <4>3 DEF Taught
    <3>5. CASE h[i].skill \in LoadedNames(h)
      <4>1. CASE h[i].skill \in CatalogOf(d)
        <5>1. h[i].skill \in LoadedNames(g) BY <2>2, <2>3, <3>5, <4>1 DEF Replaces
        <5> QED BY <3>1, <3>3, <5>1 DEF Taught
      <4>2. CASE h[i].skill \notin CatalogOf(d)
        <5>1. NotOffered(g, g[i].skill, n + 1)
          BY <1>1, <1>5, <1>6, <2>2, <3>1, <4>2 DEF NotOffered, CatalogOf
        <5>2. n + 1 \in (i + 1)..Len(g) BY <1>1, <3>1
        <5> QED BY <3>3, <5>1, <5>2 DEF Taught
      <4> QED BY <4>1, <4>2
    <3> QED BY <3>2, <3>4, <3>5 DEF Taught, n
  <2>5. Sound(g)
    <3>1. Learned(g)[Len(g)] = [context |-> Rebuilt(g), names |-> LoadedNames(g)] BY <1>1, <2>1, <2>2
    <3>2. Offers(Rebuilt(g)) /\ LoadedNames(g) \subseteq CatalogOf(Rebuilt(g)) BY <2>2, <2>3 DEF Replaces
    <3> QED BY <1>1, <2>4, <3>1, <3>2 DEF Sound
  <2> QED BY <1>6, <2>2, <2>5 DEF d, g
<1>7. CASE e.type # "update"
  <2> DEFINE more == IF e.type = "result" /\ e.ok THEN {e.skill} ELSE {}
  <2>1. Learned(g)[n + 1] = [context |-> Rebuilt(h), names |-> LoadedNames(h) \cup more]
    <3>1. CASE e.type = "result" /\ e.ok BY <1>4, <1>7, <3>1 DEF Learn
    <3>2. CASE ~(e.type = "result" /\ e.ok)
      <4>1. LoadedNames(h) \cup more = LoadedNames(h) BY <3>2
      <4> QED BY <1>4, <1>7, <3>2, <4>1 DEF Learn
    <3> QED BY <3>1, <3>2
  <2>2. Rebuilt(g) = Rebuilt(h) /\ LoadedNames(g) = LoadedNames(h) \cup more BY <1>5, <2>1
  <2>3. ASSUME NEW i \in DOMAIN g, g[i].type = "result", g[i].ok PROVE Taught(g, i)
    <3>1. CASE i = n + 1
      <4>1. n \in 0..n /\ i - 1 = n /\ g[i] = e BY <1>1, <3>1
      <4>2. e.already = (e.skill \in LoadedNames(h)) BY <2>3, <4>1 DEF MayBeTold
      <4>3. Learned(g)[i - 1].names = LoadedNames(h) BY <1>2, <4>1 DEF LoadedNames, n
      <4>4. e.skill \in LoadedNames(g) BY <2>2, <2>3, <4>1
      <4> QED BY <4>1, <4>2, <4>3, <4>4 DEF Taught
    <3>2. CASE i # n + 1
      <4>1. i \in 1..n /\ g[i] = h[i] /\ i - 1 \in 0..n BY <1>1, <3>2
      <4>2. Taught(h, i) BY <1>1, <2>3, <4>1 DEF Sound
      <4>3. g[i].already = (g[i].skill \in Learned(g)[i - 1].names) BY <1>2, <4>1, <4>2 DEF Taught
      <4>4. CASE \E j \in (i + 1)..n : NotOffered(h, h[i].skill, j)
        <5>1. PICK j \in (i + 1)..n : NotOffered(h, h[i].skill, j) BY <4>4
        <5>2. j \in (i + 1)..Len(g) /\ j \in 0..n /\ g[j] = h[j] BY <1>1, <4>1, <5>1
        <5>3. NotOffered(g, g[i].skill, j) BY <1>2, <4>1, <5>1, <5>2 DEF NotOffered
        <5> QED BY <4>3, <5>2, <5>3 DEF Taught
      <4>5. CASE h[i].skill \in LoadedNames(h) BY <2>2, <4>1, <4>3, <4>5 DEF Taught
      <4> QED BY <4>2, <4>4, <4>5 DEF Taught, n
    <3> QED BY <3>1, <3>2
  <2>4. Sound(g)
    <3>1. Learned(g)[Len(g)] = [context |-> Rebuilt(g), names |-> LoadedNames(g)] BY <1>1, <2>1, <2>2
    <3>2. \/ Rebuilt(g) = None /\ LoadedNames(g) = {}
          \/ Offers(Rebuilt(g)) /\ LoadedNames(g) \subseteq CatalogOf(Rebuilt(g))
      <4>1. CASE e.type = "result" /\ e.ok BY <2>2, <4>1 DEF MayBeTold, Sound
      <4>2. CASE ~(e.type = "result" /\ e.ok) BY <2>2, <4>2 DEF Sound
      <4> QED BY <4>1, <4>2
    <3> HIDE DEF more
    <3> QED BY <1>1, <2>3, <3>1, <3>2 DEF Sound
  <2> QED BY <1>7, <2>2, <2>4 DEF g
<1> QED BY <1>6, <1>7

(* The context a run is assembled from: the catalog of its snapshot, and   *)
(* the bodies of the loaded skills that it has.                            *)
LEMMA PreparedIs ==
  ASSUME NEW c, Formed(c), NEW s, DOMAIN s \subseteq Skills, NEW names
  PROVE  LET d == Prepared(c, s, names) IN
         /\ Offers(d) /\ CatalogOf(d) = DOMAIN s /\ BodiesIn(d) = names \cap DOMAIN s
         /\ \A n \in BodiesIn(d) : d.instructions[BodyOf(n)] = s[n]
<1> DEFINE rules == Without(c.instructions, {BodyOf(n) : n \in Skills})
           bodies == {n \in names : n \in DOMAIN s}
           keys == {BodyOf(n) : n \in bodies}
           f == Extended(Extended(rules, [k \in {Catalog} |-> DOMAIN s]), [k \in keys |-> s[k[2]]])
           d == Prepared(c, s, names)
<1>1. d = [instructions |-> f, tools |-> c.tools] BY DEF Prepared, Formed
<1>2. d.instructions = f /\ d.tools = c.tools BY <1>1
<1>3. \A n : BodyOf(n)[2] = n /\ Catalog # BodyOf(n)
  <2>1. \A n : Len(<<"body", n>>) = 2 /\ Len(<<"catalog">>) = 1 /\ <<"body", n>>[2] = n OBVIOUS
  <2>2. \A n : <<"catalog">> # <<"body", n>> BY <2>1
  <2> QED BY <2>1, <2>2 DEF BodyOf, Catalog
<1>4. DOMAIN f = (DOMAIN rules \cup {Catalog}) \cup keys BY DEF Extended
<1>5. f[Catalog] = DOMAIN s
  <2>1. Catalog \notin keys BY <1>3
  <2> HIDE DEF keys, rules
  <2> QED BY <2>1 DEF Extended
<1>6. \A n \in bodies : f[BodyOf(n)] = s[n]
  <2>1. \A n \in bodies : BodyOf(n) \in keys OBVIOUS
  <2> HIDE DEF keys, rules, bodies
  <2> QED BY <1>3, <2>1 DEF Extended
<1>7. \A n \in Skills : BodyOf(n) \in DOMAIN f <=> n \in bodies
  <2>1. \A n \in Skills : BodyOf(n) \notin DOMAIN rules BY DEF Without
  <2>2. \A n : BodyOf(n) \in keys <=> n \in bodies
    <3>1. \A m, n : BodyOf(m) = BodyOf(n) => m = n BY <1>3
    <3> QED BY <3>1
  <2> HIDE DEF keys, rules, bodies, f
  <2> QED BY <1>3, <1>4, <2>1, <2>2
<1>8. IsFun(f) BY DEF IsFun, Extended
<1> HIDE DEF f, d
<1>9. Formed(d) BY <1>1, <1>2, <1>8 DEF Formed
<1>10. Offers(d) /\ CatalogOf(d) = DOMAIN s BY <1>2, <1>4, <1>5, <1>9 DEF Offers, CatalogOf
<1>11. BodiesIn(d) = bodies BY <1>2, <1>7 DEF BodiesIn
<1> QED BY <1>2, <1>6, <1>10, <1>11 DEF d

(* The inductive invariant: what is on record, the context in memory, and  *)
(* how they stand to each other while a run is at work.                    *)
OnRecord ==
  /\ Sound(told)
  /\ session \in {"over", "starting", "live", "broken"}
  /\ unsure = <<>> \/ (session = "broken" /\ \E e : unsure = <<e>> /\ Sound(Append(told, e)))
InMemory ==
  /\ Formed(context) /\ IsFun(registry)
  /\ session \in {"starting", "live"} => DOMAIN skills \subseteq Skills
InForce ==
  session = "live" =>
    /\ Offers(context) /\ CatalogOf(context) = DOMAIN skills
    /\ Rebuilt(told) # None /\ CatalogOf(Rebuilt(told)) = DOMAIN skills
    /\ BodiesIn(context) = LoadedNames(told)
    /\ \A n \in BodiesIn(context) : context.instructions[BodyOf(n)] = skills[n]
    /\ ~loadedSkill => Rebuilt(told) = context
ContextInv == OnRecord /\ InMemory /\ InForce

(* A session that is bound to what is registered has a context.            *)
LEMMA AssembledIs == IsFun(registry) => Formed(Assembled)
<1> SUFFICES ASSUME IsFun(registry) PROVE Formed(Assembled) OBVIOUS
<1> DEFINE f == [k \in {<<"rule", t>> : t \in DOMAIN registry} |-> registry[k[2]]]
<1>1. Assembled = [instructions |-> f, tools |-> registry] BY DEF Assembled
<1>2. IsFun(f) BY DEF IsFun
<1> HIDE DEF f
<1> QED BY <1>1, <1>2 DEF Formed

(* The invariant holds at first.                                           *)
LEMMA ContextStarts == ContextInit => ContextInv
<1> SUFFICES ASSUME ContextInit PROVE ContextInv OBVIOUS
<1>1. told = <<>> /\ unsure = <<>> /\ session = "over" /\ context = Assembled BY DEF ContextInit
<1>2. IsFun(registry) BY DEF ContextInit, IsFun
<1>3. Formed(context) BY <1>1, <1>2, AssembledIs
<1>4. Sequential(<<>>) /\ Len(<<>>) = 0 /\ DOMAIN <<>> = {}
  <2>1. <<>> \in Seq({}) /\ Len(<<>>) = 0 /\ DOMAIN <<>> = {} OBVIOUS
  <2> QED BY <2>1 DEF Sequential
<1>5. Learned(<<>>)[0] = NothingLearned BY <1>4, LearnedSteps
<1>6. Rebuilt(<<>>) = None /\ LoadedNames(<<>>) = {}
  BY <1>4, <1>5 DEF Rebuilt, LoadedNames, NothingLearned
<1>7. Sound(<<>>) BY <1>4, <1>5, <1>6 DEF Sound, NothingLearned
<1> QED BY <1>1, <1>2, <1>3, <1>7 DEF ContextInv, OnRecord, InMemory, InForce

(* What is told is on record, or in doubt and the session broken.          *)
LEMMA EntryIsTold ==
  ASSUME OnRecord, session # "broken", NEW e, MayBeTold(told, e), Told(e)
  PROVE  /\ OnRecord' /\ session' \in {"live", "broken"}
         /\ session' = "live" =>
              IF e.type = "update"
              THEN /\ Rebuilt(told') = Apply(e.update, Rebuilt(told))
                   /\ LoadedNames(told') = BodiesIn(Rebuilt(told'))
              ELSE /\ Rebuilt(told') = Rebuilt(told)
                   /\ LoadedNames(told') =
                        LoadedNames(told) \cup IF e.type = "result" /\ e.ok THEN {e.skill} ELSE {}
<1> DEFINE g == Append(told, e)
<1>1. Sound(told) /\ unsure = <<>> BY DEF OnRecord
<1>2. /\ Sound(g)
      /\ IF e.type = "update"
         THEN Rebuilt(g) = Apply(e.update, Rebuilt(told)) /\ LoadedNames(g) = BodiesIn(Rebuilt(g))
         ELSE /\ Rebuilt(g) = Rebuilt(told)
              /\ LoadedNames(g) =
                   LoadedNames(told) \cup IF e.type = "result" /\ e.ok THEN {e.skill} ELSE {}
  BY <1>1, SoundGrows
<1>3. CASE told' = Append(told, e) /\ session' = "live" /\ UNCHANGED unsure
  BY <1>1, <1>2, <1>3 DEF OnRecord
<1>4. CASE session' = "broken" /\ unsure' = <<e>> /\ UNCHANGED told
  BY <1>1, <1>2, <1>4 DEF OnRecord
<1> QED BY <1>3, <1>4 DEF Told

(* A run generates with the context that is on record afterwards.          *)
LEMMA SynchronizedIs ==
  ASSUME OnRecord, session # "broken", NEW d, Replaces(d, LoadedNames(told)),
         Rebuilt(told) = d => LoadedNames(told) = BodiesIn(d), Synchronized(d)
  PROVE  /\ OnRecord' /\ session' \in {"live", "broken"}
         /\ session' = "live" => Rebuilt(told') = d /\ LoadedNames(told') = BodiesIn(d)
<1> DEFINE u == Plan(Rebuilt(told), d)
           e == [type |-> "update", update |-> u]
<1>1. Rebuilt(told) = None \/ Formed(Rebuilt(told)) BY DEF OnRecord, Sound, Offers
<1>2. Formed(d) BY DEF Replaces, Offers
<1>3. IF u = None THEN Rebuilt(told) = d ELSE Apply(u, Rebuilt(told)) = d BY <1>1, <1>2, PlanApplies
<1>4. IF u = None THEN session' = "live" /\ UNCHANGED <<told, unsure>> ELSE Told(e) BY DEF Synchronized
<1> HIDE DEF u
<1>5. CASE u = None BY <1>3, <1>4, <1>5 DEF OnRecord
<1>6. CASE u # None
  <2>1. e.type = "update" /\ e.update = u OBVIOUS
  <2> HIDE DEF e
  <2>2. MayBeTold(told, e) BY <1>3, <1>6, <2>1 DEF MayBeTold
  <2>3. Told(e) BY <1>4, <1>6
  <2>4. /\ OnRecord' /\ session' \in {"live", "broken"}
        /\ session' = "live" => /\ Rebuilt(told') = Apply(u, Rebuilt(told))
                               /\ LoadedNames(told') = BodiesIn(Rebuilt(told'))
    BY <2>1, <2>2, <2>3, EntryIsTold
  <2> QED BY <1>3, <1>6, <2>4
<1> QED BY <1>5, <1>6

(* A run is accepted with the context of its snapshot.                     *)
LEMMA RunAccepted ==
  ASSUME ContextInv, AcceptRun
  PROVE  ContextInv'
<1> DEFINE names == LoadedNames(told)
           d == Prepared(context, skills, names)
<1>1. /\ session = "starting" /\ context' = d /\ Synchronized(d) /\ loadedSkill' = FALSE
      /\ UNCHANGED <<registry, skills>>
  BY DEF AcceptRun
<1>2. Formed(context) /\ IsFun(registry) /\ DOMAIN skills \subseteq Skills BY <1>1 DEF ContextInv, InMemory
<1>3. /\ Offers(d) /\ CatalogOf(d) = DOMAIN skills /\ BodiesIn(d) = names \cap DOMAIN skills
      /\ \A n \in BodiesIn(d) : d.instructions[BodyOf(n)] = skills[n]
  BY <1>2, PreparedIs
<1>4. OnRecord /\ Sound(told) BY DEF ContextInv, OnRecord
<1>5. PICK x : x = d OBVIOUS
<1> HIDE DEF d
<1>6. Replaces(x, names) BY <1>3, <1>5 DEF Replaces
<1>7. x # None BY <1>3, <1>5, NoneIsNoContext DEF Offers
<1>8. Rebuilt(told) = x => names = BodiesIn(x)
  <2> SUFFICES ASSUME Rebuilt(told) = x PROVE names = BodiesIn(x) OBVIOUS
  <2>1. names \subseteq CatalogOf(x) BY <1>4, <1>7 DEF Sound
  <2> QED BY <1>3, <1>5, <2>1
<1>9. /\ OnRecord' /\ session' \in {"live", "broken"}
      /\ session' = "live" => Rebuilt(told') = x /\ LoadedNames(told') = BodiesIn(x)
  BY <1>1, <1>4, <1>5, <1>6, <1>8, SynchronizedIs
<1>10. context' = x BY <1>1, <1>5
<1>11. InMemory' BY <1>1, <1>2, <1>3, <1>5, <1>10 DEF InMemory, Offers
<1>12. InForce' BY <1>1, <1>3, <1>5, <1>7, <1>9, <1>10 DEF InForce
<1> QED BY <1>9, <1>11, <1>12 DEF ContextInv

(* And goes on with the context that has the skills it loaded.             *)
LEMMA RunSynchronized ==
  ASSUME ContextInv, Synchronize
  PROVE  ContextInv'
<1>1. /\ session = "live" /\ Synchronized(context) /\ loadedSkill' = FALSE
      /\ UNCHANGED <<registry, skills, context>>
  BY DEF Synchronize
<1>2. /\ Offers(context) /\ CatalogOf(context) = DOMAIN skills
      /\ Rebuilt(told) # None /\ CatalogOf(Rebuilt(told)) = DOMAIN skills
      /\ BodiesIn(context) = LoadedNames(told)
      /\ \A n \in BodiesIn(context) : context.instructions[BodyOf(n)] = skills[n]
  BY <1>1 DEF ContextInv, InForce
<1>3. OnRecord /\ Sound(told) BY DEF ContextInv, OnRecord
<1>4. Replaces(context, LoadedNames(told)) BY <1>2, <1>3 DEF Replaces, Sound
<1>5. /\ OnRecord' /\ session' \in {"live", "broken"}
      /\ session' = "live" => Rebuilt(told') = context /\ LoadedNames(told') = BodiesIn(context)
  BY <1>1, <1>2, <1>3, <1>4, SynchronizedIs
<1>6. InMemory' BY <1>1 DEF ContextInv, InMemory
<1>7. context # None BY <1>2, NoneIsNoContext DEF Offers
<1>8. InForce' BY <1>1, <1>2, <1>5, <1>7 DEF InForce
<1> QED BY <1>5, <1>6, <1>8 DEF ContextInv

(* A reply, an intent, a load that failed: the context stands.             *)
LEMMA OthersTold ==
  ASSUME ContextInv, (\E calls \in Batches : ReplyWith(calls)) \/ BeginLoad \/ SkipSkill
  PROVE  ContextInv'
<1>1. ASSUME NEW e, Told(e), e.type # "update", e.type = "result" => e.ok = FALSE,
             session = "live", UNCHANGED <<registry, skills, context, loadedSkill>>
      PROVE  ContextInv'
  <2>1. MayBeTold(told, e) BY <1>1 DEF MayBeTold
  <2>2. OnRecord BY DEF ContextInv
  <2>3. /\ OnRecord' /\ session' \in {"live", "broken"}
        /\ session' = "live" => Rebuilt(told') = Rebuilt(told) /\ LoadedNames(told') = LoadedNames(told)
    BY <1>1, <2>1, <2>2, EntryIsTold
  <2>4. InMemory' BY <1>1 DEF ContextInv, InMemory
  <2>5. InForce' BY <1>1, <2>3 DEF ContextInv, InForce
  <2> QED BY <2>3, <2>4, <2>5 DEF ContextInv
<1>2. ASSUME NEW calls \in Batches, ReplyWith(calls) PROVE ContextInv'
  <2> DEFINE e == [type |-> "reply", skills |-> calls]
  <2>1. e.type = "reply" OBVIOUS
  <2>2. Told(e) /\ session = "live" /\ UNCHANGED <<registry, skills, context, loadedSkill>>
    BY <1>2 DEF ReplyWith, Generating
  <2> HIDE DEF e
  <2> QED BY <1>1, <2>1, <2>2
<1>3. CASE BeginLoad
  <2> DEFINE e == [type |-> "intent"]
  <2>1. e.type = "intent" OBVIOUS
  <2>2. Told(e) /\ session = "live" /\ UNCHANGED <<registry, skills, context, loadedSkill>>
    BY <1>3 DEF BeginLoad
  <2> HIDE DEF e
  <2> QED BY <1>1, <2>1, <2>2
<1>4. CASE SkipSkill
  <2> DEFINE e == ResultOf(batch[1], FALSE, FALSE)
  <2>1. e.type = "result" /\ e.ok = FALSE BY DEF ResultOf
  <2>2. Told(e) /\ session = "live" /\ UNCHANGED <<registry, skills, context, loadedSkill>>
    BY <1>4 DEF SkipSkill
  <2> HIDE DEF e
  <2> QED BY <1>1, <2>1, <2>2
<1> QED BY <1>2, <1>3, <1>4

(* A load that succeeded: the body is in the context from then on.         *)
LEMMA SkillLoaded ==
  ASSUME ContextInv, LoadSkill
  PROVE  ContextInv'
<1>1. PICK n : n = batch[1] OBVIOUS
<1> DEFINE e == ResultOf(n, TRUE, BodyOf(n) \in DOMAIN context.instructions)
<1>2. /\ session = "live" /\ n \in DOMAIN skills /\ Told(e) /\ loadedSkill' = TRUE
      /\ UNCHANGED <<registry, skills>>
      /\ context' = IF session' = "live"
                    THEN [context EXCEPT !.instructions = Extended(@, [k \in {BodyOf(n)} |-> skills[n]])]
                    ELSE context
  BY <1>1 DEF LoadSkill
<1>3. /\ Offers(context) /\ CatalogOf(context) = DOMAIN skills
      /\ Rebuilt(told) # None /\ CatalogOf(Rebuilt(told)) = DOMAIN skills
      /\ BodiesIn(context) = LoadedNames(told)
      /\ \A m \in BodiesIn(context) : context.instructions[BodyOf(m)] = skills[m]
      /\ DOMAIN skills \subseteq Skills /\ Formed(context) /\ IsFun(registry)
  BY <1>2 DEF ContextInv, InForce, InMemory
<1>4. /\ e.type = "result" /\ e.ok = TRUE /\ e.skill = n
      /\ e.already = (BodyOf(n) \in DOMAIN context.instructions)
  BY DEF ResultOf
<1> HIDE DEF e
<1>5. e.already = (n \in LoadedNames(told))
  <2>1. BodyOf(n) \in DOMAIN context.instructions <=> n \in BodiesIn(context) BY <1>2, <1>3 DEF BodiesIn
  <2> QED BY <1>3, <1>4, <2>1
<1>6. MayBeTold(told, e) BY <1>2, <1>3, <1>4, <1>5 DEF MayBeTold
<1>7. OnRecord BY DEF ContextInv
<1>8. /\ OnRecord' /\ session' \in {"live", "broken"}
      /\ session' = "live" => /\ Rebuilt(told') = Rebuilt(told)
                             /\ LoadedNames(told') = LoadedNames(told) \cup {n}
  <2>1. session # "broken" /\ e.type # "update" BY <1>2, <1>4
  <2> QED BY <1>2, <1>4, <1>6, <1>7, <2>1, EntryIsTold
<1>9. CASE session' = "live"
  <2> DEFINE f == Extended(context.instructions, [k \in {BodyOf(n)} |-> skills[n]])
             d == [instructions |-> f, tools |-> context.tools]
  <2>1. context' = d BY <1>2, <1>3, <1>9 DEF Formed
  <2>2. d.instructions = f /\ d.tools = context.tools OBVIOUS
  <2>3. IsFun(f) BY DEF IsFun, Extended
  <2>4. \A m : BodyOf(m)[2] = m /\ Catalog # BodyOf(m)
    <3>1. \A m : Len(<<"body", m>>) = 2 /\ Len(<<"catalog">>) = 1 /\ <<"body", m>>[2] = m OBVIOUS
    <3>2. \A m : <<"catalog">> # <<"body", m>> BY <3>1
    <3> QED BY <3>1, <3>2 DEF BodyOf, Catalog
  <2>5. DOMAIN f = DOMAIN context.instructions \cup {BodyOf(n)} /\ f[BodyOf(n)] = skills[n]
    BY DEF Extended
  <2>6. \A k \in DOMAIN context.instructions : k # BodyOf(n) => f[k] = context.instructions[k]
    BY DEF Extended
  <2> HIDE DEF f
  <2>7. Formed(d) BY <1>3, <2>2, <2>3 DEF Formed
  <2> HIDE DEF d
  <2>8. Offers(d) /\ CatalogOf(d) = DOMAIN skills
    BY <1>3, <2>2, <2>4, <2>5, <2>6, <2>7 DEF Offers, CatalogOf
  <2>9. BodiesIn(d) = BodiesIn(context) \cup {n}
    BY <1>2, <1>3, <2>2, <2>4, <2>5 DEF BodiesIn
  <2>10. \A m \in BodiesIn(d) : d.instructions[BodyOf(m)] = skills[m]
    BY <1>3, <2>2, <2>4, <2>5, <2>6, <2>9 DEF BodiesIn
  <2>11. InMemory' BY <1>2, <1>3, <2>1, <2>7 DEF InMemory
  <2>12. InForce' BY <1>2, <1>3, <1>8, <1>9, <2>1, <2>8, <2>9, <2>10 DEF InForce
  <2> QED BY <1>8, <2>11, <2>12 DEF ContextInv
<1>10. CASE session' # "live"
  <2>1. InMemory' /\ InForce' BY <1>2, <1>3, <1>8, <1>10 DEF InMemory, InForce
  <2> QED BY <1>8, <2>1 DEF ContextInv
<1> QED BY <1>9, <1>10

(* Files, registrations, the start and the end of a run and of a process.  *)
LEMMA OtherContextSteps ==
  ASSUME ContextInv,
         \/ \E d \in DOMAIN shelf, n \in Skills, body \in Bodies \cup {NoBody} : EditSkill(d, n, body)
         \/ \E t \in Registered, definition \in Definitions : UpdateTool(t, definition)
         \/ SetTools(<<>>) \/ TakeSnapshot \/ RejectRun \/ FinishRun \/ Restart
  PROVE  ContextInv'
<1>1. ASSUME UNCHANGED <<told, unsure, session, skills, context, loadedSkill>>, IsFun(registry')
      PROVE  ContextInv'
  <2>1. OnRecord' BY <1>1 DEF ContextInv, OnRecord
  <2>2. InMemory' BY <1>1 DEF ContextInv, InMemory
  <2>3. InForce' BY <1>1 DEF ContextInv, InForce
  <2> QED BY <2>1, <2>2, <2>3 DEF ContextInv
<1>2. IsFun(registry) BY DEF ContextInv, InMemory
<1>3. ASSUME NEW d, NEW n, NEW body, EditSkill(d, n, body) PROVE ContextInv'
  BY <1>1, <1>2, <1>3 DEF EditSkill
<1>4. ASSUME NEW t, NEW definition, UpdateTool(t, definition) PROVE ContextInv'
  <2>1. PICK f : IsFun(f) /\ SetTools(f)
    <3> DEFINE g == [x \in {t} |-> definition]
    <3>1. SetTools(Extended(registry, t :> definition)) BY <1>4 DEF UpdateTool
    <3>2. IsFun(Extended(registry, t :> definition)) BY DEF IsFun, Extended
    <3> QED BY <3>1, <3>2
  <2> QED BY <1>1, <2>1 DEF SetTools
<1>5. CASE SetTools(<<>>)
  <2>1. IsFun(<<>>) BY DEF IsFun
  <2> QED BY <1>1, <1>5, <2>1 DEF SetTools
<1>6. CASE TakeSnapshot
  <2>1. /\ session = "over" /\ session' = "starting" /\ skills' = Snapshot
        /\ UNCHANGED <<registry, told, unsure, context>>
    BY <1>6 DEF TakeSnapshot
  <2>2. DOMAIN Snapshot \subseteq Skills BY DEF Snapshot
  <2> QED BY <2>1, <2>2 DEF ContextInv, OnRecord, InMemory, InForce
<1>7. CASE RejectRun \/ FinishRun \/ Restart
  <2>1. /\ session # "broken" /\ session' \in {"over", "broken"}
        /\ UNCHANGED <<registry, told, unsure, skills, context>>
    BY <1>7 DEF RejectRun, FinishRun, Restart, Generating
  <2> QED BY <2>1 DEF ContextInv, OnRecord, InMemory, InForce
<1> QED BY <1>3, <1>4, <1>5, <1>6, <1>7

(* A session that is loaded again has what is on record, with the entry in *)
(* doubt or without it.                                                    *)
LEMMA SessionLoaded ==
  ASSUME ContextInv, LoadSession
  PROVE  ContextInv'
<1>1. PICK found \in {<<>>, unsure} :
        LET h == told \o found
        IN told' = IF Begun(h) THEN Append(h, ResultOf(WithoutResult(h)[1], FALSE, FALSE)) ELSE h
  BY DEF LoadSession
<1>2. /\ session = "broken" /\ session' = "over" /\ unsure' = <<>> /\ context' = Assembled
      /\ UNCHANGED registry
  BY DEF LoadSession
<1> DEFINE h == told \o found
<1>3. Sound(h)
  <2>1. Sound(told) /\ Sequential(told) BY DEF ContextInv, OnRecord, Sound
  <2>2. CASE found = <<>>
    <3>1. PICK T : told \in Seq(T) BY <2>1 DEF Sequential
    <3>2. told \o found = told BY <2>2, <3>1
    <3> QED BY <2>1, <3>2
  <2>3. CASE found # <<>>
    <3>1. PICK e : found = <<e>> /\ Sound(Append(told, e)) BY <2>3 DEF ContextInv, OnRecord
    <3>2. told \o found = Append(told, e) BY <2>1, <3>1, Appended
    <3> QED BY <3>1, <3>2
  <2> QED BY <2>2, <2>3
<1> HIDE DEF h
<1>4. Sound(told')
  <2>1. CASE told' = h BY <1>3, <2>1
  <2>2. CASE told' # h
    <3> DEFINE e == ResultOf(WithoutResult(h)[1], FALSE, FALSE)
    <3>1. told' = Append(h, e) BY <1>1, <2>2 DEF h
    <3>2. e.type = "result" /\ e.ok = FALSE BY DEF ResultOf
    <3> HIDE DEF e
    <3>3. MayBeTold(h, e) BY <3>2 DEF MayBeTold
    <3> QED BY <1>3, <3>1, <3>3, SoundGrows
  <2> QED BY <2>1, <2>2
<1>5. OnRecord' BY <1>2, <1>4 DEF OnRecord
<1>6. Formed(Assembled) /\ IsFun(registry) BY AssembledIs DEF ContextInv, InMemory
<1>7. InMemory' BY <1>2, <1>6 DEF InMemory
<1>8. InForce' BY <1>2 DEF InForce
<1> QED BY <1>5, <1>7, <1>8 DEF ContextInv

(* The invariant says what the run checks.                                 *)
LEMMA ContextMeant == ContextInv => ContextKept
<1> SUFFICES ASSUME ContextInv PROVE ContextKept OBVIOUS
<1>1. Sound(told) BY DEF ContextInv, OnRecord
<1>2. Rebuilt(told) # Inapplicable BY <1>1, NoneIsNoContext DEF Sound, Offers
<1>3. Generating => Rebuilt(told) = context BY DEF ContextInv, InForce, Generating
<1>4. AlreadyIsTrue BY <1>1 DEF AlreadyIsTrue, Sound, Taught
<1>5. TaughtStays
  <2> SUFFICES ASSUME Generating, NEW i \in DOMAIN told, told[i].type = "result", told[i].ok,
                      ~\E j \in (i + 1)..Len(told) : NotOffered(told, told[i].skill, j)
               PROVE  LET n == told[i].skill
                      IN n \in BodiesIn(context) /\ context.instructions[BodyOf(n)] = skills[n]
    BY DEF TaughtStays
  <2>1. told[i].skill \in LoadedNames(told) BY <1>1 DEF Sound, Taught
  <2> QED BY <2>1 DEF ContextInv, InForce, Generating
<1> QED BY <1>2, <1>3, <1>4, <1>5 DEF ContextKept, ContextIsOnRecord

(* The instructions and skills of a model: ContextKept in every reachable  *)
(* state.                                                                  *)
THEOREM ContextStays == ContextSpec => []ContextKept
<1>1. ContextInv /\ [ContextNext]_contextvars => ContextInv'
  <2> SUFFICES ASSUME ContextInv, [ContextNext]_contextvars PROVE ContextInv' OBVIOUS
  <2>1. CASE UNCHANGED contextvars
    BY <2>1 DEF contextvars, ContextInv, OnRecord, InMemory, InForce
  <2>2. CASE ContextNext
    BY <2>2, RunAccepted, RunSynchronized, OthersTold, SkillLoaded, OtherContextSteps, SessionLoaded
       DEF ContextNext
  <2> QED BY <2>1, <2>2
<1> QED BY <1>1, ContextStarts, ContextMeant, PTL DEF ContextSpec

(* The three together: the files, todos and permissions of a session, its  *)
(* search provider and what its model is told.  ToolsKept in every         *)
(* reachable state.                                                        *)
THEOREM ToolsAreKept == ToolsSpec /\ WebSpec /\ ContextSpec => []ToolsKept
<1>1. SessionToolsKept /\ ProviderKept /\ ContextKept => ToolsKept BY DEF ToolsKept
<1> QED BY <1>1, ToolsRemember, SearchFollows, ContextStays, PTL
=============================================================================
