------------------------------ MODULE DurableLog ------------------------------
(***************************************************************************)
(* What a session may rely on from its journal, whatever the file layer    *)
(* does underneath: an append-only log of confirmed records, and a set of  *)
(* records in doubt, whose append was begun and neither confirmed nor      *)
(* ruled out (a write that failed or was cut short by a crash).            *)
(***************************************************************************)
EXTENDS Naturals, Sequences, SequencesExt

VARIABLES
  log,     \* the confirmed records, in order
  doubt,   \* identities that may still become records
  used,    \* the identities handed out so far are 1..used
  open,    \* somebody owns the log
  shown    \* the records its owner sees

lvars == <<log, doubt, used, open, shown>>

(* An owner sees the confirmed records and, after them, records in doubt.  *)
ViewOK ==
  open =>
    /\ IsPrefix(log, shown)
    /\ Range(SubSeq(shown, Len(log) + 1, Len(shown))) \subseteq doubt

Init ==
  /\ log = <<>>
  /\ doubt = {}
  /\ used = 0
  /\ open = FALSE
  /\ shown = <<>>

(* A fresh record is offered to the log.                                   *)
Offer ==
  /\ used' = used + 1
  /\ doubt' = doubt \cup {used'}
  /\ UNCHANGED <<log, open, shown>>

(* Records in doubt are decided: some are confirmed, behind the others and *)
(* once each, some are ruled out for good; and the owner may change.       *)
Decide ==
  /\ IsPrefix(log, log')
  /\ LET new == SubSeq(log', Len(log) + 1, Len(log'))
     IN  /\ IsInjective(new)
         /\ Range(new) \subseteq doubt
         /\ doubt' \subseteq doubt \ Range(new)
  /\ ViewOK'
  /\ UNCHANGED used

Next == Offer \/ Decide

Spec == Init /\ [][Next]_lvars
=============================================================================
