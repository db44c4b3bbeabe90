--------------------------- MODULE DirectoryProofs ---------------------------
(***************************************************************************)
(* The directory of conversations: its listing is kept, one decision at a  *)
(* time holds a session, and retention decides on what still holds.  The   *)
(* inductive invariant says what the gate, the claims and the frozen marks *)
(* protect between the sections of a call.                                 *)
(***************************************************************************)
EXTENDS SessionDirectory, TLAPS

(***************************************************************************)
(* The inductive invariant.                                                *)
(***************************************************************************)
Deciders == {"archive", "restore", "delete"}
Deletions == {"marked", "forgotten", "cleaned"}
HeldPoints == {"examined", "marked", "forgotten", "cleaned", "registering", "flushing"}
Stages == {"idle", "archive", "archive, delete", "delete"}

(* What the variables range over.                                          *)
StoreTypes ==
  /\ row \in [Sessions -> Rows] /\ revision \in [Sessions -> Nat]
  /\ touched \in [Sessions -> 0..MaxTime] /\ activity \in [Sessions -> 0..MaxTime]
  /\ file \subseteq Sessions /\ deletes \in BOOLEAN
MemoryTypes ==
  /\ service \in {"open", "closing", "down"}
  /\ frozen \subseteq loaded /\ dirty \subseteq loaded /\ loaded \subseteq Sessions
  /\ work \in [Sessions -> SUBSET {"run", "flush", "title"}]
  /\ creations \subseteq Requests \X Sessions /\ viewers \subseteq Sessions \X Clients
ControlTypes ==
  /\ gate \in Procs \cup {Nobody} /\ claim \in [Sessions -> Procs \cup {Nobody}]
  /\ op \in [Procs -> Calling]
ScheduleTypes ==
  /\ timer \in BOOLEAN /\ due \in BOOLEAN /\ now \in 0..MaxTime /\ gone \subseteq Sessions
  /\ pass \in [stage : Stages, began : 0..MaxTime, left : SUBSET (Sessions \X Nat)]
DirTypes == StoreTypes /\ MemoryTypes /\ ControlTypes /\ ScheduleTypes

(* What a call is about, and where each kind of call can be.               *)
Shaped(r) ==
  /\ r.kind \in {"read", "start", "view"} \cup Deciders => r.on \in Sessions
  /\ r.kind = "create" => \/ r.at = "queued" /\ r.on \in Requests
                          \/ r.at = "registering" /\ r.on \in Sessions
  /\ r.at = "examined" => r.kind \in Deciders
  /\ r.at \in Deletions => r.kind = "delete"
  /\ r.at = "registering" => r.kind = "create"
  /\ r.at = "flushing" => r.kind = "start"
CallsShaped == \A p \in Procs : Shaped(op[p])

(* Who goes on under the gate holds it, and nobody else.                   *)
GateIsHeld == \A p \in Procs : op[p].at \in HeldPoints <=> gate = p

(* A decision is under way from the examination to the answer.             *)
Engaged(p) ==
  op[p].at \in {"examined"} \cup Deletions \/ (op[p].at = "settling" /\ op[p].kind \in Deciders)

OneAtATime ==
  \A s \in Sessions, p, q \in Procs : Deciding(p, s) /\ Deciding(q, s) => p = q

(* A claim is of a cold session, by the decision about it.                 *)
ClaimIsUsed ==
  \A s \in Sessions : claim[s] # Nobody =>
    s \notin loaded /\ Engaged(claim[s]) /\ op[claim[s]].on = s

(* While the service is open a decision holds its session.                 *)
SessionIsHeld ==
  service = "open" => \A p \in Procs : LET s == op[p].on IN
    /\ op[p].at = "examined" => s \in loaded \/ claim[s] = p
    /\ op[p].at = "settling" /\ op[p].kind \in Deciders => s \in frozen \/ claim[s] = p

(* A decision is about a row that is there; a deletion takes the session,  *)
(* the file and the row in this order.                                     *)
DecisionStands ==
  \A p \in Procs : LET s == op[p].on IN
    /\ Engaged(p) => row[s] # "none"
    /\ op[p].at \in Deletions => row[s] = "deleting"
    /\ op[p].at \in {"forgotten", "cleaned"} => s \notin loaded
    /\ op[p].at = "cleaned" => s \notin file

RowIsBacked ==
  \A s \in Sessions : /\ row[s] # "none" => revision[s] > 0
                      /\ row[s] \in {"live", "archived"} => s \in file

(* A session that is being created has no row yet, and nobody knows it.    *)
Creating ==
  \A p \in Procs : op[p].at = "registering" =>
    LET s == op[p].on IN s \in loaded \ (frozen \cup dirty \cup gone) /\ revision[s] = 0

(* What is in memory has a live row, but for what the holder of the gate   *)
(* is creating or deleting.                                                *)
MemoryIsBacked ==
  /\ loaded \subseteq file
  /\ service = "down" => loaded = {}
  /\ service = "open" => \A s \in loaded :
       row[s] = "live" \/ \E p \in Procs : op[p].at \in {"marked", "registering"} /\ op[p].on = s

(* Maintenance works in a pass, and what it found idle in memory stays so. *)
FoundIdle ==
  /\ ~Idle(Maintenance) => pass.stage # "idle"
  /\ pass.stage = "idle" => pass.left = {}
  /\ LET s == op[Maintenance].on IN
     /\ service = "open" /\ op[Maintenance].kind = "archive"
     /\ op[Maintenance].at \in {"examined", "settling"} /\ s \in loaded
     => "run" \notin work[s] /\ Shown(s) <= Cutoff

DirInv ==
  /\ DirTypes /\ CallsShaped /\ GateIsHeld /\ OneAtATime /\ ClaimIsUsed /\ SessionIsHeld
  /\ DecisionStands /\ RowIsBacked /\ Creating /\ MemoryIsBacked /\ DeletedIsGone /\ FoundIdle

(* The callers are apart from the mark for none.                           *)
LEMMA Callers == Nobody \notin Procs /\ Maintenance \in Procs /\ Maintenance \notin Clients
BY CallersAssumption DEF Procs

(* The larger of two times is a time, and not below either.                *)
LEMMA MaxOfTwo ==
  ASSUME NEW a \in 0..MaxTime, NEW b \in 0..MaxTime
  PROVE  Max2(a, b) \in 0..MaxTime /\ Max2(a, b) >= a /\ Max2(a, b) >= b /\ Max2(a, b) \in {a, b}
BY LimitsAssumption DEF Max2

(* What a session is shown with, and what a pass compares it to, are times.*)
LEMMA TimesAre ==
  ASSUME DirTypes
  PROVE  (\A s \in Sessions : Shown(s) \in 0..MaxTime /\ Shown(s) \in Int) /\ Cutoff \in Int
<1>1. MaxTime \in Nat BY LimitsAssumption
<1>2. \A s \in Sessions : touched[s] \in 0..MaxTime /\ activity[s] \in 0..MaxTime
  BY DEF DirTypes, StoreTypes
<1>3. \A s \in Sessions : Shown(s) \in 0..MaxTime BY <1>2, MaxOfTwo DEF Shown
<1>4. pass.began \in 0..MaxTime BY DEF DirTypes, ScheduleTypes
<1>5. Cutoff \in Int BY <1>1, <1>4 DEF Cutoff
<1> QED BY <1>1, <1>3, <1>5

(* No call at all is one of the records a caller has.                      *)
LEMMA NoCallIsCalling ==
  /\ NoCall \in Calling /\ NoCall.at = "idle" /\ NoCall.kind = "none" /\ Shaped(NoCall)
  /\ NoCall.at \notin HeldPoints \cup Deletions
BY DEF NoCall, Calling, Kinds, Points, Shaped, Deciders, Deletions, HeldPoints

(* A caller's answer ends its call and touches no other.                   *)
LEMMA Answered1 ==
  ASSUME ControlTypes, NEW p \in Procs, Answer(p)
  PROVE  op' \in [Procs -> Calling] /\ op'[p] = NoCall /\ \A q \in Procs \ {p} : op'[q] = op[q]
BY NoCallIsCalling DEF Answer, ControlTypes

(* A caller that goes on keeps what its call is.                           *)
LEMMA Proceeds ==
  ASSUME ControlTypes, NEW p \in Procs, NEW point \in Points, Proceed(p, point)
  PROVE  /\ op' \in [Procs -> Calling] /\ \A q \in Procs \ {p} : op'[q] = op[q]
         /\ op'[p].at = point /\ op'[p].kind = op[p].kind /\ op'[p].on = op[p].on
         /\ op'[p].expect = op[p].expect /\ op'[p].awaits = op[p].awaits
<1>1. op[p] \in Calling BY DEF ControlTypes
<1> DEFINE r == [op[p] EXCEPT !.at = point]
<1>2. r \in Calling BY <1>1 DEF Calling
<1>3. r.at = point /\ r.kind = op[p].kind /\ r.on = op[p].on /\ r.expect = op[p].expect
      /\ r.awaits = op[p].awaits
  BY <1>1 DEF Calling
<1>4. op' = [op EXCEPT ![p] = r] BY DEF Proceed
<1> HIDE DEF r
<1> QED BY <1>2, <1>3, <1>4 DEF ControlTypes

(* What awaits the tasks of a session settles.                             *)
LEMMA Settles ==
  ASSUME ControlTypes, NEW p \in Procs, NEW w \in SUBSET (Sessions \X {"run", "title"}),
         op' = [op EXCEPT ![p].at = "settling", ![p].awaits = w]
  PROVE  /\ op' \in [Procs -> Calling] /\ \A q \in Procs \ {p} : op'[q] = op[q]
         /\ op'[p].at = "settling" /\ op'[p].kind = op[p].kind /\ op'[p].on = op[p].on
         /\ op'[p].expect = op[p].expect
<1>1. op[p] \in Calling BY DEF ControlTypes
<1> DEFINE r == [op[p] EXCEPT !.at = "settling", !.awaits = w]
<1>2. r \in Calling BY <1>1 DEF Calling, Points
<1>3. r.at = "settling" /\ r.kind = op[p].kind /\ r.on = op[p].on /\ r.expect = op[p].expect
  BY <1>1 DEF Calling
<1>4. op' = [op EXCEPT ![p] = r] BY <1>1 DEF ControlTypes, Calling
<1> HIDE DEF r
<1> QED BY <1>2, <1>3, <1>4 DEF ControlTypes

(* A directory that is opened on what is stored satisfies the invariant.   *)
LEMMA DirStarts == Init => DirInv
<1> SUFFICES ASSUME Init PROVE DirInv OBVIOUS
<1> USE NoCallIsCalling, Callers, LimitsAssumption
<1>0. 0 \in 0..MaxTime OBVIOUS
<1>1. StoreTypes
  <2>1. row \in [Sessions -> Rows] /\ revision \in [Sessions -> Nat] BY DEF Init, Rows
  <2>2. touched \in [Sessions -> 0..MaxTime] /\ activity \in [Sessions -> 0..MaxTime]
    BY <1>0 DEF Init
  <2> QED BY <2>1, <2>2 DEF Init, StoreTypes
<1>2. MemoryTypes BY DEF Init, MemoryTypes
<1>3. ControlTypes BY DEF Init, ControlTypes
<1>4. ScheduleTypes
  <2>1. pass \in [stage : Stages, began : 0..MaxTime, left : SUBSET (Sessions \X Nat)]
    BY <1>0 DEF Init, Stages
  <2> QED BY <1>0, <2>1 DEF Init, ScheduleTypes
<1>5. \A p \in Procs : op[p] = NoCall BY DEF Init
<1>6. CallsShaped BY <1>5 DEF CallsShaped
<1>7. GateIsHeld BY <1>5 DEF GateIsHeld, Init
<1>8. \A p \in Procs : ~Engaged(p) BY <1>5 DEF Engaged, NoCall, Deletions
<1>9. OneAtATime BY <1>5 DEF OneAtATime, Deciding, NoCall
<1>10. ClaimIsUsed BY DEF ClaimIsUsed, Init
<1>11. SessionIsHeld BY <1>5 DEF SessionIsHeld, NoCall
<1>12. DecisionStands BY <1>5, <1>8 DEF DecisionStands, NoCall, Deletions
<1>13. RowIsBacked BY DEF RowIsBacked, Init
<1>14. Creating BY <1>5 DEF Creating, NoCall
<1>15. MemoryIsBacked BY DEF MemoryIsBacked, Init
<1>16. DeletedIsGone BY DEF DeletedIsGone, Init
<1>17. FoundIdle BY <1>5 DEF FoundIdle, Init, Idle, NoCall
<1> QED BY <1>1, <1>2, <1>3, <1>4, <1>6, <1>7, <1>9, <1>10, <1>11, <1>12, <1>13, <1>14, <1>15,
           <1>16, <1>17 DEF DirInv, DirTypes

(***************************************************************************)
(* What the kinds of steps keep.                                           *)
(***************************************************************************)

(* Everything of the invariant that is about the data of the sessions.     *)
Listing ==
  /\ OneAtATime /\ ClaimIsUsed /\ SessionIsHeld /\ DecisionStands /\ RowIsBacked /\ Creating
  /\ MemoryIsBacked /\ DeletedIsGone

(* A loaded session that is being decided is frozen, or the decision has   *)
(* just been examined; nobody loads a session that is claimed.             *)
LEMMA HeldSession ==
  ASSUME DirInv, service = "open", NEW p \in Procs, Engaged(p),
         op[p].at = "examined" \/ op[p].at = "settling"
  PROVE  LET s == op[p].on IN
         /\ s \in Sessions
         /\ s \in loaded => claim[s] = Nobody /\ (op[p].at = "settling" => s \in frozen)
         /\ s \notin loaded => claim[s] = p /\ claim[s] # Nobody
<1>1. op[p].kind \in Deciders BY DEF Engaged, DirInv, CallsShaped, Shaped, Deletions
<1>2. op[p].on \in Sessions BY <1>1 DEF DirInv, CallsShaped, Shaped
<1>3. p # Nobody BY Callers
<1>4. frozen \subseteq loaded BY DEF DirInv, DirTypes, MemoryTypes
<1>5. /\ op[p].at = "examined" => op[p].on \in loaded \/ claim[op[p].on] = p
      /\ op[p].at = "settling" => op[p].on \in frozen \/ claim[op[p].on] = p
  BY <1>1 DEF DirInv, SessionIsHeld
<1>6. claim[op[p].on] # Nobody => op[p].on \notin loaded BY <1>2 DEF DirInv, ClaimIsUsed
<1> QED BY <1>2, <1>3, <1>4, <1>5, <1>6

(* A step that decides nothing: calls that are not engaged move, a live    *)
(* session may be loaded, the service may begin to close.                  *)
LEMMA Quiet ==
  ASSUME DirInv, UNCHANGED <<row, revision, file, frozen, claim, gone>>,
         \A q \in Procs : \/ op'[q] = op[q]
                          \/ /\ ~Engaged(q) /\ ~Engaged(q)'
                             /\ op[q].at # "registering" /\ op'[q].at # "registering",
         dirty' = dirty \/ \A q \in Procs : op[q].at # "registering",
         \/ loaded' = loaded
         \/ /\ service = "open" /\ gate = Nobody /\ loaded \subseteq loaded'
            /\ \A s \in loaded' : s \in loaded \/ (s \in Sessions /\ row[s] = "live" /\ claim[s] = Nobody),
         service' = "open" => service = "open", service' = "down" => service = "down"
  PROVE  Listing'
<1> USE DEF DirInv
<1>1. \A q \in Procs : /\ Engaged(q)' <=> Engaged(q)
                       /\ Engaged(q) => op'[q] = op[q]
                       /\ op[q].at = "registering" <=> op'[q].at = "registering"
                       /\ op[q].at = "registering" => op'[q] = op[q]
  BY DEF Engaged
<1>2. \A q \in Procs : op[q].at \in Deletions \cup {"registering"} => gate = q /\ gate # Nobody
  BY Callers DEF GateIsHeld, HeldPoints, Deletions
<1>3. \A s \in Sessions, q \in Procs : Deciding(q, s)' => Deciding(q, s)
  <2> SUFFICES ASSUME NEW s \in Sessions, NEW q \in Procs, Deciding(q, s)' PROVE Deciding(q, s)
    OBVIOUS
  <2>1. Engaged(q)' BY DEF Deciding, Engaged, Deletions, Deciders
  <2> QED BY <1>1, <2>1 DEF Deciding
<1>4. OneAtATime' BY <1>3 DEF OneAtATime
<1>5. ClaimIsUsed'
  <2> SUFFICES ASSUME NEW s \in Sessions, claim[s] # Nobody
               PROVE s \notin loaded' /\ Engaged(claim[s])' /\ op'[claim[s]].on = s
    BY DEF ClaimIsUsed
  <2>1. claim[s] \in Procs BY DEF DirTypes, ControlTypes
  <2>2. s \notin loaded /\ Engaged(claim[s]) /\ op[claim[s]].on = s BY DEF ClaimIsUsed
  <2> QED BY <1>1, <2>1, <2>2
<1>6. SessionIsHeld'
  <2> SUFFICES ASSUME service' = "open", NEW p \in Procs
               PROVE LET s == op'[p].on IN
                     /\ op'[p].at = "examined" => s \in loaded' \/ claim[s] = p
                     /\ op'[p].at = "settling" /\ op'[p].kind \in Deciders => s \in frozen \/ claim[s] = p
    BY DEF SessionIsHeld
  <2>1. CASE Engaged(p)' BY <1>1, <2>1 DEF SessionIsHeld
  <2>2. CASE ~Engaged(p)' BY <2>2 DEF Engaged
  <2> QED BY <2>1, <2>2
<1>7. DecisionStands'
  <2> SUFFICES ASSUME NEW p \in Procs, Engaged(p)'
               PROVE LET s == op'[p].on IN
                     /\ row[s] # "none"
                     /\ op'[p].at \in Deletions => row[s] = "deleting"
                     /\ op'[p].at \in {"forgotten", "cleaned"} => s \notin loaded'
                     /\ op'[p].at = "cleaned" => s \notin file
    BY DEF DecisionStands, Engaged, Deletions
  <2>1. op'[p] = op[p] /\ Engaged(p) BY <1>1
  <2>2. op[p].at \in {"forgotten", "cleaned"} => loaded' = loaded BY <1>2 DEF Deletions
  <2> QED BY <2>1, <2>2 DEF DecisionStands
<1>8. RowIsBacked' BY DEF RowIsBacked
<1>9. Creating'
  <2> SUFFICES ASSUME NEW p \in Procs, op'[p].at = "registering"
               PROVE op'[p].on \in loaded' \ (frozen \cup dirty' \cup gone) /\ revision[op'[p].on] = 0
    BY DEF Creating
  <2>1. op'[p] = op[p] /\ op[p].at = "registering" BY <1>1
  <2>2. loaded' = loaded /\ dirty' = dirty BY <1>2, <2>1
  <2> QED BY <2>1, <2>2 DEF Creating
<1>10. MemoryIsBacked'
  <2>1. loaded' \subseteq file BY DEF MemoryIsBacked, RowIsBacked
  <2>2. service' = "down" => loaded' = {} BY DEF MemoryIsBacked
  <2>3. ASSUME service' = "open", NEW s \in loaded'
        PROVE row[s] = "live" \/ \E p \in Procs : op'[p].at \in {"marked", "registering"} /\ op'[p].on = s
    <3>1. CASE s \in loaded
      <4>1. CASE row[s] = "live" BY <4>1
      <4>2. CASE row[s] # "live"
        <5>1. PICK p \in Procs : op[p].at \in {"marked", "registering"} /\ op[p].on = s
          BY <2>3, <3>1, <4>2 DEF MemoryIsBacked
        <5>2. op'[p] = op[p] BY <1>1, <5>1 DEF Engaged, Deletions
        <5> QED BY <5>1, <5>2
      <4> QED BY <4>1, <4>2
    <3>2. CASE s \notin loaded BY <2>3, <3>2
    <3> QED BY <3>1, <3>2
  <2> QED BY <2>1, <2>2, <2>3 DEF MemoryIsBacked
<1>11. DeletedIsGone'
  <2>1. \A s \in loaded' : s \in loaded \/ row[s] = "live" OBVIOUS
  <2> QED BY <2>1 DEF DeletedIsGone
<1> QED BY <1>4, <1>5, <1>6, <1>7, <1>8, <1>9, <1>10, <1>11 DEF Listing

(* What maintenance found idle stays so in steps of others that load no    *)
(* claimed session, start no run of a frozen one, and touch nothing that   *)
(* is idle and frozen.                                                     *)
LEMMA IdleStays ==
  ASSUME DirInv, UNCHANGED pass, op'[Maintenance] = op[Maintenance],
         service' = "open" => service = "open",
         \A s \in loaded' : s \in loaded \/ claim[s] = Nobody,
         \A s \in loaded : (s \in frozen \/ gate = Maintenance) /\ "run" \notin work[s]
                           => "run" \notin work'[s] /\ (Shown(s) <= Cutoff => Shown(s)' <= Cutoff)
  PROVE  FoundIdle'
<1> USE DEF DirInv
<1>1. (~Idle(Maintenance) => pass.stage # "idle")' /\ (pass.stage = "idle" => pass.left = {})'
  BY DEF FoundIdle, Idle
<1> DEFINE s == op[Maintenance].on
<1>2. SUFFICES ASSUME service = "open", op[Maintenance].kind = "archive",
                      op[Maintenance].at \in {"examined", "settling"}, s \in loaded'
               PROVE "run" \notin work'[s] /\ Shown(s)' <= Cutoff
  BY <1>1 DEF FoundIdle, Cutoff
<1>3. Maintenance \in Procs /\ Engaged(Maintenance) BY <1>2, Callers DEF Engaged, Deciders
<1>4. /\ s \in loaded => claim[s] = Nobody /\ (op[Maintenance].at = "settling" => s \in frozen)
      /\ s \notin loaded => claim[s] # Nobody
  BY <1>2, <1>3, HeldSession
<1>5. op[Maintenance].at = "examined" => gate = Maintenance BY <1>3 DEF GateIsHeld, HeldPoints
<1>6. s \in loaded BY <1>2, <1>4
<1>7. "run" \notin work[s] /\ Shown(s) <= Cutoff BY <1>2, <1>6 DEF FoundIdle
<1> QED BY <1>2, <1>4, <1>5, <1>6, <1>7

(* Who decides about a session is alone with it; the others that decide    *)
(* wait for theirs to settle.                                              *)
LEMMA Alone ==
  ASSUME DirInv, NEW p \in Procs, Deciding(p, op[p].on), op[p].on \in Sessions,
         gate = p \/ gate = Nobody, NEW q \in Procs, q # p
  PROVE  /\ Engaged(q) => op[q].at = "settling" /\ op[q].on # op[p].on
         /\ op[q].at # "registering"
<1> USE DEF DirInv
<1>1. op[q].at \notin HeldPoints BY Callers DEF GateIsHeld
<1>2. op[q].at # "registering" BY <1>1 DEF HeldPoints
<1>3. ASSUME Engaged(q) PROVE op[q].at = "settling" /\ op[q].on # op[p].on
  <2>1. op[q].at = "settling" /\ op[q].kind \in Deciders
    BY <1>1, <1>3 DEF Engaged, HeldPoints, Deletions
  <2>2. op[q].on = op[p].on => Deciding(q, op[p].on) BY <2>1 DEF Deciding, Deciders
  <2>3. op[q].on # op[p].on BY <2>2 DEF OneAtATime
  <2> QED BY <2>1, <2>3
<1> QED BY <1>2, <1>3

(* A step of a decision that holds its session: it changes what belongs to *)
(* that session, and ends the call or goes on with the deletion.           *)
LEMMA DecisionStep ==
  ASSUME DirInv, NEW p \in Procs, NEW s \in Sessions, s = op[p].on, Deciding(p, s),
         gate = p \/ gate = Nobody, UNCHANGED service,
         \A q \in Procs \ {p} : op'[q] = op[q],
         \/ op'[p] = NoCall /\ Release(p)
         \/ op'[p].on = s /\ op'[p].at \in Deletions /\ op'[p].kind = "delete" /\ UNCHANGED claim,
         \A x \in Sessions \ {s} : /\ row'[x] = row[x] /\ revision'[x] = revision[x]
                                   /\ x \in file' <=> x \in file
                                   /\ x \in frozen' <=> x \in frozen
                                   /\ x \in gone' => x \in gone,
         loaded' \subseteq loaded, frozen' \subseteq Sessions, gone' \subseteq Sessions,
         file' \subseteq Sessions,
         op'[p].at \in Deletions =>
           /\ row'[s] = "deleting"
           /\ op'[p].at \in {"forgotten", "cleaned"} => s \notin loaded'
           /\ op'[p].at = "cleaned" => s \notin file',
         row'[s] # "none" => revision'[s] > 0, row'[s] \in {"live", "archived"} => s \in file',
         s \in loaded' => s \in file',
         service = "open" /\ s \in loaded' => row'[s] = "live" \/ op'[p].at = "marked",
         s \in gone' => row'[s] = "none" /\ s \notin file' \cup loaded'
  PROVE  Listing'
<1> USE DEF DirInv
<1>1. claim \in [Sessions -> Procs \cup {Nobody}] /\ loaded \subseteq Sessions
  BY DEF DirTypes, ControlTypes, MemoryTypes
<1>2. \A q \in Procs \ {p} : /\ Engaged(q) => op[q].at = "settling" /\ op[q].on # s
                             /\ op[q].at # "registering"
                             /\ Engaged(q)' <=> Engaged(q)
  BY Alone DEF Engaged
<1>3. op'[p] = NoCall =>
        ~Engaged(p)' /\ op'[p].at \notin Deletions \cup {"registering", "examined", "settling"}
  BY DEF NoCall, Engaged, Deletions
<1>4. op'[p].at \in Deletions => op'[p].at \notin {"registering", "examined", "settling"} /\ Engaged(p)'
  BY DEF Deletions, Engaged
<1>5. \A q \in Procs \ {p} : Engaged(q) => op[q].on \in Sessions
  BY <1>2 DEF Engaged, CallsShaped, Shaped, Deletions
<1>6. OneAtATime'
  <2> SUFFICES ASSUME NEW x \in Sessions, NEW a \in Procs, NEW b \in Procs,
                      Deciding(a, x)', Deciding(b, x)', a # b
               PROVE FALSE
    BY DEF OneAtATime
  <2>1. \A q \in Procs : Deciding(q, x)' => Engaged(q)' /\ op'[q].on = x
    BY DEF Deciding, Engaged, Deletions, Deciders
  <2>2. CASE a # p /\ b # p BY <2>2 DEF OneAtATime, Deciding
  <2>3. CASE a = p
    <3>1. op'[p].on = s BY <1>3, <2>1, <2>3
    <3> QED BY <1>2, <2>1, <2>3, <3>1
  <2>4. CASE b = p
    <3>1. op'[p].on = s BY <1>3, <2>1, <2>4
    <3> QED BY <1>2, <2>1, <2>4, <3>1
  <2> QED BY <2>2, <2>3, <2>4
<1>7. ClaimIsUsed'
  <2> SUFFICES ASSUME NEW x \in Sessions, claim'[x] # Nobody
               PROVE (x \notin loaded /\ Engaged(claim[x]) /\ op[claim[x]].on = x)'
    BY DEF ClaimIsUsed
  <2>1. claim'[x] = claim[x] /\ (op'[p] = NoCall => claim[x] # p) BY <1>1, <1>3 DEF Release
  <2>2. claim[x] \in Procs BY <1>1, <2>1
  <2>3. x \notin loaded /\ Engaged(claim[x]) /\ op[claim[x]].on = x BY <2>1 DEF ClaimIsUsed
  <2>4. CASE claim[x] # p
    <3>1. op'[claim[x]] = op[claim[x]] BY <2>2, <2>4
    <3> QED BY <2>1, <2>3, <3>1 DEF Engaged
  <2>5. CASE claim[x] = p
    <3>1. op'[p].on = s /\ op'[p].at \in Deletions BY <2>1, <2>5
    <3> QED BY <2>1, <2>3, <2>5, <3>1 DEF Engaged
  <2> QED BY <2>4, <2>5
<1>8. SessionIsHeld'
  <2> SUFFICES ASSUME service = "open", NEW q \in Procs
               PROVE LET x == op'[q].on IN
                     /\ op'[q].at = "examined" => x \in loaded' \/ claim'[x] = q
                     /\ op'[q].at = "settling" /\ op'[q].kind \in Deciders => x \in frozen' \/ claim'[x] = q
    BY DEF SessionIsHeld
  <2>1. CASE q = p BY <1>3, <1>4, <2>1
  <2>2. CASE q # p
    <3>1. op'[q].at # "examined" BY <1>2, <2>2 DEF Engaged
    <3>2. ASSUME op'[q].at = "settling", op'[q].kind \in Deciders
          PROVE op'[q].on \in frozen' \/ claim'[op'[q].on] = q
      <4>1. Engaged(q) /\ op'[q] = op[q] BY <2>2, <3>2 DEF Engaged
      <4>2. op[q].on \in Sessions \ {s} BY <1>2, <1>5, <2>2, <4>1
      <4>3. op[q].on \in frozen \/ claim[op[q].on] = q BY <3>2, <4>1 DEF SessionIsHeld
      <4>4. claim[op[q].on] = q => claim'[op[q].on] = q BY <1>1, <2>2, <4>2 DEF Release
      <4> QED BY <4>1, <4>2, <4>3, <4>4
    <3> QED BY <3>1, <3>2
  <2> QED BY <2>1, <2>2
<1>9. DecisionStands'
  <2> SUFFICES ASSUME NEW q \in Procs, Engaged(q)'
               PROVE LET x == op'[q].on IN
                     /\ row'[x] # "none"
                     /\ op'[q].at \in Deletions => row'[x] = "deleting"
                     /\ op'[q].at \in {"forgotten", "cleaned"} => x \notin loaded'
                     /\ op'[q].at = "cleaned" => x \notin file'
    BY DEF DecisionStands, Engaged, Deletions
  <2>1. CASE q = p
    <3>1. op'[p].on = s /\ op'[p].at \in Deletions BY <1>3, <2>1
    <3> QED BY <2>1, <3>1
  <2>2. CASE q # p
    <3>1. Engaged(q) /\ op'[q] = op[q] /\ op[q].at = "settling" BY <1>2, <2>2
    <3>2. op[q].on \in Sessions \ {s} BY <1>2, <1>5, <2>2, <3>1
    <3>3. row[op[q].on] # "none" BY <3>1 DEF DecisionStands
    <3> QED BY <3>1, <3>2, <3>3 DEF Deletions
  <2> QED BY <2>1, <2>2
<1>10. RowIsBacked' BY DEF RowIsBacked
<1>11. Creating' BY <1>2, <1>3, <1>4 DEF Creating
<1>12. MemoryIsBacked'
  <2>1. loaded' \subseteq file'
    <3> SUFFICES ASSUME NEW x \in loaded' PROVE x \in file' OBVIOUS
    <3>1. CASE x = s BY <3>1
    <3>2. CASE x # s BY <1>1, <3>2 DEF MemoryIsBacked
    <3> QED BY <3>1, <3>2
  <2>2. service' = "down" => loaded' = {} BY DEF MemoryIsBacked
  <2>3. ASSUME service' = "open", NEW x \in loaded'
        PROVE row'[x] = "live" \/ \E q \in Procs : op'[q].at \in {"marked", "registering"} /\ op'[q].on = x
    <3>1. CASE x = s
      <4>1. row'[s] = "live" \/ op'[p].at = "marked" BY <2>3, <3>1
      <4>2. op'[p].at = "marked" => op'[p].on = s BY <1>3 DEF Deletions
      <4> QED BY <3>1, <4>1, <4>2
    <3>2. CASE x # s
      <4>1. row[x] = "live" \/ \E q \in Procs : op[q].at \in {"marked", "registering"} /\ op[q].on = x
        BY <2>3 DEF MemoryIsBacked
      <4>2. ASSUME NEW q \in Procs, op[q].at \in {"marked", "registering"} /\ op[q].on = x PROVE FALSE
        <5>1. q # p BY <3>2, <4>2
        <5>2. Engaged(q) \/ op[q].at = "registering" BY <4>2 DEF Engaged, Deletions
        <5> QED BY <1>2, <4>2, <5>1, <5>2
      <4>3. row[x] = "live" BY <4>1, <4>2
      <4> QED BY <1>1, <3>2, <4>3
    <3> QED BY <3>1, <3>2
  <2> QED BY <2>1, <2>2, <2>3 DEF MemoryIsBacked
<1>13. DeletedIsGone'
  <2> SUFFICES ASSUME NEW x \in gone' PROVE row'[x] = "none" /\ x \notin file' \cup loaded'
    BY DEF DeletedIsGone
  <2>1. CASE x = s BY <2>1
  <2>2. CASE x # s BY <2>2 DEF DeletedIsGone
  <2> QED BY <2>1, <2>2
<1> QED BY <1>6, <1>7, <1>8, <1>9, <1>10, <1>11, <1>12, <1>13 DEF Listing

(***************************************************************************)
(* The actions.                                                            *)
(***************************************************************************)

(* A flush, done or failed, changes nothing that memory shows.             *)
LEMMA Flushes ==
  ASSUME StoreTypes, NEW s \in Sessions, Flushed(s) \/ FlushFailed(s)
  PROVE  /\ touched' \in [Sessions -> 0..MaxTime] /\ dirty' \subseteq dirty \cup {s}
         /\ \A x \in Sessions : Max2(touched'[x], activity[x]) = Shown(x)
<1>1. \A x \in Sessions : /\ touched[x] \in 0..MaxTime /\ activity[x] \in 0..MaxTime
                          /\ Shown(x) \in 0..MaxTime
  BY MaxOfTwo DEF StoreTypes, Shown
<1>2. CASE UNCHANGED touched BY <1>2 DEF Flushed, FlushFailed, Shown, StoreTypes
<1>3. CASE Flushed(s)
  <2>1. touched' = [touched EXCEPT ![s] = Shown(s)] BY <1>3 DEF Flushed, Put
  <2>2. touched' \in [Sessions -> 0..MaxTime] BY <1>1, <2>1 DEF StoreTypes
  <2>3. ASSUME NEW x \in Sessions PROVE Max2(touched'[x], activity[x]) = Shown(x)
    <3>1. CASE x = s
      <4>1. touched'[x] = Shown(x) BY <2>1, <3>1 DEF StoreTypes
      <4> QED BY <1>1, <4>1 DEF Shown, Max2
    <3>2. CASE x # s
      <4>1. touched'[x] = touched[x] BY <2>1, <3>2 DEF StoreTypes
      <4> QED BY <4>1 DEF Shown
    <3> QED BY <3>1, <3>2
  <2> QED BY <1>3, <2>2, <2>3 DEF Flushed
<1> QED BY <1>2, <1>3 DEF Flushed, FlushFailed

(* A load, done, failed or refused: only a live, unclaimed session comes   *)
(* into memory.                                                            *)
LEMMA Loads ==
  ASSUME DirInv, NEW s \in Sessions,
         Fetched(s) \/ LoadFailed(s) \/ UNCHANGED <<loaded, touched, dirty>>
  PROVE  /\ touched' \in [Sessions -> 0..MaxTime]
         /\ dirty' \subseteq loaded' /\ loaded' \subseteq Sessions /\ loaded \subseteq loaded'
         /\ \A x \in Sessions : Max2(touched'[x], activity[x]) = Shown(x)
         /\ loaded' = loaded \/ service = "open"
         /\ \A x \in loaded' : x \in loaded \/ (row[x] = "live" /\ claim[x] = Nobody)
         /\ Fetched(s) => s \in loaded' /\ Loadable(s)
<1> USE DEF DirInv, DirTypes, MemoryTypes
<1>1. CASE UNCHANGED <<touched, dirty>>
  <2>1. loaded' = loaded \/ (loaded' = loaded \cup {s} /\ Loadable(s))
    BY <1>1 DEF Fetched, LoadFailed
  <2> QED BY <1>1, <2>1 DEF Loadable, Fetched, Shown, StoreTypes
<1>2. CASE Loadable(s) /\ loaded' = loaded \cup {s} /\ (Flushed(s) \/ FlushFailed(s))
  BY <1>2, Flushes DEF Loadable
<1> QED BY <1>1, <1>2 DEF Fetched, LoadFailed

(* A step that decides nothing keeps the invariant if it keeps types, the  *)
(* shape of calls and the gate, and what maintenance found idle.           *)
LEMMA QuietKeeps ==
  ASSUME DirTypes', CallsShaped', GateIsHeld', Listing', FoundIdle'
  PROVE  DirInv'
BY DEF DirInv, Listing

(* The tasks of a session, and the end of a view.                          *)
LEMMA TasksKeep ==
  ASSUME DirInv, NEW s \in Sessions, Task(s)
  PROVE  DirInv'
<1> USE DEF DirInv
<1>1. /\ UNCHANGED <<row, revision, file, deletes, service, loaded, frozen, creations, viewers>>
      /\ UNCHANGED <<gate, claim, op, schedule, now, gone>>
  BY DEF Task, EndRun, Flush, BeginTitle, EndTitle, store, memory, counters
<1>2. \A x \in Sessions : /\ touched[x] \in 0..MaxTime /\ activity[x] \in 0..MaxTime
                          /\ Shown(x) \in 0..MaxTime
  BY MaxOfTwo DEF DirTypes, StoreTypes, Shown
<1>3. now \in 0..MaxTime BY DEF DirTypes, ScheduleTypes
<1>4. work' \in [Sessions -> SUBSET {"run", "flush", "title"}]
      /\ \A x \in Sessions : "run" \in work'[x] => "run" \in work[x]
  <2> DEFINE tasks == {"run", "flush", "title"}
  <2>1. \E w \in SUBSET tasks : work' = [work EXCEPT ![s] = w] /\ ("run" \in w => "run" \in work[s])
    <3>1. work[s] \subseteq tasks BY DEF DirTypes, MemoryTypes
    <3>2. CASE EndRun(s)
      <4>1. PICK title \in SUBSET {"title"} :
                   work' = [work EXCEPT ![s] = (work[s] \ {"run"}) \cup {"flush"} \cup title]
        BY <3>2 DEF EndRun
      <4> DEFINE w == (work[s] \ {"run"}) \cup {"flush"} \cup title
      <4>2. w \in SUBSET tasks /\ "run" \notin w BY <3>1
      <4> QED BY <4>1, <4>2
    <3>3. CASE Flush(s) BY <3>1, <3>3 DEF Flush
    <3>4. CASE BeginTitle(s) BY <3>1, <3>4 DEF BeginTitle
    <3>5. CASE EndTitle(s) BY <3>1, <3>5 DEF EndTitle
    <3> QED BY <3>2, <3>3, <3>4, <3>5 DEF Task
  <2> QED BY <2>1 DEF DirTypes, MemoryTypes
<1>5. /\ touched' \in [Sessions -> 0..MaxTime] /\ activity' \in [Sessions -> 0..MaxTime]
      /\ dirty' \subseteq loaded
      /\ \A x \in Sessions : (x \in frozen \/ gate = Maintenance) /\ "run" \notin work[x]
                             => Max2(touched'[x], activity'[x]) = Shown(x)
      /\ dirty' = dirty \/ gate = Nobody
  <2> USE DEF DirTypes, StoreTypes, MemoryTypes
  <2>1. CASE EndRun(s)
    <3>1. UNCHANGED <<touched, dirty>> /\ "run" \in work[s] BY <2>1 DEF EndRun, memory
    <3>2. activity' = activity \/ activity' = [activity EXCEPT ![s] = now]
      BY <2>1 DEF EndRun, Put
    <3> QED BY <1>3, <3>1, <3>2 DEF Shown
  <2>2. CASE Flush(s)
    <3>1. UNCHANGED activity /\ gate = Nobody BY <2>2 DEF Flush
    <3>2. UNCHANGED <<touched, dirty>> \/ (s \in loaded /\ (Flushed(s) \/ FlushFailed(s)))
      BY <2>2 DEF Flush
    <3>3. CASE UNCHANGED <<touched, dirty>> BY <3>1, <3>3 DEF Shown
    <3>4. CASE s \in loaded /\ (Flushed(s) \/ FlushFailed(s))
      <4>1. /\ touched' \in [Sessions -> 0..MaxTime] /\ dirty' \subseteq dirty \cup {s}
            /\ \A x \in Sessions : Max2(touched'[x], activity[x]) = Shown(x)
        BY <3>4, Flushes
      <4> QED BY <3>1, <3>4, <4>1
    <3> QED BY <3>2, <3>3, <3>4
  <2>3. CASE BeginTitle(s) BY <2>3 DEF BeginTitle, store, memory, Shown
  <2>4. CASE EndTitle(s)
    <3>1. UNCHANGED <<activity, dirty>> /\ gate = Nobody BY <2>4 DEF EndTitle, memory
    <3>2. CASE UNCHANGED touched BY <3>1, <3>2 DEF Shown
    <3>3. CASE Schedulable(s) /\ touched' = Put(touched, s, Max2(Shown(s), now))
      <4>1. s \notin frozen BY <3>3 DEF Schedulable
      <4>2. Max2(Shown(s), now) \in 0..MaxTime BY <1>2, <1>3, MaxOfTwo
      <4>3. touched' = [touched EXCEPT ![s] = Max2(Shown(s), now)] BY <3>3 DEF Put
      <4>4. touched' \in [Sessions -> 0..MaxTime] /\ \A x \in Sessions \ {s} : touched'[x] = touched[x]
        BY <4>2, <4>3
      <4> QED BY <3>1, <4>1, <4>4, Callers DEF Shown
    <3> QED BY <2>4, <3>2, <3>3 DEF EndTitle
  <2> QED BY <2>1, <2>2, <2>3, <2>4 DEF Task
<1>6. DirTypes'
  <2>1. StoreTypes' BY <1>1, <1>5 DEF DirTypes, StoreTypes
  <2>2. MemoryTypes' BY <1>1, <1>4, <1>5 DEF DirTypes, MemoryTypes
  <2>3. ControlTypes' BY <1>1 DEF DirTypes, ControlTypes
  <2>4. ScheduleTypes' BY <1>1 DEF DirTypes, ScheduleTypes, schedule
  <2> QED BY <2>1, <2>2, <2>3, <2>4 DEF DirTypes
<1>7. CallsShaped' /\ GateIsHeld' BY <1>1 DEF CallsShaped, GateIsHeld
<1>8. dirty' = dirty \/ \A q \in Procs : op[q].at # "registering"
  BY <1>5, Callers DEF GateIsHeld, HeldPoints
<1>9. Listing' BY <1>1, <1>8, Quiet
<1>10. FoundIdle'
  <2>1. loaded \subseteq Sessions BY DEF DirTypes, MemoryTypes
  <2>2. \A x \in loaded : (x \in frozen \/ gate = Maintenance) /\ "run" \notin work[x]
                          => "run" \notin work'[x] /\ (Shown(x) <= Cutoff => Shown(x)' <= Cutoff)
    BY <1>4, <1>5, <2>1 DEF Shown
  <2> QED BY <1>1, <2>2, IdleStays DEF schedule
<1> QED BY <1>6, <1>7, <1>9, <1>10, QuietKeeps

(* A client's call that is answered or moves on without a decision.        *)
LEMMA ClientMoves ==
  ASSUME DirInv, NEW c \in Clients, op' \in [Procs -> Calling],
         \A q \in Procs \ {c} : op'[q] = op[q],
         op[c].at \in {"idle", "queued", "flushing", "stopping"}, Shaped(op[c]),
         \/ op'[c] = NoCall
         \/ op'[c].at = "queued" /\ Shaped(op'[c])
         \/ op'[c].at = "flushing" /\ op[c].kind = "start" /\ op'[c].kind = op[c].kind /\ op'[c].on = op[c].on
         \/ op'[c].at = "stopping" /\ op[c].kind = "close" /\ op'[c].kind = op[c].kind
         \/ op'[c].at = "settling" /\ op[c].kind = "close" /\ op'[c].kind = op[c].kind,
         \/ gate = Nobody /\ gate' = IF op'[c].at = "flushing" THEN c ELSE Nobody
         \/ op[c].at = "flushing" /\ op'[c] = NoCall /\ gate' = Nobody
         \/ op[c].at # "flushing" /\ op'[c].at # "flushing" /\ gate' = gate
  PROVE  /\ CallsShaped' /\ GateIsHeld' /\ op'[Maintenance] = op[Maintenance]
         /\ gate' \in Procs \cup {Nobody}
         /\ \A q \in Procs : \/ op'[q] = op[q]
                             \/ /\ ~Engaged(q) /\ ~Engaged(q)'
                                /\ op[q].at # "registering" /\ op'[q].at # "registering"
<1> USE DEF DirInv
<1>1. c \in Procs /\ c # Maintenance /\ Maintenance \in Procs /\ c # Nobody BY Callers DEF Procs
<1>2. CallsShaped'
  <2>1. Shaped(op'[c]) BY NoCallIsCalling DEF Shaped, Deciders, Deletions
  <2> QED BY <1>1, <2>1 DEF CallsShaped
<1>3. /\ op[c].at = "flushing" <=> op[c].at \in HeldPoints
      /\ op'[c].at = "flushing" <=> op'[c].at \in HeldPoints
  BY NoCallIsCalling DEF HeldPoints
<1>4. \A q \in Procs : op[q].at \in HeldPoints <=> gate = q BY DEF GateIsHeld
<1>5. GateIsHeld'
  <2> SUFFICES ASSUME NEW q \in Procs PROVE op'[q].at \in HeldPoints <=> gate' = q
    BY DEF GateIsHeld
  <2>1. CASE q = c BY <1>1, <1>3, <1>4, <2>1, NoCallIsCalling
  <2>2. CASE q # c BY <1>1, <1>3, <1>4, <2>2, Callers
  <2> QED BY <2>1, <2>2
<1>6. ~Engaged(c) /\ ~Engaged(c)' /\ op[c].at # "registering" /\ op'[c].at # "registering"
  BY NoCallIsCalling DEF Engaged, Deletions, Deciders, NoCall
<1> QED BY <1>1, <1>2, <1>5, <1>6 DEF DirTypes, ControlTypes

(* A clients call, and what reads and views.                               *)
LEMMA ReadsKeep ==
  ASSUME DirInv, NEW c \in Clients, Read(c) \/ View(c) \/ SavePolicy(c) \/ BeginClose(c) \/ CloseState(c)
  PROVE  DirInv'
<1> USE DEF DirInv
<1>1. c \in Procs /\ ControlTypes /\ Shaped(op[c]) BY DEF Procs, DirTypes, CallsShaped
<1>2. UNCHANGED <<row, revision, file, activity, frozen, creations, work, gate, claim, pass, now, gone>>
  BY DEF Read, View, SavePolicy, BeginClose, CloseState, store, memory, schedule, counters
<1>3. /\ op' \in [Procs -> Calling] /\ \A q \in Procs \ {c} : op'[q] = op[q]
      /\ op[c].at \in {"queued", "stopping"}
      /\ \/ op'[c] = NoCall
         \/ op'[c].at = "stopping" /\ op[c].kind = "close" /\ op'[c].kind = op[c].kind
         \/ op'[c].at = "settling" /\ op[c].kind = "close" /\ op'[c].kind = op[c].kind
      /\ op'[c].at # "flushing"
  <2>1. CASE Read(c) \/ View(c) \/ SavePolicy(c)
    BY <1>1, <2>1, Answered1, NoCallIsCalling DEF Read, View, SavePolicy, At, HeldPoints
  <2>2. CASE BeginClose(c)
    <3>1. Proceed(c, "stopping") /\ "stopping" \in Points /\ At(c, "close", "queued")
      BY <2>2 DEF BeginClose, Points
    <3> QED BY <1>1, <3>1, Proceeds DEF At
  <2>3. CASE CloseState(c)
    <3> DEFINE w == UNION {Tokens(s) : s \in loaded}
    <3>1. w \in SUBSET (Sessions \X {"run", "title"}) BY DEF Tokens, DirTypes, MemoryTypes
    <3>2. op' = [op EXCEPT ![c].at = "settling", ![c].awaits = w] /\ At(c, "close", "stopping")
      BY <2>3 DEF CloseState
    <3> HIDE DEF w
    <3> QED BY <1>1, <3>1, <3>2, Settles DEF At
  <2> QED BY <2>1, <2>2, <2>3
<1>4. /\ CallsShaped' /\ GateIsHeld' /\ op'[Maintenance] = op[Maintenance]
      /\ \A q \in Procs : \/ op'[q] = op[q]
                          \/ /\ ~Engaged(q) /\ ~Engaged(q)'
                             /\ op[q].at # "registering" /\ op'[q].at # "registering"
  BY <1>1, <1>2, <1>3, ClientMoves
<1>5. /\ touched' \in [Sessions -> 0..MaxTime]
      /\ dirty' \subseteq loaded' /\ loaded' \subseteq Sessions /\ loaded \subseteq loaded'
      /\ \A x \in Sessions : Max2(touched'[x], activity[x]) = Shown(x)
      /\ \/ loaded' = loaded
         \/ service = "open" /\ gate = Nobody
      /\ \A x \in loaded' : x \in loaded \/ (row[x] = "live" /\ claim[x] = Nobody)
      /\ dirty' = dirty \/ gate = Nobody
  <2>1. CASE Read(c)
    <3>1. op[c].on \in Sessions BY <1>1, <2>1 DEF Read, At, Shaped
    <3>2. \/ Fetched(op[c].on) \/ LoadFailed(op[c].on) \/ UNCHANGED <<loaded, touched, dirty>>
      BY <2>1 DEF Read
    <3> QED BY <2>1, <3>1, <3>2, Loads DEF Read
  <2>2. CASE View(c) \/ SavePolicy(c) \/ BeginClose(c) \/ CloseState(c)
    BY <2>2 DEF View, SavePolicy, BeginClose, CloseState, store, memory, Shown, DirTypes, StoreTypes,
                MemoryTypes
  <2> QED BY <2>1, <2>2
<1>6. /\ service' \in {"open", "closing", "down"} /\ (service' = "open" => service = "open")
      /\ (service' = "down" => service = "down")
  BY DEF Read, View, SavePolicy, BeginClose, CloseState, memory, DirTypes, MemoryTypes
<1>7. viewers' \subseteq Sessions \X Clients
  <2>1. CASE View(c)
    <3>1. op[c].on \in Sessions BY <1>1, <2>1 DEF View, At, Shaped
    <3> QED BY <2>1, <3>1 DEF View, DirTypes, MemoryTypes
  <2> QED BY <2>1 DEF Read, SavePolicy, BeginClose, CloseState, memory, DirTypes, MemoryTypes
<1>8. deletes' \in BOOLEAN /\ timer' \in BOOLEAN /\ due' \in BOOLEAN
  BY DEF Read, View, SavePolicy, BeginClose, CloseState, store, schedule, DirTypes, StoreTypes, ScheduleTypes
<1>9. DirTypes'
  <2>1. StoreTypes' BY <1>2, <1>5, <1>8 DEF DirTypes, StoreTypes
  <2>2. MemoryTypes' BY <1>2, <1>5, <1>6, <1>7 DEF DirTypes, MemoryTypes
  <2>3. ControlTypes' BY <1>2, <1>3 DEF DirTypes, ControlTypes
  <2>4. ScheduleTypes' BY <1>2, <1>8 DEF DirTypes, ScheduleTypes
  <2> QED BY <2>1, <2>2, <2>3, <2>4 DEF DirTypes
<1>10. dirty' = dirty \/ \A q \in Procs : op[q].at # "registering"
  BY <1>5, Callers DEF GateIsHeld, HeldPoints
<1>11. Listing' BY <1>2, <1>4, <1>5, <1>6, <1>10, Quiet
<1>12. FoundIdle'
  <2>1. loaded \subseteq Sessions BY DEF DirTypes, MemoryTypes
  <2>2. \A x \in loaded : Shown(x)' = Shown(x) BY <1>2, <1>5, <2>1 DEF Shown
  <2> QED BY <1>2, <1>4, <1>5, <1>6, <2>2, IdleStays
<1> QED BY <1>4, <1>9, <1>11, <1>12, QuietKeeps

(* The start of a run, in its two sections.                                *)
LEMMA StartsKeep ==
  ASSUME DirInv, NEW c \in Clients, StartRun(c) \/ FlushStart(c)
  PROVE  DirInv'
<1> USE DEF DirInv
<1>1. c \in Procs /\ ControlTypes /\ Shaped(op[c]) /\ c # Maintenance /\ c # Nobody
  BY Callers DEF Procs, DirTypes, CallsShaped
<1> DEFINE s == op[c].on
<1>2. s \in Sessions /\ op[c].kind = "start" BY <1>1 DEF StartRun, FlushStart, At, Shaped
<1>3. UNCHANGED <<row, revision, file, deletes, service, frozen, creations, viewers, claim, schedule,
                  now, gone>>
  BY DEF StartRun, FlushStart
<1>4. /\ op' \in [Procs -> Calling] /\ \A q \in Procs \ {c} : op'[q] = op[q]
      /\ op[c].at \in {"queued", "flushing"}
      /\ \/ op'[c] = NoCall
         \/ op'[c].at = "flushing" /\ op'[c].kind = op[c].kind /\ op'[c].on = op[c].on
      /\ \/ gate = Nobody /\ gate' = IF op'[c].at = "flushing" THEN c ELSE Nobody
         \/ op[c].at = "flushing" /\ op'[c] = NoCall /\ gate' = Nobody
  <2>1. CASE Answer(c)
    <3>1. op[c].at \in {"queued", "flushing"} /\ (gate = Nobody \/ op[c].at = "flushing") /\ gate' = Nobody
      BY <2>1, NoCallIsCalling, <1>1 DEF StartRun, FlushStart, At, Answer, Proceed, ControlTypes, Calling
    <3>2. op'[c].at # "flushing" BY <1>1, <2>1, Answered1, NoCallIsCalling DEF HeldPoints
    <3> QED BY <1>1, <2>1, <3>1, <3>2, Answered1
  <2>2. CASE StartRun(c) /\ Proceed(c, "flushing") /\ gate' = c
    <3>1. "flushing" \in Points BY DEF Points
    <3> QED BY <1>1, <2>2, <3>1, Proceeds DEF StartRun, At
  <2> QED BY <2>1, <2>2 DEF StartRun, FlushStart
<1>5. /\ CallsShaped' /\ GateIsHeld' /\ op'[Maintenance] = op[Maintenance]
      /\ gate' \in Procs \cup {Nobody}
      /\ \A q \in Procs : \/ op'[q] = op[q]
                          \/ /\ ~Engaged(q) /\ ~Engaged(q)'
                             /\ op[q].at # "registering" /\ op'[q].at # "registering"
  BY <1>1, <1>2, <1>4, ClientMoves
<1>6. gate = Nobody \/ gate = c BY <1>1, <1>4 DEF GateIsHeld, HeldPoints
<1>7. /\ touched' \in [Sessions -> 0..MaxTime]
      /\ dirty' \subseteq loaded' /\ loaded' \subseteq Sessions /\ loaded \subseteq loaded'
      /\ \A x \in Sessions : Max2(touched'[x], activity[x]) = Shown(x)
      /\ loaded' = loaded \/ (service = "open" /\ gate = Nobody)
      /\ \A x \in loaded' : x \in loaded \/ (row[x] = "live" /\ claim[x] = Nobody)
  <2>1. CASE StartRun(c)
    <3>1. \/ Fetched(s) \/ LoadFailed(s) \/ UNCHANGED <<loaded, touched, dirty>>
      BY <2>1 DEF StartRun
    <3> QED BY <1>2, <2>1, <3>1, Loads DEF StartRun
  <2>2. CASE FlushStart(c)
    <3>1. UNCHANGED <<loaded, activity>> BY <2>2 DEF FlushStart
    <3>2. CASE s \in loaded /\ (Flushed(s) \/ FlushFailed(s))
      BY <1>2, <3>1, <3>2, Flushes DEF DirTypes, MemoryTypes
    <3>3. CASE UNCHANGED <<touched, dirty>>
      BY <3>1, <3>3 DEF Shown, DirTypes, StoreTypes, MemoryTypes
    <3> QED BY <2>2, <3>2, <3>3 DEF FlushStart
  <2> QED BY <2>1, <2>2
<1>8. /\ activity' \in [Sessions -> 0..MaxTime] /\ work' \in [Sessions -> SUBSET {"run", "flush", "title"}]
      /\ \A x \in Sessions : \/ activity'[x] = activity[x] /\ work'[x] = work[x]
                             \/ x = s /\ Loadable(s)
  <2>1. CASE UNCHANGED <<activity, work>> BY <2>1 DEF DirTypes, StoreTypes, MemoryTypes
  <2>2. CASE /\ Loadable(s) /\ work' = [work EXCEPT ![s] = @ \cup {"run"}]
             /\ activity' = Put(activity, s, now)
    <3>1. now \in 0..MaxTime /\ work[s] \cup {"run"} \in SUBSET {"run", "flush", "title"}
      BY <1>2 DEF DirTypes, ScheduleTypes, MemoryTypes
    <3>2. activity' = [activity EXCEPT ![s] = now] BY <2>2 DEF Put
    <3> QED BY <2>2, <3>1, <3>2 DEF DirTypes, StoreTypes, MemoryTypes
  <2> QED BY <2>1, <2>2 DEF StartRun, FlushStart, Fetched
<1>9. DirTypes'
  <2>1. StoreTypes' BY <1>3, <1>7, <1>8 DEF DirTypes, StoreTypes
  <2>2. MemoryTypes' BY <1>3, <1>7, <1>8 DEF DirTypes, MemoryTypes
  <2>3. ControlTypes' BY <1>3, <1>4, <1>5 DEF DirTypes, ControlTypes
  <2>4. ScheduleTypes' BY <1>3 DEF DirTypes, ScheduleTypes, schedule
  <2> QED BY <2>1, <2>2, <2>3, <2>4 DEF DirTypes
<1>10. \A q \in Procs : op[q].at # "registering"
  BY <1>1, <1>4, <1>6, Callers DEF GateIsHeld, HeldPoints
<1>11. Listing' BY <1>3, <1>5, <1>7, <1>10, Quiet
<1>12. FoundIdle'
  <2>1. gate # Maintenance BY <1>1, <1>6, Callers DEF Procs
  <2>2. loaded \subseteq Sessions /\ frozen \subseteq loaded BY DEF DirTypes, MemoryTypes
  <2>3. \A x \in loaded : x \in frozen /\ "run" \notin work[x]
                          => "run" \notin work'[x] /\ Shown(x)' = Shown(x)
    BY <1>7, <1>8, <2>2 DEF Shown, Loadable
  <2> QED BY <1>3, <1>5, <1>7, <2>1, <2>3, IdleStays DEF schedule
<1> QED BY <1>5, <1>9, <1>11, <1>12, QuietKeeps

(* Nobody decides about a session that has no row yet.                     *)
LEMMA UnknownIsFree ==
  ASSUME DirInv, NEW s \in Sessions, revision[s] = 0
  PROVE  row[s] = "none" /\ claim[s] = Nobody /\ \A q \in Procs : Engaged(q) => op[q].on # s
<1> USE DEF DirInv
<1>1. row[s] = "none" BY DEF RowIsBacked
<1>2. \A q \in Procs : Engaged(q) => op[q].on # s BY <1>1 DEF DecisionStands
<1>3. claim[s] # Nobody => claim[s] \in Procs /\ Engaged(claim[s]) /\ op[claim[s]].on = s
  BY DEF ClaimIsUsed, DirTypes, ControlTypes
<1> QED BY <1>1, <1>2, <1>3

(* A creation: the session has its file before it has a row.               *)
LEMMA CreateKeeps ==
  ASSUME DirInv, NEW c \in Clients, Create(c)
  PROVE  DirInv'
<1> USE DEF DirInv
<1>1. /\ c \in Procs /\ ControlTypes /\ Shaped(op[c]) /\ c # Maintenance /\ c # Nobody
      /\ Maintenance \in Procs
  BY Callers DEF Procs, DirTypes, CallsShaped
<1>2. /\ UNCHANGED <<row, revision, deletes, service, frozen, viewers, work, claim, schedule, now, gone>>
      /\ gate = Nobody /\ op[c].kind = "create" /\ op[c].at = "queued" /\ op[c].on \in Requests
  BY <1>1 DEF Create, At, Shaped
<1>3. \A q \in Procs : op[q].at \notin HeldPoints BY <1>2, Callers DEF GateIsHeld
<1>4. CASE Answer(c) /\ UNCHANGED <<file, activity, creations, gate>>
           /\ \/ UNCHANGED <<loaded, touched, dirty>>
              \/ \E s \in Sessions : Fetched(s) \/ LoadFailed(s)
  <2>1. op'[c] = NoCall /\ op' \in [Procs -> Calling] /\ (\A q \in Procs \ {c} : op'[q] = op[q])
        /\ op'[c].at # "flushing"
    BY <1>1, <1>4, Answered1, NoCallIsCalling DEF HeldPoints
  <2>2. /\ CallsShaped' /\ GateIsHeld' /\ op'[Maintenance] = op[Maintenance]
        /\ \A q \in Procs : \/ op'[q] = op[q]
                            \/ /\ ~Engaged(q) /\ ~Engaged(q)'
                               /\ op[q].at # "registering" /\ op'[q].at # "registering"
    BY <1>1, <1>2, <1>4, <2>1, ClientMoves
  <2>3. /\ touched' \in [Sessions -> 0..MaxTime]
        /\ dirty' \subseteq loaded' /\ loaded' \subseteq Sessions /\ loaded \subseteq loaded'
        /\ \A x \in Sessions : Max2(touched'[x], activity[x]) = Shown(x)
        /\ loaded' = loaded \/ service = "open"
        /\ \A x \in loaded' : x \in loaded \/ (row[x] = "live" /\ claim[x] = Nobody)
    <3>1. CASE UNCHANGED <<loaded, touched, dirty>>
      BY <3>1 DEF Shown, DirTypes, StoreTypes, MemoryTypes
    <3>2. CASE \E s \in Sessions : Fetched(s) \/ LoadFailed(s) BY <3>2, Loads
    <3> QED BY <1>4, <3>1, <3>2
  <2>4. DirTypes'
    <3>1. StoreTypes' BY <1>2, <1>4, <2>3 DEF DirTypes, StoreTypes
    <3>2. MemoryTypes' BY <1>2, <1>4, <2>3 DEF DirTypes, MemoryTypes
    <3>3. ControlTypes' BY <1>2, <1>4, <2>1 DEF DirTypes, ControlTypes
    <3>4. ScheduleTypes' BY <1>2 DEF DirTypes, ScheduleTypes, schedule
    <3> QED BY <3>1, <3>2, <3>3, <3>4 DEF DirTypes
  <2>5. \A q \in Procs : op[q].at # "registering" BY <1>3 DEF HeldPoints
  <2>6. Listing' BY <1>2, <1>4, <2>2, <2>3, <2>5, Quiet
  <2>7. FoundIdle'
    <3>1. loaded \subseteq Sessions BY DEF DirTypes, MemoryTypes
    <3>2. \A x \in loaded : Shown(x)' = Shown(x) BY <1>4, <2>3, <3>1 DEF Shown
    <3> QED BY <1>2, <2>2, <2>3, <3>2, IdleStays DEF schedule
  <2> QED BY <2>2, <2>4, <2>6, <2>7, QuietKeeps
<1>5. ASSUME NEW s \in Unused, service = "open",
             file' = file \cup {s}, activity' = Put(activity, s, now), loaded' = loaded \cup {s},
             creations' = creations \cup {<<op[c].on, s>>}, gate' = c,
             op' = [op EXCEPT ![c].on = s, ![c].at = "registering"], UNCHANGED <<touched, dirty>>
      PROVE  DirInv'
  <2>1. s \in Sessions /\ revision[s] = 0 /\ s \notin file /\ s \notin gone BY DEF Unused
  <2>2. row[s] = "none" /\ claim[s] = Nobody /\ \A q \in Procs : Engaged(q) => op[q].on # s
    BY <2>1, UnknownIsFree
  <2>3. s \notin loaded /\ s \notin frozen /\ s \notin dirty
    BY <2>1 DEF MemoryIsBacked, DirTypes, MemoryTypes
  <2>4. /\ op' \in [Procs -> Calling] /\ \A q \in Procs \ {c} : op'[q] = op[q]
        /\ op'[c].at = "registering" /\ op'[c].kind = "create" /\ op'[c].on = s
    <3> DEFINE r == [op[c] EXCEPT !.on = s, !.at = "registering"]
    <3>1. op[c] \in Calling BY <1>1 DEF ControlTypes
    <3>2. r \in Calling /\ r.at = "registering" /\ r.kind = op[c].kind /\ r.on = s
      BY <2>1, <3>1 DEF Calling, Points
    <3>3. op' = [op EXCEPT ![c] = r] BY <1>1, <1>5, <3>1 DEF ControlTypes, Calling
    <3> HIDE DEF r
    <3> QED BY <1>1, <1>2, <3>2, <3>3 DEF ControlTypes
  <2>5. activity' \in [Sessions -> 0..MaxTime] /\ \A x \in Sessions \ {s} : activity'[x] = activity[x]
    <3>1. now \in 0..MaxTime BY DEF DirTypes, ScheduleTypes
    <3>2. activity' = [activity EXCEPT ![s] = now] BY <1>5 DEF Put
    <3> QED BY <2>1, <3>1, <3>2 DEF DirTypes, StoreTypes
  <2>6. DirTypes'
    <3>1. StoreTypes' BY <1>2, <1>5, <2>1, <2>5 DEF DirTypes, StoreTypes
    <3>2. MemoryTypes' BY <1>2, <1>5, <2>1 DEF DirTypes, MemoryTypes
    <3>3. ControlTypes' BY <1>1, <1>2, <1>5, <2>4 DEF DirTypes, ControlTypes
    <3>4. ScheduleTypes' BY <1>2 DEF DirTypes, ScheduleTypes, schedule
    <3> QED BY <3>1, <3>2, <3>3, <3>4 DEF DirTypes
  <2>7. CallsShaped'
    <3>1. Shaped(op'[c]) BY <2>1, <2>4 DEF Shaped, Deciders, Deletions
    <3> QED BY <2>4, <3>1 DEF CallsShaped
  <2>8. GateIsHeld' BY <1>1, <1>3, <1>5, <2>4 DEF GateIsHeld, HeldPoints
  <2>9. ~Engaged(c) /\ ~Engaged(c)' /\ \A q \in Procs \ {c} : Engaged(q)' <=> Engaged(q)
    BY <1>2, <2>4 DEF Engaged, Deletions
  <2>10. OneAtATime' BY <1>1, <2>4 DEF OneAtATime, Deciding
  <2>11. ClaimIsUsed'
    <3> SUFFICES ASSUME NEW x \in Sessions, claim[x] # Nobody
                 PROVE x \notin loaded' /\ Engaged(claim[x])' /\ op'[claim[x]].on = x
      BY <1>2 DEF ClaimIsUsed
    <3>1. claim[x] \in Procs /\ x \notin loaded /\ Engaged(claim[x]) /\ op[claim[x]].on = x /\ x # s
      BY <2>2 DEF DirTypes, ControlTypes, ClaimIsUsed
    <3>2. claim[x] # c BY <2>9, <3>1
    <3>3. op'[claim[x]] = op[claim[x]] BY <2>4, <3>1, <3>2
    <3> QED BY <1>2, <1>5, <3>1, <3>3 DEF Engaged
  <2>12. SessionIsHeld' BY <1>2, <1>5, <2>4, <2>9 DEF SessionIsHeld, Engaged
  <2>13. DecisionStands'
    <3> SUFFICES ASSUME NEW q \in Procs, Engaged(q)'
                 PROVE LET x == op'[q].on IN
                       /\ row[x] # "none"
                       /\ op'[q].at \in Deletions => row[x] = "deleting"
                       /\ op'[q].at \in {"forgotten", "cleaned"} => x \notin loaded'
                       /\ op'[q].at = "cleaned" => x \notin file'
      BY <1>2 DEF DecisionStands, Engaged, Deletions
    <3>1. q # c /\ Engaged(q) /\ op'[q] = op[q] BY <2>4, <2>9
    <3>2. op[q].at \notin Deletions /\ op[q].at \notin {"forgotten", "cleaned"}
      BY <1>3 DEF HeldPoints, Deletions
    <3> QED BY <3>1, <3>2 DEF DecisionStands
  <2>14. RowIsBacked' BY <1>2, <1>5 DEF RowIsBacked
  <2>15. Creating'
    <3>1. \A q \in Procs \ {c} : op'[q].at # "registering" BY <1>3, <2>4 DEF HeldPoints
    <3> QED BY <1>2, <1>5, <2>1, <2>3, <2>4, <3>1 DEF Creating
  <2>16. MemoryIsBacked'
    <3>1. \A x \in loaded : row[x] = "live"
      BY <1>3, <1>5 DEF MemoryIsBacked, HeldPoints
    <3> QED BY <1>1, <1>2, <1>5, <2>4, <3>1 DEF MemoryIsBacked
  <2>17. DeletedIsGone' BY <1>2, <1>5, <2>1 DEF DeletedIsGone
  <2>18. FoundIdle'
    <3>1. loaded \subseteq Sessions \ {s} BY <2>3 DEF DirTypes, MemoryTypes
    <3>2. \A x \in loaded : Shown(x)' = Shown(x) BY <1>5, <2>5, <3>1 DEF Shown
    <3>3. op'[Maintenance] = op[Maintenance] BY <1>1, <2>4
    <3> QED BY <1>2, <1>5, <2>2, <3>2, <3>3, IdleStays DEF schedule
  <2> QED BY <2>6, <2>7, <2>8, <2>10, <2>11, <2>12, <2>13, <2>14, <2>15, <2>16, <2>17, <2>18
<1> QED BY <1>4, <1>5 DEF Create

(* The row of a new session, or its withdrawal.                            *)
LEMMA RegisterKeeps ==
  ASSUME DirInv, NEW c \in Clients, RegisterRow(c)
  PROVE  DirInv'
<1> USE DEF DirInv
<1>1. /\ c \in Procs /\ ControlTypes /\ Shaped(op[c]) /\ c # Maintenance /\ c # Nobody
      /\ Maintenance \in Procs
  BY Callers DEF Procs, DirTypes, CallsShaped
<1>2. /\ UNCHANGED <<activity, deletes, service, frozen, dirty, viewers, work, claim, schedule, now, gone>>
      /\ op[c].kind = "create" /\ op[c].at = "registering" /\ gate' = Nobody /\ Answer(c)
  BY DEF RegisterRow, At
<1> DEFINE s == op[c].on
<1>3. s \in Sessions BY <1>1, <1>2 DEF Shaped
<1>4. s \in loaded \ (frozen \cup dirty \cup gone) /\ revision[s] = 0 /\ s \in file
  BY <1>1, <1>2 DEF Creating, MemoryIsBacked
<1>5. row[s] = "none" /\ claim[s] = Nobody /\ \A q \in Procs : Engaged(q) => op[q].on # s
  BY <1>3, <1>4, UnknownIsFree
<1>6. op'[c] = NoCall /\ op' \in [Procs -> Calling] /\ \A q \in Procs \ {c} : op'[q] = op[q]
  BY <1>1, <1>2, Answered1
<1>7. gate = c /\ \A q \in Procs \ {c} : op[q].at \notin HeldPoints
  BY <1>1, <1>2 DEF GateIsHeld, HeldPoints
<1>8. op'[c].at \notin HeldPoints \cup Deletions \cup {"registering", "settling"}
  BY <1>6, NoCallIsCalling DEF NoCall
<1>9. /\ row' \in [Sessions -> Rows] /\ revision' \in [Sessions -> Nat]
      /\ touched' \in [Sessions -> 0..MaxTime]
      /\ file' \subseteq file /\ loaded' \subseteq loaded /\ creations' \subseteq creations
      /\ \A x \in Sessions \ {s} : /\ row'[x] = row[x] /\ revision'[x] = revision[x]
                                   /\ touched'[x] = touched[x]
                                   /\ (x \in file' <=> x \in file) /\ (x \in loaded' <=> x \in loaded)
      /\ row'[s] # "none" => row'[s] = "live" /\ revision'[s] = 1 /\ s \in file'
      /\ s \in loaded' => s \in file'
      /\ service = "open" /\ s \in loaded' => row'[s] = "live"
  <2> USE DEF DirTypes, StoreTypes
  <2>1. CASE /\ row' = Put(row, s, "live") /\ revision' = Put(revision, s, 1)
             /\ touched' = Put(touched, s, activity[s]) /\ UNCHANGED <<file, loaded, creations>>
    <3>1. row' = [row EXCEPT ![s] = "live"] /\ revision' = [revision EXCEPT ![s] = 1]
          /\ touched' = [touched EXCEPT ![s] = activity[s]]
      BY <2>1 DEF Put
    <3>2. activity[s] \in 0..MaxTime /\ "live" \in Rows BY <1>3 DEF Rows
    <3> QED BY <1>3, <1>4, <2>1, <3>1, <3>2
  <2>2. CASE /\ file' \in {file, file \ {s}} /\ loaded' = loaded \ {s} /\ creations' \subseteq creations
             /\ UNCHANGED <<row, revision, touched>>
    BY <1>5, <2>2
  <2>3. CASE service # "open" /\ UNCHANGED <<row, revision, touched, file, loaded, creations>>
    BY <1>4, <1>5, <2>3
  <2> QED BY <2>1, <2>2, <2>3 DEF RegisterRow
<1>10. DirTypes'
  <2>1. StoreTypes' BY <1>2, <1>9 DEF DirTypes, StoreTypes
  <2>2. MemoryTypes'
    <3>1. frozen \subseteq loaded' /\ dirty \subseteq loaded'
      BY <1>3, <1>4, <1>9 DEF DirTypes, MemoryTypes
    <3> QED BY <1>2, <1>9, <3>1 DEF DirTypes, MemoryTypes
  <2>3. ControlTypes' BY <1>2, <1>6 DEF DirTypes, ControlTypes
  <2>4. ScheduleTypes' BY <1>2 DEF DirTypes, ScheduleTypes, schedule
  <2> QED BY <2>1, <2>2, <2>3, <2>4 DEF DirTypes
<1>11. CallsShaped' BY <1>6, NoCallIsCalling DEF CallsShaped
<1>12. GateIsHeld' BY <1>1, <1>2, <1>6, <1>7, <1>8, Callers DEF GateIsHeld
<1>13. ~Engaged(c) /\ ~Engaged(c)' /\ \A q \in Procs \ {c} : Engaged(q)' <=> Engaged(q)
  BY <1>2, <1>6, <1>8 DEF Engaged, Deletions, HeldPoints
<1>14. \A q \in Procs \ {c} : Engaged(q) => op[q].at = "settling" /\ op[q].on \in Sessions \ {s}
  BY <1>5, <1>7 DEF Engaged, HeldPoints, Deletions, CallsShaped, Shaped
<1>15. OneAtATime' BY <1>6, <1>8 DEF OneAtATime, Deciding, HeldPoints, Deletions
<1>16. ClaimIsUsed'
  <2> SUFFICES ASSUME NEW x \in Sessions, claim[x] # Nobody
               PROVE x \notin loaded' /\ Engaged(claim[x])' /\ op'[claim[x]].on = x
    BY <1>2 DEF ClaimIsUsed
  <2>1. claim[x] \in Procs /\ x \notin loaded /\ Engaged(claim[x]) /\ op[claim[x]].on = x
    BY DEF DirTypes, ControlTypes, ClaimIsUsed
  <2>2. claim[x] # c BY <1>13, <2>1
  <2>3. op'[claim[x]] = op[claim[x]] BY <1>6, <2>1, <2>2
  <2> QED BY <1>2, <1>9, <2>1, <2>3 DEF Engaged
<1>17. SessionIsHeld'
  <2> SUFFICES ASSUME service = "open", NEW q \in Procs, Engaged(q)'
               PROVE LET x == op'[q].on IN
                     /\ op'[q].at = "examined" => x \in loaded' \/ claim[x] = q
                     /\ op'[q].at = "settling" /\ op'[q].kind \in Deciders => x \in frozen \/ claim[x] = q
    BY <1>2 DEF SessionIsHeld, Engaged
  <2>1. q # c /\ Engaged(q) /\ op'[q] = op[q] /\ op[q].at = "settling" BY <1>6, <1>13, <1>14
  <2> QED BY <2>1 DEF SessionIsHeld
<1>18. DecisionStands'
  <2> SUFFICES ASSUME NEW q \in Procs, Engaged(q)'
               PROVE LET x == op'[q].on IN
                     /\ row'[x] # "none"
                     /\ op'[q].at \in Deletions => row'[x] = "deleting"
                     /\ op'[q].at \in {"forgotten", "cleaned"} => x \notin loaded'
                     /\ op'[q].at = "cleaned" => x \notin file'
    BY DEF DecisionStands, Engaged, Deletions
  <2>1. q # c /\ Engaged(q) /\ op'[q] = op[q] /\ op[q].at = "settling" /\ op[q].on \in Sessions \ {s}
    BY <1>6, <1>13, <1>14
  <2>2. row[op[q].on] # "none" BY <2>1 DEF DecisionStands
  <2> QED BY <1>9, <2>1, <2>2 DEF Deletions
<1>19. RowIsBacked' BY <1>9 DEF RowIsBacked
<1>20. Creating' BY <1>6, <1>7, <1>8 DEF Creating, HeldPoints
<1>21. MemoryIsBacked'
  <2>1. loaded \subseteq Sessions BY DEF DirTypes, MemoryTypes
  <2>2. \A x \in loaded' : x \in file' BY <1>9, <2>1 DEF MemoryIsBacked
  <2>3. service = "down" => loaded' = {} BY <1>9 DEF MemoryIsBacked
  <2>4. ASSUME service = "open", NEW x \in loaded' PROVE row'[x] = "live"
    <3>1. CASE x = s BY <1>9, <2>4, <3>1
    <3>2. CASE x # s
      <4>1. \A q \in Procs : op[q].at \in {"marked", "registering"} => op[q].on = s
        BY <1>7 DEF HeldPoints
      <4>2. row[x] = "live" BY <1>9, <2>4, <3>2, <4>1 DEF MemoryIsBacked
      <4> QED BY <1>9, <2>1, <3>2, <4>2
    <3> QED BY <3>1, <3>2
  <2> QED BY <1>2, <2>2, <2>3, <2>4 DEF MemoryIsBacked
<1>22. DeletedIsGone'
  <2> SUFFICES ASSUME NEW x \in gone PROVE row'[x] = "none" /\ x \notin file' \cup loaded'
    BY <1>2 DEF DeletedIsGone
  <2>1. row[x] = "none" /\ x \notin file \cup loaded BY DEF DeletedIsGone
  <2>2. x \in Sessions \ {s} BY <1>4 DEF DirTypes, ScheduleTypes
  <2> QED BY <1>9, <2>1, <2>2
<1>23. FoundIdle'
  <2>1. gate # Maintenance /\ op'[Maintenance] = op[Maintenance] BY <1>1, <1>6, <1>7
  <2>2. loaded \subseteq Sessions BY DEF DirTypes, MemoryTypes
  <2>3. \A x \in loaded \ {s} : Shown(x)' = Shown(x) BY <1>2, <1>9, <2>2 DEF Shown
  <2> QED BY <1>2, <1>4, <1>9, <2>1, <2>3, IdleStays DEF schedule
<1> QED BY <1>10, <1>11, <1>12, <1>15, <1>16, <1>17, <1>18, <1>19, <1>20, <1>21, <1>22, <1>23

(* A request is queued, and about what it is a request for.                *)
LEMMA Requested ==
  ASSUME NEW k \in Kinds, NEW s, NEW r \in Nat,
         \/ k \in {"read", "start", "view"} \cup Deciders /\ s \in Sessions
         \/ k = "create" /\ s \in Requests
         \/ k \in {"policy", "close"} /\ s = Nobody
  PROVE  Request(k, s, r) \in Calling /\ Request(k, s, r).at = "queued" /\ Shaped(Request(k, s, r))
<1>1. s \in Sessions \cup Requests \cup {Nobody} OBVIOUS
<1>2. Request(k, s, r) \in Calling BY <1>1 DEF Request, Calling, Points
<1> QED BY <1>2 DEF Request, Shaped, Deciders, Deletions

(* A client calls.                                                         *)
LEMMA CallsKeep ==
  ASSUME DirInv, NEW c \in Clients, Call(c)
  PROVE  DirInv'
<1> USE DEF DirInv
<1>1. c \in Procs /\ c # Maintenance /\ c # Nobody /\ Maintenance \in Procs BY Callers DEF Procs
<1>2. UNCHANGED <<store, memory, work, gate, claim, schedule, now, gone>> /\ op[c] = NoCall
  BY DEF Call, Idle
<1>3. \E r \in Calling : op' = [op EXCEPT ![c] = r] /\ r.at = "queued" /\ Shaped(r)
  <2>1. ASSUME NEW k \in {"read", "start", "view"}, NEW s \in Sessions
        PROVE Request(k, s, 0) \in Calling /\ Request(k, s, 0).at = "queued" /\ Shaped(Request(k, s, 0))
    <3>1. k \in Kinds /\ 0 \in Nat BY DEF Kinds
    <3> QED BY <3>1, Requested
  <2>2. ASSUME NEW k \in Deciders, NEW s \in Sessions, NEW r \in Nat
        PROVE Request(k, s, r) \in Calling /\ Request(k, s, r).at = "queued" /\ Shaped(Request(k, s, r))
    <3>1. k \in Kinds BY DEF Kinds, Deciders
    <3> QED BY <3>1, Requested
  <2>3. ASSUME NEW q \in Requests
        PROVE Request("create", q, 0) \in Calling /\ Request("create", q, 0).at = "queued"
              /\ Shaped(Request("create", q, 0))
    <3>1. "create" \in Kinds /\ 0 \in Nat BY DEF Kinds
    <3> QED BY <3>1, Requested
  <2>4. ASSUME NEW k \in {"policy", "close"}
        PROVE Request(k, Nobody, 0) \in Calling /\ Request(k, Nobody, 0).at = "queued"
              /\ Shaped(Request(k, Nobody, 0))
    <3>1. k \in Kinds /\ 0 \in Nat BY DEF Kinds
    <3> QED BY <3>1, Requested
  <2>5. \/ \E k \in {"read", "start", "view"}, s \in Sessions : op' = [op EXCEPT ![c] = Request(k, s, 0)]
        \/ \E k \in Deciders, s \in Sessions, r \in Nat : op' = [op EXCEPT ![c] = Request(k, s, r)]
        \/ \E q \in Requests : op' = [op EXCEPT ![c] = Request("create", q, 0)]
        \/ \E k \in {"policy", "close"} : op' = [op EXCEPT ![c] = Request(k, Nobody, 0)]
    BY DEF Call, Put, Deciders, DirTypes, StoreTypes
  <2> QED BY <2>1, <2>2, <2>3, <2>4, <2>5
<1>4. /\ op' \in [Procs -> Calling] /\ (\A q \in Procs \ {c} : op'[q] = op[q])
      /\ op'[c].at = "queued" /\ Shaped(op'[c])
  BY <1>1, <1>3 DEF DirTypes, ControlTypes
<1>5. op[c].at = "idle" /\ Shaped(op[c]) BY <1>1, <1>2, NoCallIsCalling
<1>6. gate' = gate BY <1>2
<1>7. /\ CallsShaped' /\ GateIsHeld' /\ op'[Maintenance] = op[Maintenance]
      /\ \A q \in Procs : \/ op'[q] = op[q]
                          \/ /\ ~Engaged(q) /\ ~Engaged(q)'
                             /\ op[q].at # "registering" /\ op'[q].at # "registering"
  BY <1>4, <1>5, <1>6, ClientMoves
<1>8. DirTypes'
  BY <1>2, <1>4 DEF DirTypes, StoreTypes, MemoryTypes, ControlTypes, ScheduleTypes, store, memory, schedule
<1>9. Listing' BY <1>2, <1>7, Quiet DEF store, memory
<1>10. FoundIdle' BY <1>2, <1>7, IdleStays DEF store, memory, schedule, Shown
<1> QED BY <1>7, <1>8, <1>9, <1>10, QuietKeeps

(* The end of a view, the clock, what makes a pass due, and the closing of *)
(* the state.                                                              *)
LEMMA HostKeeps ==
  ASSUME DirInv,
         StartMaintenance \/ Interval \/ Tick \/ CancelAll \/ \E v \in viewers : Leave(v)
  PROVE  DirInv'
<1> USE DEF DirInv
<1>1. /\ UNCHANGED <<store, loaded, frozen, dirty, creations, work, gate, claim, op, pass, gone>>
      /\ service' \in {"open", "closing", "down"} /\ (service' = "open" => service = "open")
      /\ (service' = "down" => service = "down")
      /\ viewers' \subseteq viewers /\ timer' \in BOOLEAN /\ due' \in BOOLEAN
      /\ now' \in 0..MaxTime
  <2> USE DEF DirTypes, MemoryTypes, ScheduleTypes
  <2>1. CASE StartMaintenance \/ Interval
    BY <2>1 DEF StartMaintenance, Interval, memory, counters
  <2>2. CASE Tick
    <3>1. now < MaxTime /\ now' = now + 1 /\ now \in 0..MaxTime BY <2>2 DEF Tick
    <3>2. now' \in 0..MaxTime BY <3>1, LimitsAssumption
    <3> QED BY <2>2, <3>2 DEF Tick, memory, schedule
  <2>3. CASE CancelAll BY <2>3 DEF CancelAll, counters
  <2>4. CASE \E v \in viewers : Leave(v) BY <2>4 DEF Leave, schedule, counters
  <2> QED BY <2>1, <2>2, <2>3, <2>4
<1>2. DirTypes'
  BY <1>1 DEF DirTypes, StoreTypes, MemoryTypes, ControlTypes, ScheduleTypes, store
<1>3. CallsShaped' /\ GateIsHeld' BY <1>1 DEF CallsShaped, GateIsHeld
<1>4. Listing' BY <1>1, Quiet DEF store
<1>5. FoundIdle' BY <1>1, IdleStays DEF store, Shown
<1> QED BY <1>2, <1>3, <1>4, <1>5, QuietKeeps

(* A pass of retention.                                                    *)
LEMMA PassingKeeps ==
  ASSUME DirInv, Passing
  PROVE  DirInv'
<1> USE DEF DirInv
<1>1. UNCHANGED <<store, memory, work, gate, claim, timer, now, gone>> /\ due' \in BOOLEAN
  BY DEF Passing, BeginPass, BeginDeletions, NextCandidate, EndPass, counters, DirTypes, ScheduleTypes
<1>2. Maintenance \in Procs BY Callers
<1>3. op[Maintenance] = NoCall
  BY DEF Passing, BeginPass, BeginDeletions, NextCandidate, EndPass, FoundIdle, Idle
<1>4. /\ \/ op' = op
         \/ \E r \in Calling : op' = [op EXCEPT ![Maintenance] = r] /\ r.at = "queued" /\ Shaped(r)
      /\ pass' \in [stage : Stages, began : 0..MaxTime, left : SUBSET (Sessions \X Nat)]
      /\ (pass'.stage = "idle" => pass'.left = {}) /\ (op' # op => pass'.stage # "idle")
  <2> USE DEF DirTypes, ScheduleTypes, StoreTypes
  <2>0. \A status, cutoff : Candidates(status, cutoff) \in SUBSET (Sessions \X Nat)
    BY DEF Candidates
  <2>1. CASE BeginPass
    <3> DEFINE stage == IF deletes THEN "archive, delete" ELSE "archive"
    <3>1. pass' = [stage |-> stage, began |-> now, left |-> Candidates("live", now - 1)] /\ op' = op
      BY <2>1 DEF BeginPass
    <3>2. stage \in Stages /\ stage # "idle" BY DEF Stages
    <3> HIDE DEF stage
    <3>3. Candidates("live", now - 1) \in SUBSET (Sessions \X Nat) BY <2>0
    <3> QED BY <3>1, <3>2, <3>3
  <2>2. CASE BeginDeletions
    <3>1. /\ pass' = [pass EXCEPT !.stage = "delete", !.left = Candidates("archived", pass.began - 1)]
          /\ op' = op
      BY <2>2 DEF BeginDeletions
    <3>2. Candidates("archived", pass.began - 1) \in SUBSET (Sessions \X Nat) BY <2>0
    <3>3. "delete" \in Stages BY DEF Stages
    <3> QED BY <3>1, <3>2, <3>3
  <2>3. CASE NextCandidate
    <3>1. PICK x \in pass.left :
                 /\ pass' = [pass EXCEPT !.left = @ \ {x}]
                 /\ op' = [op EXCEPT ![Maintenance] =
                             Request(IF pass.stage = "delete" THEN "delete" ELSE "archive", x[1], x[2])]
      BY <2>3 DEF NextCandidate, Put
    <3>2. x \in Sessions \X Nat OBVIOUS
    <3>3. x[1] \in Sessions /\ x[2] \in Nat BY <3>2
    <3>4. PICK k \in {"archive", "delete"} : op' = [op EXCEPT ![Maintenance] = Request(k, x[1], x[2])]
      BY <3>1
    <3>5. k \in Kinds /\ k \in Deciders BY DEF Kinds, Deciders
    <3>6. /\ Request(k, x[1], x[2]) \in Calling /\ Request(k, x[1], x[2]).at = "queued"
          /\ Shaped(Request(k, x[1], x[2]))
      BY <3>3, <3>5, Requested
    <3>7. pass.stage # "idle" BY <2>3 DEF NextCandidate, FoundIdle
    <3>8. pass' \in [stage : Stages, began : 0..MaxTime, left : SUBSET (Sessions \X Nat)]
          /\ pass'.stage = pass.stage
      BY <3>1
    <3> QED BY <3>4, <3>6, <3>7, <3>8
  <2>4. CASE EndPass
    <3>1. pass' = [pass EXCEPT !.stage = "idle", !.began = 0] /\ op' = op /\ pass.left = {}
      BY <2>4 DEF EndPass
    <3>2. 0 \in 0..MaxTime BY LimitsAssumption
    <3>3. "idle" \in Stages BY DEF Stages
    <3> QED BY <3>1, <3>2, <3>3
  <2> QED BY <2>1, <2>2, <2>3, <2>4 DEF Passing
<1>5. /\ op' \in [Procs -> Calling] /\ \A q \in Procs \ {Maintenance} : op'[q] = op[q]
      /\ op'[Maintenance] = NoCall \/ (op'[Maintenance].at = "queued" /\ op' # op)
      /\ Shaped(op'[Maintenance])
  BY <1>2, <1>3, <1>4, NoCallIsCalling DEF DirTypes, ControlTypes
<1>6. op'[Maintenance].at \notin HeldPoints \cup Deletions \cup {"registering", "settling", "examined"}
  BY <1>5 DEF NoCall, HeldPoints, Deletions
<1>7. op[Maintenance].at \notin HeldPoints \cup Deletions \cup {"registering", "settling", "examined"}
  BY <1>3 DEF NoCall, HeldPoints, Deletions
<1>8. CallsShaped' BY <1>5 DEF CallsShaped
<1>9. GateIsHeld' BY <1>1, <1>2, <1>5, <1>6, <1>7 DEF GateIsHeld
<1>10. \A q \in Procs : \/ op'[q] = op[q]
                        \/ /\ ~Engaged(q) /\ ~Engaged(q)'
                           /\ op[q].at # "registering" /\ op'[q].at # "registering"
  BY <1>5, <1>6, <1>7 DEF Engaged
<1>11. Listing' BY <1>1, <1>10, Quiet DEF store, memory
<1>12. DirTypes'
  BY <1>1, <1>4, <1>5 DEF DirTypes, StoreTypes, MemoryTypes, ControlTypes, ScheduleTypes, store, memory
<1>13. FoundIdle'
  BY <1>4, <1>5, <1>6 DEF FoundIdle, Idle
<1> QED BY <1>8, <1>9, <1>11, <1>12, <1>13, QuietKeeps

(***************************************************************************)
(* Archiving, restoring and deleting.                                      *)
(***************************************************************************)

(* The examinations: a session that is not held yet is claimed when it is  *)
(* cold.                                                                   *)
LEMMA ExamineKeeps ==
  ASSUME DirInv, NEW p \in Procs, Examine(p) \/ ExamineDelete(p)
  PROVE  DirInv'
<1> USE DEF DirInv
<1>1. ControlTypes /\ Shaped(op[p]) /\ p # Nobody /\ Maintenance \in Procs
  BY Callers DEF DirTypes, CallsShaped
<1>2. /\ UNCHANGED <<store, memory, work, schedule, counters, gone>> /\ gate = Nobody
      /\ op[p].at = "queued" /\ op[p].kind \in Deciders
  BY DEF Examine, ExamineDelete, At, Deciders
<1> DEFINE s == op[p].on
<1>3. s \in Sessions BY <1>1, <1>2 DEF Shaped
<1>4. \A q \in Procs : op[q].at \notin HeldPoints BY <1>2, Callers DEF GateIsHeld
<1>5. ~Engaged(p) BY <1>2 DEF Engaged, Deletions
<1>6. CASE Answer(p) /\ UNCHANGED <<claim, gate>>
  <2>1. op'[p] = NoCall /\ op' \in [Procs -> Calling] /\ \A q \in Procs \ {p} : op'[q] = op[q]
    BY <1>1, <1>6, Answered1
  <2>2. CallsShaped' BY <2>1, NoCallIsCalling DEF CallsShaped
  <2>3. GateIsHeld' BY <1>2, <1>4, <1>6, <2>1, NoCallIsCalling, Callers DEF GateIsHeld
  <2>4. ~Engaged(p)' /\ op'[p].at # "registering" /\ op'[p].at \notin {"examined", "settling"}
    BY <2>1 DEF Engaged, NoCall, Deletions
  <2>5. Listing'
    BY <1>2, <1>5, <1>6, <2>1, <2>4, Quiet DEF store, memory
  <2>6. DirTypes'
    BY <1>2, <1>6, <2>1 DEF DirTypes, StoreTypes, MemoryTypes, ControlTypes, ScheduleTypes, store,
                            memory, schedule, counters
  <2>7. FoundIdle'
    <3>1. CASE p # Maintenance
      <4>1. op'[Maintenance] = op[Maintenance] BY <1>1, <2>1, <3>1
      <4> QED BY <1>2, <4>1, IdleStays DEF store, memory, schedule, Shown
    <3>2. CASE p = Maintenance BY <1>2, <2>1, <2>4, <3>2 DEF FoundIdle, Idle, schedule
    <3> QED BY <3>1, <3>2
  <2> QED BY <2>2, <2>3, <2>5, <2>6, <2>7, QuietKeeps
<1>7. CASE /\ service = "open" /\ row[s] # "none" /\ Ownable(p, s) /\ gate' = p /\ Own(p, s)
           /\ Proceed(p, "examined")
           /\ p = Maintenance /\ op[p].kind = "archive" => ~Spared(p, s)
  <2>1. /\ op' \in [Procs -> Calling] /\ \A q \in Procs \ {p} : op'[q] = op[q]
        /\ op'[p].at = "examined" /\ op'[p].kind = op[p].kind /\ op'[p].on = s
    <3>1. "examined" \in Points BY DEF Points
    <3> QED BY <1>1, <1>7, <3>1, Proceeds
  <2>2. /\ claim' \in [Sessions -> Procs \cup {Nobody}]
        /\ \A x \in Sessions \ {s} : claim'[x] = claim[x]
        /\ IF s \in loaded THEN claim'[s] = claim[s] ELSE claim[s] = Nobody /\ claim'[s] = p
    <3>1. CASE s \in loaded BY <1>1, <1>7, <3>1 DEF Own, ControlTypes
    <3>2. CASE s \notin loaded
      <4>1. claim' = [claim EXCEPT ![s] = p] /\ claim[s] = Nobody BY <1>7, <3>2 DEF Own, Ownable, Put
      <4> QED BY <1>1, <1>3, <3>2, <4>1 DEF ControlTypes
    <3> QED BY <3>1, <3>2
  <2>3. DirTypes'
    <3>1. ControlTypes' BY <1>7, <2>1, <2>2 DEF ControlTypes
    <3> QED BY <1>2, <3>1 DEF DirTypes, StoreTypes, MemoryTypes, ScheduleTypes, store, memory, schedule,
                              counters
  <2>4. CallsShaped'
    <3>1. Shaped(op'[p]) BY <1>2, <1>3, <2>1 DEF Shaped, Deciders, Deletions
    <3> QED BY <2>1, <3>1 DEF CallsShaped
  <2>5. GateIsHeld' BY <1>1, <1>4, <1>7, <2>1 DEF GateIsHeld, HeldPoints
  <2>6. OneAtATime' BY <2>1 DEF OneAtATime, Deciding
  <2>7. ClaimIsUsed'
    <3> SUFFICES ASSUME NEW x \in Sessions, claim'[x] # Nobody
                 PROVE (x \notin loaded /\ Engaged(claim[x]) /\ op[claim[x]].on = x)'
      BY DEF ClaimIsUsed
    <3>1. UNCHANGED loaded BY <1>2 DEF memory
    <3>2. CASE x = s /\ s \notin loaded BY <2>1, <2>2, <3>1, <3>2 DEF Engaged
    <3>3. CASE x # s \/ s \in loaded
      <4>1. claim'[x] = claim[x] BY <2>2, <3>3
      <4>2. claim[x] \in Procs /\ x \notin loaded /\ Engaged(claim[x]) /\ op[claim[x]].on = x
        BY <1>1, <4>1 DEF ControlTypes, ClaimIsUsed
      <4>3. op'[claim[x]] = op[claim[x]] BY <1>5, <2>1, <4>2
      <4> QED BY <3>1, <4>1, <4>2, <4>3 DEF Engaged
    <3> QED BY <3>2, <3>3
  <2>8. SessionIsHeld'
    <3> SUFFICES ASSUME service = "open", NEW q \in Procs
                 PROVE LET x == op'[q].on IN
                       /\ op'[q].at = "examined" => x \in loaded' \/ claim'[x] = q
                       /\ op'[q].at = "settling" /\ op'[q].kind \in Deciders => x \in frozen' \/ claim'[x] = q
      BY <1>2 DEF SessionIsHeld, memory
    <3>1. UNCHANGED <<loaded, frozen>> BY <1>2 DEF memory
    <3>2. CASE q = p BY <2>1, <2>2, <3>1, <3>2
    <3>3. CASE q # p
      <4>1. op'[q] = op[q] /\ op[q].at # "examined" BY <1>4, <2>1, <3>3 DEF HeldPoints
      <4>2. ASSUME op[q].at = "settling", op[q].kind \in Deciders
            PROVE op[q].on \in frozen \/ claim'[op[q].on] = q
        <5>1. op[q].on \in Sessions /\ (op[q].on \in frozen \/ claim[op[q].on] = q)
          BY <4>2 DEF SessionIsHeld, CallsShaped, Shaped
        <5>2. q # Nobody BY Callers
        <5> QED BY <2>2, <5>1, <5>2
      <4> QED BY <3>1, <4>1, <4>2
    <3> QED BY <3>2, <3>3
  <2>9. DecisionStands'
    <3> SUFFICES ASSUME NEW q \in Procs, Engaged(q)'
                 PROVE LET x == op'[q].on IN
                       /\ row[x] # "none"
                       /\ op'[q].at \in Deletions => row[x] = "deleting"
                       /\ op'[q].at \in {"forgotten", "cleaned"} => x \notin loaded
                       /\ op'[q].at = "cleaned" => x \notin file
      BY <1>2 DEF DecisionStands, Engaged, Deletions, store, memory
    <3>1. CASE q = p BY <1>7, <2>1, <3>1 DEF Deletions
    <3>2. CASE q # p
      <4>1. op'[q] = op[q] /\ Engaged(q) BY <2>1, <3>2 DEF Engaged
      <4> QED BY <4>1 DEF DecisionStands
    <3> QED BY <3>1, <3>2
  <2>10. RowIsBacked' BY <1>2 DEF RowIsBacked, store
  <2>11. Creating' BY <1>4, <2>1 DEF Creating, HeldPoints
  <2>12. MemoryIsBacked'
    <3>1. service = "open" => \A x \in loaded : row[x] = "live"
      BY <1>4 DEF MemoryIsBacked, HeldPoints
    <3> QED BY <1>2, <3>1 DEF MemoryIsBacked, store, memory
  <2>13. DeletedIsGone' BY <1>2 DEF DeletedIsGone, store, memory
  <2>14. FoundIdle'
    <3>1. CASE p # Maintenance
      <4>1. op'[Maintenance] = op[Maintenance] BY <1>1, <2>1, <3>1
      <4> QED BY <1>2, <4>1, IdleStays DEF store, memory, schedule, Shown
    <3>2. CASE p = Maintenance
      <4>1. /\ pass.stage # "idle"
            /\ UNCHANGED <<touched, activity, pass, work, loaded, service>>
        <5>1. ~Idle(Maintenance) BY <1>2, <3>2, NoCallIsCalling DEF Idle
        <5>2. pass.stage # "idle" BY <5>1 DEF FoundIdle
        <5> QED BY <1>2, <5>2 DEF schedule, store, memory
      <4>2. op'[p].kind = "archive" /\ s \in loaded => "run" \notin work[s] /\ Shown(s) <= Cutoff
        <5>1. SUFFICES ASSUME op[p].kind = "archive", s \in loaded
                       PROVE "run" \notin work[s] /\ Shown(s) <= Cutoff
          BY <2>1
        <5>2. ~Busy(s) BY <1>7, <3>2, <5>1 DEF Spared, Automatic
        <5>3. Shown(s) \in Int /\ Cutoff \in Int BY <1>3, TimesAre
        <5> QED BY <5>1, <5>2, <5>3 DEF Busy
      <4> QED BY <2>1, <3>2, <4>1, <4>2 DEF FoundIdle, Cutoff, Shown
    <3> QED BY <3>1, <3>2
  <2> QED BY <2>3, <2>4, <2>5, <2>6, <2>7, <2>8, <2>9, <2>10, <2>11, <2>12, <2>13, <2>14
<1>8. CASE Examine(p)
  <2>1. \/ /\ service = "open" /\ Listed(s) /\ Ownable(p, s) /\ ~Spared(p, s)
           /\ gate' = p /\ Own(p, s) /\ Proceed(p, "examined")
        \/ Answer(p) /\ UNCHANGED <<claim, gate>>
    BY <1>8 DEF Examine
  <2>2. Listed(s) => row[s] # "none" BY DEF Listed
  <2> QED BY <1>6, <1>7, <2>1, <2>2
<1>9. CASE ExamineDelete(p)
  <2>1. op[p].kind # "archive" BY <1>9 DEF ExamineDelete, At
  <2> QED BY <1>6, <1>7, <1>9, <2>1 DEF ExamineDelete
<1> QED BY <1>8, <1>9

(* The tokens of a session are among those a call may await.               *)
LEMMA TokensAre ==
  ASSUME MemoryTypes, NEW s \in Sessions
  PROVE  Tokens(s) \in SUBSET (Sessions \X {"run", "title"})
BY DEF MemoryTypes, Tokens

(* The freeze: the decision gives the gate back, and keeps the session.    *)
LEMMA FreezeKeeps ==
  ASSUME DirInv, NEW p \in Procs, Freeze(p)
  PROVE  DirInv'
<1> USE DEF DirInv
<1>1. /\ ControlTypes /\ MemoryTypes /\ Shaped(op[p]) /\ p # Nobody /\ Maintenance \in Procs
      /\ op[p].at = "examined"
  BY Callers DEF DirTypes, CallsShaped, Freeze
<1> DEFINE s == op[p].on
<1>2. /\ UNCHANGED <<store, service, loaded, dirty, creations, viewers, work, schedule, counters, gone>>
      /\ gate' = Nobody
  BY DEF Freeze
<1>3. op[p].kind \in Deciders /\ s \in Sessions BY <1>1 DEF Shaped
<1>4. gate = p /\ \A q \in Procs \ {p} : op[q].at \notin HeldPoints BY <1>1 DEF GateIsHeld, HeldPoints
<1>5. Engaged(p) BY <1>1 DEF Engaged
<1>6. \A q \in Procs \ {p} : Engaged(q) => op[q].at = "settling"
  BY <1>4 DEF Engaged, HeldPoints, Deletions
<1>7. service = "open" => \A x \in loaded : row[x] = "live"
  <2>1. \A q \in Procs : op[q].at \notin {"marked", "registering"} BY <1>1, <1>4 DEF HeldPoints
  <2> QED BY <2>1 DEF MemoryIsBacked
<1>8. CASE Answer(p) /\ Release(p) /\ UNCHANGED frozen
  <2>1. op'[p] = NoCall /\ op' \in [Procs -> Calling] /\ \A q \in Procs \ {p} : op'[q] = op[q]
    BY <1>1, <1>8, Answered1
  <2>2. claim' \in [Sessions -> Procs \cup {Nobody}]
        /\ \A x \in Sessions : claim'[x] = IF claim[x] = p THEN Nobody ELSE claim[x]
    BY <1>1, <1>8 DEF Release, ControlTypes
  <2>3. /\ ~Engaged(p)'
        /\ op'[p].at \notin HeldPoints \cup Deletions \cup {"examined", "settling", "registering"}
    BY <2>1 DEF Engaged, NoCall, Deletions, HeldPoints
  <2>4. DirTypes'
    <3>1. ControlTypes' BY <1>2, <2>1, <2>2 DEF ControlTypes
    <3> QED BY <1>2, <1>8, <3>1 DEF DirTypes, StoreTypes, MemoryTypes, ScheduleTypes, store, schedule,
                                    counters
  <2>5. CallsShaped' BY <2>1, NoCallIsCalling DEF CallsShaped
  <2>6. GateIsHeld' BY <1>2, <1>4, <2>1, <2>3, Callers DEF GateIsHeld
  <2>7. OneAtATime' BY <2>1, <2>3 DEF OneAtATime, Deciding, Deletions
  <2>8. ClaimIsUsed'
    <3> SUFFICES ASSUME NEW x \in Sessions, claim'[x] # Nobody
                 PROVE (x \notin loaded /\ Engaged(claim[x]) /\ op[claim[x]].on = x)'
      BY DEF ClaimIsUsed
    <3>1. claim'[x] = claim[x] /\ claim[x] # p BY <2>2
    <3>2. claim[x] \in Procs /\ x \notin loaded /\ Engaged(claim[x]) /\ op[claim[x]].on = x
      BY <1>1, <3>1 DEF ControlTypes, ClaimIsUsed
    <3>3. op'[claim[x]] = op[claim[x]] BY <2>1, <3>1, <3>2
    <3> QED BY <1>2, <3>1, <3>2, <3>3 DEF Engaged
  <2>9. SessionIsHeld'
    <3> SUFFICES ASSUME service = "open", NEW q \in Procs, Engaged(q)'
                 PROVE LET x == op'[q].on IN
                       /\ op'[q].at = "examined" => x \in loaded' \/ claim'[x] = q
                       /\ op'[q].at = "settling" /\ op'[q].kind \in Deciders => x \in frozen' \/ claim'[x] = q
      BY <1>2 DEF SessionIsHeld, Engaged
    <3>1. q # p /\ op'[q] = op[q] /\ Engaged(q) /\ op[q].at = "settling" /\ q # Nobody
      BY <1>6, <2>1, <2>3, Callers DEF Engaged
    <3>2. op[q].on \in Sessions BY <1>6, <3>1 DEF Engaged, CallsShaped, Shaped, Deletions
    <3> QED BY <1>8, <2>2, <3>1, <3>2 DEF SessionIsHeld
  <2>10. DecisionStands'
    <3> SUFFICES ASSUME NEW q \in Procs, Engaged(q)'
                 PROVE LET x == op'[q].on IN
                       /\ row[x] # "none"
                       /\ op'[q].at \in Deletions => row[x] = "deleting"
                       /\ op'[q].at \in {"forgotten", "cleaned"} => x \notin loaded
                       /\ op'[q].at = "cleaned" => x \notin file
      BY <1>2 DEF DecisionStands, Engaged, Deletions, store
    <3>1. op'[q] = op[q] /\ Engaged(q) BY <2>1, <2>3 DEF Engaged
    <3> QED BY <3>1 DEF DecisionStands
  <2>11. RowIsBacked' BY <1>2 DEF RowIsBacked, store
  <2>12. Creating' BY <1>4, <2>1, <2>3 DEF Creating, HeldPoints
  <2>13. MemoryIsBacked' BY <1>2, <1>7 DEF MemoryIsBacked, store
  <2>14. DeletedIsGone' BY <1>2 DEF DeletedIsGone, store
  <2>15. FoundIdle'
    <3>1. CASE p # Maintenance
      <4>1. op'[Maintenance] = op[Maintenance] BY <1>1, <2>1, <3>1
      <4> QED BY <1>2, <4>1, IdleStays DEF store, schedule, Shown
    <3>2. CASE p = Maintenance BY <1>2, <2>1, <2>3, <3>2 DEF FoundIdle, Idle, schedule
    <3> QED BY <3>1, <3>2
  <2> QED BY <2>4, <2>5, <2>6, <2>7, <2>8, <2>9, <2>10, <2>11, <2>12, <2>13, <2>14, <2>15
<1>9. CASE /\ service = "open" /\ s \notin frozen
           /\ frozen' = IF s \in loaded /\ row[s] # "deleting" THEN frozen \cup {s} ELSE frozen
           /\ Settle(p, s) /\ UNCHANGED claim
  <2>1. /\ op' \in [Procs -> Calling] /\ \A q \in Procs \ {p} : op'[q] = op[q]
        /\ op'[p].at = "settling" /\ op'[p].kind = op[p].kind /\ op'[p].on = s
    <3> DEFINE w == IF s \in loaded THEN Tokens(s) ELSE {}
    <3>1. w \in SUBSET (Sessions \X {"run", "title"}) BY <1>1, <1>3, TokensAre
    <3>2. op' = [op EXCEPT ![p].at = "settling", ![p].awaits = w] BY <1>9 DEF Settle
    <3> HIDE DEF w
    <3> QED BY <1>1, <3>1, <3>2, Settles
  <2>2. s \in loaded => claim[s] = Nobody BY <1>9, <1>5, <1>1, HeldSession
  <2>3. s \notin loaded => claim[s] = p BY <1>9, <1>5, <1>1, HeldSession
  <2>4. s \in loaded => s \in frozen' BY <1>7, <1>9
  <2>5. frozen \subseteq frozen' /\ frozen' \subseteq loaded BY <1>1, <1>9 DEF MemoryTypes
  <2>6. \A q \in Procs \ {p} : Engaged(q) => op[q].on # s
    <3> SUFFICES ASSUME NEW q \in Procs \ {p}, Engaged(q), op[q].on = s PROVE FALSE OBVIOUS
    <3>1. op[q].at = "settling" BY <1>6
    <3>2. /\ s \in loaded => s \in frozen
          /\ s \notin loaded => claim[s] = q
      BY <1>9, <3>1, HeldSession
    <3> QED BY <1>9, <2>3, <3>2
  <2>7. Engaged(p)' /\ \A q \in Procs \ {p} : Engaged(q)' <=> Engaged(q)
    BY <1>3, <2>1 DEF Engaged
  <2>8. DirTypes'
    <3>1. ControlTypes' BY <1>2, <1>9, <2>1 DEF ControlTypes, DirTypes
    <3>2. MemoryTypes' BY <1>1, <1>2, <2>5 DEF MemoryTypes
    <3> QED BY <1>2, <3>1, <3>2 DEF DirTypes, StoreTypes, ScheduleTypes, store, schedule, counters
  <2>9. CallsShaped'
    <3>1. Shaped(op'[p]) BY <1>1, <1>3, <2>1 DEF Shaped, Deciders, Deletions
    <3> QED BY <2>1, <3>1 DEF CallsShaped
  <2>10. GateIsHeld'
    <3>1. op'[p].at \notin HeldPoints BY <2>1 DEF HeldPoints
    <3> QED BY <1>2, <1>4, <2>1, <3>1, Callers DEF GateIsHeld
  <2>11. OneAtATime'
    <3> SUFFICES ASSUME NEW x \in Sessions, NEW a \in Procs, NEW b \in Procs,
                        Deciding(a, x)', Deciding(b, x)', a # b
                 PROVE FALSE
      BY DEF OneAtATime
    <3>1. \A q \in Procs : Deciding(q, x)' => Engaged(q)' /\ op'[q].on = x
      BY DEF Deciding, Engaged, Deletions, Deciders
    <3>2. CASE a # p /\ b # p BY <2>1, <3>2 DEF OneAtATime, Deciding
    <3>3. CASE a = p BY <2>1, <2>6, <2>7, <3>1, <3>3
    <3>4. CASE b = p BY <2>1, <2>6, <2>7, <3>1, <3>4
    <3> QED BY <3>2, <3>3, <3>4
  <2>12. ClaimIsUsed'
    <3> SUFFICES ASSUME NEW x \in Sessions, claim'[x] # Nobody
                 PROVE (x \notin loaded /\ Engaged(claim[x]) /\ op[claim[x]].on = x)'
      BY DEF ClaimIsUsed
    <3>1. claim' = claim BY <1>9
    <3>2. claim[x] \in Procs /\ x \notin loaded /\ Engaged(claim[x]) /\ op[claim[x]].on = x
      BY <1>1, <3>1 DEF ControlTypes, ClaimIsUsed
    <3>3. op'[claim[x]].on = op[claim[x]].on BY <2>1, <3>2
    <3>4. (Engaged(claim[x]))'
      <4>1. CASE claim[x] = p BY <2>7, <3>1, <4>1 DEF Engaged
      <4>2. CASE claim[x] # p BY <2>1, <3>1, <3>2, <4>2 DEF Engaged
      <4> QED BY <4>1, <4>2
    <3> QED BY <1>2, <3>1, <3>2, <3>3, <3>4
  <2>13. SessionIsHeld'
    <3> SUFFICES ASSUME NEW q \in Procs, Engaged(q)'
                 PROVE LET x == op'[q].on IN
                       /\ op'[q].at = "examined" => x \in loaded' \/ claim'[x] = q
                       /\ op'[q].at = "settling" /\ op'[q].kind \in Deciders => x \in frozen' \/ claim'[x] = q
      BY <1>2 DEF SessionIsHeld, Engaged
    <3>1. CASE q = p BY <1>9, <2>1, <2>3, <2>4, <3>1
    <3>2. CASE q # p
      <4>1. op'[q] = op[q] /\ Engaged(q) /\ op[q].at = "settling" BY <1>6, <2>1, <2>7, <3>2
      <4> QED BY <1>9, <2>5, <4>1 DEF SessionIsHeld
    <3> QED BY <3>1, <3>2
  <2>14. DecisionStands'
    <3> SUFFICES ASSUME NEW q \in Procs, Engaged(q)'
                 PROVE LET x == op'[q].on IN
                       /\ row[x] # "none"
                       /\ op'[q].at \in Deletions => row[x] = "deleting"
                       /\ op'[q].at \in {"forgotten", "cleaned"} => x \notin loaded
                       /\ op'[q].at = "cleaned" => x \notin file
      BY <1>2 DEF DecisionStands, Engaged, Deletions, store
    <3>1. CASE q = p
      <4>1. row[s] # "none" BY <1>5 DEF DecisionStands
      <4> QED BY <2>1, <3>1, <4>1 DEF Deletions
    <3>2. CASE q # p
      <4>1. op'[q] = op[q] /\ Engaged(q) BY <2>1, <2>7, <3>2
      <4> QED BY <4>1 DEF DecisionStands
    <3> QED BY <3>1, <3>2
  <2>15. RowIsBacked' BY <1>2 DEF RowIsBacked, store
  <2>16. Creating' BY <1>4, <2>1 DEF Creating, HeldPoints
  <2>17. MemoryIsBacked' BY <1>2, <1>7 DEF MemoryIsBacked, store
  <2>18. DeletedIsGone' BY <1>2 DEF DeletedIsGone, store
  <2>19. FoundIdle'
    <3>1. CASE p # Maintenance
      <4>1. op'[Maintenance] = op[Maintenance] BY <1>1, <2>1, <3>1
      <4> QED BY <1>2, <4>1, IdleStays DEF store, schedule, Shown
    <3>2. CASE p = Maintenance
      <4>1. ~Idle(Maintenance) BY <1>1, <3>2, NoCallIsCalling DEF Idle
      <4>2. UNCHANGED <<touched, activity, pass, work, loaded, service>>
        BY <1>2 DEF schedule, store
      <4> QED BY <1>1, <2>1, <3>2, <4>1, <4>2 DEF FoundIdle, Shown, Cutoff
    <3> QED BY <3>1, <3>2
  <2> QED BY <2>8, <2>9, <2>10, <2>11, <2>12, <2>13, <2>14, <2>15, <2>16, <2>17, <2>18, <2>19
<1> QED BY <1>8, <1>9 DEF Freeze


(* What a step of a decision leaves of the calls and of what maintenance   *)
(* has found: its call ends without the gate, or deletes with it.          *)
LEMMA DecisionRest ==
  ASSUME DirInv, NEW p \in Procs, NEW s \in Sessions, s = op[p].on, Deciding(p, s),
         gate = p \/ gate = Nobody,
         \/ Answer(p) /\ Release(p) /\ gate' = Nobody
         \/ /\ op[p].kind = "delete" /\ gate' = p /\ UNCHANGED claim
            /\ \E point \in Deletions : Proceed(p, point),
         UNCHANGED <<service, work, activity, pass>>, loaded' \subseteq loaded,
         \A x \in Sessions \ {s} : touched'[x] = touched[x]
  PROVE  ControlTypes' /\ CallsShaped' /\ GateIsHeld' /\ FoundIdle'
<1> USE DEF DirInv
<1>1. ControlTypes /\ p # Nobody /\ Maintenance \in Procs /\ loaded \subseteq Sessions
  BY Callers DEF DirTypes, MemoryTypes
<1>2. /\ op' \in [Procs -> Calling] /\ \A q \in Procs \ {p} : op'[q] = op[q]
      /\ \/ op'[p] = NoCall /\ gate' = Nobody
         \/ op'[p].at \in Deletions /\ op'[p].kind = "delete" /\ op'[p].on = s /\ gate' = p
  <2>1. CASE Answer(p) /\ gate' = Nobody BY <1>1, <2>1, Answered1
  <2>2. CASE /\ op[p].kind = "delete" /\ gate' = p
             /\ \E point \in Deletions : Proceed(p, point)
    <3>1. PICK point \in Deletions : Proceed(p, point) BY <2>2
    <3>2. point \in Points BY DEF Points, Deletions
    <3> QED BY <1>1, <2>2, <3>1, <3>2, Proceeds
  <2> QED BY <2>1, <2>2
<1>3. \A q \in Procs \ {p} : op[q].at \notin HeldPoints BY <1>1, Callers DEF GateIsHeld
<1>4. ControlTypes' BY <1>1, <1>2 DEF ControlTypes, Release
<1>5. CallsShaped'
  <2>1. Shaped(op'[p]) BY <1>2, NoCallIsCalling DEF Shaped, Deletions, Deciders
  <2> QED BY <1>2, <2>1 DEF CallsShaped
<1>6. GateIsHeld'
  <2>1. op'[p].at \in HeldPoints <=> gate' = p
    <3>1. CASE op'[p] = NoCall /\ gate' = Nobody BY <1>1, <3>1, NoCallIsCalling
    <3>2. CASE op'[p].at \in Deletions /\ gate' = p BY <3>2 DEF Deletions, HeldPoints
    <3> QED BY <1>2, <3>1, <3>2
  <2>2. \A q \in Procs \ {p} : gate' # q BY Callers
  <2> QED BY <1>2, <1>3, <2>1, <2>2 DEF GateIsHeld
<1>7. FoundIdle'
  <2>1. CASE p = Maintenance
    <3>1. op[p].at # "idle" BY DEF Deciding
    <3>2. pass.stage # "idle" BY <2>1, <3>1, NoCallIsCalling DEF FoundIdle, Idle
    <3>3. op'[p].kind # "archive" BY <1>2, NoCallIsCalling
    <3> QED BY <2>1, <3>2, <3>3 DEF FoundIdle, Idle
  <2>2. CASE p # Maintenance
    <3>1. op'[Maintenance] = op[Maintenance] BY <1>1, <1>2, <2>2
    <3> DEFINE t == op[Maintenance].on
    <3>2. ASSUME service = "open", op[Maintenance].kind = "archive",
                 op[Maintenance].at \in {"examined", "settling"}, t \in loaded'
          PROVE "run" \notin work[t] /\ Shown(t) <= Cutoff /\ touched'[t] = touched[t]
      <4>1. t \in loaded /\ t \in Sessions BY <1>1, <3>2
      <4>2. Engaged(Maintenance) BY <3>2 DEF Engaged, Deciders
      <4>3. t # s BY <1>1, <2>2, <4>2, Alone
      <4> QED BY <3>2, <4>1, <4>3 DEF FoundIdle
    <3> QED BY <3>1, <3>2 DEF FoundIdle, Idle, Cutoff, Shown
  <2> QED BY <2>1, <2>2
<1> QED BY <1>4, <1>5, <1>6, <1>7

(* Who decides about a session has found its row, which may be deleted     *)
(* only when its deletion has got there.                                   *)
LEMMA DecidingOn ==
  ASSUME DirInv, NEW p \in Procs, Deciding(p, op[p].on)
  PROVE  LET s == op[p].on IN
         /\ s \in Sessions /\ Engaged(p) /\ row[s] # "none" /\ revision[s] > 0 /\ s \notin gone
         /\ row[s] \in {"live", "archived"} => s \in file
         /\ s \in loaded => s \in file
         /\ service = "open" /\ gate = Nobody /\ s \in loaded => row[s] = "live"
         /\ op[p].at \in Deletions => gate = p /\ row[s] = "deleting"
         /\ op[p].at \in {"forgotten", "cleaned"} => s \notin loaded
         /\ op[p].at = "cleaned" => s \notin file
<1> USE DEF DirInv
<1> DEFINE s == op[p].on
<1>1. s \in Sessions BY DEF Deciding, CallsShaped, Shaped, Deciders
<1>2. Engaged(p) BY DEF Deciding, Engaged, Deletions, Deciders
<1>3. row[s] # "none" BY <1>2 DEF DecisionStands
<1>4. revision[s] > 0 /\ (row[s] \in {"live", "archived"} => s \in file) BY <1>1, <1>3 DEF RowIsBacked
<1>5. s \notin gone BY <1>3 DEF DeletedIsGone
<1>6. s \in loaded => s \in file BY DEF MemoryIsBacked
<1>7. gate = Nobody => \A q \in Procs : op[q].at \notin {"marked", "registering"}
  BY Callers DEF GateIsHeld, HeldPoints
<1>8. service = "open" /\ gate = Nobody /\ s \in loaded => row[s] = "live"
  BY <1>7 DEF MemoryIsBacked
<1>9. op[p].at \in Deletions => gate = p BY DEF GateIsHeld, HeldPoints, Deletions
<1> QED BY <1>1, <1>2, <1>3, <1>4, <1>5, <1>6, <1>8, <1>9 DEF DecisionStands

(* The statement that archives or restores, or its failure.                *)
LEMMA ArchiveKeeps ==
  ASSUME DirInv, NEW p \in Procs, CommitArchive(p)
  PROVE  DirInv'
<1> USE DEF DirInv
<1> DEFINE s == op[p].on
<1>1. /\ op[p].kind \in {"archive", "restore"} /\ op[p].at = "settling" /\ gate = Nobody
      /\ Answer(p) /\ Release(p) /\ gate' = Nobody
      /\ UNCHANGED <<file, activity, deletes, service, viewers, work, schedule, now, calls, gone>>
  BY DEF CommitArchive, Settled
<1>2. Deciding(p, s) BY <1>1 DEF Deciding
<1>3. /\ s \in Sessions /\ row[s] # "none" /\ revision[s] > 0 /\ s \notin gone
      /\ row[s] \in {"live", "archived"} => s \in file
      /\ s \in loaded => s \in file
      /\ service = "open" /\ s \in loaded => row[s] = "live"
  BY <1>1, <1>2, DecidingOn
<1>4. op'[p] = NoCall /\ \A q \in Procs \ {p} : op'[q] = op[q]
  BY <1>1, Answered1 DEF DirTypes
<1>5. StoreTypes /\ MemoryTypes /\ ScheduleTypes BY DEF DirTypes
<1>6. /\ row' \in [Sessions -> Rows] /\ revision' \in [Sessions -> Nat]
      /\ touched' \in [Sessions -> 0..MaxTime]
      /\ loaded' \subseteq loaded /\ frozen' \subseteq loaded' /\ dirty' \subseteq loaded'
      /\ frozen' \subseteq frozen /\ frozen \ {s} \subseteq frozen' /\ creations' \subseteq creations
      /\ \A x \in Sessions \ {s} : /\ row'[x] = row[x] /\ revision'[x] = revision[x]
                                   /\ touched'[x] = touched[x]
      /\ row'[s] # "none" /\ revision'[s] > 0 /\ (row'[s] \in {"live", "archived"} => s \in file)
      /\ service = "open" /\ s \in loaded' => row'[s] = "live"
  <2> DEFINE to == Wanted(op[p].kind)
  <2>1. CASE /\ Stands(p, s)
             /\ row' = Put(row, s, to)
             /\ revision' = Put(revision, s, revision[s] + 1)
             /\ touched' = IF to = "live" THEN Put(touched, s, Max2(touched[s], now)) ELSE touched
             /\ IF service # "open" THEN UNCHANGED <<loaded, frozen, dirty, creations>>
                ELSE IF to = "archived" THEN Forgotten(s)
                ELSE Unfreeze(s) /\ UNCHANGED <<loaded, dirty, creations>>
    <3>1. to \in {"archived", "live"} /\ to \in Rows BY DEF Wanted, Rows
    <3> HIDE DEF to
    <3>2. row' = [row EXCEPT ![s] = to] /\ revision' = [revision EXCEPT ![s] = revision[s] + 1]
      BY <2>1 DEF Put
    <3>3. revision[s] \in Nat /\ revision[s] + 1 \in Nat /\ revision[s] + 1 > 0
      BY <1>3, <1>5 DEF StoreTypes
    <3>4. row' \in [Sessions -> Rows] /\ revision' \in [Sessions -> Nat]
          /\ row'[s] = to /\ revision'[s] = revision[s] + 1
          /\ \A x \in Sessions \ {s} : row'[x] = row[x] /\ revision'[x] = revision[x]
      BY <1>3, <1>5, <3>1, <3>2, <3>3 DEF StoreTypes
    <3>5. touched' \in [Sessions -> 0..MaxTime] /\ \A x \in Sessions \ {s} : touched'[x] = touched[x]
      <4>1. Max2(touched[s], now) \in 0..MaxTime
        BY <1>3, <1>5, MaxOfTwo DEF StoreTypes, ScheduleTypes
      <4>2. touched' \in {touched, [touched EXCEPT ![s] = Max2(touched[s], now)]} BY <2>1 DEF Put
      <4> QED BY <1>5, <4>1, <4>2 DEF StoreTypes
    <3>6. /\ loaded' \subseteq loaded /\ frozen' \subseteq loaded' /\ dirty' \subseteq loaded'
          /\ frozen' \subseteq frozen /\ frozen \ {s} \subseteq frozen' /\ creations' \subseteq creations
          /\ service = "open" /\ to = "archived" => s \notin loaded'
      BY <1>5, <2>1, <3>1 DEF MemoryTypes, Forgotten, Unfreeze
    <3>7. row[s] \in {"live", "archived"} BY <2>1 DEF Stands, Listed
    <3>8. row'[s] # "none" BY <3>1, <3>4
    <3> QED BY <1>3, <3>1, <3>3, <3>4, <3>5, <3>6, <3>7, <3>8
  <2>2. CASE /\ frozen' \in {frozen, frozen \ {s}}
             /\ UNCHANGED <<row, revision, touched, loaded, dirty, creations>>
    BY <1>3, <1>5, <2>2 DEF StoreTypes, MemoryTypes
  <2>3. frozen' = frozen \/ Unfreeze(s) => frozen' \in {frozen, frozen \ {s}} BY DEF Unfreeze
  <2> QED BY <2>1, <2>2, <2>3 DEF CommitArchive
<1>7. Listing'
  <2>1. NoCall.at \notin Deletions BY NoCallIsCalling
  <2>2. \A x \in Sessions \ {s} : x \in frozen' <=> x \in frozen BY <1>6
  <2>3. frozen' \subseteq Sessions /\ file \subseteq Sessions /\ gone \subseteq Sessions
    BY <1>5, <1>6 DEF StoreTypes, MemoryTypes, ScheduleTypes
  <2> HIDE DEF s
  <2> QED BY <1>1, <1>2, <1>3, <1>4, <1>6, <2>1, <2>2, <2>3, DecisionStep DEF s
<1>8. ControlTypes' /\ CallsShaped' /\ GateIsHeld' /\ FoundIdle'
  BY <1>1, <1>2, <1>3, <1>6, DecisionRest DEF schedule
<1>9. DirTypes'
  <2>1. StoreTypes' BY <1>1, <1>5, <1>6 DEF StoreTypes
  <2>2. MemoryTypes' BY <1>1, <1>5, <1>6 DEF MemoryTypes
  <2>3. ScheduleTypes' BY <1>1, <1>5 DEF ScheduleTypes, schedule
  <2> QED BY <1>8, <2>1, <2>2, <2>3 DEF DirTypes
<1> QED BY <1>7, <1>8, <1>9 DEF Listing

(* The mark, or what kept it from being set.                               *)
LEMMA MarkKeeps ==
  ASSUME DirInv, NEW p \in Procs, Mark(p)
  PROVE  DirInv'
<1> USE DEF DirInv
<1> DEFINE s == op[p].on
<1>1. /\ op[p].kind = "delete" /\ op[p].at = "settling" /\ gate = Nobody
      /\ UNCHANGED <<revision, touched, file, activity, deletes, service, loaded, dirty, creations,
                     viewers, work, schedule, now, calls, gone>>
  BY DEF Mark, At
<1>2. Deciding(p, s) BY <1>1 DEF Deciding
<1>3. /\ s \in Sessions /\ row[s] # "none" /\ revision[s] > 0 /\ s \notin gone
      /\ row[s] \in {"live", "archived"} => s \in file
      /\ s \in loaded => s \in file
      /\ service = "open" /\ s \in loaded => row[s] = "live"
  BY <1>1, <1>2, DecidingOn
<1>4. StoreTypes /\ MemoryTypes /\ ScheduleTypes /\ ControlTypes BY DEF DirTypes
<1>5. \/ /\ row' = [row EXCEPT ![s] = "deleting"] /\ gate' = p /\ Proceed(p, "marked")
         /\ UNCHANGED <<frozen, claim>>
      \/ /\ frozen' = frozen \ {s} /\ Answer(p) /\ Release(p) /\ UNCHANGED <<row, gate>>
  BY DEF Mark, Put, Unfreeze
<1>6. /\ row' \in [Sessions -> Rows] /\ frozen' \subseteq frozen
      /\ \A x \in Sessions \ {s} : row'[x] = row[x] /\ (x \in frozen' <=> x \in frozen)
      /\ row'[s] = "deleting" \/ row'[s] = row[s]
  BY <1>3, <1>4, <1>5 DEF StoreTypes, Rows
<1>7. /\ \A q \in Procs \ {p} : op'[q] = op[q]
      /\ \/ op'[p] = NoCall /\ Release(p) /\ row' = row
         \/ /\ op'[p].on = s /\ op'[p].at = "marked" /\ op'[p].kind = "delete" /\ UNCHANGED claim
            /\ row'[s] = "deleting"
  <2>1. "marked" \in Points BY DEF Points
  <2> QED BY <1>1, <1>3, <1>4, <1>5, <2>1, Answered1, Proceeds DEF StoreTypes
<1>8. Listing'
  <2>1. NoCall.at \notin Deletions BY NoCallIsCalling
  <2>2. "marked" \in Deletions /\ "marked" \notin {"forgotten", "cleaned"} BY DEF Deletions
  <2>3. frozen' \subseteq Sessions /\ file \subseteq Sessions /\ gone \subseteq Sessions
    BY <1>4, <1>6 DEF StoreTypes, MemoryTypes, ScheduleTypes
  <2> HIDE DEF s
  <2> QED BY <1>1, <1>2, <1>3, <1>6, <1>7, <2>1, <2>2, <2>3, DecisionStep DEF s
<1>9. ControlTypes' /\ CallsShaped' /\ GateIsHeld' /\ FoundIdle'
  <2>1. "marked" \in Deletions BY DEF Deletions
  <2> QED BY <1>1, <1>2, <1>3, <1>5, <2>1, DecisionRest DEF schedule
<1>10. DirTypes'
  <2>1. StoreTypes' BY <1>1, <1>4, <1>6 DEF StoreTypes
  <2>2. MemoryTypes' BY <1>1, <1>4, <1>6 DEF MemoryTypes
  <2>3. ScheduleTypes' BY <1>1, <1>4 DEF ScheduleTypes, schedule
  <2> QED BY <1>9, <2>1, <2>2, <2>3 DEF DirTypes
<1> QED BY <1>8, <1>9, <1>10 DEF Listing

(* The session leaves memory.                                              *)
LEMMA ForgetKeeps ==
  ASSUME DirInv, NEW p \in Procs, Forget(p)
  PROVE  DirInv'
<1> USE DEF DirInv
<1> DEFINE s == op[p].on
<1>1. /\ op[p].kind = "delete" /\ op[p].at = "marked"
      /\ UNCHANGED <<store, service, viewers, work, schedule, counters, gone>>
  BY DEF Forget, At
<1>2. Deciding(p, s) /\ op[p].at \in Deletions BY <1>1 DEF Deciding, Deletions
<1>3. /\ s \in Sessions /\ row[s] = "deleting" /\ revision[s] > 0 /\ s \notin gone
      /\ s \in loaded => s \in file
      /\ gate = p
  BY <1>2, DecidingOn
<1>4. StoreTypes /\ MemoryTypes /\ ScheduleTypes /\ ControlTypes BY DEF DirTypes
<1>5. \/ service = "open" /\ Forgotten(s) /\ Proceed(p, "forgotten") /\ UNCHANGED <<gate, claim>>
      \/ /\ service # "open" /\ Answer(p) /\ Release(p) /\ gate' = Nobody
         /\ UNCHANGED <<loaded, frozen, dirty, creations>>
  BY DEF Forget
<1>6. /\ loaded' \subseteq loaded /\ frozen' \subseteq loaded' /\ dirty' \subseteq loaded'
      /\ creations' \subseteq creations
      /\ \A x \in Sessions \ {s} : x \in frozen' <=> x \in frozen
  BY <1>4, <1>5 DEF MemoryTypes, Forgotten
<1>7. /\ \A q \in Procs \ {p} : op'[q] = op[q]
      /\ \/ op'[p] = NoCall /\ Release(p) /\ service # "open"
         \/ /\ op'[p].on = s /\ op'[p].at = "forgotten" /\ op'[p].kind = "delete" /\ UNCHANGED claim
            /\ s \notin loaded'
  <2>1. "forgotten" \in Points BY DEF Points
  <2> QED BY <1>1, <1>4, <1>5, <2>1, Answered1, Proceeds DEF Forgotten
<1>8. Listing'
  <2>1. NoCall.at \notin Deletions BY NoCallIsCalling
  <2>2. "forgotten" \in Deletions /\ "forgotten" # "cleaned" BY DEF Deletions
  <2>3. frozen' \subseteq Sessions /\ file \subseteq Sessions /\ gone \subseteq Sessions
    BY <1>4, <1>6 DEF StoreTypes, MemoryTypes, ScheduleTypes
  <2>4. UNCHANGED <<row, revision, file, gone, service>> BY <1>1 DEF store
  <2>5. row[s] # "none" /\ row[s] \notin {"live", "archived"} BY <1>3
  <2> HIDE DEF s
  <2> QED BY <1>2, <1>3, <1>6, <1>7, <2>1, <2>2, <2>3, <2>4, <2>5, DecisionStep DEF s
<1>9. ControlTypes' /\ CallsShaped' /\ GateIsHeld' /\ FoundIdle'
  <2>1. "forgotten" \in Deletions BY DEF Deletions
  <2> QED BY <1>1, <1>2, <1>3, <1>5, <1>6, <2>1, DecisionRest DEF schedule, store
<1>10. DirTypes'
  <2>1. StoreTypes' BY <1>1, <1>4 DEF StoreTypes, store
  <2>2. MemoryTypes' BY <1>1, <1>4, <1>6 DEF MemoryTypes
  <2>3. ScheduleTypes' BY <1>1, <1>4 DEF ScheduleTypes, schedule, counters
  <2> QED BY <1>9, <2>1, <2>2, <2>3 DEF DirTypes
<1> QED BY <1>8, <1>9, <1>10 DEF Listing

(* The file goes, and then the row.                                        *)
LEMMA RemovalKeeps ==
  ASSUME DirInv, NEW p \in Procs, Clean(p) \/ RemoveRow(p)
  PROVE  DirInv'
<1> USE DEF DirInv
<1> DEFINE s == op[p].on
<1>1. /\ op[p].kind = "delete" /\ op[p].at \in {"forgotten", "cleaned"}
      /\ UNCHANGED <<revision, touched, activity, deletes, memory, work, schedule, now, calls>>
  BY DEF Clean, RemoveRow, At
<1>2. Deciding(p, s) /\ op[p].at \in Deletions BY <1>1 DEF Deciding, Deletions
<1>3. /\ s \in Sessions /\ row[s] = "deleting" /\ revision[s] > 0 /\ s \notin gone /\ gate = p
      /\ s \notin loaded /\ (op[p].at = "cleaned" => s \notin file)
  BY <1>1, <1>2, DecidingOn
<1>4. StoreTypes /\ MemoryTypes /\ ScheduleTypes /\ ControlTypes BY DEF DirTypes
<1>5. \/ /\ Answer(p) /\ Release(p) /\ gate' = Nobody /\ file' = file
         /\ \/ row' = row /\ gone' = gone
            \/ row' = [row EXCEPT ![s] = "none"] /\ gone' = gone \cup {s} /\ s \notin file
      \/ /\ Proceed(p, "cleaned") /\ UNCHANGED <<gate, claim, row, gone>> /\ file' = file \ {s}
  BY <1>3 DEF Clean, RemoveRow, Put, At
<1>6. /\ row' \in [Sessions -> Rows] /\ file' \subseteq file /\ gone' \subseteq gone \cup {s}
      /\ \A x \in Sessions \ {s} : row'[x] = row[x] /\ (x \in file' <=> x \in file)
                                   /\ (x \in gone' => x \in gone)
      /\ row'[s] \in {"none", "deleting"}
      /\ s \in gone' => row'[s] = "none" /\ s \notin file'
  BY <1>3, <1>4, <1>5 DEF StoreTypes, Rows
<1>7. /\ \A q \in Procs \ {p} : op'[q] = op[q]
      /\ \/ op'[p] = NoCall /\ Release(p)
         \/ /\ op'[p].on = s /\ op'[p].at = "cleaned" /\ op'[p].kind = "delete" /\ UNCHANGED claim
            /\ s \notin file' /\ row' = row
  <2>1. "cleaned" \in Points BY DEF Points
  <2> QED BY <1>1, <1>4, <1>5, <2>1, Answered1, Proceeds
<1>8. Listing'
  <2>1. NoCall.at \notin Deletions BY NoCallIsCalling
  <2>2. "cleaned" \in Deletions BY DEF Deletions
  <2>3. frozen \subseteq Sessions /\ file' \subseteq Sessions /\ gone' \subseteq Sessions
    BY <1>3, <1>4, <1>6 DEF StoreTypes, MemoryTypes, ScheduleTypes
  <2>4. UNCHANGED <<revision, frozen, loaded, service>> BY <1>1 DEF memory
  <2>5. row'[s] \notin {"live", "archived"} BY <1>6
  <2>6. op'[p].at \in Deletions => row'[s] = "deleting" /\ s \notin file' BY <1>3, <1>7, <2>1
  <2> HIDE DEF s
  <2> QED BY <1>2, <1>3, <1>6, <1>7, <2>2, <2>3, <2>4, <2>5, <2>6, DecisionStep DEF s
<1>9. ControlTypes' /\ CallsShaped' /\ GateIsHeld' /\ FoundIdle'
  <2>1. "cleaned" \in Deletions BY DEF Deletions
  <2> QED BY <1>1, <1>2, <1>3, <1>5, <2>1, DecisionRest DEF schedule, memory
<1>10. DirTypes'
  <2>1. StoreTypes' BY <1>1, <1>4, <1>6 DEF StoreTypes
  <2>2. MemoryTypes' BY <1>1, <1>4 DEF MemoryTypes, memory
  <2>3. ScheduleTypes' BY <1>1, <1>3, <1>4, <1>6 DEF ScheduleTypes, schedule
  <2> QED BY <1>9, <2>1, <2>2, <2>3 DEF DirTypes
<1> QED BY <1>8, <1>9, <1>10 DEF Listing

(***************************************************************************)
(* The service ends and is opened again.                                   *)
(***************************************************************************)

(* While everybody is idle nothing is claimed and nobody has the gate.     *)
LEMMA NobodyCalls ==
  ASSUME DirInv, \A p \in Procs : Idle(p)
  PROVE  gate = Nobody /\ \A s \in Sessions : claim[s] = Nobody
<1> USE DEF DirInv
<1>1. \A p \in Procs : ~Engaged(p) /\ op[p].at \notin HeldPoints
  BY NoCallIsCalling DEF Idle, Engaged, NoCall, Deletions
<1>2. gate = Nobody BY <1>1 DEF GateIsHeld, DirTypes, ControlTypes
<1>3. \A s \in Sessions : claim[s] = Nobody
  BY <1>1 DEF ClaimIsUsed, DirTypes, ControlTypes
<1> QED BY <1>2, <1>3

(* An empty service without a call has nothing to hold.                    *)
LEMMA EmptyService ==
  ASSUME \A p \in Procs : op'[p] = NoCall, \A s \in Sessions : claim'[s] = Nobody,
         loaded' = {}, gate' = Nobody, pass'.stage = "idle" => pass'.left = {}
  PROVE  /\ CallsShaped' /\ GateIsHeld' /\ OneAtATime' /\ ClaimIsUsed' /\ SessionIsHeld'
         /\ DecisionStands' /\ Creating' /\ MemoryIsBacked' /\ FoundIdle'
<1>1. \A p \in Procs : /\ ~Engaged(p)' /\ op'[p].at = "idle" /\ op'[p].kind = "none"
                       /\ op'[p].at \notin HeldPoints \cup Deletions
  BY NoCallIsCalling DEF Engaged, Deletions
<1>2. CallsShaped' BY NoCallIsCalling DEF CallsShaped
<1>3. GateIsHeld' BY <1>1, Callers DEF GateIsHeld
<1>4. OneAtATime' BY <1>1 DEF OneAtATime, Deciding
<1>5. ClaimIsUsed' BY DEF ClaimIsUsed
<1>6. SessionIsHeld' BY <1>1 DEF SessionIsHeld
<1>7. DecisionStands' BY <1>1 DEF DecisionStands
<1>8. Creating' BY <1>1 DEF Creating
<1>9. MemoryIsBacked' BY DEF MemoryIsBacked
<1>10. FoundIdle' BY Callers DEF FoundIdle, Idle
<1> QED BY <1>2, <1>3, <1>4, <1>5, <1>6, <1>7, <1>8, <1>9, <1>10

(* The close: the calls that are still under way have lost the memory.     *)
LEMMA CloseKeeps ==
  ASSUME DirInv, NEW c \in Clients, FinishClose(c)
  PROVE  DirInv'
<1> USE DEF DirInv
<1>1. c \in Procs /\ c # Maintenance /\ c # Nobody /\ Maintenance \in Procs BY Callers DEF Procs
<1>2. /\ op[c].kind = "close" /\ op[c].at = "settling" /\ gate = Nobody /\ Answer(c)
      /\ service' = "down" /\ loaded' = {} /\ frozen' = {} /\ dirty' = {}
      /\ creations' = {} /\ viewers' = {}
      /\ UNCHANGED <<store, work, gate, claim, schedule, counters, gone>>
  BY DEF FinishClose, At
<1>3. op' \in [Procs -> Calling] /\ op'[c] = NoCall /\ \A q \in Procs \ {c} : op'[q] = op[q]
  BY <1>1, <1>2, Answered1 DEF DirTypes
<1>4. ~Engaged(c) BY <1>2 DEF Engaged, Deciders, Deletions
<1>5. ~Engaged(c)' /\ op'[c].at \notin HeldPoints \cup Deletions \cup {"settling", "registering"}
  BY <1>3 DEF Engaged, NoCall, Deletions, HeldPoints
<1>6. \A q \in Procs : op[q].at \notin HeldPoints BY <1>2, Callers DEF GateIsHeld
<1>7. DirTypes'
  BY <1>2, <1>3 DEF DirTypes, StoreTypes, MemoryTypes, ControlTypes, ScheduleTypes, store, schedule,
                    counters
<1>8. CallsShaped' BY <1>3, NoCallIsCalling DEF CallsShaped
<1>9. GateIsHeld' BY <1>2, <1>3, <1>5, <1>6, Callers DEF GateIsHeld
<1>10. OneAtATime' BY <1>3, <1>5 DEF OneAtATime, Deciding, Deletions
<1>11. ClaimIsUsed'
  <2> SUFFICES ASSUME NEW x \in Sessions, claim[x] # Nobody
               PROVE (Engaged(claim[x]) /\ op[claim[x]].on = x)'
    BY <1>2 DEF ClaimIsUsed
  <2>1. claim[x] \in Procs /\ Engaged(claim[x]) /\ op[claim[x]].on = x
    BY DEF ClaimIsUsed, DirTypes, ControlTypes
  <2>2. op'[claim[x]] = op[claim[x]] BY <1>3, <1>4, <2>1
  <2> QED BY <1>2, <2>1, <2>2 DEF Engaged
<1>12. SessionIsHeld' BY <1>2 DEF SessionIsHeld
<1>13. DecisionStands'
  <2> SUFFICES ASSUME NEW q \in Procs, Engaged(q)'
               PROVE LET x == op'[q].on IN
                     /\ row[x] # "none"
                     /\ op'[q].at \in Deletions => row[x] = "deleting"
                     /\ op'[q].at \in {"forgotten", "cleaned"} => x \notin loaded'
                     /\ op'[q].at = "cleaned" => x \notin file
    BY <1>2 DEF DecisionStands, Engaged, Deletions, store
  <2>1. op'[q] = op[q] /\ Engaged(q) BY <1>3, <1>5 DEF Engaged
  <2> QED BY <1>2, <2>1 DEF DecisionStands
<1>14. RowIsBacked' BY <1>2 DEF RowIsBacked, store
<1>15. Creating' BY <1>3, <1>5, <1>6 DEF Creating, HeldPoints
<1>16. MemoryIsBacked' BY <1>2 DEF MemoryIsBacked
<1>17. DeletedIsGone' BY <1>2 DEF DeletedIsGone, store
<1>18. FoundIdle'
  <2>1. op'[Maintenance] = op[Maintenance] BY <1>1, <1>3
  <2> QED BY <1>2, <2>1 DEF FoundIdle, Idle, schedule
<1> QED BY <1>7, <1>8, <1>9, <1>10, <1>11, <1>12, <1>13, <1>14, <1>15, <1>16, <1>17, <1>18

(* The last reference goes, or the process dies: the store is left.        *)
LEMMA DownKeeps ==
  ASSUME DirInv, DropService \/ Crash
  PROVE  DirInv'
<1> USE DEF DirInv
<1>1. /\ service' = "down" /\ loaded' = {} /\ frozen' = {} /\ dirty' = {}
      /\ creations' = {} /\ viewers' = {} /\ timer' = FALSE
      /\ UNCHANGED <<store, now, gone>>
  BY DEF DropService, Crash, counters
<1>2. /\ op' \in [Procs -> Calling] /\ \A p \in Procs : op'[p] = NoCall
      /\ claim' \in [Sessions -> Procs \cup {Nobody}] /\ \A s \in Sessions : claim'[s] = Nobody
      /\ gate' = Nobody /\ work' \in [Sessions -> SUBSET {"run", "flush", "title"}]
      /\ due' \in BOOLEAN
      /\ pass' \in [stage : Stages, began : 0..MaxTime, left : SUBSET (Sessions \X Nat)]
      /\ pass'.stage = "idle" => pass'.left = {}
  <2>1. CASE DropService
    <3>1. UNCHANGED <<work, gate, claim, op, due, pass>> /\ \A p \in Procs : Idle(p)
      BY <2>1 DEF DropService
    <3>2. gate = Nobody /\ \A s \in Sessions : claim[s] = Nobody BY <3>1, NobodyCalls
    <3> QED BY <3>1, <3>2 DEF Idle, DirTypes, ControlTypes, MemoryTypes, ScheduleTypes, FoundIdle
  <2>2. CASE Crash
    <3>1. pass' = [stage |-> "idle", began |-> 0, left |-> {}] /\ 0 \in 0..MaxTime /\ "idle" \in Stages
      BY <2>2, LimitsAssumption DEF Crash, Stages
    <3>2. Nobody \in Procs \cup {Nobody} OBVIOUS
    <3>3. {} \in SUBSET (Sessions \X Nat) /\ {} \in SUBSET {"run", "flush", "title"} OBVIOUS
    <3>4. pass' \in [stage : Stages, began : 0..MaxTime, left : SUBSET (Sessions \X Nat)] /\ pass'.left = {}
      BY <3>1, <3>3
    <3>5. op' \in [Procs -> Calling] /\ \A p \in Procs : op'[p] = NoCall
      BY <2>2, NoCallIsCalling DEF Crash
    <3>6. /\ claim' \in [Sessions -> Procs \cup {Nobody}] /\ \A s \in Sessions : claim'[s] = Nobody
          /\ gate' = Nobody /\ work' \in [Sessions -> SUBSET {"run", "flush", "title"}]
          /\ due' \in BOOLEAN
      BY <2>2, <3>2, <3>3 DEF Crash
    <3> QED BY <3>4, <3>5, <3>6
  <2> QED BY <2>1, <2>2
<1>3. DirTypes'
  BY <1>1, <1>2 DEF DirTypes, StoreTypes, MemoryTypes, ControlTypes, ScheduleTypes, store
<1>4. /\ CallsShaped' /\ GateIsHeld' /\ OneAtATime' /\ ClaimIsUsed' /\ SessionIsHeld'
      /\ DecisionStands' /\ Creating' /\ MemoryIsBacked' /\ FoundIdle'
  BY <1>1, <1>2, EmptyService
<1>5. RowIsBacked' BY <1>1 DEF RowIsBacked, store
<1>6. DeletedIsGone' BY <1>1 DEF DeletedIsGone, store
<1> QED BY <1>3, <1>4, <1>5, <1>6

(* The directory is opened, and finishes the deletions it finds.           *)
LEMMA OpenKeeps ==
  ASSUME DirInv, Open
  PROVE  DirInv'
<1> USE DEF DirInv
<1>1. /\ service = "down" /\ service' = "open" /\ \A p \in Procs : Idle(p)
      /\ UNCHANGED <<revision, touched, activity, deletes, loaded, frozen, dirty, creations, viewers,
                     work, gate, claim, op, schedule, now, gone>>
  BY DEF Open
<1>2. gate = Nobody /\ \A s \in Sessions : claim[s] = Nobody BY <1>1, NobodyCalls
<1>3. loaded = {} BY <1>1 DEF MemoryIsBacked
<1>4. PICK cleaned \in SUBSET {s \in Sessions : row[s] = "deleting"} :
             \E removed \in SUBSET cleaned :
               /\ file' = file \ cleaned
               /\ row' = [s \in Sessions |-> IF s \in removed THEN "none" ELSE row[s]]
  BY DEF Open
<1>5. PICK removed \in SUBSET cleaned :
             /\ file' = file \ cleaned
             /\ row' = [s \in Sessions |-> IF s \in removed THEN "none" ELSE row[s]]
  BY <1>4
<1>6. row' \in [Sessions -> Rows] /\ file' \subseteq Sessions
  BY <1>5 DEF DirTypes, StoreTypes, Rows
<1>7. DirTypes'
  BY <1>1, <1>6 DEF DirTypes, StoreTypes, MemoryTypes, ControlTypes, ScheduleTypes, schedule
<1>8. /\ CallsShaped' /\ GateIsHeld' /\ OneAtATime' /\ ClaimIsUsed' /\ SessionIsHeld'
      /\ DecisionStands' /\ Creating' /\ MemoryIsBacked' /\ FoundIdle'
  <2>1. pass'.stage = "idle" => pass'.left = {} BY <1>1 DEF schedule, FoundIdle
  <2> QED BY <1>1, <1>2, <1>3, <2>1, EmptyService DEF Idle
<1>9. RowIsBacked' BY <1>1, <1>5 DEF RowIsBacked
<1>10. DeletedIsGone'
  <2> SUFFICES ASSUME NEW s \in gone PROVE row'[s] = "none" /\ s \notin file' \cup loaded'
    BY <1>1 DEF DeletedIsGone
  <2>1. s \in Sessions /\ row[s] = "none" /\ s \notin file BY DEF DeletedIsGone, DirTypes, ScheduleTypes
  <2> QED BY <1>1, <1>3, <1>5, <2>1
<1> QED BY <1>7, <1>8, <1>9, <1>10

(* Every step of the directory keeps the invariant.                        *)
LEMMA DirSteps == DirInv /\ [Next]_vars => DirInv'
<1> SUFFICES ASSUME DirInv, [Next]_vars PROVE DirInv' OBVIOUS
<1>1. ASSUME NEW c \in Clients, Call(c) PROVE DirInv' BY <1>1, CallsKeep
<1>2. ASSUME NEW p \in Procs, Step(p) PROVE DirInv'
  <2>1. CASE Examine(p) \/ ExamineDelete(p) BY <2>1, ExamineKeeps
  <2>2. CASE Freeze(p) BY <2>2, FreezeKeeps
  <2>3. CASE CommitArchive(p) BY <2>3, ArchiveKeeps
  <2>4. CASE Mark(p) BY <2>4, MarkKeeps
  <2>5. CASE Forget(p) BY <2>5, ForgetKeeps
  <2>6. CASE Clean(p) \/ RemoveRow(p) BY <2>6, RemovalKeeps
  <2>7. ASSUME p \in Clients, Read(p) \/ View(p) \/ SavePolicy(p) \/ BeginClose(p) \/ CloseState(p)
        PROVE DirInv'
    BY <2>7, ReadsKeep
  <2>8. ASSUME p \in Clients, StartRun(p) \/ FlushStart(p) PROVE DirInv' BY <2>8, StartsKeep
  <2>9. ASSUME p \in Clients, Create(p) PROVE DirInv' BY <2>9, CreateKeeps
  <2>10. ASSUME p \in Clients, RegisterRow(p) PROVE DirInv' BY <2>10, RegisterKeeps
  <2>11. ASSUME p \in Clients, FinishClose(p) PROVE DirInv' BY <2>11, CloseKeeps
  <2> QED BY <1>2, <2>1, <2>2, <2>3, <2>4, <2>5, <2>6, <2>7, <2>8, <2>9, <2>10, <2>11 DEF Step, Settling
<1>3. ASSUME NEW s \in Sessions, Task(s) PROVE DirInv' BY <1>3, TasksKeep
<1>4. CASE \E v \in viewers : Leave(v) BY <1>4, HostKeeps
<1>5. CASE Passing BY <1>5, PassingKeeps
<1>6. CASE Host
  <2>1. CASE StartMaintenance \/ Interval \/ CancelAll \/ Tick BY <2>1, HostKeeps
  <2>2. CASE DropService \/ Crash BY <2>2, DownKeeps
  <2>3. CASE Open BY <2>3, OpenKeeps
  <2> QED BY <1>6, <2>1, <2>2, <2>3 DEF Host
<1>7. CASE UNCHANGED vars
  <2>1. UNCHANGED <<row, revision, touched, file, activity, deletes, service, loaded, frozen, dirty,
                    creations, viewers, work, gate, claim, op, timer, due, pass, now, gone>>
    BY <1>7 DEF vars, store, memory, schedule, counters
  <2>2. DirTypes'
    BY <2>1 DEF DirInv, DirTypes, StoreTypes, MemoryTypes, ControlTypes, ScheduleTypes
  <2>3. CallsShaped' /\ GateIsHeld' BY <2>1 DEF DirInv, CallsShaped, GateIsHeld
  <2>4. Listing' BY <2>1, Quiet
  <2>5. FoundIdle' BY <2>1, IdleStays DEF Shown
  <2> QED BY <2>2, <2>3, <2>4, <2>5, QuietKeeps
<1> QED BY <1>1, <1>2, <1>3, <1>4, <1>5, <1>6, <1>7 DEF Next

(***************************************************************************)
(* What the directory promises.                                            *)
(***************************************************************************)

(* The invariant holds in every state.                                     *)
LEMMA DirectoryIsSound == Spec => []DirInv
<1>1. Init => DirInv BY DirStarts
<1>2. DirInv /\ [Next]_vars => DirInv' BY DirSteps
<1> QED BY <1>1, <1>2, PTL DEF Spec

(* What is in memory can be found again: a loaded session has its row and  *)
(* its file and is claimed by nobody, and what a caller was told is        *)
(* deleted is gone for good.                                               *)
THEOREM ListingIsKept == Spec => []ListingKept
<1>1. DirInv => ListingKept
  <2> SUFFICES ASSUME DirInv PROVE ListingKept OBVIOUS
  <2> USE DEF DirInv
  <2>1. gate # Nobody => op[gate].at \in HeldPoints BY DEF GateIsHeld, DirTypes, ControlTypes
  <2>2. TypeOK
    BY <2>1 DEF TypeOK, DirTypes, StoreTypes, MemoryTypes, ControlTypes, ScheduleTypes, HeldPoints
  <2>3. LoadedIsListed
    <3> SUFFICES ASSUME service = "open", gate = Nobody, NEW s \in loaded
                 PROVE row[s] = "live" /\ s \in file /\ claim[s] = Nobody
      BY DEF LoadedIsListed
    <3>1. \A p \in Procs : op[p].at \notin {"marked", "registering"}
      BY Callers DEF GateIsHeld, HeldPoints
    <3>2. s \in Sessions BY DEF DirTypes, MemoryTypes
    <3> QED BY <3>1, <3>2 DEF MemoryIsBacked, ClaimIsUsed
  <2> QED BY <2>2, <2>3 DEF ListingKept
<1> QED BY <1>1, DirectoryIsSound, PTL

(* However archives, restores and deletions of one session interleave,     *)
(* one of them decides at a time and the session is held for it.           *)
THEOREM OneAlwaysDecides == Spec => []OneDecides
<1>1. DirInv => OneDecides
  <2> SUFFICES ASSUME DirInv, service = "open", NEW s \in Sessions, NEW p \in Procs, Deciding(p, s)
               PROVE /\ \A q \in Procs \ {p} : ~Deciding(q, s)
                     /\ op[p].at = "settling" => s \in frozen \/ claim[s] = p
    BY DEF OneDecides
  <2>1. \A q \in Procs \ {p} : ~Deciding(q, s) BY DEF DirInv, OneAtATime
  <2>2. op[p].at = "settling" => s \in frozen \/ claim[s] = p
    BY DEF DirInv, SessionIsHeld, Deciding, Deciders
  <2> QED BY <2>1, <2>2
<1> QED BY <1>1, DirectoryIsSound, PTL

(* A row becomes archived by the statement of an archive, and is marked by *)
(* a deletion.                                                             *)
LEMMA RowsChange ==
  ASSUME DirInv, [Next]_vars, NEW s \in Sessions, row'[s] # row[s]
  PROVE  /\ row'[s] = "archived" => \E p \in Procs : CommitArchive(p) /\ op[p].on = s
         /\ row'[s] = "deleting" => \E p \in Procs : Mark(p) /\ op[p].on = s
<1>1. ASSUME NEW c \in Clients, Call(c) PROVE FALSE BY <1>1 DEF Call, store
<1>2. ASSUME NEW x \in Sessions, Task(x) PROVE FALSE
  BY <1>2 DEF Task, EndRun, Flush, BeginTitle, EndTitle, store
<1>3. ASSUME NEW v \in viewers, Leave(v) PROVE FALSE BY <1>3 DEF Leave, store
<1>4. CASE Passing BY <1>4 DEF Passing, BeginPass, BeginDeletions, NextCandidate, EndPass, store
<1>5. CASE Host
  <2>1. CASE Open
    <3>1. row'[s] = "none" BY <2>1 DEF Open
    <3> QED BY <3>1
  <2>2. CASE ~Open
    BY <1>5, <2>2 DEF Host, StartMaintenance, Interval, CancelAll, DropService, Crash, Tick, store
  <2> QED BY <2>1, <2>2
<1>6. ASSUME NEW p \in Procs, Step(p)
      PROVE  \/ row'[s] \in {"none", "live"}
             \/ (CommitArchive(p) \/ Mark(p)) /\ op[p].on = s
  <2>1. row \in [Sessions -> Rows] BY DEF DirInv, DirTypes, StoreTypes
  <2>2. CASE Examine(p) \/ ExamineDelete(p) \/ Freeze(p) \/ Forget(p) \/ Clean(p)
    BY <2>2 DEF Examine, ExamineDelete, Freeze, Forget, Clean, store
  <2>3. CASE CommitArchive(p) BY <2>1, <2>3 DEF CommitArchive, Put
  <2>4. CASE Mark(p) BY <2>1, <2>4 DEF Mark, Put
  <2>5. CASE RemoveRow(p) BY <2>1, <2>5 DEF RemoveRow, Put
  <2>6. CASE RegisterRow(p) BY <2>1, <2>6 DEF RegisterRow, Put
  <2>7. CASE Read(p) \/ StartRun(p) \/ FlushStart(p) \/ Create(p) \/ View(p) \/ SavePolicy(p)
    BY <2>7 DEF Read, StartRun, FlushStart, Create, View, SavePolicy, store
  <2>8. CASE BeginClose(p) \/ CloseState(p) \/ FinishClose(p)
    BY <2>8 DEF BeginClose, CloseState, FinishClose, store
  <2> QED BY <1>6, <2>2, <2>3, <2>4, <2>5, <2>6, <2>7, <2>8 DEF Step, Settling
<1>7. ASSUME NEW p \in Procs, CommitArchive(p), op[p].on = s PROVE row'[s] # "deleting"
  <2>1. Wanted(op[p].kind) # "deleting" BY DEF Wanted
  <2>2. row \in [Sessions -> Rows] BY DEF DirInv, DirTypes, StoreTypes
  <2> QED BY <1>7, <2>1, <2>2 DEF CommitArchive, Put
<1>8. ASSUME NEW p \in Procs, Mark(p), op[p].on = s PROVE row'[s] # "archived"
  <2>1. row \in [Sessions -> Rows] BY DEF DirInv, DirTypes, StoreTypes
  <2> QED BY <1>8, <2>1 DEF Mark, Put
<1>9. ~UNCHANGED vars BY DEF vars, store
<1> QED BY <1>1, <1>2, <1>3, <1>4, <1>5, <1>6, <1>7, <1>8, <1>9 DEF Next

(* Retention archives nothing that is viewed, at work or has moved on, and *)
(* a deletion that names the archive it has seen deletes that one only.    *)
THEOREM RetentionIsKept == Spec => RetentionKept
<1>1. DirInv /\ [Next]_vars => ViewedStays /\ ActiveStays /\ DeletedAsSeen
  <2> SUFFICES ASSUME DirInv, [Next]_vars PROVE ViewedStays /\ ActiveStays /\ DeletedAsSeen OBVIOUS
  <2>1. ASSUME NEW s \in Sessions, AutoArchives(s)
        PROVE ~Viewed(s) /\ (s \in loaded => "run" \notin work[s] /\ Shown(s) <= Cutoff)
    <3>1. /\ op[Maintenance].kind = "archive" /\ op[Maintenance].at = "settling"
          /\ op[Maintenance].on = s /\ row[s] = "live" /\ row'[s] = "archived"
      BY <2>1 DEF AutoArchives, At
    <3>2. PICK p \in Procs : CommitArchive(p) /\ op[p].on = s BY <3>1, RowsChange
    <3>3. Deciding(p, s) BY <3>2 DEF CommitArchive, Settled, Deciding
    <3>4. Deciding(Maintenance, s) BY <3>1 DEF Deciding
    <3>5. p = Maintenance BY <3>3, <3>4, Callers DEF DirInv, OneAtATime
    <3>6. service = "open" /\ ~Viewed(s) BY <3>1, <3>2, <3>5 DEF CommitArchive, Automatic
    <3>7. s \in loaded => "run" \notin work[s] /\ Shown(s) <= Cutoff
      BY <3>1, <3>6 DEF DirInv, FoundIdle
    <3> QED BY <3>6, <3>7
  <2>2. ASSUME NEW p \in Procs, NEW s \in Sessions,
               At(p, "delete", "settling"), op[p].on = s, op[p].expect # 0,
               row[s] # "deleting", row'[s] = "deleting"
        PROVE row[s] = "archived" /\ op[p].expect = revision[s]
    <3>1. PICK q \in Procs : Mark(q) /\ op[q].on = s BY <2>2, RowsChange
    <3>2. Deciding(q, s) BY <3>1 DEF Mark, At, Deciding
    <3>3. Deciding(p, s) BY <2>2 DEF At, Deciding
    <3>4. q = p BY <3>2, <3>3 DEF DirInv, OneAtATime
    <3>5. AsSeen(p, s) BY <2>2, <3>1, <3>4 DEF Mark
    <3> QED BY <2>2, <3>5 DEF AsSeen
  <2> QED BY <2>1, <2>2 DEF ViewedStays, ActiveStays, DeletedAsSeen
<1> QED BY <1>1, DirectoryIsSound, PTL DEF RetentionKept, Spec

=============================================================================
