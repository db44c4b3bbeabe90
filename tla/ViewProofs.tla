------------------------------ MODULE ViewProofs ------------------------------
(***************************************************************************)
(* Proofs about what clients are shown of a session beside its runs: the   *)
(* delivery of its questions, and its title, model and model information.  *)
(***************************************************************************)
EXTENDS Titles, Delivery, FiniteSetTheorems, SequenceTheorems, TLAPS

(***************************************************************************)
(* Delivery.                                                               *)
(***************************************************************************)

(* What the fields of an observer range over.                              *)
Receipts == Nat \X (Clients \cup {"nobody"})
ObserverRecords ==
  [at : {"unborn", "looking", "waiting", "ended"}, caller : Clients \cup {"nobody"}, born : Nat,
   ready : BOOLEAN, closed : BOOLEAN, permit : BOOLEAN, receipts : Seq(Receipts), shown : Seq(Questions)]

DeliveryTypes ==
  /\ questions \in [Questions -> {"unasked", "pending", "ended"}]
  /\ service \in {"live", "gone", "closed"} /\ instance \in Nat \ {0}
  /\ listed \subseteq Streams /\ stream \in [Streams -> ObserverRecords]

(* A run asks one question at a time.                                      *)
OneQuestion ==
  \A q, x \in Questions : questions[q] = "pending" /\ questions[x] = "pending" => q = x

(* The receipts are of deliveries to this client; the last delivery, and   *)
(* only that can be of the pending question, still has its receipt.        *)
Received(s) ==
  /\ \A i \in 1..Len(s.receipts) :
       s.receipts[i][1] \in 1..Len(s.shown) /\ s.receipts[i][2] \in {"nobody", s.caller}
  /\ Len(s.shown) > 0 => Len(s.receipts) > 0 /\ s.receipts[Len(s.receipts)][1] = Len(s.shown)
Once(s) == \A i, j \in 1..Len(s.shown) : s.shown[i] = s.shown[j] => i = j
LastPending(s) ==
  \A i \in 1..Len(s.shown) : /\ questions[s.shown[i]] # "unasked"
                             /\ questions[s.shown[i]] = "pending" => i = Len(s.shown)
Served(s) == Received(s) /\ Once(s) /\ LastPending(s)

(* What an observer owes, and that it is not asleep on it.                 *)
Due(s) ==
  {q \in Questions : questions[q] = "pending" /\ \A i \in 1..Len(s.receipts) : s.shown[s.receipts[i][1]] # q}
Awake(s) ==
  s.at = "waiting" /\ ~s.permit => ~s.closed /\ service # "gone" /\ (service = "live" => Due(s) = {})

(* Observers are of this instance or an earlier one; those that are listed *)
(* are of this one.                                                        *)
Born(o) ==
  /\ stream[o].at = "unborn" => stream[o] = NoStream
  /\ stream[o].at # "unborn" => stream[o].born \in 1..instance
  /\ o \in listed => stream[o].at # "unborn" /\ stream[o].born = instance
Opened == {o \in Streams : stream[o].at # "unborn"}

(* The inductive invariant of the delivery.                                *)
DeliveryInv ==
  /\ DeliveryTypes /\ OneQuestion
  /\ \A o \in Streams : Served(stream[o]) /\ Born(o)
  /\ \A o \in listed : Awake(stream[o])
  /\ IsFiniteSet(Opened) /\ NewestRetained

-----------------------------------------------------------------------------
(* An observer that is not there yet has been shown nothing.               *)
LEMMA NoStreamIs ==
  /\ NoStream \in ObserverRecords /\ NoStream.at = "unborn" /\ ~NoStream.closed /\ NoStream.born = 0
  /\ NoStream.receipts = <<>> /\ NoStream.shown = <<>> /\ NoStream.caller = "nobody"
<1>1. <<>> \in Seq(Receipts) /\ <<>> \in Seq(Questions) OBVIOUS
<1> QED BY <1>1 DEF NoStream, ObserverRecords

(* Whoever was shown nothing and has no receipts is served.                *)
LEMMA NothingServed ==
  ASSUME NEW s, s.receipts = <<>>, s.shown = <<>>
  PROVE  Served(s)
BY DEF Served, Received, Once, LastPending

(* The same of an observer after a step.                                   *)
LEMMA NothingReceived ==
  ASSUME NEW o \in Streams, stream'[o].receipts = <<>>, stream'[o].shown = <<>>
  PROVE  Served(stream[o])'
<1>1. Len(<<>>) = 0 OBVIOUS
<1>2. Received(stream[o])' BY <1>1 DEF Received
<1>3. Once(stream[o])' BY <1>1 DEF Once
<1>4. LastPending(stream[o])' BY <1>1 DEF LastPending
<1> QED BY <1>2, <1>3, <1>4 DEF Served

(* An observer that is left alone stays served.                            *)
LEMMA StillServed ==
  ASSUME NEW o \in Streams, stream'[o] = stream[o], questions' = questions, Served(stream[o])
  PROVE  Served(stream[o])'
<1>1. Received(stream[o])' BY DEF Served, Received
<1>2. Once(stream[o])' BY DEF Served, Once
<1>3. LastPending(stream[o])' BY DEF Served, LastPending
<1> QED BY <1>1, <1>2, <1>3 DEF Served

(* The receipts as a set and by their places.                              *)
LEMMA OwedIsDue ==
  ASSUME NEW o \in Streams, stream[o].receipts \in Seq(Receipts)
  PROVE  Owed(o) = Due(stream[o])
<1> DEFINE rs == stream[o].receipts
<1>1. DOMAIN rs = 1..Len(rs) OBVIOUS
<1>2. ToSet(rs) = {rs[i] : i \in 1..Len(rs)} BY <1>1 DEF ToSet
<1> HIDE DEF rs
<1>3. ASSUME NEW q \in Questions
      PROVE  (\A r \in ToSet(rs) : stream[o].shown[r[1]] # q)
             <=> (\A i \in 1..Len(rs) : stream[o].shown[rs[i][1]] # q)
  BY <1>2
<1> QED BY <1>3 DEF Owed, Due, Shown, rs

(* The invariant says what is stated of the delivery.                      *)
LEMMA DeliveryMeans == DeliveryInv => DeliveryKept /\ NewestRetained
<1> SUFFICES ASSUME DeliveryInv PROVE DeliveryKept BY DEF DeliveryInv
<1>1. DeliveredOnce BY DEF DeliveryInv, Served, Once, DeliveredOnce
<1>2. ObserverAwake
  <2> SUFFICES ASSUME NEW o \in listed, stream[o].at = "waiting", ~stream[o].permit
               PROVE  ~stream[o].closed /\ service # "gone" /\ (service = "live" => Owed(o) = {})
    BY DEF ObserverAwake
  <2>1. o \in Streams /\ stream[o].receipts \in Seq(Receipts)
    BY DEF DeliveryInv, DeliveryTypes, ObserverRecords
  <2>2. Owed(o) = Due(stream[o]) BY <2>1, OwedIsDue
  <2>3. Awake(stream[o]) BY DEF DeliveryInv
  <2> QED BY <2>2, <2>3 DEF Awake
<1>3. ReceiptsMatch
  <2> SUFFICES ASSUME NEW o \in Streams, NEW r \in ToSet(stream[o].receipts)
               PROVE  r[2] \in {"nobody", stream[o].caller}
    BY DEF ReceiptsMatch
  <2>1. stream[o].receipts \in Seq(Receipts) BY DEF DeliveryInv, DeliveryTypes, ObserverRecords
  <2>2. DOMAIN stream[o].receipts = 1..Len(stream[o].receipts) BY <2>1
  <2>3. PICK i \in 1..Len(stream[o].receipts) : r = stream[o].receipts[i] BY <2>2 DEF ToSet
  <2> QED BY <2>3 DEF DeliveryInv, Served, Received
<1> QED BY <1>1, <1>2, <1>3 DEF DeliveryKept

(* No observers: the invariant holds.                                      *)
LEMMA DeliveryStarts == DeliveryInit => DeliveryInv
<1> SUFFICES ASSUME DeliveryInit PROVE DeliveryInv OBVIOUS
<1>1. \A o \in Streams : stream[o] = NoStream BY DEF DeliveryInit
<1>2. DeliveryTypes
  <2>1. stream \in [Streams -> ObserverRecords] BY NoStreamIs DEF DeliveryInit
  <2>2. questions \in [Questions -> {"unasked", "pending", "ended"}] BY DEF DeliveryInit
  <2>3. service = "live" /\ instance \in Nat \ {0} /\ listed \subseteq Streams BY DEF DeliveryInit
  <2> QED BY <2>1, <2>2, <2>3 DEF DeliveryTypes
<1>3. OneQuestion BY DEF DeliveryInit, OneQuestion
<1>4. \A o \in Streams : Served(stream[o]) /\ Born(o)
  BY <1>1, NoStreamIs, NothingServed DEF DeliveryInit, Born
<1>5. Opened = {} BY <1>1, NoStreamIs DEF Opened
<1>6. NewestRetained
  <2>1. \A o \in Streams : stream[o].born = 0 BY <1>1, NoStreamIs
  <2>2. instance = 1 BY DEF DeliveryInit
  <2> QED BY <2>1, <2>2 DEF NewestRetained
<1> QED BY <1>2, <1>3, <1>4, <1>5, <1>6, FS_EmptySet DEF DeliveryInv, DeliveryInit

-----------------------------------------------------------------------------
(* Those retired after an observer only become more.                       *)
LEMMA RetiredGrow ==
  ASSUME DeliveryInv, NEW o \in Streams, IsFiniteSet(Opened'), instance' = instance,
         \A x \in Streams : stream[x].closed /\ stream[x].at # "unborn"
           => stream'[x].closed /\ stream'[x].born = stream[x].born,
         \A x \in Streams : stream'[x].closed => stream'[x].at # "unborn"
  PROVE  Cardinality(Later(o)) >= MaxStreams => Cardinality(Later(o)') >= MaxStreams
<1>1. Later(o) \subseteq Later(o)'
  <2>1. \A x \in Streams : stream[x].closed => stream[x].at # "unborn"
    BY NoStreamIs DEF DeliveryInv, Born
  <2> QED BY <2>1 DEF Later
<1>2. Later(o)' \subseteq Opened' BY DEF Later, Opened
<1>3. IsFiniteSet(Later(o)') BY <1>2, FS_Subset
<1>4. IsFiniteSet(Later(o)) /\ Cardinality(Later(o)) <= Cardinality(Later(o)') BY <1>1, <1>3, FS_Subset
<1>5. Cardinality(Later(o)) \in Nat /\ Cardinality(Later(o)') \in Nat BY <1>3, <1>4, FS_CardinalityType
<1>6. MaxStreams \in Nat BY LimitsAssumption
<1> QED BY <1>4, <1>5, <1>6

-----------------------------------------------------------------------------
(* A step that changes one observer: what is asked of its new record t.    *)
LEMMA OneObserver ==
  ASSUME DeliveryInv, NEW o \in Streams, NEW t \in ObserverRecords,
         UNCHANGED <<questions, service, instance, listed>>, stream' = [stream EXCEPT ![o] = t],
         stream[o].at # "unborn", t.at # "unborn", t.born = stream[o].born,
         stream[o].closed => t.closed, Served(t), o \in listed => Awake(t)
  PROVE  DeliveryInv'
<1>1. stream'[o] = t /\ \A x \in Streams \ {o} : stream'[x] = stream[x]
  BY DEF DeliveryInv, DeliveryTypes
<1>2. DeliveryTypes' BY DEF DeliveryInv, DeliveryTypes
<1>3. OneQuestion' BY DEF DeliveryInv, OneQuestion
<1>4. ASSUME NEW x \in Streams PROVE Served(stream[x])' /\ Born(x)'
  <2>1. Served(stream'[x])
    <3>1. CASE x = o BY <1>1, <3>1
    <3>2. CASE x # o BY <1>1, <3>2 DEF DeliveryInv
    <3> QED BY <3>1, <3>2
  <2>2. Served(stream[x])' BY <2>1 DEF Served, Received, Once, LastPending
  <2>3. Born(x)'
    <3>1. CASE x = o BY <1>1, <3>1 DEF DeliveryInv, Born
    <3>2. CASE x # o BY <1>1, <3>2 DEF DeliveryInv, Born
    <3> QED BY <3>1, <3>2
  <2> QED BY <2>2, <2>3
<1>5. ASSUME NEW x \in listed' PROVE Awake(stream[x])'
  <2>1. x \in listed /\ x \in Streams BY DEF DeliveryInv, DeliveryTypes
  <2>2. Awake(stream'[x])
    <3>1. CASE x = o BY <1>1, <2>1, <3>1
    <3>2. CASE x # o BY <1>1, <2>1, <3>2 DEF DeliveryInv
    <3> QED BY <3>1, <3>2
  <2> QED BY <2>2 DEF Awake, Due
<1>6. Opened' = Opened
  <2>1. \A x \in Streams : stream'[x].at # "unborn" <=> stream[x].at # "unborn" BY <1>1
  <2> QED BY <2>1 DEF Opened
<1>7. NewestRetained'
  <2> SUFFICES ASSUME service # "closed", NEW x \in Streams, stream'[x].born = instance, x \notin listed
               PROVE  Cardinality(Later(x)') >= MaxStreams
    BY DEF NewestRetained
  <2>1. stream[x].born = instance BY <1>1
  <2>2. Cardinality(Later(x)) >= MaxStreams BY <2>1 DEF DeliveryInv, NewestRetained
  <2>3. \A y \in Streams : stream[y].closed /\ stream[y].at # "unborn"
          => stream'[y].closed /\ stream'[y].born = stream[y].born
    BY <1>1
  <2>4. \A y \in Streams : stream'[y].closed => stream'[y].at # "unborn"
    BY <1>1, NoStreamIs DEF DeliveryInv, Born
  <2>5. IsFiniteSet(Opened') BY <1>6 DEF DeliveryInv
  <2> QED BY <2>2, <2>3, <2>4, <2>5, RetiredGrow
<1> QED BY <1>2, <1>3, <1>4, <1>5, <1>6, <1>7 DEF DeliveryInv

(* What an observer was shown is of questions.                             *)
LEMMA ShownAre ==
  ASSUME DeliveryTypes, NEW x \in Streams
  PROVE  /\ stream[x] \in ObserverRecords /\ stream[x].receipts \in Seq(Receipts)
         /\ stream[x].shown \in Seq(Questions) /\ Len(stream[x].shown) \in Nat
         /\ \A i \in 1..Len(stream[x].shown) : stream[x].shown[i] \in Questions
<1>1. stream[x] \in ObserverRecords BY DEF DeliveryTypes
<1>2. stream[x].receipts \in Seq(Receipts) /\ stream[x].shown \in Seq(Questions)
  BY <1>1 DEF ObserverRecords
<1> QED BY <1>1, <1>2

(* As time goes on for the questions, a client that was shown no more      *)
(* stays served.                                                           *)
LEMMA StaysServed ==
  ASSUME DeliveryInv, NEW x \in Streams,
         \A q \in Questions : /\ questions[q] # "unasked" => questions'[q] # "unasked"
                              /\ questions'[q] = "pending" /\ questions[q] # "unasked" => questions[q] = "pending",
         stream'[x].receipts = stream[x].receipts, stream'[x].shown = stream[x].shown,
         stream'[x].caller = stream[x].caller
  PROVE  Served(stream[x])'
<1>1. \A i \in 1..Len(stream[x].shown) : stream[x].shown[i] \in Questions BY ShownAre DEF DeliveryInv
<1>2. Received(stream[x]) /\ Once(stream[x]) /\ LastPending(stream[x]) BY DEF DeliveryInv, Served
<1>3. LastPending(stream[x])' BY <1>1, <1>2 DEF LastPending
<1>4. Received(stream[x])' /\ Once(stream[x])' BY <1>2 DEF Received, Once
<1> QED BY <1>3, <1>4 DEF Served

(* A record with other wake marks.                                         *)
LEMMA WokenIs ==
  ASSUME NEW s \in ObserverRecords
  PROVE  LET t == [s EXCEPT !.permit = TRUE] IN
         /\ t \in ObserverRecords /\ t.permit /\ t.at = s.at /\ t.caller = s.caller /\ t.born = s.born
         /\ t.closed = s.closed /\ t.receipts = s.receipts /\ t.shown = s.shown
BY DEF ObserverRecords

(* Whoever is listed is woken: the questions and the session may change.   *)
LEMMA WakeKeeps ==
  ASSUME DeliveryInv, stream' = Wake, UNCHANGED <<instance, listed>>, OneQuestion',
         questions' \in [Questions -> {"unasked", "pending", "ended"}],
         service' \in {"live", "gone", "closed"}, service = "closed" => service' = "closed",
         \A q \in Questions : /\ questions[q] # "unasked" => questions'[q] # "unasked"
                              /\ questions'[q] = "pending" /\ questions[q] # "unasked" => questions[q] = "pending"
  PROVE  DeliveryInv'
<1>1. ASSUME NEW x \in Streams
      PROVE  /\ stream'[x] \in ObserverRecords /\ stream'[x].at = stream[x].at
             /\ stream'[x].caller = stream[x].caller /\ stream'[x].born = stream[x].born
             /\ stream'[x].closed = stream[x].closed /\ stream'[x].receipts = stream[x].receipts
             /\ stream'[x].shown = stream[x].shown
             /\ x \in listed => stream'[x].permit
             /\ x \notin listed => stream'[x] = stream[x]
  <2>1. stream[x] \in ObserverRecords BY ShownAre DEF DeliveryInv
  <2>2. stream'[x] = IF x \in listed THEN [stream[x] EXCEPT !.permit = TRUE] ELSE stream[x]
    BY DEF Wake
  <2> QED BY <2>1, <2>2, WokenIs
<1>2. stream' \in [Streams -> ObserverRecords]
  <2>1. stream' = [x \in Streams |-> stream'[x]] BY DEF Wake
  <2> QED BY <1>1, <2>1
<1>3. DeliveryTypes' BY <1>2 DEF DeliveryInv, DeliveryTypes
<1>4. \A x \in Streams : Served(stream[x])' BY <1>1, StaysServed
<1>5. ASSUME NEW x \in Streams PROVE Born(x)'
  <2>1. x \in listed => stream[x].at # "unborn" BY DEF DeliveryInv, Born
  <2> QED BY <1>1, <2>1 DEF DeliveryInv, Born
<1>6. \A x \in listed' : Awake(stream[x])' BY <1>1 DEF Awake, DeliveryInv, DeliveryTypes
<1>7. Opened' = Opened BY <1>1 DEF Opened
<1>8. NewestRetained'
  <2> SUFFICES ASSUME service' # "closed", NEW x \in Streams, stream'[x].born = instance, x \notin listed
               PROVE  Cardinality(Later(x)') >= MaxStreams
    BY DEF NewestRetained
  <2>1. Cardinality(Later(x)) >= MaxStreams BY <1>1 DEF DeliveryInv, NewestRetained
  <2>2. \A y \in Streams : stream'[y].closed => stream'[y].at # "unborn"
    BY <1>1, NoStreamIs DEF DeliveryInv, Born
  <2>3. IsFiniteSet(Opened') BY <1>7 DEF DeliveryInv
  <2> QED BY <1>1, <2>1, <2>2, <2>3, RetiredGrow
<1> QED BY <1>3, <1>4, <1>5, <1>6, <1>7, <1>8 DEF DeliveryInv

(* Questions are asked and settled one at a time, and the session goes.    *)
LEMMA QuestionsKeep ==
  ASSUME DeliveryInv, Depart \/ \E q \in Questions : Ask(q) \/ Settle(q)
  PROVE  DeliveryInv'
<1>1. CASE Depart BY <1>1, WakeKeeps DEF Depart, DeliveryInv, DeliveryTypes, OneQuestion
<1>2. ASSUME NEW q \in Questions, Ask(q) PROVE DeliveryInv'
  <2>1. /\ service = "live" /\ questions[q] = "unasked" /\ \A x \in Questions : questions[x] # "pending"
        /\ stream' = Wake /\ UNCHANGED <<service, instance, listed>>
        /\ questions' = [questions EXCEPT ![q] = "pending"]
    BY <1>2 DEF Ask
  <2>2. \A x \in Questions : questions'[x] = IF x = q THEN "pending" ELSE questions[x]
    BY <2>1 DEF DeliveryInv, DeliveryTypes
  <2>3. OneQuestion' BY <2>1, <2>2 DEF OneQuestion
  <2>4. questions' \in [Questions -> {"unasked", "pending", "ended"}]
    BY <2>1 DEF DeliveryInv, DeliveryTypes
  <2>5. \A x \in Questions : /\ questions[x] # "unasked" => questions'[x] # "unasked"
                             /\ questions'[x] = "pending" /\ questions[x] # "unasked" => questions[x] = "pending"
    BY <2>1, <2>2
  <2>6. service \in {"live", "gone", "closed"} BY DEF DeliveryInv, DeliveryTypes
  <2> QED BY <2>1, <2>3, <2>4, <2>5, <2>6, WakeKeeps
<1>3. ASSUME NEW q \in Questions, Settle(q) PROVE DeliveryInv'
  <2>1. /\ questions[q] = "pending"
        /\ stream' = Wake /\ UNCHANGED <<service, instance, listed>>
        /\ questions' = [questions EXCEPT ![q] = "ended"]
    BY <1>3 DEF Settle
  <2>2. \A x \in Questions : questions'[x] = IF x = q THEN "ended" ELSE questions[x]
    BY <2>1 DEF DeliveryInv, DeliveryTypes
  <2>3. OneQuestion' BY <2>1, <2>2 DEF OneQuestion, DeliveryInv
  <2>4. questions' \in [Questions -> {"unasked", "pending", "ended"}]
    BY <2>1 DEF DeliveryInv, DeliveryTypes
  <2>5. \A x \in Questions : /\ questions[x] # "unasked" => questions'[x] # "unasked"
                             /\ questions'[x] = "pending" /\ questions[x] # "unasked" => questions[x] = "pending"
    BY <2>1, <2>2
  <2>6. service \in {"live", "gone", "closed"} BY DEF DeliveryInv, DeliveryTypes
  <2> QED BY <2>1, <2>3, <2>4, <2>5, <2>6, WakeKeeps
<1> QED BY <1>1, <1>2, <1>3

-----------------------------------------------------------------------------
(* The oldest receipt makes room: what is left are receipts of before.     *)
LEMMA RoomIs ==
  ASSUME NEW old \in Seq(Receipts)
  PROVE  /\ Room(old) \in Seq(Receipts) /\ Len(Room(old)) \in Nat
         /\ \A i \in 1..Len(Room(old)) : \E j \in 1..Len(old) : Room(old)[i] = old[j]
<1>1. CASE Room(old) = old
  <2>1. Len(old) \in Nat OBVIOUS
  <2> QED BY <1>1, <2>1
<1>2. CASE Len(old) >= MaxReceipts /\ Room(old) = Tail(old)
  <2>1. MaxReceipts \in Nat \ {0} BY LimitsAssumption
  <2>2. Len(old) \in Nat /\ Len(old) # 0 BY <1>2, <2>1
  <2>3. old # <<>> BY <2>2
  <2>4. /\ Tail(old) \in Seq(Receipts) /\ Len(Tail(old)) = Len(old) - 1
        /\ \A i \in 1..Len(Tail(old)) : Tail(old)[i] = old[i + 1]
    BY <2>3, HeadTailProperties
  <2>5. \A i \in 1..Len(Room(old)) : i + 1 \in 1..Len(old) BY <1>2, <2>2, <2>4
  <2> QED BY <1>2, <2>2, <2>4, <2>5
<1> QED BY <1>1, <1>2 DEF Room

(* A client that is shown the pending question, which it had no receipt    *)
(* for, is served: it has not been shown it before.                        *)
LEMMA ServedMore ==
  ASSUME questions \in [Questions -> {"unasked", "pending", "ended"}], OneQuestion,
         NEW s, s.shown \in Seq(Questions), s.receipts \in Seq(Receipts), Served(s),
         NEW q \in Due(s), NEW room \in Seq(Receipts),
         \A i \in 1..Len(room) : \E j \in 1..Len(s.receipts) : room[i] = s.receipts[j],
         NEW t, t.receipts = Append(room, <<Len(s.shown) + 1, "nobody">>), t.shown = Append(s.shown, q),
         t.caller = s.caller
  PROVE  /\ Served(t) /\ t.receipts \in Seq(Receipts) /\ t.shown \in Seq(Questions)
<1> DEFINE n == Len(s.shown)
           m == Len(room)
           k == Len(s.receipts)
<1>1. n \in Nat /\ m \in Nat /\ k \in Nat OBVIOUS
<1>2. q \in Questions /\ questions[q] = "pending" /\ \A i \in 1..k : s.shown[s.receipts[i][1]] # q
  BY DEF Due
<1>3. /\ \A i \in 1..k : s.receipts[i][1] \in 1..n /\ s.receipts[i][2] \in {"nobody", s.caller}
      /\ n > 0 => k > 0 /\ s.receipts[k][1] = n
  BY DEF Served, Received
<1>4. \A i, j \in 1..n : s.shown[i] = s.shown[j] => i = j BY DEF Served, Once
<1>5. \A i \in 1..n : questions[s.shown[i]] # "unasked" /\ (questions[s.shown[i]] = "pending" => i = n)
  BY DEF Served, LastPending
<1>6. <<n + 1, "nobody">> \in Receipts
  <2>1. n + 1 \in Nat BY <1>1
  <2> HIDE DEF n
  <2> QED BY <2>1 DEF Receipts
<1>7. /\ t.receipts \in Seq(Receipts) /\ Len(t.receipts) = m + 1 /\ t.receipts[m + 1] = <<n + 1, "nobody">>
      /\ \A i \in 1..m : t.receipts[i] = room[i]
  BY <1>6, AppendProperties
<1>8. /\ t.shown \in Seq(Questions) /\ Len(t.shown) = n + 1 /\ t.shown[n + 1] = q
      /\ \A i \in 1..n : t.shown[i] = s.shown[i]
  BY <1>2, AppendProperties
<1>9. \A i \in 1..n : s.shown[i] \in Questions OBVIOUS
<1>10. \A i \in 1..m : \E j \in 1..k : room[i] = s.receipts[j] OBVIOUS
<1> HIDE DEF n, m, k
<1>11. ASSUME NEW i \in 1..n PROVE s.shown[i] # q
  <2> SUFFICES ASSUME s.shown[i] = q PROVE FALSE OBVIOUS
  <2>1. i = n /\ n > 0 BY <1>1, <1>2, <1>5
  <2>2. k \in 1..k /\ s.receipts[k][1] = i BY <1>1, <1>3, <2>1
  <2> QED BY <1>2, <2>2
<1>12. Once(t)
  <2> SUFFICES ASSUME NEW i \in 1..(n + 1), NEW j \in 1..(n + 1), t.shown[i] = t.shown[j] PROVE i = j
    BY <1>8 DEF Once
  <2>1. (i \in 1..n \/ i = n + 1) /\ (j \in 1..n \/ j = n + 1) BY <1>1
  <2>2. CASE i \in 1..n /\ j \in 1..n BY <1>4, <1>8, <2>2
  <2>3. CASE i \in 1..n /\ j = n + 1 BY <1>8, <1>11, <2>3
  <2>4. CASE i = n + 1 /\ j \in 1..n BY <1>8, <1>11, <2>4
  <2> QED BY <2>1, <2>2, <2>3, <2>4
<1>13. LastPending(t)
  <2> SUFFICES ASSUME NEW i \in 1..(n + 1)
               PROVE  questions[t.shown[i]] # "unasked" /\ (questions[t.shown[i]] = "pending" => i = n + 1)
    BY <1>8 DEF LastPending
  <2>1. i \in 1..n \/ i = n + 1 BY <1>1
  <2>2. CASE i = n + 1 BY <1>2, <1>8, <2>2
  <2>3. CASE i \in 1..n
    <3>1. t.shown[i] = s.shown[i] /\ s.shown[i] \in Questions /\ s.shown[i] # q BY <1>8, <1>9, <1>11, <2>3
    <3>2. questions[s.shown[i]] # "pending" BY <1>2, <3>1 DEF OneQuestion
    <3> QED BY <1>5, <2>3, <3>1, <3>2
  <2> QED BY <2>1, <2>2, <2>3
<1>14. Received(t)
  <2>1. ASSUME NEW i \in 1..(m + 1)
        PROVE  t.receipts[i][1] \in 1..(n + 1) /\ t.receipts[i][2] \in {"nobody", s.caller}
    <3>1. i \in 1..m \/ i = m + 1 BY <1>1
    <3>2. CASE i = m + 1
      <4>1. t.receipts[i][1] = n + 1 /\ t.receipts[i][2] = "nobody" BY <1>7, <3>2
      <4>2. n + 1 \in 1..(n + 1) BY <1>1
      <4> QED BY <4>1, <4>2
    <3>3. CASE i \in 1..m
      <4>1. PICK j \in 1..k : t.receipts[i] = s.receipts[j] BY <1>7, <1>10, <3>3
      <4>2. s.receipts[j][1] \in 1..n /\ s.receipts[j][2] \in {"nobody", s.caller} BY <1>3
      <4>3. 1..n \subseteq 1..(n + 1) BY <1>1
      <4> QED BY <4>1, <4>2, <4>3
    <3> QED BY <3>1, <3>2, <3>3
  <2>2. t.receipts[m + 1][1] = n + 1 BY <1>7
  <2> QED BY <1>1, <1>7, <1>8, <2>1, <2>2 DEF Received
<1> QED BY <1>7, <1>8, <1>12, <1>13, <1>14 DEF Served

(* One look of an observer: its end, the ready frame, a question, sleep.   *)
LEMMA LookKeeps ==
  ASSUME DeliveryInv, NEW o \in Streams, Look(o)
  PROVE  DeliveryInv'
<1> DEFINE s == stream[o]
           room == Room(s.receipts)
<1>1. /\ s \in ObserverRecords /\ s.receipts \in Seq(Receipts) /\ s.shown \in Seq(Questions)
      /\ Served(s) /\ s.at = "looking" /\ Len(s.shown) \in Nat
      /\ UNCHANGED <<questions, service, instance, listed>>
  BY ShownAre DEF DeliveryInv, Look
<1>2. CASE Over(o) /\ stream' = [stream EXCEPT ![o].at = "ended", ![o].permit = FALSE]
  <2> DEFINE t == [s EXCEPT !.at = "ended", !.permit = FALSE]
  <2>1. stream' = [stream EXCEPT ![o] = t] BY <1>2
  <2>2. /\ t \in ObserverRecords /\ t.at = "ended" /\ t.born = s.born /\ t.closed = s.closed
        /\ t.receipts = s.receipts /\ t.shown = s.shown /\ t.caller = s.caller
    BY <1>1 DEF ObserverRecords
  <2> HIDE DEF t
  <2>3. Served(t) BY <1>1, <2>2 DEF Served, Received, Once, LastPending
  <2>4. Awake(t) BY <2>2 DEF Awake
  <2> QED BY <1>1, <2>1, <2>2, <2>3, <2>4, OneObserver
<1>3. CASE stream' = [stream EXCEPT ![o].ready = TRUE]
  <2> DEFINE t == [s EXCEPT !.ready = TRUE]
  <2>1. stream' = [stream EXCEPT ![o] = t] BY <1>3
  <2>2. /\ t \in ObserverRecords /\ t.at = "looking" /\ t.born = s.born /\ t.closed = s.closed
        /\ t.receipts = s.receipts /\ t.shown = s.shown /\ t.caller = s.caller
    BY <1>1 DEF ObserverRecords
  <2> HIDE DEF t
  <2>3. Served(t) BY <1>1, <2>2 DEF Served, Received, Once, LastPending
  <2>4. Awake(t) BY <2>2 DEF Awake
  <2> QED BY <1>1, <2>1, <2>2, <2>3, <2>4, OneObserver
<1>4. CASE ~Over(o) /\ Owed(o) = {} /\ stream' = [stream EXCEPT ![o].at = "waiting"]
  <2> DEFINE t == [s EXCEPT !.at = "waiting"]
  <2>1. stream' = [stream EXCEPT ![o] = t] BY <1>4
  <2>2. /\ t \in ObserverRecords /\ t.at = "waiting" /\ t.born = s.born /\ t.closed = s.closed
        /\ t.receipts = s.receipts /\ t.shown = s.shown /\ t.caller = s.caller
    BY <1>1 DEF ObserverRecords
  <2> HIDE DEF t
  <2>3. Served(t) BY <1>1, <2>2 DEF Served, Received, Once, LastPending
  <2>4. Due(t) = {} BY <1>1, <1>4, <2>2, OwedIsDue DEF Due
  <2>5. Awake(t) BY <1>4, <2>2, <2>4 DEF Awake, Over
  <2> QED BY <1>1, <2>1, <2>2, <2>3, <2>5, OneObserver
<1>5. ASSUME NEW q \in Owed(o),
             stream' = [stream EXCEPT ![o].receipts = Append(room, <<Len(s.shown) + 1, "nobody">>),
                                      ![o].shown = Append(@, q)]
      PROVE  DeliveryInv'
  <2> DEFINE t == [s EXCEPT !.receipts = Append(room, <<Len(s.shown) + 1, "nobody">>),
                            !.shown = Append(s.shown, q)]
  <2>1. stream' = [stream EXCEPT ![o] = t] BY <1>5
  <2>2. q \in Due(s) BY <1>1, OwedIsDue
  <2>3. room \in Seq(Receipts) /\ \A i \in 1..Len(room) : \E j \in 1..Len(s.receipts) : room[i] = s.receipts[j]
    BY <1>1, RoomIs
  <2> HIDE DEF room
  <2>4. /\ t.at = "looking" /\ t.born = s.born /\ t.closed = s.closed
        /\ t.receipts = Append(room, <<Len(s.shown) + 1, "nobody">>) /\ t.shown = Append(s.shown, q)
        /\ t.caller = s.caller
    BY <1>1 DEF ObserverRecords
  <2>5. Served(t) /\ t.receipts \in Seq(Receipts) /\ t.shown \in Seq(Questions)
    <3> HIDE DEF t
    <3>1. questions \in [Questions -> {"unasked", "pending", "ended"}] /\ OneQuestion
      BY DEF DeliveryInv, DeliveryTypes
    <3> QED BY <1>1, <2>2, <2>3, <2>4, <3>1, ServedMore
  <2>6. t \in ObserverRecords BY <1>1, <2>4, <2>5 DEF ObserverRecords
  <2> HIDE DEF t
  <2>7. Awake(t) BY <2>4 DEF Awake
  <2> QED BY <1>1, <2>1, <2>4, <2>5, <2>6, <2>7, OneObserver
<1> QED BY <1>1, <1>2, <1>3, <1>4, <1>5 DEF Look
-----------------------------------------------------------------------------
(* An observer wakes up, of its notification or of its heartbeat.          *)
LEMMA WakingKeeps ==
  ASSUME DeliveryInv, NEW o \in Streams, Notified(o) \/ Heartbeat(o)
  PROVE  DeliveryInv'
<1> DEFINE s == stream[o]
<1>1. /\ s \in ObserverRecords /\ Served(s) /\ s.at = "waiting"
      /\ UNCHANGED <<questions, service, instance, listed>>
  BY ShownAre DEF DeliveryInv, Notified, Heartbeat
<1>2. PICK b \in BOOLEAN : stream' = [stream EXCEPT ![o] = [s EXCEPT !.at = "looking", !.permit = b]]
  <2>1. CASE Notified(o) BY <2>1 DEF Notified
  <2>2. CASE Heartbeat(o)
    <3>1. [s EXCEPT !.at = "looking", !.permit = s.permit] = [s EXCEPT !.at = "looking"]
      BY <1>1 DEF ObserverRecords
    <3>2. s.permit \in BOOLEAN BY <1>1 DEF ObserverRecords
    <3> QED BY <2>2, <3>1, <3>2 DEF Heartbeat
  <2> QED BY <2>1, <2>2
<1> DEFINE t == [s EXCEPT !.at = "looking", !.permit = b]
<1>3. /\ t \in ObserverRecords /\ t.at = "looking" /\ t.born = s.born /\ t.closed = s.closed
      /\ t.receipts = s.receipts /\ t.shown = s.shown /\ t.caller = s.caller
  BY <1>1 DEF ObserverRecords
<1>4. stream' = [stream EXCEPT ![o] = t] BY <1>2
<1> HIDE DEF t
<1>5. Served(t) BY <1>1, <1>3 DEF Served, Received, Once, LastPending
<1>6. Awake(t) BY <1>3 DEF Awake
<1> QED BY <1>1, <1>3, <1>4, <1>5, <1>6, OneObserver

(* An observer is closed: it is woken, and stays listed.                   *)
LEMMA UnobserveKeeps ==
  ASSUME DeliveryInv, NEW o \in Streams, Unobserve(o)
  PROVE  DeliveryInv'
<1> DEFINE s == stream[o]
           t == [s EXCEPT !.closed = TRUE, !.permit = TRUE]
<1>1. s \in ObserverRecords /\ Served(s) /\ UNCHANGED <<questions, service, instance, listed>>
  BY ShownAre DEF DeliveryInv, Unobserve
<1>2. s.at # "unborn" BY DEF Unobserve, Open, DeliveryInv, Born
<1>3. stream' = [stream EXCEPT ![o] = t] BY DEF Unobserve, Closing
<1>4. /\ t \in ObserverRecords /\ t.at = s.at /\ t.born = s.born /\ t.closed /\ t.permit
      /\ t.receipts = s.receipts /\ t.shown = s.shown /\ t.caller = s.caller
  BY <1>1 DEF ObserverRecords
<1> HIDE DEF t
<1>5. Served(t) BY <1>1, <1>4 DEF Served, Received, Once, LastPending
<1>6. Awake(t) BY <1>4 DEF Awake
<1> QED BY <1>1, <1>2, <1>3, <1>4, <1>5, <1>6, OneObserver

(* A receipt becomes that of this client; what was delivered stays.        *)
LEMMA AcknowledgeKeeps ==
  ASSUME DeliveryInv, NEW o \in Streams, NEW c \in Clients, NEW n \in 1..Len(stream[o].shown),
         Acknowledge(o, n, c)
  PROVE  DeliveryInv'
<1> DEFINE s == stream[o]
           old == s.receipts
           new == [i \in DOMAIN old |-> IF old[i] = <<n, "nobody">> THEN <<n, c>> ELSE old[i]]
           t == [s EXCEPT !.receipts = new]
<1>1. /\ s \in ObserverRecords /\ old \in Seq(Receipts) /\ s.shown \in Seq(Questions) /\ Served(s)
      /\ UNCHANGED <<questions, service, instance, listed>>
  BY ShownAre DEF DeliveryInv, Acknowledge
<1>2. s.at # "unborn" /\ s.caller = c BY DEF Acknowledge, Known, DeliveryInv, Born
<1>3. stream' = [stream EXCEPT ![o] = t] BY DEF Acknowledge
<1>4. DOMAIN old = 1..Len(old) /\ Len(old) \in Nat BY <1>1
<1>5. ASSUME NEW i \in 1..Len(old)
      PROVE  new[i] \in Receipts /\ new[i][1] = old[i][1] /\ new[i][2] \in {"nobody", s.caller}
  <2>1. new[i] = IF old[i] = <<n, "nobody">> THEN <<n, c>> ELSE old[i] BY <1>4
  <2>2. old[i] \in Receipts BY <1>1
  <2>3. old[i][2] \in {"nobody", s.caller} BY <1>1 DEF Served, Received
  <2> HIDE DEF new
  <2>4. CASE old[i] = <<n, "nobody">>
    <3>1. old[i][1] = n BY <2>4
    <3>2. n \in Nat BY <1>1
    <3> QED BY <1>2, <2>1, <2>4, <3>1, <3>2 DEF Receipts
  <2>5. CASE old[i] # <<n, "nobody">> BY <2>1, <2>2, <2>3, <2>5
  <2> QED BY <2>4, <2>5
<1>6. new \in Seq(Receipts) /\ Len(new) = Len(old)
  <2>1. new = [i \in 1..Len(old) |-> new[i]] BY <1>4
  <2>2. DOMAIN new = 1..Len(old) BY <1>4
  <2> HIDE DEF new
  <2>3. new \in [1..Len(old) -> Receipts] BY <1>5, <2>1
  <2>4. new \in Seq(Receipts) BY <1>4, <2>3, SeqDef
  <2> QED BY <1>4, <2>2, <2>4
<1>7. new[Len(old)][1] = old[Len(old)][1] \/ ~(Len(old) > 0) BY <1>4, <1>5
<1> HIDE DEF new
<1>8. /\ t \in ObserverRecords /\ t.at = s.at /\ t.permit = s.permit /\ t.closed = s.closed
      /\ t.caller = s.caller /\ t.born = s.born /\ t.shown = s.shown /\ t.receipts = new
  BY <1>1, <1>6 DEF ObserverRecords
<1> HIDE DEF t
<1>9. Served(t)
  <2>1. Once(t) /\ LastPending(t) BY <1>1, <1>8 DEF Served, Once, LastPending
  <2>2. Received(t) BY <1>1, <1>5, <1>6, <1>7, <1>8 DEF Served, Received
  <2> QED BY <2>1, <2>2 DEF Served
<1>10. Due(t) = Due(s) BY <1>5, <1>6, <1>8 DEF Due
<1>11. o \in listed => Awake(t) BY <1>8, <1>10 DEF Awake, DeliveryInv
<1> QED BY <1>1, <1>2, <1>3, <1>8, <1>9, <1>11, OneObserver
-----------------------------------------------------------------------------
(* The service is cancelled: nobody is told.                               *)
LEMMA CancelKeeps ==
  ASSUME DeliveryInv, CancelService
  PROVE  DeliveryInv'
<1>1. service = "live" /\ service' = "closed" /\ UNCHANGED <<questions, instance, listed, stream>>
  BY DEF CancelService
<1>2. DeliveryTypes' BY <1>1 DEF DeliveryInv, DeliveryTypes
<1>3. OneQuestion' BY <1>1 DEF DeliveryInv, OneQuestion
<1>4. \A o \in Streams : Served(stream[o])'
  <2> SUFFICES ASSUME NEW o \in Streams PROVE Served(stream[o])' OBVIOUS
  <2> QED BY <1>1 DEF DeliveryInv, Served, Received, Once, LastPending
<1>5. \A o \in Streams : Born(o)' BY <1>1 DEF DeliveryInv, Born
<1>6. \A o \in listed' : Awake(stream[o])' BY <1>1 DEF DeliveryInv, Awake
<1>7. IsFiniteSet(Opened') BY <1>1 DEF DeliveryInv, Opened
<1>8. NewestRetained' BY <1>1 DEF NewestRetained
<1> QED BY <1>2, <1>3, <1>4, <1>5, <1>6, <1>7, <1>8 DEF DeliveryInv

(* A record that is closed or new and keeps no receipts.                   *)
LEMMA BareRecords ==
  ASSUME NEW s \in ObserverRecords, NEW i \in Nat
  PROVE  /\ Forgotten(s) \in ObserverRecords /\ Forgotten(s).receipts = <<>> /\ Forgotten(s).shown = <<>>
         /\ Forgotten(s).at = s.at /\ Forgotten(s).born = s.born /\ Forgotten(s).closed = s.closed
         /\ [s EXCEPT !.closed = TRUE, !.permit = TRUE] \in ObserverRecords
         /\ [s EXCEPT !.closed = TRUE, !.permit = TRUE].at = s.at
         /\ [s EXCEPT !.closed = TRUE, !.permit = TRUE].born = s.born
         /\ [s EXCEPT !.closed = TRUE, !.permit = TRUE].closed
<1>1. <<>> \in Seq(Receipts) /\ <<>> \in Seq(Questions) OBVIOUS
<1>2. /\ Forgotten(s) \in ObserverRecords /\ Forgotten(s).receipts = <<>> /\ Forgotten(s).shown = <<>>
      /\ Forgotten(s).at = s.at /\ Forgotten(s).born = s.born /\ Forgotten(s).closed = s.closed
  BY <1>1 DEF Forgotten, ObserverRecords
<1>3. /\ [s EXCEPT !.closed = TRUE, !.permit = TRUE] \in ObserverRecords
      /\ [s EXCEPT !.closed = TRUE, !.permit = TRUE].at = s.at
      /\ [s EXCEPT !.closed = TRUE, !.permit = TRUE].born = s.born
      /\ [s EXCEPT !.closed = TRUE, !.permit = TRUE].closed
  BY DEF ObserverRecords
<1> QED BY <1>2, <1>3

(* Every observer is closed and gone.                                      *)
LEMMA CloseKeeps ==
  ASSUME DeliveryInv, CloseService
  PROVE  DeliveryInv'
<1>1. service = "closed" /\ listed' = {} /\ UNCHANGED <<questions, service, instance>>
  BY DEF CloseService
<1>2. ASSUME NEW o \in Streams
      PROVE  /\ stream'[o] \in ObserverRecords /\ stream'[o].at = stream[o].at
             /\ stream'[o].born = stream[o].born
             /\ stream[o].at = "unborn" => stream'[o] = stream[o]
             /\ stream'[o] = stream[o] \/ (stream'[o].receipts = <<>> /\ stream'[o].shown = <<>>)
  <2> DEFINE s == stream[o]
             t == [s EXCEPT !.closed = TRUE, !.permit = TRUE]
  <2>1. s \in ObserverRecords BY ShownAre DEF DeliveryInv
  <2>2. t \in ObserverRecords /\ t.at = s.at /\ t.born = s.born BY <2>1, BareRecords, 0 \in Nat
  <2>3. stream'[o] = IF o \in listed THEN Forgotten(t) ELSE s BY DEF CloseService
  <2>4. o \in listed => s.at # "unborn" BY DEF DeliveryInv, Born
  <2> HIDE DEF t
  <2>5. /\ Forgotten(t) \in ObserverRecords /\ Forgotten(t).receipts = <<>> /\ Forgotten(t).shown = <<>>
        /\ Forgotten(t).at = t.at /\ Forgotten(t).born = t.born
    BY <2>2, BareRecords, 0 \in Nat
  <2> HIDE DEF s
  <2>6. stream'[o] \in ObserverRecords /\ stream'[o].at = s.at /\ stream'[o].born = s.born
    BY <2>1, <2>2, <2>3, <2>5
  <2>7. s.at = "unborn" => stream'[o] = s BY <2>3, <2>4
  <2>8. stream'[o] = s \/ (stream'[o].receipts = <<>> /\ stream'[o].shown = <<>>) BY <2>3, <2>5
  <2> QED BY <2>6, <2>7, <2>8 DEF s
<1>3. stream' \in [Streams -> ObserverRecords]
  <2>1. stream' = [o \in Streams |-> stream'[o]] BY DEF CloseService
  <2> QED BY <1>2, <2>1
<1>4. DeliveryTypes' BY <1>1, <1>3 DEF DeliveryInv, DeliveryTypes
<1>5. OneQuestion' BY <1>1 DEF DeliveryInv, OneQuestion
<1>6. ASSUME NEW o \in Streams PROVE Served(stream[o])'
  <2>1. CASE stream'[o] = stream[o]
    <3>1. Served(stream[o]) BY DEF DeliveryInv
    <3> QED BY <1>1, <2>1, <3>1, StillServed
  <2>2. CASE stream'[o].receipts = <<>> /\ stream'[o].shown = <<>>
    BY <2>2, NothingReceived
  <2> QED BY <1>2, <2>1, <2>2
<1>7. ASSUME NEW o \in Streams PROVE Born(o)'
  <2>1. Born(o) BY DEF DeliveryInv
  <2>2. o \notin listed' /\ instance' = instance BY <1>1
  <2>3. stream[o].at = "unborn" => stream'[o] = NoStream BY <1>2, <2>1 DEF Born
  <2>4. stream[o].at # "unborn" => stream'[o].born \in 1..instance' BY <1>2, <2>1, <2>2 DEF Born
  <2> QED BY <1>2, <2>2, <2>3, <2>4 DEF Born
<1>8. \A o \in listed' : Awake(stream[o])' BY <1>1
<1>9. IsFiniteSet(Opened')
  <2>1. Opened' = Opened BY <1>2 DEF Opened
  <2> QED BY <2>1 DEF DeliveryInv
<1>10. NewestRetained' BY <1>1 DEF NewestRetained
<1> QED BY <1>4, <1>5, <1>6, <1>7, <1>8, <1>9, <1>10 DEF DeliveryInv

(* Another process: every earlier observer is over.                        *)
LEMMA RestartKeeps ==
  ASSUME DeliveryInv, Restart
  PROVE  DeliveryInv'
<1>1. /\ instance' = instance + 1 /\ service' = "live" /\ listed' = {} /\ instance \in Nat \ {0}
      /\ questions' = [q \in Questions |-> IF questions[q] = "pending" THEN "ended" ELSE questions[q]]
  BY DEF Restart, DeliveryInv, DeliveryTypes
<1>2. ASSUME NEW o \in Streams
      PROVE  /\ stream'[o] \in ObserverRecords /\ stream'[o].receipts = <<>> /\ stream'[o].shown = <<>>
             /\ stream[o].at = "unborn" => stream'[o] = NoStream
             /\ stream[o].at # "unborn" => stream'[o].at = "ended" /\ stream'[o].born = instance
  <2> DEFINE t == [NoStream EXCEPT !.at = "ended", !.born = instance]
  <2>1. stream'[o] = IF stream[o].at = "unborn" THEN NoStream ELSE t BY DEF Restart
  <2>2. /\ t \in ObserverRecords /\ t.at = "ended" /\ t.born = instance
        /\ t.receipts = <<>> /\ t.shown = <<>>
    BY <1>1, NoStreamIs DEF ObserverRecords
  <2> HIDE DEF t
  <2> QED BY <2>1, <2>2, NoStreamIs
<1>3. stream' \in [Streams -> ObserverRecords]
  <2>1. stream' = [o \in Streams |-> stream'[o]] BY DEF Restart
  <2> QED BY <1>2, <2>1
<1>4. \A q \in Questions : questions'[q] \in {"unasked", "ended"}
  <2> SUFFICES ASSUME NEW q \in Questions PROVE questions'[q] \in {"unasked", "ended"} OBVIOUS
  <2>1. questions'[q] = IF questions[q] = "pending" THEN "ended" ELSE questions[q] BY <1>1
  <2>2. questions[q] \in {"unasked", "pending", "ended"} BY DEF DeliveryInv, DeliveryTypes
  <2> QED BY <2>1, <2>2
<1>5. DeliveryTypes'
  <2>1. questions' = [q \in Questions |-> questions'[q]] BY <1>1
  <2>2. questions' \in [Questions -> {"unasked", "pending", "ended"}] BY <1>4, <2>1
  <2>3. instance' \in Nat \ {0} BY <1>1
  <2> QED BY <1>1, <1>3, <2>2, <2>3 DEF DeliveryTypes
<1>6. OneQuestion' BY <1>4 DEF OneQuestion
<1>7. ASSUME NEW o \in Streams PROVE Served(stream[o])'
  BY <1>2, NothingReceived
<1>8. ASSUME NEW o \in Streams PROVE Born(o)'
  <2>1. instance \in 1..instance' BY <1>1
  <2>2. o \notin listed' BY <1>1
  <2>3. NoStream.at = "unborn" BY NoStreamIs
  <2> QED BY <1>2, <2>1, <2>2, <2>3 DEF Born
<1>9. \A o \in listed' : Awake(stream[o])' BY <1>1
<1>10. IsFiniteSet(Opened')
  <2>1. Opened' = Opened BY <1>2, NoStreamIs DEF Opened
  <2> QED BY <2>1 DEF DeliveryInv
<1>11. NewestRetained'
  <2> SUFFICES ASSUME NEW o \in Streams, stream'[o].born = instance' PROVE FALSE
    BY DEF NewestRetained
  <2>1. stream'[o].born \in {0, instance} BY <1>2, NoStreamIs
  <2> QED BY <1>1, <2>1
<1> QED BY <1>5, <1>6, <1>7, <1>8, <1>9, <1>10, <1>11 DEF DeliveryInv
-----------------------------------------------------------------------------
(* An observer comes, and of the retired ones the newest stay: whoever is  *)
(* forgotten now has enough that have retired after it.                    *)
LEMMA ObserveKeeps ==
  ASSUME DeliveryInv, NEW o \in Streams, Observe(o)
  PROVE  DeliveryInv'
<1>1. /\ service = "live" /\ stream[o].at = "unborn" /\ UNCHANGED <<questions, service, instance>>
      /\ listed' = {x \in listed : Kept(x)} \cup {o} /\ listed \subseteq Streams /\ instance \in Nat \ {0}
  BY DEF Observe, DeliveryInv, DeliveryTypes
<1>2. o \notin listed BY <1>1 DEF DeliveryInv, Born
<1>3. /\ stream'[o] \in ObserverRecords /\ stream'[o].at = "looking" /\ stream'[o].born = instance
      /\ ~stream'[o].closed /\ stream'[o].receipts = <<>> /\ stream'[o].shown = <<>>
  <2> DEFINE t == [NoStream EXCEPT !.at = "looking", !.caller = Caller[o], !.born = instance]
  <2>1. stream'[o] = t BY DEF Observe
  <2>2. Caller[o] \in Clients BY LimitsAssumption
  <2>3. /\ t \in ObserverRecords /\ t.at = "looking" /\ t.born = instance
        /\ ~t.closed /\ t.receipts = <<>> /\ t.shown = <<>>
    BY <1>1, <2>2, NoStreamIs DEF ObserverRecords
  <2> QED BY <2>1, <2>3
<1>4. ASSUME NEW x \in Streams \ {o}
      PROVE  /\ stream'[x] \in ObserverRecords /\ stream'[x].at = stream[x].at
             /\ stream'[x].born = stream[x].born /\ stream'[x].closed = stream[x].closed
             /\ x \in listed' \/ stream[x].at = "unborn" => stream'[x] = stream[x]
             /\ stream'[x] = stream[x] \/ (stream'[x].receipts = <<>> /\ stream'[x].shown = <<>>)
  <2> DEFINE s == stream[x]
  <2>1. s \in ObserverRecords BY ShownAre DEF DeliveryInv
  <2>2. stream'[x] = IF x \in listed \ listed' THEN Forgotten(s) ELSE s BY DEF Observe
  <2>3. /\ Forgotten(s) \in ObserverRecords /\ Forgotten(s).receipts = <<>> /\ Forgotten(s).shown = <<>>
        /\ Forgotten(s).at = s.at /\ Forgotten(s).born = s.born /\ Forgotten(s).closed = s.closed
    BY <2>1, BareRecords, 0 \in Nat
  <2>4. s.at = "unborn" => x \notin listed BY DEF DeliveryInv, Born
  <2> HIDE DEF s
  <2>5. CASE stream'[x] = s BY <2>1, <2>5 DEF s
  <2>6. CASE x \in listed \ listed' /\ stream'[x] = Forgotten(s) BY <2>3, <2>4, <2>6 DEF s
  <2> QED BY <2>2, <2>5, <2>6
<1>5. stream' \in [Streams -> ObserverRecords]
  <2>1. stream' = [x \in Streams |-> stream'[x]] BY DEF Observe
  <2> QED BY <1>3, <1>4, <2>1
<1>6. DeliveryTypes' BY <1>1, <1>5 DEF DeliveryInv, DeliveryTypes
<1>7. OneQuestion' BY <1>1 DEF DeliveryInv, OneQuestion
<1>8. ASSUME NEW x \in Streams PROVE Served(stream[x])'
  <2>1. CASE stream'[x] = stream[x]
    <3>1. Served(stream[x]) BY DEF DeliveryInv
    <3> QED BY <1>1, <2>1, <3>1, StillServed
  <2>2. CASE stream'[x].receipts = <<>> /\ stream'[x].shown = <<>>
    BY <2>2, NothingReceived
  <2> QED BY <1>3, <1>4, <2>1, <2>2
<1>9. ASSUME NEW x \in Streams PROVE Born(x)'
  <2>1. CASE x = o
    <3>1. instance \in 1..instance' BY <1>1
    <3> QED BY <1>1, <1>3, <2>1, <3>1 DEF Born
  <2>2. CASE x # o
    <3>1. Born(x) BY DEF DeliveryInv
    <3>2. x \in listed' => x \in listed BY <1>1, <2>2
    <3> QED BY <1>1, <1>4, <2>2, <3>1, <3>2 DEF Born
  <2> QED BY <2>1, <2>2
<1>10. ASSUME NEW x \in listed' PROVE Awake(stream[x])'
  <2>1. CASE x = o BY <1>3, <2>1 DEF Awake
  <2>2. CASE x # o
    <3>1. x \in listed /\ x \in Streams BY <1>1, <2>2
    <3>2. stream'[x] = stream[x] BY <1>4, <2>2, <3>1
    <3>3. Awake(stream[x]) BY <3>1 DEF DeliveryInv
    <3> QED BY <1>1, <3>2, <3>3 DEF Awake, Due
  <2> QED BY <2>1, <2>2
<1>11. IsFiniteSet(Opened')
  <2>1. Opened' = Opened \cup {o} BY <1>3, <1>4 DEF Opened
  <2> QED BY <2>1, FS_AddElement DEF DeliveryInv
<1>12. NewestRetained'
  <2> SUFFICES ASSUME NEW x \in Streams, stream'[x].born = instance, x \notin listed'
               PROVE  Cardinality(Later(x)') >= MaxStreams
    BY <1>1 DEF NewestRetained
  <2>1. x # o /\ stream[x].born = instance BY <1>1, <1>4
  <2>2. \A y \in Streams : stream[y].closed /\ stream[y].at # "unborn"
          => stream'[y].closed /\ stream'[y].born = stream[y].born
    BY <1>1, <1>4
  <2>3. \A y \in Streams : stream'[y].closed => stream'[y].at # "unborn"
    BY <1>3, <1>4, NoStreamIs DEF DeliveryInv, Born
  <2>4. CASE x \notin listed
    <3>1. Cardinality(Later(x)) >= MaxStreams BY <1>1, <2>1, <2>4 DEF DeliveryInv, NewestRetained
    <3> QED BY <1>1, <1>11, <2>2, <2>3, <3>1, RetiredGrow
  <2>5. CASE x \in listed
    <3> DEFINE after == {y \in Retired : y > x}
    <3>1. ~(Cardinality(after) < MaxStreams) BY <1>1, <2>1, <2>5 DEF Kept
    <3>2. after \subseteq Later(x)'
      <4> SUFFICES ASSUME NEW y \in Retired, y > x PROVE y \in Later(x)' OBVIOUS
      <4>1. y \in listed /\ stream[y].closed /\ y \in Streams BY <1>1 DEF Retired
      <4>2. stream[y].at # "unborn" /\ stream[y].born = instance BY <4>1 DEF DeliveryInv, Born
      <4>3. stream'[y].closed /\ stream'[y].born = instance' BY <1>1, <2>2, <4>1, <4>2
      <4> QED BY <4>1, <4>3 DEF Later
    <3>3. Later(x)' \subseteq Opened' BY <2>3 DEF Later, Opened
    <3>4. IsFiniteSet(Later(x)') BY <1>11, <3>3, FS_Subset
    <3> HIDE DEF after
    <3>5. IsFiniteSet(after) /\ Cardinality(after) <= Cardinality(Later(x)') BY <3>2, <3>4, FS_Subset
    <3>6. Cardinality(after) \in Nat /\ Cardinality(Later(x)') \in Nat BY <3>4, <3>5, FS_CardinalityType
    <3>7. MaxStreams \in Nat BY LimitsAssumption
    <3> QED BY <3>1, <3>5, <3>6, <3>7
  <2> QED BY <2>4, <2>5
<1> QED BY <1>6, <1>7, <1>8, <1>9, <1>10, <1>11, <1>12 DEF DeliveryInv

-----------------------------------------------------------------------------
(* Every step of the delivery keeps the invariant.                         *)
LEMMA DeliverySteps == DeliveryInv /\ [DeliveryNext]_dvars => DeliveryInv'
<1> SUFFICES ASSUME DeliveryInv, [DeliveryNext]_dvars PROVE DeliveryInv' OBVIOUS
<1>1. CASE Depart \/ \E q \in Questions : Ask(q) \/ Settle(q) BY <1>1, QuestionsKeep
<1>2. ASSUME NEW o \in Streams, Pull(o) \/ Heartbeat(o) \/ Unobserve(o) \/ Observe(o) PROVE DeliveryInv'
  BY <1>2, LookKeeps, WakingKeeps, UnobserveKeeps, ObserveKeeps DEF Pull
<1>3. ASSUME NEW o \in Streams, NEW c \in Clients, NEW n \in 1..Len(stream[o].shown), Acknowledge(o, n, c)
      PROVE  DeliveryInv'
  BY <1>3, AcknowledgeKeeps
<1>4. CASE CancelService BY <1>4, CancelKeeps
<1>5. CASE CloseService BY <1>5, CloseKeeps
<1>6. CASE Restart BY <1>6, RestartKeeps
<1>7. CASE UNCHANGED dvars
  <2>1. UNCHANGED <<questions, service, instance, listed, stream>> BY <1>7 DEF dvars
  <2>2. DeliveryTypes' BY <2>1 DEF DeliveryInv, DeliveryTypes
  <2>3. OneQuestion' BY <2>1 DEF DeliveryInv, OneQuestion
  <2>4. \A o \in Streams : Served(stream[o])' /\ Born(o)'
    BY <2>1 DEF DeliveryInv, Served, Received, Once, LastPending, Born
  <2>5. \A o \in listed' : Awake(stream[o])' BY <2>1 DEF DeliveryInv, Awake, Due
  <2>6. IsFiniteSet(Opened') BY <2>1 DEF DeliveryInv, Opened
  <2>7. NewestRetained' BY <2>1 DEF DeliveryInv, NewestRetained, Later
  <2> QED BY <2>2, <2>3, <2>4, <2>5, <2>6, <2>7 DEF DeliveryInv
<1> QED BY <1>1, <1>2, <1>3, <1>4, <1>5, <1>6, <1>7 DEF DeliveryNext

(* A question reaches the clients that observe its session, each once, no  *)
(* observer sleeps on what it owes, and a receipt is given only by the     *)
(* client of its delivery (interaction_delivery.rs).                       *)
THEOREM QuestionsReach == DeliverySpec => []DeliveryKept
<1>1. DeliverySpec => []DeliveryInv BY DeliveryStarts, DeliverySteps, PTL DEF DeliverySpec
<1>2. DeliveryInv => DeliveryKept BY DeliveryMeans
<1> QED BY <1>1, <1>2, PTL

(* An observer is forgotten only when MAX_OBSERVERS of those after it have *)
(* retired: until then a late receipt finds its delivery                   *)
(* (observe_interactions).                                                 *)
THEOREM ReceiptsAreFound == DeliverySpec => []NewestRetained
<1>1. DeliverySpec => []DeliveryInv BY DeliveryStarts, DeliverySteps, PTL DEF DeliverySpec
<1>2. DeliveryInv => NewestRetained BY DEF DeliveryInv
<1> QED BY <1>1, <1>2, PTL
-----------------------------------------------------------------------------
(***************************************************************************)
(* Title, model and model information: the session's side.                 *)
(***************************************************************************)

(* What the parts of the session range over.                               *)
OpRecords ==
  [at : {"idle", "configuring", "storing", "stored", "over"}, text : Texts \cup {Untitled},
   auto : BOOLEAN, rev : Nat, model : Models \cup {Unnamed}]
TaskRecords ==
  [at : {"none", "asking", "answered", "failed", "storing", "ended"}, rev : Nat, cancelled : BOOLEAN]

SessionTypes ==
  /\ view \in View /\ row \in [text : Texts \cup {Untitled}, auto : BOOLEAN]
  /\ life \in {"live", "frozen", "cancelled", "gone"} /\ run \in BOOLEAN /\ ran \in Nat
  /\ info \in Models \cup {Unnamed} /\ query \in Nat /\ applied \in 0..query
  /\ asked \subseteq Models \X (1..query)
TaskTypes ==
  /\ current \in Tasks \cup {Nobody} /\ tasks \in [Tasks -> TaskRecords]
  /\ current # Nobody => tasks[current].at \in {"asking", "answered", "failed", "storing"}

(* Whoever has an update of its own holds the gate; a title task that has  *)
(* one is storing.                                                         *)
OpsHeld ==
  /\ op \in [Procs -> OpRecords] /\ gate \in Procs \cup {Nobody}
  /\ \A p \in Procs : op[p] # NoOp => gate = p
  /\ \A p \in Procs : op[p].at = "configuring" => op[p].model \in Models
  /\ \A t \in Tasks : op[t] # NoOp => tasks[t].at = "storing" /\ op[t].at # "configuring"

(* The revision of a title update is still the one that follows, and that  *)
(* of a title task the one the task was scheduled at.                      *)
RevisionOf(s) == IF view.text # s.text \/ view.auto # s.auto THEN view.rev + 1 ELSE view.rev
UpdatesStand ==
  \A p \in Procs : op[p].at \in {"storing", "stored"}
    => op[p].rev = RevisionOf(op[p]) /\ (p \in Tasks => view.rev = tasks[p].rev)

(* The row is what the session shows, or what somebody is about to show.   *)
RowStands ==
  /\ \A p \in Procs : op[p].at = "stored" => row = [text |-> op[p].text, auto |-> op[p].auto]
  /\ life # "gone" /\ (\A p \in Procs : op[p].at # "stored") => row = [text |-> view.text, auto |-> view.auto]

(* The inductive invariant of the session's side.                          *)
SessionInv == SessionTypes /\ TaskTypes /\ OpsHeld /\ UpdatesStand /\ RowStands /\ InfoIsCurrent

-----------------------------------------------------------------------------
(* Nobody is neither a caller nor a title task.                            *)
LEMMA NobodyElse == Nobody \notin Procs /\ Tasks \subseteq Procs /\ Callers \subseteq Procs /\ Callers \cap Tasks = {}
BY DistinctAssumption DEF Procs

(* An idle operation is one of the records, and so is a task to come.      *)
LEMMA NothingIs ==
  /\ NoOp \in OpRecords /\ NoOp.at = "idle"
  /\ NoTask \in TaskRecords /\ NoTask.at = "none"
BY DEF NoOp, NoTask, OpRecords, TaskRecords

(* While nobody has the gate, nobody has an update under way.              *)
LEMMA GateFree ==
  ASSUME OpsHeld, gate = Nobody
  PROVE  \A p \in Procs : op[p] = NoOp /\ op[p].at = "idle"
BY NobodyElse, NothingIs DEF OpsHeld

(* With the gate held by one, nobody else has an update.                   *)
LEMMA GateAlone ==
  ASSUME OpsHeld, NEW p \in Procs, op[p] # NoOp
  PROVE  gate = p /\ \A x \in Procs \ {p} : op[x] = NoOp /\ op[x].at = "idle"
BY NothingIs DEF OpsHeld

(* Tasks that are cancelled are otherwise as they were.                    *)
LEMMA CancelledAre ==
  ASSUME TaskTypes
  PROVE  /\ Cancelled \in [Tasks -> TaskRecords]
         /\ \A t \in Tasks : Cancelled[t].at = tasks[t].at /\ Cancelled[t].rev = tasks[t].rev
<1>1. ASSUME NEW t \in Tasks
      PROVE  /\ Cancelled[t] \in TaskRecords /\ Cancelled[t].at = tasks[t].at
             /\ Cancelled[t].rev = tasks[t].rev
  <2>1. tasks[t] \in TaskRecords BY DEF TaskTypes
  <2>2. Cancelled[t] = [tasks[t] EXCEPT !.cancelled = tasks[t].cancelled \/ tasks[t].at # "none"]
    BY DEF Cancelled
  <2>3. (tasks[t].cancelled \/ tasks[t].at # "none") \in BOOLEAN OBVIOUS
  <2> QED BY <2>1, <2>2, <2>3 DEF TaskRecords
<1>2. Cancelled = [t \in Tasks |-> Cancelled[t]] BY DEF Cancelled
<1> QED BY <1>1, <1>2

(* Nothing has happened yet.                                               *)
LEMMA SessionStarts == Init => SessionInv
<1> SUFFICES ASSUME Init PROVE SessionInv OBVIOUS
<1>1. PICK m \in Models :
        view = [text |-> Untitled, auto |-> TRUE, rev |-> 1, model |-> m, names |-> Unnamed, warning |-> TRUE]
  BY DEF Init
<1>2. SessionTypes
  <2>1. view \in View BY <1>1 DEF View
  <2>2. row \in [text : Texts \cup {Untitled}, auto : BOOLEAN] BY DEF Init
  <2>3. life = "live" /\ run = FALSE /\ ran = 0 /\ info = Unnamed /\ query = 0 /\ applied = 0 /\ asked = {}
    BY DEF Init
  <2>4. applied \in 0..query /\ asked \subseteq Models \X (1..query) BY <2>3
  <2> QED BY <2>1, <2>2, <2>3, <2>4 DEF SessionTypes
<1>3. TaskTypes BY NothingIs DEF Init, TaskTypes
<1>4. \A p \in Procs : op[p] = NoOp /\ op[p].at = "idle" BY NothingIs DEF Init
<1>5. OpsHeld
  <2>1. op \in [Procs -> OpRecords] BY NothingIs DEF Init
  <2>2. gate = Nobody BY DEF Init
  <2> QED BY <1>4, <2>1, <2>2, NobodyElse DEF OpsHeld
<1>6. UpdatesStand BY <1>4 DEF UpdatesStand
<1>7. RowStands BY <1>1, <1>4 DEF Init, RowStands
<1>8. InfoIsCurrent BY DEF Init, InfoIsCurrent
<1> QED BY <1>2, <1>3, <1>5, <1>6, <1>7, <1>8 DEF SessionInv

-----------------------------------------------------------------------------
(* Only the tasks change, and none that has an update of its own.          *)
LEMMA TasksOnly ==
  ASSUME SessionInv, UNCHANGED <<session, op, gate, asked>>, TaskTypes', run' \in BOOLEAN, ran' \in Nat,
         \A t \in Tasks : op[t] # NoOp => tasks'[t].at = tasks[t].at /\ tasks'[t].rev = tasks[t].rev
  PROVE  SessionInv'
<1>1. UNCHANGED <<view, row, life, info, query, applied>> BY DEF session
<1>2. SessionTypes' BY <1>1 DEF SessionInv, SessionTypes
<1>3. OpsHeld' BY DEF SessionInv, OpsHeld
<1>4. UpdatesStand'
  <2> SUFFICES ASSUME NEW p \in Procs, op[p].at \in {"storing", "stored"}
               PROVE  op[p].rev = RevisionOf(op[p])' /\ (p \in Tasks => view.rev = tasks'[p].rev)
    BY <1>1 DEF UpdatesStand
  <2>1. op[p] # NoOp BY NothingIs
  <2>2. RevisionOf(op[p])' = RevisionOf(op[p]) BY <1>1 DEF RevisionOf
  <2> QED BY <2>1, <2>2 DEF SessionInv, UpdatesStand
<1>5. RowStands' BY <1>1 DEF SessionInv, RowStands
<1>6. InfoIsCurrent' BY <1>1 DEF SessionInv, InfoIsCurrent
<1> QED BY <1>2, <1>3, <1>4, <1>5, <1>6 DEF SessionInv

(* A new title task, and what it leaves of the others.                     *)
LEMMA ScheduleKeeps ==
  ASSUME SessionInv, NEW t \in Tasks, Schedule(t)
  PROVE  /\ TaskTypes'
         /\ \A x \in Tasks : op[x] # NoOp => tasks'[x].at = tasks[x].at /\ tasks'[x].rev = tasks[x].rev
<1> DEFINE new == [at |-> "asking", rev |-> view.rev, cancelled |-> FALSE]
<1>1. tasks[t] = NoTask /\ tasks' = [Cancelled EXCEPT ![t] = new] /\ current' = t BY DEF Schedule
<1>2. new \in TaskRecords /\ new.at = "asking" BY DEF SessionInv, SessionTypes, View, TaskRecords
<1> HIDE DEF new
<1>3. TaskTypes BY DEF SessionInv
<1>4. /\ Cancelled \in [Tasks -> TaskRecords]
      /\ \A x \in Tasks : Cancelled[x].at = tasks[x].at /\ Cancelled[x].rev = tasks[x].rev
  BY <1>3, CancelledAre
<1>5. tasks' \in [Tasks -> TaskRecords] /\ tasks'[t] = new BY <1>1, <1>2, <1>4
<1>6. \A x \in Tasks \ {t} : tasks'[x] = Cancelled[x] BY <1>1, <1>4
<1>7. op[t] = NoOp BY <1>1, NothingIs DEF SessionInv, OpsHeld
<1> QED BY <1>1, <1>2, <1>4, <1>5, <1>6, <1>7 DEF TaskTypes

(* Every title task is cancelled.                                          *)
LEMMA CancelledKeeps ==
  ASSUME SessionInv, current' = Nobody, tasks' = Cancelled
  PROVE  /\ TaskTypes'
         /\ \A x \in Tasks : tasks'[x].at = tasks[x].at /\ tasks'[x].rev = tasks[x].rev
<1>1. TaskTypes BY DEF SessionInv
<1> QED BY <1>1, CancelledAre DEF TaskTypes
-----------------------------------------------------------------------------
(* Title tasks are scheduled, answered and cancelled as runs come and go.  *)
LEMMA TaskStepsKeep ==
  ASSUME SessionInv, StartRun \/ EndRun \/ \E t \in Tasks : Regenerate(t) \/ Answer(t)
  PROVE  SessionInv'
<1>1. TaskTypes /\ run \in BOOLEAN /\ ran \in Nat BY DEF SessionInv, SessionTypes
<1>2. ASSUME NEW t \in Tasks, Regenerate(t) PROVE SessionInv'
  <2>1. Schedule(t) /\ UNCHANGED <<session, run, ran, op, gate, asked>> BY <1>2 DEF Regenerate
  <2> QED BY <1>1, <2>1, ScheduleKeeps, TasksOnly
<1>3. CASE StartRun
  <2>1. /\ current' = Nobody /\ tasks' = Cancelled /\ run' = TRUE /\ ran' = ran
        /\ UNCHANGED <<session, op, gate, asked>>
    BY <1>3 DEF StartRun
  <2> QED BY <1>1, <2>1, CancelledKeeps, TasksOnly
<1>4. CASE EndRun
  <2>1. run' = FALSE /\ ran' = ran + 1 /\ UNCHANGED <<session, op, gate, asked>> BY <1>4 DEF EndRun
  <2>2. run' \in BOOLEAN /\ ran' \in Nat
    <3>1. run' \in BOOLEAN BY <2>1
    <3>2. ran' \in Nat BY <1>1, <2>1
    <3> QED BY <3>1, <3>2
  <2>3. ASSUME NEW t \in Tasks, Schedule(t) PROVE SessionInv'
    BY <2>1, <2>2, <2>3, ScheduleKeeps, TasksOnly
  <2>4. CASE UNCHANGED <<current, tasks>>
    <3>1. TaskTypes' BY <1>1, <2>4 DEF TaskTypes
    <3> QED BY <2>1, <2>2, <2>4, <3>1, TasksOnly
  <2> QED BY <1>4, <2>3, <2>4 DEF EndRun
<1>5. ASSUME NEW t \in Tasks, Answer(t) PROVE SessionInv'
  <2>1. tasks[t].at = "asking" /\ UNCHANGED <<session, run, ran, current, op, gate, asked>> BY <1>5 DEF Answer
  <2>2. PICK at \in {"answered", "failed"} : tasks' = [tasks EXCEPT ![t].at = at] BY <1>5 DEF Answer
  <2>3. tasks[t] \in TaskRecords BY <1>1 DEF TaskTypes
  <2>4. [tasks[t] EXCEPT !.at = at] \in TaskRecords /\ [tasks[t] EXCEPT !.at = at].at = at
    BY <2>3 DEF TaskRecords
  <2>5. /\ tasks' \in [Tasks -> TaskRecords] /\ tasks'[t].at = at
        /\ \A x \in Tasks \ {t} : tasks'[x] = tasks[x]
    BY <1>1, <2>2, <2>4 DEF TaskTypes
  <2>6. TaskTypes' BY <1>1, <2>1, <2>5 DEF TaskTypes
  <2>7. op[t] = NoOp BY <2>1 DEF SessionInv, OpsHeld
  <2> QED BY <1>1, <2>1, <2>5, <2>6, <2>7, TasksOnly
<1> QED BY <1>2, <1>3, <1>4, <1>5

(* The session's life goes on; from "gone" it does not come back.          *)
LEMMA LifeKeeps ==
  ASSUME SessionInv, Freeze \/ Thaw \/ Delete \/ Cancel \/ Close
  PROVE  SessionInv'
<1>1. UNCHANGED <<view, row, info, query, applied, run, ran, op, gate, asked>>
  BY DEF Freeze, Thaw, Delete, Cancel, Close, working
<1>2. life' \in {"live", "frozen", "cancelled", "gone"} /\ (life = "gone" => life' = "gone")
  BY DEF Freeze, Thaw, Delete, Cancel, Close
<1>3. (current' = Nobody /\ tasks' = Cancelled) \/ UNCHANGED <<current, tasks>>
  BY DEF Freeze, Thaw, Delete, Cancel, Close, working
<1>4. SessionTypes' BY <1>1, <1>2 DEF SessionInv, SessionTypes
<1>5. TaskTypes' /\ \A x \in Tasks : tasks'[x].at = tasks[x].at /\ tasks'[x].rev = tasks[x].rev
  <2>1. CASE current' = Nobody /\ tasks' = Cancelled BY <2>1, CancelledKeeps
  <2>2. CASE UNCHANGED <<current, tasks>> BY <2>2 DEF SessionInv, TaskTypes
  <2> QED BY <1>3, <2>1, <2>2
<1>6. OpsHeld' BY <1>1, <1>5 DEF SessionInv, OpsHeld
<1>7. UpdatesStand'
  <2> SUFFICES ASSUME NEW p \in Procs, op[p].at \in {"storing", "stored"}
               PROVE  op[p].rev = RevisionOf(op[p])' /\ (p \in Tasks => view.rev = tasks'[p].rev)
    BY <1>1 DEF UpdatesStand
  <2>1. RevisionOf(op[p])' = RevisionOf(op[p]) BY <1>1 DEF RevisionOf
  <2> QED BY <1>5, <2>1 DEF SessionInv, UpdatesStand
<1>8. RowStands' BY <1>1, <1>2 DEF SessionInv, RowStands
<1>9. InfoIsCurrent' BY <1>1 DEF SessionInv, InfoIsCurrent
<1> QED BY <1>4, <1>5, <1>6, <1>7, <1>8, <1>9 DEF SessionInv

-----------------------------------------------------------------------------
(* The gate is taken by one with an update of its own, which says what is  *)
(* to become of the view as it is.                                         *)
LEMMA GateTaken ==
  ASSUME SessionInv, NEW p \in Procs, NEW s \in OpRecords, gate = Nobody, gate' = p,
         op' = [op EXCEPT ![p] = s], UNCHANGED <<session, run, ran, asked>>, TaskTypes',
         s.at \in {"configuring", "storing"}, s.at = "storing" => s.rev = RevisionOf(s),
         s.at = "configuring" => s.model \in Models,
         p \in Tasks => s.at = "storing" /\ tasks'[p].at = "storing" /\ tasks'[p].rev = view.rev
  PROVE  SessionInv'
<1>1. UNCHANGED <<view, row, life, info, query, applied>> BY DEF session
<1>2. OpsHeld BY DEF SessionInv
<1>3. \A x \in Procs : op[x] = NoOp /\ op[x].at = "idle" BY <1>2, GateFree
<1>4. op'[p] = s /\ \A x \in Procs \ {p} : op'[x] = NoOp /\ op'[x].at = "idle" BY <1>2, <1>3 DEF OpsHeld
<1>5. SessionTypes' BY <1>1 DEF SessionInv, SessionTypes
<1>6. OpsHeld'
  <2>1. op' \in [Procs -> OpRecords] BY <1>2 DEF OpsHeld
  <2> QED BY <1>4, <2>1, NobodyElse DEF OpsHeld
<1>7. UpdatesStand'
  <2> SUFFICES ASSUME NEW x \in Procs, op'[x].at \in {"storing", "stored"}
               PROVE  op'[x].rev = RevisionOf(op[x])' /\ (x \in Tasks => view.rev = tasks'[x].rev)
    BY <1>1 DEF UpdatesStand
  <2>1. x = p BY <1>4
  <2>2. RevisionOf(op[x])' = RevisionOf(s) BY <1>1, <1>4, <2>1 DEF RevisionOf
  <2> QED BY <1>4, <2>1, <2>2
<1>8. RowStands'
  <2>1. \A x \in Procs : op'[x].at # "stored" /\ op[x].at # "stored" BY <1>3, <1>4
  <2> QED BY <1>1, <2>1 DEF SessionInv, RowStands
<1>9. InfoIsCurrent' BY <1>1 DEF SessionInv, InfoIsCurrent
<1> QED BY <1>5, <1>6, <1>7, <1>8, <1>9 DEF SessionInv

(* What a title update is made of.                                         *)
LEMMA UpdatedIs ==
  ASSUME SessionInv, NEW x \in Texts, NEW b \in BOOLEAN
  PROVE  Updated(x, b) \in OpRecords /\ Updated(x, b).at = "storing" /\ Updated(x, b).rev = RevisionOf(Updated(x, b))
<1>1. view.rev \in Nat BY DEF SessionInv, SessionTypes, View
<1> DEFINE r == IF view.text # x \/ view.auto # b THEN view.rev + 1 ELSE view.rev
<1>2. r \in Nat BY <1>1
<1>3. Updated(x, b) = [at |-> "storing", text |-> x, auto |-> b, model |-> Unnamed, rev |-> r] BY DEF Updated
<1> HIDE DEF r
<1>4. Updated(x, b) \in OpRecords BY <1>2, <1>3 DEF OpRecords
<1>5. Updated(x, b).at = "storing" /\ Updated(x, b).rev = r /\ Updated(x, b).text = x /\ Updated(x, b).auto = b
  BY <1>3
<1> QED BY <1>4, <1>5 DEF r, RevisionOf

(* A caller sets the title or asks for another model; a title task that is *)
(* still expected stores what it was answered.                             *)
LEMMA TakersKeep ==
  ASSUME SessionInv,
         (\E c \in Callers : AskConfig(c) \/ SetTitle(c)) \/ \E t \in Tasks : StoreTitle(t)
  PROVE  SessionInv'
<1>1. ASSUME NEW c \in Callers, AskConfig(c) PROVE SessionInv'
  <2>1. gate = Nobody /\ gate' = c /\ UNCHANGED <<session, run, ran, current, tasks, asked>>
    BY <1>1 DEF AskConfig, working
  <2>2. PICK m \in Models, r \in 1..view.rev :
          op' = [op EXCEPT ![c] = [NoOp EXCEPT !.at = "configuring", !.model = m, !.rev = r]]
    BY <1>1 DEF AskConfig
  <2> DEFINE s == [NoOp EXCEPT !.at = "configuring", !.model = m, !.rev = r]
  <2>3. r \in Nat BY DEF SessionInv, SessionTypes, View
  <2>4. s \in OpRecords /\ s.at = "configuring" /\ s.model = m BY <2>3 DEF NoOp, OpRecords
  <2>5. TaskTypes' BY <2>1 DEF SessionInv, TaskTypes
  <2>6. op' = [op EXCEPT ![c] = s] BY <2>2
  <2> HIDE DEF s
  <2> QED BY <2>1, <2>4, <2>5, <2>6, NobodyElse, GateTaken
<1>2. ASSUME NEW c \in Callers, SetTitle(c) PROVE SessionInv'
  <2>1. gate = Nobody /\ gate' = c /\ UNCHANGED <<session, run, ran, current, tasks, asked>>
    BY <1>2 DEF SetTitle, working
  <2>2. PICK x \in Texts, b \in BOOLEAN : op' = [op EXCEPT ![c] = Updated(x, b)] BY <1>2 DEF SetTitle
  <2>3. TaskTypes' BY <2>1 DEF SessionInv, TaskTypes
  <2> QED BY <2>1, <2>2, <2>3, NobodyElse, UpdatedIs, GateTaken
<1>3. ASSUME NEW t \in Tasks, StoreTitle(t) PROVE SessionInv'
  <2>1. gate = Nobody /\ tasks[t].at \in {"answered", "failed"} /\ UNCHANGED <<session, run, ran, asked>>
    BY <1>3 DEF StoreTitle
  <2>2. TaskTypes /\ tasks[t] \in TaskRecords BY DEF SessionInv, TaskTypes
  <2>3. CASE life = "live" /\ Expected(t)
    <3>1. /\ \E x \in Texts : op' = [op EXCEPT ![t] = Updated(x, TRUE)]
          /\ tasks' = [tasks EXCEPT ![t].at = "storing"] /\ gate' = t /\ current' = current
      BY <1>3, <2>3 DEF StoreTitle
    <3>2. PICK x \in Texts : op' = [op EXCEPT ![t] = Updated(x, TRUE)] BY <3>1
    <3> DEFINE s == [tasks[t] EXCEPT !.at = "storing"]
    <3>3. s \in TaskRecords /\ s.at = "storing" /\ s.rev = tasks[t].rev BY <2>2 DEF TaskRecords
    <3>4. tasks' = [tasks EXCEPT ![t] = s] BY <3>1
    <3> HIDE DEF s
    <3>5. /\ tasks' \in [Tasks -> TaskRecords] /\ tasks'[t] = s
          /\ \A y \in Tasks \ {t} : tasks'[y] = tasks[y]
      BY <2>2, <3>3, <3>4 DEF TaskTypes
    <3>6. TaskTypes' BY <2>2, <3>1, <3>3, <3>5 DEF TaskTypes
    <3>7. tasks'[t].at = "storing" /\ tasks'[t].rev = view.rev BY <2>3, <3>3, <3>5 DEF Expected
    <3> QED BY <2>1, <3>1, <3>2, <3>6, <3>7, NobodyElse, UpdatedIs, GateTaken
  <2>4. CASE ~(life = "live" /\ Expected(t))
    <3>1. /\ tasks' = [tasks EXCEPT ![t].at = "ended"] /\ UNCHANGED <<op, gate>>
          /\ current' = IF current = t THEN Nobody ELSE current
      BY <1>3, <2>4 DEF StoreTitle
    <3> DEFINE s == [tasks[t] EXCEPT !.at = "ended"]
    <3>2. s \in TaskRecords BY <2>2 DEF TaskRecords
    <3>3. tasks' = [tasks EXCEPT ![t] = s] BY <3>1
    <3> HIDE DEF s
    <3>4. tasks' \in [Tasks -> TaskRecords] /\ \A y \in Tasks \ {t} : tasks'[y] = tasks[y]
      BY <2>2, <3>2, <3>3 DEF TaskTypes
    <3>5. TaskTypes' BY <2>2, <3>1, <3>4 DEF TaskTypes
    <3>6. op[t] = NoOp BY <2>1 DEF SessionInv, OpsHeld
    <3>7. run' \in BOOLEAN /\ ran' \in Nat BY <2>1 DEF SessionInv, SessionTypes
    <3> QED BY <2>1, <3>1, <3>4, <3>5, <3>6, <3>7, TasksOnly
  <2> QED BY <2>3, <2>4
<1> QED BY <1>1, <1>2, <1>3
-----------------------------------------------------------------------------
(* The row is written, or that fails; the view still shows the old title.  *)
LEMMA StoreRowKeeps ==
  ASSUME SessionInv, NEW p \in Procs, StoreRow(p)
  PROVE  SessionInv'
<1> DEFINE s == op[p]
<1>1. /\ s.at = "storing"
      /\ UNCHANGED <<view, life, info, query, applied, run, ran, current, tasks, gate, asked>>
  BY DEF StoreRow, working
<1>2. OpsHeld /\ s \in OpRecords /\ s # NoOp BY <1>1, NothingIs DEF SessionInv, OpsHeld
<1>3. gate = p /\ \A x \in Procs \ {p} : op[x] = NoOp /\ op[x].at = "idle" BY <1>2, GateAlone
<1>4. PICK at \in {"stored", "over"} :
        /\ op' = [op EXCEPT ![p].at = at]
        /\ row' = IF at = "stored" THEN [text |-> s.text, auto |-> s.auto] ELSE row
  BY DEF StoreRow
<1> DEFINE t == [s EXCEPT !.at = at]
<1>5. t \in OpRecords /\ t.at = at /\ t.text = s.text /\ t.auto = s.auto /\ t.rev = s.rev
  BY <1>2 DEF OpRecords
<1>6. op' = [op EXCEPT ![p] = t] BY <1>4
<1> HIDE DEF t
<1>7. op' \in [Procs -> OpRecords] /\ op'[p] = t /\ \A x \in Procs \ {p} : op'[x] = op[x]
  BY <1>2, <1>5, <1>6 DEF OpsHeld
<1>8. SessionTypes'
  <2>1. [text |-> s.text, auto |-> s.auto] \in [text : Texts \cup {Untitled}, auto : BOOLEAN]
    BY <1>2 DEF OpRecords
  <2>2. row' \in [text : Texts \cup {Untitled}, auto : BOOLEAN] BY <1>4, <2>1 DEF SessionInv, SessionTypes
  <2> QED BY <1>1, <2>2 DEF SessionInv, SessionTypes
<1>9. TaskTypes' BY <1>1 DEF SessionInv, TaskTypes
<1>10. OpsHeld' BY <1>1, <1>2, <1>3, <1>4, <1>5, <1>7 DEF OpsHeld
<1>11. UpdatesStand'
  <2> SUFFICES ASSUME NEW x \in Procs, op'[x].at \in {"storing", "stored"}
               PROVE  op'[x].rev = RevisionOf(op[x])' /\ (x \in Tasks => view.rev = tasks[x].rev)
    BY <1>1 DEF UpdatesStand
  <2>1. x = p BY <1>3, <1>7
  <2>2. RevisionOf(op[x])' = RevisionOf(s) BY <1>1, <1>5, <1>7, <2>1 DEF RevisionOf
  <2> QED BY <1>1, <1>5, <1>7, <2>1, <2>2 DEF SessionInv, UpdatesStand
<1>12. RowStands'
  <2>1. CASE at = "stored"
    <3>1. row' = [text |-> op'[p].text, auto |-> op'[p].auto] BY <1>4, <1>5, <1>7, <2>1
    <3>2. op'[p].at = "stored" /\ \A x \in Procs \ {p} : op'[x].at # "stored" BY <1>3, <1>5, <1>7, <2>1
    <3> QED BY <3>1, <3>2 DEF RowStands
  <2>2. CASE at = "over"
    <3>1. \A x \in Procs : op'[x].at # "stored" /\ op[x].at # "stored" BY <1>1, <1>3, <1>5, <1>7, <2>2
    <3> QED BY <1>1, <1>4, <2>2, <3>1 DEF SessionInv, RowStands
  <2> QED BY <2>1, <2>2
<1>13. InfoIsCurrent' BY <1>1 DEF SessionInv, InfoIsCurrent
<1> QED BY <1>8, <1>9, <1>10, <1>11, <1>12, <1>13 DEF SessionInv

(* The view takes the title over.                                          *)
LEMMA CommitTitleKeeps ==
  ASSUME SessionInv, NEW p \in Procs, CommitTitle(p)
  PROVE  SessionInv'
<1> DEFINE s == op[p]
           t == [s EXCEPT !.at = "over"]
           new == [view EXCEPT !.text = s.text, !.auto = s.auto, !.rev = s.rev]
<1>1. s.at = "stored" /\ UNCHANGED <<row, life, info, query, applied, run, ran, gate, asked>>
  BY DEF CommitTitle
<1>2. OpsHeld /\ s \in OpRecords /\ s # NoOp /\ view \in View
  BY <1>1, NothingIs DEF SessionInv, OpsHeld, SessionTypes
<1>3. gate = p /\ \A x \in Procs \ {p} : op[x] = NoOp /\ op[x].at = "idle" BY <1>2, GateAlone
<1>4. /\ new \in View /\ new.text = s.text /\ new.auto = s.auto /\ new.model = view.model
  BY <1>2 DEF View, OpRecords
<1>5. /\ life # "gone" => view' = new /\ current' = Nobody /\ tasks' = Cancelled
      /\ life = "gone" => UNCHANGED <<view, current, tasks>>
  BY DEF CommitTitle
<1>6. t \in OpRecords /\ t.at = "over" BY <1>2 DEF OpRecords
<1>7. op' = [op EXCEPT ![p] = t] BY DEF CommitTitle
<1>8. t # NoOp BY <1>6, NothingIs
<1> HIDE DEF t, new
<1>9. op' \in [Procs -> OpRecords] /\ op'[p] = t /\ \A x \in Procs \ {p} : op'[x] = op[x]
  BY <1>2, <1>6, <1>7 DEF OpsHeld
<1>10. SessionTypes'
  <2>1. view' \in View BY <1>2, <1>4, <1>5
  <2> QED BY <1>1, <2>1 DEF SessionInv, SessionTypes
<1>11. TaskTypes' /\ \A x \in Tasks : tasks'[x].at = tasks[x].at
  <2>1. CASE life # "gone" BY <1>5, <2>1, CancelledKeeps
  <2>2. CASE life = "gone" BY <1>5, <2>2 DEF SessionInv, TaskTypes
  <2> QED BY <2>1, <2>2
<1>12. OpsHeld'
  <2>1. \A x \in Procs : op'[x] # NoOp => gate' = x BY <1>1, <1>3, <1>9
  <2>2. ASSUME NEW x \in Tasks, op'[x] # NoOp PROVE tasks'[x].at = "storing" /\ op'[x].at # "configuring"
    <3>1. x = p BY <1>3, <1>9, <2>2, NobodyElse
    <3>2. tasks[x].at = "storing" BY <1>2, <2>2, <3>1 DEF OpsHeld
    <3> QED BY <1>6, <1>9, <1>11, <3>1, <3>2
  <2>3. \A x \in Procs : op'[x].at # "configuring" BY <1>3, <1>6, <1>9
  <2> QED BY <1>1, <1>2, <1>9, <2>1, <2>2, <2>3 DEF OpsHeld
<1>13. \A x \in Procs : op'[x].at \notin {"storing", "stored"} BY <1>3, <1>6, <1>9
<1>14. UpdatesStand' BY <1>13 DEF UpdatesStand
<1>15. RowStands'
  <2>1. row = [text |-> s.text, auto |-> s.auto] BY <1>1 DEF SessionInv, RowStands
  <2>2. life # "gone" => row' = [text |-> view'.text, auto |-> view'.auto] BY <1>1, <1>4, <1>5, <2>1
  <2> QED BY <1>1, <1>13, <2>2 DEF RowStands
<1>16. InfoIsCurrent' BY <1>1, <1>4, <1>5 DEF SessionInv, InfoIsCurrent
<1> QED BY <1>10, <1>11, <1>12, <1>14, <1>15, <1>16 DEF SessionInv

(* The gate is given back, by whoever has nothing more to store.           *)
LEMMA GateLeft ==
  ASSUME OpsHeld, NEW p \in Procs, op[p] # NoOp, op' = [op EXCEPT ![p] = NoOp], gate' = Nobody,
         \A t \in Tasks \ {p} : tasks'[t] = tasks[t]
  PROVE  OpsHeld' /\ \A x \in Procs : op'[x] = NoOp /\ op'[x].at = "idle"
<1>1. gate = p /\ \A x \in Procs \ {p} : op[x] = NoOp /\ op[x].at = "idle" BY GateAlone
<1>2. op' \in [Procs -> OpRecords] /\ \A x \in Procs : op'[x] = NoOp /\ op'[x].at = "idle"
  BY <1>1, NothingIs DEF OpsHeld
<1> QED BY <1>2, NobodyElse DEF OpsHeld

(* The caller is answered; the title task has ended.                       *)
LEMMA EndUpdateKeeps ==
  ASSUME SessionInv, NEW p \in Procs, EndUpdate(p)
  PROVE  SessionInv'
<1>1. /\ op[p].at = "over" /\ op' = [op EXCEPT ![p] = NoOp] /\ gate' = Nobody
      /\ UNCHANGED <<view, row, life, info, query, applied, run, ran, asked>>
  BY DEF EndUpdate, session
<1>2. OpsHeld /\ op[p] # NoOp BY <1>1, NothingIs DEF SessionInv
<1>3. \A x \in Procs \ {p} : op[x].at = "idle" BY <1>2, GateAlone
<1>4. TaskTypes' /\ \A t \in Tasks \ {p} : tasks'[t] = tasks[t]
  <2>1. CASE p \in Tasks
    <3>1. /\ tasks' = [tasks EXCEPT ![p].at = "ended"]
          /\ current' = IF current = p THEN Nobody ELSE current
      BY <2>1 DEF EndUpdate
    <3>2. TaskTypes /\ tasks[p] \in TaskRecords BY <2>1 DEF SessionInv, TaskTypes
    <3>3. [tasks[p] EXCEPT !.at = "ended"] \in TaskRecords BY <3>2 DEF TaskRecords
    <3>4. tasks' \in [Tasks -> TaskRecords] /\ \A t \in Tasks \ {p} : tasks'[t] = tasks[t]
      BY <3>1, <3>2, <3>3 DEF TaskTypes
    <3> QED BY <3>1, <3>2, <3>4 DEF TaskTypes
  <2>2. CASE p \notin Tasks
    <3>1. UNCHANGED <<tasks, current>> BY <2>2 DEF EndUpdate
    <3> QED BY <3>1 DEF SessionInv, TaskTypes
  <2> QED BY <2>1, <2>2
<1>5. OpsHeld' /\ \A x \in Procs : op'[x].at = "idle" BY <1>1, <1>2, <1>4, GateLeft
<1>6. SessionTypes' BY <1>1 DEF SessionInv, SessionTypes
<1>7. UpdatesStand' BY <1>5 DEF UpdatesStand
<1>8. RowStands' BY <1>1, <1>3, <1>5 DEF SessionInv, RowStands
<1>9. InfoIsCurrent' BY <1>1 DEF SessionInv, InfoIsCurrent
<1> QED BY <1>4, <1>5, <1>6, <1>7, <1>8, <1>9 DEF SessionInv
-----------------------------------------------------------------------------
(* What the host's answer, or its failure, makes of a view: the fields it  *)
(* does not concern are as they were.                                      *)
LEMMA InformedIs ==
  ASSUME NEW v \in View, NEW known \in BOOLEAN
  PROVE  LET w == Informed(v, known) IN
         /\ w \in View /\ w.text = v.text /\ w.auto = v.auto /\ w.rev = v.rev /\ w.model = v.model
         /\ \A f \in Fields \ {"names", "warning"} : w[f] = v[f]
<1>1. CASE known
  <2>1. Informed(v, known) = [v EXCEPT !.names = v.model, !.warning = FALSE] BY <1>1 DEF Informed
  <2> QED BY <2>1 DEF View, Fields
<1>2. CASE ~known
  <2>1. Informed(v, known) = [v EXCEPT !.warning = TRUE] BY <1>2 DEF Informed
  <2> QED BY <2>1 DEF View, Fields
<1> QED BY <1>1, <1>2

(* A new configuration of the model: a model that is another has a new     *)
(* revision.                                                               *)
LEMMA ConfiguredIs ==
  ASSUME NEW v \in View, NEW m \in Models, NEW known \in BOOLEAN
  PROVE  LET w == Configured(v, m, known) IN
         /\ w \in View /\ w.text = v.text /\ w.auto = v.auto /\ w.model = m
         /\ w.rev \in Nat /\ w.rev >= v.rev /\ (v.model # m => w.rev > v.rev)
         /\ \A f \in Fields \ {"names", "warning", "model", "rev"} : w[f] = v[f]
<1> DEFINE moved == IF v.model = m THEN v ELSE [v EXCEPT !.model = m, !.rev = v.rev + 1, !.names = Unnamed]
           told == Informed(moved, known)
           last == [told EXCEPT !.rev = told.rev + 1]
           w == Configured(v, m, known)
<1>1. v.rev \in Nat BY DEF View
<1>2. /\ moved \in View /\ moved.text = v.text /\ moved.auto = v.auto /\ moved.model = m
      /\ \A f \in Fields \ {"names", "warning", "model", "rev"} : moved[f] = v[f]
      /\ moved.rev = IF v.model = m THEN v.rev ELSE v.rev + 1
  <2>1. CASE v.model = m BY <2>1
  <2>2. CASE v.model # m
    <3> DEFINE u == [v EXCEPT !.model = m, !.rev = v.rev + 1, !.names = Unnamed]
    <3>1. v.rev + 1 \in Nat BY <1>1
    <3>2. u \in View /\ u.text = v.text /\ u.auto = v.auto /\ u.model = m /\ u.rev = v.rev + 1
      BY <3>1 DEF View
    <3>3. \A f \in Fields \ {"names", "warning", "model", "rev"} : u[f] = v[f] BY DEF View, Fields
    <3>4. moved = u BY <2>2
    <3> QED BY <2>2, <3>2, <3>3, <3>4
  <2> QED BY <2>1, <2>2
<1>3. w = IF told.rev = v.rev /\ told.names # v.names THEN last ELSE told BY DEF Configured
<1> HIDE DEF moved
<1>4. /\ told \in View /\ told.text = v.text /\ told.auto = v.auto /\ told.model = m /\ told.rev = moved.rev
      /\ \A f \in Fields \ {"names", "warning", "model", "rev"} : told[f] = v[f]
  BY <1>2, InformedIs
<1> HIDE DEF told
<1>5. told.rev \in Nat /\ told.rev >= v.rev /\ (v.model # m => told.rev > v.rev) BY <1>1, <1>2, <1>4
<1>6. /\ last \in View /\ last.text = v.text /\ last.auto = v.auto /\ last.model = m /\ last.rev = told.rev + 1
  BY <1>4, <1>5 DEF View
<1>7. \A f \in Fields \ {"names", "warning", "model", "rev"} : last[f] = v[f] BY <1>4 DEF View, Fields
<1> HIDE DEF last, w
<1>8. last.rev >= v.rev /\ (v.model # m => last.rev > v.rev) /\ last.rev \in Nat BY <1>1, <1>5, <1>6
<1>9. /\ w \in View /\ w.text = v.text /\ w.auto = v.auto /\ w.model = m
      /\ w.rev \in Nat /\ w.rev >= v.rev /\ (v.model # m => w.rev > v.rev)
      /\ \A f \in Fields \ {"names", "warning", "model", "rev"} : w[f] = v[f]
  <2>1. CASE w = told BY <1>4, <1>5, <2>1
  <2>2. CASE w = last BY <1>6, <1>7, <1>8, <2>2
  <2> QED BY <1>3, <2>1, <2>2
<1> QED BY <1>9 DEF w

-----------------------------------------------------------------------------
(* An answer of the host is taken over if nothing has come after its       *)
(* question; the title and its revision are not concerned.                 *)
LEMMA RefreshKeeps ==
  ASSUME SessionInv, NEW q \in asked, Refresh(q)
  PROVE  SessionInv'
<1>1. asked' = asked \ {q} /\ UNCHANGED <<row, life, query, run, ran, current, tasks, op, gate>>
  BY DEF Refresh, working
<1>2. SessionTypes BY DEF SessionInv
<1>3. view \in View /\ q \in Models \X (1..query) /\ query \in Nat BY <1>2 DEF SessionTypes
<1>4. /\ view' \in View /\ info' \in Models \cup {Unnamed} /\ applied' \in 0..query
      /\ view'.text = view.text /\ view'.auto = view.auto /\ view'.rev = view.rev /\ view'.model = view.model
      /\ info' # Unnamed => info' = view'.model
  <2>1. CASE life \in {"live", "frozen"} /\ CurrentQuery(q)
    <3>1. PICK known \in BOOLEAN :
            view' = Informed(view, known) /\ info' = InfoOf(q[1], known) /\ applied' = q[2]
      BY <2>1 DEF Refresh
    <3>2. q[1] \in Models /\ q[1] = view.model /\ q[2] = query BY <1>3, <2>1 DEF CurrentQuery
    <3>3. /\ view' \in View /\ view'.text = view.text /\ view'.auto = view.auto /\ view'.rev = view.rev
          /\ view'.model = view.model
      BY <1>3, <3>1, InformedIs
    <3>4. info' \in {q[1], Unnamed} BY <3>1 DEF InfoOf
    <3>5. applied' \in 0..query BY <1>3, <3>1, <3>2
    <3> QED BY <3>2, <3>3, <3>4, <3>5
  <2>2. CASE ~(life \in {"live", "frozen"} /\ CurrentQuery(q))
    <3>1. UNCHANGED <<view, info, applied>> BY <2>2 DEF Refresh
    <3> QED BY <1>2, <3>1 DEF SessionTypes, SessionInv, InfoIsCurrent
  <2> QED BY <2>1, <2>2
<1>5. SessionTypes'
  <2>1. asked' \subseteq Models \X (1..query) BY <1>1, <1>2 DEF SessionTypes
  <2> QED BY <1>1, <1>2, <1>4, <2>1 DEF SessionTypes
<1>6. TaskTypes' BY <1>1 DEF SessionInv, TaskTypes
<1>7. OpsHeld' BY <1>1 DEF SessionInv, OpsHeld
<1>8. UpdatesStand'
  <2> SUFFICES ASSUME NEW p \in Procs, op[p].at \in {"storing", "stored"}
               PROVE  op[p].rev = RevisionOf(op[p])' /\ (p \in Tasks => view'.rev = tasks[p].rev)
    BY <1>1 DEF UpdatesStand
  <2>1. RevisionOf(op[p])' = RevisionOf(op[p]) BY <1>1, <1>4 DEF RevisionOf
  <2> QED BY <1>4, <2>1 DEF SessionInv, UpdatesStand
<1>9. RowStands' BY <1>1, <1>4 DEF SessionInv, RowStands
<1>10. InfoIsCurrent' BY <1>4 DEF InfoIsCurrent
<1> QED BY <1>5, <1>6, <1>7, <1>8, <1>9, <1>10 DEF SessionInv

(* The three outcomes of a configuration for the view, the row and the     *)
(* model information.                                                      *)
LEMMA SetConfigIs ==
  ASSUME SessionInv, NEW c \in Callers, SetConfig(c)
  PROVE  \/ UNCHANGED <<view, row, info, applied, query>>
         \/ UNCHANGED <<view, row, info, applied>> /\ query' = query + 1
         \/ \E m \in Models, known \in BOOLEAN :
              /\ view' = Configured(view, m, known) /\ info' = InfoOf(m, known)
              /\ query' = query + 1 /\ applied' = query + 1
              /\ row' \in {row, [text |-> view.text, auto |-> view.auto]}
<1>1. PICK known \in BOOLEAN :
        LET new == Configured(view, op[c].model, known) IN
        \/ /\ life = "live" /\ op[c].rev = view.rev
           /\ view' = new /\ query' = query + 1 /\ applied' = query + 1
           /\ info' = InfoOf(op[c].model, known)
           /\ PublishBoth("config", "warning", new)
           /\ \/ row' = [text |-> view.text, auto |-> view.auto] /\ UNCHANGED faults
              \/ faults < MaxFaults /\ faults' = faults + 1 /\ UNCHANGED row
        \/ /\ life = "live" /\ op[c].rev = view.rev
           /\ faults < MaxFaults /\ faults' = faults + 1
           /\ query' = query + 1
           /\ UNCHANGED <<view, row, info, applied, watch>>
        \/ /\ life # "live" \/ op[c].rev # view.rev
           /\ UNCHANGED <<view, row, info, query, applied, watch, faults>>
  BY DEF SetConfig
<1>2. op[c].model \in Models BY NobodyElse DEF SetConfig, SessionInv, OpsHeld
<1> QED BY <1>1, <1>2

(* set_config_loaded: whatever its outcome, the gate is given back.        *)
LEMMA SetConfigKeeps ==
  ASSUME SessionInv, NEW c \in Callers, SetConfig(c)
  PROVE  SessionInv'
<1>1. /\ op[c].at = "configuring" /\ op' = [op EXCEPT ![c] = NoOp] /\ gate' = Nobody
      /\ UNCHANGED <<life, run, ran, current, tasks, asked>>
  BY DEF SetConfig, working
<1>2. OpsHeld /\ op[c] # NoOp /\ c \in Procs BY <1>1, NothingIs, NobodyElse DEF SessionInv
<1>3. \A x \in Procs : op[x].at # "stored" BY <1>1, <1>2, GateAlone
<1>4. OpsHeld' /\ \A x \in Procs : op'[x].at = "idle" BY <1>1, <1>2, GateLeft
<1>5. SessionTypes BY DEF SessionInv
<1>6. view \in View /\ query \in Nat /\ applied \in 0..query BY <1>5 DEF SessionTypes
<1>7. /\ view' \in View /\ view'.text = view.text /\ view'.auto = view.auto
      /\ row' \in {row, [text |-> view.text, auto |-> view.auto]}
      /\ info' \in Models \cup {Unnamed} /\ (info' # Unnamed => info' = view'.model)
      /\ query' \in {query, query + 1} /\ applied' \in 0..query'
  <2>1. CASE UNCHANGED <<view, row, info, applied, query>>
    BY <1>5, <2>1 DEF SessionInv, SessionTypes, InfoIsCurrent
  <2>2. CASE UNCHANGED <<view, row, info, applied>> /\ query' = query + 1
    <3>1. applied' \in 0..query' BY <1>6, <2>2
    <3> QED BY <1>5, <2>2, <3>1 DEF SessionInv, SessionTypes, InfoIsCurrent
  <2>3. ASSUME NEW m \in Models, NEW known \in BOOLEAN,
               view' = Configured(view, m, known), info' = InfoOf(m, known),
               query' = query + 1, applied' = query + 1,
               row' \in {row, [text |-> view.text, auto |-> view.auto]}
        PROVE  /\ view' \in View /\ view'.text = view.text /\ view'.auto = view.auto
               /\ info' \in Models \cup {Unnamed} /\ (info' # Unnamed => info' = view'.model)
               /\ applied' \in 0..query'
    <3>1. view' \in View /\ view'.text = view.text /\ view'.auto = view.auto /\ view'.model = m
      BY <1>6, <2>3, ConfiguredIs
    <3>2. info' \in {m, Unnamed} BY <2>3 DEF InfoOf
    <3>3. applied' \in 0..query' BY <1>6, <2>3
    <3> QED BY <3>1, <3>2, <3>3
  <2> QED BY <2>1, <2>2, <2>3, SetConfigIs
<1>8. SessionTypes'
  <2>1. query' \in Nat /\ 1..query \subseteq 1..query' BY <1>6, <1>7
  <2>2. asked' \subseteq Models \X (1..query') BY <1>1, <1>5, <2>1 DEF SessionTypes
  <2>3. row' \in [text : Texts \cup {Untitled}, auto : BOOLEAN] BY <1>5, <1>7 DEF SessionTypes, View
  <2> QED BY <1>1, <1>5, <1>7, <2>1, <2>2, <2>3 DEF SessionTypes
<1>9. TaskTypes' BY <1>1 DEF SessionInv, TaskTypes
<1>10. UpdatesStand' BY <1>4 DEF UpdatesStand
<1>11. RowStands' BY <1>1, <1>3, <1>4, <1>7 DEF SessionInv, RowStands
<1>12. InfoIsCurrent' BY <1>7 DEF InfoIsCurrent
<1> QED BY <1>4, <1>8, <1>9, <1>10, <1>11, <1>12 DEF SessionInv

(* An observer comes, and the host is asked for it.                        *)
LEMMA SubscribeKeeps ==
  ASSUME SessionInv, NEW o \in Watchers, Subscribe(o)
  PROVE  SessionInv'
<1>1. /\ query' = query + 1 /\ asked' = asked \cup {<<view.model, query + 1>>}
      /\ UNCHANGED <<view, row, life, info, applied, run, ran, current, tasks, op, gate>>
  BY DEF Subscribe, working
<1>2. SessionTypes /\ query \in Nat /\ view.model \in Models BY DEF SessionInv, SessionTypes, View
<1>3. SessionTypes'
  <2>1. /\ query' \in Nat /\ 1..query \subseteq 1..query' /\ query + 1 \in 1..query'
        /\ 0..query \subseteq 0..query'
    BY <1>1, <1>2
  <2>2. asked' \subseteq Models \X (1..query') BY <1>1, <1>2, <2>1 DEF SessionTypes
  <2> QED BY <1>1, <1>2, <2>1, <2>2 DEF SessionTypes
<1>4. TaskTypes' BY <1>1 DEF SessionInv, TaskTypes
<1>5. OpsHeld' BY <1>1 DEF SessionInv, OpsHeld
<1>6. UpdatesStand'
  <2>1. \A p \in Procs : RevisionOf(op[p])' = RevisionOf(op[p]) BY <1>1 DEF RevisionOf
  <2> QED BY <1>1, <2>1 DEF SessionInv, UpdatesStand
<1>7. RowStands' BY <1>1 DEF SessionInv, RowStands
<1>8. InfoIsCurrent' BY <1>1 DEF SessionInv, InfoIsCurrent
<1> QED BY <1>3, <1>4, <1>5, <1>6, <1>7, <1>8 DEF SessionInv
-----------------------------------------------------------------------------
(* Steps that concern only an observer, and a step of nobody.              *)
LEMMA SessionStands ==
  ASSUME SessionInv, UNCHANGED <<session, working, op, gate, asked>>
  PROVE  SessionInv'
<1>1. UNCHANGED <<view, row, life, info, query, applied, run, ran, current, tasks, op, gate, asked>>
  BY DEF session, working
<1>2. TaskTypes' BY <1>1 DEF SessionInv, TaskTypes
<1>3. run' \in BOOLEAN BY <1>1 DEF SessionInv, SessionTypes
<1>4. ran' \in Nat BY <1>1 DEF SessionInv, SessionTypes
<1> QED BY <1>1, <1>2, <1>3, <1>4, TasksOnly

(* Every step keeps the session's side of the invariant.                   *)
LEMMA SessionSteps ==
  ASSUME SessionInv, [Next]_vars
  PROVE  SessionInv'
<1>1. ASSUME NEW o \in Watchers, Subscribe(o) PROVE SessionInv' BY <1>1, SubscribeKeeps
<1>2. ASSUME NEW o \in Watchers, Unsubscribe(o) \/ Recv(o) \/ Woken(o) PROVE SessionInv'
  BY <1>2, SessionStands DEF Unsubscribe, Recv, Woken
<1>3. ASSUME NEW q \in asked, Refresh(q) PROVE SessionInv' BY <1>3, RefreshKeeps
<1>4. ASSUME NEW c \in Callers, AskConfig(c) \/ SetConfig(c) \/ SetTitle(c) PROVE SessionInv'
  BY <1>4, TakersKeep, SetConfigKeeps
<1>5. ASSUME NEW t \in Tasks, Regenerate(t) \/ TaskStep(t) PROVE SessionInv'
  BY <1>5, TaskStepsKeep, TakersKeep DEF TaskStep
<1>6. ASSUME NEW p \in Procs, Update(p) PROVE SessionInv'
  BY <1>6, StoreRowKeeps, CommitTitleKeeps, EndUpdateKeeps DEF Update
<1>7. CASE StartRun \/ EndRun BY <1>7, TaskStepsKeep
<1>8. CASE Freeze \/ Thaw \/ Delete \/ Cancel \/ Close BY <1>8, LifeKeeps
<1>9. CASE UNCHANGED vars BY <1>9, SessionStands DEF vars
<1> QED BY <1>1, <1>2, <1>3, <1>4, <1>5, <1>6, <1>7, <1>8, <1>9 DEF Next

-----------------------------------------------------------------------------
(* A title is committed where the update said; what it was asked at still  *)
(* holds, and a new title or switch has a new revision.                    *)
LEMMA CommitAsAsked ==
  ASSUME SessionInv, NEW p \in Procs, CommitTitle(p)
  PROVE  TitleAsAsked /\ RevisionTells /\ NewestInfo
<1> DEFINE s == op[p]
           new == [view EXCEPT !.text = s.text, !.auto = s.auto, !.rev = s.rev]
<1>1. s.at = "stored" /\ applied' = applied /\ (view' = new \/ view' = view) BY DEF CommitTitle
<1>2. s \in OpRecords /\ view \in View BY DEF SessionInv, OpsHeld, SessionTypes
<1>3. s.rev = IF view.text # s.text \/ view.auto # s.auto THEN view.rev + 1 ELSE view.rev
  BY <1>1 DEF SessionInv, UpdatesStand, RevisionOf
<1>4. view.rev \in Nat BY <1>2 DEF View
<1>5. /\ new.text = s.text /\ new.auto = s.auto /\ new.model = view.model /\ new.rev = s.rev
  BY <1>2 DEF View, OpRecords
<1> HIDE DEF new
<1>6. TitleAsAsked
  <2> SUFFICES ASSUME NEW t \in Tasks, op[t].at = "stored" PROVE view.rev = tasks[t].rev BY DEF TitleAsAsked
  <2> QED BY NobodyElse DEF SessionInv, UpdatesStand
<1>7. RevisionTells
  <2>1. CASE view' = view BY <1>4, <2>1 DEF RevisionTells
  <2>2. CASE view' = new
    <3>1. view'.rev >= view.rev BY <1>3, <1>4, <1>5, <2>2
    <3>2. ASSUME <<view.text, view.auto, view.model>> # <<view'.text, view'.auto, view'.model>>
          PROVE  view'.rev > view.rev
      <4>1. view.text # s.text \/ view.auto # s.auto BY <1>5, <2>2, <3>2
      <4>2. s.rev = view.rev + 1 BY <1>3, <4>1
      <4> QED BY <1>4, <1>5, <2>2, <4>2
    <3> QED BY <3>1, <3>2 DEF RevisionTells
  <2> QED BY <1>1, <2>1, <2>2
<1>8. NewestInfo BY <1>1 DEF SessionInv, SessionTypes, NewestInfo
<1> QED BY <1>6, <1>7, <1>8

(* Where nothing of it changes there is nothing to show.                   *)
LEMMA ViewStands ==
  ASSUME SessionInv, UNCHANGED <<view, applied>>
  PROVE  TitleAsAsked /\ RevisionTells /\ NewestInfo
<1>1. view.rev \in Nat /\ applied \in Nat BY DEF SessionInv, SessionTypes, View
<1>2. TitleAsAsked BY DEF TitleAsAsked
<1>3. RevisionTells BY <1>1 DEF RevisionTells
<1>4. NewestInfo BY <1>1 DEF NewestInfo
<1> QED BY <1>2, <1>3, <1>4

(* No step lets a late answer take effect over what came after it.         *)
LEMMA StepsAsAsked ==
  ASSUME SessionInv, [Next]_vars
  PROVE  [TitleAsAsked /\ RevisionTells /\ NewestInfo]_vars
<1>1. view \in View /\ query \in Nat /\ applied \in 0..query /\ view.rev \in Nat
  BY DEF SessionInv, SessionTypes, View
<1>2. \A t \in Tasks : op[t].at = "stored" => view.rev = tasks[t].rev
  BY NobodyElse DEF SessionInv, UpdatesStand
<1>3. TitleAsAsked BY <1>2 DEF TitleAsAsked
<1>4. ASSUME NEW q \in asked, Refresh(q) PROVE RevisionTells /\ NewestInfo
  <2>1. q \in Models \X (1..query) BY DEF SessionInv, SessionTypes
  <2>2. CASE life \in {"live", "frozen"} /\ CurrentQuery(q)
    <3>1. PICK known \in BOOLEAN : view' = Informed(view, known) /\ applied' = q[2] BY <1>4, <2>2 DEF Refresh
    <3>2. /\ view'.text = view.text /\ view'.auto = view.auto /\ view'.rev = view.rev
          /\ view'.model = view.model
      BY <1>1, <3>1, InformedIs
    <3>3. applied' = query BY <2>2, <3>1 DEF CurrentQuery
    <3>4. RevisionTells BY <1>1, <3>2 DEF RevisionTells
    <3>5. NewestInfo BY <1>1, <3>3 DEF NewestInfo
    <3> QED BY <3>4, <3>5
  <2>3. CASE ~(life \in {"live", "frozen"} /\ CurrentQuery(q))
    <3>1. UNCHANGED <<view, applied>> BY <1>4, <2>3 DEF Refresh
    <3> QED BY <3>1, ViewStands
  <2> QED BY <2>2, <2>3
<1>5. ASSUME NEW c \in Callers, SetConfig(c) PROVE RevisionTells /\ NewestInfo
  <2>1. CASE UNCHANGED <<view, applied>> BY <2>1, ViewStands
  <2>2. ASSUME NEW m \in Models, NEW known \in BOOLEAN,
               view' = Configured(view, m, known), applied' = query + 1
        PROVE  RevisionTells /\ NewestInfo
    <3>1. /\ view'.text = view.text /\ view'.auto = view.auto /\ view'.model = m
          /\ view'.rev \in Nat /\ view'.rev >= view.rev /\ (view.model # m => view'.rev > view.rev)
      BY <1>1, <2>2, ConfiguredIs
    <3>2. RevisionTells BY <3>1 DEF RevisionTells
    <3>3. NewestInfo BY <1>1, <2>2 DEF NewestInfo
    <3> QED BY <3>2, <3>3
  <2> QED BY <1>5, <2>1, <2>2, SetConfigIs
<1>6. ASSUME NEW p \in Procs, CommitTitle(p) PROVE RevisionTells /\ NewestInfo BY <1>6, CommitAsAsked
<1>7. ASSUME NEW p \in Procs, StoreRow(p) \/ EndUpdate(p) PROVE RevisionTells /\ NewestInfo
  BY <1>7, ViewStands DEF StoreRow, EndUpdate, session
<1>8. ASSUME NEW o \in Watchers, Subscribe(o) \/ Unsubscribe(o) \/ Recv(o) \/ Woken(o)
      PROVE  RevisionTells /\ NewestInfo
  BY <1>8, ViewStands DEF Subscribe, Unsubscribe, Recv, Woken, session
<1>9. ASSUME NEW c \in Callers, AskConfig(c) \/ SetTitle(c) PROVE RevisionTells /\ NewestInfo
  BY <1>9, ViewStands DEF AskConfig, SetTitle, session
<1>10. ASSUME NEW t \in Tasks, Regenerate(t) \/ TaskStep(t) PROVE RevisionTells /\ NewestInfo
  BY <1>10, ViewStands DEF Regenerate, TaskStep, Answer, StoreTitle, session
<1>11. CASE StartRun \/ EndRun \/ Freeze \/ Thaw \/ Delete \/ Cancel \/ Close
  BY <1>3, <1>11, ViewStands DEF StartRun, EndRun, Freeze, Thaw, Delete, Cancel, Close, session
<1> QED BY <1>3, <1>4, <1>5, <1>6, <1>7, <1>8, <1>9, <1>10, <1>11 DEF Next, Update

(* Titles, configuration and model information are changed only over what  *)
(* they were asked for, and each change has a new revision (index.rs,      *)
(* model_info.rs, title.rs).                                               *)
THEOREM LateAnswersStay == Spec => TitlesKept
<1>1. Init => SessionInv BY SessionStarts
<1>2. SessionInv /\ [Next]_vars => SessionInv' BY SessionSteps
<1>3. SessionInv /\ [Next]_vars => [TitleAsAsked /\ RevisionTells /\ NewestInfo]_vars BY StepsAsAsked
<1> QED BY <1>1, <1>2, <1>3, PTL DEF Spec, TitlesKept
(***************************************************************************)
(* What observers are told of the session.                                 *)
(***************************************************************************)

(* Events, and the parts of an observer; what it has been told is any copy *)
(* of the session's fields.                                                *)
EventRecords == [kind : {"ready", "title", "config", "warning", "deleted"}, of : View]
WatchTypes(w) ==
  /\ w = [at |-> w.at, queue |-> w.queue, lagged |-> w.lagged, closed |-> w.closed,
          permit |-> w.permit, seen |-> w.seen]
  /\ w.at \in {"unborn", "looking", "waiting", "lagged", "ended"}
  /\ w.queue \in Seq(EventRecords) /\ Len(w.queue) <= MaxQueue
  /\ w.lagged \in BOOLEAN /\ w.closed \in BOOLEAN /\ w.permit \in BOOLEAN

(* A field's last value in the queue, or else the one it has, is v's.      *)
Carries(w, f, i) == f \in Carried(w.queue[i].kind)
LastTold(w, f, v) ==
  \/ (\A i \in 1..Len(w.queue) : ~Carries(w, f, i)) /\ w.seen[f] = v[f]
  \/ \E i \in 1..Len(w.queue) :
       /\ Carries(w, f, i) /\ w.queue[i].of[f] = v[f]
       /\ \A j \in 1..Len(w.queue) : Carries(w, f, j) => j <= i

(* Of an observer that is read, with what the session shows and its life.  *)
InUse(w) == w.at \in {"looking", "waiting"}
NotAsleep(w) == w.at = "waiting" /\ ~w.permit => w.queue = <<>> /\ ~w.lagged /\ ~w.closed
WillSee(w, v) == InUse(w) /\ ~w.lagged => ~w.closed /\ \A f \in Fields : LastTold(w, f, v)
WatchKept(w, v, l) == WatchTypes(w) /\ NotAsleep(w) /\ (l # "gone" => WillSee(w, v))

WatchInv == DOMAIN watch = Watchers /\ \A o \in Watchers : WatchKept(watch[o], view, life)

-----------------------------------------------------------------------------
(* The last value told, as the property says it.                           *)
LEMMA LastToldIs ==
  ASSUME NEW w, NEW f, LastTold(w, f, view), Len(w.queue) \in Nat
  PROVE  ToldLast(w, f)
<1>1. CASE (\A i \in 1..Len(w.queue) : ~Carries(w, f, i)) /\ w.seen[f] = view[f]
  <2>1. Tells(w, f) = {} BY <1>1 DEF Tells, Carries
  <2> QED BY <1>1, <2>1 DEF ToldLast
<1>2. ASSUME NEW i \in 1..Len(w.queue), Carries(w, f, i), w.queue[i].of[f] = view[f],
             \A j \in 1..Len(w.queue) : Carries(w, f, j) => j <= i
      PROVE  ToldLast(w, f)
  <2>1. i \in Tells(w, f) /\ \A j \in Tells(w, f) : j <= i BY <1>2 DEF Tells, Carries
  <2>2. Tells(w, f) # {} BY <2>1
  <2> QED BY <1>2, <2>1, <2>2 DEF ToldLast
<1> QED BY <1>1, <1>2 DEF LastTold

(* One more event: what it carries is told, and the rest stays.            *)
LEMMA OneMoreEvent ==
  ASSUME NEW w, w.queue \in Seq(EventRecords), NEW e \in EventRecords, NEW v, NEW u,
         NEW t, t.queue = Append(w.queue, e), t.seen = w.seen,
         NEW f, LastTold(w, f, v), f \in Carried(e.kind) => e.of[f] = u[f], f \notin Carried(e.kind) => u[f] = v[f]
  PROVE  LastTold(t, f, u)
<1> DEFINE n == Len(w.queue)
<1>1. n \in Nat OBVIOUS
<1>2. Len(t.queue) = n + 1 /\ t.queue[n + 1] = e /\ \A i \in 1..n : t.queue[i] = w.queue[i]
  BY AppendProperties
<1>3. \A i \in 1..n : Carries(t, f, i) <=> Carries(w, f, i) BY <1>2 DEF Carries
<1>4. Carries(t, f, n + 1) <=> f \in Carried(e.kind) BY <1>2 DEF Carries
<1> HIDE DEF n
<1>5. 1..(n + 1) = 1..n \cup {n + 1} BY <1>1
<1>6. CASE f \in Carried(e.kind)
  <2>1. n + 1 \in 1..(n + 1) /\ \A j \in 1..(n + 1) : j <= n + 1 BY <1>1
  <2>2. Carries(t, f, n + 1) /\ t.queue[n + 1].of[f] = u[f] BY <1>2, <1>4, <1>6
  <2> QED BY <1>2, <2>1, <2>2 DEF LastTold
<1>7. CASE f \notin Carried(e.kind)
  <2>1. CASE (\A i \in 1..n : ~Carries(w, f, i)) /\ w.seen[f] = v[f]
    <3>1. \A i \in 1..(n + 1) : ~Carries(t, f, i) BY <1>3, <1>4, <1>5, <1>7, <2>1
    <3>2. t.seen[f] = u[f] BY <1>7, <2>1
    <3> QED BY <1>2, <3>1, <3>2 DEF LastTold
  <2>2. ASSUME NEW i \in 1..n, Carries(w, f, i), w.queue[i].of[f] = v[f],
               \A j \in 1..n : Carries(w, f, j) => j <= i
        PROVE  LastTold(t, f, u)
    <3>1. i \in 1..(n + 1) /\ Carries(t, f, i) /\ t.queue[i].of[f] = u[f] BY <1>2, <1>3, <1>5, <1>7, <2>2
    <3>2. \A j \in 1..(n + 1) : Carries(t, f, j) => j <= i BY <1>3, <1>4, <1>5, <1>7, <2>2
    <3> QED BY <1>2, <3>1, <3>2 DEF LastTold
  <2> QED BY <2>1, <2>2 DEF LastTold, n
<1> QED BY <1>6, <1>7

(* The first event is taken: what it carried is in the receiver's copy.    *)
LEMMA OneLessEvent ==
  ASSUME NEW w, w.queue \in Seq(EventRecords), w.queue # <<>>, NEW v,
         NEW t, t.queue = Tail(w.queue), t.seen = Told(w.seen, Head(w.queue)),
         NEW f \in Fields, LastTold(w, f, v)
  PROVE  LastTold(t, f, v)
<1> DEFINE n == Len(w.queue)
<1>1. n \in Nat /\ n > 0 /\ Head(w.queue) = w.queue[1] BY EmptySeq
<1>2. Len(t.queue) = n - 1 /\ \A i \in 1..(n - 1) : t.queue[i] = w.queue[i + 1]
  BY HeadTailProperties
<1>3. \A i \in 1..(n - 1) : Carries(t, f, i) <=> Carries(w, f, i + 1) BY <1>2 DEF Carries
<1>4. t.seen[f] = IF Carries(w, f, 1) THEN w.queue[1].of[f] ELSE w.seen[f] BY <1>1 DEF Told, Carries
<1> HIDE DEF n
<1>5. 1 \in 1..n /\ \A i \in 1..(n - 1) : i + 1 \in 1..n BY <1>1
<1>6. CASE (\A i \in 1..n : ~Carries(w, f, i)) /\ w.seen[f] = v[f]
  <2>1. \A i \in 1..(n - 1) : ~Carries(t, f, i) BY <1>3, <1>5, <1>6
  <2>2. t.seen[f] = v[f] BY <1>4, <1>5, <1>6
  <2> QED BY <1>2, <2>1, <2>2 DEF LastTold
<1>7. ASSUME NEW i \in 1..n, Carries(w, f, i), w.queue[i].of[f] = v[f],
             \A j \in 1..n : Carries(w, f, j) => j <= i
      PROVE  LastTold(t, f, v)
  <2>1. CASE i = 1
    <3>1. \A j \in 1..(n - 1) : ~Carries(t, f, j)
      <4> SUFFICES ASSUME NEW j \in 1..(n - 1), Carries(t, f, j) PROVE FALSE OBVIOUS
      <4>1. j + 1 <= 1 BY <1>3, <1>5, <1>7, <2>1
      <4> QED BY <4>1
    <3>2. t.seen[f] = v[f] BY <1>4, <1>7, <2>1
    <3> QED BY <1>2, <3>1, <3>2 DEF LastTold
  <2>2. CASE i # 1
    <3>1. i - 1 \in 1..(n - 1) /\ (i - 1) + 1 = i BY <1>1, <2>2
    <3>2. Carries(t, f, i - 1) /\ t.queue[i - 1].of[f] = v[f] BY <1>2, <1>3, <1>7, <3>1
    <3>3. ASSUME NEW j \in 1..(n - 1), Carries(t, f, j) PROVE j <= i - 1
      <4>1. j + 1 <= i BY <1>3, <1>5, <1>7, <3>3
      <4> QED BY <4>1
    <3> QED BY <1>2, <3>1, <3>2, <3>3 DEF LastTold
  <2> QED BY <2>1, <2>2
<1> QED BY <1>6, <1>7 DEF LastTold, n
-----------------------------------------------------------------------------
(* An observer that is told of an event sees the session as it is now, or  *)
(* knows that it has missed something.                                     *)
LEMMA PushKeeps ==
  ASSUME NEW w, WatchTypes(w), NotAsleep(w), NEW e \in EventRecords
  PROVE  LET t == Push(w, e) IN
         /\ WatchTypes(t) /\ NotAsleep(t)
         /\ \A v, u : /\ WillSee(w, v)
                      /\ \A f \in Fields : (f \in Carried(e.kind) => e.of[f] = u[f])
                                           /\ (f \notin Carried(e.kind) => u[f] = v[f])
                      => WillSee(t, u)
<1> DEFINE t == Push(w, e)
<1>1. Len(w.queue) \in Nat /\ MaxQueue \in Nat BY BoundsAssumption DEF WatchTypes
<1>2. CASE w.at = "unborn" \/ w.closed
  <2>1. t = w BY <1>2 DEF Push
  <2>2. \A v, u : WillSee(w, v) => WillSee(t, u) BY <1>2, <2>1 DEF WillSee, InUse
  <2> QED BY <2>1, <2>2
<1>3. CASE ~(w.at = "unborn" \/ w.closed) /\ Len(w.queue) >= MaxQueue
  <2>1. t = [w EXCEPT !.queue = <<>>, !.lagged = TRUE, !.closed = TRUE, !.permit = TRUE]
    BY <1>3 DEF Push
  <2>2. t = [at |-> w.at, queue |-> <<>>, lagged |-> TRUE, closed |-> TRUE, permit |-> TRUE, seen |-> w.seen]
    BY <2>1 DEF WatchTypes
  <2> HIDE DEF t
  <2>3. <<>> \in Seq(EventRecords) /\ Len(<<>>) = 0 OBVIOUS
  <2>4. WatchTypes(t) BY <1>1, <2>2, <2>3 DEF WatchTypes
  <2>5. NotAsleep(t) /\ \A u : WillSee(t, u) BY <2>2 DEF NotAsleep, WillSee
  <2> QED BY <2>4, <2>5 DEF t
<1>4. CASE ~(w.at = "unborn" \/ w.closed) /\ ~(Len(w.queue) >= MaxQueue)
  <2>1. t = [w EXCEPT !.queue = Append(w.queue, e), !.permit = TRUE] BY <1>4 DEF Push
  <2>2. t = [at |-> w.at, queue |-> Append(w.queue, e), lagged |-> w.lagged, closed |-> w.closed,
             permit |-> TRUE, seen |-> w.seen]
    BY <2>1 DEF WatchTypes
  <2> HIDE DEF t
  <2>3. w.queue \in Seq(EventRecords) BY DEF WatchTypes
  <2>4. Append(w.queue, e) \in Seq(EventRecords) /\ Len(Append(w.queue, e)) = Len(w.queue) + 1
    BY <2>3, AppendProperties
  <2>5. /\ t.at = w.at /\ t.queue = Append(w.queue, e) /\ t.lagged = w.lagged /\ t.closed = w.closed
        /\ t.permit = TRUE /\ t.seen = w.seen
    BY <2>2
  <2>6. WatchTypes(t)
    <3>1. Len(t.queue) <= MaxQueue BY <1>1, <1>4, <2>4, <2>5
    <3> QED BY <2>2, <2>4, <2>5, <3>1 DEF WatchTypes
  <2>7. NotAsleep(t) BY <2>5 DEF NotAsleep
  <2>8. ASSUME NEW v, NEW u, WillSee(w, v),
               \A f \in Fields : (f \in Carried(e.kind) => e.of[f] = u[f]) /\ (f \notin Carried(e.kind) => u[f] = v[f])
        PROVE  WillSee(t, u)
    <3> SUFFICES ASSUME InUse(t), ~t.lagged PROVE ~t.closed /\ \A f \in Fields : LastTold(t, f, u)
      BY DEF WillSee
    <3>1. InUse(w) /\ ~w.lagged BY <2>5 DEF InUse
    <3>2. ~w.closed /\ \A f \in Fields : LastTold(w, f, v) BY <2>8, <3>1 DEF WillSee
    <3>3. ASSUME NEW f \in Fields PROVE LastTold(t, f, u)
      BY <2>3, <2>5, <2>8, <3>2, OneMoreEvent
    <3> QED BY <2>5, <3>2, <3>3
  <2> QED BY <2>6, <2>7, <2>8 DEF t
<1> QED BY <1>2, <1>3, <1>4

(* An observer of a session that ends.                                     *)
LEMMA FinishKeeps ==
  ASSUME NEW w, WatchTypes(w), NotAsleep(w)
  PROVE  /\ WatchTypes(Finish(w)) /\ NotAsleep(Finish(w))
         /\ WatchTypes(Shut(w)) /\ NotAsleep(Shut(w))
<1>1. CASE w.at = "unborn"
  <2>1. Finish(w) = w BY <1>1 DEF Finish
  <2>2. Shut(w) = [at |-> w.at, queue |-> <<>>, lagged |-> w.lagged, closed |-> w.closed,
                   permit |-> w.permit, seen |-> w.seen]
    BY <2>1 DEF Shut, WatchTypes
  <2>3. <<>> \in Seq(EventRecords) /\ Len(<<>>) = 0 /\ MaxQueue \in Nat BY BoundsAssumption
  <2>4. WatchTypes(Shut(w)) BY <2>2, <2>3 DEF WatchTypes
  <2>5. NotAsleep(Shut(w)) BY <1>1, <2>2 DEF NotAsleep
  <2> QED BY <2>1, <2>4, <2>5
<1>2. CASE w.at # "unborn"
  <2>1. Finish(w) = [at |-> w.at, queue |-> w.queue, lagged |-> w.lagged, closed |-> TRUE,
                     permit |-> TRUE, seen |-> w.seen]
    BY <1>2 DEF Finish, WatchTypes
  <2>2. Shut(w) = [at |-> w.at, queue |-> <<>>, lagged |-> w.lagged, closed |-> TRUE,
                   permit |-> TRUE, seen |-> w.seen]
    <3> DEFINE r == Finish(w)
    <3>1. Shut(w) = [r EXCEPT !.queue = <<>>] BY DEF Shut
    <3>2. r = [at |-> w.at, queue |-> w.queue, lagged |-> w.lagged, closed |-> TRUE,
               permit |-> TRUE, seen |-> w.seen]
      BY <2>1
    <3> HIDE DEF r
    <3> QED BY <3>1, <3>2
  <2>3. <<>> \in Seq(EventRecords) /\ Len(<<>>) = 0 /\ MaxQueue \in Nat BY BoundsAssumption
  <2>4. WatchTypes(Shut(w)) BY <2>2, <2>3 DEF WatchTypes
  <2>5. WatchTypes(Finish(w)) BY <2>1 DEF WatchTypes
  <2>6. NotAsleep(Finish(w)) /\ NotAsleep(Shut(w)) BY <2>1, <2>2 DEF NotAsleep
  <2> QED BY <2>4, <2>5, <2>6
<1> QED BY <1>1, <1>2

-----------------------------------------------------------------------------
(* Where neither view nor observers change.                                *)
LEMMA WatchStands ==
  ASSUME WatchInv, UNCHANGED <<view, watch>>, life = "gone" => life' = "gone"
  PROVE  WatchInv'
<1> SUFFICES ASSUME NEW o \in Watchers PROVE WatchKept(watch[o], view, life)' BY DEF WatchInv
<1>1. WatchKept(watch[o], view, life) BY DEF WatchInv
<1>2. WatchKept(watch'[o], view', life') BY <1>1 DEF WatchKept
<1> QED BY <1>2 DEF WatchKept, WatchTypes, NotAsleep, WillSee, InUse, LastTold, Carries

(* An event of a new view that differs only in what the event carries.     *)
LEMMA PublishKeeps ==
  ASSUME WatchInv, NEW kind \in {"ready", "title", "config", "warning", "deleted"}, view' \in View,
         Publish(kind, view'), life' = life, \A f \in Fields \ Carried(kind) : view'[f] = view[f]
  PROVE  WatchInv'
<1> DEFINE e == [kind |-> kind, of |-> view']
<1>1. e \in EventRecords /\ e.kind = kind /\ e.of = view' BY DEF EventRecords
<1> SUFFICES ASSUME NEW o \in Watchers PROVE WatchKept(watch'[o], view', life')
  BY DEF WatchInv, Publish
<1>2. watch'[o] = Push(watch[o], e) BY DEF Publish
<1>3. WatchTypes(watch[o]) /\ NotAsleep(watch[o]) /\ (life # "gone" => WillSee(watch[o], view))
  BY DEF WatchInv, WatchKept
<1> HIDE DEF e
<1>4. \A f \in Fields : (f \in Carried(e.kind) => e.of[f] = view'[f]) /\ (f \notin Carried(e.kind) => view'[f] = view[f])
  BY <1>1
<1> QED BY <1>1, <1>2, <1>3, <1>4, PushKeeps DEF WatchKept

(* Two events of one new view.                                             *)
LEMMA PublishBothKeeps ==
  ASSUME WatchInv, NEW kind \in {"ready", "title", "config", "warning", "deleted"},
         NEW other \in {"ready", "title", "config", "warning", "deleted"}, view' \in View,
         PublishBoth(kind, other, view'), life' = life,
         \A f \in Fields \ (Carried(kind) \cup Carried(other)) : view'[f] = view[f]
  PROVE  WatchInv'
<1> DEFINE e == [kind |-> kind, of |-> view']
           g == [kind |-> other, of |-> view']
           u == [f \in Fields |-> IF f \in Carried(kind) THEN view'[f] ELSE view[f]]
<1>1. /\ e \in EventRecords /\ e.kind = kind /\ e.of = view'
      /\ g \in EventRecords /\ g.kind = other /\ g.of = view'
  BY DEF EventRecords
<1> SUFFICES ASSUME NEW o \in Watchers PROVE WatchKept(watch'[o], view', life')
  BY DEF WatchInv, PublishBoth
<1> DEFINE t == Push(watch[o], e)
<1>2. watch'[o] = Push(t, g) BY DEF PublishBoth
<1>3. WatchTypes(watch[o]) /\ NotAsleep(watch[o]) /\ (life # "gone" => WillSee(watch[o], view))
  BY DEF WatchInv, WatchKept
<1>4. \A f \in Fields : u[f] = IF f \in Carried(kind) THEN view'[f] ELSE view[f] OBVIOUS
<1> HIDE DEF e, g, u
<1>5. \A f \in Fields : (f \in Carried(e.kind) => e.of[f] = u[f]) /\ (f \notin Carried(e.kind) => u[f] = view[f])
  BY <1>1, <1>4
<1>6. WatchTypes(t) /\ NotAsleep(t) /\ (life # "gone" => WillSee(t, u)) BY <1>1, <1>3, <1>5, PushKeeps
<1>7. \A f \in Fields : (f \in Carried(g.kind) => g.of[f] = view'[f]) /\ (f \notin Carried(g.kind) => view'[f] = u[f])
  BY <1>1, <1>4
<1> HIDE DEF t
<1> QED BY <1>1, <1>2, <1>6, <1>7, PushKeeps DEF WatchKept
-----------------------------------------------------------------------------
(* A step of one observer.                                                 *)
LEMMA OneWatch ==
  ASSUME WatchInv, NEW o \in Watchers, NEW t, watch' = [watch EXCEPT ![o] = t], UNCHANGED <<view, life>>,
         WatchTypes(t), NotAsleep(t), life # "gone" => WillSee(t, view)
  PROVE  WatchInv'
<1>1. /\ DOMAIN watch' = Watchers /\ watch'[o] = t
      /\ \A x \in Watchers \ {o} : watch'[x] = watch[x]
  BY DEF WatchInv
<1>2. ASSUME NEW x \in Watchers PROVE WatchKept(watch'[x], view', life')
  <2>1. CASE x = o BY <1>1, <2>1 DEF WatchKept
  <2>2. CASE x # o BY <1>1, <2>2 DEF WatchInv
  <2> QED BY <2>1, <2>2
<1> QED BY <1>1, <1>2 DEF WatchInv

(* An observer looks at its queue once: it is told of a gap or of the      *)
(* first event, has come to its end, or goes to sleep on an empty queue.   *)
LEMMA RecvKeeps ==
  ASSUME WatchInv, NEW o \in Watchers, Recv(o)
  PROVE  WatchInv'
<1> DEFINE w == watch[o]
<1>1. w.at = "looking" /\ UNCHANGED <<view, life>> BY DEF Recv, session
<1>2. WatchTypes(w) /\ (life # "gone" => WillSee(w, view)) BY DEF WatchInv, WatchKept
<1>3. CASE w.lagged
  <2> DEFINE t == [w EXCEPT !.lagged = FALSE, !.at = "lagged"]
  <2>0. t = [w EXCEPT !.lagged = FALSE, !.at = "lagged"] OBVIOUS
  <2>1. watch' = [watch EXCEPT ![o] = t] BY <1>3 DEF Recv
  <2> HIDE DEF t
  <2>2. t = [at |-> "lagged", queue |-> w.queue, lagged |-> FALSE, closed |-> w.closed,
             permit |-> w.permit, seen |-> w.seen]
    BY <2>0, <1>2 DEF WatchTypes
  <2>3. WatchTypes(t) BY <1>2, <2>2 DEF WatchTypes
  <2>4. NotAsleep(t) /\ WillSee(t, view) BY <2>2 DEF NotAsleep, WillSee, InUse
  <2> QED BY <1>1, <2>1, <2>3, <2>4, OneWatch
<1>4. CASE ~w.lagged /\ w.queue # <<>>
  <2> DEFINE t == [w EXCEPT !.queue = Tail(w.queue), !.seen = Told(w.seen, Head(w.queue))]
  <2>0. t = [w EXCEPT !.queue = Tail(w.queue), !.seen = Told(w.seen, Head(w.queue))] OBVIOUS
  <2>1. watch' = [watch EXCEPT ![o] = t] BY <1>4 DEF Recv
  <2> HIDE DEF t
  <2>2. t = [at |-> w.at, queue |-> Tail(w.queue), lagged |-> w.lagged, closed |-> w.closed,
             permit |-> w.permit, seen |-> Told(w.seen, Head(w.queue))]
    BY <2>0, <1>2 DEF WatchTypes
  <2>3. w.queue \in Seq(EventRecords) BY <1>2 DEF WatchTypes
  <2>4. Tail(w.queue) \in Seq(EventRecords) /\ Len(Tail(w.queue)) = Len(w.queue) - 1
    BY <1>4, <2>3, HeadTailProperties
  <2>5. Len(w.queue) \in Nat /\ Len(w.queue) <= MaxQueue /\ MaxQueue \in Nat
    BY <1>2, <2>3, BoundsAssumption DEF WatchTypes
  <2>6. /\ t.at = w.at /\ t.queue = Tail(w.queue) /\ t.lagged = w.lagged /\ t.closed = w.closed
        /\ t.permit = w.permit /\ t.seen = Told(w.seen, Head(w.queue))
    BY <2>2
  <2>7. WatchTypes(t)
    <3>1. Len(t.queue) <= MaxQueue BY <2>4, <2>5, <2>6
    <3> QED BY <1>2, <2>2, <2>4, <2>6, <3>1 DEF WatchTypes
  <2>8. NotAsleep(t) BY <1>1, <2>6 DEF NotAsleep
  <2>9. ASSUME life # "gone" PROVE WillSee(t, view)
    <3>1. ~w.closed /\ \A f \in Fields : LastTold(w, f, view) BY <1>1, <1>2, <1>4, <2>9 DEF WillSee, InUse
    <3>2. ASSUME NEW f \in Fields PROVE LastTold(t, f, view) BY <1>4, <2>3, <2>6, <3>1, OneLessEvent
    <3> QED BY <2>6, <3>1, <3>2 DEF WillSee
  <2> QED BY <1>1, <2>1, <2>7, <2>8, <2>9, OneWatch
<1>5. ASSUME NEW at \in {"ended", "waiting"}, ~w.lagged, w.queue = <<>>, at = "waiting" => ~w.closed,
             watch' = [watch EXCEPT ![o] = [w EXCEPT !.at = at]]
      PROVE  WatchInv'
  <2> DEFINE t == [w EXCEPT !.at = at]
  <2>0. t = [w EXCEPT !.at = at] OBVIOUS
  <2>1. watch' = [watch EXCEPT ![o] = t] BY <1>5
  <2> HIDE DEF t
  <2>2. t = [at |-> at, queue |-> w.queue, lagged |-> w.lagged, closed |-> w.closed,
             permit |-> w.permit, seen |-> w.seen]
    BY <2>0, <1>2 DEF WatchTypes
  <2>3. WatchTypes(t) BY <1>2, <2>2 DEF WatchTypes
  <2>4. NotAsleep(t) BY <1>5, <2>2 DEF NotAsleep
  <2>5. ASSUME life # "gone" PROVE WillSee(t, view)
    <3>1. ~w.closed /\ \A f \in Fields : LastTold(w, f, view) BY <1>1, <1>2, <1>5, <2>5 DEF WillSee, InUse
    <3>2. t.queue = w.queue /\ t.seen = w.seen /\ t.closed = w.closed BY <2>2
    <3> QED BY <3>1, <3>2 DEF WillSee, LastTold, Carries
  <2> QED BY <1>1, <2>1, <2>3, <2>4, <2>5, OneWatch
<1>6. CASE ~w.lagged /\ w.queue = <<>> /\ w.closed
  <2>1. watch' = [watch EXCEPT ![o] = [w EXCEPT !.at = "ended"]] BY <1>6 DEF Recv
  <2> QED BY <1>5, <1>6, <2>1
<1>7. CASE ~w.lagged /\ w.queue = <<>> /\ ~w.closed
  <2>1. watch' = [watch EXCEPT ![o] = [w EXCEPT !.at = "waiting"]] BY <1>7 DEF Recv
  <2> QED BY <1>5, <1>7, <2>1
<1> QED BY <1>3, <1>4, <1>6, <1>7

(* An observer is woken, and looks again; or it leaves.                    *)
LEMMA WakeOrLeave ==
  ASSUME WatchInv, NEW o \in Watchers, Woken(o) \/ Unsubscribe(o)
  PROVE  WatchInv'
<1> DEFINE w == watch[o]
<1>1. UNCHANGED <<view, life>> BY DEF Woken, Unsubscribe, session
<1>2. WatchTypes(w) /\ (life # "gone" => WillSee(w, view)) BY DEF WatchInv, WatchKept
<1>3. CASE Woken(o)
  <2> DEFINE t == [w EXCEPT !.at = "looking", !.permit = FALSE]
  <2>0. t = [w EXCEPT !.at = "looking", !.permit = FALSE] OBVIOUS
  <2>1. w.at = "waiting" /\ watch' = [watch EXCEPT ![o] = t] BY <1>3 DEF Woken
  <2> HIDE DEF t
  <2>2. t = [at |-> "looking", queue |-> w.queue, lagged |-> w.lagged, closed |-> w.closed,
             permit |-> FALSE, seen |-> w.seen]
    BY <2>0, <1>2 DEF WatchTypes
  <2>3. WatchTypes(t) BY <1>2, <2>2 DEF WatchTypes
  <2>4. NotAsleep(t) BY <2>2 DEF NotAsleep
  <2>5. ASSUME life # "gone" PROVE WillSee(t, view)
    <3>1. t.queue = w.queue /\ t.seen = w.seen /\ t.closed = w.closed /\ t.lagged = w.lagged BY <2>2
    <3>2. InUse(w) BY <2>1 DEF InUse
    <3>3. ~w.lagged => ~w.closed /\ \A f \in Fields : LastTold(w, f, view) BY <1>2, <2>5, <3>2 DEF WillSee
    <3> QED BY <3>1, <3>3 DEF WillSee, LastTold, Carries
  <2> QED BY <1>1, <2>1, <2>3, <2>4, <2>5, OneWatch
<1>4. CASE Unsubscribe(o)
  <2> DEFINE t == [NoWatch EXCEPT !.at = "ended", !.closed = TRUE]
  <2>0. t = [NoWatch EXCEPT !.at = "ended", !.closed = TRUE] OBVIOUS
  <2>1. watch' = [watch EXCEPT ![o] = t] BY <1>4 DEF Unsubscribe
  <2> HIDE DEF t
  <2>2. t = [at |-> "ended", queue |-> <<>>, lagged |-> FALSE, closed |-> TRUE, permit |-> FALSE, seen |-> <<>>]
    BY <2>0 DEF NoWatch
  <2>3. <<>> \in Seq(EventRecords) /\ Len(<<>>) = 0 /\ MaxQueue \in Nat BY BoundsAssumption
  <2>4. WatchTypes(t) BY <2>2, <2>3 DEF WatchTypes
  <2>5. NotAsleep(t) /\ WillSee(t, view) BY <2>2 DEF NotAsleep, WillSee, InUse
  <2> QED BY <1>1, <2>1, <2>4, <2>5, OneWatch
<1> QED BY <1>3, <1>4

(* A new observer has a copy of the session as it is, and one event of it. *)
LEMMA SubscribeWatches ==
  ASSUME WatchInv, view \in View, NEW o \in Watchers, Subscribe(o)
  PROVE  WatchInv'
<1> DEFINE w == [NoWatch EXCEPT !.at = "looking", !.seen = view]
           e == [kind |-> "ready", of |-> view]
           t == Push(w, e)
<1>1. watch' = [watch EXCEPT ![o] = t] /\ UNCHANGED <<view, life>> BY DEF Subscribe
<1>0. w = [NoWatch EXCEPT !.at = "looking", !.seen = view] /\ e = [kind |-> "ready", of |-> view] OBVIOUS
<1> HIDE DEF w, e
<1>2. w = [at |-> "looking", queue |-> <<>>, lagged |-> FALSE, closed |-> FALSE, permit |-> FALSE, seen |-> view]
  BY <1>0 DEF NoWatch
<1>3. e \in EventRecords /\ e.of = view BY <1>0 DEF EventRecords
<1>4. <<>> \in Seq(EventRecords) /\ Len(<<>>) = 0 /\ MaxQueue \in Nat BY BoundsAssumption
<1>5. WatchTypes(w) BY <1>2, <1>4 DEF WatchTypes
<1>6. NotAsleep(w) BY <1>2 DEF NotAsleep
<1>7. WillSee(w, view)
  <2>1. w.queue = <<>> /\ w.seen = view /\ ~w.closed BY <1>2
  <2>2. \A f \in Fields : LastTold(w, f, view) BY <1>4, <2>1 DEF LastTold
  <2> QED BY <2>1, <2>2 DEF WillSee
<1>8. \A f \in Fields : (f \in Carried(e.kind) => e.of[f] = view[f]) /\ (f \notin Carried(e.kind) => view[f] = view[f])
  BY <1>3
<1>9. WatchTypes(t) /\ NotAsleep(t) /\ WillSee(t, view) BY <1>3, <1>5, <1>6, <1>7, <1>8, PushKeeps
<1> HIDE DEF t
<1> QED BY <1>1, <1>9, OneWatch
-----------------------------------------------------------------------------
(* What the events carry.                                                  *)
LEMMA CarriedAre ==
  /\ Carried("title") = {"text", "auto", "rev"}
  /\ Carried("config") \cup Carried("warning") = {"model", "names", "rev", "warning"}
  /\ Carried("warning") = {"names", "warning"}
BY DEF Carried

(* Every step keeps what the observers see.                                *)
LEMMA WatchSteps ==
  ASSUME SessionInv, WatchInv, [Next]_vars
  PROVE  WatchInv'
<1>1. view \in View /\ view' \in View BY SessionSteps DEF SessionInv, SessionTypes
<1>2. ASSUME NEW o \in Watchers, Subscribe(o) \/ Unsubscribe(o) \/ Recv(o) \/ Woken(o) PROVE WatchInv'
  BY <1>1, <1>2, SubscribeWatches, WakeOrLeave, RecvKeeps
<1>3. ASSUME NEW q \in asked, Refresh(q) PROVE WatchInv'
  <2>1. life' = life BY <1>3 DEF Refresh
  <2>2. CASE life \in {"live", "frozen"} /\ CurrentQuery(q)
    <3>1. PICK known \in BOOLEAN : view' = Informed(view, known) /\ Publish("warning", view')
      BY <1>3, <2>2 DEF Refresh
    <3>2. \A f \in Fields \ Carried("warning") : view'[f] = view[f] BY <1>1, <3>1, InformedIs, CarriedAre
    <3> QED BY <1>1, <2>1, <3>1, <3>2, PublishKeeps
  <2>3. CASE ~(life \in {"live", "frozen"} /\ CurrentQuery(q))
    <3>1. UNCHANGED <<view, watch>> BY <1>3, <2>3 DEF Refresh
    <3> QED BY <2>1, <3>1, WatchStands
  <2> QED BY <2>2, <2>3
<1>4. ASSUME NEW c \in Callers, SetConfig(c) PROVE WatchInv'
  <2>1. life' = life BY <1>4 DEF SetConfig
  <2>2. CASE UNCHANGED <<view, watch>> BY <2>1, <2>2, WatchStands
  <2>3. ASSUME NEW known \in BOOLEAN, view' = Configured(view, op[c].model, known),
               PublishBoth("config", "warning", view')
        PROVE  WatchInv'
    <3>1. op[c].model \in Models BY <1>4, NobodyElse DEF SetConfig, SessionInv, OpsHeld
    <3>2. \A f \in Fields \ {"names", "warning", "model", "rev"} : view'[f] = view[f]
      BY <1>1, <2>3, <3>1, ConfiguredIs
    <3>3. \A f \in Fields \ (Carried("config") \cup Carried("warning")) : view'[f] = view[f]
      BY <3>2, CarriedAre
    <3> QED BY <1>1, <2>1, <2>3, <3>3, PublishBothKeeps
  <2> QED BY <1>4, <2>2, <2>3 DEF SetConfig
<1>5. ASSUME NEW p \in Procs, CommitTitle(p) PROVE WatchInv'
  <2> DEFINE new == [view EXCEPT !.text = op[p].text, !.auto = op[p].auto, !.rev = op[p].rev]
  <2>1. life' = life BY <1>5 DEF CommitTitle
  <2>2. CASE life # "gone"
    <3>1. view' = new /\ Publish("title", view') BY <1>5, <2>2 DEF CommitTitle
    <3>2. \A f \in Fields \ {"text", "auto", "rev"} : new[f] = view[f] BY <1>1 DEF View, Fields
    <3> HIDE DEF new
    <3>3. \A f \in Fields \ Carried("title") : view'[f] = view[f] BY <3>1, <3>2, CarriedAre
    <3> QED BY <1>1, <2>1, <3>1, <3>3, PublishKeeps
  <2>3. CASE life = "gone"
    <3>1. UNCHANGED <<view, watch>> BY <1>5, <2>3 DEF CommitTitle
    <3> QED BY <2>1, <3>1, WatchStands
  <2> QED BY <2>2, <2>3
<1>6. ASSUME NEW p \in Procs, StoreRow(p) \/ EndUpdate(p) PROVE WatchInv'
  BY <1>6, WatchStands DEF StoreRow, EndUpdate, session
<1>7. ASSUME NEW c \in Callers, AskConfig(c) \/ SetTitle(c) PROVE WatchInv'
  BY <1>7, WatchStands DEF AskConfig, SetTitle, session
<1>8. ASSUME NEW t \in Tasks, Regenerate(t) \/ TaskStep(t) PROVE WatchInv'
  BY <1>8, WatchStands DEF Regenerate, TaskStep, Answer, StoreTitle, session
<1>9. CASE StartRun \/ EndRun \/ Freeze \/ Thaw \/ Cancel
  BY <1>9, WatchStands DEF StartRun, EndRun, Freeze, Thaw, Cancel, session
<1>10. CASE Delete
  <2> DEFINE e == [kind |-> "deleted", of |-> view]
  <2>1. life' = "gone" /\ watch' = [o \in Watchers |-> Finish(Push(watch[o], e))] BY <1>10 DEF Delete
  <2>2. e \in EventRecords BY <1>1 DEF EventRecords
  <2> HIDE DEF e
  <2>3. ASSUME NEW o \in Watchers PROVE WatchTypes(watch'[o]) /\ NotAsleep(watch'[o])
    <3>1. WatchTypes(watch[o]) /\ NotAsleep(watch[o]) BY DEF WatchInv, WatchKept
    <3> DEFINE w == Push(watch[o], e)
    <3>2. WatchTypes(w) /\ NotAsleep(w) BY <2>2, <3>1, PushKeeps
    <3>3. watch'[o] = Finish(w) BY <2>1
    <3> HIDE DEF w
    <3> QED BY <3>2, <3>3, FinishKeeps
  <2> QED BY <2>1, <2>3 DEF WatchInv, WatchKept
<1>11. CASE Close
  <2>1. life' = "gone" /\ watch' = [o \in Watchers |-> Shut(watch[o])] BY <1>11 DEF Close
  <2>2. ASSUME NEW o \in Watchers PROVE WatchTypes(watch'[o]) /\ NotAsleep(watch'[o])
    <3>1. WatchTypes(watch[o]) /\ NotAsleep(watch[o]) BY DEF WatchInv, WatchKept
    <3> QED BY <2>1, <3>1, FinishKeeps
  <2> QED BY <2>1, <2>2 DEF WatchInv, WatchKept
<1>12. CASE UNCHANGED vars BY <1>12, WatchStands DEF vars, session
<1> QED BY <1>2, <1>3, <1>4, <1>5, <1>6, <1>7, <1>8, <1>9, <1>10, <1>11, <1>12 DEF Next, Update

(* No observers.                                                           *)
LEMMA WatchStarts == Init => WatchInv
<1> SUFFICES ASSUME Init PROVE WatchInv OBVIOUS
<1>1. DOMAIN watch = Watchers /\ \A o \in Watchers : watch[o] = NoWatch BY DEF Init
<1>2. <<>> \in Seq(EventRecords) /\ Len(<<>>) = 0 /\ MaxQueue \in Nat BY BoundsAssumption
<1>3. WatchTypes(NoWatch) BY <1>2 DEF NoWatch, WatchTypes
<1>4. NotAsleep(NoWatch) /\ WillSee(NoWatch, view) BY DEF NoWatch, NotAsleep, WillSee, InUse
<1> QED BY <1>1, <1>3, <1>4 DEF WatchInv, WatchKept

(* The invariants say what is stated of a session's views.                 *)
LEMMA ViewsMean == SessionInv /\ WatchInv => ViewsKept
<1> SUFFICES ASSUME SessionInv, WatchInv PROVE ViewsKept OBVIOUS
<1>1. TypeOK
  <2>1. SessionTypes /\ TaskTypes BY DEF SessionInv
  <2>2. gate \in Procs \cup {Nobody} BY DEF SessionInv, OpsHeld
  <2>3. \A o \in Watchers : Len(watch[o].queue) <= MaxQueue BY DEF WatchInv, WatchKept, WatchTypes
  <2> QED BY <2>1, <2>2, <2>3 DEF TypeOK, SessionTypes, TaskTypes
<1>2. RowIsView
  <2> SUFFICES ASSUME gate = Nobody, life # "gone" PROVE row = [text |-> view.text, auto |-> view.auto]
    BY DEF RowIsView
  <2>1. \A p \in Procs : op[p].at = "idle" BY GateFree DEF SessionInv
  <2> QED BY <2>1 DEF SessionInv, RowStands
<1>3. InfoIsCurrent BY DEF SessionInv
<1>4. ShownIsView
  <2> SUFFICES ASSUME NEW o \in Watchers, watch[o].at \in {"looking", "waiting"}, ~watch[o].lagged, life # "gone",
                      NEW f \in Fields
               PROVE  ToldLast(watch[o], f)
    BY DEF ShownIsView
  <2>1. WatchTypes(watch[o]) /\ WillSee(watch[o], view) BY DEF WatchInv, WatchKept
  <2>2. LastTold(watch[o], f, view) BY <2>1 DEF WillSee, InUse
  <2>3. Len(watch[o].queue) \in Nat BY <2>1 DEF WatchTypes
  <2> QED BY <2>2, <2>3, LastToldIs
<1>5. WatcherAwake BY DEF WatchInv, WatchKept, NotAsleep, WatcherAwake
<1> QED BY <1>1, <1>2, <1>3, <1>4, <1>5 DEF ViewsKept

(* What is stored, shown and told of a session agree: the row is the view, *)
(* the model information is the model's, and an observer that was not told *)
(* of a gap will have what the session shows (index.rs, events.rs).        *)
THEOREM WhatIsShown == Spec => []ViewsKept
<1>1. Init => SessionInv /\ WatchInv BY SessionStarts, WatchStarts
<1>2. SessionInv /\ WatchInv /\ [Next]_vars => (SessionInv /\ WatchInv)' BY SessionSteps, WatchSteps
<1>3. SessionInv /\ WatchInv => ViewsKept BY ViewsMean
<1> QED BY <1>1, <1>2, <1>3, PTL DEF Spec
=============================================================================
