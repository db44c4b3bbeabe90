------------------------------- MODULE MCViews -------------------------------
(* Titles and the delivery of questions share no state: a behaviour is one *)
(* of the two, chosen at the start, so one run explores both and never     *)
(* their product.                                                          *)
EXTENDS Titles, Delivery

CONSTANTS c1, t1, t2, o1

VARIABLE part

MCInit == part \in {"titles", "delivery"} /\ Init /\ DeliveryInit
MCNext ==
  /\ UNCHANGED part
  /\ \/ part = "titles" /\ Next /\ UNCHANGED dvars
     \/ part = "delivery" /\ DeliveryNext /\ UNCHANGED vars
MCSpec == MCInit /\ [][MCNext]_<<part, vars, dvars>>

(* The first client replaces its observer; the second has one in between.  *)
MCCaller == [o \in Streams |-> IF o = 2 THEN "c2" ELSE "c1"]
=============================================================================
