-------------------------------- MODULE Gateway --------------------------------
(***************************************************************************)
(* The Rust side of the gateway as a whole: calls, streams and events share *)
(* owners and their instances, and no state besides.                       *)
(***************************************************************************)
EXTENDS Calls, Streams, Events

(* Nothing late is handed out: no result of a call, and no chunk of a      *)
(* stream, whose owner was replaced or which was told to stop.             *)
NoLate == NoLateResult /\ NoLateChunk
=============================================================================
