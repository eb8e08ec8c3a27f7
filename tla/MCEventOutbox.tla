---------------------------- MODULE MCEventOutbox ----------------------------
(* The receivers of the runs: one that wants the picture and one that wants *)
(* the video; an event goes to all of them or is only kept.                 *)
EXTENDS EventOutbox

MCNeeds == [d \in Deliveries |-> IF d = "photo" THEN {"image"} ELSE {"video"}]
MCTargetSets == {{}, Deliveries}
=============================================================================
