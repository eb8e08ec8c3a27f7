----------------------------- MODULE ChannelFeed -----------------------------
(***************************************************************************)
(* What a channel promises to those who read its published state (display,  *)
(* global logic, events): within an epoch, which begins when the channel    *)
(* comes online, each path shows newer and newer frames and never goes back; *)
(* while the channel is offline nothing is shown.                           *)
(***************************************************************************)
EXTENDS Integers

CONSTANT MaxFrames

VARIABLES online, shown, newest, epoch

feed_vars == <<online, shown, newest, epoch>>

Paths   == {"infer", "logic"}
Nothing == [path |-> "none", seq |-> 0]

Init ==
    /\ online = TRUE
    /\ shown = Nothing
    /\ newest = [infer |-> 0, logic |-> 0]
    /\ epoch = 0

(* A path shows a frame newer than every frame it has shown before.         *)
Show(path, seq) ==
    /\ online = TRUE
    /\ seq > newest[path]
    /\ shown' = [path |-> path, seq |-> seq]
    /\ newest' = [newest EXCEPT ![path] = seq]
    /\ UNCHANGED <<online, epoch>>

Clear ==
    /\ shown' = Nothing
    /\ UNCHANGED <<online, newest, epoch>>

GoOffline ==
    /\ online' = FALSE
    /\ shown' = Nothing
    /\ UNCHANGED <<newest, epoch>>

GoOnline ==
    /\ online' = TRUE
    /\ shown' = Nothing
    /\ epoch' = epoch + 1
    /\ UNCHANGED newest

Next ==
    \/ \E path \in Paths, seq \in 1..MaxFrames : Show(path, seq)
    \/ Clear
    \/ GoOffline
    \/ GoOnline

Spec == Init /\ [][Next]_feed_vars

=============================================================================
