-------------------------- MODULE MCInferenceReload --------------------------
(* Model-checking instances of InferenceReload.                              *)
EXTENDS InferenceReload, TLC

(* A channel with one worker, one without inference, one with two workers.   *)
ThreeChannels == 0 :> 1 @@ 1 :> 0 @@ 2 :> 2

(* A channel with one worker and a channel with two.                         *)
TwoChannels == 0 :> 1 @@ 1 :> 2

=============================================================================
