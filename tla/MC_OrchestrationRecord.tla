------------------------ MODULE MC_OrchestrationRecord ------------------------
(* One child on the backend with the sequential gate and one without. *)
EXTENDS OrchestrationRecord
=============================================================================
