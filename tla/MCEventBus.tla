----------------------------- MODULE MCEventBus -----------------------------
(* Instances of EventBus; the channel keeps two messages so that lagging   *)
(* happens within the bound on events.                                     *)
EXTENDS EventBus
CONSTANTS a1, a2, f1, s1, s2
=============================================================================
