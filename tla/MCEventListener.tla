--------------------------- MODULE MCEventListener ---------------------------
(* Instances of EventListener for TLC. *)
EXTENDS EventListener
=============================================================================
