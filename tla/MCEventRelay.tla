---------------------------- MODULE MCEventRelay ----------------------------
(* EventRelay on the small instance of the cfg file.                       *)
EXTENDS EventRelay

=============================================================================
