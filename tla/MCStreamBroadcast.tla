------------------------- MODULE MCStreamBroadcast -------------------------
(* TLC instances of StreamBroadcast: two phones that share the application's
   client id, and other clients with ids of their own. *)
EXTENDS StreamBroadcast, TLC

CONSTANTS phone1, phone2, console, app, own

SharedId == [s \in Sessions |-> IF s \in {phone1, phone2} THEN app ELSE own]
=============================================================================
