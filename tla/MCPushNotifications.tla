------------------------- MODULE MCPushNotifications -------------------------
(***************************************************************************)
(* Instance of PushNotifications for TLC.                                  *)
(***************************************************************************)
EXTENDS PushNotifications
=============================================================================
