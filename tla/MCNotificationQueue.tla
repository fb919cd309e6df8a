------------------------ MODULE MCNotificationQueue ------------------------
(* NotificationQueue for TLC. *)
EXTENDS NotificationQueue
=============================================================================
