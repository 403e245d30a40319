--------------------------- MODULE MCShmBroadcast ---------------------------
(* Two readers and a ring of two chunks, one lap and a half of messages; the  *)
(* values are in the configuration.                                          *)
EXTENDS ShmBroadcast
=============================================================================
