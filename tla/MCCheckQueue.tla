---------------------------- MODULE MCCheckQueue ----------------------------
(* Instance of CheckQueue for TLC.  Four checks are the fewest for which   *)
(* a thread takes two at once (BatchNow).                                  *)
EXTENDS CheckQueue

=============================================================================
