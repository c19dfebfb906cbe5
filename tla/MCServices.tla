----------------------------- MODULE MCServices -----------------------------
(***************************************************************************)
(* An instance of Services: two workers, two requests and a queue of one;  *)
(* one scheduler thread with two tasks of different periods.               *)
(***************************************************************************)
EXTENDS Services, TLC

CONSTANTS dump, poll

MCDelay == (dump :> 2) @@ (poll :> 1)

=============================================================================
