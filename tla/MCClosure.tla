------------------------------- MODULE MCClosure -------------------------------
(* The instance of ClosureWalk that TLC checks: a loop in each of two            *)
(* conversations, the second one older than a check for new mail.               *)
EXTENDS ClosureWalk, TLC

CONSTANTS a, b, c, d

MCThread == a :> c @@ b :> d
MCAt == a :> 0 @@ b :> 1
===============================================================================
