------------------------------ MODULE MCStream ------------------------------
(* Streams of every kind of client; the one with the most rules of its own *)
(* gets the longest.                                                       *)
EXTENDS StreamSession

Longest == [c \in Clients |-> IF c = "python" THEN 3 ELSE 2]
=============================================================================
