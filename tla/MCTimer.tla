------------------------------ MODULE MCTimer ------------------------------
(* Two timerEvents for TLC; the first is the repeated one.                   *)
EXTENDS Timer

CONSTANTS first, second

MCEvents   == {first, second}
MCRepeated == {first}
MCInterval == [e \in MCEvents |-> IF e = first THEN 1 ELSE 2]
=============================================================================
