---------------------------- MODULE MCMessages ----------------------------
(* Every class is tried, with a number of two bytes, a negative one, an empty*)
(* text, one that is not UTF-8, and the float whose bits are not zero's.    *)
EXTENDS Messages
MCKinds  == Classes
MCInts   == {300, -1}
MCTexts  == {"", "kabi", "bad"}
MCFloats == {"1", "-0"}
=============================================================================
