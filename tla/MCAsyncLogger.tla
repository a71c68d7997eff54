--------------------------- MODULE MCAsyncLogger ---------------------------
(* Two producers, of which one logs twice: a file can be over its limit      *)
(* twice, and lines of two threads mix.                                      *)
EXTENDS AsyncLogger, TLC
CONSTANTS p1, p2
MCProducers == {p1, p2}
MCMaxLines  == p1 :> 2 @@ p2 :> 1
=============================================================================
