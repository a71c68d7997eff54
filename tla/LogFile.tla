------------------------------ MODULE LogFile ------------------------------
(* What push_log promises: every line that was pushed gets into the log      *)
(* files once, in the order of the pushes.                                   *)
EXTENDS Naturals, Sequences

CONSTANT Lines
VARIABLES
    accepted,   \* the lines pushed so far
    written     \* the lines in the files, oldest first

Init == accepted = <<>> /\ written = <<>>

Push(line) ==
    /\ accepted' = Append(accepted, line)
    /\ UNCHANGED written

Write ==
    /\ \E k \in Len(written) + 1 .. Len(accepted) :
          written' = SubSeq(accepted, 1, k)
    /\ UNCHANGED accepted

Next == Write \/ \E line \in Lines : Push(line)

Spec == Init /\ [][Next]_<<accepted, written>>
=============================================================================
