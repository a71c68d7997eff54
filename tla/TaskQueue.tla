----------------------------- MODULE TaskQueue -----------------------------
(* What an event loop promises to those who call add_task: every closure is *)
(* run, one at a time, in the order of the calls, each exactly once.         *)
(* EventLoop.tla is shown to implement this specification until the first    *)
(* overlap of two critical sections, the moment `broken' becomes TRUE.       *)
EXTENDS Sequences

CONSTANTS Task,    \* the closures that can be handed to add_task
          NoTask   \* not a closure: the loop runs none

VARIABLES pending,  \* closures handed over and not yet run, oldest first
          running,  \* the closure being run, or NoTask
          broken    \* the implementation no longer promises anything

vars == <<pending, running, broken>>

Init == /\ pending = <<>>
        /\ running = NoTask
        /\ broken = FALSE

Post == /\ ~broken'
        /\ \E t \in Task : pending' = Append(pending, t)
        /\ UNCHANGED running

Run == /\ ~broken'
       /\ pending # <<>>
       /\ running' = Head(pending)
       /\ pending' = Tail(pending)

Finish == /\ ~broken'
          /\ running' = NoTask
          /\ UNCHANGED pending

Break == broken'

Next == \/ ~broken /\ (Post \/ Run \/ Finish)
        \/ Break

Spec == Init /\ [][Next]_vars
=============================================================================
