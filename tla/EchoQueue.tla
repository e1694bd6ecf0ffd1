------------------------------ MODULE EchoQueue ------------------------------
(***************************************************************************)
(* What newrpc/router3.cpp promises of the messages it accepts: each comes *)
(* back once, unchanged, in the order they were accepted, and no more than *)
(* Room of them are under way.                                             *)
(***************************************************************************)
EXTENDS Integers, Sequences

CONSTANTS Messages,   \* what may be accepted
          Room        \* how many may be under way

VARIABLES accepted,   \* history: the messages accepted
          echoed      \* history: the messages sent back

vars == <<accepted, echoed>>

Init == accepted = <<>> /\ echoed = <<>>

Accept == /\ Len(accepted) - Len(echoed) < Room
          /\ \E m \in Messages : accepted' = Append(accepted, m)
          /\ UNCHANGED echoed

Echo == /\ Len(echoed) < Len(accepted)
        /\ echoed' = Append(echoed, accepted[Len(echoed) + 1])
        /\ UNCHANGED accepted

Next == Accept \/ Echo

Spec == Init /\ [][Next]_vars

\* Nothing that was accepted is kept for good.
Progress == WF_vars(Echo)
==============================================================================
