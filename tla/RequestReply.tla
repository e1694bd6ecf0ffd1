----------------------------- MODULE RequestReply -----------------------------
(***************************************************************************)
(* The promise of the request-reply stack of rpc/: a client asks one       *)
(* request at a time, and the next thing it hears is the answer to it.     *)
(***************************************************************************)
EXTENDS Sequences

CONSTANTS Clients, Requests,
          Answers    \* the answer each request is to have: [request, reply]

VARIABLES asking,    \* for each client: the request it waits on, or none
          heard      \* for each client: the replies it has got

vars == <<asking, heard>>

Init == /\ asking = [c \in Clients |-> <<>>]
        /\ heard = [c \in Clients |-> <<>>]

Ask(c) == /\ asking[c] = <<>>
          /\ \E request \in Requests : asking' = [asking EXCEPT ![c] = request]
          /\ UNCHANGED heard

Answer(c) == /\ asking[c] # <<>>
             /\ \E a \in Answers :
                  /\ a.request = asking[c]
                  /\ heard' = [heard EXCEPT ![c] = Append(@, a.reply)]
             /\ asking' = [asking EXCEPT ![c] = <<>>]

Next == \E c \in Clients : Ask(c) \/ Answer(c)

Spec == Init /\ [][Next]_vars

\* No client waits for ever.
Progress == \A c \in Clients : WF_vars(Answer(c))
==============================================================================
