------------------------------ MODULE RpcService ------------------------------
(***************************************************************************)
(* The abstract RPC service: messages are asked, and are served one at a   *)
(* time in the order they came, each with the answer RpcContract allows    *)
(* for its payload.  A message of a single part has no payload and gets no *)
(* answer; a fault of the receiving socket costs at most the message being *)
(* received its answer, and nothing else.                                  *)
(***************************************************************************)
EXTENDS RpcContract

CONSTANTS Methods,   \* the method names registered
          Messages   \* what may be asked: [parts, payload]

VARIABLES asked,    \* the messages asked so far, [parts, payload], in order
          served,   \* how many of them the server has turned to
          answers,  \* the answers published, [msg, reply], in order
          faults    \* how often receiving has failed

vars == <<asked, served, answers, faults>>

Init == asked = <<>> /\ served = 0 /\ answers = <<>> /\ faults = 0

Ask == /\ \E m \in Messages : asked' = Append(asked, m)
       /\ UNCHANGED <<served, answers, faults>>

\* The answers of this step: what it appends to the answers so far.
NewAnswers == SubSeq(answers', Len(answers) + 1, Len(answers'))

Serve == /\ served < Len(asked)
         /\ asked[served + 1].parts > 1
         /\ served' = served + 1
         /\ answers' = answers \o NewAnswers
         /\ \A i \in DOMAIN NewAnswers : NewAnswers[i].msg = served + 1
         /\ Allowed(Methods, asked[served + 1].payload,
                    [i \in DOMAIN NewAnswers |-> NewAnswers[i].reply])
         /\ UNCHANGED <<asked, faults>>

SkipSinglePart == /\ served < Len(asked)
                  /\ asked[served + 1].parts = 1
                  /\ served' = served + 1
                  /\ UNCHANGED <<asked, answers, faults>>

Fault == /\ faults' = faults + 1
         /\ served' \in {served, served + 1} \cap 0 .. Len(asked)
         /\ UNCHANGED <<asked, answers>>

Next == Ask \/ Serve \/ SkipSinglePart \/ Fault

Spec == Init /\ [][Next]_vars
==============================================================================
