----------------------------- MODULE MCForwarder -----------------------------
(* Instances of Forwarder for TLC. *)
EXTENDS Forwarder

Zeros == {"zeros"}
Unknown == {"zeros", "others"}

NobodyOnly == {Nobody}
==============================================================================
