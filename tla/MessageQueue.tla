---------------------------- MODULE MessageQueue ----------------------------
(***************************************************************************)
(* What one direction of a connection promises: whole messages, each once   *)
(* and in the order they were sent.  Wire implements it with fields that are *)
(* written and read piece by piece.                                         *)
(***************************************************************************)
EXTENDS Naturals, Sequences

CONSTANT Messages       \* what may be sent

VARIABLES sent,         \* the messages that were sent
          delivered     \* the messages that arrived

vars == <<sent, delivered>>

Init == sent = <<>> /\ delivered = <<>>

Send ==
    /\ \E m \in Messages : sent' = Append(sent, m)
    /\ UNCHANGED delivered

Deliver ==
    /\ Len(delivered) < Len(sent)
    /\ delivered' = Append(delivered, sent[Len(delivered) + 1])
    /\ UNCHANGED sent

Next == Send \/ Deliver

Spec == Init /\ [][Next]_vars
=============================================================================
