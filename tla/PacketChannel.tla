---------------------------- MODULE PacketChannel ---------------------------
(***************************************************************************)
(* What protocol.Conn promises of one direction of a connection: packets   *)
(* arrive as they were sent, in the order they were sent, each once, and   *)
(* a packet that was not sent whole does not arrive.                       *)
(***************************************************************************)
EXTENDS Naturals, Sequences

CONSTANT Packets

VARIABLES sent,     \* the packets written, in the order they went onto the wire
          received  \* the packets read

TypeOK == sent \in Seq(Packets) /\ received \in Seq(Packets)

Init == sent = <<>> /\ received = <<>>

Send == \E p \in Packets : sent' = Append(sent, p) /\ UNCHANGED received

Receive ==
  /\ Len(received) < Len(sent)
  /\ received' = Append(received, sent[Len(received) + 1])
  /\ UNCHANGED sent

Spec == Init /\ [][Send \/ Receive]_<<sent, received>>
=============================================================================
