------------------------------- MODULE Mailbox -------------------------------
(***************************************************************************)
(* What a message queue promises its users: a bounded double-ended buffer. *)
(* A message is delivered once, to one receiver, in the order of sending,  *)
(* except that a jammed message goes before all others.                    *)
(***************************************************************************)
EXTENDS Naturals, Sequences

CONSTANTS Client, Msg, NoMsg, Capacity

VARIABLES box,   \* the messages sent and not yet received
          got    \* the message each client received last

Init == box = <<>> /\ got = [c \in Client |-> NoMsg]

Send(m) ==
  /\ Len(box) < Capacity
  /\ box' = Append(box, m)
  /\ UNCHANGED got

Jam(m) ==
  /\ Len(box) < Capacity
  /\ box' = <<m>> \o box
  /\ UNCHANGED got

Receive(c) ==
  /\ box # <<>>
  /\ got' = [got EXCEPT ![c] = Head(box)]
  /\ box' = Tail(box)

Next == (\E m \in Msg : Send(m) \/ Jam(m)) \/ (\E c \in Client : Receive(c))

Spec == Init /\ [][Next]_<<box, got>>
=============================================================================
