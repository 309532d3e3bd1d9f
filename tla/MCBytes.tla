-------------------------------- MODULE MCBytes --------------------------------
(* Packets for TLC. *)
EXTENDS PacketTransfer

Shape(head, body) == [head |-> head, body |-> body]

MCSettings == {[on |-> FALSE, chunk |-> 0], [on |-> TRUE, chunk |-> 0], [on |-> TRUE, chunk |-> 3]}

\* Packets of one field, of one that fills the buffer and of one that passes it, and
\* blocks whose fields leave a rest in a frame, fill one, and need more than one.
MCShapes ==
  {Shape(<<1>>, << >>), Shape(<<1, 3>>, << >>), Shape(<<1, 6>>, << >>),
   Shape(<<1>>, <<2, 2>>), Shape(<<1, 1>>, <<1, 1, 1>>), Shape(<<1>>, <<1, 4>>)}

MCPacked(n) == n \div 2 + 1

=============================================================================
