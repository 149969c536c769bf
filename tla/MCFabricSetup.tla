---------------------------- MODULE MCFabricSetup ----------------------------
(* A small instance of FabricSetup: a network of eight addresses, 16 to 23,  *)
(* written as 16/29, and argument lists given one after the other.           *)
EXTENDS FabricSetup

CONSTANTS a, b, c

At(n) == [node |-> n, how |-> "position", n |-> 0]
Index(n, i) == [node |-> n, how |-> "index", n |-> i]
Address(n, v) == [node |-> n, how |-> "vip", n |-> v]

\* Lists that are accepted: nodes swapped, one added, the three ways mixed, the
\* first and the last host address.
MCMeshes ==
  {<<At(a), At(b)>>, <<At(b), At(a)>>, <<At(a), At(b), At(c)>>, <<At(c)>>,
   <<Address(a, 22), At(b), Index(c, 1)>>}

\* Lists that are refused, some of them only at the last argument: a node given
\* twice, the network and the broadcast address, addresses outside, and VIPs
\* that collide however each of them was asked for.
MCMistakes ==
  {<<At(a), Index(a, 3)>>, <<Index(a, 0)>>, <<At(b), Index(a, 7)>>,
   <<Index(a, 8)>>, <<Address(c, 15)>>, <<At(a), Address(b, 23)>>,
   <<Address(a, 16), At(b)>>, <<Index(a, 2), At(b)>>,
   <<At(a), At(b), Address(c, 17)>>, <<Address(a, 19), Index(b, 3)>>}

MCCommands == MCMeshes \union MCMistakes
=============================================================================
