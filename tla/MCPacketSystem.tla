---------------------------- MODULE MCPacketSystem ----------------------------
(* PacketSystem with small sets of threads and addresses for TLC. *)
EXTENDS PacketSystem, TLC

CONSTANTS p1, p2, c1, c2, o1      \* threads
CONSTANTS e1, e2, e3, e4, k1, k2, k3, k4  \* addresses of elements and of packets

(* Freed memory may read as any int: also as one below the head's -1. *)
AnyGarbage == {-2, -1, 1}

(* The allocator may return any free address: addresses are symmetric. *)
AddressSymmetry ==
  {f @@ g : f \in Permutations(Elements), g \in Permutations(Packets)}

(* Threads that run the same function are symmetric, too. *)
FullSymmetry ==
  {f @@ g : f \in AddressSymmetry, g \in {h @@ i : h \in Permutations(Producers),
                                                i \in Permutations(Consumers)}}
=============================================================================
