---------------------------- MODULE MCCaesarDevice ----------------------------
(* Instances of CaesarDevice for TLC. *)
EXTENDS CaesarDevice, TLC

CONSTANTS t1, t2, f1, f2, b1, b2

(* Z becomes the space in encrypt, a in decrypt, if the shift is 1. *)
EdgeTexts == {<<90, 97>>}

Zeros == {<<0, 0>>}

Symmetric ==
  Permutations({t1, t2}) \cup Permutations({f1, f2}) \cup Permutations({b1, b2})
=============================================================================
