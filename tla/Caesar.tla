-------------------------------- MODULE Caesar --------------------------------
(***************************************************************************)
(* The cipher of caesar.c in Praktikum_4, one character at a time.         *)
(*                                                                         *)
(* The code shifts letters by cases on their character codes.  What these  *)
(* cases amount to is a rotation of an alphabet of 53 symbols: A to Z, the *)
(* space, a to z.  The rotation is the reference definition here.          *)
(***************************************************************************)
EXTENDS Integers

CONSTANT translate_shift   (* the module parameter                        *)

(* caesar.c takes any int.  The rotation holds for the shifts of which     *)
(* neither 96 + translate_shift nor 91 - translate_shift leaves the letters. *)
ASSUME ShiftAssumption == translate_shift \in 1 .. 26

(* A char is signed and has eight bits.  Sums are computed as int.         *)
Char == -128 .. 127
ToChar(n) == ((n + 128) % 256) - 128

Space == 32
Upper(c) == c \in 65 .. 90
Lower(c) == c \in 97 .. 122

-----------------------------------------------------------------------------
(* Mutant: the space as a result (56-59) is forgotten. *)
EncryptNoSpace(c) ==
  IF c = Space THEN ToChar(96 + translate_shift)
  ELSE IF ~Upper(c) /\ ~Lower(c) THEN c
  ELSE IF c + translate_shift > 122 THEN ToChar(c + translate_shift - 58)
  ELSE IF Upper(c) /\ c + translate_shift > 90 THEN ToChar(c + translate_shift + 5)
  ELSE ToChar(c + translate_shift)

(* One turn of the loop in encrypt. *)
Encrypt(c) ==
  IF c = Space THEN ToChar(96 + translate_shift)
  ELSE IF ~Upper(c) /\ ~Lower(c) THEN c
  ELSE IF c + translate_shift = 91 THEN Space
  ELSE IF c + translate_shift > 122 THEN ToChar(c + translate_shift - 58)
  ELSE IF c + translate_shift > 90 /\ c <= 90 THEN ToChar(c + translate_shift + 5)
  ELSE ToChar(c + translate_shift)

(* One turn of the loop in decrypt. *)
Decrypt(c) ==
  IF c = Space THEN ToChar(91 - translate_shift)
  ELSE IF ~Upper(c) /\ ~Lower(c) THEN c
  ELSE IF c - translate_shift = 96 THEN Space
  ELSE IF c - translate_shift < 65 /\ c <= 90 THEN ToChar(c - translate_shift + 58)
  ELSE IF c - translate_shift < 97 /\ c >= 97 THEN ToChar(c - translate_shift - 5)
  ELSE ToChar(c - translate_shift)

-----------------------------------------------------------------------------
(* The reference: the symbols in a circle, and a rotation by k places.     *)
Symbols == {Space} \cup (65 .. 90) \cup (97 .. 122)
Size == 53

Place(c) == IF c = Space THEN 26 ELSE IF c <= 90 THEN c - 65 ELSE c - 70
Symbol(n) == IF n < 26 THEN n + 65 ELSE IF n = 26 THEN Space ELSE n + 70

Rotate(c, k) == IF c \in Symbols THEN Symbol((Place(c) + k) % Size) ELSE c
=============================================================================
