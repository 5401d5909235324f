----------------------------- MODULE CaesarProofs -----------------------------
(***************************************************************************)
(* The cipher is a rotation, and decrypt undoes encrypt, for every         *)
(* character and every shift from 1 to 26.                                 *)
(***************************************************************************)
EXTENDS Caesar, TLAPS

(* A value that fits a char is stored as it is. *)
LEMMA CharFits ==
  ASSUME NEW n \in Char
  PROVE  ToChar(n) = n
  BY DEF Char, ToChar

(* encrypt rotates by translate_shift: the cases of caesar.c for the space *)
(* and for the two ends of the alphabet leave no gap and no overlap.       *)
THEOREM EncryptRotates ==
  ASSUME NEW c \in Char
  PROVE  Encrypt(c) = Rotate(c, translate_shift)
<1> USE ShiftAssumption DEF Upper, Lower, Space, Symbols, Size, Place, Symbol
<1>1. CASE c \notin Symbols
  BY <1>1 DEF Encrypt, Rotate, Char
<1>2. CASE c = Space
  <2>1. ToChar(96 + translate_shift) = 96 + translate_shift
    BY CharFits DEF Char
  <2> QED
    BY <1>2, <2>1 DEF Encrypt, Rotate
<1>3. CASE Upper(c)
  <2>1. /\ ToChar(c + translate_shift) = c + translate_shift
        /\ ToChar(c + translate_shift + 5) = c + translate_shift + 5
    BY <1>3, CharFits DEF Char
  <2>2. (c - 65 + translate_shift) % 53 = c - 65 + translate_shift
    BY <1>3
  <2> QED
    BY <1>3, <2>1, <2>2 DEF Encrypt, Rotate
<1>4. CASE Lower(c)
  <2>1. c + translate_shift <= 122 => ToChar(c + translate_shift) = c + translate_shift
    BY <1>4, CharFits DEF Char
  <2>2. ToChar(c + translate_shift - 58) = c + translate_shift - 58
    BY <1>4, CharFits DEF Char
  <2>3. (c - 70 + translate_shift) % 53 =
          IF c + translate_shift > 122 THEN c - 123 + translate_shift
          ELSE c - 70 + translate_shift
    BY <1>4
  <2> QED
    BY <1>4, <2>1, <2>2, <2>3 DEF Encrypt, Rotate
<1> QED
  BY <1>1, <1>2, <1>3, <1>4

(* decrypt rotates back by as much. *)
THEOREM DecryptRotatesBack ==
  ASSUME NEW c \in Char
  PROVE  Decrypt(c) = Rotate(c, -translate_shift)
<1> USE ShiftAssumption DEF Upper, Lower, Space, Symbols, Size, Place, Symbol
<1>1. CASE c \notin Symbols
  BY <1>1 DEF Decrypt, Rotate, Char
<1>2. CASE c = Space
  <2>1. ToChar(91 - translate_shift) = 91 - translate_shift
    BY CharFits DEF Char
  <2>2. (26 + (-translate_shift)) % 53 = 26 - translate_shift
    OBVIOUS
  <2> QED
    BY <1>2, <2>1, <2>2 DEF Decrypt, Rotate
<1>3. CASE Upper(c)
  <2>1. /\ ToChar(c - translate_shift) = c - translate_shift
        /\ c - translate_shift < 65 =>
             ToChar(c - translate_shift + 58) = c - translate_shift + 58
    BY <1>3, CharFits DEF Char
  <2>2. (c - 65 + (-translate_shift)) % 53 =
          IF c - translate_shift < 65 THEN c - 12 - translate_shift
          ELSE c - 65 - translate_shift
    BY <1>3
  <2> QED
    BY <1>3, <2>1, <2>2 DEF Decrypt, Rotate
<1>4. CASE Lower(c)
  <2>1. /\ ToChar(c - translate_shift) = c - translate_shift
        /\ ToChar(c - translate_shift - 5) = c - translate_shift - 5
    BY <1>4, CharFits DEF Char
  <2>2. (c - 70 + (-translate_shift)) % 53 = c - 70 - translate_shift
    BY <1>4
  <2> QED
    BY <1>4, <2>1, <2>2 DEF Decrypt, Rotate
<1> QED
  BY <1>1, <1>2, <1>3, <1>4

(* Rotations compose: turning by k and back is no turn at all. *)
LEMMA RotateBack ==
  ASSUME NEW c \in Symbols, NEW k \in -26 .. 26
  PROVE  /\ Rotate(c, k) \in Symbols
         /\ Rotate(Rotate(c, k), -k) = c
<1> DEFINE p == Place(c)
<1> DEFINE q == (p + k) % 53
<1>1. p \in 0 .. 52 /\ Symbol(p) = c
  BY DEF Symbols, Space, Place, Symbol
<1>2. q \in 0 .. 52 /\ (q + (-k)) % 53 = p
  <2> HIDE DEF p
  <2>1. q = IF p + k < 0 THEN p + k + 53 ELSE IF p + k > 52 THEN p + k - 53 ELSE p + k
    BY <1>1
  <2> HIDE DEF q
  <2> QED
    BY <1>1, <2>1
<1>3. \A n \in 0 .. 52 : Symbol(n) \in Symbols /\ Place(Symbol(n)) = n
  BY DEF Symbols, Space, Place, Symbol
<1>4. Rotate(c, k) = Symbol(q)
  BY DEF Rotate, Size
<1>5. Symbol(q) \in Symbols /\ Place(Symbol(q)) = q
  BY <1>2, <1>3
<1>6. Rotate(Symbol(q), -k) = Symbol((q + (-k)) % 53)
  BY <1>5 DEF Rotate, Size
<1> QED
  BY <1>1, <1>2, <1>4, <1>5, <1>6

(* What is written to one device, read, written to the other and read      *)
(* again is the original text: decrypt undoes encrypt, and the other way   *)
(* round, for every character and every shift from 1 to 26.                *)
THEOREM RoundTrip ==
  ASSUME NEW c \in Char
  PROVE  Decrypt(Encrypt(c)) = c /\ Encrypt(Decrypt(c)) = c
<1>1. CASE c \in Symbols
  <2>1. /\ Rotate(c, translate_shift) \in Symbols
        /\ Rotate(Rotate(c, translate_shift), -translate_shift) = c
    BY <1>1, ShiftAssumption, RotateBack
  <2>2. /\ Rotate(c, -translate_shift) \in Symbols
        /\ Rotate(Rotate(c, -translate_shift), translate_shift) = c
    <3>1. -translate_shift \in -26 .. 26 /\ -(-translate_shift) = translate_shift
      BY ShiftAssumption
    <3> QED
      BY <1>1, <3>1, RotateBack
  <2>3. Symbols \subseteq Char
    BY DEF Symbols, Space, Char
  <2> QED
    BY <2>1, <2>2, <2>3, EncryptRotates, DecryptRotatesBack
<1>2. CASE c \notin Symbols
  <2>1. Encrypt(c) = c /\ Decrypt(c) = c
    BY <1>2, EncryptRotates, DecryptRotatesBack DEF Rotate
  <2> QED
    BY <2>1
<1> QED
  BY <1>1, <1>2
=============================================================================
