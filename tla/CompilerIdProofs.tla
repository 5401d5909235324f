--------------------------- MODULE CompilerIdProofs ---------------------------
(***************************************************************************)
(* What CMake may rely on when it reads the strings of CMakeCCompilerId.c, *)
(* whatever the compiler defines.                                          *)
(***************************************************************************)
EXTENDS CompilerId, TLAPS

(* The number eight digits stand for. *)
Number(digits, places) ==
    (digits[1] - Zero) * places[1] + (digits[2] - Zero) * places[2]
  + (digits[3] - Zero) * places[3] + (digits[4] - Zero) * places[4]
  + (digits[5] - Zero) * places[5] + (digits[6] - Zero) * places[6]
  + (digits[7] - Zero) * places[7] + (digits[8] - Zero) * places[8]

(* A directive takes a row that applies, and none before it does. *)
LEMMA ChooseFirst ==
  ASSUME NEW rows, NEW other, Len(rows) \in Nat,
         NEW n \in 1 .. Len(rows), AnyDefined(rows[n][1]),
         \A m \in 1 .. n - 1 : ~AnyDefined(rows[m][1])
  PROVE  Choose(rows, other) = rows[n][2]
<1> DEFINE taken == {m \in 1 .. Len(rows) : AnyDefined(rows[m][1])}
<1>1. n \in taken /\ \A m \in taken : n <= m
  OBVIOUS
<1>2. \A l \in taken : (\A m \in taken : l <= m) => l = n
  BY <1>1
<1>3. (CHOOSE l \in taken : \A m \in taken : l <= m) = n
  BY <1>1, <1>2
<1> QED
  BY <1>1, <1>3 DEF Choose

(* Dividing by the next power of ten splits off a digit. *)
LEMMA SplitDigit ==
  ASSUME NEW n \in Nat
  PROVE  /\ n \div 1 = n
         /\ n = 10 * (n \div 10) + (n % 10)
         /\ n \div 10 = 10 * (n \div 100) + ((n \div 10) % 10)
         /\ n \div 100 = 10 * (n \div 1000) + ((n \div 100) % 10)
         /\ n \div 1000 = 10 * (n \div 10000) + ((n \div 1000) % 10)
         /\ n \div 10000 = 10 * (n \div 100000) + ((n \div 10000) % 10)
         /\ n \div 100000 = 10 * (n \div 1000000) + ((n \div 100000) % 10)
         /\ n \div 1000000 = 10 * (n \div 10000000) + ((n \div 1000000) % 10)
<1>1. n \div 1 = n /\ n = 10 * (n \div 10) + (n % 10)
  BY SMT
<1>2. n \div 10 = 10 * (n \div 100) + ((n \div 10) % 10)
  BY SMT
<1>3. n \div 100 = 10 * (n \div 1000) + ((n \div 100) % 10)
  BY SMT
<1>4. n \div 1000 = 10 * (n \div 10000) + ((n \div 1000) % 10)
  BY SMT
<1>5. n \div 10000 = 10 * (n \div 100000) + ((n \div 10000) % 10)
  BY SMT
<1>6. n \div 100000 = 10 * (n \div 1000000) + ((n \div 100000) % 10)
  BY SMT
<1>7. n \div 1000000 = 10 * (n \div 10000000) + ((n \div 1000000) % 10)
  BY SMT
<1> QED
  BY <1>1, <1>2, <1>3, <1>4, <1>5, <1>6, <1>7, SMT

(* Every place holds a digit and a remaining number. *)
LEMMA DigitTypes ==
  ASSUME NEW n \in Nat
  PROVE  /\ n \div 10 \in Nat /\ n \div 100 \in Nat /\ n \div 1000 \in Nat
         /\ n \div 10000 \in Nat /\ n \div 100000 \in Nat
         /\ n \div 1000000 \in Nat /\ n \div 10000000 \in Nat
         /\ n % 10 \in 0 .. 9 /\ (n \div 10) % 10 \in 0 .. 9
         /\ (n \div 100) % 10 \in 0 .. 9 /\ (n \div 1000) % 10 \in 0 .. 9
         /\ (n \div 10000) % 10 \in 0 .. 9 /\ (n \div 100000) % 10 \in 0 .. 9
         /\ (n \div 1000000) % 10 \in 0 .. 9
  BY SMT

(* DEC (720-728) shows every number below 10^8 as it is, in digits.        *)
THEOREM DecReadsBack ==
  ASSUME NEW n \in Nat, n < 100000000
  PROVE  /\ \A d \in 1 .. 8 : DEC(n)[d] \in 48 .. 57
         /\ Number(DEC(n), Tens) = n
<1>1. ASSUME NEW d \in 1 .. 8 PROVE DEC(n)[d] \in 48 .. 57
  <2>1. Tens[d] \in Nat /\ Tens[d] > 0
    BY SMT DEF Tens
  <2>2. n \div Tens[d] \in Nat
    BY <2>1, SMT
  <2> QED
    BY <2>2, SMT DEF DEC, Zero
<1>2. Number(DEC(n), Tens) = n
  <2> DEFINE a == n \div 10      r1 == n % 10
             b == n \div 100     r2 == a % 10
             c == n \div 1000    r3 == b % 10
             d == n \div 10000   r4 == c % 10
             e == n \div 100000  r5 == d % 10
             f == n \div 1000000 r6 == e % 10
             g == n \div 10000000
             r7 == f % 10
             r8 == g % 10
  <2>1. /\ DEC(n)[1] = 48 + r8 /\ DEC(n)[2] = 48 + r7
        /\ DEC(n)[3] = 48 + r6 /\ DEC(n)[4] = 48 + r5
        /\ DEC(n)[5] = 48 + r4 /\ DEC(n)[6] = 48 + r3
        /\ DEC(n)[7] = 48 + r2 /\ DEC(n)[8] = 48 + r1
    <3>1. \A p \in 1 .. 8 : DEC(n)[p] = 48 + ((n \div Tens[p]) % 10)
      BY SMT DEF DEC, Zero
    <3>2. /\ Tens[1] = 10000000 /\ Tens[2] = 1000000 /\ Tens[3] = 100000
          /\ Tens[4] = 10000 /\ Tens[5] = 1000 /\ Tens[6] = 100
          /\ Tens[7] = 10 /\ Tens[8] = 1
      BY SMT DEF Tens
    <3> QED
      BY <3>1, <3>2, SplitDigit, SMT
  <2>2. /\ n = 10 * a + r1 /\ a = 10 * b + r2 /\ b = 10 * c + r3 /\ c = 10 * d + r4
        /\ d = 10 * e + r5 /\ e = 10 * f + r6 /\ f = 10 * g + r7
    BY SplitDigit, SMT
  <2>3. /\ a \in Nat /\ b \in Nat /\ c \in Nat /\ d \in Nat
        /\ e \in Nat /\ f \in Nat /\ g \in Nat
        /\ r1 \in 0 .. 9 /\ r2 \in 0 .. 9 /\ r3 \in 0 .. 9 /\ r4 \in 0 .. 9
        /\ r5 \in 0 .. 9 /\ r6 \in 0 .. 9 /\ r7 \in 0 .. 9
    BY DigitTypes, SMT
  <2>4. g < 10 => r8 = g
    BY <2>3, SMT
  <2> HIDE DEF a, b, c, d, e, f, g, r1, r2, r3, r4, r5, r6, r7, r8
  <2>5. /\ g < 10
        /\ n = g * 10000000 + r7 * 1000000 + r6 * 100000 + r5 * 10000
                 + r4 * 1000 + r3 * 100 + r2 * 10 + r1
    BY <2>2, <2>3, SMT
  <2> QED
    BY <2>1, <2>3, <2>4, <2>5, SMT DEF Number, Tens, Zero
<1> QED
  BY <1>1, <1>2, SMT

(* So does dividing by the next power of sixteen. *)
LEMMA SplitHexDigit ==
  ASSUME NEW n \in Nat
  PROVE  /\ n \div 1 = n
         /\ n = 16 * (n \div 16) + (n % 16)
         /\ n \div 16 = 16 * (n \div 256) + ((n \div 16) % 16)
         /\ n \div 256 = 16 * (n \div 4096) + ((n \div 256) % 16)
         /\ n \div 4096 = 16 * (n \div 65536) + ((n \div 4096) % 16)
         /\ n \div 65536 = 16 * (n \div 1048576) + ((n \div 65536) % 16)
         /\ n \div 1048576 = 16 * (n \div 16777216) + ((n \div 1048576) % 16)
         /\ n \div 16777216 = 16 * (n \div 268435456) + ((n \div 16777216) % 16)
<1>1. n \div 1 = n /\ n = 16 * (n \div 16) + (n % 16)
  BY SMT
<1>2. n \div 16 = 16 * (n \div 256) + ((n \div 16) % 16)
  BY SMT
<1>3. n \div 256 = 16 * (n \div 4096) + ((n \div 256) % 16)
  BY SMT
<1>4. n \div 4096 = 16 * (n \div 65536) + ((n \div 4096) % 16)
  BY SMT
<1>5. n \div 65536 = 16 * (n \div 1048576) + ((n \div 65536) % 16)
  BY SMT
<1>6. n \div 1048576 = 16 * (n \div 16777216) + ((n \div 1048576) % 16)
  BY SMT
<1>7. n \div 16777216 = 16 * (n \div 268435456) + ((n \div 16777216) % 16)
  BY SMT
<1> QED
  BY <1>1, <1>2, <1>3, <1>4, <1>5, <1>6, <1>7, SMT

(* Every place holds a hexadecimal digit and a remaining number. *)
LEMMA HexDigitTypes ==
  ASSUME NEW n \in Nat
  PROVE  /\ n \div 16 \in Nat /\ n \div 256 \in Nat /\ n \div 4096 \in Nat
         /\ n \div 65536 \in Nat /\ n \div 1048576 \in Nat
         /\ n \div 16777216 \in Nat /\ n \div 268435456 \in Nat
         /\ n % 16 \in 0 .. 15 /\ (n \div 16) % 16 \in 0 .. 15
         /\ (n \div 256) % 16 \in 0 .. 15 /\ (n \div 4096) % 16 \in 0 .. 15
         /\ (n \div 65536) % 16 \in 0 .. 15 /\ (n \div 1048576) % 16 \in 0 .. 15
         /\ (n \div 16777216) % 16 \in 0 .. 15
  BY SMT

(* HEX (731-739) shows every number below 16^8 as it is, the digits above  *)
(* 9 as the characters that follow the '9'.                                *)
THEOREM HexReadsBack ==
  ASSUME NEW n \in Nat, n < 4294967296
  PROVE  /\ \A d \in 1 .. 8 : HEX(n)[d] \in 48 .. 63
         /\ Number(HEX(n), Sixteens) = n
<1>1. ASSUME NEW d \in 1 .. 8 PROVE HEX(n)[d] \in 48 .. 63
  <2>1. Sixteens[d] \in Nat /\ Sixteens[d] > 0
    BY SMT DEF Sixteens
  <2>2. n \div Sixteens[d] \in Nat
    BY <2>1, SMT
  <2> QED
    BY <2>2, SMT DEF HEX, Zero
<1>2. Number(HEX(n), Sixteens) = n
  <2> DEFINE a == n \div 16      r1 == n % 16
             b == n \div 256     r2 == a % 16
             c == n \div 4096    r3 == b % 16
             d == n \div 65536   r4 == c % 16
             e == n \div 1048576  r5 == d % 16
             f == n \div 16777216 r6 == e % 16
             g == n \div 268435456
             r7 == f % 16
             r8 == g % 16
  <2>1. /\ HEX(n)[1] = 48 + r8 /\ HEX(n)[2] = 48 + r7
        /\ HEX(n)[3] = 48 + r6 /\ HEX(n)[4] = 48 + r5
        /\ HEX(n)[5] = 48 + r4 /\ HEX(n)[6] = 48 + r3
        /\ HEX(n)[7] = 48 + r2 /\ HEX(n)[8] = 48 + r1
    <3>1. \A p \in 1 .. 8 : HEX(n)[p] = 48 + ((n \div Sixteens[p]) % 16)
      BY SMT DEF HEX, Zero
    <3>2. /\ Sixteens[1] = 268435456 /\ Sixteens[2] = 16777216 /\ Sixteens[3] = 1048576
          /\ Sixteens[4] = 65536 /\ Sixteens[5] = 4096 /\ Sixteens[6] = 256
          /\ Sixteens[7] = 16 /\ Sixteens[8] = 1
      BY SMT DEF Sixteens
    <3> QED
      BY <3>1, <3>2, SplitHexDigit, SMT
  <2>2. /\ n = 16 * a + r1 /\ a = 16 * b + r2 /\ b = 16 * c + r3 /\ c = 16 * d + r4
        /\ d = 16 * e + r5 /\ e = 16 * f + r6 /\ f = 16 * g + r7
    BY SplitHexDigit, SMT
  <2>3. /\ a \in Nat /\ b \in Nat /\ c \in Nat /\ d \in Nat
        /\ e \in Nat /\ f \in Nat /\ g \in Nat
        /\ r1 \in 0 .. 15 /\ r2 \in 0 .. 15 /\ r3 \in 0 .. 15 /\ r4 \in 0 .. 15
        /\ r5 \in 0 .. 15 /\ r6 \in 0 .. 15 /\ r7 \in 0 .. 15
    BY HexDigitTypes, SMT
  <2>4. g < 16 => r8 = g
    BY <2>3, SMT
  <2> HIDE DEF a, b, c, d, e, f, g, r1, r2, r3, r4, r5, r6, r7, r8
  <2>5. /\ g < 16
        /\ n = g * 268435456 + r7 * 16777216 + r6 * 1048576 + r5 * 65536
                 + r4 * 4096 + r3 * 256 + r2 * 16 + r1
    BY <2>2, <2>3, SMT
  <2> QED
    BY <2>1, <2>3, <2>4, <2>5, SMT DEF Number, Sixteens, Zero
<1> QED
  BY <1>1, <1>2, SMT

(* The number a component stands for when its digits are read in its base. *)
ReadBack(version, c) ==
  Number(VersionInfo(version)[c], IF c \in HexComponents THEN Sixteens ELSE Tens)

(* Whatever the compiler, each component of the version it shows (745-761) *)
(* stands for the number it has given, in hexadecimal where the compiler   *)
(* is one of those that pack their version in nibbles.                     *)
THEOREM VersionReadsBack ==
  ASSUME NEW given \in SUBSET (1 .. 4), NEW version \in [given -> Nat],
         NEW c \in Shown(version),
         version[c] < IF c \in HexComponents THEN 4294967296 ELSE 100000000
  PROVE  ReadBack(version, c) = version[c]
<1>1. version[c] \in Nat
  BY SMT DEF Shown
<1>2. CASE c \in HexComponents
  <2>1. VersionInfo(version)[c] = HEX(version[c])
    BY <1>2, SMT DEF VersionInfo
  <2>2. version[c] < 4294967296
    BY <1>2
  <2> QED
    BY <1>1, <1>2, <2>1, <2>2, HexReadsBack, SMT DEF ReadBack
<1>3. CASE c \notin HexComponents
  <2>1. VersionInfo(version)[c] = DEC(version[c])
    BY <1>3, SMT DEF VersionInfo
  <2>2. version[c] < 100000000
    BY <1>3
  <2> QED
    BY <1>1, <1>3, <2>1, <2>2, DecReadsBack, SMT DEF ReadBack
<1> QED
  BY <1>2, <1>3

(* A compiler for ARM64EC defines _M_X64 as well, and is recognised as     *)
(* what it is (567-575).                                                   *)
THEOREM Arm64EC ==
  ASSUME IsDefined("_WIN32"), IsDefined("_MSC_VER"),
         IsDefined("_M_ARM64EC"), IsDefined("_M_X64"), ~IsDefined("_M_IA64")
  PROVE  ARCHITECTURE_ID = "ARM64EC"
<1> DEFINE rows == <<
      <<{"_M_IA64"}, "IA64">>,
      <<{"_M_ARM64EC"}, "ARM64EC">>,
      <<{"_M_X64", "_M_AMD64"}, "x64">>,
      <<{"_M_IX86"}, "X86">>,
      <<{"_M_ARM64"}, "ARM64">>,
      <<{"_M_ARM"}, ArmVersion>>,
      <<{"_M_MIPS"}, "MIPS">>,
      <<{"_M_SH"}, "SHx">> >>
<1>1. rows[1][1] = {"_M_IA64"} /\ rows[2] = <<{"_M_ARM64EC"}, "ARM64EC">>
        /\ Len(rows) = 8
  OBVIOUS
<1>2. AnyDefined(rows[2][1]) /\ \A m \in 1 .. 2 - 1 : ~AnyDefined(rows[m][1])
  BY <1>1 DEF AnyDefined, IsDefined
<1>3. Choose(rows, "") = rows[2][2]
  <2> HIDE DEF rows
  <2>1. 2 \in 1 .. Len(rows) /\ Len(rows) \in Nat
    BY <1>1
  <2> QED
    BY <2>1, <1>2, ChooseFirst
<1>4. Microsoft = Choose(rows, "")
  BY DEF Microsoft
<1> QED
  BY <1>1, <1>3, <1>4 DEF ARCHITECTURE_ID
=============================================================================
