------------------------------ MODULE CompilerId ------------------------------
(***************************************************************************)
(* CMakeCCompilerId.c, the program CMake compiles before Praktikum 2: it   *)
(* is never run; CMake looks for the strings "INFO:..." in the executable. *)
(* Modelled is what the preprocessor makes of it from line 434 on, but for *)
(* the names of the platforms: which strings there are, the architecture,  *)
(* the digits of version numbers, and which strings main refers to, for    *)
(* the linker to keep them.  Of the lines before, which find out what      *)
(* compiler it is, the choice between DEC and HEX.                         *)
(***************************************************************************)
EXTENDS Integers, Sequences

CONSTANTS
  Defined,   (* the macros that are defined, the COMPILER_... ones included *)
  Value      (* the numbers of those that stand for one                     *)

IsDefined(macro) == macro \in Defined
AnyDefined(macros) == macros \cap Defined # {}

(* #if, #elif, ..., #else: the first row one of whose macros is defined. *)
Choose(rows, otherwise) ==
  LET taken == {n \in 1 .. Len(rows) : AnyDefined(rows[n][1])}
  IN  IF taken = {} THEN otherwise
      ELSE rows[CHOOSE n \in taken : \A m \in taken : n <= m][2]

-----------------------------------------------------------------------------
(* The architecture, by the family of the compiler *)

ArmVersion ==
  IF Value["_M_ARM"] = 4 THEN "ARMV4I"
  ELSE IF Value["_M_ARM"] = 5 THEN "ARMV5I"
  ELSE <<"ARMV", Value["_M_ARM"]>>

Microsoft == Choose(<<
  <<{"_M_IA64"}, "IA64">>,
  <<{"_M_ARM64EC"}, "ARM64EC">>,
  <<{"_M_X64", "_M_AMD64"}, "x64">>,
  <<{"_M_IX86"}, "X86">>,
  <<{"_M_ARM64"}, "ARM64">>,
  <<{"_M_ARM"}, ArmVersion>>,
  <<{"_M_MIPS"}, "MIPS">>,
  <<{"_M_SH"}, "SHx">> >>, "")

Watcom == Choose(<<
  <<{"_M_I86"}, "I86">>,
  <<{"_M_IX86"}, "X86">> >>, "")

IAR == Choose(<<
  <<{"__ICCARM__"}, "ARM">>, <<{"__ICCRX__"}, "RX">>,
  <<{"__ICCRH850__"}, "RH850">>, <<{"__ICCRL78__"}, "RL78">>,
  <<{"__ICCRISCV__"}, "RISCV">>, <<{"__ICCAVR__"}, "AVR">>,
  <<{"__ICC430__"}, "MSP430">>, <<{"__ICCV850__"}, "V850">>,
  <<{"__ICC8051__"}, "8051">>, <<{"__ICCSTM8__"}, "STM8">> >>, "")

GreenHills == Choose(<<
  <<{"__PPC64__"}, "PPC64">>, <<{"__ppc__"}, "PPC">>, <<{"__ARM__"}, "ARM">>,
  <<{"__x86_64__"}, "x64">>, <<{"__i386__"}, "X86">> >>, "")

TI == Choose(<<
  <<{"__TI_ARM__"}, "ARM">>, <<{"__MSP430__"}, "MSP430">>,
  <<{"__TMS320C28XX__"}, "TMS320C28x">>,
  <<{"__TMS320C6X__", "_TMS320C6X"}, "TMS320C6x">> >>, "")

Tasking == Choose(<<
  <<{"__CTC__", "__CPTC__"}, "TriCore">>, <<{"__CMCS__"}, "MCS">>,
  <<{"__CARM__"}, "ARM">>, <<{"__CARC__"}, "ARC">>,
  <<{"__C51__"}, "8051">>, <<{"__CPCP__"}, "PCP">> >>, "")

ARCHITECTURE_ID ==
  IF IsDefined("_WIN32") /\ IsDefined("_MSC_VER") THEN Microsoft
  ELSE Choose(<<
    <<{"__WATCOMC__"}, Watcom>>,
    <<{"__IAR_SYSTEMS_ICC__", "__IAR_SYSTEMS_ICC"}, IAR>>,
    <<{"__ghs__"}, GreenHills>>,
    <<{"__TI_COMPILER_VERSION__"}, TI>>,
    <<{"__ADSPSHARC__"}, "SHARC">>,
    <<{"__ADSPBLACKFIN__"}, "Blackfin">>,
    <<{"__TASKING__"}, Tasking>> >>, "")

-----------------------------------------------------------------------------
(* Version numbers *)

Zero == 48   (* the code of '0' *)

Tens == <<10000000, 1000000, 100000, 10000, 1000, 100, 10, 1>>
DEC(n) == [d \in 1 .. 8 |-> Zero + ((n \div Tens[d]) % 10)]

Sixteens == <<268435456, 16777216, 1048576, 65536, 4096, 256, 16, 1>>
HEX(n) == [d \in 1 .. 8 |-> Zero + ((n \div Sixteens[d]) % 16)]

(* The components of COMPILER_VERSION that are shown by HEX: those of      *)
(* Embarcadero and Borland (116-126; PATCH is decimal), and of SunPro      *)
(* (146-158), unless an earlier row of the compilers applies.              *)
HexComponents ==
  IF \/ AnyDefined({"__INTEL_COMPILER", "__ICC", "__INTEL_LLVM_COMPILER", "__PATHCC__"})
     \/ IsDefined("__clang__") /\ IsDefined("__INTEL_CLANG_COMPILER")
  THEN {}
  ELSE Choose(<<
    <<{"__BORLANDC__"}, {1, 2}>>,
    <<{"__WATCOMC__"}, {}>>,
    <<{"__SUNPRO_C"}, {1, 2, 3}>> >>, {})

(* A version: the numbers of MAJOR, MINOR, PATCH and TWEAK, as far as they *)
(* are defined.  A component is shown if all before it are defined, too.   *)
Shown(version) == {c \in DOMAIN version : 1 .. c \subseteq DOMAIN version}
SimulateVersion(version) == [c \in Shown(version) |-> DEC(version[c])]
VersionInfo(version) ==
  [c \in Shown(version) |->
     IF c \in HexComponents THEN HEX(version[c]) ELSE DEC(version[c])]

-----------------------------------------------------------------------------
(* The other strings, and main *)

(* The version of the C standard: the first row not above __STDC_VERSION__. *)
Standards == << <<201711, "23">>, <<201710, "17">>, <<201000, "11">>,
                <<199901, "99">>, <<0, "90">> >>

STDC_VERSION == IF IsDefined("__STDC_VERSION__") THEN Value["__STDC_VERSION__"] ELSE 0

C_VERSION ==
  IF AnyDefined({"__STDC__", "__clang__"})
  THEN LET below == {n \in 1 .. 5 : STDC_VERSION >= Standards[n][1]}
       IN  Standards[CHOOSE n \in below : \A m \in below : n <= m][2]
  ELSE IF AnyDefined({"_MSC_VER", "__ibmxl__", "__IBMC__"}) THEN "90" ELSE ""

ExtensionsDefault ==
  IF /\ AnyDefined({"__clang__", "__GNUC__", "__xlC__", "__TI_COMPILER_VERSION__"})
     /\ ~IsDefined("__STRICT_ANSI__")
  THEN "ON" ELSE "OFF"

If(condition, string) == IF condition THEN {string} ELSE {}

(* The strings the file declares: those that name the compiler, and all. *)
DeclaredNames ==
  {"info_compiler"}
  \cup If(IsDefined("SIMULATE_ID"), "info_simulate")
  \cup If(IsDefined("__QNXNTO__"), "qnxnto")
  \cup If(IsDefined("__CRAYXT_COMPUTE_LINUX_TARGET"), "info_cray")

Declared ==
  DeclaredNames
  \cup {"info_platform", "info_arch",
        "info_language_standard_default", "info_language_extensions_default"}
  \cup If(AnyDefined({"COMPILER_VERSION", "COMPILER_VERSION_MAJOR"}), "info_version")
  \cup If(AnyDefined({"COMPILER_VERSION_INTERNAL", "COMPILER_VERSION_INTERNAL_STR"}),
          "info_version_internal")
  \cup If(IsDefined("SIMULATE_VERSION_MAJOR"), "info_simulate_version")

(* The strings main reads a character of, and so requires.  Where main has *)
(* to be void it is empty.                                                 *)
Required ==
  IF IsDefined("__18CXX") THEN {}
  ELSE {"info_compiler", "info_platform", "info_arch",
        "info_language_standard_default", "info_language_extensions_default"}
    \cup If(IsDefined("COMPILER_VERSION_MAJOR"), "info_version")
    \cup If(IsDefined("COMPILER_VERSION_INTERNAL"), "info_version_internal")
    \cup If(IsDefined("SIMULATE_ID"), "info_simulate")
    \cup If(IsDefined("SIMULATE_VERSION_MAJOR"), "info_simulate_version")
    \cup If(IsDefined("__CRAYXT_COMPUTE_LINUX_TARGET"), "info_cray")
=============================================================================
