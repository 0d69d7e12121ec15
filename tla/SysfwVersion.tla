---------------------------- MODULE SysfwVersion ----------------------------
(***************************************************************************)
(* The version word that generate_binary_file (SYSFW_VERSION_program.py)   *)
(* stores for a version a.b.c.d: c above d, in a 32-bit field.  Neither c  *)
(* nor d is checked to fit its half, so d may reach into c's bits and c    *)
(* may lose its high ones; a and b are not stored at all.                  *)
(***************************************************************************)
EXTENDS Naturals

CONSTANT Half  \* 2^16: the values of one half of the word

ASSUME HalfAssumption == Half \in Nat \ {0}

\* The bitwise or of Python's integers.
BitOr[a \in Nat, b \in Nat] ==
  IF a = 0 \/ b = 0 THEN a + b
  ELSE 2 * BitOr[a \div 2, b \div 2] + (IF {a % 2, b % 2} = {0} THEN 0 ELSE 1)

\* (c << 16) | d, as the ctypes field keeps it.
VersionWord(c, d) == BitOr[c * Half, d] % (Half * Half)
=============================================================================
