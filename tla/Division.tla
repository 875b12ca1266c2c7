------------------------------ MODULE Division ------------------------------
(***************************************************************************)
(* What the frame check sequence is meant to be: the remainder of a        *)
(* division by the polynomial 0x1021, bit-reversed (0x8408), one bit at a  *)
(* time, of registers written as the set of the bits that are 1.           *)
(***************************************************************************)
EXTENDS Integers, Sequences

Bits(n) == {k \in 0 .. 15 : (n \div 2 ^ k) % 2 = 1}

Plus(s, t) == (s \ t) \cup (t \ s)

Polynomial == {15, 10, 3}

ShiftBit(register) ==
  LET shifted == {k - 1 : k \in register \ {0}}
  IN  IF 0 \in register THEN Plus(shifted, Polynomial) ELSE shifted

ShiftNibble(register) == ShiftBit(ShiftBit(ShiftBit(ShiftBit(register))))

DivideByte(register, b) == ShiftNibble(ShiftNibble(Plus(register, Bits(b))))

(* The register after all the bytes, from sixteen ones.                    *)
Crc(bytes) ==
  LET remainder[n \in 0 .. Len(bytes)] ==
        IF n = 0 THEN 0 .. 15 ELSE DivideByte(remainder[n - 1], bytes[n])
  IN  remainder[Len(bytes)]

=============================================================================
