-------------------------------- MODULE Alu --------------------------------
(***************************************************************************)
(* The arithmetic and logic instructions as functions of the operands and  *)
(* the carry latch: RtlAlu is the EXECUTE clock of design.sv, EmuAlu the   *)
(* opcode cases of the emulator's CPU::step.  Words have WordBits bits,    *)
(* 16 in the code.                                                         *)
(***************************************************************************)
EXTENDS Bits

CONSTANT WordBits

ASSUME WordBitsAssumption == WordBits \in {1, 2, 4, 8, 16}

Modulus == 2^WordBits
Words == 0 .. Modulus - 1

Result(v, c) == [val |-> v % Modulus, carry |-> c]

Complement(x) == Modulus - 1 - x
ShiftLeft(x, n) == (x * 2^n) % Modulus
ShiftRight(x, n) == x \div 2^n
RotateLeft(x, n) == (ShiftLeft(x, n) + ShiftRight(x, WordBits - n)) % Modulus
RotateRight(x, n) == RotateLeft(x, (WordBits - n) % WordBits)

\* The shift amount is the low bits of the second operand (4 of 16).
Amount(y) == y % WordBits

\* What both machines compute alike, with the carry left as it was.
Logic(op, m, x, y, c) ==
    LET z == IF m THEN Complement(y) ELSE y IN
    CASE op = 3 -> Result(And(WordBits, x, z), c)
      [] op = 4 -> Result(Or(WordBits, x, z), c)
      [] op = 5 -> Result(Complement(x) + (IF m THEN 1 ELSE 0), c)
      [] op = 6 -> Result(ExclusiveOr(WordBits, x, z), c)
      [] op = 7 -> Result(RotateLeft(x, Amount(y)), c)
      [] op = 8 -> Result(RotateRight(x, Amount(y)), c)

\* Shifts without M leave the last bit shifted out in the carry, and the carry
\* alone when the amount is 0.
RtlAlu(op, m, x, y, c) ==
    LET in == IF m THEN c ELSE 0
        n  == Amount(y)
    IN  CASE op = 1 -> Result(x + y + in, (x + y + in) \div Modulus)
          [] op = 2 -> Result(x - y - in, IF x - y - in < 0 THEN 1 ELSE 0)
          [] op = 7 /\ ~m -> Result(ShiftLeft(x, n),
                                    IF n = 0 THEN c ELSE BitOf(x, WordBits - n))
          [] op = 8 /\ ~m -> Result(ShiftRight(x, n),
                                    IF n = 0 THEN c ELSE BitOf(x, n - 1))
          [] OTHER -> Logic(op, m, x, y, c)

\* ADD.C takes its carry out before the carry in is added; SUB tests an
\* unsigned difference for being negative; SHR takes bit 0 whatever the amount,
\* and SHL by 0 clears the carry.
EmuAlu(op, m, x, y, c) ==
    LET in == IF m THEN c ELSE 0
        n  == Amount(y)
    IN  CASE op = 1 -> Result(x + y + in, (x + y) \div Modulus)
          [] op = 2 -> Result(x - y - in, 0)
          [] op = 7 /\ ~m -> Result(ShiftLeft(x, n),
                                    IF n = 0 THEN 0 ELSE BitOf(x, WordBits - n))
          [] op = 8 /\ ~m -> Result(ShiftRight(x, n), x % 2)
          [] OTHER -> Logic(op, m, x, y, c)
=============================================================================
