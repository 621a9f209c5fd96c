-------------------------------- MODULE Alu ---------------------------------
(***************************************************************************)
(* The arithmetic of Apple2/AppleCpu.c: ac_Execute_ADC, SBC, CMP, ASL,     *)
(* LSR, ROL and ROR, the flags they set, and the carry that chains them    *)
(* over numbers of several bytes.                                          *)
(*                                                                         *)
(* A program takes two numbers of W bytes, chooses an operation, and works *)
(* through them a byte at a time the way 6502 programs do: additions and   *)
(* subtractions from the least significant byte up, a comparison as CMP    *)
(* followed by SBCs, doubling as ASL followed by ROLs and halving as LSR   *)
(* followed by RORs from the most significant byte down.                   *)
(***************************************************************************)
EXTENDS Integers

CONSTANTS W,         \* bytes in a number
          Samples,   \* the bytes numbers are made of
          Tasks      \* what the program does: some of the names in Init

ASSUME AluAssumption ==
    /\ W \in Nat \ {0}
    /\ Samples \subseteq 0 .. 255
    /\ Tasks \subseteq {"add", "subtract", "compare", "double", "halve"}

Bit == {0, 1}

VARIABLES
    cpu,              \* A and the flags of _PS that arithmetic uses, each 0 or 1
    task,             \* what the program computes
    first, second,    \* its operands, bytes by significance, 1 the least
    result,           \* the bytes computed so far
    done,             \* bytes done
    carry             \* ghost: the C flag at the start

aluVars == <<cpu, task, first, second, result, done, carry>>

BitOf(n, v) == (v \div 2^n) % 2
Truth(p)    == IF p THEN 1 ELSE 0

\* Any carry may be left from before.
AluInit ==
    /\ task \in Tasks
    /\ first \in [1 .. W -> Samples] /\ second \in [1 .. W -> Samples]
    /\ task \in {"double", "halve"} => second = first
    /\ \E c, d \in Bit :
         /\ task \notin {"add", "subtract"} => d = 0
         /\ cpu = [A |-> 0, C |-> c, Z |-> 0, N |-> 0, V |-> 0, D |-> d]
         /\ carry = c
    /\ result = [i \in 1 .. W |-> 0]
    /\ done = 0

-----------------------------------------------------------------------------
(* The ac_Execute functions: the registers they make of the registers p.   *)

\* The registers p after ac_SetZeroNegative(a).
ac_SetZeroNegative(p, a) == [p EXCEPT !.Z = Truth(a = 0), !.N = BitOf(7, a)]

\* Mutant of Overflows: the sign of the first operand is compared alone.
Overflows_OneSign(old, a, v) == BitOf(7, old) # BitOf(7, a)

\* ac_SetOverflow: the operands have one sign and the result the other.
Overflows(old, a, v) ==
    BitOf(7, old) = BitOf(7, v) /\ BitOf(7, a) # BitOf(7, v)

\* Mutant of Decimal: the carry out of the lower digit is tested in one operand.
Decimal_HalfCarry(s, a, v) ==
    LET t == s + 102
    IN  s + 6 * ((BitOf(4, t) + BitOf(4, a)) % 2) + 96 * BitOf(8, t)

\* Result += ((((Result + 0x66) ^ A ^ v) >> 3) & 0x22) * 3: bits 4 and 8 of the
\* exclusive or weigh 6 and 96.
Decimal(s, a, v) ==
    LET t == s + 102
    IN  s + 6 * ((BitOf(4, t) + BitOf(4, a) + BitOf(4, v)) % 2) + 96 * BitOf(8, t)

\* A + v + C, a WORD, corrected in decimal mode.
Sum(p, v) ==
    LET s == p.A + v + p.C
    IN  IF p.D = 1 THEN Decimal(s, p.A, v) ELSE s

ac_Execute_ADC(p, v) ==
    LET s == Sum(p, v)
        a == s % 256
    IN  ac_SetZeroNegative([p EXCEPT !.A = a, !.C = Truth(s \div 256 > 0),
                                     !.V = Truth(Overflows(p.A, a, v))], a)

\* ac_Execute_ADC(~v)
ac_Execute_SBC(p, v) == ac_Execute_ADC(p, 255 - v)

ac_Execute_CMP(p, v) ==
    ac_SetZeroNegative([p EXCEPT !.C = Truth(p.A >= v)], (p.A - v) % 256)

\* What a shift of the operand, here in A, leaves there and in C.
Shifted(p, v, c) == ac_SetZeroNegative([p EXCEPT !.A = v, !.C = c], v)

ac_Execute_ASL(p) == Shifted(p, (2 * p.A) % 256, BitOf(7, p.A))

ac_Execute_LSR(p) == Shifted(p, p.A \div 2, BitOf(0, p.A))

ac_Execute_ROL(p) == Shifted(p, ((2 * p.A) % 256) + p.C, BitOf(7, p.A))

ac_Execute_ROR(p) == Shifted(p, p.A \div 2 + 128 * p.C, BitOf(0, p.A))

-----------------------------------------------------------------------------
(* The program.                                                            *)

\* The place of the byte that is next.
Place == IF task = "halve" THEN W - done ELSE done + 1

\* The registers with the first operand's byte in A.
Fetched == [cpu EXCEPT !.A = first[Place]]

\* Task t goes on with an instruction that leaves the registers p.
Step(t, p) ==
    /\ task = t
    /\ done < W
    /\ cpu' = p
    /\ result' = [result EXCEPT ![Place] = p.A]
    /\ done' = done + 1
    /\ UNCHANGED <<task, first, second, carry>>

Add      == Step("add", ac_Execute_ADC(Fetched, second[Place]))
Subtract == Step("subtract", ac_Execute_SBC(Fetched, second[Place]))
Compare  == Step("compare", IF done = 0 THEN ac_Execute_CMP(Fetched, second[Place])
                                        ELSE ac_Execute_SBC(Fetched, second[Place]))
Double   == Step("double", IF done = 0 THEN ac_Execute_ASL(Fetched)
                                       ELSE ac_Execute_ROL(Fetched))
Halve    == Step("halve", IF done = 0 THEN ac_Execute_LSR(Fetched)
                                      ELSE ac_Execute_ROR(Fetched))

AluNext == Add \/ Subtract \/ Compare \/ Double \/ Halve

AluSpec == AluInit /\ [][AluNext]_aluVars

-----------------------------------------------------------------------------
(* Properties.                                                             *)

\* The powers of b, and the number that the lowest n digits of f are to base b.
Power(b) ==
    LET pow[n \in 0 .. W] == IF n = 0 THEN 1 ELSE b * pow[n - 1]
    IN  pow
Digits(f, b) ==
    LET num[n \in 0 .. W] == IF n = 0 THEN 0 ELSE num[n - 1] + f[n] * Power(b)[n - 1]
    IN  num

\* The value of the bytes done, the next number that they cannot hold, and the
\* value as a signed number.
Value(f)  == Digits(f, 256)[done]
Base      == Power(256)[done]
Twos(n)   == IF n < Base \div 2 THEN n ELSE n - Base
Fits(n)   == -(Base \div 2) <= n /\ n < Base \div 2

\* Binary-coded decimal.
IsBcd(f)    == \A i \in 1 .. W : f[i] % 16 < 10 /\ f[i] \div 16 < 10
BcdByte(b)  == 10 * (b \div 16) + (b % 16)
BcdValue(f) == Digits([i \in 1 .. W |-> BcdByte(f[i])], 100)[done]

\* Additions over several bytes are right after each of them: the bytes and
\* the carry are the sum, and V says that the sum of the signed numbers does
\* not fit.
Adds ==
    done > 0 /\ task = "add" /\ cpu.D = 0 =>
        /\ Value(result) + cpu.C * Base = Value(first) + Value(second) + carry
        /\ (cpu.V = 1) = ~Fits(Twos(Value(first)) + Twos(Value(second)) + carry)

\* Subtractions borrow right across bytes, C is 0 exactly when there is one,
\* and V is the signed overflow.
Subtracts ==
    done > 0 /\ task = "subtract" /\ cpu.D = 0 =>
        /\ Value(result) - (1 - cpu.C) * Base = Value(first) - Value(second) - (1 - carry)
        /\ (cpu.C = 1) = (Value(first) - Value(second) - (1 - carry) >= 0)
        /\ (cpu.V = 1) = ~Fits(Twos(Value(first)) - Twos(Value(second)) - (1 - carry))

\* CMP and SBCs over several bytes leave C as the unsigned comparison and, for
\* more than one byte, N and V as the signed one: the conditions BCS and the
\* idiom BVC, EOR, BMI rely on.
Compares ==
    done > 0 /\ task = "compare" =>
        /\ (cpu.C = 1) = (Value(first) >= Value(second))
        /\ done > 1 => (cpu.N # cpu.V) = (Twos(Value(first)) < Twos(Value(second)))

\* ASL and ROLs double, LSR and RORs halve, with the bit that falls out in C.
Shifts ==
    /\ done > 0 /\ task = "double" => Value(result) + cpu.C * Base = 2 * Value(first)
    /\ done = W /\ task = "halve"  => 2 * Value(result) + cpu.C = Value(first)

\* The flags that ac_Execute_ADC, SBC, CMP and the shifts leave are right at
\* every byte boundary, for programs that chain them: arithmetic over several
\* bytes is arithmetic on whole numbers, signed and unsigned.
WordArithmetic == Adds /\ Subtracts /\ Compares /\ Shifts

\* In decimal mode the sum of two decimal numbers is the decimal sum, digits
\* and carry alike, over several bytes.
AddsDecimal ==
    task = "add" /\ cpu.D = 1 /\ IsBcd(first) /\ IsBcd(second) =>
        /\ IsBcd(result)
        /\ BcdValue(result) + cpu.C * Power(100)[done]
             = BcdValue(first) + BcdValue(second) + carry

=============================================================================
