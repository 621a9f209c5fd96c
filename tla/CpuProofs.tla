------------------------------ MODULE CpuProofs -----------------------------
(***************************************************************************)
(* The cycle counter of ac_Run never wraps around unnoticed, whatever the  *)
(* program, the budget and the width of unsigned long; and whatever was    *)
(* pushed on a stack of any size comes back as it was, unless the stack    *)
(* has been written over it.  (CpuRun.)                                    *)
(*                                                                         *)
(* Arithmetic over numbers of any length, a byte at a time, is arithmetic  *)
(* on whole numbers, and in decimal mode decimal arithmetic.  (Alu.)  The  *)
(* numbers are recursive functions, and what these compute is proved by    *)
(* induction, in the form that a set with a member has a least one.        *)
(***************************************************************************)
EXTENDS CpuRun, Alu, WellFoundedInduction, TLAPS

\* NoRunaway with the types that the subtraction in Turn needs.
Counts ==
    /\ cycle \in 0 .. CycleMod - 1
    /\ budget \in Nat
    /\ NoRunaway

\* The turn of the loop keeps Counts, whatever n the instruction spends: a
\* wrapped counter is above the one before it, and the loop breaks.
LEMMA TurnCounts ==
    ASSUME NEW g, NEW n \in Nat, Counts, Turn(g, n)
    PROVE  Counts'
<1>1. CycleMod \in Nat \ {0}
  BY CpuAssumption
<1> DEFINE left == (cycle - n) % CycleMod
<1>2. left \in 0 .. CycleMod - 1
  BY <1>1 DEF Counts
<1>3. cycle' = left /\ budget' = budget /\ at = "run"
      /\ at' = IF left <= cycle /\ left > 0 THEN "run" ELSE "idle"
  BY DEF Turn, Continues
<1> HIDE DEF left
<1> QED
  BY <1>1, <1>2, <1>3 DEF Counts, NoRunaway

\* The modes of every group are in the tables, and it spends a natural number
\* of cycles.
LEMMA ModesKnown ==
    ASSUME NEW g \in DOMAIN Groups, NEW m \in Groups[g].modes
    PROVE  m \in DOMAIN Spent /\ m \in DOMAIN Operands /\ Groups[g].spends \in Nat
<1> DEFINE Sound(r) == r.modes \subseteq DOMAIN Spent /\ r.spends \in Nat
<1>1. Sound(LDA) /\ Sound(LDX) /\ Sound(LDY) /\ Sound(STA) /\ Sound(STX) /\ Sound(STY)
  BY DEF Group, Spent, ReadModes, LDA, LDX, LDY, STA, STX, STY
<1>2. Sound(AND) /\ Sound(BIT) /\ Sound(TAX) /\ Sound(TXA) /\ Sound(INX) /\ Sound(INC)
  BY DEF Group, Spent, ReadModes, AND, BIT, TAX, TXA, INX, INC
<1>3. Sound(ADC) /\ Sound(CMP) /\ Sound(CPX) /\ Sound(ASL) /\ Sound(ROL)
      /\ Sound(ASL_A) /\ Sound(NOP) /\ Sound(UNKNOWN)
  BY DEF Group, Spent, ReadModes, ADC, CMP, CPX, ASL, ROL, ASL_A, NOP, UNKNOWN
<1>4. Groups[g] \in {LDA, LDX, LDY, STA, STX, STY, AND, BIT, TAX, TXA, INX, INC,
                     ADC, CMP, CPX, ASL, ROL, ASL_A, NOP, UNKNOWN}
  BY DEF Groups, ORA, EOR, SBC, LSR, ROR
<1>5. \A r \in {LDA, LDX, LDY, STA, STX, STY, AND, BIT, TAX, TXA, INX, INC,
                ADC, CMP, CPX, ASL, ROL, ASL_A, NOP, UNKNOWN} : Sound(r)
  <2> HIDE DEF Sound
  <2> QED
    BY <1>1, <1>2, <1>3
<1>6. m \in DOMAIN Spent /\ Groups[g].spends \in Nat
  BY <1>4, <1>5
<1>7. DOMAIN Spent = DOMAIN Operands
  BY DEF Spent, Operands
<1> QED
  BY <1>6, <1>7

LEMMA ComputeSpends ==
    ASSUME NEW g \in DOMAIN Groups, NEW m \in Groups[g].modes
    PROVE  Spent[m] + Groups[g].spends \in Nat
<1>1. \A k \in DOMAIN Spent : Spent[k] \in Nat
  BY DEF Spent
<1> QED
  BY <1>1, ModesKnown

\* Every step of the CPU keeps Counts.
LEMMA NextCounts ==
    ASSUME Counts, [Next]_vars
    PROVE  Counts'
<1>1. CASE UNCHANGED vars
  BY <1>1 DEF vars, Counts, NoRunaway
<1>2. CASE \E b \in Budgets : Run(b)
  BY <1>2, CpuAssumption DEF Run, Counts, NoRunaway
<1>3. CASE \E g \in DOMAIN Groups \cap Ops : \E m \in Groups[g].modes : Compute(g, m)
  <2>0. PICK g \in DOMAIN Groups : \E m \in Groups[g].modes : Compute(g, m)
    BY <1>3
  <2>1. PICK m \in Groups[g].modes : Compute(g, m)
    BY <2>0
  <2>2. Turn(g, Spent[m] + Groups[g].spends)
    BY <2>1 DEF Compute
  <2> QED
    BY <2>2, ComputeSpends, TurnCounts
<1>4. CASE \E g \in DOMAIN Groups \cap Ops : Stray(g)
  BY <1>4 DEF Stray, Counts, NoRunaway
<1>5. CASE \E f \in Switched, v \in BOOLEAN : SetFlag(f, v)
  BY <1>5, TurnCounts DEF SetFlag
<1>6. CASE \E f \in Branched, v \in BOOLEAN, o \in Values : Branch(f, v, o)
  BY <1>6, TurnCounts DEF Branch
<1>7. CASE \E t \in Targets : JMP_ABS(t) \/ JMP_IND(t) \/ JSR(t) \/ BRK(t)
  BY <1>7, TurnCounts DEF JMP_ABS, JMP_IND, JSR, BRK
<1>8. CASE PHA \/ PLA \/ PHP \/ PLP \/ RTS \/ RTI
  BY <1>8, TurnCounts DEF PHA, PLA, PHP, PLP, RTS, RTI
<1>9. CASE \E x \in Values : TXS(x)
  BY <1>9, TurnCounts DEF TXS
<1> QED
  BY <1>1, <1>2, <1>3, <1>4, <1>5, <1>6, <1>7, <1>8, <1>9 DEF Next

\* Whatever instructions ac_Run executes, and although a case may take 5 from
\* a counter of 1, the loop goes on only with a counter between 1 and its
\* budget: the slice it was given is never turned into 2^32 cycles.
THEOREM SliceBounded == Spec => []NoRunaway
<1>1. Init => Counts
  BY CpuAssumption DEF Init, Counts, NoRunaway
<1>2. Counts /\ [Next]_vars => Counts'
  BY NextCounts
<1>3. Counts => NoRunaway
  BY DEF Counts
<1> QED
  BY <1>1, <1>2, <1>3, PTL DEF Spec

-----------------------------------------------------------------------------
(* Modular arithmetic: SP and PC wrap around at most once in a step.       *)

LEMMA ModOnce ==
    ASSUME NEW m \in Nat \ {0}, NEW x \in Int, x >= -m, x < 2 * m
    PROVE  x % m = IF x < 0 THEN x + m ELSE IF x < m THEN x ELSE x - m
<1> DEFINE q == x \div m
           r == x % m
<1>1. q \in Int /\ r \in 0 .. m - 1 /\ x = m * q + r
  OBVIOUS
<1> HIDE DEF q, r
<1>2. q \in {-1, 0, 1}
  <2>1. ASSUME q >= 2 PROVE FALSE
    <3>1. m * q >= m * 2
      BY <1>1, <2>1
    <3> QED
      BY <1>1, <3>1
  <2>2. ASSUME q <= -2 PROVE FALSE
    <3>1. m * q <= m * (-2)
      BY <1>1, <2>2
    <3> QED
      BY <1>1, <3>1
  <2> QED
    BY <1>1, <2>1, <2>2
<1>3. r = IF x < 0 THEN x + m ELSE IF x < m THEN x ELSE x - m
  BY <1>1, <1>2
<1> QED
  BY <1>3 DEF r

LEMMA SafeMoves ==
    ASSUME NEW s \in Byte, NEW n \in 0 .. 3
    PROVE  /\ safeDec(s, n) \in Byte /\ safeInc(s, n) \in Byte
           /\ safeDec(s, n) = IF s < n THEN s - n + B ELSE s - n
           /\ safeInc(s, n) = IF s + n < B THEN s + n ELSE s + n - B
<1>1. B \in Nat \ {0, 1, 2}
  BY CpuAssumption
<1>2. s \in 0 .. B - 1
  BY DEF Byte
<1> DEFINE Once(x) == x % B = IF x < 0 THEN x + B ELSE IF x < B THEN x ELSE x - B
<1>3. \A x \in Int : x >= -B /\ x < 2 * B => Once(x)
  BY <1>1, ModOnce
<1>4. /\ s - n \in Int /\ s - n >= -B /\ s - n < 2 * B
      /\ s + n \in Int /\ s + n >= -B /\ s + n < 2 * B
  BY <1>1, <1>2
<1>5. Once(s - n) /\ Once(s + n)
  <2> HIDE DEF Once
  <2> QED
    BY <1>3, <1>4
<1> QED
  BY <1>1, <1>2, <1>5 DEF safeDec, safeInc, Byte

-----------------------------------------------------------------------------
(* The stack.                                                              *)

FrameType == [of : {"PHA", "PHP", "JSR", "BRK"}, sp : Byte, ret : Word,
              ps : SUBSET Tracked, a : Byte]

TypeOK ==
    /\ A \in Byte /\ PC \in Word /\ SP \in Byte
    /\ PS \in SUBSET Tracked
    /\ DOMAIN stack = Byte
    /\ frames \subseteq FrameType

\* The stack holds what was pushed with frame f.
Intact(f) ==
    /\ f.of = "PHA" => stack[f.sp] = f.a
    /\ f.of = "PHP" => stack[f.sp] = f.ps \cup ({"B"} \cap Tracked)
    /\ f.of = "JSR" =>
         (stack[safeDec(f.sp, 1)] + B * stack[f.sp] + 1) % (B * B) = f.ret
    /\ f.of = "BRK" =>
         /\ stack[safeDec(f.sp, 1)] + B * stack[f.sp] = f.ret
         /\ stack[safeDec(f.sp, 2)] = f.ps \cup ({"B"} \cap Tracked)

\* No byte belongs to two frames, so that at most one ends at SP.
Apart == \A e, f \in frames : e = f \/ Bytes(e) \cap Bytes(f) = {}

StackInv == TypeOK /\ (\A f \in frames : Intact(f)) /\ Apart

LEMMA WordMod ==
    /\ B * B \in Nat \ {0} /\ B * B >= 9
    /\ \A x \in Int : x % (B * B) \in Word
<1>1. B \in Nat /\ B >= 3
  BY CpuAssumption
<1>2. B * B \in Nat /\ B * B >= 9
  BY <1>1
<1> DEFINE M == B * B
<1>3. M \in Nat \ {0} /\ Word = 0 .. M - 1
  BY <1>2 DEF Word
<1> HIDE DEF M
<1>4. \A x \in Int : x % M \in Word
  BY <1>3
<1> QED
  BY <1>2, <1>4 DEF M

LEMMA PastIsWord ==
    ASSUME PC \in Word, NEW n \in Nat
    PROVE  Past(n) \in Word
<1>1. PC + 1 + n \in Int
  BY DEF Word
<1> QED
  BY <1>1, WordMod DEF Past

\* The bytes that the pulls read belong to the frame.
LEMMA FrameBytes ==
    ASSUME NEW f \in FrameType
    PROVE  /\ f.sp \in Bytes(f) /\ f.sp \in Byte /\ Bytes(f) \subseteq Byte
           /\ f.of \in {"JSR", "BRK"} => safeDec(f.sp, 1) \in Bytes(f)
           /\ f.of = "BRK" => safeDec(f.sp, 2) \in Bytes(f)
<1>1. f.sp \in Byte /\ Size[f.of] \in 1 .. 3
      /\ (f.of \in {"JSR", "BRK"} => Size[f.of] >= 2) /\ (f.of = "BRK" => Size[f.of] = 3)
  BY DEF FrameType, Size
<1>2. safeDec(f.sp, 0) = f.sp
  BY <1>1, SafeMoves DEF Byte
<1>3. \A i \in 0 .. Size[f.of] - 1 : i \in 0 .. 3 /\ safeDec(f.sp, i) \in Byte
  BY <1>1, SafeMoves
<1>4. Bytes(f) \subseteq Byte
  BY <1>3 DEF Bytes
<1>5. f.sp \in Bytes(f)
  <2>1. 0 \in 0 .. Size[f.of] - 1
    BY <1>1
  <2> QED
    BY <1>2, <2>1 DEF Bytes
<1>6. ASSUME f.of \in {"JSR", "BRK"}
      PROVE  safeDec(f.sp, 1) \in Bytes(f)
  <2>1. 1 \in 0 .. Size[f.of] - 1
    BY <1>1, <1>6
  <2> QED
    BY <2>1 DEF Bytes
<1>7. ASSUME f.of = "BRK"
      PROVE  safeDec(f.sp, 2) \in Bytes(f)
  <2>1. 2 \in 0 .. Size[f.of] - 1
    BY <1>1, <1>7
  <2> QED
    BY <2>1 DEF Bytes
<1> QED
  BY <1>1, <1>4, <1>5, <1>6, <1>7

\* Pulling j of n bytes leads back to where the n - j others were pushed.
LEMMA Back ==
    ASSUME NEW s \in Byte, NEW n \in 1 .. 3, NEW j \in 1 .. n
    PROVE  safeInc(safeDec(s, n), j) = safeDec(s, n - j)
<1>1. B \in Nat /\ B >= 3 /\ s \in 0 .. B - 1
  BY CpuAssumption DEF Byte
<1>2. n \in 0 .. 3 /\ j \in 0 .. 3 /\ n - j \in 0 .. 3
  OBVIOUS
<1>3. safeDec(s, n) \in Byte
  BY <1>2, SafeMoves
<1> DEFINE d == safeDec(s, n)
<1>4. d = (IF s < n THEN s - n + B ELSE s - n)
      /\ safeDec(s, n - j) = (IF s < n - j THEN s - (n - j) + B ELSE s - (n - j))
  BY <1>2, SafeMoves
<1>5. safeInc(d, j) = IF d + j < B THEN d + j ELSE d + j - B
  BY <1>2, <1>3, SafeMoves
<1> HIDE DEF d
<1>6. safeInc(d, j) = safeDec(s, n - j)
  BY <1>1, <1>2, <1>4, <1>5
<1> QED
  BY <1>6 DEF d

\* The frame that a pull finds is the one that was pushed, and the only one.
LEMMA TopFound ==
    ASSUME StackInv, NEW g, Pulls(g)
    PROVE  /\ Top \in frames /\ Top \in FrameType /\ Top.of = g /\ Intact(Top)
           /\ SP = safeDec(Top.sp, Size[g])
<1>1. PICK f \in frames : f.of = g /\ End(f) = SP
  BY DEF Pulls
<1>2. Top \in frames /\ End(Top) = SP
  BY <1>1 DEF Top
<1>3. ASSUME NEW e \in frames, End(e) = SP
      PROVE  safeInc(SP, 1) \in Bytes(e)
  <2>1. e.sp \in Byte /\ Size[e.of] \in 1 .. 3
    BY DEF StackInv, TypeOK, FrameType, Size
  <2>2. safeInc(SP, 1) = safeDec(e.sp, Size[e.of] - 1)
    <3> DEFINE n == Size[e.of]
    <3>1. n \in 1 .. 3 /\ 1 \in 1 .. n /\ SP = safeDec(e.sp, n)
      BY <1>3, <2>1 DEF End
    <3> HIDE DEF n
    <3>2. safeInc(SP, 1) = safeDec(e.sp, n - 1)
      BY <2>1, <3>1, Back
    <3> QED
      BY <3>2 DEF n
  <2>3. Size[e.of] - 1 \in 0 .. Size[e.of] - 1
    BY <2>1
  <2> QED
    BY <2>2, <2>3 DEF Bytes
<1>4. Top = f
  <2>1. safeInc(SP, 1) \in Bytes(f) /\ safeInc(SP, 1) \in Bytes(Top)
    BY <1>1, <1>2, <1>3
  <2> QED
    BY <1>1, <1>2, <2>1 DEF StackInv, Apart
<1> QED
  BY <1>1, <1>2, <1>4 DEF StackInv, TypeOK, End

\* A frame whose bytes keep their values stays intact.
LEMMA IntactKept ==
    ASSUME NEW f \in FrameType, Intact(f), \A i \in Bytes(f) : stack'[i] = stack[i]
    PROVE  Intact(f)'
<1>1. stack'[f.sp] = stack[f.sp]
  BY FrameBytes
<1>2. f.of \in {"JSR", "BRK"} => stack'[safeDec(f.sp, 1)] = stack[safeDec(f.sp, 1)]
  BY FrameBytes
<1>3. f.of = "BRK" => stack'[safeDec(f.sp, 2)] = stack[safeDec(f.sp, 2)]
  BY FrameBytes
<1> QED
  BY <1>1, <1>2, <1>3 DEF Intact

\* A push writes the bytes of its frame, and forgets the frames it writes over.
LEMMA PushKeeps ==
    ASSUME StackInv, NEW f \in FrameType, frames' = Push(f), Intact(f)',
           \A i \in Byte \ Bytes(f) : stack'[i] = stack[i]
    PROVE  frames' \subseteq FrameType /\ (\A e \in frames : Intact(e))' /\ Apart'
<1>1. frames' = {e \in frames : Bytes(e) \cap Bytes(f) = {}} \cup {f}
  BY DEF Push
<1>2. frames \subseteq FrameType /\ Apart /\ \A e \in frames : Intact(e)
  BY DEF StackInv, TypeOK
<1>3. frames' \subseteq FrameType
  BY <1>1, <1>2
<1>4. ASSUME NEW e \in frames'
      PROVE  Intact(e)'
  <2>1. CASE e = f
    BY <2>1
  <2>2. CASE e \in frames /\ Bytes(e) \cap Bytes(f) = {}
    <3>1. e \in FrameType /\ Intact(e)
      BY <1>2, <2>2
    <3>2. Bytes(e) \subseteq Byte
      BY <3>1, FrameBytes
    <3>3. \A i \in Bytes(e) : stack'[i] = stack[i]
      BY <2>2, <3>2
    <3> QED
      BY <3>1, <3>3, IntactKept
  <2> QED
    BY <1>1, <2>1, <2>2
<1>5. Apart'
  BY <1>1, <1>2 DEF Apart, Bytes, safeDec
<1> QED
  BY <1>3, <1>4, <1>5

\* A pull forgets a frame.
LEMMA PullKeeps ==
    ASSUME StackInv, frames' \subseteq frames, stack' = stack
    PROVE  frames' \subseteq FrameType /\ (\A e \in frames : Intact(e))' /\ Apart'
<1>1. \A e \in frames' : e \in FrameType /\ Intact(e)
  BY DEF StackInv, TypeOK
<1>2. \A e \in frames' : Intact(e)'
  BY <1>1, IntactKept
<1> QED
  BY <1>1, <1>2 DEF StackInv, Apart, Bytes, safeDec

-----------------------------------------------------------------------------
(* What the pulls find.                                                    *)

LEMMA RTSFinds ==
    ASSUME StackInv, RTS
    PROVE  PC' = Top.ret /\ Top \in FrameType
<1>1. Top \in FrameType /\ Top.of = "JSR" /\ Intact(Top) /\ SP = safeDec(Top.sp, 2)
  BY TopFound DEF RTS, Size
<1> DEFINE s == Top.sp
<1>2. s \in Byte
  BY <1>1 DEF FrameType
<1>3. SP = safeDec(s, 2) /\ (stack[safeDec(s, 1)] + B * stack[s] + 1) % (B * B) = Top.ret
  BY <1>1 DEF Intact
<1> HIDE DEF s
<1>4. safeInc(SP, 1) = safeDec(s, 1) /\ safeInc(SP, 2) = s
  <2>1. safeInc(safeDec(s, 2), 1) = safeDec(s, 2 - 1)
    BY <1>2, Back
  <2>2. safeInc(safeDec(s, 2), 2) = safeDec(s, 2 - 2)
    BY <1>2, Back
  <2>3. safeDec(s, 0) = s
    BY <1>2, SafeMoves DEF Byte
  <2> QED
    BY <1>3, <2>1, <2>2, <2>3
<1> QED
  BY <1>1, <1>3, <1>4 DEF RTS, PopWord

LEMMA RTIFinds ==
    ASSUME StackInv, RTI
    PROVE  /\ PC' = Top.ret /\ Top \in FrameType
           /\ PS' = Top.ps \cup ({"B"} \cap Tracked)
<1>1. Top \in FrameType /\ Top.of = "BRK" /\ Intact(Top) /\ SP = safeDec(Top.sp, 3)
  BY TopFound DEF RTI, Size
<1> DEFINE s == Top.sp
<1>2. s \in Byte
  BY <1>1 DEF FrameType
<1>3. SP = safeDec(s, 3) /\ stack[safeDec(s, 1)] + B * stack[s] = Top.ret
      /\ stack[safeDec(s, 2)] = Top.ps \cup ({"B"} \cap Tracked)
  BY <1>1 DEF Intact
<1> HIDE DEF s
<1>4. /\ safeInc(SP, 1) = safeDec(s, 2)
      /\ safeInc(safeInc(SP, 1), 1) = safeDec(s, 1)
      /\ safeInc(safeInc(SP, 1), 2) = s
  <2>1. safeInc(safeDec(s, 3), 1) = safeDec(s, 3 - 1)
    BY <1>2, Back
  <2>2. safeInc(safeDec(s, 2), 1) = safeDec(s, 2 - 1)
    BY <1>2, Back
  <2>3. safeInc(safeDec(s, 2), 2) = safeDec(s, 2 - 2)
    BY <1>2, Back
  <2>4. safeDec(s, 0) = s
    BY <1>2, SafeMoves DEF Byte
  <2> QED
    BY <1>3, <2>1, <2>2, <2>3, <2>4
<1>5. PC' = PopWord(safeInc(SP, 1)) /\ PS' = stack[safeInc(SP, 1)]
  BY DEF RTI
<1>6. PC' = Top.ret
  BY <1>3, <1>4, <1>5 DEF PopWord
<1> QED
  BY <1>1, <1>3, <1>4, <1>5, <1>6

\* PLA and PLP read the one byte of their frame.
LEMMA PulledByte ==
    ASSUME StackInv, NEW g \in {"PHA", "PHP"}, Pulls(g)
    PROVE  /\ Top \in FrameType /\ Top.of = g /\ Intact(Top)
           /\ safeInc(SP, 1) = Top.sp
<1>1. Top \in FrameType /\ Top.of = g /\ Intact(Top) /\ SP = safeDec(Top.sp, 1)
  BY TopFound DEF Size
<1>2. Top.sp \in Byte
  BY <1>1 DEF FrameType
<1>3. safeInc(safeDec(Top.sp, 1), 1) = safeDec(Top.sp, 1 - 1)
  BY <1>2, Back
<1>4. safeDec(Top.sp, 0) = Top.sp
  BY <1>2, SafeMoves DEF Byte
<1> QED
  BY <1>1, <1>3, <1>4

LEMMA PLAFinds ==
    ASSUME StackInv, PLA
    PROVE  A' = Top.a /\ Top \in FrameType
  BY PulledByte DEF PLA, Intact

LEMMA PLPFinds ==
    ASSUME StackInv, PLP
    PROVE  /\ PS' = Top.ps \cup ({"B"} \cap Tracked) \cup ({"U"} \cap Tracked)
           /\ Top \in FrameType
  BY PulledByte DEF PLP, Intact

-----------------------------------------------------------------------------
(* What the pushes leave.                                                  *)

\* The pushed PC is the one before the return address, also at the end of
\* memory.
LEMMA ReturnAddress ==
    ASSUME PC \in Word
    PROVE  (Past(1) + 1) % (B * B) = Past(2)
<1> DEFINE M == B * B
           Once(x) == x % M = IF x < 0 THEN x + M ELSE IF x < M THEN x ELSE x - M
<1>1. M \in Nat \ {0} /\ M >= 9 /\ PC \in 0 .. M - 1
  BY WordMod DEF Word
<1>2. Past(1) = (PC + 1 + 1) % M /\ Past(2) = (PC + 1 + 2) % M
  BY DEF Past
<1> HIDE DEF M
<1>3. \A x \in Int : x >= -M /\ x < 2 * M => Once(x)
  BY <1>1, ModOnce
<1>4. Once(PC + 1 + 1) /\ Once(PC + 1 + 2)
  <2> HIDE DEF Once
  <2>1. /\ PC + 1 + 1 \in Int /\ PC + 1 + 1 >= -M /\ PC + 1 + 1 < 2 * M
        /\ PC + 1 + 2 \in Int /\ PC + 1 + 2 >= -M /\ PC + 1 + 2 < 2 * M
    BY <1>1
  <2> QED
    BY <1>3, <2>1
<1>5. Past(1) \in 0 .. M - 1
  BY <1>1, <1>2, <1>4
<1>6. Once(Past(1) + 1)
  <2> HIDE DEF Once
  <2>1. Past(1) + 1 \in Int /\ Past(1) + 1 >= -M /\ Past(1) + 1 < 2 * M
    BY <1>1, <1>5
  <2> QED
    BY <1>3, <2>1
<1>7. (Past(1) + 1) % M = Past(2)
  BY <1>1, <1>2, <1>4, <1>5, <1>6
<1> QED
  BY <1>7 DEF M

\* A word is its two bytes.
LEMMA TwoBytes ==
    ASSUME NEW w \in Word
    PROVE  (w % B) + B * (w \div B) = w
<1>1. B \in Nat \ {0} /\ w \in Int
  BY CpuAssumption DEF Word
<1> QED
  BY <1>1

LEMMA PHALeaves ==
    ASSUME StackInv, PHA
    PROVE  StackInv'
<1>1. PICK f : f = Frame("PHA", 0, {}, A)
  OBVIOUS
<1>2. TypeOK /\ 0 \in Word
  BY WordMod DEF StackInv, Word
<1>3. f \in FrameType /\ f.sp = SP /\ f.of = "PHA" /\ f.a = A
  BY <1>1, <1>2 DEF Frame, FrameType, TypeOK
<1>4. frames' = Push(f) /\ stack' = [stack EXCEPT ![SP] = A]
  BY <1>1 DEF PHA, PushByte
<1>5. SP \in Byte /\ DOMAIN stack = Byte /\ SP \in Bytes(f)
  BY <1>2, <1>3, FrameBytes DEF TypeOK
<1>6. \A i \in Byte \ Bytes(f) : stack'[i] = stack[i]
  BY <1>4, <1>5
<1>7. Intact(f)'
  BY <1>3, <1>4, <1>5 DEF Intact
<1>8. TypeOK'
  <2>1. SP' \in Byte /\ PC' \in Word
    BY <1>2, SafeMoves, PastIsWord DEF PHA, TypeOK
  <2>2. frames' \subseteq FrameType
    BY <1>3, <1>4, <1>6, <1>7, PushKeeps
  <2> QED
    BY <1>2, <1>4, <2>1, <2>2 DEF PHA, TypeOK
<1> QED
  BY <1>3, <1>4, <1>6, <1>7, <1>8, PushKeeps DEF StackInv

LEMMA PHPLeaves ==
    ASSUME StackInv, PHP
    PROVE  StackInv'
<1>1. PICK f : f = Frame("PHP", 0, PS, 0)
  OBVIOUS
<1>2. TypeOK /\ 0 \in Word /\ 0 \in Byte
  BY WordMod, CpuAssumption DEF StackInv, Word, Byte
<1>3. f \in FrameType /\ f.sp = SP /\ f.of = "PHP" /\ f.ps = PS
  BY <1>1, <1>2 DEF Frame, FrameType, TypeOK
<1>4. frames' = Push(f) /\ stack' = [stack EXCEPT ![SP] = PS \cup ({"B"} \cap Tracked)]
  BY <1>1 DEF PHP, PushByte
<1>5. SP \in Byte /\ DOMAIN stack = Byte /\ SP \in Bytes(f)
  BY <1>2, <1>3, FrameBytes DEF TypeOK
<1>6. \A i \in Byte \ Bytes(f) : stack'[i] = stack[i]
  BY <1>4, <1>5
<1>7. Intact(f)'
  BY <1>3, <1>4, <1>5 DEF Intact
<1>8. TypeOK'
  <2>1. SP' \in Byte /\ PC' \in Word
    BY <1>2, SafeMoves, PastIsWord DEF PHP, TypeOK
  <2>2. frames' \subseteq FrameType
    BY <1>3, <1>4, <1>6, <1>7, PushKeeps
  <2> QED
    BY <1>2, <1>4, <2>1, <2>2 DEF PHP, TypeOK
<1> QED
  BY <1>3, <1>4, <1>6, <1>7, <1>8, PushKeeps DEF StackInv

\* On a stack of at least three bytes a push does not meet itself.
LEMMA ThreeApart ==
    ASSUME NEW s \in Byte
    PROVE  /\ safeDec(s, 1) \in Byte /\ safeDec(s, 2) \in Byte
           /\ safeDec(s, 1) # s /\ safeDec(s, 2) # s /\ safeDec(s, 1) # safeDec(s, 2)
<1>1. B \in Nat /\ B >= 3 /\ s \in 0 .. B - 1
  BY CpuAssumption DEF Byte
<1>2. /\ safeDec(s, 1) \in Byte /\ safeDec(s, 2) \in Byte
      /\ safeDec(s, 1) = (IF s < 1 THEN s - 1 + B ELSE s - 1)
      /\ safeDec(s, 2) = (IF s < 2 THEN s - 2 + B ELSE s - 2)
  BY SafeMoves
<1> QED
  BY <1>1, <1>2

LEMMA JSRLeaves ==
    ASSUME StackInv, NEW t \in Targets, JSR(t)
    PROVE  StackInv'
<1>1. PICK f : f = Frame("JSR", Past(2), {}, 0)
  OBVIOUS
<1>2. TypeOK /\ 0 \in Byte /\ Past(1) \in Word /\ Past(2) \in Word
  BY PastIsWord, CpuAssumption DEF StackInv, TypeOK, Byte
<1>3. f \in FrameType /\ f.sp = SP /\ f.of = "JSR" /\ f.ret = Past(2)
  BY <1>1, <1>2 DEF Frame, FrameType, TypeOK
<1> DEFINE w == Past(1)
           low == safeDec(SP, 1)
<1>4. frames' = Push(f) /\ stack' = [stack EXCEPT ![SP] = w \div B, ![low] = w % B]
  BY <1>1 DEF JSR, PushWord
<1>5. SP \in Byte /\ DOMAIN stack = Byte /\ SP \in Bytes(f) /\ low \in Bytes(f)
      /\ low \in Byte /\ low # SP
  BY <1>2, <1>3, FrameBytes, ThreeApart DEF TypeOK
<1>6. \A i \in Byte \ Bytes(f) : stack'[i] = stack[i]
  BY <1>4, <1>5
<1>7. Intact(f)'
  <2>1. stack'[SP] = w \div B /\ stack'[low] = w % B
    BY <1>4, <1>5
  <2>2. ((w % B) + B * (w \div B) + 1) % (B * B) = Past(2)
    BY <1>2, TwoBytes, ReturnAddress DEF TypeOK
  <2>3. (stack'[low] + B * stack'[SP] + 1) % (B * B) = f.ret
    BY <1>3, <2>1, <2>2
  <2> QED
    BY <1>3, <2>3 DEF Intact, safeDec
<1>8. TypeOK'
  <2>1. SP' \in Byte /\ PC' \in Word
    BY <1>2, SafeMoves, CpuAssumption DEF JSR, TypeOK, Word
  <2>2. frames' \subseteq FrameType
    BY <1>3, <1>4, <1>6, <1>7, PushKeeps
  <2> QED
    BY <1>2, <1>4, <2>1, <2>2 DEF JSR, TypeOK
<1> QED
  BY <1>3, <1>4, <1>6, <1>7, <1>8, PushKeeps DEF StackInv

LEMMA BRKLeaves ==
    ASSUME StackInv, NEW t \in Targets, BRK(t)
    PROVE  StackInv'
<1>1. PICK f : f = Frame("BRK", Past(1), PS, 0)
  OBVIOUS
<1>2. TypeOK /\ 0 \in Byte /\ Past(1) \in Word
  BY PastIsWord, CpuAssumption DEF StackInv, TypeOK, Byte
<1>3. f \in FrameType /\ f.sp = SP /\ f.of = "BRK" /\ f.ret = Past(1) /\ f.ps = PS
  BY <1>1, <1>2 DEF Frame, FrameType, TypeOK
<1> DEFINE w == Past(1)
           low == safeDec(SP, 1)
           last == safeDec(SP, 2)
           flags == PS \cup ({"B"} \cap Tracked)
<1>4. /\ frames' = Push(f)
      /\ stack' = [[stack EXCEPT ![SP] = w \div B, ![low] = w % B] EXCEPT ![last] = flags]
  BY <1>1 DEF BRK, PushWord, PushByte
<1>5. /\ SP \in Byte /\ low \in Byte /\ last \in Byte /\ DOMAIN stack = Byte
      /\ SP \in Bytes(f) /\ low \in Bytes(f) /\ last \in Bytes(f)
      /\ low # SP /\ last # SP /\ low # last
  BY <1>2, <1>3, FrameBytes, ThreeApart DEF TypeOK
<1>6. \A i \in Byte \ Bytes(f) : stack'[i] = stack[i]
  BY <1>4, <1>5
<1>7. Intact(f)'
  <2>1. stack'[SP] = w \div B /\ stack'[low] = w % B /\ stack'[last] = flags
    BY <1>4, <1>5
  <2>2. (w % B) + B * (w \div B) = w
    BY <1>2, TwoBytes
  <2>3. stack'[low] + B * stack'[SP] = f.ret /\ stack'[last] = f.ps \cup ({"B"} \cap Tracked)
    BY <1>3, <2>1, <2>2
  <2> QED
    BY <1>3, <2>3 DEF Intact, safeDec
<1>8. TypeOK'
  <2>1. SP' \in Byte /\ PC' \in Word
    BY <1>2, SafeMoves, CpuAssumption DEF BRK, TypeOK, Word
  <2>2. frames' \subseteq FrameType
    BY <1>3, <1>4, <1>6, <1>7, PushKeeps
  <2>3. PS' \in SUBSET Tracked
    BY <1>2 DEF BRK, TypeOK
  <2> QED
    BY <1>2, <1>4, <2>1, <2>2, <2>3 DEF BRK, TypeOK
<1> QED
  BY <1>3, <1>4, <1>6, <1>7, <1>8, PushKeeps DEF StackInv

-----------------------------------------------------------------------------
(* Every step keeps the stack.                                             *)

\* A step that leaves the stack alone, and one that pulls.
LEMMA OthersKeep ==
    ASSUME StackInv, stack' = stack, frames' \subseteq frames,
           A' \in Byte, PC' \in Word, SP' \in Byte, PS' \in SUBSET Tracked
    PROVE  StackInv'
<1>1. TypeOK'
  BY PullKeeps DEF StackInv, TypeOK
<1> QED
  BY <1>1, PullKeeps DEF StackInv

LEMMA PullsKeep ==
    ASSUME StackInv, PLA \/ PLP \/ RTS \/ RTI
    PROVE  StackInv'
<1>1. TypeOK /\ stack' = stack /\ frames' \subseteq frames
  BY DEF PLA, PLP, RTS, RTI, StackInv
<1>2. SP' \in Byte
  BY <1>1, SafeMoves DEF PLA, PLP, RTS, RTI, TypeOK
<1>3. CASE PLA
  <2>1. A' \in Byte
    BY <1>3, PLAFinds DEF FrameType
  <2>2. PC' \in Word
    BY <1>1, <1>3, PastIsWord DEF PLA, TypeOK
  <2>3. PS' \in SUBSET Tracked
    BY <1>1, <1>3 DEF PLA, TypeOK
  <2> QED
    BY <1>1, <1>2, <2>1, <2>2, <2>3, OthersKeep
<1>4. CASE PLP
  <2>1. PC' \in Word /\ A' \in Byte
    BY <1>1, <1>4, PastIsWord DEF PLP, TypeOK
  <2>2. PS' \in SUBSET Tracked
    BY <1>4, PLPFinds DEF FrameType
  <2> QED
    BY <1>1, <1>2, <2>1, <2>2, OthersKeep
<1>5. CASE RTS
  <2>1. PC' \in Word
    BY <1>5, RTSFinds DEF FrameType
  <2>2. A' \in Byte /\ PS' \in SUBSET Tracked
    BY <1>1, <1>5 DEF RTS, TypeOK
  <2> QED
    BY <1>1, <1>2, <2>1, <2>2, OthersKeep
<1>6. CASE RTI
  <2>1. PC' \in Word /\ PS' \in SUBSET Tracked
    BY <1>6, RTIFinds DEF FrameType
  <2>2. A' \in Byte
    BY <1>1, <1>6 DEF RTI, TypeOK
  <2> QED
    BY <1>1, <1>2, <2>1, <2>2, OthersKeep
<1> QED
  BY <1>3, <1>4, <1>5, <1>6

\* Computations change A, PC and flags.
LEMMA ComputeKeeps ==
    ASSUME StackInv, NEW g \in DOMAIN Groups,
           (\E m \in Groups[g].modes : Compute(g, m)) \/ Stray(g)
    PROVE  StackInv'
<1>1. TypeOK /\ stack' = stack /\ frames' = frames /\ SP' = SP
  BY DEF Compute, Stray, StackInv
<1>2. PS' \in SUBSET Tracked
  <2>1. PICK f \in Outcomes(g) : PS' = (PS \ Groups[g].sets) \cup f
    BY DEF Compute, Stray
  <2>2. f \subseteq Tracked
    BY DEF Outcomes
  <2> QED
    BY <1>1, <2>1, <2>2 DEF TypeOK
<1>3. A' \in Byte
  BY <1>1, CpuAssumption DEF Compute, Stray, TypeOK, Byte
<1>4. PC' \in Word
  <2>1. \A m \in DOMAIN Operands : Operands[m] \in Nat
    BY DEF Operands
  <2>2. CASE Stray(g)
    <3>1. Operands["INDX"] \in Nat
      BY DEF Operands
    <3> QED
      BY <1>1, <2>2, <3>1, PastIsWord DEF Stray, TypeOK
  <2>3. CASE \E m \in Groups[g].modes : Compute(g, m)
    <3>1. PICK m \in Groups[g].modes : Compute(g, m)
      BY <2>3
    <3>2. m \in DOMAIN Operands
      BY ModesKnown
    <3>3. Operands[m] \in Nat
      BY <2>1, <3>2
    <3> QED
      BY <1>1, <3>1, <3>3, PastIsWord DEF Compute, TypeOK
  <2> QED
    BY <2>2, <2>3
<1> QED
  BY <1>1, <1>2, <1>3, <1>4, OthersKeep DEF TypeOK

LEMMA StackInductive ==
    ASSUME StackInv, [Next]_vars
    PROVE  StackInv'
<1>0. TypeOK
  BY DEF StackInv
<1>1. CASE UNCHANGED vars
  BY <1>0, <1>1, OthersKeep DEF vars, TypeOK
<1>2. CASE \E b \in Budgets : Run(b)
  BY <1>0, <1>2, OthersKeep DEF Run, TypeOK
<1>3. CASE \E g \in DOMAIN Groups \cap Ops : \E m \in Groups[g].modes : Compute(g, m)
  BY <1>3, ComputeKeeps
<1>4. CASE \E g \in DOMAIN Groups \cap Ops : Stray(g)
  BY <1>4, ComputeKeeps
<1>5. CASE \E f \in Switched, v \in BOOLEAN : SetFlag(f, v)
  <2>1. PC' \in Word
    BY <1>0, <1>5, PastIsWord DEF SetFlag, TypeOK
  <2>2. PS' \in SUBSET Tracked
    BY <1>0, <1>5 DEF SetFlag, TypeOK
  <2> QED
    BY <1>0, <1>5, <2>1, <2>2, OthersKeep DEF SetFlag, TypeOK
<1>6. CASE \E f \in Branched, v \in BOOLEAN, o \in Values : Branch(f, v, o)
  <2>1. PICK f \in Branched, v \in BOOLEAN, o \in Values : Branch(f, v, o)
    BY <1>6
  <2>2. Past(1) \in Word /\ Past(1) \in Int /\ Signed(o) \in Int
    BY <1>0, PastIsWord, CpuAssumption DEF TypeOK, Signed, Word
  <2>3. (Past(1) + Signed(o)) % (B * B) \in Word
    BY <2>2, WordMod
  <2>4. PC' \in Word
    BY <2>1, <2>2, <2>3 DEF Branch
  <2> QED
    BY <1>0, <2>1, <2>4, OthersKeep DEF Branch, TypeOK
<1>7. CASE \E t \in Targets : JMP_ABS(t) \/ JMP_IND(t)
  <2>1. PC' \in Word
    BY <1>7, CpuAssumption DEF JMP_ABS, JMP_IND, Word
  <2> QED
    BY <1>0, <1>7, <2>1, OthersKeep DEF JMP_ABS, JMP_IND, TypeOK
<1>8. CASE \E t \in Targets : JSR(t) \/ BRK(t)
  BY <1>8, JSRLeaves, BRKLeaves
<1>9. CASE PHA \/ PHP
  BY <1>9, PHALeaves, PHPLeaves
<1>10. CASE PLA \/ PLP \/ RTS \/ RTI
  BY <1>10, PullsKeep
<1>11. CASE \E x \in Values : TXS(x)
  <2>1. PC' \in Word /\ SP' \in Byte
    BY <1>0, <1>11, PastIsWord, CpuAssumption DEF TXS, TypeOK, Byte
  <2> QED
    BY <1>0, <1>11, <2>1, OthersKeep DEF TXS, TypeOK
<1> QED
  BY <1>1, <1>2, <1>3, <1>4, <1>5, <1>6, <1>7, <1>8, <1>9, <1>10, <1>11 DEF Next

LEMMA StackInit ==
    ASSUME Init
    PROVE  StackInv
<1>1. TypeOK
  BY CpuAssumption DEF Init, TypeOK, Byte, Word
<1> QED
  BY <1>1 DEF Init, StackInv, Apart

\* For a stack of any size, any targets and any program that pulls what it
\* pushed: RTS and RTI go on where they should, whatever was pushed and pulled
\* in between, across the wrap-around of SP and of PC, and whichever stacks
\* TXS has switched to.
THEOREM ReturnsResume == Spec => Resumes
<1>1. Init => StackInv
  BY StackInit
<1>2. StackInv /\ [Next]_vars => StackInv'
  BY StackInductive
<1>3. StackInv /\ [Next]_vars => [RTS \/ RTI => PC' = Top.ret]_vars
  BY RTSFinds, RTIFinds
<1> QED
  BY <1>1, <1>2, <1>3, PTL DEF Spec, Resumes

\* The same for what is restored: the flags by PLP and RTI, A by PLA.
THEOREM PullsRestore == Spec => Restores
<1>1. Init => StackInv
  BY StackInit
<1>2. StackInv /\ [Next]_vars => StackInv'
  BY StackInductive
<1>3. StackInv /\ [Next]_vars =>
        [/\ PLP \/ RTI => PS' \ {"B", "U"} = Top.ps \ {"B", "U"}
         /\ PLA => A' = Top.a]_vars
  <2>1. ASSUME StackInv, PLP \/ RTI
        PROVE  PS' \ {"B", "U"} = Top.ps \ {"B", "U"}
    <3>1. \/ PS' = Top.ps \cup ({"B"} \cap Tracked) \cup ({"U"} \cap Tracked)
          \/ PS' = Top.ps \cup ({"B"} \cap Tracked)
      BY <2>1, PLPFinds, RTIFinds
    <3> QED
      BY <3>1
  <2> QED
    BY <2>1, PLAFinds
<1> QED
  BY <1>1, <1>2, <1>3, PTL DEF Spec, Restores

-----------------------------------------------------------------------------
(* Arithmetic: induction, in a form without operators as parameters.      *)

LEMMA LeastNatural ==
    ASSUME NEW S \in SUBSET Nat, S # {}
    PROVE  \E n \in S : \A m \in S : n <= m
<1> DEFINE R == OpToRel(<, Nat)
<1>1. IsWellFoundedOn(R, Nat)
  BY NatLessThanWellFounded
<1>2. R = {p \in Nat \X Nat : p[1] < p[2]}
  BY DEF OpToRel
<1> HIDE DEF R
<1>3. PICK n \in S : \A m \in S : <<m, n>> \notin R
  BY <1>1, WFMin
<1>4. \A m \in Nat : m < n => <<m, n>> \in R
  <2> SUFFICES ASSUME NEW m \in Nat, m < n PROVE <<m, n>> \in R
    OBVIOUS
  <2>1. <<m, n>> \in Nat \X Nat /\ <<m, n>>[1] = m /\ <<m, n>>[2] = n
    OBVIOUS
  <2> QED
    BY <1>2, <2>1
<1>5. \A m \in S : ~(m < n)
  BY <1>3, <1>4, Zenon
<1>6. \A m \in S : n <= m
  BY <1>5
<1> QED
  BY <1>6

LEMMA SetInduction ==
    ASSUME NEW S, 0 \in S, \A n \in Nat : n \in S => n + 1 \in S
    PROVE  Nat \subseteq S
<1> SUFFICES ASSUME Nat \ S # {} PROVE FALSE
  OBVIOUS
<1>1. PICK n \in Nat \ S : \A m \in Nat \ S : n <= m
  BY LeastNatural
<1>2. n # 0 /\ n - 1 \in Nat /\ n - 1 \in S
  BY <1>1
<1> QED
  BY <1>1, <1>2

\* g starts at z and goes on by F.
Solves(g, w, z, F) ==
    /\ g \in [0 .. w -> Int] /\ g[0] = z
    /\ \A n \in 1 .. w : g[n] = F[<<n, g[n - 1]>>]

\* A value for each number up to w can be defined from the one before.
LEMMA Recursion ==
    ASSUME NEW w \in Nat, NEW z \in Int, NEW F,
           \A n \in Nat, i \in Int : F[<<n, i>>] \in Int
    PROVE  \E g : Solves(g, w, z, F)
<1> DEFINE Sol(g, m) == Solves(g, m, z, F)
           S == {m \in Nat : \E g : Sol(g, m)}
<1>1. 0 \in S
  <2>1. Sol([n \in 0 .. 0 |-> z], 0)
    BY DEF Solves
  <2> QED
    BY <2>1
<1>2. \A m \in Nat : m \in S => m + 1 \in S
  <2> SUFFICES ASSUME NEW m \in Nat, m \in S PROVE m + 1 \in S
    OBVIOUS
  <2>1. PICK g : Sol(g, m)
    OBVIOUS
  <2> DEFINE h == [n \in 0 .. m + 1 |-> IF n = m + 1 THEN F[<<n, g[n - 1]>>] ELSE g[n]]
  <2>2. g[m] \in Int /\ (m + 1) - 1 = m /\ F[<<m + 1, g[m]>>] \in Int
    BY <2>1 DEF Solves
  <2>3. h \in [0 .. m + 1 -> Int]
    <3>1. ASSUME NEW n \in 0 .. m + 1
          PROVE  (IF n = m + 1 THEN F[<<n, g[n - 1]>>] ELSE g[n]) \in Int
      <4>1. CASE n = m + 1
        BY <2>2, <4>1
      <4>2. CASE n # m + 1
        BY <2>1, <4>2 DEF Solves
      <4> QED
        BY <4>1, <4>2
    <3> QED
      BY <3>1
  <2>4. h[0] = z
    BY <2>1 DEF Solves
  <2>5. ASSUME NEW n \in 1 .. m + 1 PROVE h[n] = F[<<n, h[n - 1]>>]
    <3>1. h[n - 1] = g[n - 1]
      BY <2>1 DEF Solves
    <3>2. CASE n = m + 1
      BY <3>1, <3>2
    <3>3. CASE n # m + 1
      BY <2>1, <3>1, <3>3 DEF Solves
    <3> QED
      BY <3>2, <3>3
  <2>6. Sol(h, m + 1)
    BY <2>3, <2>4, <2>5 DEF Solves
  <2> HIDE DEF h
  <2>7. \E f : Sol(f, m + 1)
    BY <2>6
  <2> QED
    BY <2>7
<1> HIDE DEF S
<1>3. w \in S
  BY <1>1, <1>2, SetInduction
<1> QED
  BY <1>3 DEF S

-----------------------------------------------------------------------------
(* Numbers.                                                                *)

LEMMA PowerDef ==
    ASSUME NEW b \in Nat
    PROVE  Power(b) = [n \in 0 .. W |-> IF n = 0 THEN 1 ELSE b * Power(b)[n - 1]]
<1> DEFINE F == [p \in Nat \X Int |-> b * p[2]]
<1>1. W \in Nat /\ 1 \in Int
  BY AluAssumption
<1>2. /\ \A n \in Nat, i \in Int : F[<<n, i>>] = b * i
      /\ \A n \in Nat, i \in Int : F[<<n, i>>] \in Int
  OBVIOUS
<1> HIDE DEF F
<1>3. PICK g : Solves(g, W, 1, F)
  BY <1>1, <1>2, Recursion
<1>4. ASSUME NEW n \in 0 .. W PROVE g[n] = IF n = 0 THEN 1 ELSE b * g[n - 1]
  <2>1. CASE n = 0
    BY <1>3, <2>1 DEF Solves
  <2>2. CASE n # 0
    <3>1. n \in 1 .. W /\ n - 1 \in 0 .. W /\ n \in Nat
      BY <1>1, <2>2
    <3>2. g[n - 1] \in Int
      BY <1>3, <3>1 DEF Solves
    <3> QED
      BY <1>2, <1>3, <2>2, <3>1, <3>2 DEF Solves
  <2> QED
    BY <2>1, <2>2
<1>5. g = [n \in 0 .. W |-> IF n = 0 THEN 1 ELSE b * g[n - 1]]
  BY <1>3, <1>4 DEF Solves
<1>6. \E p : p = [n \in 0 .. W |-> IF n = 0 THEN 1 ELSE b * p[n - 1]]
  BY <1>5
<1> QED
  BY <1>6, Zenon DEF Power

LEMMA Powers ==
    ASSUME NEW b \in Nat \ {0}
    PROVE  /\ Power(b)[0] = 1
           /\ \A n \in 0 .. W : Power(b)[n] \in Nat \ {0}
           /\ \A n \in 1 .. W : Power(b)[n] = b * Power(b)[n - 1]
<1>1. W \in Nat
  BY AluAssumption
<1> DEFINE p == Power(b)
<1>2. p = [n \in 0 .. W |-> IF n = 0 THEN 1 ELSE b * p[n - 1]]
  BY PowerDef
<1> HIDE DEF p
<1>3. /\ p[0] = 1
      /\ \A n \in 0 .. W : n # 0 => p[n] = b * p[n - 1]
  <2>1. 0 \in 0 .. W
    BY <1>1
  <2>2. \A n \in 0 .. W : p[n] = IF n = 0 THEN 1 ELSE b * p[n - 1]
    BY <1>2, Zenon
  <2> QED
    BY <2>1, <2>2, Zenon
<1> DEFINE S == {n \in Nat : n <= W => p[n] \in Nat \ {0}}
<1>4. 0 \in S
  BY <1>1, <1>3
<1>5. ASSUME NEW n \in Nat, n \in S PROVE n + 1 \in S
  <2> SUFFICES ASSUME n + 1 <= W PROVE p[n + 1] \in Nat \ {0}
    OBVIOUS
  <2>1. p[n] \in Nat \ {0} /\ n + 1 \in 0 .. W /\ n + 1 # 0 /\ (n + 1) - 1 = n
    BY <1>1, <1>5
  <2>2. p[n + 1] = b * p[n]
    BY <1>3, <2>1
  <2> QED
    BY <2>1, <2>2
<1> HIDE DEF S
<1>6. Nat \subseteq S
  BY <1>4, <1>5, SetInduction
<1>7. \A n \in 0 .. W : p[n] \in Nat \ {0}
  BY <1>1, <1>6 DEF S
<1>8. \A n \in 1 .. W : p[n] = b * p[n - 1]
  BY <1>1, <1>3
<1> QED
  BY <1>3, <1>7, <1>8 DEF p

LEMMA DigitsDef ==
    ASSUME NEW b \in Nat \ {0}, NEW f \in [1 .. W -> Nat]
    PROVE  Digits(f, b) = [n \in 0 .. W |-> IF n = 0 THEN 0
                                ELSE Digits(f, b)[n - 1] + f[n] * Power(b)[n - 1]]
<1>1. W \in Nat /\ 0 \in Int
  BY AluAssumption
<1> DEFINE e == [n \in Nat |-> IF n \in 1 .. W THEN f[n] * Power(b)[n - 1] ELSE 0]
           F == [p \in Nat \X Int |-> p[2] + e[p[1]]]
<1>2. \A n \in Nat : e[n] \in Int
  <2> SUFFICES ASSUME NEW n \in 1 .. W PROVE f[n] * Power(b)[n - 1] \in Int
    BY <1>1
  <2>1. n - 1 \in 0 .. W
    BY <1>1
  <2>2. f[n] \in Nat /\ Power(b)[n - 1] \in Nat
    BY <2>1, Powers
  <2> QED
    BY <2>2
<1>3. \A n \in 1 .. W : e[n] = f[n] * Power(b)[n - 1]
  BY <1>1
<1> HIDE DEF e
<1>4. /\ \A n \in Nat, i \in Int : F[<<n, i>>] = i + e[n]
      /\ \A n \in Nat, i \in Int : F[<<n, i>>] \in Int
  BY <1>2
<1> HIDE DEF F
<1>5. PICK g : Solves(g, W, 0, F)
  BY <1>1, <1>4, Recursion
<1>6. ASSUME NEW n \in 0 .. W
      PROVE  g[n] = IF n = 0 THEN 0 ELSE g[n - 1] + f[n] * Power(b)[n - 1]
  <2>1. CASE n = 0
    BY <1>5, <2>1 DEF Solves
  <2>2. CASE n # 0
    <3>1. n \in 1 .. W /\ n - 1 \in 0 .. W /\ n \in Nat
      BY <1>1, <2>2
    <3>2. g[n - 1] \in Int
      BY <1>5, <3>1 DEF Solves
    <3>3. g[n] = g[n - 1] + e[n]
      BY <1>4, <1>5, <3>1, <3>2 DEF Solves
    <3> QED
      BY <1>3, <2>2, <3>1, <3>3
  <2> QED
    BY <2>1, <2>2
<1>7. g = [n \in 0 .. W |-> IF n = 0 THEN 0 ELSE g[n - 1] + f[n] * Power(b)[n - 1]]
  BY <1>5, <1>6 DEF Solves
<1>8. \E num : num = [n \in 0 .. W |-> IF n = 0 THEN 0
                                         ELSE num[n - 1] + f[n] * Power(b)[n - 1]]
  BY <1>7
<1> QED
  BY <1>8, Zenon DEF Digits

\* The lowest n digits: the number they are, and that it is below the power.
LEMMA Numbers ==
    ASSUME NEW b \in Nat \ {0}, NEW f \in [1 .. W -> Nat]
    PROVE  /\ Digits(f, b)[0] = 0
           /\ \A n \in 0 .. W : Digits(f, b)[n] \in Nat
           /\ \A n \in 1 .. W :
                 Digits(f, b)[n] = Digits(f, b)[n - 1] + f[n] * Power(b)[n - 1]
<1>1. W \in Nat
  BY AluAssumption
<1> DEFINE d == Digits(f, b)
           p == Power(b)
<1>2. d = [n \in 0 .. W |-> IF n = 0 THEN 0 ELSE d[n - 1] + f[n] * p[n - 1]]
  BY DigitsDef
<1>3. \A n \in 0 .. W : p[n] \in Nat
  BY Powers
<1> HIDE DEF d, p
<1>4. /\ d[0] = 0
      /\ \A n \in 0 .. W : n # 0 => d[n] = d[n - 1] + f[n] * p[n - 1]
  BY <1>1, <1>2
<1> DEFINE S == {n \in Nat : n <= W => d[n] \in Nat}
<1>5. 0 \in S
  BY <1>1, <1>4
<1>6. ASSUME NEW n \in Nat, n \in S PROVE n + 1 \in S
  <2> SUFFICES ASSUME n + 1 <= W PROVE d[n + 1] \in Nat
    OBVIOUS
  <2>1. d[n] \in Nat /\ n + 1 \in 1 .. W /\ n \in 0 .. W /\ (n + 1) - 1 = n
    BY <1>1, <1>6
  <2>2. d[n + 1] = d[n] + f[n + 1] * p[n]
    BY <1>4, <2>1
  <2>3. f[n + 1] \in Nat /\ p[n] \in Nat
    BY <1>3, <2>1
  <2> QED
    BY <2>1, <2>2, <2>3
<1> HIDE DEF S
<1>7. Nat \subseteq S
  BY <1>5, <1>6, SetInduction
<1>8. \A n \in 0 .. W : d[n] \in Nat
  BY <1>1, <1>7 DEF S
<1>9. \A n \in 1 .. W : d[n] = d[n - 1] + f[n] * p[n - 1]
  BY <1>1, <1>4
<1> QED
  BY <1>4, <1>8, <1>9 DEF d, p

\* The lowest m digits say what the number is.
LEMMA SameLow ==
    ASSUME NEW b \in Nat \ {0}, NEW f \in [1 .. W -> Nat], NEW g \in [1 .. W -> Nat],
           NEW m \in 0 .. W, \A i \in 1 .. m : f[i] = g[i]
    PROVE  Digits(f, b)[m] = Digits(g, b)[m]
<1>1. W \in Nat
  BY AluAssumption
<1> DEFINE d == Digits(f, b)
           e == Digits(g, b)
           p == Power(b)
<1>2. d[0] = 0 /\ \A n \in 1 .. W : d[n] = d[n - 1] + f[n] * p[n - 1]
  BY Numbers
<1>3. e[0] = 0 /\ \A n \in 1 .. W : e[n] = e[n - 1] + g[n] * p[n - 1]
  BY Numbers
<1> HIDE DEF d, e, p
<1> DEFINE S == {n \in Nat : n <= m => d[n] = e[n]}
<1>4. 0 \in S
  BY <1>2, <1>3
<1>5. ASSUME NEW n \in Nat, n \in S PROVE n + 1 \in S
  <2> SUFFICES ASSUME n + 1 <= m PROVE d[n + 1] = e[n + 1]
    OBVIOUS
  <2>1. n + 1 \in 1 .. W /\ n + 1 \in 1 .. m /\ (n + 1) - 1 = n /\ d[n] = e[n]
    BY <1>1, <1>5
  <2>2. d[n + 1] = d[n] + f[n + 1] * p[n]
    BY <1>2, <2>1
  <2>3. e[n + 1] = e[n] + g[n + 1] * p[n]
    BY <1>3, <2>1
  <2>4. f[n + 1] = g[n + 1]
    BY <2>1
  <2> QED
    BY <2>1, <2>2, <2>3, <2>4, Zenon
<1> HIDE DEF S
<1>6. Nat \subseteq S
  BY <1>4, <1>5, SetInduction
<1> QED
  BY <1>6 DEF S, d, e

\* The digits above m say what the number is above them.
LEMMA SameHigh ==
    ASSUME NEW b \in Nat \ {0}, NEW f \in [1 .. W -> Nat], NEW g \in [1 .. W -> Nat],
           NEW m \in 0 .. W, \A i \in 1 .. W : i > m => f[i] = g[i]
    PROVE  Digits(f, b)[W] - Digits(f, b)[m] = Digits(g, b)[W] - Digits(g, b)[m]
<1>1. W \in Nat
  BY AluAssumption
<1> DEFINE d == Digits(f, b)
           e == Digits(g, b)
           p == Power(b)
<1>2. /\ \A n \in 1 .. W : d[n] = d[n - 1] + f[n] * p[n - 1]
      /\ \A n \in 0 .. W : d[n] \in Nat /\ p[n] \in Nat
  BY Numbers, Powers
<1>3. /\ \A n \in 1 .. W : e[n] = e[n - 1] + g[n] * p[n - 1]
      /\ \A n \in 0 .. W : e[n] \in Nat
  BY Numbers
<1> HIDE DEF d, e, p
<1> DEFINE S == {n \in Nat : m <= n /\ n <= W => d[n] - d[m] = e[n] - e[m]}
<1>4. 0 \in S
  <2> SUFFICES ASSUME m <= 0 PROVE d[0] - d[m] = e[0] - e[m]
    OBVIOUS
  <2>1. m = 0
    OBVIOUS
  <2> QED
    BY <1>2, <1>3, <2>1
<1>5. ASSUME NEW n \in Nat, n \in S PROVE n + 1 \in S
  <2> SUFFICES ASSUME m <= n + 1, n + 1 <= W PROVE d[n + 1] - d[m] = e[n + 1] - e[m]
    OBVIOUS
  <2>1. CASE m = n + 1
    BY <1>2, <1>3, <2>1
  <2>2. CASE m # n + 1
    <3>1. /\ n + 1 \in 1 .. W /\ n + 1 > m /\ (n + 1) - 1 = n /\ n \in 0 .. W
          /\ d[n] - d[m] = e[n] - e[m]
      BY <1>1, <1>5, <2>2
    <3> DEFINE v == f[n + 1] * p[n]
    <3>2. v \in Nat
      <4>1. f[n + 1] \in Nat /\ p[n] \in Nat
        BY <1>2, <3>1
      <4> QED
        BY <4>1
    <3>3. d[n + 1] = d[n] + v
      BY <1>2, <3>1
    <3>4. e[n + 1] = e[n] + v
      <4>1. f[n + 1] = g[n + 1]
        BY <3>1
      <4>2. e[n + 1] = e[n] + g[n + 1] * p[n]
        BY <1>3, <3>1
      <4> QED
        BY <4>1, <4>2, Zenon
    <3>5. d[n] \in Nat /\ d[m] \in Nat /\ e[n] \in Nat /\ e[m] \in Nat
      BY <1>2, <1>3, <3>1
    <3> HIDE DEF v
    <3> DEFINE i == d[n]
               j == d[m]
               k == e[n]
               l == e[m]
    <3>6. i \in Nat /\ j \in Nat /\ k \in Nat /\ l \in Nat /\ i - j = k - l
      BY <3>1, <3>5, Zenon
    <3> HIDE DEF i, j, k, l
    <3>7. (i + v) - j = (k + v) - l
      BY <3>2, <3>6
    <3> USE DEF i, j, k, l
    <3> QED
      BY <3>3, <3>4, <3>7, Zenon
  <2> QED
    BY <2>1, <2>2
<1> HIDE DEF S
<1>6. W \in S
  BY <1>1, <1>4, <1>5, SetInduction
<1> QED
  BY <1>1, <1>6 DEF S, d, e

\* Numbers of m digits are below the power of the base.
LEMMA DigitsBelow ==
    ASSUME NEW b \in Nat \ {0}, NEW f \in [1 .. W -> Nat],
           \A i \in 1 .. W : f[i] < b, NEW m \in 0 .. W
    PROVE  Digits(f, b)[m] < Power(b)[m]
<1>1. W \in Nat
  BY AluAssumption
<1> DEFINE d == Digits(f, b)
           p == Power(b)
<1>2. /\ d[0] = 0
      /\ \A n \in 1 .. W : d[n] = d[n - 1] + f[n] * p[n - 1]
      /\ \A n \in 0 .. W : d[n] \in Nat
  BY Numbers
<1>3. p[0] = 1 /\ \A n \in 1 .. W : p[n] = b * p[n - 1]
  BY Powers
<1>4. \A n \in 0 .. W : p[n] \in Nat \ {0}
  BY Powers
<1> HIDE DEF d, p
<1> DEFINE S == {n \in Nat : n <= W => d[n] < p[n]}
<1>5. 0 \in S
  BY <1>2, <1>3
<1>6. ASSUME NEW n \in Nat, n \in S PROVE n + 1 \in S
  <2> SUFFICES ASSUME n + 1 <= W PROVE d[n + 1] < p[n + 1]
    OBVIOUS
  <2>1. n + 1 \in 1 .. W /\ (n + 1) - 1 = n /\ n \in 0 .. W /\ d[n] < p[n]
    BY <1>1, <1>6
  <2>2. d[n + 1] = d[n] + f[n + 1] * p[n] /\ p[n + 1] = b * p[n]
    BY <1>2, <1>3, <2>1
  <2>3. f[n + 1] \in Nat /\ f[n + 1] + 1 <= b /\ p[n] \in Nat /\ d[n] \in Nat
    BY <1>2, <1>4, <2>1
  <2>4. \A j, k, w, l \in Nat : j + 1 <= k /\ l < w => l + j * w < k * w
    <3> SUFFICES ASSUME NEW j \in Nat, NEW k \in Nat, NEW w \in Nat, NEW l \in Nat,
                        j + 1 <= k, l < w
                 PROVE  l + j * w < k * w
      OBVIOUS
    <3>1. (j + 1) * w <= k * w /\ (j + 1) * w = j * w + w /\ j * w \in Nat
      OBVIOUS
    <3> QED
      BY <3>1
  <2>5. d[n] + f[n + 1] * p[n] < b * p[n]
    BY <2>1, <2>3, <2>4
  <2> QED
    BY <2>2, <2>5, Zenon
<1> HIDE DEF S
<1>7. Nat \subseteq S
  BY <1>5, <1>6, SetInduction
<1> QED
  BY <1>7 DEF S, d, p

-----------------------------------------------------------------------------
(* Numbers of one more byte: w is the weight of the byte.                  *)

\* A byte as a signed number.
TwosByte(b) == IF b < 128 THEN b ELSE b - 256

LEMMA Product ==
    ASSUME NEW j \in Int, NEW k \in Int, NEW w \in Nat
    PROVE  /\ j * w \in Int
           /\ j <= k => j * w <= k * w
           /\ (j + k) * w = j * w + k * w
           /\ (j - k) * w = j * w - k * w
  OBVIOUS

\* A number is compared by its highest digit first.
LEMMA HighFirst ==
    ASSUME NEW w \in Nat \ {0}, NEW l \in Nat, NEW m \in Nat, l < w, m < w,
           NEW j \in Int, NEW k \in Int
    PROVE  l + j * w < m + k * w <=> j < k \/ (j = k /\ l < m)
<1>1. j * w \in Int /\ k * w \in Int
  BY Product
<1>2. CASE j < k
  <2>1. j + 1 <= k /\ j + 1 \in Int /\ 1 \in Int
    BY <1>2
  <2>2. (j + 1) * w <= k * w /\ (j + 1) * w = j * w + 1 * w
    BY <2>1, Product
  <2> QED
    BY <1>1, <1>2, <2>2
<1>3. CASE j = k
  BY <1>1, <1>3
<1>4. CASE j > k
  <2>1. k + 1 <= j /\ k + 1 \in Int /\ 1 \in Int
    BY <1>4
  <2>2. (k + 1) * w <= j * w /\ (k + 1) * w = k * w + 1 * w
    BY <2>1, Product
  <2> QED
    BY <1>1, <1>4, <2>2
<1> QED
  BY <1>2, <1>3, <1>4

\* A number below base as a signed number, and the numbers that have one.
AsSigned(n, base) == IF n < base \div 2 THEN n ELSE n - base
Within(n, base) == -(base \div 2) <= n /\ n < base \div 2

\* The number with the byte t on top of the lower bytes r, of weight w.
TopWithin(w, r, t) == Within(r + t * w, 256 * w)

\* The highest byte alone says whether a signed number fits.
LEMMA Window ==
    ASSUME NEW w \in Nat \ {0}, NEW r \in Nat, r < w, NEW t \in Int
    PROVE  TopWithin(w, r, t) <=> -128 <= t /\ t < 128
<1> DEFINE n == r + t * w
           v == 256 * w
<1>1. t * w \in Int
  BY Product
<1>2. v \div 2 = 128 * w
  OBVIOUS
<1>3. n < 0 + 128 * w <=> t < 128 \/ (t = 128 /\ r < 0)
  BY HighFirst
<1>4. n < 0 + (-128) * w <=> t < -128 \/ (t = -128 /\ r < 0)
  BY HighFirst
<1>5. n \in Int
  BY <1>1
<1>6. TopWithin(w, r, t) <=> Within(n, v)
  BY Zenon DEF TopWithin
<1> HIDE DEF n, v
<1>7. Within(n, v) <=> ~(n < 0 + (-128) * w) /\ n < 0 + 128 * w
  BY <1>2, <1>5 DEF Within
<1> QED
  BY <1>3, <1>4, <1>6, <1>7

\* The highest byte has the sign.
LEMMA SignedTop ==
    ASSUME NEW w \in Nat \ {0}, NEW l \in Nat, l < w, NEW x \in Nat, x < 256
    PROVE  AsSigned(l + x * w, 256 * w) = l + TwosByte(x) * w
<1>1. (256 * w) \div 2 = 128 * w
  OBVIOUS
<1>2. l + x * w < 0 + 128 * w <=> x < 128 \/ (x = 128 /\ l < 0)
  BY HighFirst
<1>3. x * w \in Int /\ (x - 256) * w = x * w - 256 * w
  BY Product
<1>4. l + x * w < (256 * w) \div 2 <=> x < 128
  BY <1>1, <1>2, <1>3
<1>5. CASE x < 128
  BY <1>4, <1>5 DEF AsSigned, TwosByte
<1>6. CASE ~(x < 128)
  <2>1. AsSigned(l + x * w, 256 * w) = l + x * w - 256 * w /\ TwosByte(x) = x - 256
    BY <1>4, <1>6 DEF AsSigned, TwosByte
  <2> QED
    BY <1>3, <2>1
<1> QED
  BY <1>5, <1>6

\* The carry c out of l + m + k goes into the next digits x and y.
LEMMA CarryIn ==
    ASSUME NEW w \in Nat, NEW l \in Int, NEW m \in Int, NEW r \in Int,
           NEW x \in Int, NEW y \in Int, NEW c \in Int, NEW k \in Int,
           r + c * w = l + m + k
    PROVE  r + (x + y + c) * w = (l + x * w) + (m + y * w) + k
<1>1. (x + y + c) * w = x * w + y * w + c * w
  OBVIOUS
<1> DEFINE xw == x * w
           yw == y * w
           cw == c * w
<1>2. /\ xw \in Int /\ yw \in Int /\ cw \in Int
      /\ r + cw = l + m + k
      /\ (x + y + c) * w = xw + yw + cw
  BY <1>1
<1> HIDE DEF xw, yw, cw
<1>3. r + (xw + yw + cw) = (l + xw) + (m + yw) + k
  BY <1>2
<1> QED
  BY <1>2, <1>3 DEF xw, yw

\* Their sum is a and the carry d, and these are the next of the whole sum.
LEMMA AddDigit ==
    ASSUME NEW b \in Nat, NEW w \in Nat, NEW l \in Int, NEW m \in Int, NEW r \in Int,
           NEW x \in Int, NEW y \in Int, NEW a \in Int,
           NEW c \in Int, NEW d \in Int, NEW k \in Int,
           r + c * w = l + m + k, a + b * d = x + y + c
    PROVE  (r + a * w) + d * (b * w) = (l + x * w) + (m + y * w) + k
<1>1. r + (x + y + c) * w = (l + x * w) + (m + y * w) + k
  BY CarryIn
<1>2. (a + b * d) * w = a * w + d * (b * w)
  OBVIOUS
<1>3. r + (a + b * d) * w = (r + a * w) + d * (b * w)
  <2> DEFINE aw == a * w
             dw == d * (b * w)
             e  == (a + b * d) * w
  <2>1. aw \in Int /\ dw \in Int /\ e = aw + dw
    BY <1>2
  <2> HIDE DEF aw, dw, e
  <2>2. r + e = (r + aw) + dw
    BY <2>1
  <2> QED
    BY <2>2 DEF aw, dw, e
<1> QED
  BY <1>1, <1>3

\* The same with borrows.
LEMMA BorrowIn ==
    ASSUME NEW w \in Nat, NEW l \in Int, NEW m \in Int, NEW r \in Int,
           NEW x \in Int, NEW y \in Int, NEW c \in Int, NEW k \in Int,
           r - (1 - c) * w = l - m - (1 - k)
    PROVE  r + (x - y - (1 - c)) * w = (l + x * w) - (m + y * w) - (1 - k)
<1> DEFINE c1 == -(1 - c)
           k1 == -(1 - k)
           m1 == -m
           y1 == -y
<1>1. c1 \in Int /\ k1 \in Int /\ m1 \in Int /\ y1 \in Int
  OBVIOUS
<1>2. (1 - c) * w \in Int /\ c1 * w = -((1 - c) * w) /\ y1 * w = -(y * w) /\ y * w \in Int /\ x * w \in Int
  OBVIOUS
<1>3. r + c1 * w = l + m1 + k1
  <2> DEFINE e == (1 - c) * w
  <2>1. e \in Int /\ c1 * w = -e /\ r - e = l - m - (1 - k)
    BY <1>2
  <2> HIDE DEF e, c1
  <2> QED
    BY <2>1
<1>4. (l + x * w) + (m1 + y1 * w) + k1 = (l + x * w) - (m + y * w) - (1 - k)
  <2> DEFINE e == y * w
             g == x * w
  <2>1. e \in Int /\ g \in Int /\ y1 * w = -e
    BY <1>2
  <2> HIDE DEF e, g, y1
  <2>2. (l + g) + (m1 + y1 * w) + k1 = (l + g) - (m + e) - (1 - k)
    BY <2>1
  <2> QED
    BY <2>2 DEF e, g
<1>5. x + y1 + c1 = x - y - (1 - c)
  OBVIOUS
<1> HIDE DEF c1, k1, m1, y1
<1>6. r + (x + y1 + c1) * w = (l + x * w) + (m1 + y1 * w) + k1
  BY <1>1, <1>3, CarryIn
<1> QED
  BY <1>4, <1>5, <1>6, Zenon

LEMMA SubtractDigit ==
    ASSUME NEW b \in Nat, NEW w \in Nat, NEW l \in Int, NEW m \in Int, NEW r \in Int,
           NEW x \in Int, NEW y \in Int, NEW a \in Int,
           NEW c \in Int, NEW d \in Int, NEW k \in Int,
           r - (1 - c) * w = l - m - (1 - k), a - b * (1 - d) = x - y - (1 - c)
    PROVE  (r + a * w) - (1 - d) * (b * w) = (l + x * w) - (m + y * w) - (1 - k)
<1>1. r + (x - y - (1 - c)) * w = (l + x * w) - (m + y * w) - (1 - k)
  BY BorrowIn
<1>2. (a - b * (1 - d)) * w = a * w - (1 - d) * (b * w)
  OBVIOUS
<1>3. r + (a - b * (1 - d)) * w = (r + a * w) - (1 - d) * (b * w)
  <2> DEFINE aw == a * w
             dw == (1 - d) * (b * w)
             e  == (a - b * (1 - d)) * w
  <2>1. aw \in Int /\ dw \in Int /\ e = aw - dw
    BY <1>2
  <2> HIDE DEF aw, dw, e
  <2>2. r + e = (r + aw) - dw
    BY <2>1
  <2> QED
    BY <2>2 DEF aw, dw, e
<1> QED
  BY <1>1, <1>3

-----------------------------------------------------------------------------
(* One instruction.                                                        *)

Registers == [A : Nat, C : Bit, Z : Bit, N : Bit, V : Bit, D : Bit]

\* The sign bit, and the lowest.
LEMMA TopBit ==
    ASSUME NEW v \in Nat, v < 256
    PROVE  BitOf(7, v) = IF v < 128 THEN 0 ELSE 1
<1>1. 2^7 = 128
  OBVIOUS
<1> QED
  BY <1>1 DEF BitOf

LEMMA Bits ==
    ASSUME NEW n \in Nat, NEW v \in Int, 2^n \in Nat \ {0}
    PROVE  BitOf(n, v) \in Bit
<1> DEFINE w == 2^n
<1>1. w \in Nat \ {0} /\ BitOf(n, v) = (v \div w) % 2
  BY DEF BitOf
<1> HIDE DEF w
<1> QED
  BY <1>1 DEF Bit

\* What ac_Execute_ADC leaves in each register.
LEMMA AdcRegisters ==
    ASSUME NEW p \in Registers, NEW v \in Nat, NEW s, s = Sum(p, v),
           NEW a, a = s % 256, NEW q, q = ac_Execute_ADC(p, v)
    PROVE  /\ q.A = a
           /\ q.C = Truth(s \div 256 > 0)
           /\ q.Z = Truth(a = 0)
           /\ q.N = BitOf(7, a)
           /\ q.V = Truth(Overflows(p.A, a, v))
           /\ q.D = p.D
           /\ q = [A |-> q.A, C |-> q.C, Z |-> q.Z, N |-> q.N, V |-> q.V, D |-> q.D]
<1> DEFINE c == Truth(s \div 256 > 0)
           z == Truth(a = 0)
           n == BitOf(7, a)
           o == Truth(Overflows(p.A, a, v))
<1>1. q = [[p EXCEPT !.A = a, !.C = c, !.V = o] EXCEPT !.Z = z, !.N = n]
  BY DEF ac_Execute_ADC, ac_SetZeroNegative
<1> HIDE DEF c, z, n, o
<1>2. /\ q.A = a /\ q.C = c /\ q.Z = z /\ q.N = n /\ q.V = o /\ q.D = p.D
      /\ q = [A |-> q.A, C |-> q.C, Z |-> q.Z, N |-> q.N, V |-> q.V, D |-> q.D]
  BY <1>1 DEF Registers
<1> QED
  BY <1>2 DEF c, z, n, o

LEMMA AdcType ==
    ASSUME NEW p \in Registers, NEW v \in Nat
    PROVE  /\ ac_Execute_ADC(p, v) \in Registers
           /\ ac_Execute_ADC(p, v).A < 256
           /\ ac_Execute_ADC(p, v).D = p.D
<1> DEFINE s == Sum(p, v)
           a == s % 256
           q == ac_Execute_ADC(p, v)
<1>1. s \in Nat
  <2>1. p.A \in Nat /\ p.C \in Nat
    BY DEF Registers, Bit
  <2> DEFINE u == p.A + v + p.C
             t == u + 102
  <2>2. u \in Nat /\ t \in Int
    BY <2>1
  <2> HIDE DEF u
  <2>3. BitOf(4, t) \in Bit /\ BitOf(8, t) \in Bit /\ BitOf(4, p.A) \in Bit /\ BitOf(4, v) \in Bit
    <3>1. 4 \in Nat /\ 8 \in Nat /\ 2^4 \in Nat \ {0} /\ 2^8 \in Nat \ {0}
      OBVIOUS
    <3>2. p.A \in Int /\ v \in Int
      BY <2>1
    <3> HIDE DEF t
    <3> QED
      BY <3>1, <3>2, <2>2, Bits
  <2>4. Decimal(u, p.A, v) \in Nat
    BY <2>2, <2>3 DEF Decimal, Bit
  <2> QED
    BY <2>2, <2>4 DEF Sum, u
<1> HIDE DEF s
<1>2. a \in Nat /\ a < 256
  BY <1>1
<1>3. BitOf(7, a) \in Bit
  BY <1>2, TopBit DEF Bit
<1>4. \A b : Truth(b) \in Bit
  BY DEF Truth, Bit
<1>5. /\ q.A = a
      /\ q.C = Truth(s \div 256 > 0)
      /\ q.Z = Truth(a = 0)
      /\ q.N = BitOf(7, a)
      /\ q.V = Truth(Overflows(p.A, a, v))
      /\ q.D = p.D
      /\ q = [A |-> q.A, C |-> q.C, Z |-> q.Z, N |-> q.N, V |-> q.V, D |-> q.D]
  BY AdcRegisters DEF s
<1> HIDE DEF a, q
<1>6. q.A \in Nat /\ q.C \in Bit /\ q.Z \in Bit /\ q.N \in Bit /\ q.V \in Bit /\ q.D \in Bit
  <2>1. p.D \in Bit
    BY DEF Registers
  <2> QED
    <3> DEFINE c == Truth(s \div 256 > 0)
               z == Truth(a = 0)
               o == Truth(Overflows(p.A, a, v))
    <3>1. c \in Bit /\ z \in Bit /\ o \in Bit
      BY <1>4, Zenon
    <3>2. q.A = a /\ q.C = c /\ q.Z = z /\ q.N = BitOf(7, a) /\ q.V = o /\ q.D = p.D
      BY <1>5
    <3> HIDE DEF c, z, o
    <3> QED
      BY <1>2, <1>3, <2>1, <3>1, <3>2
<1> QED
  BY <1>2, <1>5, <1>6 DEF Registers, q

\* In binary mode ADC adds, V is the signed overflow and N with V the sign.
LEMMA AdcBinary ==
    ASSUME NEW p \in Registers, p.A < 256, p.D = 0, NEW v \in Nat, v < 256,
           NEW q, q = ac_Execute_ADC(p, v),
           NEW t, t = TwosByte(p.A) + TwosByte(v) + p.C
    PROVE  /\ q.A + 256 * q.C = p.A + v + p.C
           /\ q.V = 1 <=> t < -128 \/ 128 <= t
           /\ q.N # q.V <=> t < 0
<1> DEFINE s == Sum(p, v)
           a == s % 256
           x == p.A
           c == p.C
<1>1. x \in Nat /\ x < 256 /\ c \in Nat /\ c <= 1 /\ s = x + v + c
  BY DEF Registers, Bit, Sum
<1>2. /\ q.A = a /\ q.C = Truth(s \div 256 > 0)
      /\ q.N = BitOf(7, a) /\ q.V = Truth(Overflows(x, a, v))
  BY AdcRegisters
<1>3. t = TwosByte(x) + TwosByte(v) + c
  OBVIOUS
<1> HIDE DEF s, x, c
<1>4. a = (IF s < 256 THEN s ELSE s - 256) /\ (s \div 256 > 0 <=> s >= 256)
  BY <1>1
<1> HIDE DEF a
<1>5. a \in Nat /\ a < 256
  BY <1>1, <1>4
<1>6. /\ BitOf(7, a) = IF a < 128 THEN 0 ELSE 1
      /\ BitOf(7, x) = IF x < 128 THEN 0 ELSE 1
      /\ BitOf(7, v) = IF v < 128 THEN 0 ELSE 1
  BY <1>1, <1>5, TopBit
<1>7. q.A + 256 * q.C = x + v + c
  BY <1>1, <1>2, <1>4 DEF Truth
<1>8. t = (IF x < 128 THEN x ELSE x - 256) + (IF v < 128 THEN v ELSE v - 256) + c
  BY <1>3 DEF TwosByte
<1>9. Overflows(x, a, v) <=> t < -128 \/ 128 <= t
  BY <1>1, <1>4, <1>5, <1>6, <1>8 DEF Overflows
<1>10. (BitOf(7, a) = 1) # Overflows(x, a, v) <=> t < 0
  <2>1. (BitOf(7, a) = 1 /\ ~Overflows(x, a, v)) \/ (BitOf(7, a) # 1 /\ Overflows(x, a, v)) <=> t < 0
    BY <1>1, <1>4, <1>5, <1>6, <1>8 DEF Overflows
  <2> QED
    BY <2>1 DEF Overflows
<1>11. q.V = 1 <=> Overflows(x, a, v)
  BY <1>2 DEF Truth
<1>12. q.N # q.V <=> t < 0
  <2>1. BitOf(7, a) \in {0, 1} /\ Overflows(x, a, v) \in BOOLEAN
    BY <1>6 DEF Overflows
  <2> QED
    BY <1>2, <1>10, <2>1 DEF Truth
<1> QED
  BY <1>7, <1>9, <1>11, <1>12 DEF x, c

\* In binary mode SBC subtracts, C is 0 when it borrows, and V is the signed
\* overflow.
LEMMA SbcBinary ==
    ASSUME NEW p \in Registers, p.A < 256, p.D = 0, NEW v \in Nat, v < 256,
           NEW q, q = ac_Execute_SBC(p, v),
           NEW t, t = TwosByte(p.A) - TwosByte(v) - (1 - p.C)
    PROVE  /\ q.A - 256 * (1 - q.C) = p.A - v - (1 - p.C)
           /\ q.V = 1 <=> t < -128 \/ 128 <= t
           /\ q.N # q.V <=> t < 0
<1> DEFINE w == 255 - v
<1>1. w \in Nat /\ w < 256
  OBVIOUS
<1>2. q = ac_Execute_ADC(p, w)
  BY DEF ac_Execute_SBC
<1>3. p.A \in Nat /\ p.C \in Nat
  BY DEF Registers, Bit
<1>4. t = TwosByte(p.A) + TwosByte(w) + p.C
  BY <1>3 DEF TwosByte
<1>5. w = 255 - v
  OBVIOUS
<1> HIDE DEF w
<1>6. q.C \in Nat /\ q.A \in Nat
  <2>1. q \in Registers
    BY <1>1, <1>2, AdcType
  <2> QED
    BY <2>1 DEF Registers, Bit
<1>7. /\ q.A + 256 * q.C = p.A + w + p.C
      /\ q.V = 1 <=> t < -128 \/ 128 <= t
      /\ q.N # q.V <=> t < 0
  BY <1>1, <1>2, <1>4, AdcBinary
<1> DEFINE a == q.A
           c == q.C
           x == p.A
           k == p.C
<1>8. /\ a \in Nat /\ c \in Nat /\ x \in Nat /\ k \in Nat
      /\ a + 256 * c = x + w + k
  BY <1>3, <1>6, <1>7
<1> HIDE DEF a, c, x, k
<1>9. a - 256 * (1 - c) = x - v - (1 - k)
  BY <1>5, <1>8
<1> QED
  BY <1>7, <1>9 DEF a, c, x, k

LEMMA CmpRegisters ==
    ASSUME NEW p \in Registers, p.A < 256, NEW v \in Nat, v < 256,
           NEW q, q = ac_Execute_CMP(p, v)
    PROVE  /\ q \in Registers /\ q.A = p.A /\ q.D = p.D
           /\ q.C = 1 <=> p.A >= v
<1> DEFINE r == (p.A - v) % 256
<1>1. p.A \in Nat
  BY DEF Registers
<1>2. r \in Nat /\ r < 256
  BY <1>1
<1>3. q = [[p EXCEPT !.C = Truth(p.A >= v)] EXCEPT !.Z = Truth(r = 0), !.N = BitOf(7, r)]
  BY DEF ac_Execute_CMP, ac_SetZeroNegative
<1> HIDE DEF r
<1>4. /\ q.A = p.A /\ q.C = Truth(p.A >= v) /\ q.Z = Truth(r = 0) /\ q.N = BitOf(7, r)
      /\ q.V = p.V /\ q.D = p.D
      /\ q = [A |-> q.A, C |-> q.C, Z |-> q.Z, N |-> q.N, V |-> q.V, D |-> q.D]
  BY <1>3 DEF Registers
<1>5. Truth(p.A >= v) \in Bit /\ Truth(r = 0) \in Bit /\ BitOf(7, r) \in Bit
  BY <1>2, TopBit DEF Truth, Bit
<1>6. p.A \in Nat /\ p.V \in Bit /\ p.D \in Bit
  BY DEF Registers
<1>7. q \in Registers
  BY <1>4, <1>5, <1>6 DEF Registers
<1>8. q.C = 1 <=> p.A >= v
  BY <1>4 DEF Truth
<1> QED
  BY <1>4, <1>7, <1>8

LEMMA ShiftRegisters ==
    ASSUME NEW p \in Registers, NEW v \in Nat, v < 256, NEW c \in Bit,
           NEW q, q = Shifted(p, v, c)
    PROVE  q \in Registers /\ q.A = v /\ q.C = c /\ q.D = p.D
<1>1. q = [[p EXCEPT !.A = v, !.C = c] EXCEPT !.Z = Truth(v = 0), !.N = BitOf(7, v)]
  BY DEF Shifted, ac_SetZeroNegative
<1>2. /\ q.A = v /\ q.C = c /\ q.Z = Truth(v = 0) /\ q.N = BitOf(7, v)
      /\ q.V = p.V /\ q.D = p.D
      /\ q = [A |-> q.A, C |-> q.C, Z |-> q.Z, N |-> q.N, V |-> q.V, D |-> q.D]
  BY <1>1 DEF Registers
<1>3. Truth(v = 0) \in Bit /\ BitOf(7, v) \in Bit
  BY TopBit DEF Truth, Bit
<1>4. p.V \in Bit /\ p.D \in Bit
  BY DEF Registers
<1>5. q \in Registers
  BY <1>2, <1>3, <1>4 DEF Registers
<1> QED
  BY <1>2, <1>5

\* A shift to the left doubles, with the carry of ROL below.
LEMMA Doubles ==
    ASSUME NEW p \in Registers, p.A < 256
    PROVE  /\ \A q : q = ac_Execute_ASL(p) =>
                 q \in Registers /\ q.A < 256 /\ q.D = p.D /\ q.A + 256 * q.C = 2 * p.A
           /\ \A q : q = ac_Execute_ROL(p) =>
                 q \in Registers /\ q.A < 256 /\ q.D = p.D /\ q.A + 256 * q.C = 2 * p.A + p.C
<1> DEFINE x == p.A
           b == BitOf(7, x)
           v == (2 * x) % 256
           w == ((2 * x) % 256) + p.C
<1>1. x \in Nat /\ x < 256 /\ p.C \in Nat /\ p.C <= 1
  BY DEF Registers, Bit
<1>2. b = IF x < 128 THEN 0 ELSE 1
  BY <1>1, TopBit
<1>3. v + 256 * b = 2 * x /\ v \in Nat /\ v < 255 /\ b \in Bit
  <2> HIDE DEF x, b
  <2> QED
    BY <1>1, <1>2 DEF Bit
<1>4. w = v + p.C /\ w \in Nat /\ v < 256 /\ w < 256
  BY <1>1, <1>3
<1>5. ac_Execute_ASL(p) = Shifted(p, v, b) /\ ac_Execute_ROL(p) = Shifted(p, w, b)
  BY DEF ac_Execute_ASL, ac_Execute_ROL
<1> HIDE DEF v, w, b
<1>6. /\ v \in Nat /\ v < 256 /\ w \in Nat /\ w < 256 /\ b \in Bit
  BY <1>3, <1>4
<1>7. ASSUME NEW q, q = ac_Execute_ASL(p)
      PROVE  q \in Registers /\ q.A = v /\ q.D = p.D /\ q.C = b
  <2>1. q = Shifted(p, v, b)
    BY <1>5, <1>7
  <2> QED
    BY <1>6, <2>1, ShiftRegisters
<1>8. ASSUME NEW q, q = ac_Execute_ROL(p)
      PROVE  q \in Registers /\ q.A = w /\ q.D = p.D /\ q.C = b
  <2>1. q = Shifted(p, w, b)
    BY <1>5, <1>8
  <2> QED
    BY <1>6, <2>1, ShiftRegisters
<1>9. w + 256 * b = 2 * x + p.C
  BY <1>1, <1>3, <1>4 DEF Bit
<1> QED
  BY <1>3, <1>4, <1>7, <1>8, <1>9

\* A shift to the right halves, with the carry of ROR above.
LEMMA Halves ==
    ASSUME NEW p \in Registers, p.A < 256
    PROVE  /\ \A q : q = ac_Execute_LSR(p) =>
                 q \in Registers /\ q.A < 256 /\ q.D = p.D /\ 2 * q.A + q.C = p.A
           /\ \A q : q = ac_Execute_ROR(p) =>
                 q \in Registers /\ q.A < 256 /\ q.D = p.D /\ 2 * q.A + q.C = p.A + 256 * p.C
<1> DEFINE x == p.A
           b == BitOf(0, x)
           v == x \div 2
           w == x \div 2 + 128 * p.C
<1>1. x \in Nat /\ x < 256 /\ p.C \in Nat /\ p.C <= 1
  BY DEF Registers, Bit
<1>2. b = x % 2
  <2>1. 2^0 = 1 /\ x \div 1 = x
    BY <1>1
  <2> QED
    BY <2>1 DEF BitOf
<1>3. 2 * v + b = x /\ v \in Nat /\ v < 128 /\ b \in Bit
  <2> HIDE DEF x, b
  <2> QED
    BY <1>1, <1>2 DEF Bit
<1>4. w = v + 128 * p.C /\ w \in Nat /\ v < 256 /\ w < 256
  BY <1>1, <1>3
<1>5. ac_Execute_LSR(p) = Shifted(p, v, b) /\ ac_Execute_ROR(p) = Shifted(p, w, b)
  BY DEF ac_Execute_LSR, ac_Execute_ROR
<1> HIDE DEF v, w, b
<1>6. /\ v \in Nat /\ v < 256 /\ w \in Nat /\ w < 256 /\ b \in Bit
  BY <1>3, <1>4
<1>7. ASSUME NEW q, q = ac_Execute_LSR(p)
      PROVE  q \in Registers /\ q.A = v /\ q.D = p.D /\ q.C = b
  <2>1. q = Shifted(p, v, b)
    BY <1>5, <1>7
  <2> QED
    BY <1>6, <2>1, ShiftRegisters
<1>8. ASSUME NEW q, q = ac_Execute_ROR(p)
      PROVE  q \in Registers /\ q.A = w /\ q.D = p.D /\ q.C = b
  <2>1. q = Shifted(p, w, b)
    BY <1>5, <1>8
  <2> QED
    BY <1>6, <2>1, ShiftRegisters
<1>9. 2 * w + b = x + 256 * p.C
  BY <1>1, <1>3, <1>4 DEF Bit
<1> QED
  BY <1>3, <1>4, <1>7, <1>8, <1>9

\* A byte of two decimal digits.
DecimalByte(b) == b \in Nat /\ b < 256 /\ b % 16 < 10 /\ b \div 16 < 10

\* In decimal mode ADC adds digits: the exclusive or of the operands and the
\* sum finds both the carry into the upper digit and the one out of it.
LEMMA AdcDecimal ==
    ASSUME NEW p \in Registers, p.D = 1, DecimalByte(p.A), NEW v, DecimalByte(v),
           NEW q, q = ac_Execute_ADC(p, v)
    PROVE  /\ DecimalByte(q.A)
           /\ BcdByte(q.A) + 100 * q.C = BcdByte(p.A) + BcdByte(v) + p.C
<1> DEFINE x == p.A
           c == p.C
           h == x \div 16
           l == x % 16
           i == v \div 16
           j == v % 16
           s == x + v + c
           t == s + 102
<1>1. x \in Nat /\ v \in Nat /\ c \in Nat /\ c <= 1
  BY DEF Registers, Bit, DecimalByte
<1>2. /\ h \in Nat /\ l \in Nat /\ h < 10 /\ l < 10 /\ x = 16 * h + l
      /\ i \in Nat /\ j \in Nat /\ i < 10 /\ j < 10 /\ v = 16 * i + j
  <2> HIDE DEF x
  <2>1. h < 10 /\ l < 10 /\ i < 10 /\ j < 10
    BY DEF DecimalByte, x
  <2> QED
    BY <1>1, <2>1
<1> DEFINE k == IF l + j + c >= 10 THEN 1 ELSE 0
           m == IF h + i + k >= 10 THEN 1 ELSE 0
           g == h + i + 6 + k
           a == 16 * (h + i + k - 10 * m) + (l + j + c - 10 * k)
<1>3. Sum(p, v) = Decimal(s, x, v)
  BY DEF Sum
<1>4. q.A = Sum(p, v) % 256 /\ q.C = Truth(Sum(p, v) \div 256 > 0)
  BY <1>1, AdcRegisters
<1>5. BcdByte(x) = 10 * h + l /\ BcdByte(v) = 10 * i + j
  BY DEF BcdByte
<1>6. BitOf(4, x) = h % 2 /\ BitOf(4, v) = i % 2
  <2>1. 2^4 = 16
    OBVIOUS
  <2> QED
    BY <2>1 DEF BitOf
<1> HIDE DEF h, l, i, j, x, c
<1>7. k \in Nat /\ k <= 1 /\ m \in Nat /\ m <= 1
  OBVIOUS
<1>8. t \div 16 = g /\ t \div 256 = m
  <2>1. t = 16 * g + (l + j + c + 6 - 16 * k)
    BY <1>1, <1>2, <1>7
  <2>2. g \in Nat /\ l + j + c + 6 - 16 * k \in Nat /\ l + j + c + 6 - 16 * k < 16
    BY <1>1, <1>2
  <2> DEFINE o == l + j + c + 6 - 16 * k
  <2>3. t = 16 * g + o /\ o \in Nat /\ o < 16 /\ g \in Nat
    BY <2>1, <2>2
  <2>4. g < 32 /\ m = (IF g < 16 THEN 0 ELSE 1)
    BY <1>1, <1>2, <1>7
  <2> HIDE DEF t, g, o, m
  <2> QED
    BY <2>3, <2>4
<1>9. BitOf(4, t) = g % 2 /\ BitOf(8, t) = m
  <2>1. 2^4 = 16 /\ 2^8 = 256
    OBVIOUS
  <2>2. m % 2 = m
    BY <1>7
  <2> QED
    BY <1>8, <2>1, <2>2 DEF BitOf
<1>10. ((g % 2) + (h % 2) + (i % 2)) % 2 = k
  <2>1. g = h + i + 6 + k
    OBVIOUS
  <2> HIDE DEF g, k
  <2> QED
    BY <1>2, <1>7, <2>1
<1>11. Sum(p, v) = s + 6 * k + 96 * m
  <2>1. Decimal(s, x, v) = s + 6 * ((BitOf(4, t) + BitOf(4, x) + BitOf(4, v)) % 2) + 96 * BitOf(8, t)
    BY DEF Decimal
  <2> HIDE DEF s, t, k, m, g
  <2> QED
    BY <1>3, <1>6, <1>9, <1>10, <2>1, Zenon
<1>12. /\ h + i + k - 10 * m \in Nat /\ h + i + k - 10 * m < 10
       /\ l + j + c - 10 * k \in Nat /\ l + j + c - 10 * k < 10
  BY <1>1, <1>2
<1>13. Sum(p, v) = a + 256 * m
  BY <1>1, <1>2, <1>7, <1>11
<1> DEFINE y == h + i + k - 10 * m
           z == l + j + c - 10 * k
<1>14. a = 16 * y + z /\ y \in Nat /\ y < 10 /\ z \in Nat /\ z < 10
  BY <1>12
<1>15. 10 * y + z + 100 * m = 10 * h + l + 10 * i + j + c
  BY <1>1, <1>2, <1>7
<1> HIDE DEF a, y, z, m, k
<1>16. a \in Nat /\ a < 256 /\ a % 16 = z /\ a \div 16 = y
  BY <1>14
<1>17. q.A = a /\ q.C = m
  <2>1. (a + 256 * m) % 256 = a /\ (a + 256 * m) \div 256 = m
    BY <1>7, <1>16
  <2>2. Truth(m > 0) = m
    BY <1>7 DEF Truth
  <2> QED
    BY <1>4, <1>13, <2>1, <2>2
<1>18. DecimalByte(a) /\ BcdByte(a) = 10 * y + z
  BY <1>14, <1>16 DEF DecimalByte, BcdByte
<1>19. BcdByte(a) + 100 * m = BcdByte(x) + BcdByte(v) + c
  BY <1>1, <1>2, <1>5, <1>7, <1>14, <1>15, <1>18
<1> QED
  BY <1>17, <1>18, <1>19 DEF x, c

-----------------------------------------------------------------------------
(* The program.                                                            *)

Words == {f \in [1 .. W -> Nat] : \A i \in 1 .. W : f[i] < 256}

AluTypeOK ==
    /\ task \in Tasks
    /\ first \in Words /\ second \in Words /\ result \in Words
    /\ cpu \in Registers
    /\ done \in Nat /\ done <= W
    /\ carry \in Bit
    /\ task \notin {"add", "subtract"} => cpu.D = 0
    /\ done = 0 => cpu.C = carry

\* Halving from the top: what the bytes done were is twice what they are and
\* the bit that fell out, at its place.
HalvesHigh ==
    done > 0 /\ task = "halve" =>
        2 * (Digits(result, 256)[W] - Digits(result, 256)[W - done])
            + cpu.C * Power(256)[W - done]
          = Digits(first, 256)[W] - Digits(first, 256)[W - done]

AluInv == AluTypeOK /\ WordArithmetic /\ HalvesHigh /\ AddsDecimal

\* The digit in place n + 1 goes on top of the n below it.
LEMMA NextDigit ==
    ASSUME NEW b \in Nat \ {0}, NEW f \in [1 .. W -> Nat], NEW n \in Nat, n < W
    PROVE  /\ Power(b)[n] \in Nat \ {0}
           /\ Power(b)[n + 1] = b * Power(b)[n]
           /\ Digits(f, b)[n] \in Nat /\ f[n + 1] \in Nat
           /\ Digits(f, b)[n + 1] = Digits(f, b)[n] + f[n + 1] * Power(b)[n]
<1>1. W \in Nat
  BY AluAssumption
<1>2. n + 1 \in 1 .. W /\ n \in 0 .. W /\ (n + 1) - 1 = n
  BY <1>1
<1>3. /\ \A i \in 0 .. W : Power(b)[i] \in Nat \ {0}
      /\ \A i \in 1 .. W : Power(b)[i] = b * Power(b)[i - 1]
  BY Powers
<1>4. /\ \A i \in 0 .. W : Digits(f, b)[i] \in Nat
      /\ \A i \in 1 .. W : Digits(f, b)[i] = Digits(f, b)[i - 1] + f[i] * Power(b)[i - 1]
  BY Numbers
<1>5. f[n + 1] \in Nat
  BY <1>2
<1> DEFINE p == Power(b)
           d == Digits(f, b)
<1>6. /\ p[n] \in Nat \ {0} /\ p[n + 1] = b * p[(n + 1) - 1]
      /\ d[n] \in Nat /\ d[n + 1] = d[(n + 1) - 1] + f[n + 1] * p[(n + 1) - 1]
  BY <1>2, <1>3, <1>4, Zenon
<1> HIDE DEF p, d
<1>7. p[n + 1] = b * p[n] /\ d[n + 1] = d[n] + f[n + 1] * p[n]
  BY <1>2, <1>6
<1> QED
  BY <1>5, <1>6, <1>7 DEF p, d

\* A number whose digit there is replaced.
LEMMA PutDigit ==
    ASSUME NEW b \in Nat \ {0}, NEW f \in [1 .. W -> Nat], NEW g \in [1 .. W -> Nat],
           NEW n \in Nat, n < W, \A i \in 1 .. n : g[i] = f[i]
    PROVE  Digits(g, b)[n + 1] = Digits(f, b)[n] + g[n + 1] * Power(b)[n]
<1>1. W \in Nat
  BY AluAssumption
<1>2. n \in 0 .. W
  BY <1>1
<1>3. Digits(g, b)[n] = Digits(f, b)[n]
  BY <1>2, SameLow
<1>4. Digits(g, b)[n + 1] = Digits(g, b)[n] + g[n + 1] * Power(b)[n]
  BY NextDigit
<1> QED
  BY <1>3, <1>4

\* What every step does, whatever the task.
LEMMA EachStep ==
    ASSUME AluTypeOK, NEW t, NEW STATE q, Step(t, q), q \in Registers, q.A < 256,
           t \notin {"add", "subtract"} => q.D = 0
    PROVE  /\ AluTypeOK'
           /\ task = t /\ task' = t /\ first' = first /\ second' = second /\ carry' = carry
           /\ cpu' = q /\ done' = done + 1 /\ done < W
           /\ result' = [result EXCEPT ![Place] = q.A]
<1>1. /\ task = t /\ task' = t /\ first' = first /\ second' = second /\ carry' = carry
      /\ cpu' = q /\ done' = done + 1 /\ done < W
      /\ result' = [result EXCEPT ![Place] = q.A]
  BY DEF Step
<1>2. W \in Nat
  BY AluAssumption
<1>3. done' \in Nat /\ done' <= W /\ done' # 0
  BY <1>1, <1>2 DEF AluTypeOK
<1>4. result' \in Words
  <2>1. q.A \in Nat
    BY DEF Registers
  <2> QED
    BY <1>1, <2>1 DEF AluTypeOK, Words
<1> QED
  BY <1>1, <1>3, <1>4 DEF AluTypeOK

\* The numbers after a step from the bottom up, to any base.
LEMMA UpStep ==
    ASSUME AluTypeOK, NEW t, t # "halve", NEW STATE q, Step(t, q), q \in Registers,
           NEW b \in Nat \ {0}
    PROVE  /\ done \in Nat /\ done < W /\ done' = done + 1 /\ Place = done + 1
           /\ Power(b)[done'] = b * Power(b)[done]
           /\ Digits(first', b)[done'] = Digits(first, b)[done] + first[Place] * Power(b)[done]
           /\ Digits(second', b)[done'] = Digits(second, b)[done] + second[Place] * Power(b)[done]
           /\ Digits(result', b)[done'] = Digits(result, b)[done] + q.A * Power(b)[done]
<1>1. /\ done \in Nat /\ done < W /\ done' = done + 1 /\ Place = done + 1
      /\ first' = first /\ second' = second /\ result' = [result EXCEPT ![done + 1] = q.A]
  BY DEF AluTypeOK, Step, Place
<1>2. /\ first \in [1 .. W -> Nat] /\ second \in [1 .. W -> Nat] /\ result \in [1 .. W -> Nat]
      /\ q.A \in Nat
  BY DEF AluTypeOK, Words, Registers
<1>3. Digits(result', b)[done + 1] = Digits(result, b)[done] + q.A * Power(b)[done]
  <2>1. ASSUME NEW f \in [1 .. W -> Nat], NEW g \in [1 .. W -> Nat],
               NEW n \in Nat, n < W, \A i \in 1 .. n : g[i] = f[i]
        PROVE  Digits(g, b)[n + 1] = Digits(f, b)[n] + g[n + 1] * Power(b)[n]
    BY <2>1, PutDigit
  <2>2. /\ result' \in [1 .. W -> Nat] /\ result'[done + 1] = q.A
        /\ \A i \in 1 .. done : result'[i] = result[i]
    <3>1. W \in Nat
      BY AluAssumption
    <3>2. done + 1 \in 1 .. W
      BY <1>1, <3>1
    <3> QED
      BY <1>1, <1>2, <3>2
  <2>3. Digits(result', b)[done + 1]
          = Digits(result, b)[done] + result'[done + 1] * Power(b)[done]
    <3>1. done \in Nat /\ done < W
      BY <1>1
    <3> QED
      BY <1>2, <2>1, <2>2, <3>1
  <2> QED
    BY <2>2, <2>3
<1>4. \A f \in [1 .. W -> Nat] :
        Digits(f, b)[done + 1] = Digits(f, b)[done] + f[done + 1] * Power(b)[done]
  BY <1>1, NextDigit
<1>5. Power(b)[done + 1] = b * Power(b)[done]
  BY <1>1, <1>2, NextDigit
<1> QED
  BY <1>1, <1>2, <1>3, <1>4, <1>5, Zenon

\* The bytes at a place, and the registers with one of them.
LEMMA FetchedBytes ==
    ASSUME AluTypeOK, done < W
    PROVE  /\ Place \in 1 .. W
           /\ first[Place] \in Nat /\ first[Place] < 256
           /\ second[Place] \in Nat /\ second[Place] < 256
           /\ Fetched \in Registers /\ Fetched.A = first[Place]
           /\ Fetched.C = cpu.C /\ Fetched.D = cpu.D
<1>1. W \in Nat
  BY AluAssumption
<1>2. Place \in 1 .. W
  BY <1>1 DEF AluTypeOK, Place
<1>3. /\ first[Place] \in Nat /\ first[Place] < 256
      /\ second[Place] \in Nat /\ second[Place] < 256
  BY <1>2 DEF AluTypeOK, Words
<1> QED
  BY <1>2, <1>3 DEF AluTypeOK, Fetched, Registers

\* The numbers before a step.
LEMMA WholeNumbers ==
    ASSUME AluTypeOK
    PROVE  /\ Base \in Nat \ {0}
           /\ Value(first) \in Nat /\ Value(first) < Base
           /\ Value(second) \in Nat /\ Value(second) < Base
           /\ Value(result) \in Nat /\ Value(result) < Base
           /\ done = 0 => Base = 1 /\ Value(first) = 0 /\ Value(second) = 0 /\ Value(result) = 0
<1>1. W \in Nat
  BY AluAssumption
<1>2. done \in 0 .. W
  BY <1>1 DEF AluTypeOK
<1> DEFINE c == 256
<1>3. c \in Nat \ {0}
  OBVIOUS
<1> HIDE DEF c
<1>4. Power(c)[done] \in Nat \ {0} /\ Power(c)[0] = 1
  BY <1>2, <1>3, Powers
<1>5. ASSUME NEW f \in Words
      PROVE  /\ Digits(f, c)[done] \in Nat /\ Digits(f, c)[done] < Power(c)[done]
             /\ Digits(f, c)[0] = 0
  <2>1. f \in [1 .. W -> Nat] /\ \A i \in 1 .. W : f[i] < c
    BY DEF Words, c
  <2>2. Digits(f, c)[done] < Power(c)[done]
    BY <1>2, <1>3, <2>1, DigitsBelow
  <2>3. Digits(f, c)[done] \in Nat /\ Digits(f, c)[0] = 0
    BY <1>2, <1>3, <2>1, Numbers
  <2> QED
    BY <2>2, <2>3
<1>6. first \in Words /\ second \in Words /\ result \in Words
  BY DEF AluTypeOK
<1>7. Base = Power(c)[done] /\ \A f : Value(f) = Digits(f, c)[done]
  BY DEF Base, Value, c
<1> QED
  BY <1>4, <1>5, <1>6, <1>7, Zenon

\* The whole numbers after a step from the bottom up.
LEMMA UpValues ==
    ASSUME AluTypeOK, NEW t, t # "halve", NEW STATE q, Step(t, q), q \in Registers
    PROVE  /\ Base' = 256 * Base
           /\ Value(first)' = Value(first) + first[Place] * Base
           /\ Value(second)' = Value(second) + second[Place] * Base
           /\ Value(result)' = Value(result) + q.A * Base
<1>1. ASSUME NEW b \in Nat \ {0}
      PROVE  /\ Power(b)[done'] = b * Power(b)[done]
             /\ Digits(first', b)[done'] = Digits(first, b)[done] + first[Place] * Power(b)[done]
             /\ Digits(second', b)[done'] = Digits(second, b)[done] + second[Place] * Power(b)[done]
             /\ Digits(result', b)[done'] = Digits(result, b)[done] + q.A * Power(b)[done]
  BY UpStep
<1>2. 256 \in Nat \ {0}
  OBVIOUS
<1> QED
  BY <1>1, <1>2 DEF Base, Value

\* The invariant of a sum, of which the carry at the start is the first.
LEMMA SumSoFar ==
    ASSUME AluTypeOK, Adds, task = "add", cpu.D = 0
    PROVE  Value(result) + cpu.C * Base = Value(first) + Value(second) + carry
<1>1. CASE done = 0
  <2>1. cpu.C = carry /\ carry \in Nat
    BY <1>1 DEF AluTypeOK, Bit
  <2>2. Base = 1 /\ Value(first) = 0 /\ Value(second) = 0 /\ Value(result) = 0
    BY <1>1, WholeNumbers
  <2> QED
    BY <2>1, <2>2
<1>2. CASE done # 0
  BY <1>2 DEF Adds, AluTypeOK
<1> QED
  BY <1>1, <1>2

LEMMA AddRight ==
    ASSUME AluTypeOK, Adds, Add
    PROVE  AluTypeOK' /\ Adds'
<1> DEFINE q == ac_Execute_ADC(Fetched, second[Place])
<1>1. Step("add", q)
  BY DEF Add
<1>2. done < W
  BY <1>1 DEF Step
<1>3. /\ first[Place] \in Nat /\ first[Place] < 256
      /\ second[Place] \in Nat /\ second[Place] < 256
      /\ Fetched \in Registers /\ Fetched.A = first[Place]
      /\ Fetched.C = cpu.C /\ Fetched.D = cpu.D
  BY <1>2, FetchedBytes
<1>4. q \in Registers /\ q.A < 256 /\ q.D = cpu.D
  BY <1>3, AdcType
<1>5. q = ac_Execute_ADC(Fetched, second[Place])
  OBVIOUS
<1> HIDE DEF q
<1>6. /\ AluTypeOK'
      /\ task = "add" /\ carry' = carry /\ cpu' = q
  BY <1>1, <1>4, EachStep
<1> SUFFICES ASSUME cpu.D = 0 PROVE Adds'
  BY <1>4, <1>6 DEF Adds
<1> DEFINE w == Base
           l == Value(first)
           m == Value(second)
           r == Value(result)
           x == first[Place]
           y == second[Place]
           a == q.A
           c == cpu.C
           d == q.C
           k == carry
           t == TwosByte(x) + TwosByte(y) + c
<1>7. /\ w \in Nat \ {0} /\ l \in Nat /\ l < w /\ m \in Nat /\ m < w /\ r \in Nat /\ r < w
  BY WholeNumbers
<1>8. r + c * w = l + m + k
  BY <1>6, SumSoFar
<1>9. /\ x \in Nat /\ x < 256 /\ y \in Nat /\ y < 256 /\ a \in Nat
      /\ c \in Nat /\ d \in Nat /\ k \in Nat
  BY <1>3, <1>4 DEF Registers, AluTypeOK, Bit
<1>10. /\ Base' = 256 * w /\ Value(first)' = l + x * w /\ Value(second)' = m + y * w
       /\ Value(result)' = r + a * w
  BY <1>1, <1>4, UpValues
<1>11. /\ a + 256 * d = x + y + c
       /\ q.V = 1 <=> t < -128 \/ 128 <= t
  <2>1. ASSUME NEW u, u = TwosByte(Fetched.A) + TwosByte(y) + Fetched.C
        PROVE  a + 256 * d = Fetched.A + y + Fetched.C /\ (q.V = 1 <=> u < -128 \/ 128 <= u)
    BY <1>3, <1>5, <2>1, AdcBinary
  <2> QED
    BY <1>3, <2>1
<1>12. TwosByte(x) \in Int /\ TwosByte(y) \in Int /\ t \in Int
  BY <1>9 DEF TwosByte
<1>13. t = TwosByte(x) + TwosByte(y) + c
  OBVIOUS
<1> HIDE DEF w, l, m, r, x, y, a, c, d, k, t
<1>14. (r + a * w) + d * (256 * w) = (l + x * w) + (m + y * w) + k
  BY <1>7, <1>8, <1>9, <1>11, AddDigit
<1>15. /\ AsSigned(l + x * w, 256 * w) = l + TwosByte(x) * w
       /\ AsSigned(m + y * w, 256 * w) = m + TwosByte(y) * w
  BY <1>7, <1>9, SignedTop
<1>16. r + t * w = (l + TwosByte(x) * w) + (m + TwosByte(y) * w) + k
  <2>1. r + (TwosByte(x) + TwosByte(y) + c) * w = (l + TwosByte(x) * w) + (m + TwosByte(y) * w) + k
    BY <1>7, <1>8, <1>9, <1>12, CarryIn
  <2> QED
    BY <1>13, <2>1, Zenon
<1>17. Within(r + t * w, 256 * w) <=> -128 <= t /\ t < 128
  <2>1. w \in Nat \ {0} /\ r \in Nat /\ r < w /\ t \in Int
    BY <1>7, <1>12
  <2>2. TopWithin(w, r, t) <=> -128 <= t /\ t < 128
    BY <2>1, Window
  <2> QED
    BY <2>2, Zenon DEF TopWithin
<1>18. q.V = 1 <=> ~Within(AsSigned(l + x * w, 256 * w) + AsSigned(m + y * w, 256 * w) + k, 256 * w)
  <2> DEFINE v == 256 * w
  <2>1. q.V = 1 <=> ~Within(r + t * w, v)
    BY <1>11, <1>12, <1>17
  <2>2. /\ AsSigned(l + x * w, v) = l + TwosByte(x) * w
        /\ AsSigned(m + y * w, v) = m + TwosByte(y) * w
    BY <1>15
  <2> HIDE DEF v
  <2>3. q.V = 1 <=> ~Within(AsSigned(l + x * w, v) + AsSigned(m + y * w, v) + k, v)
    BY <1>16, <2>1, <2>2, Zenon
  <2> QED
    BY <2>3 DEF v
<1>19. /\ Value(result)' + cpu'.C * Base' = Value(first)' + Value(second)' + carry'
       /\ cpu'.V = 1 <=>
            ~Within(AsSigned(Value(first)', Base') + AsSigned(Value(second)', Base') + carry', Base')
  <2> DEFINE v == 256 * w
  <2>1. /\ Base' = v
        /\ (r + a * w) + d * v = (l + x * w) + (m + y * w) + k
        /\ q.V = 1 <=> ~Within(AsSigned(l + x * w, v) + AsSigned(m + y * w, v) + k, v)
    BY <1>10, <1>14, <1>18
  <2>2. cpu'.C = d /\ cpu'.V = q.V /\ carry' = k
    BY <1>6 DEF d, k
  <2> HIDE DEF v
  <2> QED
    BY <1>10, <2>1, <2>2, Zenon
<1> QED
  BY <1>19 DEF Adds, Fits, Twos, Within, AsSigned

\* The invariant of a difference.
LEMMA DifferenceSoFar ==
    ASSUME AluTypeOK, Subtracts, task = "subtract", cpu.D = 0
    PROVE  Value(result) - (1 - cpu.C) * Base = Value(first) - Value(second) - (1 - carry)
<1>1. CASE done = 0
  <2>1. cpu.C = carry /\ carry \in Nat
    BY <1>1 DEF AluTypeOK, Bit
  <2>2. Base = 1 /\ Value(first) = 0 /\ Value(second) = 0 /\ Value(result) = 0
    BY <1>1, WholeNumbers
  <2> QED
    BY <2>1, <2>2
<1>2. CASE done # 0
  BY <1>2 DEF Subtracts, AluTypeOK
<1> QED
  BY <1>1, <1>2

\* The type of what SBC leaves.
LEMMA SbcType ==
    ASSUME NEW p \in Registers, NEW v \in Nat, v < 256
    PROVE  /\ ac_Execute_SBC(p, v) \in Registers
           /\ ac_Execute_SBC(p, v).A < 256
           /\ ac_Execute_SBC(p, v).D = p.D
<1> DEFINE n == 255 - v
<1>1. n \in Nat
  OBVIOUS
<1>2. ac_Execute_SBC(p, v) = ac_Execute_ADC(p, n)
  BY DEF ac_Execute_SBC
<1> HIDE DEF n
<1> QED
  BY <1>1, <1>2, AdcType

LEMMA SubtractRight ==
    ASSUME AluTypeOK, Subtracts, Subtract
    PROVE  AluTypeOK' /\ Subtracts'
<1> DEFINE q == ac_Execute_SBC(Fetched, second[Place])
<1>1. Step("subtract", q)
  BY DEF Subtract
<1>2. done < W
  BY <1>1 DEF Step
<1>3. /\ first[Place] \in Nat /\ first[Place] < 256
      /\ second[Place] \in Nat /\ second[Place] < 256
      /\ Fetched \in Registers /\ Fetched.A = first[Place]
      /\ Fetched.C = cpu.C /\ Fetched.D = cpu.D
  BY <1>2, FetchedBytes
<1>4. q \in Registers /\ q.A < 256 /\ q.D = cpu.D
  BY <1>3, SbcType
<1>5. q = ac_Execute_SBC(Fetched, second[Place])
  OBVIOUS
<1> HIDE DEF q
<1>6. /\ AluTypeOK'
      /\ task = "subtract" /\ carry' = carry /\ cpu' = q
  BY <1>1, <1>4, EachStep
<1> SUFFICES ASSUME cpu.D = 0 PROVE Subtracts'
  BY <1>4, <1>6 DEF Subtracts
<1> DEFINE w == Base
           l == Value(first)
           m == Value(second)
           r == Value(result)
           x == first[Place]
           y == second[Place]
           a == q.A
           c == cpu.C
           d == q.C
           k == carry
           t == TwosByte(x) - TwosByte(y) - (1 - c)
<1>7. /\ w \in Nat \ {0} /\ l \in Nat /\ l < w /\ m \in Nat /\ m < w /\ r \in Nat /\ r < w
  BY WholeNumbers
<1>8. r - (1 - c) * w = l - m - (1 - k)
  BY <1>6, DifferenceSoFar
<1>9. /\ x \in Nat /\ x < 256 /\ y \in Nat /\ y < 256 /\ a \in Nat /\ a < 256
      /\ c \in Nat /\ d \in Nat /\ d <= 1 /\ k \in Nat
  BY <1>3, <1>4 DEF Registers, AluTypeOK, Bit
<1>10. /\ Base' = 256 * w /\ Value(first)' = l + x * w /\ Value(second)' = m + y * w
       /\ Value(result)' = r + a * w
  BY <1>1, <1>4, UpValues
<1>11. /\ a - 256 * (1 - d) = x - y - (1 - c)
       /\ q.V = 1 <=> t < -128 \/ 128 <= t
  <2>1. ASSUME NEW u, u = TwosByte(Fetched.A) - TwosByte(y) - (1 - Fetched.C)
        PROVE  /\ a - 256 * (1 - d) = Fetched.A - y - (1 - Fetched.C)
               /\ q.V = 1 <=> u < -128 \/ 128 <= u
    BY <1>3, <1>5, <2>1, SbcBinary
  <2> QED
    BY <1>3, <2>1
<1>12. TwosByte(x) \in Int /\ TwosByte(y) \in Int /\ t \in Int
  BY <1>9 DEF TwosByte
<1>13. t = TwosByte(x) - TwosByte(y) - (1 - c)
  OBVIOUS
<1> HIDE DEF w, l, m, r, x, y, a, c, d, k, t
<1>14. (r + a * w) - (1 - d) * (256 * w) = (l + x * w) - (m + y * w) - (1 - k)
  BY <1>7, <1>8, <1>9, <1>11, SubtractDigit
<1>15. /\ AsSigned(l + x * w, 256 * w) = l + TwosByte(x) * w
       /\ AsSigned(m + y * w, 256 * w) = m + TwosByte(y) * w
  BY <1>7, <1>9, SignedTop
<1>16. r + t * w = (l + TwosByte(x) * w) - (m + TwosByte(y) * w) - (1 - k)
  <2>1. r + (TwosByte(x) - TwosByte(y) - (1 - c)) * w
          = (l + TwosByte(x) * w) - (m + TwosByte(y) * w) - (1 - k)
    <3> DEFINE i == TwosByte(x)
               j == TwosByte(y)
    <3>1. i \in Int /\ j \in Int
      BY <1>12
    <3> HIDE DEF i, j
    <3>2. r + (i - j - (1 - c)) * w = (l + i * w) - (m + j * w) - (1 - k)
      BY <1>7, <1>8, <1>9, <3>1, BorrowIn
    <3> QED
      BY <3>2 DEF i, j
  <2> QED
    BY <1>13, <2>1, Zenon
<1>17. Within(r + t * w, 256 * w) <=> -128 <= t /\ t < 128
  <2>1. w \in Nat \ {0} /\ r \in Nat /\ r < w /\ t \in Int
    BY <1>7, <1>12
  <2>2. TopWithin(w, r, t) <=> -128 <= t /\ t < 128
    BY <2>1, Window
  <2> QED
    BY <2>2, Zenon DEF TopWithin
<1>18. q.V = 1 <=> ~Within(AsSigned(l + x * w, 256 * w) - AsSigned(m + y * w, 256 * w) - (1 - k), 256 * w)
  <2> DEFINE v == 256 * w
  <2>1. q.V = 1 <=> ~Within(r + t * w, v)
    BY <1>11, <1>12, <1>17
  <2>2. /\ AsSigned(l + x * w, v) = l + TwosByte(x) * w
        /\ AsSigned(m + y * w, v) = m + TwosByte(y) * w
    BY <1>15
  <2> HIDE DEF v
  <2>3. q.V = 1 <=> ~Within(AsSigned(l + x * w, v) - AsSigned(m + y * w, v) - (1 - k), v)
    BY <1>16, <2>1, <2>2, Zenon
  <2> QED
    BY <2>3 DEF v
<1>19. d = 1 <=> (l + x * w) - (m + y * w) - (1 - k) >= 0
  <2> DEFINE n == r + a * w
             e == (1 - d) * (256 * w)
  <2>1. n < 0 + 256 * w
    BY <1>7, <1>9, HighFirst
  <2>2. a * w \in Nat
    BY <1>7, <1>9
  <2>3. n \in Nat
    BY <1>7, <2>2
  <2>4. e = IF d = 1 THEN 0 ELSE 256 * w
    BY <1>7, <1>9
  <2>5. n - e = (l + x * w) - (m + y * w) - (1 - k)
    BY <1>14
  <2> HIDE DEF n, e
  <2>6. d = 1 <=> n - e >= 0
    BY <1>7, <2>1, <2>3, <2>4
  <2> QED
    BY <2>5, <2>6, Zenon
<1>20. /\ Value(result)' - (1 - cpu'.C) * Base' = Value(first)' - Value(second)' - (1 - carry')
       /\ cpu'.C = 1 <=> Value(first)' - Value(second)' - (1 - carry') >= 0
       /\ cpu'.V = 1 <=>
            ~Within(AsSigned(Value(first)', Base') - AsSigned(Value(second)', Base') - (1 - carry'), Base')
  <2> DEFINE v == 256 * w
  <2>1. /\ Base' = v
        /\ (r + a * w) - (1 - d) * v = (l + x * w) - (m + y * w) - (1 - k)
        /\ q.V = 1 <=> ~Within(AsSigned(l + x * w, v) - AsSigned(m + y * w, v) - (1 - k), v)
    BY <1>10, <1>14, <1>18
  <2>2. cpu'.C = d /\ cpu'.V = q.V /\ carry' = k
    BY <1>6 DEF d, k
  <2> HIDE DEF v
  <2> QED
    BY <1>10, <1>19, <2>1, <2>2, Zenon
<1> QED
  BY <1>20 DEF Subtracts, Fits, Twos, Within, AsSigned

LEMMA CompareRight ==
    ASSUME AluTypeOK, Compares, Compare
    PROVE  AluTypeOK' /\ Compares'
<1> DEFINE q == IF done = 0 THEN ac_Execute_CMP(Fetched, second[Place])
                            ELSE ac_Execute_SBC(Fetched, second[Place])
<1>1. Step("compare", q)
  BY DEF Compare
<1>2. done < W /\ task = "compare" /\ cpu.D = 0
  BY <1>1 DEF Step, AluTypeOK
<1>3. /\ first[Place] \in Nat /\ first[Place] < 256
      /\ second[Place] \in Nat /\ second[Place] < 256
      /\ Fetched \in Registers /\ Fetched.A = first[Place]
      /\ Fetched.C = cpu.C /\ Fetched.D = cpu.D
  BY <1>2, FetchedBytes
<1>4. q \in Registers /\ q.A < 256 /\ q.D = cpu.D
  <2>1. CASE done = 0
    <3>1. ASSUME NEW u, u = ac_Execute_CMP(Fetched, second[Place])
          PROVE  u \in Registers /\ u.A = Fetched.A /\ u.D = Fetched.D
      BY <1>3, <3>1, CmpRegisters
    <3> QED
      BY <1>3, <2>1, <3>1
  <2>2. CASE done # 0
    BY <1>3, <2>2, SbcType
  <2> QED
    BY <2>1, <2>2
<1>5. /\ done = 0 => q = ac_Execute_CMP(Fetched, second[Place])
      /\ done # 0 => q = ac_Execute_SBC(Fetched, second[Place])
  OBVIOUS
<1> HIDE DEF q
<1>6. AluTypeOK' /\ cpu' = q /\ done' = done + 1 /\ done \in Nat
  BY <1>1, <1>2, <1>4, EachStep DEF AluTypeOK
<1> DEFINE w == Base
           l == Value(first)
           m == Value(second)
           x == first[Place]
           y == second[Place]
           c == cpu.C
           d == q.C
           i == TwosByte(x)
           j == TwosByte(y)
<1>7. w \in Nat \ {0} /\ l \in Nat /\ l < w /\ m \in Nat /\ m < w
  BY WholeNumbers
<1>8. /\ x \in Nat /\ x < 256 /\ y \in Nat /\ y < 256 /\ i \in Int /\ j \in Int
      /\ c \in Nat /\ c <= 1 /\ d \in Nat /\ d <= 1 /\ q.A \in Nat /\ q.A < 256
  BY <1>3, <1>4 DEF Registers, AluTypeOK, Bit, TwosByte
<1>9. Base' = 256 * w /\ Value(first)' = l + x * w /\ Value(second)' = m + y * w
  BY <1>1, <1>4, UpValues
<1>10. CASE done = 0
  <2>1. d = 1 <=> x >= y
    <3>1. ASSUME NEW u, u = ac_Execute_CMP(Fetched, second[Place])
          PROVE  u.C = 1 <=> Fetched.A >= second[Place]
      BY <1>3, <3>1, CmpRegisters
    <3> QED
      BY <1>3, <1>5, <1>10, <3>1
  <2>2. w = 1 /\ l = 0 /\ m = 0
    BY <1>10, WholeNumbers
  <2> HIDE DEF w, l, m, x, y
  <2>3. Value(first)' = x /\ Value(second)' = y
    BY <1>8, <1>9, <2>2
  <2>4. cpu'.C = 1 <=> Value(first)' >= Value(second)'
    BY <1>6, <2>1, <2>3
  <2>5. ~(done' > 1)
    BY <1>6, <1>10
  <2> QED
    BY <1>6, <2>4, <2>5 DEF Compares
<1>11. CASE done # 0
  <2>1. c = 1 <=> l >= m
    BY <1>2, <1>6, <1>11 DEF Compares
  <2>2. /\ q.A - 256 * (1 - d) = x - y - (1 - c)
        /\ q.N # q.V <=> i - j - (1 - c) < 0
    <3>1. ASSUME NEW u, u = TwosByte(Fetched.A) - TwosByte(y) - (1 - Fetched.C)
          PROVE  /\ q.A - 256 * (1 - d) = Fetched.A - y - (1 - Fetched.C)
                 /\ q.N # q.V <=> u < 0
      BY <1>2, <1>3, <1>5, <1>11, <3>1, SbcBinary
    <3> QED
      BY <1>3, <3>1
  <2>3. /\ AsSigned(l + x * w, 256 * w) = l + i * w
        /\ AsSigned(m + y * w, 256 * w) = m + j * w
    BY <1>7, <1>8, SignedTop
  <2>4. i = j <=> x = y
    BY <1>8 DEF TwosByte
  <2> HIDE DEF w, l, m, x, y, c, d, i, j
  <2>5. l + x * w < m + y * w <=> x < y \/ (x = y /\ l < m)
    BY <1>7, <1>8, HighFirst
  <2>6. l + i * w < m + j * w <=> i < j \/ (i = j /\ l < m)
    BY <1>7, <1>8, HighFirst
  <2>7. d = 1 <=> ~(l + x * w < m + y * w)
    <3> DEFINE a == q.A
    <3>1. a \in Nat /\ a < 256 /\ a - 256 * (1 - d) = x - y - (1 - c)
      BY <1>8, <2>2
    <3> HIDE DEF a
    <3>2. d = 1 <=> x - y - (1 - c) >= 0
      BY <1>8, <3>1
    <3>3. x - y - (1 - c) >= 0 <=> ~(x < y \/ (x = y /\ l < m))
      BY <1>7, <1>8, <2>1
    <3> QED
      BY <2>5, <3>2, <3>3
  <2>8. q.N # q.V <=> l + i * w < m + j * w
    <3>1. i - j - (1 - c) < 0 <=> i < j \/ (i = j /\ l < m)
      BY <1>7, <1>8, <2>1
    <3> QED
      BY <2>2, <2>6, <3>1
  <2>9. l + x * w \in Int /\ m + y * w \in Int
    <3>1. x * w \in Int /\ y * w \in Int
      BY <1>7, <1>8
    <3> QED
      BY <1>7, <3>1
  <2>10. cpu'.C = 1 <=> Value(first)' >= Value(second)'
    <3>1. \A g, h \in Int : ~(g < h) <=> g >= h
      OBVIOUS
    <3>2. d = 1 <=> l + x * w >= m + y * w
      BY <2>7, <2>9, <3>1, Zenon
    <3>3. cpu'.C = d
      BY <1>6 DEF d
    <3> QED
      BY <1>9, <3>2, <3>3, Zenon
  <2>11. cpu'.N # cpu'.V <=> AsSigned(Value(first)', Base') < AsSigned(Value(second)', Base')
    <3> DEFINE v == 256 * w
    <3>1. /\ Base' = v
          /\ AsSigned(l + x * w, v) = l + i * w
          /\ AsSigned(m + y * w, v) = m + j * w
      BY <1>9, <2>3
    <3>2. cpu'.N = q.N /\ cpu'.V = q.V
      BY <1>6
    <3> HIDE DEF v
    <3> QED
      BY <1>9, <2>8, <3>1, <3>2, Zenon
  <2> QED
    BY <1>6, <2>10, <2>11 DEF Compares, Twos, AsSigned
<1> QED
  BY <1>10, <1>11

LEMMA DoubleRight ==
    ASSUME AluTypeOK, Shifts, Double
    PROVE  AluTypeOK' /\ Shifts'
<1> DEFINE q == IF done = 0 THEN ac_Execute_ASL(Fetched) ELSE ac_Execute_ROL(Fetched)
<1>1. Step("double", q)
  BY DEF Double
<1>2. done < W /\ task = "double" /\ cpu.D = 0
  BY <1>1 DEF Step, AluTypeOK
<1>3. /\ first[Place] \in Nat /\ first[Place] < 256
      /\ Fetched \in Registers /\ Fetched.A = first[Place]
      /\ Fetched.C = cpu.C /\ Fetched.D = cpu.D
  BY <1>2, FetchedBytes
<1> DEFINE w == Base
           l == Value(first)
           r == Value(result)
           x == first[Place]
           c == IF done = 0 THEN 0 ELSE cpu.C
<1>4. q \in Registers /\ q.A < 256 /\ q.D = cpu.D /\ q.A + 256 * q.C = 2 * x + c
  <2>1. CASE done = 0
    <3>1. \A u : u = ac_Execute_ASL(Fetched) =>
                   /\ u \in Registers /\ u.A < 256 /\ u.D = Fetched.D
                   /\ u.A + 256 * u.C = 2 * Fetched.A
      BY <1>3, Doubles
    <3>2. q = ac_Execute_ASL(Fetched) /\ c = 0
      BY <2>1
    <3> HIDE DEF q, c
    <3>3. 2 * x + c = 2 * x
      BY <1>3, <3>2
    <3> QED
      BY <1>3, <3>1, <3>2, <3>3
  <2>2. CASE done # 0
    <3>1. \A u : u = ac_Execute_ROL(Fetched) =>
                   /\ u \in Registers /\ u.A < 256 /\ u.D = Fetched.D
                   /\ u.A + 256 * u.C = 2 * Fetched.A + Fetched.C
      BY <1>3, Doubles
    <3>2. q = ac_Execute_ROL(Fetched) /\ c = cpu.C
      BY <2>2
    <3> HIDE DEF q, c
    <3> QED
      BY <1>3, <3>1, <3>2
  <2> QED
    BY <2>1, <2>2
<1> HIDE DEF q
<1>5. AluTypeOK' /\ cpu' = q /\ task' = "double"
  BY <1>1, <1>2, <1>4, EachStep
<1>6. w \in Nat \ {0} /\ l \in Nat /\ r \in Nat
  BY WholeNumbers
<1>7. x \in Nat /\ c \in Nat /\ q.A \in Nat /\ q.C \in Nat
  BY <1>3, <1>4 DEF Registers, AluTypeOK, Bit
<1>8. Base' = 256 * w /\ Value(first)' = l + x * w /\ Value(result)' = r + q.A * w
  BY <1>1, <1>4, UpValues
<1>9. r + c * w = l + l + 0
  <2>1. CASE done = 0
    <3>1. w = 1 /\ l = 0 /\ r = 0
      BY <2>1, WholeNumbers
    <3> QED
      BY <2>1, <3>1
  <2>2. CASE done # 0
    <3>1. done > 0
      BY <2>2 DEF AluTypeOK
    <3>2. r + c * w = 2 * l
      BY <1>2, <2>2, <3>1 DEF Shifts
    <3> HIDE DEF r, c, w, l
    <3> QED
      BY <1>6, <3>2
  <2> QED
    BY <2>1, <2>2
<1> DEFINE a == q.A
           d == q.C
<1>10. a \in Nat /\ d \in Nat /\ a + 256 * d = 2 * x + c
  BY <1>4, <1>7
<1> HIDE DEF w, l, r, x, c, a, d
<1>11. a + 256 * d = x + x + c
  BY <1>7, <1>10
<1>12. (r + a * w) + d * (256 * w) = (l + x * w) + (l + x * w) + 0
  BY <1>6, <1>7, <1>9, <1>10, <1>11, AddDigit
<1>13. (r + a * w) + d * (256 * w) = 2 * (l + x * w)
  <2> DEFINE e == l + x * w
  <2>1. e \in Int /\ (r + a * w) + d * (256 * w) = e + e + 0
    BY <1>6, <1>7, <1>12
  <2> HIDE DEF e
  <2>2. e + e + 0 = 2 * e
    BY <2>1
  <2> QED
    BY <2>1, <2>2 DEF e
<1>14. Value(result)' + cpu'.C * Base' = 2 * Value(first)'
  BY <1>5, <1>8, <1>13 DEF a, d
<1> QED
  BY <1>5, <1>14 DEF Shifts

\* The carry c that the bytes above hand down goes into the top of the byte x.
LEMMA HalveDigit ==
    ASSUME NEW w \in Nat, NEW g \in Int, NEW h \in Int, NEW x \in Int, NEW a \in Int,
           NEW c \in Int, NEW d \in Int,
           2 * g + c * (256 * w) = h, 2 * a + d = x + 256 * c
    PROVE  2 * (g + a * w) + d * w = h + x * w
<1>1. (2 * a + d) * w = 2 * (a * w) + d * w
  OBVIOUS
<1>2. (x + 256 * c) * w = x * w + c * (256 * w)
  OBVIOUS
<1> DEFINE aw == a * w
           dw == d * w
           xw == x * w
           cw == c * (256 * w)
<1>3. /\ aw \in Int /\ dw \in Int /\ xw \in Int /\ cw \in Int
      /\ 2 * aw + dw = xw + cw /\ 2 * g + cw = h
  BY <1>1, <1>2
<1> HIDE DEF aw, dw, xw, cw
<1>4. 2 * (g + aw) + dw = h + xw
  BY <1>3
<1> QED
  BY <1>4 DEF aw, dw, xw

\* A step from the top down.
LEMMA DownStep ==
    ASSUME AluTypeOK, NEW STATE q, Step("halve", q), q \in Registers,
           NEW b \in Nat \ {0}, NEW STATE n, n = W - (done + 1)
    PROVE  /\ n \in Nat /\ W - done = n + 1 /\ Place = n + 1
           /\ Power(b)[n] \in Nat \ {0} /\ Power(b)[n + 1] = b * Power(b)[n]
           /\ \A f \in {first, result, result'}, i \in {n, n + 1, W} : Digits(f, b)[i] \in Nat
           /\ Digits(first, b)[n + 1] = Digits(first, b)[n] + first[n + 1] * Power(b)[n]
           /\ Digits(result', b)[n + 1] = Digits(result', b)[n] + q.A * Power(b)[n]
           /\ Digits(result', b)[W] - Digits(result', b)[n + 1]
                = Digits(result, b)[W] - Digits(result, b)[n + 1]
<1>1. W \in Nat
  BY AluAssumption
<1>2. done \in Nat /\ done < W /\ done' = done + 1 /\ task = "halve"
  BY DEF AluTypeOK, Step
<1>3. n \in Nat /\ n < W /\ W - done = n + 1
  BY <1>1, <1>2
<1>4. Place = n + 1 /\ n + 1 \in 1 .. W /\ n + 1 \in 0 .. W /\ n \in 0 .. W /\ W \in 0 .. W
  BY <1>1, <1>2, <1>3 DEF Place
<1>5. first \in [1 .. W -> Nat] /\ result \in [1 .. W -> Nat] /\ q.A \in Nat
  BY DEF AluTypeOK, Words, Registers
<1>6. result' = [result EXCEPT ![n + 1] = q.A]
  BY <1>4 DEF Step
<1>7. /\ result' \in [1 .. W -> Nat] /\ result'[n + 1] = q.A
      /\ \A i \in 1 .. W : i > n + 1 => result'[i] = result[i]
  BY <1>1, <1>3, <1>4, <1>5, <1>6
<1>8. ASSUME NEW f \in [1 .. W -> Nat]
      PROVE  /\ \A i \in 0 .. W : Digits(f, b)[i] \in Nat
             /\ Digits(f, b)[n + 1] = Digits(f, b)[n] + f[n + 1] * Power(b)[n]
  <2>1. \A i \in 0 .. W : Digits(f, b)[i] \in Nat
    BY Numbers
  <2>2. Digits(f, b)[n + 1] = Digits(f, b)[n] + f[n + 1] * Power(b)[n]
    BY <1>3, NextDigit
  <2> QED
    BY <2>1, <2>2
<1>9. Power(b)[n] \in Nat \ {0} /\ Power(b)[n + 1] = b * Power(b)[n]
  BY <1>3, <1>5, NextDigit
<1>10. ASSUME NEW f \in [1 .. W -> Nat], NEW g \in [1 .. W -> Nat], NEW i \in 0 .. W,
              \A j \in 1 .. W : j > i => f[j] = g[j]
       PROVE  Digits(f, b)[W] - Digits(f, b)[i] = Digits(g, b)[W] - Digits(g, b)[i]
  BY <1>10, SameHigh
<1>11. Digits(result', b)[W] - Digits(result', b)[n + 1]
         = Digits(result, b)[W] - Digits(result, b)[n + 1]
  BY <1>4, <1>5, <1>7, <1>10
<1>12. \A f \in {first, result, result'}, i \in {n, n + 1, W} : Digits(f, b)[i] \in Nat
  <2>1. \A f \in {first, result, result'} : f \in [1 .. W -> Nat]
    BY <1>5, <1>7
  <2>2. \A i \in {n, n + 1, W} : i \in 0 .. W
    BY <1>4
  <2> QED
    BY <1>8, <2>1, <2>2, Zenon
<1>13. /\ Digits(first, b)[n + 1] = Digits(first, b)[n] + first[n + 1] * Power(b)[n]
       /\ Digits(result', b)[n + 1] = Digits(result', b)[n] + q.A * Power(b)[n]
  BY <1>5, <1>7, <1>8
<1> QED
  BY <1>3, <1>4, <1>9, <1>11, <1>12, <1>13

LEMMA HalveRight ==
    ASSUME AluTypeOK, HalvesHigh, Halve
    PROVE  AluTypeOK' /\ HalvesHigh' /\ Shifts'
<1> DEFINE q == IF done = 0 THEN ac_Execute_LSR(Fetched) ELSE ac_Execute_ROR(Fetched)
<1>1. Step("halve", q)
  BY DEF Halve
<1>2. done < W /\ task = "halve" /\ cpu.D = 0 /\ done \in Nat
  BY <1>1 DEF Step, AluTypeOK
<1>3. /\ first[Place] \in Nat /\ first[Place] < 256
      /\ Fetched \in Registers /\ Fetched.A = first[Place]
      /\ Fetched.C = cpu.C /\ Fetched.D = cpu.D
  BY <1>2, FetchedBytes
<1> DEFINE x == first[Place]
           c == IF done = 0 THEN 0 ELSE cpu.C
<1>4. q \in Registers /\ q.A < 256 /\ q.D = cpu.D /\ 2 * q.A + q.C = x + 256 * c
  <2>1. CASE done = 0
    <3>1. \A u : u = ac_Execute_LSR(Fetched) =>
                   /\ u \in Registers /\ u.A < 256 /\ u.D = Fetched.D
                   /\ 2 * u.A + u.C = Fetched.A
      BY <1>3, Halves
    <3>2. q = ac_Execute_LSR(Fetched) /\ c = 0
      BY <2>1
    <3> HIDE DEF q, c
    <3>3. x + 256 * c = x
      BY <1>3, <3>2
    <3> QED
      BY <1>3, <3>1, <3>2, <3>3
  <2>2. CASE done # 0
    <3>1. \A u : u = ac_Execute_ROR(Fetched) =>
                   /\ u \in Registers /\ u.A < 256 /\ u.D = Fetched.D
                   /\ 2 * u.A + u.C = Fetched.A + 256 * Fetched.C
      BY <1>3, Halves
    <3>2. q = ac_Execute_ROR(Fetched) /\ c = cpu.C
      BY <2>2
    <3> HIDE DEF q, c
    <3> QED
      BY <1>3, <3>1, <3>2
  <2> QED
    BY <2>1, <2>2
<1> HIDE DEF q
<1>5. /\ AluTypeOK' /\ cpu' = q /\ task' = "halve" /\ first' = first
      /\ done' = done + 1
  BY <1>1, <1>2, <1>4, EachStep
<1>6. W \in Nat
  BY AluAssumption
<1> DEFINE n == W - (done + 1)
           p == Power(256)
           f == Digits(first, 256)
           g == Digits(result, 256)
           h == Digits(result', 256)
           k == n + 1
<1>7. /\ n \in Nat /\ W - done = k /\ Place = k
      /\ p[n] \in Nat \ {0} /\ p[k] = 256 * p[n]
      /\ f[n] \in Nat /\ f[k] \in Nat /\ f[W] \in Nat
      /\ g[n] \in Nat /\ g[k] \in Nat /\ g[W] \in Nat
      /\ h[n] \in Nat /\ h[k] \in Nat /\ h[W] \in Nat
      /\ f[k] = f[n] + first[k] * p[n]
      /\ h[k] = h[n] + q.A * p[n]
      /\ h[W] - h[k] = g[W] - g[k]
  BY <1>1, <1>4, DownStep
<1>8. /\ x \in Nat /\ c \in Nat /\ q.A \in Nat /\ q.C \in Nat /\ x = first[k]
  BY <1>3, <1>4, <1>7 DEF Registers, AluTypeOK, Bit
<1>9. W - done' = n
  BY <1>2, <1>5, <1>6
<1>10. 2 * (g[W] - g[k]) + c * p[k] = f[W] - f[k]
  <2>1. CASE done = 0
    <3>1. k = W /\ c = 0 /\ p[k] \in Nat
      BY <1>6, <1>7, <2>1
    <3> HIDE DEF k, g, f, p, c
    <3> QED
      BY <1>7, <3>1
  <2>2. CASE done # 0
    <3>1. done > 0
      BY <1>2, <2>2
    <3>2. 2 * (g[W] - g[W - done]) + cpu.C * p[W - done] = f[W] - f[W - done]
      BY <1>2, <3>1 DEF HalvesHigh
    <3>3. W - done = k /\ c = cpu.C
      BY <1>7, <2>2
    <3> HIDE DEF k, g, f, p, c
    <3> QED
      BY <3>2, <3>3
  <2> QED
    BY <2>1, <2>2
<1> DEFINE w == p[n]
           fn == f[n]
           fk == f[k]
           fw == f[W]
           hn == h[n]
           hk == h[k]
           hw == h[W]
           gd == g[W] - g[k]
           a == q.A
           d == q.C
<1>11. /\ w \in Nat /\ fn \in Nat /\ fk \in Nat /\ fw \in Nat /\ hn \in Nat /\ hk \in Nat
       /\ hw \in Nat /\ gd \in Int /\ a \in Nat /\ d \in Nat
       /\ 2 * gd + c * (256 * w) = fw - fk /\ hw - hk = gd
       /\ fk = fn + x * w /\ hk = hn + a * w
       /\ 2 * a + d = x + 256 * c
  <2> HIDE DEF p, f, g, h, k
  <2> QED
    BY <1>4, <1>7, <1>8, <1>10
<1> HIDE DEF w, fn, fk, fw, hn, hk, hw, gd, a, d, x, c
<1>12. fw - fk \in Int
  BY <1>11
<1>13. 2 * (gd + a * w) + d * w = (fw - fk) + x * w
  <2> DEFINE e == fw - fk
  <2>1. /\ w \in Nat /\ gd \in Int /\ e \in Int /\ x \in Int /\ a \in Int
        /\ c \in Int /\ d \in Int
        /\ 2 * gd + c * (256 * w) = e /\ 2 * a + d = x + 256 * c
    BY <1>8, <1>11, <1>12
  <2> HIDE DEF e
  <2>2. 2 * (gd + a * w) + d * w = e + x * w
    BY <2>1, HalveDigit
  <2> QED
    BY <2>2 DEF e
<1>14. gd + a * w = hw - hn /\ (fw - fk) + x * w = fw - fn
  <2> DEFINE aw == a * w
             xw == x * w
  <2>1. aw \in Int /\ xw \in Int /\ fk = fn + xw /\ hk = hn + aw
    BY <1>8, <1>11
  <2> HIDE DEF aw, xw
  <2>2. gd + aw = hw - hn /\ (fw - fk) + xw = fw - fn
    BY <1>11, <2>1
  <2> QED
    BY <2>2 DEF aw, xw
<1>15. 2 * (hw - hn) + d * w = fw - fn
  BY <1>13, <1>14
<1>16. 2 * (h[W] - h[n]) + q.C * p[n] = f[W] - f[n]
  BY <1>15 DEF hw, hn, d, w, fw, fn
<1>17. HalvesHigh'
  <2>1. /\ Digits(first', 256) = f /\ Digits(result', 256) = h /\ Power(256) = p
        /\ cpu'.C = q.C
    BY <1>5
  <2>2. 2 * (Digits(result', 256)[W] - Digits(result', 256)[W - done'])
            + cpu'.C * Power(256)[W - done']
          = Digits(first', 256)[W] - Digits(first', 256)[W - done']
    <3> HIDE DEF n, p, f, h
    <3> QED
      BY <1>9, <1>16, <2>1
  <2> QED
    BY <2>2 DEF HalvesHigh
<1>18. ASSUME done' = W
       PROVE  2 * Value(result)' + cpu'.C = Value(first)'
  <2>1. n = 0
    BY <1>6, <1>9, <1>18
  <2>2. \A b \in Nat \ {0} : Power(b)[0] = 1
    BY Powers
  <2>3. \A b \in Nat \ {0}, u \in [1 .. W -> Nat] : Digits(u, b)[0] = 0
    BY Numbers
  <2>4. 256 \in Nat \ {0} /\ first \in [1 .. W -> Nat] /\ result' \in [1 .. W -> Nat]
    BY <1>5 DEF AluTypeOK, Words
  <2>5. p[0] = 1 /\ f[0] = 0 /\ h[0] = 0
    BY <2>2, <2>3, <2>4
  <2>6. Value(result)' = h[W] /\ Value(first)' = f[W] /\ cpu'.C = q.C
    BY <1>5, <1>18 DEF Value
  <2> HIDE DEF n, p, f, h
  <2>7. 2 * (h[W] - 0) + q.C * 1 = f[W] - 0
    BY <1>16, <2>1, <2>5
  <2>8. 2 * h[W] + q.C = f[W]
    BY <1>7, <1>8, <2>7
  <2> QED
    BY <2>6, <2>8
<1>19. Shifts'
  BY <1>5, <1>18 DEF Shifts
<1> QED
  BY <1>5, <1>17, <1>19

\* The decimal numbers in bytes, by their bytes.
Bcd(f) == [i \in 1 .. W |-> BcdByte(f[i])]

LEMMA BcdNumbers ==
    ASSUME NEW f \in Words
    PROVE  /\ Bcd(f) \in [1 .. W -> Nat]
           /\ \A i \in 1 .. W : Bcd(f)[i] = BcdByte(f[i])
<1>1. \A b \in Nat : BcdByte(b) \in Nat
  BY DEF BcdByte
<1>2. \A i \in 1 .. W : f[i] \in Nat
  BY DEF Words
<1> QED
  BY <1>1, <1>2 DEF Bcd

LEMMA DecimalRight ==
    ASSUME AluTypeOK, AddsDecimal, Add
    PROVE  AddsDecimal'
<1> DEFINE q == ac_Execute_ADC(Fetched, second[Place])
<1>1. Step("add", q)
  BY DEF Add
<1>2. done < W /\ done \in Nat
  BY <1>1 DEF Step, AluTypeOK
<1>3. /\ first[Place] \in Nat /\ first[Place] < 256
      /\ second[Place] \in Nat /\ second[Place] < 256
      /\ Fetched \in Registers /\ Fetched.A = first[Place]
      /\ Fetched.C = cpu.C /\ Fetched.D = cpu.D /\ Place \in 1 .. W
  BY <1>2, FetchedBytes
<1>4. q \in Registers /\ q.A < 256 /\ q.D = cpu.D
  BY <1>3, AdcType
<1>5. q = ac_Execute_ADC(Fetched, second[Place])
  OBVIOUS
<1> HIDE DEF q
<1>6. /\ AluTypeOK'
      /\ task = "add" /\ carry' = carry /\ cpu' = q /\ first' = first /\ second' = second
      /\ done' = done + 1 /\ result' = [result EXCEPT ![Place] = q.A]
  BY <1>1, <1>4, EachStep
<1>7. Place = done + 1
  BY <1>6 DEF Place
<1> SUFFICES ASSUME cpu.D = 1, IsBcd(first), IsBcd(second) PROVE AddsDecimal'
  BY <1>4, <1>6 DEF AddsDecimal, IsBcd
<1> DEFINE h == 100
           w == Power(h)[done]
           l == Digits(Bcd(first), h)[done]
           m == Digits(Bcd(second), h)[done]
           r == Digits(Bcd(result), h)[done]
           x == BcdByte(first[Place])
           y == BcdByte(second[Place])
           a == BcdByte(q.A)
           c == cpu.C
           d == q.C
           k == carry
<1>8. IsBcd(result) /\ r + c * w = l + m + k
  BY <1>6 DEF AddsDecimal, BcdValue, Bcd
<1>9. /\ DecimalByte(q.A)
      /\ a + h * d = x + y + c
  <2>1. DecimalByte(Fetched.A) /\ DecimalByte(second[Place])
    BY <1>3 DEF DecimalByte, IsBcd
  <2>2. /\ DecimalByte(q.A)
        /\ BcdByte(q.A) + h * q.C = BcdByte(Fetched.A) + BcdByte(second[Place]) + Fetched.C
    BY <1>3, <1>5, <2>1, AdcDecimal
  <2> QED
    BY <1>3, <2>2
<1>10. IsBcd(result')
  <2>1. result \in [1 .. W -> Nat]
    BY DEF AluTypeOK, Words
  <2>2. \A i \in 1 .. W : result'[i] = IF i = Place THEN q.A ELSE result[i]
    BY <1>3, <1>6, <2>1
  <2> QED
    BY <1>8, <1>9, <2>2 DEF IsBcd, DecimalByte
<1>11. first \in Words /\ second \in Words /\ result \in Words /\ result' \in Words
  BY <1>6 DEF AluTypeOK
<1>12. /\ Bcd(first) \in [1 .. W -> Nat] /\ Bcd(second) \in [1 .. W -> Nat]
       /\ Bcd(result) \in [1 .. W -> Nat] /\ Bcd(result') \in [1 .. W -> Nat]
       /\ Bcd(first)[done + 1] = x /\ Bcd(second)[done + 1] = y /\ Bcd(result')[done + 1] = a
       /\ \A i \in 1 .. done : Bcd(result')[i] = Bcd(result)[i]
  <2>1. \A f \in Words : /\ Bcd(f) \in [1 .. W -> Nat]
                         /\ \A i \in 1 .. W : Bcd(f)[i] = BcdByte(f[i])
    BY BcdNumbers
  <2>2. result'[Place] = q.A /\ \A i \in 1 .. done : result'[i] = result[i] /\ i \in 1 .. W
    <3>1. W \in Nat
      BY AluAssumption
    <3>2. result \in [1 .. W -> Nat]
      BY <1>11 DEF Words
    <3> QED
      BY <1>2, <1>3, <1>6, <1>7, <3>1, <3>2
  <2>3. done + 1 \in 1 .. W
    BY <1>3, <1>7
  <2>4. /\ Bcd(first)[done + 1] = BcdByte(first[done + 1])
        /\ Bcd(second)[done + 1] = BcdByte(second[done + 1])
        /\ Bcd(result')[done + 1] = BcdByte(result'[done + 1])
    BY <1>11, <2>1, <2>3, Zenon
  <2>5. \A i \in 1 .. done : Bcd(result')[i] = Bcd(result)[i]
    BY <1>11, <2>1, <2>2, Zenon
  <2>6. /\ Bcd(first) \in [1 .. W -> Nat] /\ Bcd(second) \in [1 .. W -> Nat]
        /\ Bcd(result) \in [1 .. W -> Nat] /\ Bcd(result') \in [1 .. W -> Nat]
    BY <1>11, <2>1, Zenon
  <2> QED
    BY <1>7, <2>2, <2>4, <2>5, <2>6, Zenon
<1>13. h \in Nat \ {0}
  OBVIOUS
<1> HIDE DEF h
<1>14. ASSUME NEW f \in [1 .. W -> Nat]
       PROVE  /\ Power(h)[done] \in Nat \ {0}
              /\ Power(h)[done + 1] = h * Power(h)[done]
              /\ Digits(f, h)[done] \in Nat /\ f[done + 1] \in Nat
              /\ Digits(f, h)[done + 1] = Digits(f, h)[done] + f[done + 1] * Power(h)[done]
  BY <1>2, <1>13, NextDigit
<1>15. ASSUME NEW f \in [1 .. W -> Nat], NEW g \in [1 .. W -> Nat],
              \A i \in 1 .. done : g[i] = f[i]
       PROVE  Digits(g, h)[done + 1] = Digits(f, h)[done] + g[done + 1] * Power(h)[done]
  BY <1>2, <1>13, <1>15, PutDigit
<1>16. /\ w \in Nat /\ l \in Nat /\ m \in Nat /\ r \in Nat
       /\ x \in Nat /\ y \in Nat /\ a \in Nat
  BY <1>12, <1>14, Zenon
<1>17. c \in Nat /\ d \in Nat /\ k \in Nat
  BY <1>4 DEF Registers, AluTypeOK, Bit
<1>18. /\ Power(h)[done'] = h * w
       /\ Digits(Bcd(first), h)[done'] = l + x * w
       /\ Digits(Bcd(second), h)[done'] = m + y * w
       /\ Digits(Bcd(result'), h)[done'] = r + a * w
  <2>1. Power(h)[done + 1] = h * w
    BY <1>12, <1>14
  <2>2. /\ Digits(Bcd(first), h)[done + 1] = l + x * w
        /\ Digits(Bcd(second), h)[done + 1] = m + y * w
    BY <1>12, <1>14
  <2>3. Digits(Bcd(result'), h)[done + 1] = r + a * w
    BY <1>12, <1>15
  <2> QED
    BY <1>6, <2>1, <2>2, <2>3
<1>19. (r + a * w) + d * (h * w) = (l + x * w) + (m + y * w) + k
  <2> HIDE DEF w, l, m, r, x, y, a, c, d, k
  <2>1. /\ h \in Nat /\ r + c * w = l + m + k /\ a + h * d = x + y + c
        /\ w \in Nat /\ l \in Int /\ m \in Int /\ r \in Int
        /\ x \in Int /\ y \in Int /\ a \in Int /\ c \in Int /\ d \in Int /\ k \in Int
    BY <1>8, <1>9, <1>13, <1>16, <1>17
  <2> QED
    BY <2>1, AddDigit
<1>20. Digits(Bcd(result'), h)[done'] + cpu'.C * Power(h)[done']
         = Digits(Bcd(first'), h)[done'] + Digits(Bcd(second'), h)[done'] + carry'
  <2> HIDE DEF w, l, m, r, x, y, a
  <2> QED
    BY <1>6, <1>18, <1>19
<1> QED
  BY <1>10, <1>20 DEF AddsDecimal, BcdValue, Bcd, IsBcd, h

LEMMA AluInvInit ==
    ASSUME AluInit
    PROVE  AluInv
<1>1. W \in Nat \ {0} /\ Samples \subseteq 0 .. 255
  BY AluAssumption
<1>2. PICK c \in Bit, d \in Bit :
        /\ task \notin {"add", "subtract"} => d = 0
        /\ cpu = [A |-> 0, C |-> c, Z |-> 0, N |-> 0, V |-> 0, D |-> d]
        /\ carry = c
  BY DEF AluInit
<1>3. cpu \in Registers /\ cpu.C = carry /\ carry \in Bit /\ (task \notin {"add", "subtract"} => cpu.D = 0)
  BY <1>2 DEF Registers, Bit
<1>4. \A f \in [1 .. W -> Samples] : f \in Words
  <2>1. \A b \in Samples : b \in Nat /\ b < 256
    BY <1>1
  <2> QED
    BY <2>1 DEF Words
<1>5. first \in Words /\ second \in Words /\ done = 0 /\ task \in Tasks
  BY <1>4 DEF AluInit
<1>6. result \in Words /\ \A i \in 1 .. W : result[i] = 0
  BY DEF AluInit, Words
<1>7. AluTypeOK
  BY <1>1, <1>3, <1>5, <1>6 DEF AluTypeOK
<1>8. WordArithmetic /\ HalvesHigh
  BY <1>1, <1>5 DEF WordArithmetic, Adds, Subtracts, Compares, Shifts, HalvesHigh
<1>9. AddsDecimal
  <2>1. IsBcd(result)
    <3>1. 0 % 16 = 0 /\ 0 \div 16 = 0
      OBVIOUS
    <3> QED
      BY <1>6, <3>1 DEF IsBcd
  <2>2. \A f \in Words : Bcd(f) \in [1 .. W -> Nat]
    BY BcdNumbers
  <2>3. \A b \in Nat \ {0} : Power(b)[0] = 1
    BY Powers
  <2>4. \A b \in Nat \ {0}, u \in [1 .. W -> Nat] : Digits(u, b)[0] = 0
    BY Numbers
  <2>5. 100 \in Nat \ {0}
    OBVIOUS
  <2>6. /\ BcdValue(first) = Digits(Bcd(first), 100)[0]
        /\ BcdValue(second) = Digits(Bcd(second), 100)[0]
        /\ BcdValue(result) = Digits(Bcd(result), 100)[0]
    BY <1>5 DEF BcdValue, Bcd
  <2>7. BcdValue(first) = 0 /\ BcdValue(second) = 0 /\ BcdValue(result) = 0
    BY <1>5, <1>6, <2>2, <2>4, <2>5, <2>6
  <2>8. Power(100)[done] = 1
    BY <1>5, <2>3, <2>5
  <2>9. BcdValue(result) + cpu.C * Power(100)[done] = BcdValue(first) + BcdValue(second) + carry
    <3>1. cpu.C \in Nat /\ cpu.C = carry
      BY <1>3 DEF Bit
    <3> QED
      BY <2>7, <2>8, <3>1
  <2> QED
    BY <2>1, <2>9 DEF AddsDecimal
<1> QED
  BY <1>7, <1>8, <1>9 DEF AluInv

\* A step leaves alone what is said of the other tasks.
LEMMA AluInvStep ==
    ASSUME AluInv, AluNext
    PROVE  AluInv'
<1>1. AluTypeOK /\ Adds /\ Subtracts /\ Compares /\ Shifts /\ HalvesHigh /\ AddsDecimal
  BY DEF AluInv, WordArithmetic
<1>2. CASE Add
  <2>1. AluTypeOK' /\ Adds' /\ AddsDecimal'
    BY <1>1, <1>2, AddRight, DecimalRight
  <2>2. task' = "add"
    BY <1>2 DEF Add, Step
  <2> QED
    BY <2>1, <2>2 DEF AluInv, WordArithmetic, Subtracts, Compares, Shifts, HalvesHigh
<1>3. CASE Subtract
  <2>1. AluTypeOK' /\ Subtracts'
    BY <1>1, <1>3, SubtractRight
  <2>2. task' = "subtract"
    BY <1>3 DEF Subtract, Step
  <2> QED
    BY <2>1, <2>2 DEF AluInv, WordArithmetic, Adds, Compares, Shifts, HalvesHigh, AddsDecimal
<1>4. CASE Compare
  <2>1. AluTypeOK' /\ Compares'
    BY <1>1, <1>4, CompareRight
  <2>2. task' = "compare"
    BY <1>4 DEF Compare, Step
  <2> QED
    BY <2>1, <2>2 DEF AluInv, WordArithmetic, Adds, Subtracts, Shifts, HalvesHigh, AddsDecimal
<1>5. CASE Double
  <2>1. AluTypeOK' /\ Shifts'
    BY <1>1, <1>5, DoubleRight
  <2>2. task' = "double"
    BY <1>5 DEF Double, Step
  <2> QED
    BY <2>1, <2>2 DEF AluInv, WordArithmetic, Adds, Subtracts, Compares, HalvesHigh, AddsDecimal
<1>6. CASE Halve
  <2>1. AluTypeOK' /\ HalvesHigh' /\ Shifts'
    BY <1>1, <1>6, HalveRight
  <2>2. task' = "halve"
    BY <1>6 DEF Halve, Step
  <2> QED
    BY <2>1, <2>2 DEF AluInv, WordArithmetic, Adds, Subtracts, Compares, AddsDecimal
<1> QED
  BY <1>2, <1>3, <1>4, <1>5, <1>6 DEF AluNext

LEMMA AluInvariant == AluSpec => []AluInv
<1>1. AluInit => AluInv
  BY AluInvInit
<1>2. AluInv /\ [AluNext]_aluVars => AluInv'
  <2> SUFFICES ASSUME AluInv, [AluNext]_aluVars PROVE AluInv'
    OBVIOUS
  <2>1. CASE AluNext
    BY <2>1, AluInvStep
  <2>2. CASE UNCHANGED aluVars
    <3>1. AluTypeOK'
      BY <2>2 DEF AluInv, AluTypeOK, aluVars
    <3>2. WordArithmetic' /\ HalvesHigh'
      BY <2>2 DEF AluInv, WordArithmetic, Adds, Subtracts, Compares, Shifts, HalvesHigh,
                  Value, Base, Fits, Twos, aluVars
    <3>3. AddsDecimal'
      BY <2>2 DEF AluInv, AddsDecimal, BcdValue, IsBcd, aluVars
    <3> QED
      BY <3>1, <3>2, <3>3 DEF AluInv
  <2> QED
    BY <2>1, <2>2
<1> QED
  BY <1>1, <1>2, PTL DEF AluSpec

\* For numbers of any length and any bytes, programs that chain the arithmetic
\* of AppleCpu.c compute what whole numbers do: ADC and SBC add and subtract
\* with C as carry and V as the signed overflow, CMP and SBCs compare, signed
\* and unsigned, and the shifts double and halve.
THEOREM WordsAreRight == AluSpec => []WordArithmetic
<1>1. AluInv => WordArithmetic
  BY DEF AluInv
<1> QED
  BY <1>1, AluInvariant, PTL

\* In decimal mode ac_Execute_ADC, with its correction by one exclusive or,
\* adds decimal numbers of any length, and leaves decimal digits.
THEOREM DecimalSums == AluSpec => []AddsDecimal
<1>1. AluInv => AddsDecimal
  BY DEF AluInv
<1> QED
  BY <1>1, AluInvariant, PTL

=============================================================================
