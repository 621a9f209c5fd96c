------------------------------- MODULE CpuRun -------------------------------
(***************************************************************************)
(* ac_Run of Apple2/AppleCpu.c: the loop that fetches and executes 6502    *)
(* instructions until a budget of cycles is used up, with the program      *)
(* counter, the status flags and the stack in page one.                    *)
(*                                                                         *)
(* The program is arbitrary: at each turn any instruction may follow.  The *)
(* values it computes are abstracted to arbitrary ones (the module Alu has *)
(* the arithmetic); what an instruction does to PC, to SP, to the stack,   *)
(* to which flags and, exactly as coded, to the cycle counter is kept.     *)
(* Many helpers write *cycle--, which moves the helper's own pointer and   *)
(* costs nothing; those costs are 0 here as they are in the program.       *)
(*                                                                         *)
(* Of the program it is assumed that it pulls from the stack what it       *)
(* pushed (RTS after JSR, RTI after BRK, PLP after PHP, PLA after PHA), in *)
(* any nesting, also after switching stacks with TXS, and leaves page one  *)
(* to these instructions.                                                  *)
(***************************************************************************)
EXTENDS Integers

CONSTANTS B,          \* 256, the values of a BYTE
          CycleMod,   \* 2^32, the modulus of unsigned long
          Budgets,    \* the arguments of ac_Run (3050 and 5000)
          Targets,    \* operands of JSR and JMP, contents of vectors
          Values,     \* the bytes in A and X after computations, and branch offsets
          Tracked,    \* the flags the model follows
          Ops,        \* the instruction groups the program uses
          MaxTurns    \* bound: instructions executed in a behaviour

ASSUME CpuAssumption ==
    /\ B \in Nat \ {0, 1, 2}
    /\ CycleMod \in Nat \ {0}
    /\ Budgets \subseteq 1 .. CycleMod - 1
    /\ Targets \subseteq 0 .. B * B - 1
    /\ Values \subseteq 0 .. B - 1
    /\ Tracked \subseteq {"C", "Z", "I", "D", "B", "U", "V", "N"}
    /\ MaxTurns \in Nat

Byte == 0 .. B - 1
Word == 0 .. B * B - 1

VARIABLES
    at,           \* "idle", or "run": at the head of the while loop
    cycle,
    A, PC, SP,
    PS,           \* the set of tracked flags that are 1
    stack,        \* page one
    budget,       \* ghost: the argument of ac_Run
    turns,        \* ghost: instructions executed
    frames        \* ghost: what was pushed, not pulled and not overwritten

vars == <<at, cycle, A, PC, SP, PS, stack, budget, turns, frames>>

Init ==
    /\ at = "idle"
    /\ cycle = 0
    /\ A = 0
    /\ PC \in Targets                          \* ac_Reset: the reset vector
    /\ SP = B - 3                              \* STACK_POS, 0xFD
    /\ PS = {"I", "U"} \cap Tracked                     \* ac_Reboot, ac_Reset
    /\ stack = [i \in Byte |-> 0]
    /\ budget = 0
    /\ turns = 0
    /\ frames = {}

\* ac_Run is called.
Run(b) ==
    /\ at = "idle"
    /\ at' = "run"
    /\ cycle' = b
    /\ budget' = b
    /\ UNCHANGED <<A, PC, SP, PS, stack, turns, frames>>

-----------------------------------------------------------------------------
(* The turn of the loop.                                                   *)

\* Mutant of Continues: the counter may wrap around.
Continues_NoBreak(left) == left > 0

\* No break (prevcycle < cycle), and the while condition holds.
Continues(left) == left <= cycle /\ left > 0

\* One instruction of group g is executed: ac_Fetch, the case of the switch,
\* which spends n cycles, and the test at the end of the loop.
Turn(g, n) ==
    LET left == (cycle - n) % CycleMod
    IN  /\ at = "run"
        /\ g \in Ops
        /\ turns < MaxTurns
        /\ turns' = turns + 1
        /\ cycle' = left
        /\ at' = IF Continues(left) THEN "run" ELSE "idle"
        /\ UNCHANGED budget

\* PC after the opcode and n operand bytes.
Past(n) == (PC + 1 + n) % (B * B)

\* Addressing modes: operand bytes, and cycles spent by ac_addr_mode_ and the
\* access.
Operands == [IMP |-> 0, IM |-> 1, ZP |-> 1, ZPX |-> 1, ZPY |-> 1, ABS |-> 2,
             ABSX |-> 2, ABSY |-> 2, ABSX_NoPage |-> 2, ABSY_NoPage |-> 2,
             INDX |-> 1, INDY |-> 1, STA_INDY |-> 1]

Spent == [IMP |-> 0, IM |-> 0, ZP |-> 0, ZPX |-> 0, ZPY |-> 0, ABS |-> 2,
          ABSX |-> 0, ABSY |-> 0, ABSX_NoPage |-> 2, ABSY_NoPage |-> 2,
          INDX |-> 0, INDY |-> 0, STA_INDY |-> 3]

ReadModes == {"IM", "ZP", "ZPX", "ABS", "ABSX", "ABSY", "INDX", "INDY"}

\* Groups of instructions that use neither the stack nor PC: their modes, the
\* cycles the case itself spends, the flags it assigns, whether it changes A.
Group(modes, spends, sets, toA) ==
    [modes |-> modes, spends |-> spends, sets |-> sets, toA |-> toA]

LDA == Group(ReadModes, 0, {"Z", "N"}, TRUE)
LDX == Group({"IM", "ZP", "ZPY", "ABS", "ABSY"}, 0, {"Z", "N"}, FALSE)
LDY == Group({"IM", "ZP", "ZPX", "ABS", "ABSX"}, 0, {"Z", "N"}, FALSE)
STA == Group({"ZP", "ZPX", "ABS", "ABSX_NoPage", "ABSY_NoPage", "INDX", "STA_INDY"},
             0, {}, FALSE)
STX == Group({"ZP", "ZPY", "ABS"}, 0, {}, FALSE)
STY == Group({"ZP", "ZPX", "ABS"}, 0, {}, FALSE)
AND == Group(ReadModes, 0, {"Z", "N"}, TRUE)
ORA == AND
EOR == AND
BIT == Group({"ZP", "ABS"}, 0, {"Z", "N", "V"}, FALSE)
TAX == Group({"IMP"}, 1, {"Z", "N"}, FALSE)              \* TAY, TSX
TXA == Group({"IMP"}, 1, {"Z", "N"}, TRUE)               \* TYA
INX == Group({"IMP"}, 1, {"Z", "N"}, FALSE)              \* INY, DEX, DEY
INC == Group({"ZP", "ZPX", "ABS", "ABSX_NoPage"}, 1, {"Z", "N"}, FALSE)   \* DEC
ADC == Group(ReadModes, 0, {"Z", "N", "C", "V"}, TRUE)
SBC == ADC
CMP == Group(ReadModes, 0, {"Z", "N", "C"}, FALSE)
CPX == Group({"IM", "ZP", "ABS"}, 0, {"Z", "N", "C"}, FALSE)              \* CPY
ASL == Group({"ZP", "ZPX", "ABS", "ABSX"}, 0, {"Z", "N", "C"}, FALSE)
ROL == Group({"ZP", "ZPX", "ABS", "ABSX_NoPage"}, 0, {"Z", "N", "C"}, FALSE)
LSR == ROL
ROR == ROL
ASL_A == Group({"IMP"}, 0, {"Z", "N", "C"}, TRUE)        \* LSR, ROL, ROR of A
NOP == Group({"IMP"}, 1, {}, FALSE)
UNKNOWN == Group({"IMP"}, 0, {}, FALSE)                  \* default

Groups ==
    [LDA |-> LDA, LDX |-> LDX, LDY |-> LDY, STA |-> STA, STX |-> STX, STY |-> STY,
     AND |-> AND, ORA |-> ORA, EOR |-> EOR, BIT |-> BIT, TAX |-> TAX, TXA |-> TXA,
     INX |-> INX, INC |-> INC, ADC |-> ADC, SBC |-> SBC, CMP |-> CMP, CPX |-> CPX,
     ASL |-> ASL, ROL |-> ROL, LSR |-> LSR, ROR |-> ROR, ASL_A |-> ASL_A,
     NOP |-> NOP, UNKNOWN |-> UNKNOWN]

\* The flags an instruction may leave; BIT copies N from memory, every other
\* one gets Z and N from one value (ac_SetZeroNegative).
Outcomes(g) ==
    {f \in SUBSET (Groups[g].sets \cap Tracked) : g = "BIT" \/ ~({"Z", "N"} \subseteq f)}

Compute(g, m) ==
    /\ Turn(g, Spent[m] + Groups[g].spends)
    /\ PC' = Past(Operands[m])
    /\ \E f \in Outcomes(g) : PS' = (PS \ Groups[g].sets) \cup f
    /\ IF Groups[g].toA THEN A' \in Values ELSE A' = A
    /\ UNCHANGED <<SP, stack, frames>>

\* ac_addr_mode_INDX passes its moved pointer on to ac_ReadWord, which takes 2
\* from the local below cycle in ac_Run's frame.  That may be prevcycle, and
\* then the loop ends; any other local is dead or assigned later.
Stray(g) ==
    /\ "INDX" \in Groups[g].modes
    /\ at = "run"
    /\ g \in Ops
    /\ turns < MaxTurns
    /\ turns' = turns + 1
    /\ cycle >= 2
    /\ at' = "idle"
    /\ PC' = Past(Operands["INDX"])
    /\ \E f \in Outcomes(g) : PS' = (PS \ Groups[g].sets) \cup f
    /\ IF Groups[g].toA THEN A' \in Values ELSE A' = A
    /\ UNCHANGED <<cycle, budget, SP, stack, frames>>

-----------------------------------------------------------------------------
(* Flags, jumps and branches.                                              *)

\* CLC, CLD, CLI, CLV, SEC, SED, SEI.
Switched == {"C", "D", "I", "V"}

SetFlag(f, v) ==
    /\ f \in Tracked
    /\ f = "V" => ~v                                        \* there is no SEV
    /\ Turn("FLAG", 1)
    /\ PC' = Past(0)
    /\ PS' = IF v THEN PS \cup {f} ELSE PS \ {f}
    /\ UNCHANGED <<A, SP, stack, frames>>

Signed(offset) == IF offset < B \div 2 THEN offset ELSE offset - B

\* BCC, BCS, BEQ, BNE, BMI, BPL, BVC, BVS.
Branched == {"C", "Z", "N", "V"}

\* ac_Execute_BRANCH on flag f, taken when its value is v.
Branch(f, v, offset) ==
    /\ f \in Tracked
    /\ Turn("BRANCH", 0)
    /\ PC' = IF (f \in PS) = v THEN (Past(1) + Signed(offset)) % (B * B)
                               ELSE Past(1)
    /\ UNCHANGED <<A, SP, PS, stack, frames>>

JMP_ABS(t) ==
    /\ Turn("JMP", 2)
    /\ PC' = t
    /\ UNCHANGED <<A, SP, PS, stack, frames>>

\* The word read is arbitrary.
JMP_IND(t) ==
    /\ Turn("JMP_IND", 4)
    /\ PC' = t
    /\ UNCHANGED <<A, SP, PS, stack, frames>>

-----------------------------------------------------------------------------
(* The stack.  SP moves down; safeDec and safeInc wrap around.             *)

safeDec(sp, n) == (sp - n) % B
safeInc(sp, n) == (sp + n) % B

\* ac_PushStackByte, ac_PushStackWord: a word is pushed high byte first.
PushByte(st, sp, v) == [st EXCEPT ![sp] = v]

\* Mutant of PushWord: low byte first.
PushWord_LowFirst(st, sp, w) ==
    [st EXCEPT ![sp] = w % B, ![safeDec(sp, 1)] = w \div B]

PushWord(st, sp, w) ==
    [st EXCEPT ![sp] = w \div B, ![safeDec(sp, 1)] = w % B]

\* The word whose low byte is at sp + 1.
PopWord(sp) == stack[safeInc(sp, 1)] + B * stack[safeInc(sp, 2)]

\* Ghost: a pushed frame, with SP before the push; the bytes it occupies, and
\* SP after the push.
Frame(g, ret, ps, a) == [of |-> g, sp |-> SP, ret |-> ret, ps |-> ps, a |-> a]
Size == [PHA |-> 1, PHP |-> 1, JSR |-> 2, BRK |-> 3]
Bytes(f) == {safeDec(f.sp, i) : i \in 0 .. Size[f.of] - 1}
End(f) == safeDec(f.sp, Size[f.of])

\* Ghost: frames after pushing f, without those it overwrites.
Push(f) == {e \in frames : Bytes(e) \cap Bytes(f) = {}} \cup {f}

\* Ghost: the frame at SP, if there is one and it is a g.
Pulls(g) == \E f \in frames : f.of = g /\ End(f) = SP
Top == CHOOSE f \in frames : End(f) = SP

PHA ==
    /\ Turn("PHA", 0)
    /\ PC' = Past(0)
    /\ stack' = PushByte(stack, SP, A)
    /\ SP' = safeDec(SP, 1)
    /\ frames' = Push(Frame("PHA", 0, {}, A))
    /\ UNCHANGED <<A, PS>>

\* ac_SetZeroNegative
ZeroNegative(v) ==
    (IF v = 0 THEN {"Z"} ELSE {}) \cup (IF v >= B \div 2 THEN {"N"} ELSE {})

PLA ==
    /\ Pulls("PHA")
    /\ Turn("PLA", 1)
    /\ PC' = Past(0)
    /\ SP' = safeInc(SP, 1)
    /\ A' = stack[safeInc(SP, 1)]
    /\ PS' = (PS \ {"Z", "N"}) \cup (ZeroNegative(A') \cap Tracked)
    /\ frames' = frames \ {Top}
    /\ UNCHANGED stack

PHP ==
    /\ Turn("PHP", 0)
    /\ PC' = Past(0)
    /\ stack' = PushByte(stack, SP, PS \cup ({"B"} \cap Tracked))
    /\ SP' = safeDec(SP, 1)
    /\ frames' = Push(Frame("PHP", 0, PS, 0))
    /\ UNCHANGED <<A, PS>>

\* Mutant of PLP: leaves the decimal and interrupt flags alone.
PLP_KeepsModes ==
    /\ Pulls("PHP")
    /\ Turn("PLP", 0)
    /\ PC' = Past(0)
    /\ SP' = safeInc(SP, 1)
    /\ PS' = (stack[safeInc(SP, 1)] \ {"D", "I"}) \cup (PS \cap {"D", "I"})
    /\ frames' = frames \ {Top}
    /\ UNCHANGED <<A, stack>>

PLP ==
    /\ Pulls("PHP")
    /\ Turn("PLP", 0)
    /\ PC' = Past(0)
    /\ SP' = safeInc(SP, 1)
    /\ PS' = stack[safeInc(SP, 1)] \cup ({"U"} \cap Tracked)
    /\ frames' = frames \ {Top}
    /\ UNCHANGED <<A, stack>>

\* The pushed PC is that of the high byte of the operand.
JSR(t) ==
    /\ Turn("JSR", 1)
    /\ stack' = PushWord(stack, SP, Past(1))
    /\ SP' = safeDec(SP, 2)
    /\ PC' = t
    /\ frames' = Push(Frame("JSR", Past(2), {}, 0))
    /\ UNCHANGED <<A, PS>>

RTS ==
    /\ Pulls("JSR")
    /\ Turn("RTS", 2)
    /\ PC' = (PopWord(SP) + 1) % (B * B)
    /\ SP' = safeInc(SP, 2)
    /\ frames' = frames \ {Top}
    /\ UNCHANGED <<A, PS, stack>>

\* The byte after the opcode is skipped; the vector holds any word.
BRK(t) ==
    /\ Turn("BRK", 0)
    /\ stack' = PushByte(PushWord(stack, SP, Past(1)), safeDec(SP, 2), PS \cup ({"B"} \cap Tracked))
    /\ SP' = safeDec(SP, 3)
    /\ PS' = (PS \cup ({"I"} \cap Tracked)) \ {"D"}
    /\ PC' = t
    /\ frames' = Push(Frame("BRK", Past(1), PS, 0))
    /\ UNCHANGED A

RTI ==
    /\ Pulls("BRK")
    /\ Turn("RTI", 5)
    /\ PS' = stack[safeInc(SP, 1)]
    /\ PC' = PopWord(safeInc(SP, 1))
    /\ SP' = safeInc(SP, 3)
    /\ frames' = frames \ {Top}
    /\ UNCHANGED <<A, stack>>

\* SP = X
TXS(x) ==
    /\ Turn("TXS", 1)
    /\ PC' = Past(0)
    /\ SP' = x
    /\ UNCHANGED <<A, PS, stack, frames>>

-----------------------------------------------------------------------------
Next ==
    \/ \E b \in Budgets : Run(b)
    \/ \E g \in DOMAIN Groups \cap Ops : \E m \in Groups[g].modes : Compute(g, m)
    \/ \E g \in DOMAIN Groups \cap Ops : Stray(g)
    \/ \E f \in Switched, v \in BOOLEAN : SetFlag(f, v)
    \/ \E f \in Branched, v \in BOOLEAN, o \in Values : Branch(f, v, o)
    \/ \E t \in Targets : JMP_ABS(t) \/ JMP_IND(t) \/ JSR(t) \/ BRK(t)
    \/ PHA \/ PLA \/ PHP \/ PLP \/ RTS \/ RTI
    \/ \E x \in Values : TXS(x)

Spec == Init /\ [][Next]_vars

-----------------------------------------------------------------------------
(* Properties.                                                             *)

\* The loop never runs on a counter that has wrapped around below 0: at its
\* head the cycles left are within what ac_Run was given, although cases
\* take 2, 3, 4 or 5 at once from what may be 1.
NoRunaway ==
    at = "run" => 0 < cycle /\ cycle <= budget

\* A return resumes where it should, through any nesting of subroutines,
\* breaks and pushes, across the wrap-around of SP and on any stack the
\* program switches to: RTS after the JSR, RTI two bytes after the BRK.
Resumes ==
    [][RTS \/ RTI => PC' = Top.ret]_vars

\* PLP and RTI restore the flags as they were when pushed (B and the unused
\* bit are not flags of a 6502), PLA restores the accumulator.
Restores ==
    [][/\ PLP \/ RTI => PS' \ {"B", "U"} = Top.ps \ {"B", "U"}
       /\ PLA => A' = Top.a]_vars

\* What ac_Run says of its fetch ("one cycle is spent here"): no instruction
\* is free, so that a slice ends whatever the program does.
FetchCosts ==
    [][at = "run" => cycle' # cycle \/ at' = "idle"]_vars

=============================================================================
