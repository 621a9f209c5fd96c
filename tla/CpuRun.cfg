CONSTANTS
    B = 5
    CycleMod = 16
    Budgets = {4}
    Targets = {10}
    Values = {3}
    Tracked = {"D", "Z"}
    MaxTurns = 5
    Ops = {"LDA", "LDX", "LDY", "STA", "STX", "STY", "AND", "ORA", "EOR", "BIT",
           "TAX", "TXA", "INX", "INC", "ADC", "SBC", "CMP", "CPX", "ASL", "ROL",
           "LSR", "ROR", "ASL_A", "NOP", "UNKNOWN", "FLAG", "BRANCH", "JMP",
           "JMP_IND", "PHA", "PLA", "PHP", "PLP", "JSR", "RTS", "BRK", "RTI", "TXS"}
SPECIFICATION Spec
INVARIANT NoRunaway
PROPERTIES Resumes Restores
CHECK_DEADLOCK FALSE
