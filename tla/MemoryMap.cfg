SPECIFICATION Spec
CONSTANTS
    Probes = {77, 50943, 53248, 57343, 57344}
    Switches = {0, 1, 2, 3, 4, 5, 6, 7, 8, 9, 10, 11, 12, 13, 14, 15}
    Values = {1}
    RomByte = 2
    Sl6Byte = 3
    MaxOdds = 3
INVARIANT Decoded
PROPERTY ImplementsCard
