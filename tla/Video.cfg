SPECIFICATION Spec
CONSTANTS
    Lines = 2
    MixLines = 1
    Groups = 3
    Glyphs = {65}
    Words = {0, 16384}
    Pokes <- MCPokes
    FlashMod = 3
    TargetFrame = 1
    FlashFrames = 1
    MaxChanges = 5
INVARIANTS Coherent StaleIsBounded
PROPERTY Settles
