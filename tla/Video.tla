------------------------------- MODULE Video --------------------------------
(***************************************************************************)
(* ad_Render of Apple2/AppleDevice.c: how the screen follows the video     *)
(* memory through LoResCache, HiResCache and previousBit, which are never  *)
(* told of a change of mode and are bypassed once in 30 renders.           *)
(*                                                                         *)
(* kernel_loop alternates a slice of 6502 instructions (the program writes *)
(* video memory and touches the switches $C050 .. $C057) with one render.  *)
(* The screen is modelled in cells of 14 dots: two bytes of a high         *)
(* resolution line, which the code draws as one group.  A cell of text or  *)
(* of low resolution stands for the two columns of that width, and one     *)
(* line for the eight of a text row: the code treats these alike and none  *)
(* depends on another.                                                     *)
(***************************************************************************)
EXTENDS Integers

CONSTANTS Lines,        \* 24, rows of text
          MixLines,     \* 20, rows of graphics in a mixed mode
          Groups,       \* 20, cells in a line
          Glyphs,       \* bytes the program puts into the text page
          Words,        \* pairs of bytes it puts into the high resolution page
          Pokes,        \* the cells it writes: <<page, line, group>>
          FlashMod,     \* 30, where flashCycle wraps around
          TargetFrame,  \* 60, where frame wraps around
          FlashFrames,  \* 15, frames in which flashing text is normal
          MaxChanges    \* bound: writes and switches of the program

ASSUME VideoAssumption ==
    /\ Lines \in Nat \ {0} /\ MixLines \in 0 .. Lines
    /\ Groups \in Nat \ {0}
    /\ FlashMod \in Nat \ {0}
    /\ TargetFrame \in Nat /\ FlashFrames \in Nat
    /\ MaxChanges \in Nat

ASSUME ValuesAssumption ==
    /\ \A glyph \in Glyphs : glyph \in Nat /\ glyph < 256
    /\ \A word \in Words : word \in Nat /\ word < 65536

ASSUME PokesAssumption ==
    Pokes \subseteq {1, 2} \X (0 .. Lines - 1) \X (0 .. Groups - 1)

Rows  == 0 .. Lines - 1
Cells == Rows \X (0 .. Groups - 1)

VARIABLES
    textMode, mixedMode, hires_Mode, videoPage,
    text,           \* memory at $400 and $800, by page and cell
    dots,           \* memory at $2000 and $4000, by page and cell
    LoResCache, HiResCache, previousBit,
    flashCycle,
    frame,          \* of kernel_loop
    colorbuffer,    \* what is on the screen, by cell
    at,             \* "run": the 6502 runs; "hires", "text": in ad_Render; "shown"
    line, col,      \* the loop variables of the high resolution branch, col halved
    drawn,          \* ghost: the mode of the last render
    clean,          \* ghost: no other mode drawn since the caches were bypassed
    steady,         \* ghost: renders since the program changed something
    changes         \* ghost: changes made

switches == <<textMode, mixedMode, hires_Mode, videoPage>>
memory   == <<text, dots>>
caches   == <<LoResCache, HiResCache, previousBit>>
vars     == <<switches, memory, caches, flashCycle, frame, colorbuffer, at, line, col,
              drawn, clean, steady, changes>>

\* What a cell of the screen shows.
Black            == <<"black", 0, 0>>
Text(glyph, inv) == <<"text", glyph, inv>>
LoRes(byte)      == <<"lores", byte, 0>>
HiRes(word, bit) == <<"hires", word, bit>>    \* bit: the dot to the left

\* ad_GetScreenMode, with the text switch that the renderer also looks at.
Graphics == mixedMode \/ ~textMode
ShowText == mixedMode \/ textMode
Mode     == <<textMode, mixedMode, hires_Mode>>

\* Lines drawn as graphics, and lines then drawn as text.
GraphicLines == 0 .. (IF mixedMode THEN MixLines ELSE Lines) - 1
TextLines    == (IF textMode THEN 0 ELSE MixLines) .. Lines - 1

Init ==
    /\ textMode = TRUE /\ mixedMode = FALSE /\ hires_Mode = FALSE /\ videoPage = 1
    /\ text = [p \in {1, 2} |-> [c \in Cells |-> 0]]
    /\ dots = [p \in {1, 2} |-> [c \in Cells |-> 0]]
    /\ LoResCache = [c \in Cells |-> 0]
    /\ HiResCache = [c \in Cells |-> 0]
    /\ previousBit = [c \in Cells |-> 0]
    /\ flashCycle = 0
    /\ frame = 0
    /\ colorbuffer = [c \in Cells |-> Black]
    /\ at = "run"
    /\ line = 0 /\ col = 0
    /\ drawn = <<TRUE, FALSE, FALSE>>
    /\ clean = FALSE
    /\ steady = 0
    /\ changes = 0

-----------------------------------------------------------------------------
(* The 6502: ad_SoftSwitch $C050 .. $C057, and writes to video memory.     *)

Change ==
    /\ at = "run"
    /\ changes < MaxChanges
    /\ changes' = changes + 1
    /\ steady' = 0
    /\ UNCHANGED <<caches, flashCycle, frame, colorbuffer, at, line, col, drawn, clean>>

TEXT(on) == /\ Change
            /\ textMode' = on
            /\ UNCHANGED <<mixedMode, hires_Mode, videoPage, memory>>

MIXED(on) == /\ Change
             /\ mixedMode' = on
             /\ UNCHANGED <<textMode, hires_Mode, videoPage, memory>>

PAGE(p) == /\ Change
           /\ videoPage' = p
           /\ UNCHANGED <<textMode, mixedMode, hires_Mode, memory>>

HIRES(on) == /\ Change
             /\ hires_Mode' = on
             /\ UNCHANGED <<textMode, mixedMode, videoPage, memory>>

PokeText(k, glyph) ==
    /\ Change
    /\ text' = [text EXCEPT ![k[1]][<<k[2], k[3]>>] = glyph]
    /\ UNCHANGED <<switches, dots>>

PokeDots(k, word) ==
    /\ Change
    /\ dots' = [dots EXCEPT ![k[1]][<<k[2], k[3]>>] = word]
    /\ UNCHANGED <<switches, text>>

-----------------------------------------------------------------------------
(* ad_Render.                                                              *)

\* The caches are bypassed.
Flash == flashCycle = 0

\* Mutant of NeedsLoRes: the caches are never bypassed.
NeedsLoRes_CacheOnly(c) == LoResCache[c] # text[videoPage][c]

NeedsLoRes(c) == LoResCache[c] # text[videoPage][c] \/ Flash

\* Cells the low resolution branch draws.
LoResDrawn == {c \in Cells : Graphics /\ ~hires_Mode /\ c[1] \in GraphicLines /\ NeedsLoRes(c)}

\* ad_Render up to the high resolution loop: the mode is read, and the low
\* resolution cells are drawn.
ad_Render ==
    /\ at = "run"
    /\ at' = IF Graphics /\ hires_Mode /\ GraphicLines # {} THEN "hires" ELSE "text"
    /\ line' = 0 /\ col' = 0
    /\ LoResCache' = [c \in Cells |-> IF c \in LoResDrawn THEN text[videoPage][c]
                                                           ELSE LoResCache[c]]
    /\ colorbuffer' = [c \in Cells |-> IF c \in LoResDrawn THEN LoRes(text[videoPage][c])
                                                            ELSE colorbuffer[c]]
    /\ drawn' = Mode
    /\ clean' = (Flash \/ (clean /\ drawn = Mode))
    /\ UNCHANGED <<switches, memory, HiResCache, previousBit, flashCycle, frame,
                   steady, changes>>

\* The last dot of a group, bit 6 of its second byte.
LastDot(word) == (word \div 16384) % 2

\* The word of this group is drawn: HiResCache is updated, and when the dot to
\* the left of the next group changes, that group is made to be drawn too.

\* Mutant of DrawGroup: the next group is left as it is.
DrawGroup_NoFringe(c, right, word) ==
    /\ colorbuffer' = [colorbuffer EXCEPT ![c] = HiRes(word, previousBit[c])]
    /\ IF 2 * col < 2 * Groups - 3 /\ previousBit[right] # LastDot(word)
       THEN /\ previousBit' = [previousBit EXCEPT ![right] = LastDot(word)]
            /\ HiResCache' = [HiResCache EXCEPT ![c] = word]
       ELSE /\ HiResCache' = [HiResCache EXCEPT ![c] = word]
            /\ UNCHANGED previousBit

DrawGroup(c, right, word) ==
    /\ colorbuffer' = [colorbuffer EXCEPT ![c] = HiRes(word, previousBit[c])]
    /\ IF 2 * col < 2 * Groups - 3 /\ previousBit[right] # LastDot(word)
       THEN /\ previousBit' = [previousBit EXCEPT ![right] = LastDot(word)]
            /\ HiResCache' = [HiResCache EXCEPT ![c] = word, ![right] = -1]
       ELSE /\ HiResCache' = [HiResCache EXCEPT ![c] = word]
            /\ UNCHANGED previousBit

\* One turn of the high resolution loop.
RenderGroup ==
    LET c == <<line, col>>
        word == dots[videoPage][c]
    IN  /\ at = "hires"
        /\ IF HiResCache[c] # word \/ Flash
           THEN DrawGroup(c, <<line, col + 1>>, word)
           ELSE UNCHANGED <<colorbuffer, HiResCache, previousBit>>
        /\ col' = (col + 1) % Groups
        /\ line' = IF col + 1 = Groups THEN line + 1 ELSE line
        /\ at' = IF line' \in GraphicLines THEN "hires" ELSE "text"
        /\ UNCHANGED <<switches, memory, LoResCache, flashCycle, frame, drawn, clean,
                       steady, changes>>

\* The glyph of the font and whether it is inverse.
FontIndex(glyph) ==
    LET low  == glyph % 128
        shft == IF low > 95 THEN low % 64 ELSE low
    IN  IF shft < 32 THEN shft + 64 ELSE shft

Inverse(glyph) == IF glyph > 127 \/ (glyph >= 64 /\ frame < FlashFrames) THEN 0 ELSE 1

NextFlash == IF flashCycle + 1 = FlashMod THEN 0 ELSE flashCycle + 1

\* The text is drawn over what is there; then flashCycle is counted.
RenderText ==
    /\ at = "text"
    /\ colorbuffer' =
         [c \in Cells |->
            IF ShowText /\ c[1] \in TextLines
            THEN Text(FontIndex(text[videoPage][c]), Inverse(text[videoPage][c]))
            ELSE colorbuffer[c]]
    /\ flashCycle' = NextFlash
    /\ at' = "shown"
    /\ steady' = IF steady < FlashMod THEN steady + 1 ELSE steady
    /\ UNCHANGED <<switches, memory, caches, frame, line, col, drawn, clean, changes>>

\* The end of kernel_loop.
kernel_loop ==
    /\ at = "shown"
    /\ at' = "run"
    /\ frame' = IF frame > TargetFrame THEN 0 ELSE frame + 1
    /\ UNCHANGED <<switches, memory, caches, flashCycle, colorbuffer, line, col,
                   drawn, clean, steady, changes>>

Render == ad_Render \/ RenderGroup \/ RenderText \/ kernel_loop

Next ==
    \/ \E on \in BOOLEAN : TEXT(on) \/ MIXED(on) \/ HIRES(on)
    \/ \E p \in {1, 2} : PAGE(p)
    \/ \E k \in Pokes, glyph \in Glyphs : PokeText(k, glyph)
    \/ \E k \in Pokes, word \in Words : PokeDots(k, word)
    \/ Render

\* kmain calls kernel_loop for ever, and machine_Run returns.
Spec == Init /\ [][Next]_vars /\ WF_vars(Render)

-----------------------------------------------------------------------------
(* Properties.                                                             *)

\* What the program means to show in a cell: no caches, no history.
Meant(c) ==
    IF ShowText /\ c[1] \in TextLines
    THEN Text(FontIndex(text[videoPage][c]), Inverse(text[videoPage][c]))
    ELSE IF hires_Mode
    THEN HiRes(dots[videoPage][c],
               IF c[2] = 0 THEN 0 ELSE LastDot(dots[videoPage][<<c[1], c[2] - 1>>]))
    ELSE LoRes(text[videoPage][c])

Faithful == \A c \in Cells : colorbuffer[c] = Meant(c)

\* As long as the mode stays, the caches hide nothing: since the render that
\* last bypassed them, each render leaves the screen exactly as memory says,
\* whatever the program wrote and however it flipped pages in between, and
\* with the colour of each group's first dot taken from its left neighbour.
Coherent == at = "shown" /\ clean => Faithful

\* After a change of mode the screen may show old cells, but never for longer
\* than flashCycle takes to come round: FlashMod renders without a change, and
\* the screen is as memory says.
StaleIsBounded == at = "shown" /\ steady = FlashMod => Faithful

\* Once the program leaves screen memory and switches alone, the screen comes
\* to show what they say and stays so.
Settles == <>[](at = "shown" => Faithful)

=============================================================================
