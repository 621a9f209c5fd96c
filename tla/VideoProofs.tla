---------------------------- MODULE VideoProofs -----------------------------
(***************************************************************************)
(* The caches of ad_Render hide nothing while the mode stays, and for at   *)
(* most FlashMod renders when it changes: on screens of every size, for    *)
(* every memory content and every order of writes and switches.            *)
(*                                                                         *)
(* A cell is fine with respect to the high resolution caches when its      *)
(* entry is invalid (-1) or tells what the cell shows, and when the entry  *)
(* of its left neighbour is invalid or agrees with previousBit.  The loop  *)
(* never breaks this, not even between two groups; behind it the entries   *)
(* are those of memory.                                                    *)
(***************************************************************************)
EXTENDS Video, TLAPS

Columns == 0 .. Groups - 1

SwitchesOK ==
    /\ textMode \in BOOLEAN /\ mixedMode \in BOOLEAN /\ hires_Mode \in BOOLEAN
    /\ videoPage \in {1, 2}

MemoryOK ==
    /\ text \in [{1, 2} -> [Cells -> Nat]]
    /\ dots \in [{1, 2} -> [Cells -> Nat]]

CachesOK ==
    /\ LoResCache \in [Cells -> Nat]
    /\ HiResCache \in [Cells -> Int]
    /\ previousBit \in [Cells -> Nat]
    /\ DOMAIN colorbuffer = Cells

PlaceOK ==
    /\ at \in {"run", "hires", "text", "shown"}
    /\ line \in Nat /\ col \in Columns

CountersOK ==
    /\ flashCycle \in 0 .. FlashMod - 1
    /\ steady \in 0 .. FlashMod
    /\ clean \in BOOLEAN

TypeOK == SwitchesOK /\ MemoryOK /\ CachesOK /\ PlaceOK /\ CountersOK

\* A row that shows graphics when textMode is t and mixedMode is x.
Visible(t, x, l) == ~t /\ (x => l < MixLines)

\* The entry of a cell tells what it shows.
Shows(l, g) ==
    \/ HiResCache[<<l, g>>] = -1
    \/ colorbuffer[<<l, g>>] = HiRes(HiResCache[<<l, g>>], previousBit[<<l, g>>])

\* The bit of a cell is the last dot of its left neighbour.
Linked(l, g) ==
    g > 0 => \/ HiResCache[<<l, g - 1>>] = -1
             \/ previousBit[<<l, g>>] = LastDot(HiResCache[<<l, g - 1>>])

\* The caches of mode <<t, x, h>> tell what the screen shows.
Held(t, x, h) ==
    \A l \in Rows, g \in Columns :
       Visible(t, x, l) =>
          IF h THEN Shows(l, g) /\ Linked(l, g)
               ELSE colorbuffer[<<l, g>>] = LoRes(LoResCache[<<l, g>>])

\* They also tell what is in memory.
Fresh ==
    \A l \in Rows, g \in Columns :
       Visible(textMode, mixedMode, l) =>
          IF hires_Mode THEN HiResCache[<<l, g>>] = dots[videoPage][<<l, g>>]
                        ELSE LoResCache[<<l, g>>] = text[videoPage][<<l, g>>]

\* The cells that the loop has passed.
Behind(l, g) == l < line \/ (l = line /\ g < col)

\* The caches within the loop: what is behind it is as it should be; what is
\* ahead still is, unless everything is drawn anyway.
Halfway ==
    \A l \in Rows, g \in Columns :
       /\ Behind(l, g) => HiResCache[<<l, g>>] = dots[videoPage][<<l, g>>]
       /\ Visible(textMode, mixedMode, l) =>
            /\ ~Flash \/ Behind(l, g) => Shows(l, g)
            /\ ~Flash \/ Behind(l, g) \/ (l = line /\ g = col) => Linked(l, g)

\* The text is on the screen.
Written ==
    \A l \in Rows, g \in Columns :
       ShowText /\ l \in TextLines =>
          colorbuffer[<<l, g>>] = Text(FontIndex(text[videoPage][<<l, g>>]),
                                       Inverse(text[videoPage][<<l, g>>]))

\* No dot is to the left of the first group.
Margin == \A l \in Rows : previousBit[<<l, 0>>] = 0

\* The renderer is where its mode sends it, and the mode stays while it draws.
Control ==
    /\ at # "run" => drawn = Mode
    /\ at = "run" /\ steady > 0 => drawn = Mode
    /\ at = "hires" => Graphics /\ hires_Mode /\ line \in GraphicLines

\* Since when everything was last drawn: clean counts from there.
Age == IF Flash THEN FlashMod ELSE flashCycle

Aged ==
    /\ at \in {"run", "shown"} /\ steady >= Age => clean
    /\ at \in {"hires", "text"} => clean \/ (~Flash /\ steady < Age)

\* What the caches mean, wherever the renderer is.
Caches ==
    /\ at = "run" => \A t, x, h \in BOOLEAN : drawn = <<t, x, h>> => Held(t, x, h)
    /\ at = "hires" => Halfway
    /\ at = "text" => Held(textMode, mixedMode, hires_Mode) /\ Fresh
    /\ at = "shown" => Held(textMode, mixedMode, hires_Mode) /\ Fresh

IInv ==
    /\ TypeOK
    /\ Margin
    /\ Control
    /\ Aged
    /\ clean => Caches
    /\ at = "shown" => Written

-----------------------------------------------------------------------------
(* Types.                                                                  *)

\* A cell is a row and a column.
LEMMA CellSplit ==
    ASSUME NEW c \in Cells
    PROVE  c[1] \in Rows /\ c[2] \in Columns /\ c = <<c[1], c[2]>>
  BY DEF Cells, Columns

LEMMA CellMake ==
    ASSUME NEW l \in Rows, NEW g \in Columns
    PROVE  <<l, g>> \in Cells
  BY DEF Cells, Columns

LEMMA LastDotIsBit ==
    ASSUME NEW w \in Nat
    PROVE  LastDot(w) \in Nat
  BY DEF LastDot

\* The place of the loop is a cell, and so is the one to its right that
\* DrawGroup may touch.
LEMMA LoopCell ==
    ASSUME TypeOK, Control, at = "hires"
    PROVE  /\ line \in Rows /\ <<line, col>> \in Cells
           /\ dots[videoPage][<<line, col>>] \in Nat
           /\ (2 * col < 2 * Groups - 3) <=> (col + 1 \in Columns)
<1>1. line \in Nat /\ col \in Columns /\ videoPage \in {1, 2}
      /\ dots \in [{1, 2} -> [Cells -> Nat]] /\ line \in GraphicLines
  BY DEF TypeOK, SwitchesOK, MemoryOK, PlaceOK, Control
<1>2. Lines \in Nat \ {0} /\ MixLines \in 0 .. Lines /\ Groups \in Nat \ {0}
  BY VideoAssumption
<1>3. line \in Rows
  <2>1. CASE mixedMode
    BY <1>1, <1>2, <2>1 DEF GraphicLines, Rows
  <2>2. CASE ~mixedMode
    BY <1>1, <2>2 DEF GraphicLines, Rows
  <2> QED
    BY <2>1, <2>2
<1>4. <<line, col>> \in Cells
  BY <1>1, <1>3, CellMake
<1>5. dots[videoPage][<<line, col>>] \in Nat
  BY <1>1, <1>4
<1>6. (2 * col < 2 * Groups - 3) <=> (col + 1 \in Columns)
  BY <1>1, <1>2 DEF Columns
<1> QED
  BY <1>3, <1>4, <1>5, <1>6

\* The program writes words and glyphs.
LEMMA ChangeTyped ==
    ASSUME TypeOK, Next, ~Render
    PROVE  TypeOK'
<1>1. (\A glyph \in Glyphs : glyph \in Nat) /\ (\A word \in Words : word \in Nat)
      /\ FlashMod \in Nat
  BY ValuesAssumption, VideoAssumption
<1>2. ASSUME NEW k \in Pokes
      PROVE  k[1] \in {1, 2} /\ <<k[2], k[3]>> \in Cells
  <2>1. k \in {1, 2} \X (0 .. Lines - 1) \X (0 .. Groups - 1)
    BY PokesAssumption
  <2>2. k[1] \in {1, 2} /\ k[2] \in 0 .. Lines - 1 /\ k[3] \in 0 .. Groups - 1
    BY <2>1
  <2> QED
    BY <2>2, CellMake DEF Rows, Columns
<1>3. ASSUME Change
      PROVE  CachesOK' /\ PlaceOK' /\ CountersOK'
  BY <1>1, <1>3 DEF Change, TypeOK, CachesOK, PlaceOK, CountersOK, caches
<1>4. CASE \E on \in BOOLEAN : TEXT(on) \/ MIXED(on) \/ HIRES(on)
  <2>1. SwitchesOK' /\ MemoryOK' /\ Change
    BY <1>4 DEF TEXT, MIXED, HIRES, TypeOK, SwitchesOK, MemoryOK, memory
  <2> QED
    BY <1>3, <2>1 DEF TypeOK
<1>5. CASE \E p \in {1, 2} : PAGE(p)
  <2>1. SwitchesOK' /\ MemoryOK' /\ Change
    BY <1>5 DEF PAGE, TypeOK, SwitchesOK, MemoryOK, memory
  <2> QED
    BY <1>3, <2>1 DEF TypeOK
<1>6. CASE \E k \in Pokes, glyph \in Glyphs : PokeText(k, glyph)
  <2>1. PICK k \in Pokes, glyph \in Glyphs : PokeText(k, glyph)
    BY <1>6
  <2>2. MemoryOK'
    BY <1>1, <1>2, <2>1 DEF PokeText, TypeOK, MemoryOK
  <2>3. SwitchesOK' /\ Change
    BY <2>1 DEF PokeText, TypeOK, SwitchesOK, switches
  <2> QED
    BY <1>3, <2>2, <2>3 DEF TypeOK
<1>7. CASE \E k \in Pokes, word \in Words : PokeDots(k, word)
  <2>1. PICK k \in Pokes, word \in Words : PokeDots(k, word)
    BY <1>7
  <2>2. MemoryOK'
    BY <1>1, <1>2, <2>1 DEF PokeDots, TypeOK, MemoryOK
  <2>3. SwitchesOK' /\ Change
    BY <2>1 DEF PokeDots, TypeOK, SwitchesOK, switches
  <2> QED
    BY <1>3, <2>2, <2>3 DEF TypeOK
<1> QED
  BY <1>4, <1>5, <1>6, <1>7 DEF Next

\* What ad_Render draws with is what memory holds.
LEMMA RenderTyped ==
    ASSUME TypeOK, Control, Render
    PROVE  TypeOK'
<1>1. SwitchesOK' /\ MemoryOK'
  BY DEF Render, ad_Render, RenderGroup, RenderText, kernel_loop, TypeOK, SwitchesOK,
         MemoryOK, switches, memory
<1>2. FlashMod \in Nat \ {0} /\ Groups \in Nat \ {0}
  BY VideoAssumption
<1>3. CASE ad_Render
  <2>1. \A c \in Cells : text[videoPage][c] \in Nat
    BY DEF TypeOK, SwitchesOK, MemoryOK
  <2>2. CachesOK'
    BY <1>3, <2>1 DEF ad_Render, TypeOK, CachesOK
  <2>3. PlaceOK'
    BY <1>2, <1>3 DEF ad_Render, PlaceOK, Columns
  <2>4. CountersOK'
    <3>1. clean' \in BOOLEAN
      BY <1>3 DEF ad_Render
    <3> QED
      BY <1>3, <3>1 DEF ad_Render, TypeOK, CountersOK
  <2> QED
    BY <1>1, <2>2, <2>3, <2>4 DEF TypeOK
<1>4. CASE RenderGroup
  <2> DEFINE c == <<line, col>>
             word == dots[videoPage][c]
  <2>1. c \in Cells /\ word \in Nat /\ LastDot(word) \in Nat
    BY <1>4, LoopCell, LastDotIsBit DEF RenderGroup
  <2>2. CachesOK'
    <3>1. CASE UNCHANGED <<colorbuffer, HiResCache, previousBit>>
      BY <1>4, <3>1 DEF RenderGroup, TypeOK, CachesOK
    <3>2. CASE DrawGroup(c, <<line, col + 1>>, word)
      BY <1>4, <2>1, <3>2 DEF RenderGroup, DrawGroup, TypeOK, CachesOK
    <3> QED
      BY <1>4, <3>1, <3>2 DEF RenderGroup
  <2>3. PlaceOK'
    BY <1>2, <1>4 DEF RenderGroup, TypeOK, PlaceOK, Columns
  <2>4. CountersOK'
    BY <1>4 DEF RenderGroup, TypeOK, CountersOK
  <2> QED
    BY <1>1, <2>2, <2>3, <2>4 DEF TypeOK
<1>5. CASE RenderText
  <2>1. CachesOK'
    BY <1>5 DEF RenderText, TypeOK, CachesOK, caches
  <2>2. PlaceOK'
    BY <1>5 DEF RenderText, TypeOK, PlaceOK
  <2>3. CountersOK'
    BY <1>2, <1>5 DEF RenderText, NextFlash, TypeOK, CountersOK
  <2> QED
    BY <1>1, <2>1, <2>2, <2>3 DEF TypeOK
<1>6. CASE kernel_loop
  BY <1>1, <1>6 DEF kernel_loop, TypeOK, CachesOK, PlaceOK, CountersOK, caches
<1> QED
  BY <1>3, <1>4, <1>5, <1>6 DEF Render

-----------------------------------------------------------------------------
(* The program's changes.                                                  *)

\* Nothing of what the caches say is about memory or the switches as they are
\* while the program runs.
LEMMA ChangeKeeps ==
    ASSUME IInv, Next, ~Render
    PROVE  IInv'
<1>1. Change
  BY DEF Next, TEXT, MIXED, HIRES, PAGE, PokeText, PokeDots
<1>2. at = "run" /\ at' = "run" /\ steady' = 0
      /\ UNCHANGED <<LoResCache, HiResCache, previousBit, colorbuffer, flashCycle,
                     drawn, clean>>
  BY <1>1 DEF Change, caches
<1>3. TypeOK'
  BY ChangeTyped DEF IInv
<1>4. Margin'
  BY <1>2 DEF IInv, Margin
<1>5. Control'
  BY <1>2 DEF Control
<1>6. Aged'
  <2>1. Age' > 0
    BY <1>2, <1>3, VideoAssumption DEF TypeOK, CountersOK, Age, Flash
  <2> QED
    BY <1>2, <1>3, <2>1, VideoAssumption DEF TypeOK, CountersOK, Age, Flash, Aged
<1>7. clean' => Caches'
  <2> SUFFICES ASSUME clean', NEW t \in BOOLEAN, NEW x \in BOOLEAN, NEW h \in BOOLEAN,
                      drawn' = <<t, x, h>>
               PROVE  Held(t, x, h)'
    BY <1>2 DEF Caches
  <2>1. Held(t, x, h)
    BY <1>2 DEF IInv, Caches
  <2> QED
    BY <1>2, <2>1 DEF Held, Shows, Linked
<1> QED
  BY <1>2, <1>3, <1>4, <1>5, <1>6, <1>7 DEF IInv

-----------------------------------------------------------------------------
(* ad_Render.                                                              *)

LEMMA RenderBegins ==
    ASSUME IInv, ad_Render
    PROVE  IInv'
<1>1. TypeOK /\ TypeOK' /\ Control
  BY RenderTyped DEF IInv, Render
<1>2. /\ at = "run" /\ at' \in {"hires", "text"} /\ line' = 0 /\ col' = 0
      /\ UNCHANGED <<switches, memory, HiResCache, previousBit, flashCycle, steady>>
      /\ drawn' = Mode
  BY DEF ad_Render
<1>3. clean' <=> (Flash \/ (clean /\ drawn = Mode))
  BY DEF ad_Render
<1>4. UNCHANGED <<textMode, mixedMode, hires_Mode, videoPage, text, dots>>
  BY <1>2 DEF switches, memory
<1>5. Mode' = Mode /\ (Flash' <=> Flash) /\ GraphicLines' = GraphicLines /\ Age' = Age
      /\ (Graphics' <=> Graphics)
  BY <1>2, <1>4 DEF Mode, Flash, GraphicLines, Age, Graphics
<1>6. Margin'
  BY <1>2 DEF IInv, Margin
<1>7. Control'
  <2>1. ASSUME at' = "hires"
        PROVE  Graphics /\ hires_Mode /\ 0 \in GraphicLines
    <3>1. Graphics /\ hires_Mode /\ GraphicLines # {}
      BY <2>1 DEF ad_Render
    <3>2. (IF mixedMode THEN MixLines ELSE Lines) \in Nat
      BY VideoAssumption
    <3> QED
      BY <3>1, <3>2 DEF GraphicLines
  <2> QED
    BY <1>2, <1>4, <1>5, <2>1 DEF Control
<1>8. Aged'
  <2>1. steady \in Nat /\ flashCycle \in Nat
    BY <1>1, VideoAssumption DEF TypeOK, CountersOK
  <2>2. CASE Flash
    BY <1>2, <1>3, <2>2 DEF Aged
  <2>3. CASE ~Flash /\ steady < Age
    BY <1>2, <1>5, <2>3 DEF Aged
  <2>4. CASE ~Flash /\ ~(steady < Age)
    <3>1. Age = flashCycle /\ flashCycle > 0
      BY <2>1, <2>4 DEF Age, Flash
    <3>2. steady >= Age /\ steady > 0
      BY <2>1, <2>4, <3>1
    <3>3. clean /\ drawn = Mode
      BY <1>1, <1>2, <3>2 DEF IInv, Aged, Control
    <3> QED
      BY <1>2, <1>3, <3>3 DEF Aged
  <2> QED
    BY <2>2, <2>3, <2>4
<1>9. ASSUME clean', at' = "hires"
      PROVE  Halfway'
  <2>1. hires_Mode /\ LoResDrawn = {}
    BY <1>9 DEF ad_Render, LoResDrawn
  <2>2. \A l \in Rows, g \in Columns : colorbuffer'[<<l, g>>] = colorbuffer[<<l, g>>]
    BY <2>1, CellMake DEF ad_Render
  <2> SUFFICES ASSUME NEW l \in Rows, NEW g \in Columns
               PROVE  /\ ~Behind(l, g)'
                      /\ Visible(textMode, mixedMode, l) =>
                           /\ ~Flash => Shows(l, g)' /\ Linked(l, g)'
                           /\ l = 0 /\ g = 0 => Linked(l, g)'
    BY <1>2, <1>4, <1>5 DEF Halfway, Visible
  <2>3. ~Behind(l, g)'
    BY <1>2 DEF Behind, Rows, Columns
  <2>4. ASSUME Visible(textMode, mixedMode, l), ~Flash
        PROVE  Shows(l, g)' /\ Linked(l, g)'
    <3>1. Held(textMode, mixedMode, hires_Mode)
      BY <1>1, <1>2, <1>3, <1>9, <2>4 DEF IInv, Caches, Mode, TypeOK, SwitchesOK
    <3>2. Shows(l, g) /\ Linked(l, g)
      BY <2>1, <2>4, <3>1 DEF Held
    <3> QED
      BY <1>2, <2>2, <3>2 DEF Shows, Linked
  <2>5. l = 0 /\ g = 0 => Linked(l, g)'
    BY DEF Linked
  <2> QED
    BY <2>3, <2>4, <2>5
<1>10. ASSUME clean', at' = "text"
       PROVE  (Held(textMode, mixedMode, hires_Mode) /\ Fresh)'
  <2> SUFFICES ASSUME NEW l \in Rows, NEW g \in Columns,
                      Visible(textMode, mixedMode, l)
               PROVE  /\ ~hires_Mode
                      /\ LoResCache'[<<l, g>>] = text[videoPage][<<l, g>>]
                      /\ colorbuffer'[<<l, g>>] = LoRes(LoResCache'[<<l, g>>])
    BY <1>4 DEF Held, Fresh, Visible
  <2>1. Graphics /\ l \in GraphicLines
    <3>1. CASE mixedMode
      BY <3>1, VideoAssumption DEF Visible, Graphics, GraphicLines, Rows
    <3>2. CASE ~mixedMode
      BY <3>2 DEF Visible, Graphics, GraphicLines, Rows
    <3> QED
      BY <3>1, <3>2
  <2>2. ~hires_Mode
    BY <1>10, <2>1 DEF ad_Render
  <2>3. <<l, g>> \in Cells
    BY CellMake
  <2>4. CASE <<l, g>> \in LoResDrawn
    BY <2>2, <2>3, <2>4 DEF ad_Render
  <2>5. CASE <<l, g>> \notin LoResDrawn
    <3>1. LoResCache[<<l, g>>] = text[videoPage][<<l, g>>] /\ ~Flash
      BY <2>1, <2>2, <2>3, <2>5 DEF LoResDrawn, NeedsLoRes
    <3>2. Held(textMode, mixedMode, hires_Mode)
      BY <1>1, <1>2, <1>3, <1>10, <3>1 DEF IInv, Caches, Mode, TypeOK, SwitchesOK
    <3>3. colorbuffer[<<l, g>>] = LoRes(LoResCache[<<l, g>>])
      BY <2>2, <3>2 DEF Held
    <3>4. LoResCache'[<<l, g>>] = LoResCache[<<l, g>>]
          /\ colorbuffer'[<<l, g>>] = colorbuffer[<<l, g>>]
      BY <2>3, <2>5 DEF ad_Render
    <3> QED
      BY <2>2, <3>1, <3>3, <3>4
  <2> QED
    BY <2>4, <2>5
<1> QED
  BY <1>1, <1>2, <1>6, <1>7, <1>8, <1>9, <1>10 DEF IInv, Caches

-----------------------------------------------------------------------------
(* The high resolution loop.                                               *)

\* The place of the loop.
Here(l, g) == l = line /\ g = col
Right(l, g) == l = line /\ g = col + 1

\* The loop passes one cell at a time.
LEMMA LoopAdvances ==
    ASSUME TypeOK, Control, RenderGroup, NEW l \in Rows, NEW g \in Columns
    PROVE  /\ Behind(l, g)' <=> Behind(l, g) \/ Here(l, g)
           /\ Here(l, g)' => g = 0 \/ Right(l, g)
<1>1. l \in Int /\ g \in 0 .. Groups - 1 /\ line \in Nat /\ col \in 0 .. Groups - 1
      /\ Groups \in Nat \ {0}
  BY VideoAssumption DEF TypeOK, PlaceOK, Columns, Rows
<1>2. CASE col + 1 = Groups
  <2>1. line' = line + 1 /\ col' = 0
    BY <1>1, <1>2 DEF RenderGroup
  <2> QED
    BY <1>1, <1>2, <2>1 DEF Behind, Here, Right
<1>3. CASE col + 1 # Groups
  <2>1. line' = line /\ col' = col + 1
    BY <1>1, <1>3 DEF RenderGroup
  <2> QED
    BY <1>1, <2>1 DEF Behind, Here, Right
<1> QED
  BY <1>2, <1>3

\* What a turn does to each cell: nothing, when the entry is that of memory;
\* or the group is drawn, and the next one gets its bit and, if that is new,
\* loses its entry.
LEMMA GroupEffect ==
    ASSUME TypeOK, Control, RenderGroup, NEW l \in Rows, NEW g \in Columns
    PROVE  LET k == <<l, g>>
               word == dots[videoPage][<<line, col>>]
               same == /\ HiResCache'[k] = HiResCache[k]
                       /\ previousBit'[k] = previousBit[k]
                       /\ colorbuffer'[k] = colorbuffer[k]
           IN  \/ /\ ~Flash
                  /\ HiResCache[<<line, col>>] = word
                  /\ same
               \/ /\ Here(l, g) => /\ HiResCache'[k] = word
                                   /\ previousBit'[k] = previousBit[k]
                                   /\ colorbuffer'[k] = HiRes(word, previousBit[k])
                  /\ Right(l, g) => /\ previousBit'[k] = LastDot(word)
                                    /\ same \/ HiResCache'[k] = -1
                  /\ ~Here(l, g) /\ ~Right(l, g) => same
<1> DEFINE k == <<l, g>>
           c == <<line, col>>
           r == <<line, col + 1>>
           word == dots[videoPage][c]
<1>1. k \in Cells /\ c \in Cells /\ c # r
      /\ ((2 * col < 2 * Groups - 3) <=> (col + 1 \in Columns))
  BY LoopCell, CellMake DEF RenderGroup, TypeOK, PlaceOK, Columns
<1>2. (k = c <=> Here(l, g)) /\ (k = r <=> Right(l, g))
  BY DEF Here, Right
<1>3. /\ HiResCache \in [Cells -> Int] /\ previousBit \in [Cells -> Nat]
      /\ DOMAIN colorbuffer = Cells
  BY DEF TypeOK, CachesOK
<1>4. CASE HiResCache[c] # word \/ Flash
  <2>1. DrawGroup(c, r, word)
    BY <1>4 DEF RenderGroup
  <2>2. colorbuffer' = [colorbuffer EXCEPT ![c] = HiRes(word, previousBit[c])]
    BY <2>1 DEF DrawGroup
  <2>3. CASE 2 * col < 2 * Groups - 3 /\ previousBit[r] # LastDot(word)
    <3>1. /\ previousBit' = [previousBit EXCEPT ![r] = LastDot(word)]
          /\ HiResCache' = [HiResCache EXCEPT ![c] = word, ![r] = -1]
      BY <2>1, <2>3 DEF DrawGroup
    <3>2. k = c => /\ HiResCache'[k] = word /\ previousBit'[k] = previousBit[k]
                   /\ colorbuffer'[k] = HiRes(word, previousBit[k])
      BY <1>1, <1>3, <2>2, <3>1
    <3>3. k = r => previousBit'[k] = LastDot(word) /\ HiResCache'[k] = -1
      BY <1>1, <1>3, <3>1
    <3>4. k # c /\ k # r => /\ HiResCache'[k] = HiResCache[k]
                            /\ previousBit'[k] = previousBit[k]
                            /\ colorbuffer'[k] = colorbuffer[k]
      BY <1>1, <1>3, <2>2, <3>1
    <3> QED
      BY <1>2, <3>2, <3>3, <3>4
  <2>4. CASE ~(2 * col < 2 * Groups - 3 /\ previousBit[r] # LastDot(word))
    <3>1. /\ previousBit' = previousBit
          /\ HiResCache' = [HiResCache EXCEPT ![c] = word]
      BY <2>1, <2>4 DEF DrawGroup
    <3>2. k = c => /\ HiResCache'[k] = word /\ previousBit'[k] = previousBit[k]
                   /\ colorbuffer'[k] = HiRes(word, previousBit[k])
      BY <1>1, <1>3, <2>2, <3>1
    <3>3. k = r => previousBit'[k] = LastDot(word)
      BY <1>1, <1>2, <2>4, <3>1 DEF Right
    <3>4. k # c => /\ HiResCache'[k] = HiResCache[k]
                   /\ previousBit'[k] = previousBit[k]
                   /\ colorbuffer'[k] = colorbuffer[k]
      BY <1>1, <1>3, <2>2, <3>1
    <3> QED
      BY <1>1, <1>2, <3>2, <3>3, <3>4
  <2> QED
    BY <2>3, <2>4
<1>5. CASE ~(HiResCache[c] # word \/ Flash)
  BY <1>5 DEF RenderGroup
<1> QED
  BY <1>4, <1>5

\* A turn of the loop keeps what the caches mean on both sides of its place.
LEMMA GroupHalfway ==
    ASSUME TypeOK, Control, RenderGroup, Halfway
    PROVE  Halfway'
<1> DEFINE word == dots[videoPage][<<line, col>>]
<1>1. UNCHANGED <<textMode, mixedMode, videoPage, dots>> /\ (Flash' <=> Flash)
  BY DEF RenderGroup, switches, memory, Flash
<1>2. line \in Nat /\ col \in Columns /\ line \in Rows /\ Groups \in Nat \ {0}
  BY LoopCell, VideoAssumption DEF TypeOK, PlaceOK, RenderGroup
<1> SUFFICES ASSUME NEW l \in Rows, NEW g \in Columns
             PROVE  /\ Behind(l, g)' => HiResCache'[<<l, g>>] = dots[videoPage][<<l, g>>]
                    /\ Visible(textMode, mixedMode, l) =>
                         /\ ~Flash \/ Behind(l, g)' => Shows(l, g)'
                         /\ ~Flash \/ Behind(l, g)' \/ Here(l, g)' => Linked(l, g)'
  BY <1>1 DEF Halfway, Visible, Here
<1>3. /\ Behind(l, g)' <=> Behind(l, g) \/ Here(l, g)
      /\ Here(l, g)' => g = 0 \/ Right(l, g)
  BY LoopAdvances
<1>4. Right(l, g) => ~Behind(l, g) /\ ~Here(l, g)
  BY <1>2 DEF Right, Behind, Here, Columns
<1>5. Here(l, g) => ~Behind(l, g)
  BY <1>2 DEF Behind, Here, Columns
<1>6. ASSUME Behind(l, g)'
      PROVE  HiResCache'[<<l, g>>] = dots[videoPage][<<l, g>>]
  <2>1. CASE Here(l, g)
    BY <2>1, GroupEffect DEF Here
  <2>2. CASE Behind(l, g)
    <3>1. HiResCache[<<l, g>>] = dots[videoPage][<<l, g>>]
      BY <2>2 DEF Halfway
    <3> QED
      BY <1>4, <1>5, <2>2, <3>1, GroupEffect
  <2> QED
    BY <1>3, <1>6, <2>1, <2>2
<1>7. ASSUME Visible(textMode, mixedMode, l), ~Flash \/ Behind(l, g)'
      PROVE  Shows(l, g)'
  <2>1. ~Flash \/ Behind(l, g) => Shows(l, g)
    BY <1>7 DEF Halfway
  <2> QED
    BY <1>3, <1>4, <1>7, <2>1, GroupEffect DEF Shows
<1>8. ASSUME Visible(textMode, mixedMode, l), g > 0,
             ~Flash \/ Behind(l, g)' \/ Here(l, g)'
      PROVE  Linked(l, g)'
  <2>1. g - 1 \in Columns
    BY <1>2, <1>8 DEF Columns
  <2>2. ~Flash \/ Behind(l, g) \/ Here(l, g) => Linked(l, g)
    BY <1>8 DEF Halfway, Here
  <2>3. (Here(l, g - 1) <=> Right(l, g)) /\ (Right(l, g - 1) => ~Right(l, g) /\ ~Here(l, g))
    BY <1>2 DEF Here, Right, Columns
  <2>4. CASE Right(l, g)
    <3>1. \/ HiResCache'[<<l, g - 1>>] = word /\ previousBit'[<<l, g>>] = LastDot(word)
          \/ Linked(l, g)'
      <4>1. CASE ~Flash /\ HiResCache[<<line, col>>] = word /\
                 HiResCache'[<<l, g>>] = HiResCache[<<l, g>>] /\
                 previousBit'[<<l, g>>] = previousBit[<<l, g>>] /\
                 colorbuffer'[<<l, g>>] = colorbuffer[<<l, g>>]
        <5>1. HiResCache'[<<l, g - 1>>] = word
          BY <2>1, <2>3, <2>4, <4>1, GroupEffect DEF Here
        <5> QED
          BY <2>2, <2>3, <2>4, <4>1, <5>1 DEF Linked, Here
      <4>2. CASE previousBit'[<<l, g>>] = LastDot(word)
        <5>1. HiResCache'[<<l, g - 1>>] = word
          BY <2>1, <2>3, <2>4, <4>2, GroupEffect DEF Here
        <5> QED
          BY <4>2, <5>1
      <4> QED
        BY <1>4, <2>4, <4>1, <4>2, GroupEffect
    <3> QED
      BY <3>1 DEF Linked
  <2>5. CASE ~Right(l, g)
    <3>1. Linked(l, g)
      BY <1>3, <1>8, <2>2, <2>5
    <3>2. previousBit'[<<l, g>>] = previousBit[<<l, g>>]
      BY <2>5, GroupEffect
    <3>3. \/ HiResCache'[<<l, g - 1>>] = HiResCache[<<l, g - 1>>]
          \/ HiResCache'[<<l, g - 1>>] = -1
      BY <2>1, <2>3, <2>5, GroupEffect
    <3> QED
      BY <3>1, <3>2, <3>3 DEF Linked
  <2> QED
    BY <2>4, <2>5
<1>9. ~(g > 0) => Linked(l, g)'
  BY DEF Linked
<1> QED
  BY <1>6, <1>7, <1>8, <1>9

LEMMA GroupKeeps ==
    ASSUME IInv, RenderGroup
    PROVE  IInv'
<1>1. TypeOK /\ TypeOK' /\ Control
  BY RenderTyped DEF IInv, Render
<1>2. /\ at = "hires" /\ at' \in {"hires", "text"}
      /\ UNCHANGED <<textMode, mixedMode, hires_Mode, videoPage, text, dots, LoResCache,
                     flashCycle, drawn, steady, clean>>
  BY DEF RenderGroup, switches, memory
<1>3. (Mode = Mode') /\ (Flash' <=> Flash) /\ GraphicLines' = GraphicLines /\ Age' = Age
      /\ (Graphics' <=> Graphics)
  BY <1>2 DEF Mode, Flash, GraphicLines, Age, Graphics
<1>4. Margin'
  <2> SUFFICES ASSUME NEW l \in Rows
               PROVE  previousBit'[<<l, 0>>] = 0
    BY DEF Margin
  <2>1. 0 \in Columns /\ ~Right(l, 0)
    BY <1>1, VideoAssumption DEF TypeOK, PlaceOK, Right, Columns
  <2>2. previousBit'[<<l, 0>>] = previousBit[<<l, 0>>]
    BY <1>1, <2>1, GroupEffect
  <2> QED
    BY <2>2 DEF IInv, Margin
<1>5. Control'
  <2>1. at' = "hires" => line' \in GraphicLines
    BY <1>3 DEF RenderGroup
  <2> QED
    BY <1>1, <1>2, <1>3, <2>1 DEF Control
<1>6. Aged'
  BY <1>2, <1>3 DEF IInv, Aged
<1>7. ASSUME clean'
      PROVE  Halfway'
  BY <1>1, <1>2, <1>7, GroupHalfway DEF IInv, Caches
<1>8. ASSUME clean', at' = "text"
      PROVE  (Held(textMode, mixedMode, hires_Mode) /\ Fresh)'
  <2> DEFINE limit == IF mixedMode THEN MixLines ELSE Lines
  <2>1. limit \in Nat /\ line \in Nat /\ line \in 0 .. limit - 1
        /\ line' \in Nat /\ line' \notin 0 .. limit - 1
    <3>1. limit \in Nat
      BY VideoAssumption
    <3>2. GraphicLines = 0 .. limit - 1
      BY DEF GraphicLines
    <3>3. line' \notin GraphicLines
      BY <1>3, <1>8 DEF RenderGroup
    <3> QED
      BY <1>1, <1>2, <3>1, <3>2, <3>3 DEF TypeOK, PlaceOK, Control
  <2> SUFFICES ASSUME NEW l \in Rows, NEW g \in Columns,
                      Visible(textMode, mixedMode, l)
               PROVE  /\ Shows(l, g)' /\ Linked(l, g)'
                      /\ HiResCache'[<<l, g>>] = dots[videoPage][<<l, g>>]
    BY <1>1, <1>2 DEF Control, Held, Fresh, Visible
  <2>2. l \in Nat /\ l < limit
    BY VideoAssumption DEF Visible, Rows
  <2> HIDE DEF limit
  <2>3. Behind(l, g)'
    BY <2>1, <2>2 DEF Behind
  <2> QED
    BY <1>2, <1>7, <1>8, <2>3 DEF Halfway, Visible
<1> QED
  BY <1>1, <1>2, <1>4, <1>5, <1>6, <1>7, <1>8 DEF IInv, Caches

-----------------------------------------------------------------------------
(* The text, and the end of the render.                                    *)

LEMMA TextKeeps ==
    ASSUME IInv, RenderText
    PROVE  IInv'
<1>1. TypeOK /\ TypeOK' /\ Control
  BY RenderTyped DEF IInv, Render
<1>2. /\ at = "text" /\ at' = "shown"
      /\ UNCHANGED <<textMode, mixedMode, hires_Mode, videoPage, text, dots, LoResCache,
                     HiResCache, previousBit, frame, drawn, clean>>
  BY DEF RenderText, switches, memory, caches
<1>3. Mode = Mode' /\ (ShowText' <=> ShowText) /\ TextLines' = TextLines
  BY <1>2 DEF Mode, ShowText, TextLines
<1>4. Margin'
  BY <1>2 DEF IInv, Margin
<1>5. Control'
  BY <1>1, <1>2, <1>3 DEF Control
<1>6. Aged'
  <2>1. /\ flashCycle \in 0 .. FlashMod - 1 /\ steady \in 0 .. FlashMod
        /\ FlashMod \in Nat \ {0}
    BY <1>1, VideoAssumption DEF TypeOK, CountersOK
  <2>2. CASE clean
    BY <1>2, <2>2 DEF Aged
  <2>3. CASE ~clean
    <3>1. flashCycle # 0 /\ steady < flashCycle
      BY <1>2, <2>3 DEF IInv, Aged, Flash, Age
    <3>2. steady' = steady + 1 /\ flashCycle' = NextFlash
      BY <2>1, <3>1 DEF RenderText
    <3>3. Age' = flashCycle + 1
      BY <2>1, <3>1, <3>2 DEF NextFlash, Age, Flash
    <3>4. ~(steady' >= Age')
      BY <2>1, <3>1, <3>2, <3>3
    <3> QED
      BY <1>2, <3>4 DEF Aged
  <2> QED
    BY <2>2, <2>3
<1>7. Written'
  <2> SUFFICES ASSUME NEW l \in Rows, NEW g \in Columns, ShowText, l \in TextLines
               PROVE  colorbuffer'[<<l, g>>] =
                        Text(FontIndex(text[videoPage][<<l, g>>]),
                             Inverse(text[videoPage][<<l, g>>]))
    BY <1>2, <1>3 DEF Written, Inverse
  <2> QED
    BY CellMake DEF RenderText
<1>8. ASSUME clean'
      PROVE  (Held(textMode, mixedMode, hires_Mode) /\ Fresh)'
  <2>1. Held(textMode, mixedMode, hires_Mode) /\ Fresh
    BY <1>2, <1>8 DEF IInv, Caches
  <2>2. ASSUME NEW l \in Rows, NEW g \in Columns, Visible(textMode, mixedMode, l)
        PROVE  colorbuffer'[<<l, g>>] = colorbuffer[<<l, g>>]
    <3>1. ~(ShowText /\ l \in TextLines)
      BY <2>2, VideoAssumption DEF Visible, ShowText, TextLines, Rows
    <3> QED
      BY <3>1, CellMake DEF RenderText
  <2>3. Held(textMode, mixedMode, hires_Mode)'
    BY <1>2, <2>1, <2>2 DEF Held, Shows, Linked, Visible
  <2>4. Fresh'
    BY <1>2, <2>1 DEF Fresh, Visible
  <2> QED
    BY <2>3, <2>4
<1> QED
  BY <1>1, <1>2, <1>4, <1>5, <1>6, <1>7, <1>8 DEF IInv, Caches

LEMMA LoopKeeps ==
    ASSUME IInv, kernel_loop
    PROVE  IInv'
<1>1. TypeOK /\ TypeOK' /\ Control
  BY RenderTyped DEF IInv, Render
<1>2. /\ at = "shown" /\ at' = "run"
      /\ UNCHANGED <<textMode, mixedMode, hires_Mode, LoResCache, HiResCache, previousBit,
                     colorbuffer, drawn, clean, steady, flashCycle>>
  BY DEF kernel_loop, switches, caches
<1>3. Mode' = Mode /\ Age' = Age
  BY <1>2 DEF Mode, Age, Flash
<1>4. Margin' /\ Control'
  BY <1>1, <1>2, <1>3 DEF IInv, Margin, Control
<1>5. Aged'
  BY <1>2, <1>3 DEF IInv, Aged
<1>6. ASSUME clean', NEW t \in BOOLEAN, NEW x \in BOOLEAN, NEW h \in BOOLEAN,
             drawn' = <<t, x, h>>
      PROVE  Held(t, x, h)'
  <2>1. <<t, x, h>> = <<textMode, mixedMode, hires_Mode>>
    BY <1>1, <1>2, <1>6 DEF Control, Mode
  <2>2. t = textMode /\ x = mixedMode /\ h = hires_Mode
    BY <2>1, Zenon
  <2>3. Held(t, x, h)
    BY <1>2, <1>6, <2>2 DEF IInv, Caches
  <2> QED
    BY <1>2, <2>3 DEF Held, Shows, Linked
<1> QED
  BY <1>1, <1>2, <1>4, <1>5, <1>6 DEF IInv, Caches

-----------------------------------------------------------------------------
(* The theorems.                                                           *)

LEMMA InitHolds ==
    ASSUME Init
    PROVE  IInv
<1>1. CachesOK /\ MemoryOK
  BY DEF Init, CachesOK, MemoryOK
<1>2. SwitchesOK /\ PlaceOK /\ CountersOK
  <2>1. SwitchesOK
    BY DEF Init, SwitchesOK
  <2>2. PlaceOK
    BY VideoAssumption DEF Init, PlaceOK, Columns
  <2>3. clean \in BOOLEAN
    BY Zenon DEF Init
  <2>4. CountersOK
    BY <2>3, VideoAssumption DEF Init, CountersOK
  <2> QED
    BY <2>1, <2>2, <2>4
<1>3. Margin
  <2>1. \A l \in Rows : <<l, 0>> \in Cells
    BY CellMake, VideoAssumption DEF Columns
  <2> QED
    BY <2>1 DEF Init, Margin
<1>4. Control /\ Aged
  BY VideoAssumption DEF Init, Control, Aged, Age, Flash
<1> QED
  BY <1>1, <1>2, <1>3, <1>4 DEF IInv, TypeOK, Init

LEMMA StutterKeeps ==
    ASSUME IInv, UNCHANGED vars
    PROVE  IInv'
<1>1. UNCHANGED <<textMode, mixedMode, hires_Mode, videoPage, text, dots, LoResCache,
                  HiResCache, previousBit, flashCycle, frame, colorbuffer, at, line, col,
                  drawn, clean, steady>>
  BY DEF vars, switches, memory, caches
<1>2. TypeOK'
  BY <1>1 DEF IInv, TypeOK, SwitchesOK, MemoryOK, CachesOK, PlaceOK, CountersOK
<1>3. Margin' /\ Control' /\ Aged'
  BY <1>1 DEF IInv, Margin, Control, Aged, Age, Flash, Mode, Graphics, GraphicLines
<1>4. clean' => Caches'
  BY <1>1 DEF IInv, Caches, Held, Shows, Linked, Fresh, Halfway, Behind, Visible, Flash
<1>5. at' = "shown" => Written'
  BY <1>1 DEF IInv, Written, ShowText, TextLines, Inverse
<1> QED
  BY <1>2, <1>3, <1>4, <1>5 DEF IInv

LEMMA Inductive ==
    ASSUME IInv, [Next]_vars
    PROVE  IInv'
  BY StutterKeeps, ChangeKeeps, RenderBegins, GroupKeeps, TextKeeps, LoopKeeps DEF Render

\* With the caches true to the screen and to memory, the screen is true to
\* memory, the fringe between two groups included.
LEMMA CleanIsFaithful ==
    ASSUME IInv, at = "shown", clean
    PROVE  Faithful
<1>1. Held(textMode, mixedMode, hires_Mode) /\ Fresh /\ Written /\ Margin /\ TypeOK
  BY DEF IInv, Caches
<1> SUFFICES ASSUME NEW c \in Cells
             PROVE  colorbuffer[c] = Meant(c)
  BY DEF Faithful
<1>2. PICK l \in Rows, g \in Columns : c = <<l, g>>
  BY CellSplit
<1>3. c[1] = l /\ c[2] = g
  BY <1>2
<1>4. CASE ShowText /\ l \in TextLines
  BY <1>1, <1>2, <1>3, <1>4 DEF Written, Meant
<1>5. CASE ~(ShowText /\ l \in TextLines)
  <2>1. Visible(textMode, mixedMode, l)
    BY <1>5, VideoAssumption DEF Visible, ShowText, TextLines, Rows
  <2>2. CASE ~hires_Mode
    <3>1. colorbuffer[<<l, g>>] = LoRes(text[videoPage][<<l, g>>])
      BY <1>1, <2>1, <2>2 DEF Held, Fresh
    <3> QED
      BY <1>2, <1>3, <1>5, <2>2, <3>1 DEF Meant
  <2>3. CASE hires_Mode
    <3>1. /\ Shows(l, g) /\ Linked(l, g)
          /\ HiResCache[<<l, g>>] = dots[videoPage][<<l, g>>]
      BY <1>1, <2>1, <2>3 DEF Held, Fresh
    <3>2. ASSUME NEW k \in Columns
          PROVE  dots[videoPage][<<l, k>>] # -1
      <4>1. dots[videoPage][<<l, k>>] \in Nat
        BY <1>1, CellMake DEF TypeOK, SwitchesOK, MemoryOK
      <4> QED
        BY <4>1
    <3>3. colorbuffer[<<l, g>>] = HiRes(dots[videoPage][<<l, g>>], previousBit[<<l, g>>])
      BY <3>1, <3>2 DEF Shows
    <3>4. previousBit[<<l, g>>] = IF g = 0 THEN 0
                                  ELSE LastDot(dots[videoPage][<<l, g - 1>>])
      <4>1. CASE g = 0
        BY <1>1, <4>1 DEF Margin
      <4>2. CASE g # 0
        <5>1. g > 0 /\ g - 1 \in Columns
          BY <4>2, VideoAssumption DEF Columns
        <5>2. HiResCache[<<l, g - 1>>] = dots[videoPage][<<l, g - 1>>]
          BY <1>1, <2>1, <2>3, <5>1 DEF Fresh
        <5> QED
          BY <3>1, <3>2, <4>2, <5>1, <5>2 DEF Linked
      <4> QED
        BY <4>1, <4>2
    <3> QED
      BY <1>2, <1>3, <1>5, <2>3, <3>3, <3>4 DEF Meant
  <2> QED
    BY <2>2, <2>3
<1> QED
  BY <1>4, <1>5

\* On a screen of any size, whatever the program writes and however it flips
\* the pages: from the render that bypasses the caches on, and as long as the
\* mode stays, every render leaves what memory says.
THEOREM CachesHideNothing == Spec => []Coherent
<1>1. Init => IInv
  BY InitHolds
<1>2. IInv /\ [Next]_vars => IInv'
  BY Inductive
<1>3. IInv => Coherent
  BY CleanIsFaithful DEF Coherent
<1> QED
  BY <1>1, <1>2, <1>3, PTL DEF Spec

\* Whatever the changes of mode before, and whatever FlashMod is: after that
\* many renders without a change nothing old is left on the screen.
THEOREM StaleCellsEnd == Spec => []StaleIsBounded
<1>1. Init => IInv
  BY InitHolds
<1>2. IInv /\ [Next]_vars => IInv'
  BY Inductive
<1>3. IInv => StaleIsBounded
  <2> SUFFICES ASSUME IInv, at = "shown", steady = FlashMod
               PROVE  Faithful
    BY DEF StaleIsBounded
  <2>1. steady >= Age
    BY VideoAssumption DEF IInv, TypeOK, CountersOK, Age, Flash
  <2>2. clean
    BY <2>1 DEF IInv, Aged
  <2> QED
    BY <2>2, CleanIsFaithful
<1> QED
  BY <1>1, <1>2, <1>3, PTL DEF Spec

=============================================================================
