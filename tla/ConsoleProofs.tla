--------------------------- MODULE ConsoleProofs ----------------------------
(***************************************************************************)
(* The index, the cursor and the CRTC of the console stay in step, and     *)
(* nothing is left ahead of the index, for screens of every size.          *)
(***************************************************************************)
EXTENDS Console, TLAPS

\* The types that the arithmetic of both invariants needs.
Numbers ==
    /\ g_vga_index \in Nat
    /\ cursor_pos_x \in 0 .. 255 /\ cursor_pos_y \in 0 .. 255
    /\ ink \subseteq Nat
    /\ skipped \in Nat /\ lost \in BOOLEAN /\ jumped \in BOOLEAN

\* The inductive invariant: the three copies of the position can be compared
\* only as numbers.
IInv == Numbers /\ InStep /\ NothingAhead

\* The sizes, as the provers use them.
LEMMA Sizes ==
    /\ VGA_WIDTH \in Nat /\ VGA_WIDTH > 0 /\ VGA_WIDTH < 256
    /\ VGA_HEIGHT \in Nat /\ VGA_HEIGHT < 255
    /\ VGA_TOTAL_ITEMS \in Nat
    /\ VGA_WIDTH * (VGA_HEIGHT + 1) <= VGA_TOTAL_ITEMS
BY ConsoleAssumption

\* A cell of a row y lies between the starts of that row and of the next.
LEMMA RowBounds ==
    ASSUME NEW y \in Nat, y <= VGA_HEIGHT
    PROVE  /\ VGA_WIDTH * y \in Nat
           /\ VGA_WIDTH * (y + 1) = VGA_WIDTH * y + VGA_WIDTH
           /\ VGA_WIDTH * y + VGA_WIDTH <= VGA_TOTAL_ITEMS
           /\ VGA_WIDTH * y + VGA_WIDTH <= 65025
<1>1. VGA_WIDTH * (y + 1) <= VGA_WIDTH * (VGA_HEIGHT + 1)
  BY Sizes
<1>2. VGA_WIDTH * (y + 1) <= 255 * (y + 1)
  BY Sizes
<1>3. 255 * (y + 1) <= 65025
  BY Sizes
<1>4. VGA_WIDTH * (y + 1) = VGA_WIDTH * y + VGA_WIDTH /\ VGA_WIDTH * y \in Nat
  BY Sizes
<1> QED
  BY <1>1, <1>2, <1>3, <1>4, Sizes

\* What the CRTC is told is the cell, as long as the column is a byte.
LEMMA LocationIs ==
    ASSUME NEW x \in 0 .. 255, NEW y \in Nat, y <= VGA_HEIGHT
    PROVE  Location(x, y) = VGA_WIDTH * y + x
<1>1. Uint8(x) = x /\ Uint8(y) = y
  BY Sizes DEF Uint8
<1>2. y * VGA_WIDTH + x = VGA_WIDTH * y + x
  BY Sizes
<1>3. VGA_WIDTH * y + x \in Nat /\ VGA_WIDTH * y + x < 65536
  BY RowBounds, Sizes
<1> QED
  BY <1>1, <1>2, <1>3 DEF Location

\* The remainder of a cell is its column.
LEMMA ColumnOf ==
    ASSUME NEW x \in Nat, NEW y \in Nat, x < VGA_WIDTH
    PROVE  (VGA_WIDTH * y + x) % VGA_WIDTH = x
<1> DEFINE c == VGA_WIDTH * y + x
           q == c \div VGA_WIDTH
           r == c % VGA_WIDTH
<1>1. c \in Nat /\ VGA_WIDTH * y \in Nat
  BY Sizes
<1>2. c = VGA_WIDTH * q + r /\ r \in 0 .. VGA_WIDTH - 1 /\ q \in Int
  BY <1>1, Sizes
<1> HIDE DEF q, r
<1>3. VGA_WIDTH * (y - q) = r - x
  BY <1>2, Sizes
<1>4. ~(y - q >= 1)
  <2> SUFFICES ASSUME y - q >= 1 PROVE FALSE
    OBVIOUS
  <2>1. VGA_WIDTH * (y - q) >= VGA_WIDTH
    BY <1>2, Sizes
  <2> QED
    BY <2>1, <1>2, <1>3, Sizes
<1>5. ~(y - q <= -1)
  <2> SUFFICES ASSUME y - q <= -1 PROVE FALSE
    OBVIOUS
  <2>1. VGA_WIDTH * (y - q) <= -VGA_WIDTH
    BY <1>2, Sizes
  <2> QED
    BY <2>1, <1>2, <1>3, Sizes
<1>6. y = q
  BY <1>2, <1>4, <1>5
<1>7. r = x
  BY <1>1, <1>2, <1>6, Sizes
<1> QED
  BY <1>7 DEF r

\* InStep as a relation between an index i, a column x, a row y, s rows skipped
\* and a CRTC location c.
Agree(i, x, y, s, c) ==
    /\ y <= VGA_HEIGHT
    /\ i = VGA_WIDTH * (y + s) + x
    /\ c - (i - VGA_WIDTH * s) \in {-1, 0, 1}
    /\ s = 0 /\ x < VGA_WIDTH => i < VGA_TOTAL_ITEMS

\* It follows from where the index and the CRTC are in the screen.
LEMMA AgreeIf ==
    ASSUME NEW x \in 0 .. 255, NEW y \in Nat, NEW s \in Nat, y <= VGA_HEIGHT,
           NEW d \in {-1, 0, 1}, NEW i, NEW c,
           i = VGA_WIDTH * y + VGA_WIDTH * s + x, c = VGA_WIDTH * y + x + d
    PROVE  Agree(i, x, y, s, c)
<1>1. /\ VGA_WIDTH * (y + s) = VGA_WIDTH * y + VGA_WIDTH * s
      /\ VGA_WIDTH * y \in Nat /\ VGA_WIDTH * s \in Nat /\ VGA_WIDTH * 0 = 0
  BY Sizes
<1>2. VGA_WIDTH * y + VGA_WIDTH <= VGA_TOTAL_ITEMS
  BY RowBounds
<1>3. i = VGA_WIDTH * (y + s) + x /\ c - (i - VGA_WIDTH * s) = d
  BY <1>1
<1>4. s = 0 /\ x < VGA_WIDTH => i < VGA_TOTAL_ITEMS
  BY <1>1, <1>2, Sizes
<1> QED
  BY <1>3, <1>4, Zenon DEF Agree

\* While the cursor is not lost, the index is a sum of three parts.
LEMMA Placed ==
    ASSUME IInv, ~lost
    PROVE  /\ cursor_pos_x \in 0 .. 255 /\ cursor_pos_y \in Nat /\ skipped \in Nat
           /\ cursor_pos_y <= VGA_HEIGHT
           /\ VGA_WIDTH * cursor_pos_y \in Nat /\ VGA_WIDTH * skipped \in Nat
           /\ g_vga_index = VGA_WIDTH * cursor_pos_y + VGA_WIDTH * skipped + cursor_pos_x
<1>1. /\ cursor_pos_x \in 0 .. 255 /\ cursor_pos_y \in Nat /\ skipped \in Nat
      /\ cursor_pos_y <= VGA_HEIGHT
      /\ g_vga_index = VGA_WIDTH * (cursor_pos_y + skipped) + cursor_pos_x
  BY DEF IInv, Numbers, InStep
<1>2. /\ VGA_WIDTH * cursor_pos_y \in Nat /\ VGA_WIDTH * skipped \in Nat
      /\ VGA_WIDTH * (cursor_pos_y + skipped) = VGA_WIDTH * cursor_pos_y + VGA_WIDTH * skipped
  BY <1>1, Sizes
<1> QED
  BY <1>1, <1>2

-----------------------------------------------------------------------------
(* One lemma for each operation.                                           *)

LEMMA InitIInv == Init => IInv
<1> SUFFICES ASSUME Init PROVE IInv
  OBVIOUS
<1>1. Numbers
  <2>1. /\ g_vga_index \in Nat /\ cursor_pos_x \in 0 .. 255 /\ cursor_pos_y \in 0 .. 255
        /\ skipped \in Nat
    BY DEF Init
  <2>2. ink \subseteq Nat /\ lost \in BOOLEAN /\ jumped \in BOOLEAN
    BY Zenon DEF Init
  <2> QED
    BY <2>1, <2>2, Zenon DEF Numbers
<1>2. InStep
  <2>1. VGA_WIDTH * 0 = 0
    BY Sizes
  <2>2. Agree(0, 0, 0, 0, 0)
    BY <2>1, AgreeIf, Sizes
  <2> QED
    BY <2>2 DEF Init, InStep, Agree
<1>3. NothingAhead
  BY DEF Init, NothingAhead
<1> QED
  BY <1>1, <1>2, <1>3 DEF IInv

\* console_clear, which console_newline also ends in on the last row.
LEMMA ClearIInv ==
    ASSUME IInv, console_clear
    PROVE  IInv'
<1>1. Numbers'
  <2>1. /\ g_vga_index' \in Nat /\ cursor_pos_x' \in 0 .. 255 /\ cursor_pos_y' \in 0 .. 255
        /\ skipped' \in Nat
    BY DEF console_clear
  <2>2. ink' \subseteq Nat
    BY DEF console_clear, IInv, Numbers
  <2>3. lost' \in BOOLEAN /\ jumped' \in BOOLEAN
    BY Zenon DEF console_clear
  <2> QED
    BY <2>1, <2>2, <2>3, Zenon DEF Numbers
<1>2. InStep'
  <2>1. Location(0, 0) = 0 /\ VGA_WIDTH * 0 = 0
    BY LocationIs, Sizes
  <2>2. Agree(0, 0, 0, 0, 0)
    BY <2>1, AgreeIf, Sizes
  <2> QED
    BY <2>1, <2>2 DEF console_clear, InStep, Agree
<1>3. NothingAhead'
  BY Sizes DEF console_clear, NothingAhead, IInv, Numbers
<1> QED
  BY <1>1, <1>2, <1>3 DEF IInv

\* A newline goes to the start of the next row of the buffer.  The remainder
\* of the index is that of the column, so the rows skipped are the whole rows
\* in the column.
LEMMA NewlineIInv ==
    ASSUME IInv, console_newline
    PROVE  IInv'
<1>1. CASE cursor_pos_y >= VGA_HEIGHT
  BY <1>1, ClearIInv DEF console_newline
<1>2. CASE ~(cursor_pos_y >= VGA_HEIGHT)
  <2> DEFINE q == cursor_pos_x \div VGA_WIDTH
             r == cursor_pos_x % VGA_WIDTH
  <2>1. /\ g_vga_index' = NextRow(g_vga_index)
        /\ cursor_pos_x' = 0 /\ cursor_pos_y' = Uint8(cursor_pos_y + 1)
        /\ crtc' = Location(0, cursor_pos_y + 1)
        /\ lost' = (lost \/ FALSE) /\ skipped' = IF lost \/ FALSE THEN 0 ELSE skipped + q
        /\ UNCHANGED <<ink, jumped>>
    BY <1>2 DEF console_newline, Account
  <2>2. cursor_pos_y' = cursor_pos_y + 1 /\ cursor_pos_y + 1 <= VGA_HEIGHT
        /\ cursor_pos_y \in Nat
    BY <1>2, <2>1, Sizes DEF Uint8, IInv, Numbers
  <2>3. NextRow(g_vga_index) \in Nat /\ NextRow(g_vga_index) >= g_vga_index
    BY Sizes DEF NextRow, IInv, Numbers
  <2>4. q \in Nat /\ r \in 0 .. VGA_WIDTH - 1 /\ cursor_pos_x = VGA_WIDTH * q + r
    BY Sizes DEF IInv, Numbers
  <2> HIDE DEF q, r
  <2>5. Numbers'
    <3>1. lost' = lost /\ lost \in BOOLEAN /\ jumped \in BOOLEAN
      BY <2>1, Zenon DEF IInv, Numbers
    <3>2. skipped' \in Nat
      BY <2>1, <2>4 DEF IInv, Numbers
    <3>3. g_vga_index' \in Nat /\ cursor_pos_x' \in 0 .. 255 /\ cursor_pos_y' \in 0 .. 255
      BY <2>1, <2>2, <2>3, Sizes
    <3> QED
      BY <2>1, <3>1, <3>2, <3>3, Zenon DEF IInv, Numbers
  <2>6. InStep'
    <3> SUFFICES ASSUME ~lost PROVE InStep'
      BY <2>1, Zenon DEF InStep
    <3> DEFINE k == cursor_pos_y + skipped + q
    <3>1. /\ cursor_pos_y \in Nat /\ skipped \in Nat /\ cursor_pos_x \in Nat
          /\ g_vga_index = VGA_WIDTH * cursor_pos_y + VGA_WIDTH * skipped + cursor_pos_x
      BY Placed
    <3>2. k \in Nat /\ VGA_WIDTH * k \in Nat
      BY <3>1, <2>4, Sizes
    <3>3. VGA_WIDTH * k = VGA_WIDTH * cursor_pos_y + VGA_WIDTH * skipped + VGA_WIDTH * q
      BY <3>1, <2>4, Sizes
    <3>4. g_vga_index = VGA_WIDTH * k + r
      <4>1. /\ VGA_WIDTH * cursor_pos_y \in Nat /\ VGA_WIDTH * skipped \in Nat
            /\ VGA_WIDTH * q \in Nat
        BY <3>1, <2>4, Sizes
      <4> HIDE DEF k
      <4> QED
        BY <4>1, <3>1, <3>3, <2>4, Sizes
    <3>5. g_vga_index % VGA_WIDTH = r
      <4> HIDE DEF k
      <4> QED
        BY <3>2, <3>4, <2>4, ColumnOf, Sizes
    <3>6. NextRow(g_vga_index) = VGA_WIDTH * k + VGA_WIDTH
      <4> HIDE DEF k
      <4> QED
        BY <3>2, <3>4, <3>5, <2>4, Sizes DEF NextRow
    <3>7. VGA_WIDTH * k + VGA_WIDTH
            = VGA_WIDTH * (cursor_pos_y + 1) + VGA_WIDTH * (skipped + q) + 0
      BY <3>1, <2>4, Sizes
    <3>8. Location(0, cursor_pos_y + 1) = VGA_WIDTH * (cursor_pos_y + 1) + 0
      BY <2>2, LocationIs
    <3>9. skipped' = skipped + q /\ skipped + q \in Nat
      BY <2>1, <2>4, <3>1
    <3>10. VGA_WIDTH * (cursor_pos_y + 1) \in Nat
      BY <2>2, Sizes
    <3>11. Location(0, cursor_pos_y + 1) = VGA_WIDTH * (cursor_pos_y + 1) + 0 + 0
      BY <3>8, <3>10
    <3> HIDE DEF k
    <3>12. Agree(NextRow(g_vga_index), 0, cursor_pos_y + 1, skipped + q,
                 Location(0, cursor_pos_y + 1))
      BY <2>2, <3>6, <3>7, <3>9, <3>11, AgreeIf
    <3> QED
      BY <2>1, <2>2, <3>9, <3>12, Zenon DEF InStep, Agree
  <2>7. NothingAhead'
    BY <2>1, <2>3 DEF IInv, Numbers, NothingAhead
  <2> QED
    BY <2>5, <2>6, <2>7 DEF IInv
<1> QED
  BY <1>1, <1>2

\* n cells are put, and the CRTC is told the column after them or the last.
LEMMA PutIInv ==
    ASSUME IInv, NEW n \in 1 .. 4, NEW m \in {n - 1, n}, Put(n, cursor_pos_x + m)
    PROVE  IInv'
<1>1. /\ g_vga_index' = g_vga_index + n /\ cursor_pos_x' = Uint8(cursor_pos_x + n)
      /\ cursor_pos_y' = cursor_pos_y /\ jumped' = jumped
      /\ ink' = ink \cup g_vga_index .. g_vga_index + n - 1
      /\ crtc' = Location(cursor_pos_x + m, cursor_pos_y)
  BY DEF Put
<1>2. /\ lost' = (lost \/ cursor_pos_x + n > 255)
      /\ skipped' = IF lost \/ cursor_pos_x + n > 255 THEN 0 ELSE skipped + 0
  BY Zenon DEF Put, Account
<1>3. Numbers'
  <2>1. lost' \in BOOLEAN /\ jumped' \in BOOLEAN
    BY <1>1, <1>2, Zenon DEF IInv, Numbers
  <2>2. skipped' \in Nat
    BY <1>2 DEF IInv, Numbers
  <2>3. /\ g_vga_index' \in Nat /\ cursor_pos_x' \in 0 .. 255 /\ cursor_pos_y' \in 0 .. 255
        /\ ink' \subseteq Nat
    BY <1>1 DEF IInv, Numbers, Uint8
  <2> QED
    BY <2>1, <2>2, <2>3, Zenon DEF Numbers
<1>4. InStep'
  <2> SUFFICES ASSUME ~lost' PROVE InStep'
    BY DEF InStep
  <2>1. ~lost /\ ~(cursor_pos_x + n > 255)
    BY <1>2, Zenon
  <2>2. /\ cursor_pos_x \in 0 .. 255 /\ cursor_pos_y \in Nat /\ skipped \in Nat
        /\ cursor_pos_y <= VGA_HEIGHT
        /\ VGA_WIDTH * cursor_pos_y \in Nat /\ VGA_WIDTH * skipped \in Nat
        /\ g_vga_index = VGA_WIDTH * cursor_pos_y + VGA_WIDTH * skipped + cursor_pos_x
    BY <2>1, Placed
  <2>3. cursor_pos_x + n \in 0 .. 255 /\ cursor_pos_x + m \in 0 .. 255
    BY <2>1, <2>2
  <2>4. cursor_pos_x' = cursor_pos_x + n /\ skipped' = skipped
    BY <1>1, <1>2, <2>1, <2>2, <2>3 DEF Uint8
  <2>5. Location(cursor_pos_x + m, cursor_pos_y) = VGA_WIDTH * cursor_pos_y + (cursor_pos_x + m)
    BY <2>2, <2>3, LocationIs, Zenon
  <2>6. PICK d \in {-1, 0, 1} :
            Location(cursor_pos_x + m, cursor_pos_y)
              = VGA_WIDTH * cursor_pos_y + (cursor_pos_x + n) + d
    <3>1. m - n \in {-1, 0, 1}
      OBVIOUS
    <3>2. VGA_WIDTH * cursor_pos_y + (cursor_pos_x + m)
            = VGA_WIDTH * cursor_pos_y + (cursor_pos_x + n) + (m - n)
      BY <2>2
    <3> QED
      BY <2>5, <3>1, <3>2
  <2>7. g_vga_index + n = VGA_WIDTH * cursor_pos_y + VGA_WIDTH * skipped + (cursor_pos_x + n)
    BY <2>2
  <2>8. Agree(g_vga_index + n, cursor_pos_x + n, cursor_pos_y, skipped,
              Location(cursor_pos_x + m, cursor_pos_y))
    BY <2>2, <2>3, <2>6, <2>7, AgreeIf
  <2> QED
    BY <1>1, <2>4, <2>8, Zenon DEF InStep, Agree
<1>5. NothingAhead'
  BY <1>1 DEF IInv, Numbers, NothingAhead
<1> QED
  BY <1>3, <1>4, <1>5 DEF IInv

\* A step back over the last character, from a cell that is not the first.
LEMMA BackIInv ==
    ASSUME IInv, NEW stays \in BOOLEAN, g_vga_index > 0,
           ~lost => (stays <=> cursor_pos_x > 0),
           StepBack(stays), Blank(g_vga_index, g_vga_index - 1), UNCHANGED jumped
    PROVE  IInv'
<1>1. /\ g_vga_index' = g_vga_index - 1
      /\ lost' = (lost \/ (~stays /\ cursor_pos_y = 0))
      /\ skipped' = IF lost \/ (~stays /\ cursor_pos_y = 0) THEN 0 ELSE skipped + 0
  BY Zenon DEF StepBack, Account
<1>2. Numbers'
  <2>1. lost' \in BOOLEAN /\ jumped' \in BOOLEAN
    BY <1>1, Zenon DEF IInv, Numbers
  <2>2. skipped' \in Nat
    BY <1>1 DEF IInv, Numbers
  <2>3. /\ g_vga_index' \in Nat /\ cursor_pos_x' \in 0 .. 255 /\ cursor_pos_y' \in 0 .. 255
        /\ ink' \subseteq Nat
    <3>1. cursor_pos_x' \in 0 .. 255 /\ cursor_pos_y' \in 0 .. 255
      <4>1. cursor_pos_x \in 0 .. 255 /\ cursor_pos_y \in 0 .. 255
        BY DEF IInv, Numbers
      <4>2. \/ cursor_pos_x' = Uint8(cursor_pos_x - 1) /\ cursor_pos_y' = cursor_pos_y
            \/ cursor_pos_x' = VGA_WIDTH - 1 /\ cursor_pos_y' = cursor_pos_y - 1
               /\ cursor_pos_y > 0
            \/ cursor_pos_x' = VGA_WIDTH /\ cursor_pos_y' = cursor_pos_y
        BY DEF StepBack
      <4>3. Uint8(cursor_pos_x - 1) \in 0 .. 255
        <5>1. cursor_pos_x - 1 \in Int
          BY <4>1
        <5> QED
          BY <5>1 DEF Uint8
      <4> QED
        BY <4>1, <4>2, <4>3, Sizes
    <3>2. g_vga_index' \in Nat /\ ink' \subseteq Nat
      BY <1>1 DEF Blank, IInv, Numbers
    <3> QED
      BY <3>1, <3>2
  <2> QED
    BY <2>1, <2>2, <2>3, Zenon DEF Numbers
<1>3. NothingAhead'
  BY <1>1 DEF Blank, IInv, Numbers, NothingAhead
<1>4. InStep'
  <2> SUFFICES ASSUME ~lost' PROVE InStep'
    BY DEF InStep
  <2>1. ~lost /\ ~(~stays /\ cursor_pos_y = 0)
    BY <1>1, Zenon
  <2>2. /\ cursor_pos_x \in 0 .. 255 /\ cursor_pos_y \in Nat /\ skipped \in Nat
        /\ cursor_pos_y <= VGA_HEIGHT
        /\ VGA_WIDTH * cursor_pos_y \in Nat /\ VGA_WIDTH * skipped \in Nat
        /\ g_vga_index = VGA_WIDTH * cursor_pos_y + VGA_WIDTH * skipped + cursor_pos_x
    BY <2>1, Placed
  <2>3. skipped' = skipped
    BY <1>1, <2>1, <2>2
  <2>4. CASE stays
    <3>1. cursor_pos_x > 0
      BY <2>1, <2>4
    <3>2. cursor_pos_x' = cursor_pos_x - 1 /\ cursor_pos_y' = cursor_pos_y
          /\ crtc' = Location(cursor_pos_x, cursor_pos_y)
      BY <2>2, <2>4, <3>1 DEF StepBack, Uint8
    <3>3. Location(cursor_pos_x, cursor_pos_y) = VGA_WIDTH * cursor_pos_y + cursor_pos_x
      BY <2>2, LocationIs, Zenon
    <3>4. /\ Location(cursor_pos_x, cursor_pos_y)
               = VGA_WIDTH * cursor_pos_y + (cursor_pos_x - 1) + 1
          /\ g_vga_index - 1
               = VGA_WIDTH * cursor_pos_y + VGA_WIDTH * skipped + (cursor_pos_x - 1)
          /\ cursor_pos_x - 1 \in 0 .. 255
      BY <2>2, <3>1, <3>3
    <3>5. Agree(g_vga_index - 1, cursor_pos_x - 1, cursor_pos_y, skipped,
                Location(cursor_pos_x, cursor_pos_y))
      BY <2>2, <3>4, AgreeIf
    <3> QED
      BY <1>1, <2>3, <3>2, <3>5, Zenon DEF InStep, Agree
  <2>5. CASE ~stays
    <3>1. cursor_pos_x = 0 /\ cursor_pos_y > 0
      BY <2>1, <2>2, <2>5
    <3>2. cursor_pos_x' = VGA_WIDTH - 1 /\ cursor_pos_y' = cursor_pos_y - 1
          /\ crtc' = Location(VGA_WIDTH, cursor_pos_y - 1)
      BY <2>2, <2>5, <3>1 DEF StepBack
    <3>3. cursor_pos_y - 1 \in Nat /\ cursor_pos_y - 1 <= VGA_HEIGHT
          /\ VGA_WIDTH \in 0 .. 255 /\ VGA_WIDTH - 1 \in 0 .. 255
      BY <2>2, <3>1, Sizes
    <3>4. Location(VGA_WIDTH, cursor_pos_y - 1) = VGA_WIDTH * (cursor_pos_y - 1) + VGA_WIDTH
      BY <3>3, LocationIs, Zenon
    <3>5. VGA_WIDTH * (cursor_pos_y - 1) = VGA_WIDTH * cursor_pos_y - VGA_WIDTH
      BY <2>2, Sizes
    <3>6. /\ Location(VGA_WIDTH, cursor_pos_y - 1)
               = VGA_WIDTH * (cursor_pos_y - 1) + (VGA_WIDTH - 1) + 1
          /\ g_vga_index - 1
               = VGA_WIDTH * (cursor_pos_y - 1) + VGA_WIDTH * skipped + (VGA_WIDTH - 1)
      BY <2>2, <3>1, <3>4, <3>5, Sizes
    <3>7. Agree(g_vga_index - 1, VGA_WIDTH - 1, cursor_pos_y - 1, skipped,
                Location(VGA_WIDTH, cursor_pos_y - 1))
      <4>1. 1 \in {-1, 0, 1} /\ skipped \in Nat
        BY <2>2
      <4> QED
        BY <4>1, <3>3, <3>6, AgreeIf, Zenon
    <3> QED
      BY <1>1, <2>3, <3>2, <3>7, Zenon DEF InStep, Agree
  <2> QED
    BY <2>4, <2>5
<1> QED
  BY <1>2, <1>3, <1>4 DEF IInv

\* Erasing where there is nothing to erase blanks the cell at the index.
LEMMA StayIInv ==
    ASSUME IInv, Blank(g_vga_index, g_vga_index), UNCHANGED <<place, skipped, lost, jumped>>
    PROVE  IInv'
<1>1. UNCHANGED <<g_vga_index, cursor_pos_x, cursor_pos_y, crtc>>
  BY DEF place
<1>2. Numbers'
  BY <1>1 DEF Blank, IInv, Numbers
<1>3. InStep'
  BY <1>1 DEF IInv, InStep
<1>4. NothingAhead'
  BY <1>1 DEF Blank, IInv, NothingAhead
<1> QED
  BY <1>2, <1>3, <1>4 DEF IInv

LEMMA UngetIInv ==
    ASSUME IInv, console_ungetchar
    PROVE  IInv'
<1>1. CASE g_vga_index > 0
  <2>1. (cursor_pos_x > 0) \in BOOLEAN
    OBVIOUS
  <2>2. StepBack(cursor_pos_x > 0) /\ Blank(g_vga_index, g_vga_index - 1)
        /\ UNCHANGED jumped
    BY <1>1, Zenon DEF console_ungetchar
  <2> QED
    BY <1>1, <2>1, <2>2, BackIInv, Zenon
<1>2. CASE ~(g_vga_index > 0)
  BY <1>2, StayIInv DEF console_ungetchar
<1> QED
  BY <1>1, <1>2

\* With a bound the step back stays in the row: the remainder of the column
\* is that of the index, which is above the bound.
LEMMA BoundIInv ==
    ASSUME IInv, NEW n \in Bounds, console_ungetchar_bound(n)
    PROVE  IInv'
<1>1. n \in Nat
  BY ConsoleAssumption
<1>2. CASE Erasable(n)
  <2>1. g_vga_index \in Nat /\ g_vga_index % VGA_WIDTH > n /\ n > 0
    BY <1>2 DEF Erasable, IInv, Numbers
  <2>2. g_vga_index > 0
    BY <1>1, <2>1, Sizes
  <2>3. ~lost => cursor_pos_x > n
    <3> SUFFICES ASSUME ~lost, ~(cursor_pos_x > n) PROVE FALSE
      OBVIOUS
    <3>1. /\ cursor_pos_x \in Nat /\ cursor_pos_y + skipped \in Nat
          /\ g_vga_index = VGA_WIDTH * (cursor_pos_y + skipped) + cursor_pos_x
      BY DEF IInv, InStep, Numbers
    <3>2. g_vga_index % VGA_WIDTH < VGA_WIDTH /\ g_vga_index % VGA_WIDTH \in Nat
      BY <2>1, Sizes
    <3>3. cursor_pos_x < VGA_WIDTH
      BY <1>1, <2>1, <3>1, <3>2, Sizes
    <3>4. g_vga_index % VGA_WIDTH = cursor_pos_x
      BY <3>1, <3>3, ColumnOf, Zenon
    <3> QED
      BY <2>1, <3>4
  <2>4. cursor_pos_x \in Nat
    BY DEF IInv, Numbers
  <2>5. ~lost => ((cursor_pos_x >= n) <=> cursor_pos_x > 0)
    BY <1>1, <2>1, <2>3, <2>4
  <2>6. (cursor_pos_x >= n) \in BOOLEAN
    OBVIOUS
  <2>7. StepBack(cursor_pos_x >= n) /\ Blank(g_vga_index, g_vga_index - 1)
        /\ UNCHANGED jumped
    BY <1>2, Zenon DEF console_ungetchar_bound
  <2> QED
    BY <2>2, <2>5, <2>6, <2>7, BackIInv, Zenon
<1>3. CASE ~Erasable(n)
  BY <1>3, StayIInv DEF console_ungetchar_bound
<1> QED
  BY <1>2, <1>3

\* console_gotoxy, with any two uint16: the cursor is lost beyond the screen.
LEMMA GotoIInv ==
    ASSUME IInv, NEW x \in Columns, NEW y \in Rows, console_gotoxy(x, y)
    PROVE  IInv'
<1>1. x \in Nat /\ y \in Nat /\ VGA_WIDTH * y \in Nat
  BY ConsoleAssumption, Sizes
<1>2. /\ g_vga_index' = VGA_WIDTH * y + x /\ skipped' = 0
      /\ cursor_pos_x' = Uint8(x) /\ cursor_pos_y' = Uint8(y)
      /\ crtc' = Location(x, y) /\ ink' = ink
  BY DEF console_gotoxy
<1>3. lost' = (x > 255 \/ y > VGA_HEIGHT) /\ jumped' = TRUE
  BY Zenon DEF console_gotoxy
<1>4. Numbers'
  <2>1. /\ g_vga_index' \in Nat /\ cursor_pos_x' \in 0 .. 255 /\ cursor_pos_y' \in 0 .. 255
        /\ skipped' \in Nat
    BY <1>1, <1>2 DEF Uint8
  <2>2. ink' \subseteq Nat /\ lost' \in BOOLEAN /\ jumped' \in BOOLEAN
    BY <1>2, <1>3, Zenon DEF IInv, Numbers
  <2> QED
    BY <2>1, <2>2, Zenon DEF Numbers
<1>5. InStep'
  <2> SUFFICES ASSUME ~lost' PROVE InStep'
    BY DEF InStep
  <2>1. ~(x > 255) /\ ~(y > VGA_HEIGHT)
    BY <1>3, Zenon
  <2>2. x \in 0 .. 255 /\ y <= VGA_HEIGHT
    BY <1>1, <2>1, Sizes
  <2>3. cursor_pos_x' = x /\ cursor_pos_y' = y
    BY <1>1, <1>2, <2>2, Sizes DEF Uint8
  <2>4. Location(x, y) = VGA_WIDTH * y + x
    BY <1>1, <2>2, LocationIs, Zenon
  <2>5. /\ VGA_WIDTH * y + x = VGA_WIDTH * y + VGA_WIDTH * 0 + x
        /\ Location(x, y) = VGA_WIDTH * y + x + 0
    BY <1>1, <2>4, Sizes
  <2>6. Agree(VGA_WIDTH * y + x, x, y, 0, Location(x, y))
    BY <1>1, <2>2, <2>5, AgreeIf
  <2> QED
    BY <1>2, <2>3, <2>6, Zenon DEF InStep, Agree
<1>6. NothingAhead'
  BY <1>3, Zenon DEF NothingAhead
<1> QED
  BY <1>4, <1>5, <1>6 DEF IInv

LEMMA NextIInv == IInv /\ [Next]_vars => IInv'
<1> SUFFICES ASSUME IInv, [Next]_vars PROVE IInv'
  OBVIOUS
<1>1. CASE console_clear
  BY <1>1, ClearIInv
<1>2. CASE console_newline
  BY <1>2, NewlineIInv
<1>3. CASE PutGlyph
  BY <1>3, PutIInv DEF PutGlyph
<1>4. CASE PutSpace
  BY <1>4, PutIInv DEF PutSpace
<1>5. CASE PutTab
  BY <1>5, PutIInv DEF PutTab
<1>6. CASE console_ungetchar
  BY <1>6, UngetIInv
<1>7. ASSUME NEW n \in Bounds, console_ungetchar_bound(n)
      PROVE  IInv'
  BY <1>7, BoundIInv
<1>8. ASSUME NEW x \in Columns, NEW y \in Rows, console_gotoxy(x, y)
      PROVE  IInv'
  BY <1>8, GotoIInv
<1>9. CASE UNCHANGED vars
  <2>1. UNCHANGED <<g_vga_index, cursor_pos_x, cursor_pos_y, crtc, ink, skipped, lost, jumped>>
    BY <1>9 DEF vars, place
  <2> QED
    BY <2>1 DEF IInv, Numbers, InStep, NothingAhead
<1> QED
  BY <1>1, <1>2, <1>3, <1>4, <1>5, <1>6, <1>7, <1>8, <1>9 DEF Next

\* g_vga_index, the cursor and the CRTC name the same cell, but for the rows
\* that newlines skipped after overlong lines, for every size of the screen.
THEOREM StaysInStep == Spec => []InStep
<1>1. IInv => InStep
  BY DEF IInv
<1> QED
  BY InitIInv, NextIInv, <1>1, PTL DEF Spec

\* console_newline, console_clear and the two ungetchars leave no character
\* at or after the index, even when lines overflow their rows.
THEOREM LeavesNothingAhead == Spec => []NothingAhead
<1>1. IInv => NothingAhead
  BY DEF IInv
<1> QED
  BY InitIInv, NextIInv, <1>1, PTL DEF Spec

=============================================================================
