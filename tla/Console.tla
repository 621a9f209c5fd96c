------------------------------ MODULE Console -------------------------------
(***************************************************************************)
(* The text console of Src/console.c.  Where the next character goes is    *)
(* kept twice, as an index into the text buffer (g_vga_index) and as a     *)
(* column and row (cursor_pos_x, cursor_pos_y), and the CRTC holds a third *)
(* copy; every operation updates all of them by rules of its own.          *)
(*                                                                         *)
(* A cell is inked (a character the caller put) or blank; which character  *)
(* and which colours make no difference here.  A line that fills its row   *)
(* does not wrap: the column goes on past VGA_WIDTH, and the next newline  *)
(* skips a row of the buffer that cursor_pos_y does not count, so that the *)
(* index can run past the cells that console_clear covers.                 *)
(*                                                                         *)
(* console_gotoxy checks nothing and nothing in the repository calls it:   *)
(* its arguments are any uint16.                                           *)
(***************************************************************************)
EXTENDS Integers

CONSTANTS VGA_WIDTH,         \* 80
          VGA_HEIGHT,        \* 24, the last row
          VGA_TOTAL_ITEMS,   \* 2200, the cells that console_clear clears
          MaxIndex,          \* bound on g_vga_index for console_putchar
          Bounds,            \* arguments of console_ungetchar_bound
          Columns, Rows      \* arguments of console_gotoxy, uint16

ASSUME ConsoleAssumption ==
    /\ VGA_WIDTH \in 1 .. 255
    /\ VGA_HEIGHT \in 0 .. 254
    /\ VGA_TOTAL_ITEMS \in Nat
    /\ VGA_WIDTH * (VGA_HEIGHT + 1) <= VGA_TOTAL_ITEMS
    /\ MaxIndex \in Nat
    /\ Bounds \subseteq 0 .. 255
    /\ Columns \subseteq Nat /\ Rows \subseteq Nat

VARIABLES
    g_vga_index,
    cursor_pos_x, cursor_pos_y,    \* uint8
    crtc,                          \* the cursor location in the CRTC
    ink,                           \* the cells that hold a character
    skipped,                       \* ghost: rows that newlines after overlong lines
                                   \* skipped since console_clear or console_gotoxy
    lost,                          \* ghost: the column wrapped, or console_gotoxy or
                                   \* erasing left the screen
    jumped                         \* ghost: console_gotoxy since console_clear

place == <<g_vga_index, cursor_pos_x, cursor_pos_y, crtc>>
vars == <<place, ink, skipped, lost, jumped>>

Uint8(n) == n % 256

\* vga_set_cursor_pos: a port write for each byte of the uint16 location.
Location(x, y) == (Uint8(y) * VGA_WIDTH + Uint8(x)) % 65536

\* The ghosts: rows are skipped, or the cursor gets lost.
Account(rows, gone) ==
    /\ lost' = (lost \/ gone)
    /\ skipped' = IF lost \/ gone THEN 0 ELSE skipped + rows

Init ==
    /\ g_vga_index = 0
    /\ cursor_pos_x = 0 /\ cursor_pos_y = 0
    /\ crtc = 0
    /\ ink = {}
    /\ skipped = 0 /\ lost = FALSE /\ jumped = FALSE

\* The cells up to VGA_TOTAL_ITEMS are cleared, and all positions reset.
console_clear ==
    /\ ink' = {c \in ink : c >= VGA_TOTAL_ITEMS}
    /\ g_vga_index' = 0
    /\ cursor_pos_x' = 0 /\ cursor_pos_y' = 0
    /\ crtc' = Location(0, 0)
    /\ skipped' = 0 /\ lost' = FALSE /\ jumped' = FALSE

NextRow(index) == index + VGA_WIDTH - (index % VGA_WIDTH)

\* Mutant of console_newline: clears one row too late.
console_newline_Late ==
    IF cursor_pos_y > VGA_HEIGHT
    THEN console_clear
    ELSE /\ g_vga_index' = NextRow(g_vga_index)
         /\ cursor_pos_x' = 0
         /\ cursor_pos_y' = Uint8(cursor_pos_y + 1)
         /\ crtc' = Location(0, cursor_pos_y + 1)
         /\ Account(cursor_pos_x \div VGA_WIDTH, FALSE)
         /\ UNCHANGED <<ink, jumped>>

console_newline ==
    IF cursor_pos_y >= VGA_HEIGHT
    THEN console_clear
    ELSE /\ g_vga_index' = NextRow(g_vga_index)
         /\ cursor_pos_x' = 0
         /\ cursor_pos_y' = Uint8(cursor_pos_y + 1)
         /\ crtc' = Location(0, cursor_pos_y + 1)
         /\ Account(cursor_pos_x \div VGA_WIDTH, FALSE)
         /\ UNCHANGED <<ink, jumped>>

\* n cells are inked; the column that the CRTC is told last is x.
Put(n, x) ==
    /\ g_vga_index + n <= MaxIndex
    /\ ink' = ink \cup g_vga_index .. g_vga_index + n - 1
    /\ g_vga_index' = g_vga_index + n
    /\ cursor_pos_x' = Uint8(cursor_pos_x + n)
    /\ crtc' = Location(x, cursor_pos_y)
    /\ Account(0, cursor_pos_x + n > 255)
    /\ UNCHANGED <<cursor_pos_y, jumped>>

\* console_putchar.  A space takes the first if and the last else, two cells;
\* a tab tells the CRTC each column before it is left.
PutGlyph == Put(1, cursor_pos_x + 1)
PutSpace == Put(2, cursor_pos_x + 2)
PutTab   == Put(4, cursor_pos_x + 3)

\* The step back of both ungetchars: one column while stays, else to the end
\* of the row above, if there is one.
StepBack(stays) ==
    /\ g_vga_index' = g_vga_index - 1
    /\ Account(0, ~stays /\ cursor_pos_y = 0)
    /\ \/ /\ stays
          /\ cursor_pos_x' = Uint8(cursor_pos_x - 1)
          /\ crtc' = Location(cursor_pos_x, cursor_pos_y)
          /\ UNCHANGED cursor_pos_y
       \/ /\ ~stays
          /\ cursor_pos_y > 0
          /\ cursor_pos_x' = VGA_WIDTH - 1
          /\ cursor_pos_y' = cursor_pos_y - 1
          /\ crtc' = Location(VGA_WIDTH, cursor_pos_y - 1)
       \/ /\ ~stays
          /\ cursor_pos_y = 0
          /\ cursor_pos_x' = VGA_WIDTH
          /\ UNCHANGED <<cursor_pos_y, crtc>>

\* The cells blanked: the one at the index before the step and after it.
Blank(i, j) == ink' = ink \ {i, j}

\* Mutant of console_ungetchar: without the write after the step.
console_ungetchar_Once ==
    /\ IF g_vga_index > 0
       THEN /\ StepBack(cursor_pos_x > 0)
            /\ Blank(g_vga_index, g_vga_index)
       ELSE /\ Blank(g_vga_index, g_vga_index)
            /\ UNCHANGED <<place, skipped, lost>>
    /\ UNCHANGED jumped

console_ungetchar ==
    /\ IF g_vga_index > 0
       THEN /\ StepBack(cursor_pos_x > 0)
            /\ Blank(g_vga_index, g_vga_index - 1)
       ELSE /\ Blank(g_vga_index, g_vga_index)
            /\ UNCHANGED <<place, skipped, lost>>
    /\ UNCHANGED jumped

Erasable(n) == g_vga_index % VGA_WIDTH > n /\ n > 0

console_ungetchar_bound(n) ==
    /\ IF Erasable(n)
       THEN /\ StepBack(cursor_pos_x >= n)
            /\ Blank(g_vga_index, g_vga_index - 1)
       ELSE /\ Blank(g_vga_index, g_vga_index)
            /\ UNCHANGED <<place, skipped, lost>>
    /\ UNCHANGED jumped

console_gotoxy(x, y) ==
    /\ g_vga_index' = VGA_WIDTH * y + x
    /\ cursor_pos_x' = Uint8(x) /\ cursor_pos_y' = Uint8(y)
    /\ crtc' = Location(x, y)
    /\ skipped' = 0 /\ lost' = (x > 255 \/ y > VGA_HEIGHT) /\ jumped' = TRUE
    /\ UNCHANGED ink

Next ==
    \/ console_clear
    \/ console_newline
    \/ PutGlyph \/ PutSpace \/ PutTab
    \/ console_ungetchar
    \/ \E n \in Bounds : console_ungetchar_bound(n)
    \/ \E x \in Columns, y \in Rows : console_gotoxy(x, y)

Spec == Init /\ [][Next]_vars

-----------------------------------------------------------------------------
(* Properties.                                                             *)

\* The index is the cell at the column and row of the cursor, but for the rows
\* that newlines skipped after overlong lines; the cursor shown by the CRTC is
\* there or one cell beside it.  So the next character can only land outside
\* the cells that console_clear covers after a line that overflowed its row.
\* Nothing is said of a column that has wrapped, of a console_gotoxy beyond the
\* screen, and after erasing across rows that were skipped.
InStep ==
    ~lost =>
        /\ cursor_pos_y <= VGA_HEIGHT
        /\ g_vga_index = VGA_WIDTH * (cursor_pos_y + skipped) + cursor_pos_x
        /\ crtc - (g_vga_index - VGA_WIDTH * skipped) \in {-1, 0, 1}
        /\ skipped = 0 /\ cursor_pos_x < VGA_WIDTH => g_vga_index < VGA_TOTAL_ITEMS

\* Unless console_gotoxy moved the cursor back over text, no character is
\* left at or after the index in the cells that console_clear covers:
\* erasing, newlines and clearing leave no remains for the next line, even
\* when lines overflow their rows.
NothingAhead ==
    ~jumped => \A c \in ink : c < VGA_TOTAL_ITEMS => c < g_vga_index

=============================================================================
