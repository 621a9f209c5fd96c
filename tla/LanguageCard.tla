---------------------------- MODULE LanguageCard ----------------------------
(***************************************************************************)
(* What the 16K language card of an Apple ][ promises to the programs that *)
(* run on it, in terms of the history of accesses to its sixteen switches  *)
(* and not of the flip-flops that remember it.                             *)
(*                                                                         *)
(* A switch is a number n in 0 .. 15: bit 3 selects the bank that appears  *)
(* in the lower 4K, bits 0 and 1 are equal iff the card is to be read, and *)
(* an odd n may enable writing.  The module MemoryMap implements this.     *)
(***************************************************************************)
EXTENDS Integers, Sequences

CONSTANTS Lower,      \* addresses of the lower 4K, where there are two banks
          Upper,      \* addresses of the upper 8K
          Data,       \* the values of a byte
          Blank,      \* the byte in a cell, and on the bus, at power-on
          Switch,     \* stands for the address of a switch
          Rom,        \* the ROM that lies under the card
          Switches    \* the switches the program uses

VARIABLES
    last,     \* the switch accessed last
    odds,     \* accesses to odd switches since the last even one: TRUE for a write
    fresh,    \* no even switch has been accessed since power-on
    store,    \* the contents of the three banks
    bus       \* the last read that found a byte: its address and the byte

cardVars == <<last, odds, fresh, store, bus>>

Banks == {"bank1", "bank2", "upper"}

CardInit ==
    /\ last = 2
    /\ odds = <<>>
    /\ fresh = TRUE
    /\ store = [b \in Banks |-> [a \in Lower \cup Upper |-> Blank]]
    /\ bus = [at |-> Switch, byte |-> Blank]

\* The card is read in place of the ROM.
Reads == last % 4 \in {0, 3}

\* The card takes writes: an odd switch was read and an odd switch, the same
\* or another, accessed directly after it, or no switch has turned the
\* writing of power-on off.
Writes == fresh \/ \E i \in 1 .. Len(odds) - 1 : ~odds[i]

\* The bank address a lies in.
Home(a) ==
    IF a \in Upper THEN "upper" ELSE IF last < 8 THEN "bank2" ELSE "bank1"

Access(n, wrt) ==
    /\ last' = n
    /\ odds' = IF n % 2 = 1 THEN Append(odds, wrt) ELSE <<>>
    /\ fresh' = (fresh /\ n % 2 = 1)
    /\ bus' = IF wrt THEN bus ELSE [at |-> Switch, byte |-> Blank]
    /\ UNCHANGED store

Load(a) ==
    /\ bus' = [at |-> a, byte |-> IF Reads THEN store[Home(a)][a] ELSE Rom[a]]
    /\ UNCHANGED <<last, odds, fresh, store>>

Store(a, v) ==
    /\ store' = IF Writes THEN [store EXCEPT ![Home(a)][a] = v] ELSE store
    /\ UNCHANGED <<last, odds, fresh, bus>>

\* Accesses to the rest of the machine leave the card alone.
Elsewhere ==
    /\ bus'.at \notin Lower \cup Upper
    /\ UNCHANGED <<last, odds, fresh, store>>

CardNext ==
    \/ \E n \in Switches, wrt \in BOOLEAN : Access(n, wrt)
    \/ \E a \in Lower \cup Upper : Load(a)
    \/ \E a \in Lower \cup Upper, v \in Data : Store(a, v)
    \/ Elsewhere

CardSpec == CardInit /\ [][CardNext]_cardVars

=============================================================================
