----------------------------- MODULE MemoryMap ------------------------------
(***************************************************************************)
(* Apple2/AppleMem.c and the language card switches of ad_SoftSwitch in    *)
(* Apple2/AppleDevice.c: where mem_ReadByte and mem_WriteByte find a byte. *)
(*                                                                         *)
(* The program on the 6502 is arbitrary: it reads and writes the addresses *)
(* in Probes and the switches $C080 .. $C08F in any order.  The arrays are *)
(* kept at the offsets that belong to the probed addresses.                *)
(***************************************************************************)
EXTENDS Integers, Sequences

CONSTANTS Probes,     \* addresses the program uses, switches excluded
          Switches,   \* the low nibbles of the switches $C080 .. $C08F it uses
          Values,     \* bytes the program writes
          RomByte,    \* appleIIrom: a byte for each address from ROMSTART on
          Sl6Byte,    \* diskII: a byte for each address of slot 6
          MaxOdds     \* bound: accesses to odd switches in a row

RAMSIZE  == 49152     \* $C000
SL6START == 50688     \* $C600
ROMSTART == 53248     \* $D000; LGCSTART and BK2START are the same
Bk2End   == 57344     \* $E000

InRam(a)  == a < RAMSIZE
InCard(a) == a >= ROMSTART
InSl6(a)  == a \div 256 = SL6START \div 256

Lower == {a \in Probes : InCard(a) /\ a < Bk2End}
Upper == {a \in Probes : a >= Bk2End}

ASSUME MemoryAssumption ==
    /\ Probes \subseteq Nat
    /\ \A a \in Probes : a < 65536 /\ a \notin 49280 .. 49295
    /\ Switches \subseteq 0 .. 15
    /\ Values \subseteq 0 .. 255
    /\ RomByte \in 0 .. 255
    /\ Sl6Byte \in 0 .. 255
    /\ MaxOdds \in Nat

VARIABLES
    LCWritable, LCReadable, LCBank2Enable, LCPreWriteFlipflop,
    ram, rom, lgc, bk2, sl6,
    result,               \* what mem_ReadByte returned last, and for which address
    last, odds, fresh     \* ghosts: the history, as in LanguageCard

flags  == <<LCWritable, LCReadable, LCBank2Enable, LCPreWriteFlipflop>>
arrays == <<ram, rom, lgc, bk2, sl6>>
ghosts == <<last, odds, fresh>>
vars   == <<flags, arrays, result, ghosts>>

Byte == 0 .. 255

Returned(a, b) == [at |-> a, byte |-> b]

\* One address stands for all the switches.
Switch == 49280

\* The end of ad_SoftSwitch: cpu_tick % 256, and cpu_tick is never advanced.
Tick == 0

\* machine_InitMachine: mem_Reset clears, then machine_Booting copies the ROMs.
\* $4D and $D0 hold $AA when the 6502 starts.
Init ==
    /\ LCWritable = TRUE
    /\ LCReadable = FALSE
    /\ LCBank2Enable = TRUE
    /\ LCPreWriteFlipflop = FALSE
    /\ ram = [a \in {p \in Probes : InRam(p)} |-> IF a \in {77, 208} THEN 170 ELSE 0]
    /\ rom = [i \in {a - ROMSTART : a \in Lower \cup Upper} |-> RomByte]
    /\ lgc = [i \in {a - ROMSTART : a \in Lower \cup Upper} |-> 0]
    /\ bk2 = [i \in {a - ROMSTART : a \in Lower} |-> 0]
    /\ sl6 = [i \in {a - SL6START : a \in {p \in Probes : InSl6(p)}} |-> Sl6Byte]
    /\ result = Returned(Switch, Tick)
    /\ last = 2 /\ odds = <<>> /\ fresh = TRUE

-----------------------------------------------------------------------------
(* ad_SoftSwitch, cases $C080 .. $C08F.                                    *)

\* Mutant of Prewrite: writing an odd switch arms the card as reading does.
Prewrite_AnyAccess(WRT) ==
    /\ LCWritable' = (LCWritable \/ LCPreWriteFlipflop)
    /\ LCPreWriteFlipflop' = TRUE

\* The odd switches: LC2WR, LC2RW, LC1WR, LC1RW.
Prewrite(WRT) ==
    /\ LCWritable' = (LCWritable \/ LCPreWriteFlipflop)
    /\ LCPreWriteFlipflop' = ~WRT

\* The even switches: LC2RD, ROMONLY2, LC1RD, ROMONLY1.
Protect ==
    /\ LCWritable' = FALSE
    /\ LCPreWriteFlipflop' = FALSE

CardSwitch(n, WRT) ==
    /\ LCBank2Enable' = (n \in 0 .. 7)
    /\ LCReadable' = (n \in {0, 4, 3, 7, 8, 12, 11, 15})
    /\ IF n \in {1, 5, 3, 7, 9, 13, 11, 15} THEN Prewrite(WRT) ELSE Protect

History(n, WRT) ==
    /\ last' = n
    /\ odds' = IF n % 2 = 1 THEN Append(odds, WRT) ELSE <<>>
    /\ fresh' = (fresh /\ n % 2 = 1)

ad_SoftSwitch(n, WRT) ==
    /\ n % 2 = 0 \/ Len(odds) < MaxOdds
    /\ CardSwitch(n, WRT)
    /\ result' = IF WRT THEN result ELSE Returned(Switch, Tick)
    /\ UNCHANGED arrays
    /\ History(n, WRT)

-----------------------------------------------------------------------------
(* mem_ReadByte and mem_WriteByte.                                         *)

\* Mutant of CardByte: bank 2 is seen in the upper 8K too.
CardByte_BankFirst(a) ==
    IF ~LCReadable THEN rom[a - ROMSTART]
    ELSE IF LCBank2Enable THEN bk2[(a - ROMSTART) % 4096]
    ELSE lgc[a - ROMSTART]

CardByte(a) ==
    IF ~LCReadable THEN rom[a - ROMSTART]
    ELSE IF LCBank2Enable /\ a < Bk2End THEN bk2[a - ROMSTART]
    ELSE lgc[a - ROMSTART]

\* An address in $C000 .. $CFFF that is neither in slot 6 nor a switch reads
\* as ad_SoftSwitch's last line.
ByteAt(a) ==
    IF InRam(a) THEN ram[a]
    ELSE IF InCard(a) THEN CardByte(a)
    ELSE IF InSl6(a) THEN sl6[a - SL6START]
    ELSE Tick

mem_ReadByte(a) ==
    /\ result' = Returned(a, ByteAt(a))
    /\ UNCHANGED <<flags, arrays, ghosts>>

WriteRam(a, v) ==
    /\ InRam(a)
    /\ ram' = [ram EXCEPT ![a] = v]
    /\ UNCHANGED <<lgc, bk2>>

WriteCard(a, v) ==
    /\ InCard(a) /\ LCWritable
    /\ IF LCBank2Enable /\ a < Bk2End
       THEN bk2' = [bk2 EXCEPT ![a - ROMSTART] = v] /\ UNCHANGED lgc
       ELSE lgc' = [lgc EXCEPT ![a - ROMSTART] = v] /\ UNCHANGED bk2
    /\ UNCHANGED ram

\* Slot 6, the unused switches and a card that takes no writes.
WriteLost(a) ==
    /\ ~InRam(a) /\ ~(InCard(a) /\ LCWritable)
    /\ UNCHANGED <<ram, lgc, bk2>>

mem_WriteByte(a, v) ==
    /\ WriteRam(a, v) \/ WriteCard(a, v) \/ WriteLost(a)
    /\ UNCHANGED <<flags, rom, sl6, result, ghosts>>

Next ==
    \/ \E n \in Switches, WRT \in BOOLEAN : ad_SoftSwitch(n, WRT)
    \/ \E a \in Probes : mem_ReadByte(a)
    \/ \E a \in Probes, v \in Values : mem_WriteByte(a, v)

Spec == Init /\ [][Next]_vars

-----------------------------------------------------------------------------
(* Properties.                                                             *)

\* Types of the flags and of what the arrays hold: no access stores past the
\* end of bk2 or lgc, and no byte comes from outside the arrays.
TypeOK ==
    /\ flags \in BOOLEAN \X BOOLEAN \X BOOLEAN \X BOOLEAN
    /\ ram \in [{a \in Probes : InRam(a)} -> Byte]
    /\ rom \in [{a - ROMSTART : a \in Lower \cup Upper} -> {RomByte}]
    /\ lgc \in [{a - ROMSTART : a \in Lower \cup Upper} -> Byte]
    /\ bk2 \in [{a - ROMSTART : a \in Lower} -> Byte]
    /\ sl6 \in [{a - SL6START : a \in {p \in Probes : InSl6(p)}} -> {Sl6Byte}]
    /\ result \in [at : Probes \cup {Switch}, byte : Byte]
    /\ last \in 0 .. 15
    /\ odds \in Seq(BOOLEAN) /\ Len(odds) <= MaxOdds
    /\ fresh \in BOOLEAN

\* The four flags of AppleMem.c, which the sixteen cases of ad_SoftSwitch set
\* one by one, always say of the history of accesses what the card's switches
\* mean: the flip-flop that the last access was a read of an odd switch, and
\* LCWritable that some odd read was directly followed by an odd access since
\* the last even one, reads and writes and both banks mixed in any way.
Decoded ==
    /\ LCBank2Enable = (last < 8)
    /\ LCReadable = (last % 4 \in {0, 3})
    /\ LCPreWriteFlipflop = (odds # <<>> /\ ~odds[Len(odds)])
    /\ LCWritable = (fresh \/ \E i \in 1 .. Len(odds) - 1 : ~odds[i])

\* The contents of the card, bank by bank.
CardStore ==
    [b \in {"bank1", "bank2", "upper"} |->
        [a \in Lower \cup Upper |->
            IF b = "upper" THEN (IF a \in Upper THEN lgc[a - ROMSTART] ELSE 0)
            ELSE IF a \in Upper THEN 0
            ELSE IF b = "bank2" THEN bk2[a - ROMSTART]
            ELSE lgc[a - ROMSTART]]]

Card == INSTANCE LanguageCard
            WITH store <- CardStore, bus <- result, Data <- Values, Blank <- 0,
                 Rom <- [a \in Lower \cup Upper |-> RomByte]

\* mem_ReadByte, mem_WriteByte and the switches implement the language card:
\* what a program stores it reads back from the bank it stored it to, whatever
\* it switched in between, writes reach the card exactly after the two
\* accesses that enable them, and nothing else changes it or shows through it.
ImplementsCard == Card!CardSpec

=============================================================================
