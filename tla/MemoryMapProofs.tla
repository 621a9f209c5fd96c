-------------------------- MODULE MemoryMapProofs ---------------------------
(***************************************************************************)
(* The flags of the language card always say what the history of accesses  *)
(* to its switches means, and mem_ReadByte, mem_WriteByte and the switches *)
(* implement the abstract card: for all addresses, bytes and switches that *)
(* a program may use, and sequences of odd switches of any length.         *)
(***************************************************************************)
EXTENDS MemoryMap, SequenceTheorems, TLAPS

\* What the proofs keep from step to step: the flags can be decoded from the
\* history only if the history is what TypeOK says it is.
IInv == TypeOK /\ Decoded

\* The addresses of the card, and what is known of them.
LEMMA Addresses ==
    /\ Probes \subseteq Nat
    /\ Lower \subseteq Probes /\ Upper \subseteq Probes
    /\ \A a \in Probes : InCard(a) <=> a \in Lower \cup Upper
    /\ \A a \in Lower : a < Bk2End /\ a \notin Upper
    /\ \A a \in Upper : a >= Bk2End
    /\ Switch \notin Lower \cup Upper
BY MemoryAssumption DEF Lower, Upper, InCard, ROMSTART, Bk2End, Switch

\* The machine starts with the flags that an empty history means.
LEMMA InitIInv == Init => IInv
<1> SUFFICES ASSUME Init PROVE IInv
  OBVIOUS
<1>1. flags \in BOOLEAN \X BOOLEAN \X BOOLEAN \X BOOLEAN
  BY DEF Init, flags
<1>2. /\ ram \in [{a \in Probes : InRam(a)} -> Byte]
      /\ rom \in [{a - ROMSTART : a \in Lower \cup Upper} -> {RomByte}]
      /\ lgc \in [{a - ROMSTART : a \in Lower \cup Upper} -> Byte]
      /\ bk2 \in [{a - ROMSTART : a \in Lower} -> Byte]
      /\ sl6 \in [{a - SL6START : a \in {p \in Probes : InSl6(p)}} -> {Sl6Byte}]
  BY DEF Init, Byte
<1>3. /\ result \in [at : Probes \cup {Switch}, byte : Byte]
      /\ last \in 0 .. 15 /\ fresh \in BOOLEAN
  BY DEF Init, Returned, Tick, Byte
<1>4. odds \in Seq(BOOLEAN) /\ Len(odds) <= MaxOdds
  BY MemoryAssumption DEF Init
<1>5. Decoded
  <2>1. (last < 8) = TRUE /\ (last % 4 \in {0, 3}) = FALSE
    BY DEF Init
  <2>2. LCBank2Enable = (last < 8) /\ LCReadable = (last % 4 \in {0, 3})
    <3>1. LCBank2Enable = TRUE /\ LCReadable = FALSE
      BY DEF Init
    <3> QED
      BY Zenon, <2>1, <3>1
  <2>3. odds = <<>> /\ fresh = TRUE /\ LCPreWriteFlipflop = FALSE /\ LCWritable = TRUE
    BY DEF Init
  <2> QED
    BY <2>2, <2>3 DEF Decoded
<1> QED
  BY <1>1, <1>2, <1>3, <1>4, <1>5 DEF IInv, TypeOK

\* Appending to the history changes neither the entries before nor, for a
\* history that is not empty, what follows an odd read.
LEMMA AppendHistory ==
    ASSUME NEW s \in Seq(BOOLEAN), NEW b \in BOOLEAN
    PROVE  /\ Append(s, b) \in Seq(BOOLEAN)
           /\ Len(Append(s, b)) = Len(s) + 1
           /\ Append(s, b) # <<>>
           /\ Append(s, b)[Len(Append(s, b))] = b
           /\ (\E i \in 1 .. Len(Append(s, b)) - 1 : ~Append(s, b)[i])
                <=> (\E i \in 1 .. Len(s) - 1 : ~s[i]) \/ (s # <<>> /\ ~s[Len(s)])
<1> DEFINE t == Append(s, b)
<1>1. /\ t \in Seq(BOOLEAN) /\ Len(t) = Len(s) + 1 /\ t[Len(t)] = b
      /\ \A i \in 1 .. Len(s) : t[i] = s[i]
  OBVIOUS
<1>2. Len(s) \in Nat /\ (s = <<>> <=> Len(s) = 0)
  BY EmptySeq
<1>3. t # <<>>
  BY <1>1, <1>2
<1>4. (\E i \in 1 .. Len(t) - 1 : ~t[i]) <=> \E i \in 1 .. Len(s) : ~s[i]
  BY <1>1, <1>2
<1>5. (\E i \in 1 .. Len(s) : ~s[i])
        <=> (\E i \in 1 .. Len(s) - 1 : ~s[i]) \/ (Len(s) > 0 /\ ~s[Len(s)])
  BY <1>2
<1> QED
  BY <1>1, <1>2, <1>3, <1>4, <1>5

\* An access to a switch: the sixteen cases follow the history.
LEMMA SwitchIInv ==
    ASSUME IInv, NEW n \in Switches, NEW WRT \in BOOLEAN, ad_SoftSwitch(n, WRT)
    PROVE  IInv'
<1>1. n \in 0 .. 15
  BY MemoryAssumption
<1>2. odds \in Seq(BOOLEAN) /\ Len(odds) <= MaxOdds /\ MaxOdds \in Nat /\ Len(odds) \in Nat
  BY MemoryAssumption DEF IInv, TypeOK
<1>3. TypeOK'
  <2>1. flags' \in BOOLEAN \X BOOLEAN \X BOOLEAN \X BOOLEAN
    <3>1. LCBank2Enable' \in BOOLEAN /\ LCReadable' \in BOOLEAN
      BY DEF ad_SoftSwitch, CardSwitch
    <3>2. LCWritable \in BOOLEAN /\ LCPreWriteFlipflop \in BOOLEAN
      BY DEF IInv, TypeOK, flags
    <3>3. CASE n \in {1, 5, 3, 7, 9, 13, 11, 15}
      BY <3>1, <3>2, <3>3 DEF ad_SoftSwitch, CardSwitch, Prewrite, flags
    <3>4. CASE n \notin {1, 5, 3, 7, 9, 13, 11, 15}
      BY <3>1, <3>4 DEF ad_SoftSwitch, CardSwitch, Protect, flags
    <3> QED
      BY <3>3, <3>4
  <2>2. UNCHANGED <<ram, rom, lgc, bk2, sl6>>
    BY DEF ad_SoftSwitch, arrays
  <2>3. result' \in [at : Probes \cup {Switch}, byte : Byte]
    BY DEF ad_SoftSwitch, Returned, Tick, Byte, IInv, TypeOK
  <2>4. last' \in 0 .. 15 /\ fresh' \in BOOLEAN
    BY <1>1 DEF ad_SoftSwitch, History, IInv, TypeOK
  <2>5. odds' \in Seq(BOOLEAN) /\ Len(odds') <= MaxOdds
    <3>1. CASE n % 2 = 1
      BY <1>1, <1>2, <3>1, AppendHistory DEF ad_SoftSwitch, History
    <3>2. CASE n % 2 # 1
      BY <1>1, <1>2, <3>2 DEF ad_SoftSwitch, History
    <3> QED
      BY <3>1, <3>2
  <2> QED
    BY <2>1, <2>2, <2>3, <2>4, <2>5 DEF IInv, TypeOK
<1>4. LCBank2Enable' = (last' < 8) /\ LCReadable' = (last' % 4 \in {0, 3})
  <2>1. (n \in 0 .. 7) = (n < 8)
    BY <1>1
  <2>2. (n \in {0, 4, 3, 7, 8, 12, 11, 15}) = (n % 4 \in {0, 3})
    BY <1>1
  <2> QED
    BY <2>1, <2>2 DEF ad_SoftSwitch, CardSwitch, History
<1>5. CASE n % 2 = 1
  <2>1. n \in {1, 5, 3, 7, 9, 13, 11, 15}
    BY <1>1, <1>5
  <2>2. odds' = Append(odds, WRT) /\ fresh' = fresh
    BY <1>5 DEF ad_SoftSwitch, History, IInv, TypeOK
  <2>3. LCWritable' = (LCWritable \/ LCPreWriteFlipflop) /\ LCPreWriteFlipflop' = ~WRT
    BY <2>1 DEF ad_SoftSwitch, CardSwitch, Prewrite
  <2>4. LCPreWriteFlipflop' = (odds' # <<>> /\ ~odds'[Len(odds')])
    BY <1>2, <2>2, <2>3, AppendHistory
  <2>5. LCWritable' = (fresh' \/ \E i \in 1 .. Len(odds') - 1 : ~odds'[i])
    <3>1. LCWritable = (fresh \/ \E i \in 1 .. Len(odds) - 1 : ~odds[i])
      BY DEF IInv, Decoded
    <3>2. LCPreWriteFlipflop = (odds # <<>> /\ ~odds[Len(odds)])
      BY DEF IInv, Decoded
    <3>3. (\E i \in 1 .. Len(odds') - 1 : ~odds'[i])
            <=> (\E i \in 1 .. Len(odds) - 1 : ~odds[i]) \/ (odds # <<>> /\ ~odds[Len(odds)])
      BY <1>2, <2>2, AppendHistory
    <3> QED
      BY <2>2, <2>3, <3>1, <3>2, <3>3
  <2> QED
    BY <1>3, <1>4, <2>4, <2>5 DEF IInv, Decoded
<1>6. CASE n % 2 # 1
  <2>1. n \notin {1, 5, 3, 7, 9, 13, 11, 15}
    BY <1>1, <1>6
  <2>2. odds' = <<>> /\ fresh' = FALSE
    BY <1>6 DEF ad_SoftSwitch, History
  <2>3. LCWritable' = FALSE /\ LCPreWriteFlipflop' = FALSE
    BY <2>1 DEF ad_SoftSwitch, CardSwitch, Protect
  <2>4. LCPreWriteFlipflop' = (odds' # <<>> /\ ~odds'[Len(odds')])
    BY <2>2, <2>3
  <2>5. ~\E i \in 1 .. Len(odds') - 1 : ~odds'[i]
    BY <2>2
  <2>6. LCWritable' = (fresh' \/ \E i \in 1 .. Len(odds') - 1 : ~odds'[i])
    BY <2>2, <2>3, <2>5
  <2> QED
    BY <1>3, <1>4, <2>4, <2>6 DEF IInv, Decoded
<1> QED
  BY <1>5, <1>6

\* A byte read comes from one of the arrays.
LEMMA ByteRead ==
    ASSUME IInv, NEW a \in Probes
    PROVE  ByteAt(a) \in Byte
<1>1. a \in Nat /\ RomByte \in Byte /\ Sl6Byte \in Byte
  BY MemoryAssumption DEF Byte
<1>2. CASE InRam(a)
  BY <1>2, <1>1 DEF ByteAt, IInv, TypeOK, InRam, InCard, RAMSIZE, ROMSTART
<1>3. CASE InCard(a)
  <2>1. a \in Lower \cup Upper /\ ~InRam(a) /\ (a < Bk2End => a \in Lower)
    <3>1. a \in Lower \cup Upper
      BY <1>3, Addresses
    <3>2. ~InRam(a)
      BY <1>1, <1>3 DEF InRam, InCard, RAMSIZE, ROMSTART
    <3>3. a < Bk2End => a \in Lower
      BY <1>1, <3>1, Addresses DEF Bk2End
    <3> QED
      BY <3>1, <3>2, <3>3
  <2>2. rom[a - ROMSTART] \in Byte /\ lgc[a - ROMSTART] \in Byte
    BY <1>1, <2>1 DEF IInv, TypeOK
  <2>3. a < Bk2End => bk2[a - ROMSTART] \in Byte
    BY <2>1 DEF IInv, TypeOK
  <2>4. ByteAt(a) \in {rom[a - ROMSTART], lgc[a - ROMSTART]}
        \/ (a < Bk2End /\ ByteAt(a) = bk2[a - ROMSTART])
    BY <1>3, <2>1 DEF ByteAt, CardByte
  <2> QED
    BY <2>2, <2>3, <2>4
<1>4. CASE ~InRam(a) /\ ~InCard(a)
  <2>1. InSl6(a) => sl6[a - SL6START] \in Byte
    BY <1>1 DEF IInv, TypeOK
  <2>2. ByteAt(a) = IF InSl6(a) THEN sl6[a - SL6START] ELSE Tick
    BY <1>4 DEF ByteAt
  <2> QED
    BY <2>1, <2>2 DEF Tick, Byte
<1> QED
  BY <1>2, <1>3, <1>4

\* A store changes a cell of one array, or none.
LEMMA WriteIInv ==
    ASSUME IInv, NEW a \in Probes, NEW v \in Values, mem_WriteByte(a, v)
    PROVE  IInv'
<1>1. v \in Byte
  BY MemoryAssumption DEF Byte
<1>2. ram' \in [{p \in Probes : InRam(p)} -> Byte]
  BY <1>1 DEF mem_WriteByte, WriteRam, WriteCard, WriteLost, IInv, TypeOK
<1>3. /\ lgc' \in [{p - ROMSTART : p \in Lower \cup Upper} -> Byte]
      /\ bk2' \in [{p - ROMSTART : p \in Lower} -> Byte]
  BY <1>1 DEF mem_WriteByte, WriteRam, WriteCard, WriteLost, IInv, TypeOK
<1>4. UNCHANGED <<flags, rom, sl6, result, last, odds, fresh>>
  BY DEF mem_WriteByte, ghosts
<1>5. TypeOK'
  BY <1>2, <1>3, <1>4 DEF IInv, TypeOK
<1>6. Decoded'
  BY <1>4 DEF IInv, Decoded, flags
<1> QED
  BY <1>5, <1>6 DEF IInv

\* The invariant is inductive.
LEMMA NextIInv == IInv /\ [Next]_vars => IInv'
<1> SUFFICES ASSUME IInv, [Next]_vars PROVE IInv'
  OBVIOUS
<1>1. ASSUME NEW n \in Switches, NEW WRT \in BOOLEAN, ad_SoftSwitch(n, WRT)
      PROVE  IInv'
  BY <1>1, SwitchIInv
<1>2. ASSUME NEW a \in Probes, mem_ReadByte(a)
      PROVE  IInv'
  <2>1. UNCHANGED <<flags, ram, rom, lgc, bk2, sl6, last, odds, fresh>>
    BY <1>2 DEF mem_ReadByte, arrays, ghosts
  <2>2. result' \in [at : Probes \cup {Switch}, byte : Byte]
    BY <1>2, ByteRead DEF mem_ReadByte, Returned
  <2>3. TypeOK'
    BY <2>1, <2>2 DEF IInv, TypeOK
  <2>4. Decoded'
    BY <2>1 DEF IInv, Decoded, flags
  <2> QED
    BY <2>3, <2>4 DEF IInv
<1>3. ASSUME NEW a \in Probes, NEW v \in Values, mem_WriteByte(a, v)
      PROVE  IInv'
  BY <1>3, WriteIInv
<1>4. CASE UNCHANGED vars
  <2>1. UNCHANGED <<flags, ram, rom, lgc, bk2, sl6, result, last, odds, fresh>>
    BY <1>4 DEF vars, arrays, ghosts
  <2> QED
    BY <2>1 DEF IInv, TypeOK, Decoded, flags
<1> QED
  BY <1>1, <1>2, <1>3, <1>4 DEF Next

\* Type correctness: no access leaves the arrays that Predef.h sizes, and the
\* ROMs keep their contents.
THEOREM TypeCorrect == Spec => []TypeOK
<1>1. IInv => TypeOK
  BY DEF IInv
<1> QED
  BY InitIInv, NextIInv, <1>1, PTL DEF Spec

\* The flags that ad_SoftSwitch sets always decode the history of accesses,
\* for programs that touch any of the switches any number of times.
THEOREM FlagsDecoded == Spec => []Decoded
<1>1. IInv => Decoded
  BY DEF IInv
<1> QED
  BY InitIInv, NextIInv, <1>1, PTL DEF Spec

-----------------------------------------------------------------------------
(* The refinement.                                                         *)

\* What the abstract card says of its switches is what the flags say.
LEMMA CardFlags ==
    ASSUME IInv
    PROVE  /\ Card!Reads <=> LCReadable
           /\ Card!Writes <=> LCWritable
           /\ (last < 8) <=> LCBank2Enable
BY DEF IInv, Decoded, Card!Reads, Card!Writes

\* The initial contents of the arrays are those of a card at power-on.
LEMMA CardStarts == Init => Card!CardInit
<1> SUFFICES ASSUME Init PROVE Card!CardInit
  OBVIOUS
<1>1. \A a \in Lower \cup Upper : lgc[a - ROMSTART] = 0
  BY DEF Init
<1>2. \A a \in Lower : bk2[a - ROMSTART] = 0
  BY DEF Init
<1>3. CardStore = [b \in {"bank1", "bank2", "upper"} |-> [a \in Lower \cup Upper |-> 0]]
  BY <1>1, <1>2 DEF CardStore
<1> QED
  BY <1>3 DEF Init, Card!CardInit, Card!Banks, Returned, Tick

\* An access to a switch is an access to the card's switch.
LEMMA SwitchIsAccess ==
    ASSUME NEW n \in Switches, NEW WRT \in BOOLEAN, ad_SoftSwitch(n, WRT)
    PROVE  Card!Access(n, WRT)
BY DEF ad_SoftSwitch, History, Card!Access, arrays, CardStore, Returned, Tick

\* A load in the card's range finds what the card holds there, and a load
\* elsewhere is none of the card's.
LEMMA ReadIsLoad ==
    ASSUME IInv, NEW a \in Probes, mem_ReadByte(a)
    PROVE  (Card!Load(a) /\ a \in Lower \cup Upper) \/ Card!Elsewhere
<1>1. UNCHANGED <<last, odds, fresh, CardStore>>
  BY DEF mem_ReadByte, arrays, ghosts, CardStore
<1>2. CASE a \in Lower \cup Upper
  <2>1. InCard(a) /\ ~InRam(a) /\ a \in Nat /\ (a \in Upper <=> ~(a < Bk2End))
    BY <1>2, Addresses DEF InCard, InRam, ROMSTART, RAMSIZE, Bk2End
  <2>2. ByteAt(a) = CardByte(a)
    BY <2>1 DEF ByteAt
  <2>3. rom[a - ROMSTART] = RomByte
    BY <1>2 DEF IInv, TypeOK
  <2>4. CardByte(a) = IF Card!Reads THEN CardStore[Card!Home(a)][a] ELSE RomByte
    BY <1>2, <2>1, <2>3, CardFlags DEF CardByte, CardStore, Card!Home
  <2> QED
    BY <1>1, <1>2, <2>2, <2>4 DEF mem_ReadByte, Returned, Card!Load
<1>3. CASE a \notin Lower \cup Upper
  BY <1>1, <1>3 DEF mem_ReadByte, Returned, Card!Elsewhere
<1> QED
  BY <1>2, <1>3

\* A store that the card takes is a store to the bank that is selected; all
\* others leave it alone.
LEMMA WriteIsStore ==
    ASSUME IInv, NEW a \in Probes, NEW v \in Values, mem_WriteByte(a, v)
    PROVE  (a \in Lower \cup Upper /\ Card!Store(a, v)) \/ UNCHANGED Card!cardVars
<1>1. UNCHANGED <<result, last, odds, fresh>>
  BY DEF mem_WriteByte, ghosts
<1>2. CASE WriteCard(a, v)
  <2>1. a \in Lower \cup Upper /\ a \in Nat /\ (a \in Upper <=> ~(a < Bk2End))
    BY <1>2, Addresses DEF WriteCard, Bk2End
  <2>2. Card!Writes
    BY <1>2, CardFlags DEF WriteCard
  <2>3. CardStore' = [CardStore EXCEPT ![Card!Home(a)][a] = v]
    <3>1. CASE LCBank2Enable /\ a < Bk2End
      <4>1. bk2' = [bk2 EXCEPT ![a - ROMSTART] = v] /\ lgc' = lgc
        BY <1>2, <3>1 DEF WriteCard
      <4>2. Card!Home(a) = "bank2" /\ a \in Lower
        BY <2>1, <3>1, CardFlags DEF Card!Home
      <4>3. \A p \in Lower : bk2'[p - ROMSTART] = IF p = a THEN v ELSE bk2[p - ROMSTART]
        BY <4>1, <4>2, Addresses DEF IInv, TypeOK, ROMSTART
      <4> QED
        BY <2>1, <4>1, <4>2, <4>3, Addresses DEF CardStore
    <3>2. CASE ~(LCBank2Enable /\ a < Bk2End)
      <4>1. lgc' = [lgc EXCEPT ![a - ROMSTART] = v] /\ bk2' = bk2
        BY <1>2, <3>2 DEF WriteCard
      <4>2. Card!Home(a) = IF a \in Upper THEN "upper" ELSE "bank1"
        BY <2>1, <3>2, CardFlags DEF Card!Home
      <4>3. \A p \in Lower \cup Upper :
                lgc'[p - ROMSTART] = IF p = a THEN v ELSE lgc[p - ROMSTART]
        BY <2>1, <4>1, Addresses DEF IInv, TypeOK, ROMSTART
      <4> QED
        BY <2>1, <4>1, <4>2, <4>3, Addresses DEF CardStore
    <3> QED
      BY <3>1, <3>2
  <2> QED
    BY <1>1, <2>1, <2>2, <2>3 DEF Card!Store
<1>3. CASE WriteRam(a, v) \/ WriteLost(a)
  <2>1. UNCHANGED CardStore
    BY <1>3 DEF WriteRam, WriteLost, CardStore
  <2> QED
    BY <1>1, <2>1 DEF Card!cardVars
<1> QED
  BY <1>2, <1>3 DEF mem_WriteByte

\* Every step of the memory map is a step of the card or leaves it alone.
LEMMA StepImplements == IInv /\ [Next]_vars => [Card!CardNext]_(Card!cardVars)
<1> SUFFICES ASSUME IInv, [Next]_vars PROVE [Card!CardNext]_(Card!cardVars)
  OBVIOUS
<1>1. ASSUME NEW n \in Switches, NEW WRT \in BOOLEAN, ad_SoftSwitch(n, WRT)
      PROVE  Card!CardNext
  BY <1>1, SwitchIsAccess DEF Card!CardNext
<1>2. ASSUME NEW a \in Probes, mem_ReadByte(a)
      PROVE  Card!CardNext
  BY <1>2, ReadIsLoad DEF Card!CardNext
<1>3. ASSUME NEW a \in Probes, NEW v \in Values, mem_WriteByte(a, v)
      PROVE  Card!CardNext \/ UNCHANGED Card!cardVars
  BY <1>3, WriteIsStore DEF Card!CardNext
<1>4. CASE UNCHANGED vars
  BY <1>4 DEF vars, arrays, ghosts, CardStore, Card!cardVars
<1> QED
  BY <1>1, <1>2, <1>3, <1>4 DEF Next

\* The memory map implements the language card: what a program reads in
\* $D000 .. $FFFF, and what its writes there do, depends on the switches it
\* touched in just the way the abstract card says.
THEOREM MapImplementsCard == Spec => ImplementsCard
BY InitIInv, NextIInv, CardStarts, StepImplements, PTL
   DEF Spec, ImplementsCard, Card!CardSpec

=============================================================================
