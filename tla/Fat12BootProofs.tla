-------------------------- MODULE Fat12BootProofs ---------------------------
(***************************************************************************)
(* The boot loads what it jumps to: for every disk whose files lie in      *)
(* separate clusters, wherever they are, every length of the kernel, and   *)
(* every sequence of read errors.                                          *)
(***************************************************************************)
EXTENDS Fat12Boot, SequenceTheorems, TLAPS

\* A boot from the drive that boot_second reads from, with CH as the BIOS
\* leaves it, no more of BOOT2 than fits below the boot sector, and a kernel
\* that ends below the EBDA at 0x9FC00 as the memory map in boot_first.asm says.
FloppyBoot ==
    /\ BootDrives = {0}
    /\ OldCH = {0}
    /\ \A d \in Disks : Len(d.boot2) <= 6 /\ Len(d.kernel) <= 1158

\* The first n sectors of chain c are in memory from slot s on.
Loaded(c, s, n) ==
    \A k \in 1 .. n : s + k - 1 < Slots /\ mem[s + k - 1] = <<0, c[k] + 31>>

\* The slots that LoaderIntact is about.
Intact ==
    /\ Slots > 94
    /\ \A s \in Nat : 63 <= s /\ s <= 94 => mem[s] = <<0, s - 62>>
    /\ mem[62] = Nothing
    /\ Len(disk.boot2) <= 5 => mem[61] = Nothing
    /\ \A s \in Nat : s <= 3 => mem[s] = Nothing

TypeOK ==
    /\ disk \in Disks /\ dl = 0 /\ BOOT_DISK = 0
    /\ stage \in {"boot_first", "boot_second"}
    /\ at \in {"fat", "search", "load", "read", "chain", "kernel", "halted"}
    /\ DOMAIN mem = 0 .. Slots - 1

\* The first read: 32 sectors from LBA 1 on, of which 32 - cx have been read.
ReadingFat ==
    /\ stage = "boot_first"
    /\ cx \in Nat /\ 1 <= cx /\ cx <= 32
    /\ ax = 33 - cx /\ es = 0 /\ bx = 32256 + 512 * (32 - cx)
    /\ cx < 32 => 94 - cx < Slots
    /\ \A s \in Nat : 63 <= s /\ s <= 94 - cx => mem[s] = <<0, s - 62>>
    /\ \A s \in Nat : s <= 62 /\ s < Slots => mem[s] = Nothing

\* The slots of the file that stage loads: its first, and the next to be read.
First == IF stage = "boot_first" THEN 56 ELSE 120
Slot  == First + count

\* load_file at each of its places: count sectors are in memory, and es is
\* that of the sector before until load_next_sector has seen the offset.
LoadingFile ==
    /\ at \in {"load", "read", "chain"} =>
         /\ base = Location
         /\ count \in Nat /\ count < Len(ChainOf(Wanted))
         /\ cluster = ChainOf(Wanted)[count + 1]
    /\ at \in {"load", "read"} => Loaded(ChainOf(Wanted), First, count)
    /\ at = "chain" => Loaded(ChainOf(Wanted), First, count + 1)
    /\ at = "load" => es = 4096 * ((Slot - 1) \div 128)
    /\ at \in {"read", "chain"} => es = 4096 * (Slot \div 128)
    /\ at = "read" => bx = 512 * (Slot % 128) /\ ax = cluster + 31 /\ cx = 1

\* What has been loaded before.
LoadedFiles ==
    /\ stage = "boot_second" => Loaded(disk.boot2, 56, Len(disk.boot2))
    /\ at = "kernel" => Loaded(disk.kernel, 120, Len(disk.kernel))

IInv ==
    /\ TypeOK
    /\ at = "fat" => ReadingFat
    /\ at \notin {"fat", "halted"} => Intact
    /\ LoadingFile
    /\ LoadedFiles

-----------------------------------------------------------------------------
(* Geometry.                                                               *)

\* read_disk reads the sector it is asked for, on the whole floppy.
LEMMA ChsIsLba ==
    ASSUME NEW l \in Nat, l < 2880
    PROVE  SectorAt(lbatochs(l)) = l
<1> DEFINE q == l \div 18
           s == l % 18
           c == q \div 2
           h == q % 2
<1>1. q \in Nat /\ s \in Nat /\ s < 18 /\ l = 18 * q + s
  OBVIOUS
<1>2. c \in Nat /\ h \in Nat /\ h < 2 /\ q = 2 * c + h /\ c < 80
  BY <1>1
<1>3. c % 256 = c
  BY <1>2
<1>4. SectorAt(lbatochs(l)) = (c * 2 + h) * 18 + (s + 1) - 1
  BY <1>3 DEF SectorAt, lbatochs, SectorsPerTrack, NumHeads
<1> HIDE DEF q, s, c, h
<1> QED
  BY <1>1, <1>2, <1>4

LEMMA Places ==
    /\ SlotOf(FAT12_LOCATION) = 63 /\ SlotOf(BOOT2_LOCATION) = 56
    /\ SlotOf(KERNEL_LOCATION) = 120 /\ SlotOf(Stack) = 62 /\ SlotOf(Stack - 1) = 61
  BY DEF SlotOf, BytesPerSector, FAT12_LOCATION, BOOT2_LOCATION, KERNEL_LOCATION, Stack

LEMMA ClusterBounds ==
    ASSUME NEW n \in Clusters
    PROVE  n \in Nat /\ n >= 2 /\ n <= 2847
  BY DEF Clusters

LEMMA Files ==
    ASSUME disk \in Disks
    PROVE  /\ disk.boot2 \in Seq(Clusters) /\ Len(disk.boot2) \in Nat \ {0}
           /\ disk.kernel \in Seq(Clusters) /\ Len(disk.kernel) \in Nat \ {0}
           /\ Separate(disk.boot2, disk.boot2) /\ Separate(disk.kernel, disk.kernel)
           /\ Separate(disk.boot2, disk.kernel) /\ disk.boot2 # disk.kernel
<1>1. disk.boot2 \in Seq(Clusters) /\ Len(disk.boot2) > 0
  BY DisksAssumption
<1>2. disk.kernel \in Seq(Clusters) /\ Len(disk.kernel) > 0
  BY DisksAssumption
<1>3. /\ Separate(disk.boot2, disk.boot2) /\ Separate(disk.kernel, disk.kernel)
      /\ Separate(disk.boot2, disk.kernel) /\ disk.boot2 # disk.kernel
  BY DisksAssumption
<1> QED
  BY <1>1, <1>2, <1>3

-----------------------------------------------------------------------------
(* The FAT.                                                                *)

\* The entry of a cluster of a chain is the next one, or the end mark.
LEMMA ChainEntry ==
    ASSUME disk \in Disks, NEW c \in {disk.boot2, disk.kernel}, NEW k \in 1 .. Len(c)
    PROVE  Successor(c[k]) = IF k = Len(c) THEN 4095 ELSE c[k + 1]
<1> DEFINE n == c[k]
           d == IF \E i \in 1 .. Len(disk.boot2) : disk.boot2[i] = n
                THEN disk.boot2 ELSE disk.kernel
           end == 4095
<1>1. d = c
  <2>1. CASE c = disk.boot2
    BY <2>1
  <2>2. CASE c = disk.kernel
    BY <2>2, Files DEF Separate
  <2> QED
    BY <2>1, <2>2
<1>2. \A j \in 1 .. Len(c) : c[j] = n <=> j = k
  BY Files DEF Separate
<1>3. (CHOOSE j \in 1 .. Len(c) : c[j] = n) = k
  <2>1. \E j \in 1 .. Len(c) : c[j] = n
    OBVIOUS
  <2>2. LET m == CHOOSE j \in 1 .. Len(c) : c[j] = n IN m \in 1 .. Len(c) /\ c[m] = n
    BY <2>1
  <2> QED
    BY <1>2, <2>2
<1>4. Successor(n) = IF \E j \in 1 .. Len(d) : d[j] = n
                     THEN IF (CHOOSE j \in 1 .. Len(d) : d[j] = n) = Len(d) THEN end
                          ELSE d[(CHOOSE j \in 1 .. Len(d) : d[j] = n) + 1]
                     ELSE 0
  BY DEF Successor
<1>5. \E j \in 1 .. Len(c) : c[j] = n
  OBVIOUS
<1> HIDE DEF d, n, end
<1>6. Successor(n) = IF (CHOOSE j \in 1 .. Len(c) : c[j] = n) = Len(c) THEN end
                     ELSE c[(CHOOSE j \in 1 .. Len(c) : c[j] = n) + 1]
  BY <1>1, <1>4, <1>5, Zenon
<1>7. Successor(n) = IF k = Len(c) THEN end ELSE c[k + 1]
  BY <1>3, <1>6, Zenon
<1> QED
  BY <1>7 DEF n, end

LEMMA EntryIs12Bits ==
    ASSUME disk \in Disks, NEW n
    PROVE  Successor(n) \in Nat /\ Successor(n) < 4096
<1> DEFINE c == IF \E k \in 1 .. Len(disk.boot2) : disk.boot2[k] = n
                THEN disk.boot2 ELSE disk.kernel
<1>1. c \in Seq(Clusters)
  BY Files
<1>2. CASE \E j \in 1 .. Len(c) : c[j] = n
  <2> DEFINE k == CHOOSE j \in 1 .. Len(c) : c[j] = n
  <2>1. k \in 1 .. Len(c)
    BY <1>2
  <2>2. Successor(n) = IF k = Len(c) THEN 4095 ELSE c[k + 1]
    BY <1>2 DEF Successor
  <2> HIDE DEF k, c
  <2>3. k # Len(c) => c[k + 1] \in Clusters
    <3>1. Len(c) \in Nat
      BY <1>1
    <3>2. k # Len(c) => k + 1 \in 1 .. Len(c)
      BY <2>1, <3>1
    <3> QED
      BY <1>1, <3>2, ElementOfSeq
  <2> QED
    BY <2>2, <2>3, ClusterBounds
<1>3. CASE ~ \E j \in 1 .. Len(c) : c[j] = n
  BY <1>3 DEF Successor
<1> QED
  BY <1>2, <1>3

\* The two bytes of an entry are put together as the formatter took them apart.
LEMMA Unpacks ==
    ASSUME NEW a \in Nat, NEW b \in Nat, a < 4096, b < 4096
    PROVE  /\ ((a % 256) + 256 * (a \div 256 + 16 * (b % 16))) % 4096 = a
           /\ (a \div 256 + 16 * (b % 16) + 256 * (b \div 16)) \div 16 = b
<1> DEFINE al == a % 256
           ah == a \div 256
           bl == b % 16
           bh == b \div 16
<1>1. al \in Nat /\ al < 256 /\ ah \in Nat /\ ah < 16 /\ a = 256 * ah + al
  OBVIOUS
<1>2. bl \in Nat /\ bl < 16 /\ bh \in Nat /\ bh < 256 /\ b = 16 * bh + bl
  OBVIOUS
<1> HIDE DEF al, ah, bl, bh
<1>3. (al + 256 * (ah + 16 * bl)) % 4096 = 256 * ah + al
  BY <1>1, <1>2
<1>4. (ah + 16 * bl + 256 * bh) \div 16 = 16 * bh + bl
  BY <1>1, <1>2
<1>5. (al + 256 * (ah + 16 * bl)) % 4096 = a /\ (ah + 16 * bl + 256 * bh) \div 16 = b
  BY <1>1, <1>2, <1>3, <1>4
<1> QED
  BY <1>5 DEF al, ah, bl, bh

\* The sectors of the FAT are where they belong.
LEMMA FatInPlace ==
    ASSUME Intact, NEW i \in Nat, i < 4608
    PROVE  InPlace(SlotOf(FAT12_LOCATION + i))
<1> DEFINE s == SlotOf(FAT12_LOCATION + i)
<1>1. s \in Nat /\ 63 <= s /\ s <= 71
  <2> DEFINE q == i \div 512
             m == i % 512
  <2>1. i = 512 * q + m /\ q \in Nat /\ q <= 8 /\ m \in Nat /\ m < 512
    OBVIOUS
  <2>2. s = (32256 + i) \div 512
    BY DEF SlotOf, FAT12_LOCATION, BytesPerSector
  <2> HIDE DEF q, m, s
  <2>3. (32256 + 512 * q + m) \div 512 = 63 + q
    BY <2>1
  <2> QED
    BY <2>1, <2>2, <2>3
<1> HIDE DEF s
<1>2. mem[s] = <<0, s - 62>>
  BY <1>1 DEF Intact
<1>3. mem[s][2] = s - 63 + 1
  BY <1>1, <1>2
<1>4. InPlace(s)
  BY <1>3, Places DEF InPlace
<1> QED
  BY <1>4 DEF s

\* A byte of the FAT in memory.
LEMMA FatBytes ==
    ASSUME Intact, NEW j \in Nat, j < 4608, NEW p, j \div 3 = p
    PROVE  /\ j % 3 = 0 => FatByte(j) = Successor(2 * p) % 256
           /\ j % 3 = 1 => FatByte(j) = Successor(2 * p) \div 256
                                          + 16 * (Successor(2 * p + 1) % 16)
           /\ j % 3 = 2 => FatByte(j) = Successor(2 * p + 1) \div 16
<1>1. InPlace(SlotOf(FAT12_LOCATION + j))
  BY FatInPlace
<1>2. FatByte(j) = CASE j % 3 = 0 -> Successor(2 * p) % 256
                     [] j % 3 = 1 -> Successor(2 * p) \div 256
                                       + 16 * (Successor(2 * p + 1) % 16)
                     [] j % 3 = 2 -> Successor(2 * p + 1) \div 16
  BY <1>1 DEF FatByte
<1> QED
  BY <1>2

\* get_sector_value_op takes the right 12 bits of the right bytes.
LEMMA NextInFat ==
    ASSUME disk \in Disks, Intact, NEW n \in Clusters
    PROVE  get_sector_value_op(n) = Successor(n)
<1> DEFINE p == n \div 2
           i == n + n \div 2
           a == Successor(2 * p)
           b == Successor(2 * p + 1)
           Even == (a % 256) + 256 * (a \div 256 + 16 * (b % 16))
           Odd  == a \div 256 + 16 * (b % 16) + 256 * (b \div 16)
<1>1. n \in Nat /\ n <= 2847 /\ p \in Nat /\ (n % 2 = 0 => n = 2 * p)
      /\ (n % 2 # 0 => n = 2 * p + 1 /\ n % 2 = 1)
  BY ClusterBounds
<1>2. a \in Nat /\ a < 4096 /\ b \in Nat /\ b < 4096
  BY EntryIs12Bits
<1>3. Even % 4096 = a /\ Odd \div 16 = b
  <2> HIDE DEF a, b
  <2> QED
    BY <1>2, Unpacks
<1>4. get_sector_value_op(n) = Take12(n, FatByte(i) + 256 * FatByte(i + 1))
  BY DEF get_sector_value_op
<1>5. i = n + p
  OBVIOUS
<1> HIDE DEF p, i
<1>6. CASE n % 2 = 0
  <2>1. /\ i = 3 * p /\ i \in Nat /\ i < 4608 /\ i % 3 = 0 /\ i \div 3 = p
        /\ i + 1 \in Nat /\ i + 1 < 4608 /\ (i + 1) % 3 = 1 /\ (i + 1) \div 3 = p
    BY <1>1, <1>5, <1>6
  <2>2. FatByte(i) = a % 256
    BY <2>1, FatBytes
  <2>3. FatByte(i + 1) = a \div 256 + 16 * (b % 16)
    BY <2>1, FatBytes
  <2>4. FatByte(i) + 256 * FatByte(i + 1) = Even
    BY <2>2, <2>3
  <2> HIDE DEF Even, a
  <2>5. get_sector_value_op(n) = a
    BY <1>3, <1>4, <1>6, <2>4 DEF Take12
  <2> QED
    BY <1>1, <1>6, <2>5 DEF a
<1>7. CASE n % 2 # 0
  <2>1. /\ i = 3 * p + 1 /\ i \in Nat /\ i < 4608 /\ i % 3 = 1 /\ i \div 3 = p
        /\ i + 1 \in Nat /\ i + 1 < 4608 /\ (i + 1) % 3 = 2 /\ (i + 1) \div 3 = p
    BY <1>1, <1>5, <1>7
  <2>2. FatByte(i) = a \div 256 + 16 * (b % 16)
    BY <2>1, FatBytes
  <2>3. FatByte(i + 1) = b \div 16
    BY <2>1, FatBytes
  <2>4. FatByte(i) + 256 * FatByte(i + 1) = Odd
    BY <2>2, <2>3
  <2> HIDE DEF Odd, b
  <2>5. get_sector_value_op(n) = b
    BY <1>3, <1>4, <1>7, <2>4 DEF Take12
  <2> QED
    BY <1>1, <1>7, <2>5 DEF b
<1> QED
  BY <1>6, <1>7

-----------------------------------------------------------------------------
(* read_disk.                                                              *)

\* The file that stage loads, and the slots it goes to.
LEMMA FileOfStage ==
    ASSUME TypeOK, FloppyBoot
    PROVE  /\ ChainOf(Wanted) \in {disk.boot2, disk.kernel}
           /\ ChainOf(Wanted) \in Seq(Clusters) /\ Len(ChainOf(Wanted)) \in Nat \ {0}
           /\ Location = 512 * First /\ First \in {56, 120}
           /\ First = 56 => Len(ChainOf(Wanted)) <= 6 /\ ChainOf(Wanted) = disk.boot2
                            /\ stage = "boot_first"
           /\ First = 120 => stage = "boot_second" /\ ChainOf(Wanted) = disk.kernel
           /\ Len(ChainOf(Wanted)) <= 1158
<1>1. disk \in Disks /\ Len(disk.boot2) <= 6 /\ Len(disk.kernel) <= 1158
  BY DEF TypeOK, FloppyBoot
<1>2. CASE stage = "boot_first"
  <2>1. ChainOf(Wanted) = disk.boot2 /\ First = 56 /\ Location = 28672
    BY <1>2 DEF Wanted, ChainOf, First, Location, BOOT2_LOCATION
  <2> QED
    BY <1>1, <1>2, <2>1, Files
<1>3. CASE stage = "boot_second"
  <2>1. ChainOf(Wanted) = disk.kernel /\ First = 120 /\ Location = 61440
    BY <1>3 DEF Wanted, ChainOf, First, Location, KERNEL_LOCATION
  <2> QED
    BY <1>1, <1>3, <2>1, Files
<1> QED
  BY <1>2, <1>3 DEF TypeOK

\* The sector asked for is read to the slot at es:bx, and no other changes.
LEMMA SectorRead ==
    ASSUME TypeOK, NEW next, ReadSector(next), NEW t \in Nat, SlotOf(Linear) = t,
           ax \in Nat, ax < 2880
    PROVE  /\ t < Slots /\ DOMAIN mem' = 0 .. Slots - 1
           /\ mem'[t] = <<0, ax>>
           /\ \A s \in Nat : s < Slots /\ s # t => mem'[s] = mem[s]
<1>1. Slots \in Nat
  BY BootAssumption
<1>2. SectorAt(lbatochs(ax)) = ax
  BY ChsIsLba
<1>3. t < Slots /\ mem' = [mem EXCEPT ![t] = <<0, ax>>] /\ DOMAIN mem = 0 .. Slots - 1
  BY <1>2 DEF ReadSector, TypeOK
<1>4. t \in DOMAIN mem /\ \A s \in Nat : s < Slots => s \in DOMAIN mem
  BY <1>1, <1>3
<1> QED
  BY <1>3, <1>4

LEMMA FatKeeps ==
    ASSUME IInv, FloppyBoot, read_fat
    PROVE  IInv'
<1>1. TypeOK /\ ReadingFat /\ at = "fat" /\ ReadSector("search")
  BY DEF IInv, read_fat
<1>2. /\ cx \in Nat /\ 1 <= cx /\ cx <= 32 /\ ax = 33 - cx /\ es = 0
      /\ bx = 32256 + 512 * (32 - cx) /\ stage = "boot_first"
  BY <1>1 DEF ReadingFat
<1> DEFINE t == 95 - cx
<1>3. SlotOf(Linear) = t /\ t \in Nat
  <2>1. Linear = 512 * t
    BY <1>2 DEF Linear
  <2>2. t \in Nat
    BY <1>2
  <2> HIDE DEF t
  <2>3. (512 * t) \div 512 = t
    BY <2>2
  <2> QED
    BY <2>1, <2>2, <2>3 DEF SlotOf, BytesPerSector
<1>4. /\ t < Slots /\ DOMAIN mem' = 0 .. Slots - 1 /\ mem'[t] = <<0, ax>>
      /\ \A s \in Nat : s < Slots /\ s # t => mem'[s] = mem[s]
  <2>1. ax \in Nat /\ ax < 2880
    BY <1>2
  <2> HIDE DEF t
  <2> QED
    BY <1>1, <1>3, <2>1, SectorRead
<1>5. /\ cx' = cx - 1 /\ ax' = ax + 1 /\ bx' = bx + 512 /\ es' = es
      /\ UNCHANGED <<disk, dl, BOOT_DISK, stage>>
      /\ at' = IF cx - 1 = 0 THEN "search" ELSE "fat"
  <2> DEFINE W == 65536
  <2>1. /\ cx' = (cx - 1) % W /\ ax' = (ax + 1) % W /\ bx' = (bx + 512) % W
        /\ es' = es /\ UNCHANGED <<disk, dl, BOOT_DISK, stage>>
        /\ at' = IF cx' = 0 THEN "search" ELSE "fat"
    BY <1>1 DEF ReadSector, BytesPerSector
  <2>2. cx - 1 \in Nat /\ cx - 1 < W /\ ax + 1 \in Nat /\ ax + 1 < W
        /\ bx + 512 \in Nat /\ bx + 512 < W
    BY <1>2
  <2>3. \A n \in Nat : n < W => n % W = n
    OBVIOUS
  <2>4. (cx - 1) % W = cx - 1 /\ (ax + 1) % W = ax + 1
    BY <2>2, <2>3
  <2>5. (bx + 512) % W = bx + 512
    BY <2>2, <2>3
  <2> HIDE DEF W
  <2> QED
    BY <2>1, <2>4, <2>5
<1>6. Slots \in Nat
  BY BootAssumption
<1>7. \A s \in Nat : 63 <= s /\ s <= t => mem'[s] = <<0, s - 62>>
  <2> SUFFICES ASSUME NEW s \in Nat, 63 <= s, s <= t
               PROVE  mem'[s] = <<0, s - 62>>
    OBVIOUS
  <2>1. CASE s = t
    BY <1>2, <1>4, <2>1
  <2>2. CASE s # t
    <3>1. s <= 94 - cx /\ s < Slots
      BY <1>2, <1>4, <1>6, <2>2
    <3>2. mem[s] = <<0, s - 62>>
      BY <1>1, <3>1 DEF ReadingFat
    <3> QED
      BY <1>4, <2>2, <3>1, <3>2
  <2> QED
    BY <2>1, <2>2
<1>8. \A s \in Nat : s <= 62 /\ s < Slots => mem'[s] = Nothing
  <2> SUFFICES ASSUME NEW s \in Nat, s <= 62, s < Slots
               PROVE  mem'[s] = Nothing
    OBVIOUS
  <2>1. s # t /\ mem[s] = Nothing
    BY <1>1, <1>2 DEF ReadingFat
  <2> QED
    BY <1>4, <2>1
<1>9. TypeOK'
  BY <1>1, <1>4, <1>5 DEF TypeOK
<1>10. at' = "fat" => ReadingFat'
  <2> SUFFICES ASSUME at' = "fat" PROVE ReadingFat'
    OBVIOUS
  <2>1. cx' \in Nat /\ 1 <= cx' /\ cx' <= 32 /\ ax' = 33 - cx' /\ es' = 0
        /\ bx' = 32256 + 512 * (32 - cx') /\ 94 - cx' = t
    BY <1>2, <1>5
  <2> QED
    BY <1>2, <1>4, <1>5, <1>7, <1>8, <2>1 DEF ReadingFat
<1>11. at' # "fat" => Intact'
  <2> SUFFICES ASSUME at' # "fat" PROVE Intact'
    OBVIOUS
  <2>1. t = 94 /\ Slots > 94
    BY <1>2, <1>4, <1>5, <1>6
  <2>2. mem'[62] = Nothing /\ mem'[61] = Nothing /\ \A s \in Nat : s <= 3 => mem'[s] = Nothing
    BY <1>6, <1>8, <2>1
  <2> QED
    BY <1>7, <2>1, <2>2 DEF Intact
<1>12. LoadingFile' /\ LoadedFiles'
  BY <1>2, <1>5 DEF LoadingFile, LoadedFiles
<1> QED
  BY <1>9, <1>10, <1>11, <1>12 DEF IInv

-----------------------------------------------------------------------------
(* load_file.                                                              *)

\* A step that leaves memory and the disk alone keeps what they say.
LEMMA SameMemory ==
    ASSUME UNCHANGED <<disk, mem>>
    PROVE  /\ Intact <=> Intact'
           /\ \A c, s, n : Loaded(c, s, n) <=> Loaded(c, s, n)'
  BY DEF Intact, Loaded

\* The file being loaded only changes with the stage.
LEMMA SameFile ==
    ASSUME UNCHANGED <<disk, stage>>
    PROVE  /\ ChainOf(Wanted)' = ChainOf(Wanted)
           /\ First' = First /\ Location' = Location
  BY DEF ChainOf, Wanted, First, Location

\* The steps of the program that only compute.
LEMMA ErrorKeeps ==
    ASSUME IInv, read_error
    PROVE  IInv'
<1>1. /\ at' = "halted" /\ UNCHANGED <<disk, dl, BOOT_DISK, stage, mem>>
  BY DEF read_error
<1> QED
  BY <1>1, SameMemory DEF IInv, TypeOK, LoadingFile, LoadedFiles

LEMMA SearchKeeps ==
    ASSUME IInv, FloppyBoot, search_file
    PROVE  IInv'
<1>1. at = "search" /\ UNCHANGED <<disk, dl, BOOT_DISK, stage, mem>>
  BY DEF search_file
<1>2. TypeOK' /\ Intact' /\ (stage' = "boot_second" =>
                              Loaded(disk.boot2, 56, Len(disk.boot2))')
      /\ at' \in {"search", "load"}
  BY <1>1, SameMemory DEF IInv, TypeOK, LoadedFiles, search_file
<1>3. CASE at' = "search"
  BY <1>2, <1>3 DEF IInv, LoadingFile, LoadedFiles
<1>4. CASE at' = "load"
  <2>1. /\ cluster' = ChainOf(Wanted)[1] /\ count' = 0 /\ base' = Location /\ es' = 0
    BY <1>1, <1>4 DEF search_file
  <2>2. /\ First \in {56, 120} /\ Len(ChainOf(Wanted)) \in Nat \ {0}
    BY FileOfStage DEF IInv
  <2>3. /\ ChainOf(Wanted)' = ChainOf(Wanted) /\ First' = First /\ Location' = Location
    BY <1>1, SameFile
  <2>4. es' = 4096 * ((Slot' - 1) \div 128)
    BY <2>1, <2>2, <2>3 DEF Slot
  <2>5. Loaded(ChainOf(Wanted), First, count)'
    BY <2>1 DEF Loaded
  <2>6. LoadingFile'
    BY <1>4, <2>1, <2>2, <2>3, <2>4, <2>5 DEF LoadingFile
  <2> QED
    BY <1>2, <1>4, <2>6 DEF IInv, LoadedFiles
<1> QED
  BY <1>2, <1>3, <1>4

\* Slot u in segments of 128 slots, as the code computes them.
LEMMA Segments ==
    ASSUME NEW u \in Nat, u >= 56, u < 1278, NEW q, q = u \div 128, NEW r, r = u % 128
    PROVE  /\ (512 * u) % 65536 = 512 * r
           /\ r \in Nat /\ q \in Nat /\ q <= 9 /\ u = 128 * q + r
           /\ r = 0 => (u - 1) \div 128 = q - 1
           /\ r # 0 => (u - 1) \div 128 = q
<1>1. q \in Nat /\ q <= 9 /\ r \in Nat /\ r < 128 /\ u = 128 * q + r
  OBVIOUS
<1>2. (512 * u) % 65536 = 512 * r
  <2>1. 512 * u = 65536 * q + 512 * r /\ 512 * r \in Nat /\ 512 * r < 65536
    BY <1>1
  <2>2. (65536 * q + 512 * r) % 65536 = 512 * r
    BY <1>1
  <2> QED
    BY <2>1, <2>2
<1>3. r = 0 => (u - 1) \div 128 = q - 1
  BY <1>1
<1>4. r # 0 => (u - 1) \div 128 = q
  BY <1>1
<1> QED
  BY <1>1, <1>2, <1>3, <1>4

\* What load_file's places have in common.
LEMMA Loading ==
    ASSUME IInv, FloppyBoot, at \in {"load", "read", "chain"}
    PROVE  /\ base = 512 * First /\ First \in {56, 120}
           /\ count \in Nat /\ count < Len(ChainOf(Wanted))
           /\ Slot = First + count /\ Slot \in Nat /\ Slot >= First /\ Slot < 1278
           /\ First = 56 => Slot <= 61
           /\ cluster = ChainOf(Wanted)[count + 1] /\ cluster \in Clusters
<1>1. /\ base = Location /\ count \in Nat /\ count < Len(ChainOf(Wanted))
      /\ cluster = ChainOf(Wanted)[count + 1] /\ TypeOK
  BY DEF IInv, LoadingFile
<1>2. /\ ChainOf(Wanted) \in Seq(Clusters) /\ Len(ChainOf(Wanted)) \in Nat
      /\ Len(ChainOf(Wanted)) <= 1158
      /\ Location = 512 * First /\ First \in {56, 120}
      /\ First = 56 => Len(ChainOf(Wanted)) <= 6
  BY <1>1, FileOfStage
<1>3. cluster \in Clusters
  <2> DEFINE c == ChainOf(Wanted)
  <2>1. count + 1 \in 1 .. Len(c) /\ c \in Seq(Clusters)
    BY <1>1, <1>2
  <2> HIDE DEF c
  <2>2. c[count + 1] \in Clusters
    BY <2>1, ElementOfSeq
  <2> QED
    BY <1>1, <2>2 DEF c
<1> QED
  BY <1>1, <1>2, <1>3 DEF Slot

LEMMA NextSectorKeeps ==
    ASSUME IInv, FloppyBoot, load_next_sector
    PROVE  IInv'
<1>1. /\ at = "load" /\ at' = "read" /\ cx' = 1 /\ ax' = LbaOf(cluster)
      /\ UNCHANGED <<disk, dl, BOOT_DISK, stage, mem, entry, cluster, count, base>>
      /\ bx' = (count * 512 + base) % 65536
      /\ es' = NextSegment((count * 512 + base) % 65536)
  BY DEF load_next_sector, frame
<1>2. /\ base = 512 * First /\ First \in {56, 120} /\ count \in Nat
      /\ Slot = First + count /\ Slot \in Nat /\ Slot >= 56 /\ Slot < 1278
      /\ cluster \in Clusters
  BY <1>1, Loading
<1>3. TypeOK' /\ Intact' /\ LoadedFiles'
  BY <1>1, SameMemory DEF IInv, TypeOK, LoadedFiles
<1>4. /\ ChainOf(Wanted)' = ChainOf(Wanted) /\ First' = First /\ Location' = Location
      /\ Slot' = Slot
  BY <1>1, SameFile DEF Slot
<1>5. bx' = 512 * (Slot % 128)
  <2>1. count * 512 + base = 512 * Slot
    BY <1>2
  <2>2. (512 * Slot) % 65536 = 512 * (Slot % 128)
    BY <1>2, Segments
  <2> QED
    BY <1>1, <2>1, <2>2
<1>6. es' = 4096 * (Slot \div 128)
  <2>1. es' = IF bx' = 0 THEN (es + 4096) % 65536 ELSE es
    BY <1>1 DEF NextSegment
  <2>2. es = 4096 * ((Slot - 1) \div 128)
    BY <1>1 DEF IInv, LoadingFile
  <2> DEFINE q == Slot \div 128
             r == Slot % 128
             p == (Slot - 1) \div 128
  <2>3. r \in Nat /\ q \in Nat /\ q <= 9 /\ (r = 0 => p = q - 1) /\ (r # 0 => p = q)
    BY <1>2, Segments
  <2>4. bx' = 512 * r /\ es = 4096 * p
    BY <1>5, <2>2
  <2> HIDE DEF p, q, r
  <2>5. CASE r = 0
    <3>1. es + 4096 = 4096 * q /\ 4096 * q \in Nat /\ 4096 * q < 65536
      BY <2>3, <2>4, <2>5
    <3>2. (4096 * q) % 65536 = 4096 * q
      BY <3>1
    <3> QED
      BY <2>1, <2>4, <2>5, <3>1, <3>2 DEF q
  <2>6. CASE r # 0
    BY <2>1, <2>3, <2>4, <2>6 DEF q
  <2> QED
    BY <2>5, <2>6
<1>7. ax' = cluster + 31
  BY <1>1, <1>2, ClusterBounds DEF LbaOf, FAT12_SECTOR_COUNT, BOOT_SECTOR_COUNT
<1>8. Loaded(ChainOf(Wanted), First, count)'
  <2>1. Loaded(ChainOf(Wanted), First, count)
    BY <1>1 DEF IInv, LoadingFile
  <2> QED
    BY <1>1, <1>4, <2>1 DEF Loaded
<1>9. LoadingFile'
  <2>1. /\ base = Location /\ count < Len(ChainOf(Wanted))
        /\ cluster = ChainOf(Wanted)[count + 1]
    BY <1>1 DEF IInv, LoadingFile
  <2> HIDE DEF FloppyBoot
  <2> QED
    BY <1>1, <1>2, <1>4, <1>5, <1>6, <1>7, <1>8, <2>1 DEF LoadingFile
<1> QED
  BY <1>1, <1>3, <1>9 DEF IInv

\* The sector read goes after the ones before it and over nothing else.
LEMMA ReadKeeps ==
    ASSUME IInv, FloppyBoot, read_file
    PROVE  IInv'
<1>1. /\ at = "read" /\ ReadSector("chain") /\ TypeOK /\ Intact /\ Slots \in Nat
  BY BootAssumption DEF IInv, read_file
<1>2. /\ First \in {56, 120} /\ count \in Nat /\ count < Len(ChainOf(Wanted))
      /\ Slot = First + count /\ Slot \in Nat /\ Slot >= First /\ Slot < 1278
      /\ First = 56 => Slot <= 61
      /\ cluster = ChainOf(Wanted)[count + 1] /\ cluster \in Clusters
  BY <1>1, Loading
<1>3. /\ es = 4096 * (Slot \div 128) /\ bx = 512 * (Slot % 128)
      /\ ax = cluster + 31 /\ cx = 1 /\ base = Location
      /\ Loaded(ChainOf(Wanted), First, count)
  BY <1>1 DEF IInv, LoadingFile
<1>4. SlotOf(Linear) = Slot
  <2> DEFINE q == Slot \div 128
             r == Slot % 128
  <2>1. r \in Nat /\ q \in Nat /\ Slot = 128 * q + r
    BY <1>2, Segments
  <2>2. es = 4096 * q /\ bx = 512 * r
    BY <1>3
  <2> HIDE DEF q, r
  <2>3. Linear = 512 * Slot
    BY <2>1, <2>2 DEF Linear
  <2>4. (512 * Slot) \div 512 = Slot
    BY <1>2
  <2> QED
    BY <2>3, <2>4 DEF SlotOf, BytesPerSector
<1>5. ax \in Nat /\ ax < 2880
  BY <1>2, <1>3, ClusterBounds
<1>6. /\ Slot < Slots /\ DOMAIN mem' = 0 .. Slots - 1 /\ mem'[Slot] = <<0, cluster + 31>>
      /\ \A s \in Nat : s < Slots /\ s # Slot => mem'[s] = mem[s]
  BY <1>1, <1>2, <1>3, <1>4, <1>5, SectorRead
<1>7. /\ at' = "chain" /\ es' = es
      /\ UNCHANGED <<disk, dl, BOOT_DISK, stage, cluster, count, base>>
  <2>1. /\ cx' = (cx - 1) % 65536 /\ at' = IF cx' = 0 THEN "chain" ELSE at
        /\ es' = es /\ UNCHANGED <<disk, dl, BOOT_DISK, stage, cluster, count, base>>
    BY <1>1 DEF ReadSector, frame
  <2>2. cx' = 0
    BY <1>3, <2>1
  <2> QED
    BY <2>1, <2>2
<1>8. /\ ChainOf(Wanted)' = ChainOf(Wanted) /\ First' = First /\ Location' = Location
      /\ Slot' = Slot
  BY <1>7, SameFile DEF Slot
<1>9. TypeOK'
  BY <1>1, <1>6, <1>7 DEF TypeOK
<1>10. Intact'
  <2>1. /\ \A s \in Nat : 63 <= s /\ s <= 94 => s # Slot /\ s < Slots
        /\ \A s \in Nat : s <= 3 => s # Slot /\ s < Slots
        /\ 62 # Slot /\ 62 < Slots /\ 61 < Slots
    BY <1>1, <1>2 DEF Intact
  <2>2. Len(disk.boot2) <= 5 => 61 # Slot
    <3>1. /\ First = 56 => ChainOf(Wanted) = disk.boot2
          /\ Len(ChainOf(Wanted)) \in Nat
      BY <1>1, FileOfStage
    <3> QED
      BY <1>2, <3>1
  <2>3. \A s \in Nat : 63 <= s /\ s <= 94 => mem'[s] = <<0, s - 62>>
    BY <1>1, <1>6, <2>1 DEF Intact
  <2>4. \A s \in Nat : s <= 3 => mem'[s] = Nothing
    BY <1>1, <1>6, <2>1 DEF Intact
  <2>5. mem'[62] = Nothing
    BY <1>1, <1>6, <2>1 DEF Intact
  <2>6. Len(disk.boot2) <= 5 => mem'[61] = Nothing
    BY <1>1, <1>6, <2>1, <2>2 DEF Intact
  <2> QED
    BY <1>1, <1>7, <2>3, <2>4, <2>5, <2>6 DEF Intact
<1>11. Loaded(ChainOf(Wanted), First, count + 1)'
  <2> SUFFICES ASSUME NEW k \in 1 .. count + 1
               PROVE  /\ First + k - 1 < Slots
                      /\ mem'[First + k - 1] = <<0, ChainOf(Wanted)[k] + 31>>
    BY <1>7, <1>8 DEF Loaded
  <2>1. CASE k = count + 1
    <3>1. First + k - 1 = Slot /\ ChainOf(Wanted)[k] = cluster
      BY <1>2, <2>1
    <3> QED
      BY <1>6, <3>1
  <2>2. CASE k # count + 1
    <3>1. k \in 1 .. count /\ First + k - 1 \in Nat /\ First + k - 1 # Slot
      BY <1>2, <2>2
    <3>2. First + k - 1 < Slots /\ mem[First + k - 1] = <<0, ChainOf(Wanted)[k] + 31>>
      BY <1>3, <3>1 DEF Loaded
    <3> QED
      BY <1>6, <3>1, <3>2
  <2> QED
    BY <2>1, <2>2
<1>12. LoadedFiles'
  <2> SUFFICES ASSUME stage = "boot_second", NEW k \in 1 .. Len(disk.boot2)
               PROVE  56 + k - 1 < Slots /\ mem'[56 + k - 1] = <<0, disk.boot2[k] + 31>>
    BY <1>7 DEF LoadedFiles, Loaded
  <2>1. 56 + k - 1 < Slots /\ mem[56 + k - 1] = <<0, disk.boot2[k] + 31>>
    BY DEF IInv, LoadedFiles, Loaded
  <2>2. First = 120
    BY DEF First
  <2>3. Len(disk.boot2) \in Nat /\ Len(disk.boot2) <= 6
    BY <1>1, Files DEF TypeOK, FloppyBoot
  <2>4. 56 + k - 1 \in Nat /\ 56 + k - 1 # Slot
    BY <1>2, <2>2, <2>3
  <2> QED
    BY <1>6, <2>1, <2>4
<1>13. LoadingFile'
  BY <1>2, <1>3, <1>7, <1>8, <1>11 DEF LoadingFile
<1> QED
  BY <1>7, <1>9, <1>10, <1>12, <1>13 DEF IInv

\* The FAT in memory is the disk's, so that the chain is followed to its end.
LEMMA NextClusterKeeps ==
    ASSUME IInv, FloppyBoot, next_cluster
    PROVE  IInv'
<1> DEFINE c == ChainOf(Wanted)
<1>1. /\ at = "chain" /\ count' = count + 1 /\ cluster' = get_sector_value_op(cluster)
      /\ UNCHANGED <<disk, dl, es, base, mem>> /\ TypeOK /\ Intact
  BY DEF IInv, next_cluster, regs
<1>2. /\ First \in {56, 120} /\ count \in Nat /\ count < Len(c)
      /\ cluster = c[count + 1] /\ cluster \in Clusters
      /\ Slot = First + count
  BY <1>1, Loading
<1>3. /\ es = 4096 * (Slot \div 128) /\ base = Location /\ Loaded(c, First, count + 1)
  BY <1>1 DEF IInv, LoadingFile
<1>4. /\ c \in {disk.boot2, disk.kernel} /\ c \in Seq(Clusters) /\ Len(c) \in Nat
      /\ First = 56 => c = disk.boot2 /\ stage = "boot_first"
      /\ First = 120 => c = disk.kernel /\ stage = "boot_second"
  BY <1>1, FileOfStage
<1> HIDE DEF c
<1>5. cluster' = IF count + 1 = Len(c) THEN 4095 ELSE c[count + 2]
  <2>1. cluster' = Successor(cluster)
    BY <1>1, <1>2, NextInFat DEF TypeOK
  <2>2. count + 1 \in 1 .. Len(c) /\ (count + 1) + 1 = count + 2
    BY <1>2, <1>4
  <2>3. Successor(c[count + 1]) = IF count + 1 = Len(c) THEN 4095 ELSE c[(count + 1) + 1]
    BY <1>1, <1>4, <2>2, ChainEntry DEF TypeOK
  <2> QED
    BY <1>2, <2>1, <2>2, <2>3
<1>6. Intact' /\ DOMAIN mem' = 0 .. Slots - 1
  BY <1>1, SameMemory DEF TypeOK
<1>7. CASE count + 1 # Len(c)
  <2>1. cluster' = c[count + 2] /\ count + 2 \in 1 .. Len(c)
    BY <1>2, <1>4, <1>5, <1>7
  <2>2. cluster' \in Nat /\ cluster' < 4080
    <3>1. cluster' \in Clusters
      BY <1>4, <2>1, ElementOfSeq
    <3> QED
      BY <3>1, ClusterBounds
  <2>3. at' = "load" /\ UNCHANGED <<stage, BOOT_DISK>>
    BY <1>1, <2>2 DEF next_cluster, FAT_END_OF_CHAIN
  <2>4. /\ ChainOf(Wanted)' = c /\ First' = First /\ Location' = Location
    BY <1>1, <2>3, SameFile DEF c
  <2>5. Slot' - 1 = Slot
    BY <1>1, <1>2, <2>4 DEF Slot
  <2>6. Loaded(ChainOf(Wanted), First, count)'
    BY <1>1, <1>3, <2>4 DEF Loaded
  <2>7. /\ base' = Location' /\ count' \in Nat /\ count' < Len(c)
        /\ cluster' = c[count' + 1]
    BY <1>1, <1>2, <1>3, <1>4, <1>7, <2>1, <2>4
  <2>8. LoadingFile'
    BY <1>1, <1>3, <2>3, <2>4, <2>5, <2>6, <2>7 DEF LoadingFile
  <2>9. LoadedFiles'
    BY <1>1, <2>3, SameMemory DEF IInv, LoadedFiles
  <2>10. TypeOK'
    BY <1>1, <2>3 DEF TypeOK
  <2> QED
    BY <1>6, <2>3, <2>8, <2>9, <2>10 DEF IInv
<1>8. CASE count + 1 = Len(c)
  <2>1. ~(cluster' < 4080) /\ Loaded(c, First, Len(c))
    BY <1>3, <1>5, <1>8
  <2>2. CASE First = 56
    <3>1. stage' = "boot_second" /\ at' = "search" /\ BOOT_DISK' = 0
      BY <1>4, <2>1, <2>2 DEF next_cluster, FAT_END_OF_CHAIN
    <3>2. Loaded(disk.boot2, 56, Len(disk.boot2))'
      BY <1>1, <1>4, <2>1, <2>2 DEF Loaded
    <3>3. TypeOK'
      BY <1>1, <3>1 DEF TypeOK
    <3> QED
      BY <1>6, <3>1, <3>2, <3>3 DEF IInv, LoadingFile, LoadedFiles
  <2>3. CASE First = 120
    <3>1. at' = "kernel" /\ UNCHANGED <<stage, BOOT_DISK>>
      BY <1>4, <2>1, <2>3 DEF next_cluster, FAT_END_OF_CHAIN
    <3>2. Loaded(disk.kernel, 120, Len(disk.kernel))'
      BY <1>1, <1>4, <2>1, <2>3 DEF Loaded
    <3>3. Loaded(disk.boot2, 56, Len(disk.boot2))'
      BY <1>1, <1>4, <2>3, SameMemory DEF IInv, LoadedFiles, Loaded
    <3>4. TypeOK'
      BY <1>1, <3>1 DEF TypeOK
    <3> QED
      BY <1>6, <3>1, <3>2, <3>3, <3>4 DEF IInv, LoadingFile, LoadedFiles
  <2> QED
    BY <1>2, <2>2, <2>3
<1> QED
  BY <1>7, <1>8

-----------------------------------------------------------------------------
(* The theorems.                                                           *)

LEMMA InitInv ==
    ASSUME Init, FloppyBoot
    PROVE  IInv
<1>1. /\ dl = 0 /\ cx = 32 /\ ax = 1 /\ es = 0 /\ bx = 32256
      /\ BOOT_DISK = 0 /\ stage = "boot_first" /\ at = "fat" /\ disk \in Disks
  BY DEF Init, FloppyBoot, FAT12_LOCATION, FAT12_SECTOR_COUNT
<1>2. mem = [s \in 0 .. Slots - 1 |-> Nothing] /\ Slots \in Nat
  BY BootAssumption DEF Init
<1>3. \A s \in Nat : s < Slots => mem[s] = Nothing
  BY <1>2
<1>4. ReadingFat
  BY <1>1, <1>3 DEF ReadingFat
<1>5. TypeOK
  BY <1>1, <1>2 DEF TypeOK
<1> QED
  BY <1>1, <1>4, <1>5 DEF IInv, LoadingFile, LoadedFiles

LEMMA StepKeeps ==
    ASSUME IInv, FloppyBoot, [Next]_vars
    PROVE  IInv'
<1>1. CASE UNCHANGED vars
  <2>1. /\ UNCHANGED <<disk, dl, BOOT_DISK, stage, at, ax, bx, cx, es, mem>>
        /\ UNCHANGED <<cluster, count, base>>
    BY <1>1 DEF vars, regs, frame
  <2>2. TypeOK' /\ (at' = "fat" => ReadingFat') /\ (at' \notin {"fat", "halted"} => Intact')
    BY <2>1, SameMemory DEF IInv, TypeOK, ReadingFat
  <2>3. /\ ChainOf(Wanted)' = ChainOf(Wanted) /\ First' = First /\ Location' = Location
        /\ Slot' = Slot
    BY <2>1, SameFile DEF Slot
  <2>4. LoadedFiles'
    BY <2>1, SameMemory DEF IInv, LoadedFiles
  <2>5. /\ Loaded(ChainOf(Wanted), First, count)' <=> Loaded(ChainOf(Wanted), First, count)
        /\ Loaded(ChainOf(Wanted), First, count + 1)'
              <=> Loaded(ChainOf(Wanted), First, count + 1)
    BY <2>1, <2>3 DEF Loaded
  <2>6. LoadingFile'
    BY <2>1, <2>3, <2>5 DEF IInv, LoadingFile
  <2> QED
    BY <2>2, <2>4, <2>6 DEF IInv
<1> QED
  BY <1>1, FatKeeps, SearchKeeps, NextSectorKeeps, ReadKeeps, NextClusterKeeps, ErrorKeeps
     DEF Next, Load

LEMMA Invariant ==
    ASSUME FloppyBoot
    PROVE  Spec => []IInv
<1>1. Init => IInv
  BY InitInv
<1>2. IInv /\ [Next]_vars => IInv'
  BY StepKeeps
<1> QED
  BY <1>1, <1>2, PTL DEF Spec

\* Whatever the clusters of the files, wherever they lie, and whatever reads
\* fail: BOOT2 is whole and in order when boot_first jumps to it, and stays so;
\* the kernel is when boot_second jumps to it, across the segments of memory.
THEOREM BootLoadsFiles ==
    ASSUME FloppyBoot
    PROVE  Spec => []FilesLoaded
<1>1. IInv => FilesLoaded
  <2> SUFFICES ASSUME IInv PROVE FilesLoaded
    OBVIOUS
  <2>1. dl = 0 /\ LoadedFiles
    BY DEF IInv, TypeOK
  <2>2. stage = "boot_second" => InMemory(disk.boot2, BOOT2_LOCATION)
    BY <2>1, Places DEF LoadedFiles, Loaded, InMemory
  <2>3. at = "kernel" => InMemory(disk.kernel, KERNEL_LOCATION)
    BY <2>1, Places DEF LoadedFiles, Loaded, InMemory
  <2> QED
    BY <2>2, <2>3 DEF FilesLoaded
<1> QED
  BY <1>1, Invariant, PTL

\* Loading a file leaves the FAT and the directory, the boot sector and the
\* interrupt vectors as they were and, if BOOT2 has at most five sectors, the
\* sector below the boot sector, where the stack is.
THEOREM LoaderStaysIntact ==
    ASSUME FloppyBoot
    PROVE  Spec => []LoaderIntact
<1>1. IInv => LoaderIntact
  <2> SUFFICES ASSUME IInv, at # "fat", at # "halted"
               PROVE  /\ \A s \in 63 .. 94 : mem[s] = <<dl, s - 62>>
                      /\ mem[62] = Nothing
                      /\ Len(disk.boot2) <= 5 => mem[61] = Nothing
                      /\ \A s \in 0 .. 3 : mem[s] = Nothing
    BY Places DEF LoaderIntact
  <2>1. Intact /\ dl = 0
    BY DEF IInv, TypeOK
  <2>2. \A s \in 63 .. 94 : mem[s] = <<dl, s - 62>>
    <3> SUFFICES ASSUME NEW s \in 63 .. 94 PROVE mem[s] = <<0, s - 62>>
      BY <2>1
    <3>1. s \in Nat /\ 63 <= s /\ s <= 94
      OBVIOUS
    <3> QED
      BY <2>1, <3>1 DEF Intact
  <2>3. \A s \in 0 .. 3 : mem[s] = Nothing
    BY <2>1 DEF Intact
  <2> QED
    BY <2>1, <2>2, <2>3 DEF Intact
<1> QED
  BY <1>1, Invariant, PTL

=============================================================================
