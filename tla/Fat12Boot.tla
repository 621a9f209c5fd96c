----------------------------- MODULE Fat12Boot ------------------------------
(***************************************************************************)
(* Asm/boot_first.asm, Asm/boot_second.asm and Asm/disk_read.asm: the boot *)
(* sector loads the FAT and the root directory, finds BOOT2.BIN, loads it  *)
(* along its cluster chain and jumps to it; BOOT2 does the same for        *)
(* KERNEL.BIN.                                                             *)
(*                                                                         *)
(* Memory is modelled in slots of 512 bytes: what matters of a slot is     *)
(* which sector of which disk was read into it.  The disk, as mkfs.fat and *)
(* mcopy write it, and the BIOS call int 0x13 are external.                *)
(***************************************************************************)
EXTENDS Integers, Sequences

CONSTANTS Disks,       \* images: [boot2, kernel: chains of clusters, dir: names]
          BootDrives,  \* drives the BIOS may boot from, in DL
          OldCH,       \* values of CH when the BIOS jumps to the boot sector
          Slots,       \* bound: slots of memory
          MayFail      \* whether the BIOS may report an error

\* The clusters of a floppy's data area; each has one place in one file.
Clusters == 2 .. 2847

Separate(c, d) ==
    \A i \in 1 .. Len(c), j \in 1 .. Len(d) : c[i] = d[j] => c = d /\ i = j

ASSUME DisksAssumption ==
    \A d \in Disks : /\ d.boot2 \in Seq(Clusters) /\ Len(d.boot2) > 0
                     /\ d.kernel \in Seq(Clusters) /\ Len(d.kernel) > 0
                     /\ Separate(d.boot2, d.boot2) /\ Separate(d.kernel, d.kernel)
                     /\ Separate(d.boot2, d.kernel) /\ d.boot2 # d.kernel
                     /\ d.dir \in Seq({"boot2", "kernel", "other"})
                     /\ Len(d.dir) <= 224

ASSUME BootAssumption ==
    /\ BootDrives \subseteq 0 .. 255
    /\ OldCH \subseteq 0 .. 255
    /\ Slots \in Nat
    /\ MayFail \in BOOLEAN

SectorsPerTrack == 18
NumHeads        == 2         \* Head
Cylinders       == 80
SectorsPerFAT   == 9
BytesPerSector  == 512
FAT12_LOCATION  == 32256     \* 0x7E00
BOOT2_LOCATION  == 28672     \* 0x7000
KERNEL_LOCATION == 61440     \* 0xF000
FAT12_SECTOR_COUNT == 32
BOOT_SECTOR_COUNT  == 1
FAT_END_OF_CHAIN   == 4080   \* 0x0FF0
Stack           == 31744     \* 0x7C00, where it starts to grow downwards

VARIABLES
    disk,             \* the image in every drive
    dl,               \* the drive the BIOS booted from
    BOOT_DISK,        \* the variable of the code that runs
    stage,            \* the program that runs: "boot_first" or "boot_second"
    at,               \* where it is
    ax, bx, cx, es,   \* arguments of read_disk
    mem,              \* what is in each slot: <<drive, LBA>>, or <<-1, -1>>
    entry,            \* directory entry looked at, from 0
    cluster, count, base    \* [ebp-2], [ebp-4], [ebp-6] of load_file

regs  == <<ax, bx, cx, es>>
frame == <<cluster, count, base>>
vars  == <<disk, dl, BOOT_DISK, stage, at, regs, mem, entry, frame>>

Nothing == <<-1, -1>>
SlotOf(linear) == linear \div BytesPerSector

\* boot_first up to the first read_disk, reset_disk included: CH is never set.
Init ==
    /\ disk \in Disks
    /\ dl \in BootDrives
    /\ BOOT_DISK = dl
    /\ stage = "boot_first" /\ at = "fat"
    /\ \E ch \in OldCH : cx = 256 * ch + FAT12_SECTOR_COUNT
    /\ ax = 1 /\ es = 0 /\ bx = FAT12_LOCATION
    /\ mem = [s \in 0 .. Slots - 1 |-> Nothing]
    /\ entry = 0
    /\ cluster = 0 /\ count = 0 /\ base = 0

-----------------------------------------------------------------------------
(* read_disk.                                                              *)

lbatochs(lba) ==
    [sector |-> (lba % SectorsPerTrack) + 1,
     head |-> (lba \div SectorsPerTrack) % NumHeads,
     cylinder |-> ((lba \div SectorsPerTrack) \div NumHeads) % 256]

\* int 0x13, function 2: the drive has such a sector.
Readable(chs) ==
    chs.sector \in 1 .. SectorsPerTrack /\ chs.head < NumHeads /\ chs.cylinder < Cylinders

SectorAt(chs) ==
    (chs.cylinder * NumHeads + chs.head) * SectorsPerTrack + chs.sector - 1

Linear == 16 * es + bx

\* One sector is read to es:bx, then ax, bx and cx move on; when cx comes to 0
\* the loop ends and the code after the call follows, at next.
ReadSector(next) ==
    LET chs == lbatochs(ax)
    IN  /\ Readable(chs)
        /\ SlotOf(Linear) < Slots
        /\ mem' = [mem EXCEPT ![SlotOf(Linear)] = <<BOOT_DISK, SectorAt(chs)>>]
        /\ ax' = (ax + 1) % 65536
        /\ bx' = (bx + BytesPerSector) % 65536
        /\ cx' = (cx - 1) % 65536
        /\ at' = IF cx' = 0 THEN next ELSE at
        /\ UNCHANGED <<disk, dl, BOOT_DISK, stage, es, entry, frame>>

read_fat == at = "fat" /\ ReadSector("search")

\* read_error: a message, cli and jmp $.
read_error ==
    /\ at \in {"fat", "read"}
    /\ MayFail \/ ~Readable(lbatochs(ax))
    /\ at' = "halted"
    /\ UNCHANGED <<disk, dl, BOOT_DISK, stage, regs, mem, entry, frame>>

-----------------------------------------------------------------------------
(* search_file.                                                            *)

Wanted   == IF stage = "boot_first" THEN "boot2" ELSE "kernel"
Location == IF stage = "boot_first" THEN BOOT2_LOCATION ELSE KERNEL_LOCATION

\* The disk's chains of clusters, and where they start.
ChainOf(name) == IF name = "boot2" THEN disk.boot2 ELSE disk.kernel

\* LBAs of the FAT's first sector in memory are 1, 2, ...: slot s is in place.
InPlace(s) == mem[s][2] = s - SlotOf(FAT12_LOCATION) + 1

\* The address of a directory entry, past both FATs, and the name found there:
\* another one past the end of the directory, or if its sector is not there.
EntryAt(i) == FAT12_LOCATION + 2 * SectorsPerFAT * BytesPerSector + 32 * i

NameAt(i) ==
    IF i < Len(disk.dir) /\ InPlace(SlotOf(EntryAt(i))) THEN disk.dir[i + 1] ELSE "other"

\* Mutant of NextEntry: the address is not moved on.
NextEntry_Same(i) == i

\* add cx, 0x20: 2^16 / 32 entries until the address wraps around.
NextEntry(i) == (i + 1) % 2048

\* compare_loop finds all 11 characters equal, or the next entry is tried, with
\* no test for the end of the directory.  Then load_file's frame is set up.
search_file ==
    /\ at = "search"
    /\ IF NameAt(entry) = Wanted
       THEN /\ at' = "load"
            /\ cluster' = ChainOf(Wanted)[1]
            /\ count' = 0
            /\ base' = Location
            /\ es' = 0
            /\ UNCHANGED entry
       ELSE /\ entry' = NextEntry(entry)
            /\ UNCHANGED <<at, es, frame>>
    /\ UNCHANGED <<disk, dl, BOOT_DISK, stage, ax, bx, cx, mem>>

-----------------------------------------------------------------------------
(* load_file.                                                              *)

\* Mutant of NextSegment: the segment stays.
NextSegment_Never(offset) == es

\* offset 0: the 64K of the segment are used up.
NextSegment(offset) == IF offset = 0 THEN (es + 4096) % 65536 ELSE es

\* Mutant of LbaOf: clusters are counted from 0.
LbaOf_FromZero(c) == c + FAT12_SECTOR_COUNT + BOOT_SECTOR_COUNT

\* The first cluster of the data area is number 2.
LbaOf(c) == c + FAT12_SECTOR_COUNT + BOOT_SECTOR_COUNT - 2

load_next_sector ==
    LET offset == (count * 512 + base) % 65536
    IN  /\ at = "load"
        /\ at' = "read"
        /\ bx' = offset
        /\ es' = NextSegment(offset)
        /\ cx' = 1
        /\ ax' = LbaOf(cluster)
        /\ UNCHANGED <<disk, dl, BOOT_DISK, stage, mem, entry, frame>>

read_file == at = "read" /\ ReadSector("chain")

\* The FAT as the formatter packs it: entry n, of 12 bits, and byte i.
Successor(n) ==
    LET c == IF \E k \in 1 .. Len(disk.boot2) : disk.boot2[k] = n
             THEN disk.boot2 ELSE disk.kernel
    IN  IF \E k \in 1 .. Len(c) : c[k] = n
        THEN LET k == CHOOSE j \in 1 .. Len(c) : c[j] = n
             IN  IF k = Len(c) THEN 4095 ELSE c[k + 1]
        ELSE 0

FatByte(i) ==
    LET pair == i \div 3
    IN  IF ~InPlace(SlotOf(FAT12_LOCATION + i)) THEN 0
        ELSE CASE i % 3 = 0 -> Successor(2 * pair) % 256
               [] i % 3 = 1 -> Successor(2 * pair) \div 256
                                 + 16 * (Successor(2 * pair + 1) % 16)
               [] i % 3 = 2 -> Successor(2 * pair + 1) \div 16

Take12(n, w) == IF n % 2 = 0 THEN w % 4096 ELSE w \div 16

\* Two bytes from 3n/2 on, of which 12 bits are taken.
get_sector_value_op(n) ==
    LET i == n + n \div 2
    IN  Take12(n, FatByte(i) + 256 * FatByte(i + 1))

\* The next cluster; at the end of the chain load_file returns, and the program
\* jumps to what it loaded.  boot_second has a BOOT_DISK of its own, which is 0.
next_cluster ==
    /\ at = "chain"
    /\ count' = count + 1
    /\ cluster' = get_sector_value_op(cluster)
    /\ IF cluster' < FAT_END_OF_CHAIN
       THEN at' = "load" /\ UNCHANGED <<stage, BOOT_DISK, entry>>
       ELSE IF stage = "boot_first"
       THEN stage' = "boot_second" /\ at' = "search" /\ BOOT_DISK' = 0 /\ entry' = 0
       ELSE at' = "kernel" /\ UNCHANGED <<stage, BOOT_DISK, entry>>
    /\ UNCHANGED <<disk, dl, regs, mem, base>>

Load == read_fat \/ search_file \/ load_next_sector \/ read_file \/ next_cluster

Next == Load \/ read_error

\* The processor goes on; interrupts return and the BIOS answers.
Spec == Init /\ [][Next]_vars /\ WF_vars(Next)

-----------------------------------------------------------------------------
(* Properties.                                                             *)

\* Chain c lies in memory from address a on, read from the drive booted from.
InMemory(c, a) ==
    \A k \in 1 .. Len(c) : mem[SlotOf(a) + k - 1] = <<dl, c[k] + 31>>

\* What the code jumps to is the file, whole and in order, wherever its
\* clusters lie on the disk and across the 64K segments of memory: BOOT2 when
\* boot_second starts, the kernel when it is entered.
FilesLoaded ==
    /\ stage = "boot_second" => InMemory(disk.boot2, BOOT2_LOCATION)
    /\ at = "kernel" => InMemory(disk.kernel, KERNEL_LOCATION)

\* While a file is loaded the FAT and the directory stay as they were read,
\* and neither the boot sector, nor the interrupt vectors, nor the stack below
\* the boot sector are written over.  BOOT2 may have five sectors: the memory
\* map in boot_first.asm gives it six, of which the last is the stack's.
LoaderIntact ==
    at # "fat" /\ at # "halted" =>
        /\ \A s \in 63 .. 94 : mem[s] = <<dl, s - 62>>
        /\ mem[SlotOf(Stack)] = Nothing
        /\ Len(disk.boot2) <= 5 => mem[SlotOf(Stack - 1)] = Nothing
        /\ \A s \in 0 .. 3 : mem[s] = Nothing

\* The boot ends: in the kernel, or halted by a read error and nowhere else.
BootEnds == <>(at \in {"kernel", "halted"})

=============================================================================
