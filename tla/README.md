# B2OS: models, checks and proofs

B2OS boots a PC from a floppy into a small 32-bit kernel whose only program is an
Apple ][ emulator. This directory holds TLA+ models of its core, the TLC
configurations that check them on small instances, and TLAPS proofs for every
value of the constants. Paths below are relative to the repository.

## The system

| Part | State | Operations | Interacts through |
|---|---|---|---|
| Boot (`Asm/boot_first.asm`, `disk_read.asm`, `boot_second.asm`) | registers, FAT and directory in memory, mode of the processor | load BOOT2 and `KERNEL.BIN` by FAT12, install the GDT, enter protected mode | BIOS; jumps to `kmain` |
| Interrupts and timer (`Src/isr.c`, `idt.c`, `timer.c`, `Asm/interrupt.asm`) | IDT, PICs, `interrupt_handlers`, `global_tick` | `k_init_isr`, `k_init_timer`, `k_irq_handler`, `timer_callback`, `k_sleep` | interrupts the kernel thread at any instruction; `global_tick` is shared |
| Kernel heap (`Src/memory.c`) | chain of in-band headers | `k_init_mem`, `malloc`, `calloc`, `realloc`, `free` | called by the emulator (fonts, screen buffer) |
| 6502 (`Apple2/AppleCpu.c`) | A, X, Y, PC, SP, flags | `ac_Run`, the reset functions, `ac_Execute_*` | reads and writes through the memory map; runs in slices of cycles |
| Disk ][ (`Apple2/AppleDevice.c`) | two drives: motor, mode, head, nibble, image; phases; latch | soft switches `$C0E0`-`$C0EF` | called from memory accesses; its motor keeps `machine_Run` going |
| Memory map, language card (`AppleMem.c`) | RAM, ROM, banks, four flags | `mem_ReadByte`, `mem_WriteByte`, switches `$C080`-`$C08F` | 6502, video |
| Video (`ad_Render`, `AppleFont.c`) | mode flags, caches, `flashCycle` | switches `$C050`-`$C057`, `ad_Render` | reads emulated memory once per frame |
| Console (`Src/console.c`) | text buffer, index, cursor | put, erase, newline, clear, go to | kernel messages |
| VGA, VBE | frame buffer | pixels | leaf I/O |

The kernel loop (`Src/kernel.c`) alternates `machine_Run` and `machine_Render` for
ever. There is one thread; the only concurrency is with interrupts. The hard
behaviours are therefore: what an interrupt may find half done; long sequences of
allocator calls and of soft switches; histories kept to decide the next step (head
phases, back pointers, the language card's flip-flop, render caches); a read error in
the middle of the boot; and counters that wrap around (`cycle`, `updatedrive`, SP,
`nibble`, `bx`). `PROJECT.json` lists them as hazards, each at its line.

## Modules

**KernelHeap** models `Src/memory.c`. `hdr` maps the address of each block on the
list to its header; a call is a sequence of steps (`EnterMalloc`, one `WalkOn` for
each block passed, `WalkTakes` or `WalkFails`, then `calloc_clears` or
`realloc_moves`). `free` is one step: mark, merge forward, merge backward through
`prev`, as the code does. A merge through a `prev` that is not adjacent, and a write
outside the block it belongs to, end in `pc = "wild"`, where the C program is
undefined. The ghosts `live`, `stack`, `lifo` and `midSplit` record what callers hold
and whether they have always freed the newest block.

**Interrupts** models the path from `lgdt` to the main loop with interrupts at every
step: the boot thread is one action per step, an interrupt is taken between two of
them (`Deliver`), and the stub, `k_irq_handler`, `timer_callback` and `iret` are steps
of their own. The two 8259 PICs and the devices are external; they latch edges,
block lower lines until an EOI, and forget requests when initialised. An interrupt
that finds no kernel IDT in protected mode crashes the machine.

**DiskII** models the Disk ][ switches of `ad_SoftSwitch`, `ad_stepMotor`,
`ad_setDrv` and `ad_UpdateFloppyDisk` with the slice loop of `machine_Run`; one action
for each group of switches, in any order. **DiskSeek** extends it with three programs.
Two seek the way Apple's software does: they energise a neighbouring phase and release
the old one, in either order, on one drive. The model remembers where a real head would
be (`ideal`) and whether the program ever asked for a track that the image does not have
(`beyond`). The third (`Wander`) touches phase switches and changes drives as it likes,
so that both neighbours of a phase may be on and the heads of both drives move.

**CpuRun** models `ac_Run`: every instruction's effect on PC, SP, the stack, the
flags and the cycle counter. Instructions that only compute are described by a table
(modes, cycles, flags) and leave arbitrary values. Costs are those the code charges:
the many `*cycle--` decrement a pointer, not the counter, and cost 0. In the `(zp,X)`
mode that moved pointer is passed on and 2 is taken from another local of `ac_Run`;
`Stray` is the outcome in which it was `prevcycle`, `Compute` the harmless one. The
program is assumed to pull what it pushed and to leave page one to the stack
instructions. The ghost `frames` is its view of the stack: the frames that were pushed
and that no later push has reached. TXS may leave them and come back, as programs with
two stacks do; a pull takes the frame that ends at SP.

**Alu** models what `CpuRun` leaves arbitrary: `ac_Execute_ADC`, `SBC`, `CMP`, `ASL`,
`LSR`, `ROL` and `ROR`, as functions from registers to registers (A and the flags of
`_PS` that arithmetic uses). A program (`AluSpec`, one action for each task) chains them
by the carry over numbers of `W` bytes, and what it has after each byte is compared with
arithmetic on whole numbers, `Value` of the bytes done. The decimal correction is the
code's expression, bit by bit.

**LanguageCard** is an abstract specification: what the 16K card promises a program,
in terms of the history of accesses to its switches. **MemoryMap** is the code:
`mem_ReadByte`, `mem_WriteByte` and the sixteen cases of `ad_SoftSwitch` with the flags
`LCReadable`, `LCWritable`, `LCBank2Enable` and `LCPreWriteFlipflop`, over the arrays
`ram`, `rom`, `lgc`, `bk2` and `sl6`, of which the cells at the addresses in `Probes`
are kept. `Card` instantiates the abstract card with the contents of `lgc` and `bk2`
by bank (`CardStore`); the ghosts `last`, `odds` and `fresh` are the history.

**Video** models `ad_Render` in all modes with `LoResCache`, `HiResCache`,
`previousBit` and `flashCycle`. The low resolution branch and the text are a step each;
the high resolution loop takes one step for each group of 14 dots, because drawing a
group may change what its right neighbour needs. Between renders the 6502 writes
video memory and touches the switches. Pixels are abstracted to what a cell shows.

**Fat12Boot** models the boot sector and BOOT2 up to the jump to the kernel: the first
read, `search_file`, `load_file` with its frame, `read_disk` sector by sector with the
registers at their width, and `get_sector_value_op` on the packed 12-bit entries.
Memory is in slots of 512 bytes that remember which sector they hold. The disk and
`int 0x13` are external; any read may fail (`read_error`).

**Console** models `Src/console.c`: the index into the text buffer, column, row and the
CRTC's copy, each updated by the rules of its own that every function has. A space
takes two cells, as in the code. A line that overflows its row makes the next newline
skip rows of the buffer that `cursor_pos_y` does not count; the ghost `skipped` does, and
is how far the index and the cursor are apart. `console_gotoxy` checks nothing and has no
caller in the repository: its arguments are arbitrary, and the ghost `lost` says that it
left the screen, that the column wrapped around its byte, or that text was erased back
into rows that were skipped.

`KernelHeapProofs`, `InterruptsProofs`, `DiskIIProofs` (with `DiskSeek`),
`CpuProofs` (with `Alu`), `MemoryMapProofs`, `VideoProofs`, `Fat12BootProofs` and `ConsoleProofs`
hold the theorems; `AluMC`, `VideoMC` and `Fat12BootMC` the sets that a configuration
cannot write down.

## Runs

| Run | Shows | Bounds |
|---|---|---|
| `heap_calls` | tiling, disjoint allocations, no leak, writes in bounds, first fit, termination, safety of LIFO callers | arena of 88 bytes: up to four blocks with 16-byte headers, enough for a split of an inner block, merges on both sides, a remainder of exactly a header, and exhaustion; sizes 0, 3, 12, 20 |
| `heap_backptr` | expected violation: the missing `prev` update | the same |
| `interrupts_boot` | EOIs match, no crash once the IDT is loaded, `k_sleep` waits and returns, every line is served | timer, one more master line and the first slave line; 2 ticks to wait, a tick counter of modulus 4, so that it wraps around |
| `disk_drives` | one motor, bounded slices, return of `machine_Run` | one track of 2 nibbles, `updatedrive` of modulus 4; all motor, drive and data switches |
| `disk_seek` | the emulated head is where a real one is, or one half track behind, and stays over the image for a program that does; recalibration; for the third program too, the track is the one under the head and a switch moves one head by one half track | two tracks, which end at half track 2, and the stop far beyond at half track 6; both stops are hit and the phases go round. `Wander` uses three phases in a row, the first also off, and both drives: the middle phase is energised with none, one and both neighbours on, before and after a change of drive |
| `cpu_run` | no runaway counter; returns and pulls give back what was pushed | bytes of 5 values, so that SP wraps around inside a word; 5 instructions, which cover a call around a break and a call around push and pull; flags D and Z; slices of 4 cycles, fewer than RTI takes |
| `cpu_cost` | expected violation: instructions that cost nothing | the same |
| `memory_map` | the flags decode the history of the switches; `MemoryMap` implements `LanguageCard` | all sixteen switches, read and written; one address in RAM, one in slot 6, both ends of the banked 4K and the first of the upper 8K; up to three odd switches in a row, enough for arming, enabling and one more |
| `video_caches` | within a mode the caches hide no change; after a change of mode the screen is right within one turn of `flashCycle`, and settles | two rows, the lower below the limit of the mixed modes, of three groups, so that a group has neighbours on both sides; both pages; `flashCycle` of 3; 5 changes, enough for a change of mode, of page, of two neighbouring groups and back |
| `alu_words` | the chained operations are arithmetic on whole numbers after every byte; decimal addition | numbers of two bytes, each of 13 values at which signs, digits and carries change |
| `fat12_boot` | what is jumped to is the file, whole and in order; FAT, stack and vectors survive; the boot ends | three disks: files in one piece with a kernel of 140 sectors (across two segment ends), reversed, and strided across a sector boundary of the FAT, with a directory of up to 40 entries; a read error at every read |
| `console` | index, cursor and CRTC stay in step, up to the rows that newlines skipped; nothing is left ahead of the index | rows of 5 cells, two of them, one cell more to clear, as 2200 is more than 25 * 80; text up to index 13, so that a line overflows by two rows, the index passes the cells that are cleared, and erasing goes back into skipped rows; `console_gotoxy` on and off the screen |

Deadlock is checked in `disk_drives`, `memory_map`, `video_caches` and `console`. The
other models may stop: the heap once the C program is undefined (`pc = "wild"`), the
boot of `interrupts_boot` when the machine crashes, `disk_seek` when a store has left
the image, `cpu_run` and `cpu_cost` after their bounded number of instructions,
`alu_words` when the number is done, `fat12_boot` in the kernel or halted.

## Refinement

`ImplementsCard` is `Card!CardSpec`, the abstract card under the mapping `CardStore`.
It says at once that a store reaches the selected bank and no other, that a load finds
what was last stored there or the ROM, and that writing is enabled by exactly the two
accesses that the switches' documentation asks for. `Decoded` is the invariant that
makes the mapping work, and the one the sixteen cases of the code could get wrong one
by one.

## Fairness

- `KernelHeap`: a call that was entered goes on. Nothing preempts it but handlers
  that return.
- `Interrupts`: the stub runs to its end (interrupt gates clear IF); the thread and
  the lines get their turn again and again, since a handler is much shorter than the
  timer's period; the PIT keeps ticking. `Serviced` is stated for lines that those of
  higher priority leave gaps: the 8259 itself guarantees no more.
- `DiskII`: the kernel loop never stops, and `ac_Run` comes back from each slice. The
  second is an assumption about the emulated program: `cpu_cost` shows that a loop of
  free instructions (a branch to itself) would not come back.
- `Video`: `kmain` calls `kernel_loop` for ever, and `machine_Run` returns (`RunReturns`).
  The program makes finitely many changes, which is what `Settles` is about.
- `Fat12Boot`: the processor goes on, and the BIOS answers each call, with data or with
  an error. `BootEnds` also rests on the directory holding both files: `search_file` has
  no test for its end.

## What is proved

*Heap*. The inductive invariant is `IInv` of `KernelHeapProofs`. The tiling is inductive together
with the list's shape; the other facts need more: a call in progress knows the block
under its cursor (`CallInv`), used blocks are those of live pointers and the one in
flight (`HeldInv`), and for LIFO callers the live pointers ascend in allocation order
and only the last block is free (`LifoInv`), so that malloc never splits an inner
block. From it follow type correctness, `Tiling`, `Coalesced` and `NoLeak`, for every
arena, all sizes and all counts. `FirstFit` has two parts. That every block the walk has
passed is used or too small (`Passed`) is inductive by itself and holds after inner splits
too. That no gap between allocations was passed over (`NoGapPassed`) follows while the
list is coalesced, when a gap is one block; after an inner split free neighbours may stay
apart and the sum of them be passed over. The parts of `IInv` that
compare a request with the block it got hold under `NoWrap` (no request within 4 of
2^32, no wrapping product), and that hypothesis is needed: without it a caller gets a
block smaller than it asked for. So `LiveSafe`, `WritesFit` and `LifoSafe`, which are
about the callers' bytes and about never reaching `wild`, assume it. What the others say
when a request does wrap is that the heap's own header writes stay sound; a caller that
then writes past its short block is outside the model.

*Interrupts*. None of the three safety properties is inductive. `NoStuckInService`
needs `InService`, what the PICs hold at each stage of the stub, so that each EOI is
known to end exactly one line. `HandledOnceIdtLoaded` needs `Prepared`, the order of
`k_init_isr`. `SleptEnough` needs `Sleeping`, the distance of `global_tick` from the
value `k_sleep` read. They are proved for every set of lines that has the timer and
not the cascade line, every delay below the counter's modulus, and every modulus.

*Disk*. `TypeOK`, `OneMotor` and `TrackFollowsHead` are inductive together;
`BoundedSlices` is not, because `updatedrive` survives from frame to frame:
`SlicesCounted` ties the number of slices to it. The action properties
`HeadStepsByOne` and `StoresStayOnTrack` follow from the same invariant, for every
geometry. They hold for arbitrary programs, and so for the three of `DiskSeek`.

*Seeking*. `ad_stepMotor` compares each switch with the two before it, so the proof keeps
what its two histories mean (`Delayed`): `phasesB` and `phasesBB` are the magnets one and
two switches ago. From a step of the program follows then which way the emulated head
goes, for all four phases at once, modulo 4. A program that energises before it releases
loses its first half track, because the history still knows no step, and loses nothing
after it; that is the `-1` of `SeekAccurate`, which is thereby exact. `Recalibrated` and
`SeeksStayInImage` follow, for every number of tracks: a program that kept to the 35
tracks is back on half track 0 after 68 steps inward, of which the boot PROM makes 80;
from the stop at half track 140 it takes 140. Of the third program the invariant only has
what holds for all programs (`Wandering`).

*CPU*. `NoRunaway`, for every budget, width of the counter and program. `Resumes` and
`Restores` rest on `StackInv`: the bytes of every frame are in page one as they were
pushed (`Intact`), and no two frames overlap (`Apart`), so that a frame is taken off
where another does not begin. Both are statements modulo the size of the stack, proved
for stacks of every size that holds the largest frame; the wrap-around of SP is the case
that needs the arithmetic.

*Arithmetic*. `WordArithmetic` and `AddsDecimal`, for numbers of any length made of any
bytes. The argument is about one byte and about weights. One byte: what `ac_Execute_ADC`
leaves satisfies A + 256 C = a + v + c, V says that the sum of the signed bytes does not
fit and N with V has its sign (`AdcBinary`, `SbcBinary`); in decimal mode the exclusive
or of the operands and the sum plus $66 finds the carry out of both digits, so that the
same holds with 100 for 256 (`AdcDecimal`). Weights: a byte of weight 256^n on top of n
bytes decides alone about the sign and the range of the whole number (`SignedTop`,
`Window`), and about its order unless the bytes are equal (`HighFirst`). The equations of
additions, subtractions, comparisons and doublings after each byte are inductive with the
types; halving goes from the top, and needs `HalvesHigh`, what the bytes already done are
worth at their places. The value of a number is a recursive function. That such a function
exists and satisfies its equation (`Recursion`, `PowerDef`, `DigitsDef`), and what follows
for every number of digits, is proved by the first-order form of induction: a set of
natural numbers with a member has a least one (`LeastNatural`, `SetInduction`, from the
library's `WFMin`).

*Memory map*. `TypeOK` and `Decoded` are inductive together; the lemma `AppendHistory`
says what one more access does to the number of odd switches in a row. `ImplementsCard`,
which the run checks too, is then proved step by step under `CardStore`: a switch is an
access of the card, a read its load, a write its store. This holds for all addresses,
bytes and sequences of switches, whatever the bound on the history.

*Video*. `Coherent` and `StaleIsBounded` are about the end of a render; the invariant says
what the caches mean in the middle of one. An entry is invalid or tells what its cell
shows (`Shows`). In high resolution a cell also depends on the last dot of its left
neighbour: the neighbour's entry is invalid or agrees with `previousBit` (`Linked`).
Between renders both hold on the whole screen (`Held`); within the loop (`Halfway`) they
hold ahead of it, and behind it the entries are also those of memory, so that none of
this breaks when a group invalidates the next one. After a change of mode the entries
may say anything; `Aged` counts the renders from there until `flashCycle` has everything
drawn. Proved for screens of every size and every `FlashMod`.

*Boot* (assuming `FloppyBoot`: drive 0, CH = 0, a BOOT2 of at most six sectors, a kernel
that ends below the EBDA, as the memory map in `boot_first.asm` has it; the run satisfies
it). `IInv` of `Fat12BootProofs` says at each place of `load_file` which sectors of the
file are in memory and what `es:bx` and the frame are in terms of the next slot; `es` is
the previous sector's until `load_next_sector` has seen the offset become 0. The
argument has three parts: `ChsIsLba` (on the whole floppy the sector read is the one asked
for), `NextInFat` (the 12 bits taken from the FAT in memory are the entry, even and odd,
also across a sector's end) and `ReadKeeps` (the slot written is the next one of the file,
and none that must survive). `FilesLoaded` and `LoaderIntact` follow for all disks whose
files have separate clusters, in any order and number, and for every pattern of errors.

*Console*. `InStep` and `NothingAhead` are inductive once the positions are known to be
numbers of their width (`Numbers`). The one fact that needs an argument is that column
and index have the same remainder by `VGA_WIDTH` (`ColumnOf`): `console_newline` and
`console_ungetchar_bound` compute with that of the index and move the cursor by the
column, of which a newline loses the whole rows.
Proved for every screen of at most 255 columns and rows that the cleared cells cover.

Only model-checked: liveness, since the prover does not reason about fairness here
(`CallReturns`, `SleepReturns`, `Serviced`, `RunReturns`, `Settles`, `BootEnds`).

## Findings

Two runs violate what a comment says; `PROJECT.json` quotes the lines. The missing
back pointer of `malloc` is a bug that the repository's own callers do not meet, and
the fetch does not cost the cycle its comment announces.

Further disagreements met while modelling, which need no run to be seen:

- `boot_second.asm:47` says "clear interrupts", but they stay enabled from the `sti` on
  line 37 on. An interrupt between `switch_32` and `set_idt` brings the machine down, in
  the model as in the code; `HandledOnceIdtLoaded` only says when the danger is over.
- `ad_stepMotor` stops the head at half track 140, twice the 35 tracks of the image: a
  program that steps beyond track 34 reads and writes past the array.
  `SeeksStayInImage` says that others do not.
- In decimal mode `ac_Execute_SBC` passes the binary complement to the correction for
  sums: 0 - 0 with a borrow gives $65. `AddsDecimal` is about additions only.
- The indirect modes take the second byte of a pointer at $FF from $100
  (`AppleCpu.c:1877`, `1889`).
- A line of 80 cells or more makes the next newline skip a row; a few of them take the
  index past the cells that `console_clear` covers. `InStep` says by how much, and that
  nothing else does.
- Nothing advances `cpu_tick`, so a triggered paddle never times out.
- `boot_first.asm:148` sets CL and leaves CH to the BIOS, though CX counts the sectors;
  boot_second's `BOOT_DISK` is always 0; the last of the six sectors that the memory map
  in `boot_first.asm` gives to BOOT2 is the stack in use. `Fat12Boot` has these as
  parameters (`OldCH`, `BootDrives`, the disks), and the run takes CH = 0, drive 0 and a
  BOOT2 of at most five sectors.
- `malloc` rounds a size within 3 of 2^32 to 0 and returns a block of no bytes. The list
  stays sound, but the three theorems about the callers' bytes assume `NoWrap`.

## Not modelled, and why

- VGA and VBE: port and frame buffer I/O; `k_drawPixel` returns at once in this port.
- `Src/memory/` (a second heap and paging): commented out of `assemble.sh`.
- `printf` and `itoa`: sequential formatting, which ends in `console_putchar`.
- Exceptions (`k_isr_handler` prints and returns), `load_memory_map`, `enable_A20line`:
  BIOS and port I/O whose results nothing uses.
- Keyboard, paddles and speaker: stubs in this port.
- Fonts, ROMs and disk images: data. Four images of 19,419 lines each, and the other
  operating systems kept under `Doc/`, make up nearly all of the repository's lines;
  B2OS itself is a few thousand, of which the models cover the greater part.

## Plan

Every safety property that the passing runs check is a theorem. What is left is to weaken
`FloppyBoot` (other values of CH, with what the first read then does).
