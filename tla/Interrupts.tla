----------------------------- MODULE Interrupts -----------------------------
(***************************************************************************)
(* From real mode to the kernel's main loop: the switch to protected mode  *)
(* (Asm/boot_second.asm), k_init_isr, k_init_timer and k_sleep, run by the *)
(* boot thread, against the interrupts that may arrive at any of its steps *)
(* (Asm/interrupt.asm, k_irq_handler, timer_callback).                     *)
(*                                                                         *)
(* The two 8259 PICs and the devices are external; they are modelled by    *)
(* what the code relies on: edges are latched in irr, an acknowledged      *)
(* request blocks requests of the same or lower priority until an EOI, and *)
(* initialising a PIC forgets its requests.  An interrupt that finds no    *)
(* usable IDT in protected mode is a triple fault.                         *)
(***************************************************************************)
EXTENDS Integers, FiniteSets

CONSTANTS Irqs,       \* the interrupt lines that have a device
          Wait,       \* k_sleep's argument in init_kernel (500)
          PerSecond,  \* timer_callback's divisor (1000)
          TickMod     \* 2^32, the modulus of unsigned long

Master == 0 .. 7
Slave == 8 .. 15
Cascade == 2          \* the line of the master the slave hangs on
Timer == 0            \* IRQ0

ASSUME InterruptsAssumption ==
    /\ Irqs \subseteq (Master \cup Slave) \ {Cascade}
    /\ Timer \in Irqs
    /\ Wait \in Nat /\ Wait < TickMod
    /\ PerSecond \in Nat \ {0}
    /\ TickMod \in Nat \ {0}

VARIABLES
    at,              \* the next step of the boot thread
    mode,            \* CR0.PE
    IF_,             \* EFLAGS.IF
    base,            \* which vectors the PICs send
    gates,           \* the interrupt gates filled in so far
    idt,             \* lidt was executed with the kernel's table
    cpu,             \* "thread", or the stage of the interrupt stub
    int_no,          \* registers_t.int_no of the interrupt being handled
    irr, isrM, isrS, \* requests latched; in service at master and slave
    handlers,        \* the lines with an entry in interrupt_handlers
    global_tick, global_seconds,
    target,          \* startTicks + waitticks in k_sleep
    slept            \* ghost: timer_callback calls since k_sleep was entered

thread == <<at, mode, base, gates, idt, handlers, target>>
pic == <<irr, isrM, isrS>>
clock == <<global_tick, global_seconds, slept>>
vars == <<thread, IF_, cpu, int_no, pic, clock>>

Crashed == cpu = "crashed"

Init ==
    /\ at = "install_gdt"
    /\ mode = "real"
    /\ IF_ \in BOOLEAN
    /\ base = "bios"
    /\ gates = {}
    /\ idt = FALSE
    /\ cpu = "thread"
    /\ int_no = 0
    /\ irr = {} /\ isrM = {} /\ isrS = {}
    /\ handlers = {}
    /\ global_tick = 0 /\ global_seconds = 0
    /\ target = 0
    /\ slept = 0

-----------------------------------------------------------------------------
(* The boot thread.                                                        *)

\* A step of the thread, possible only when no interrupt is being handled.
Goes(from, to) ==
    /\ cpu = "thread"
    /\ at = from
    /\ at' = to
    /\ UNCHANGED <<cpu, int_no, clock>>

\* cli; lgdt [GDT_descriptor]
install_gdt ==
    /\ Goes("install_gdt", "sti")
    /\ IF_' = FALSE
    /\ UNCHANGED <<mode, base, gates, idt, handlers, target, pic>>

\* The sti of boot_second.asm, before protected mode.
boot_sti ==
    /\ Goes("sti", "switch_32")
    /\ IF_' = TRUE
    /\ UNCHANGED <<mode, base, gates, idt, handlers, target, pic>>

\* mov cr0, eax
switch_32 ==
    /\ Goes("switch_32", "kmain")
    /\ mode' = "protected"
    /\ UNCHANGED <<IF_, base, gates, idt, handlers, target, pic>>

\* The far jump, the segment registers and the stack of Entry32Bit, then
\* console_init and console_clear: no step that interrupts can tell apart.
kmain ==
    /\ Goes("kmain", "isr_gates")
    /\ UNCHANGED <<mode, IF_, base, gates, idt, handlers, target, pic>>

\* Mutant of isr_gates: the IDT is loaded before the table is complete.
isr_gates_LoadsFirst ==
    /\ Goes("isr_gates", "remap")
    /\ gates' = gates \cup {"exceptions"}
    /\ idt' = TRUE
    /\ UNCHANGED <<mode, IF_, base, handlers, target, pic>>

\* k_init_isr: gates 0 to 31.
isr_gates ==
    /\ Goes("isr_gates", "remap")
    /\ gates' = gates \cup {"exceptions"}
    /\ UNCHANGED <<mode, IF_, base, idt, handlers, target, pic>>

\* k_init_isr: ICW1 to ICW4 and an empty mask for both PICs.
remap_pic ==
    /\ Goes("remap", "irq_gates")
    /\ base' = "kernel"
    /\ irr' = {} /\ isrM' = {} /\ isrS' = {}
    /\ UNCHANGED <<mode, IF_, gates, idt, handlers, target>>

\* k_init_isr: gates 32 to 47.
irq_gates ==
    /\ Goes("irq_gates", "set_idt")
    /\ gates' = gates \cup {"irqs"}
    /\ UNCHANGED <<mode, IF_, base, idt, handlers, target, pic>>

set_idt ==
    /\ Goes("set_idt", "kernel_sti")
    /\ idt' = TRUE
    /\ UNCHANGED <<mode, IF_, base, gates, handlers, target, pic>>

kernel_sti ==
    /\ Goes("kernel_sti", "init_timer")
    /\ IF_' = TRUE
    /\ UNCHANGED <<mode, base, gates, idt, handlers, target, pic>>

\* k_init_timer: register_interrupt_handler(IRQ0, timer_callback) and the
\* reload value of the PIT, which is 110 whatever the argument.
k_init_timer ==
    /\ Goes("init_timer", "sleep_call")
    /\ handlers' = handlers \cup {Timer}
    /\ UNCHANGED <<mode, IF_, base, gates, idt, target, pic>>

\* Mutant of Target: the sum is kept in a wider type.
Target_Wide == global_tick + Wait

\* k_sleep reads global_tick once; k_init_mem and k_srand come before it and
\* change nothing of this state.
Target == (global_tick + Wait) % TickMod

k_sleep ==
    /\ cpu = "thread"
    /\ at = "sleep_call"
    /\ at' = "sleep"
    /\ target' = Target
    /\ slept' = 0
    /\ UNCHANGED <<mode, IF_, base, gates, idt, handlers, cpu, int_no, pic,
                   global_tick, global_seconds>>

\* Mutant of Awake: compares the wrong way round.
Awake_Reversed == global_tick <= target

\* while (global_tick < startTicks + waitticks) {}
Awake == global_tick >= target

sleep_returns ==
    /\ Awake
    /\ Goes("sleep", "kernel_loop")
    /\ UNCHANGED <<mode, IF_, base, gates, idt, handlers, target, pic>>

-----------------------------------------------------------------------------
(* Interrupts.                                                             *)

\* A device raises its line.
Raise(q) ==
    /\ ~Crashed
    /\ q \notin irr
    /\ irr' = irr \cup {q}
    /\ UNCHANGED <<thread, IF_, cpu, int_no, isrM, isrS, clock>>

\* The master's view of a line, and the order of the 8259.
Line(q) == IF q \in Slave THEN Cascade ELSE q

Blocked(q) ==
    \/ \E i \in isrM : i <= Line(q)
    \/ q \in Slave /\ \E j \in isrS : j <= q

\* cascaded lines rank where the slave is attached.
Before(q, r) ==
    \/ Line(q) < Line(r)
    \/ Line(q) = Line(r) /\ q < r

Requests(q) == q \in irr /\ ~Blocked(q) /\ \A r \in irr : Before(r, q) => Blocked(r)

\* The CPU takes an interrupt between two instructions of the thread.
Deliver(q) ==
    /\ cpu = "thread"
    /\ IF_
    /\ Requests(q)
    /\ irr' = irr \ {q}
    /\ \/ /\ mode = "real"                    \* the BIOS handles it and returns
          /\ UNCHANGED <<IF_, cpu, int_no, isrM, isrS>>
       \/ /\ mode = "protected"
          /\ ~(idt /\ base = "kernel" /\ "irqs" \in gates)
          /\ cpu' = "crashed"
          /\ UNCHANGED <<IF_, int_no, isrM, isrS>>
       \/ /\ mode = "protected"
          /\ idt /\ base = "kernel" /\ "irqs" \in gates
          /\ cpu' = "k_irq_handler"
          /\ IF_' = FALSE                      \* flags 0x8E: interrupt gates
          /\ int_no' = 32 + q
          /\ isrM' = isrM \cup {Line(q)}
          /\ isrS' = IF q \in Slave THEN isrS \cup {q} ELSE isrS
    /\ UNCHANGED <<thread, clock>>

\* A non-specific EOI ends the service of the line of highest priority.
Ended(isr) == {i \in isr : \E j \in isr : j < i}

\* Mutant of SendsEoi: the slave is told for vectors above 40 only.
SendsEoi_OffByOne ==
    /\ isrS' = IF int_no > 40 THEN Ended(isrS) ELSE isrS
    /\ isrM' = Ended(isrM)

\* if (r.int_no >= 40) port_byte_out(0xA0, 0x20); port_byte_out(0x20, 0x20);
SendsEoi ==
    /\ isrS' = IF int_no >= 40 THEN Ended(isrS) ELSE isrS
    /\ isrM' = Ended(isrM)

k_irq_handler ==
    /\ cpu = "k_irq_handler"
    /\ SendsEoi
    /\ cpu' = IF int_no - 32 \in handlers THEN "handler" ELSE "iret"
    /\ UNCHANGED <<thread, IF_, int_no, irr, clock>>

\* The only handler ever registered.  slept saturates at Wait.
timer_callback ==
    LET tick == (global_tick + 1) % TickMod
    IN  /\ cpu = "handler"
        /\ global_tick' = tick
        /\ global_seconds' = IF tick % PerSecond = 0
                             THEN (global_seconds + 1) % TickMod
                             ELSE global_seconds
        /\ slept' = IF slept < Wait THEN slept + 1 ELSE slept
        /\ cpu' = "iret"
        /\ UNCHANGED <<thread, IF_, int_no, pic>>

\* Mutant of iret: returns with interrupts disabled.
iret_StaysOff ==
    /\ cpu = "iret"
    /\ cpu' = "thread"
    /\ IF_' = FALSE
    /\ UNCHANGED <<thread, int_no, pic, clock>>

\* The end of irq_common_stub: sti; iret.
iret ==
    /\ cpu = "iret"
    /\ cpu' = "thread"
    /\ IF_' = TRUE
    /\ UNCHANGED <<thread, int_no, pic, clock>>

-----------------------------------------------------------------------------
BootStep ==
    \/ install_gdt \/ boot_sti \/ switch_32 \/ kmain \/ isr_gates
    \/ remap_pic \/ irq_gates \/ set_idt \/ kernel_sti \/ k_init_timer
    \/ k_sleep \/ sleep_returns

StubStep == k_irq_handler \/ timer_callback \/ iret

Next ==
    \/ BootStep
    \/ \E q \in Irqs : Raise(q)
    \/ \E q \in Irqs : Deliver(q)
    \/ StubStep

\* The processor executes the stub it is in; the handlers are much shorter
\* than the period of the PIT (110 cycles of 1.193 MHz), so again and again
\* the thread gets its turn between two of them, and a request the PICs keep
\* granting is taken; the PIT never stops.
Fairness ==
    /\ WF_vars(StubStep)
    /\ SF_vars(BootStep)
    /\ WF_vars(Raise(Timer))
    /\ \A q \in Irqs : SF_vars(Deliver(q))

Spec == Init /\ [][Next]_vars /\ Fairness

-----------------------------------------------------------------------------
(* Properties.                                                             *)

\* Every variable has the type its C object has; in particular k_sleep's
\* target is an unsigned long however late the call is made.
TypeOK ==
    /\ mode \in {"real", "protected"}
    /\ IF_ \in BOOLEAN /\ idt \in BOOLEAN
    /\ base \in {"bios", "kernel"}
    /\ gates \subseteq {"exceptions", "irqs"}
    /\ cpu \in {"thread", "k_irq_handler", "handler", "iret", "crashed"}
    /\ int_no \in {0} \cup 32 .. 47
    /\ irr \subseteq Irqs /\ isrM \subseteq Master /\ isrS \subseteq Slave
    /\ handlers \subseteq Irqs
    /\ global_tick \in 0 .. TickMod - 1 /\ global_seconds \in 0 .. TickMod - 1
    /\ target \in 0 .. TickMod - 1
    /\ slept \in 0 .. Wait

\* When no interrupt is being handled neither PIC has a line in service:
\* k_irq_handler's EOIs match what was acknowledged, at both PICs, so that
\* no line stays blocked (isr.c: "or they will not send another interrupt
\* again").
NoStuckInService ==
    cpu = "thread" => isrM = {} /\ isrS = {}

\* An interrupt can bring the machine down only before lidt: from set_idt on,
\* whatever arrives finds remapped vectors and filled-in gates.
HandledOnceIdtLoaded ==
    Crashed => ~idt

\* k_sleep does not return before timer_callback has run Wait times since it
\* was called, provided start + Wait did not wrap around (it wraps after
\* 2^32 ticks; the code calls k_sleep once, while booting).
SleptEnough ==
    at = "kernel_loop" /\ target >= Wait => slept = Wait

\* k_sleep returns: the interrupts it spins on keep coming.
SleepReturns ==
    at = "sleep" ~> at = "kernel_loop"

\* A request on line q is taken by the processor as long as the lines ranked
\* before q leave it gaps, unless the machine goes down in the window before
\* lidt: the EOIs of k_irq_handler and the sti of the stub keep every line,
\* those of the slave included, deliverable.
Serviced ==
    \A q \in Irqs :
        []<>(cpu = "thread" /\ \A r \in irr : ~Before(r, q))
            => (q \in irr ~> (q \notin irr \/ Crashed))

=============================================================================
