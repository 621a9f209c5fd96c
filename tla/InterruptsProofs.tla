-------------------------- MODULE InterruptsProofs --------------------------
(***************************************************************************)
(* The safety properties of the boot thread against its interrupts, for    *)
(* every set of lines with a device, every sleep and every width of the    *)
(* tick counter.                                                           *)
(***************************************************************************)
EXTENDS Interrupts, TLAPS

\* What the PICs have in service at each stage of an interrupt: exactly the
\* line being handled until k_irq_handler sends its EOIs, then nothing.
InService ==
    IF cpu = "k_irq_handler"
    THEN \E q \in Irqs : /\ int_no = 32 + q
                         /\ isrM = {Line(q)}
                         /\ isrS = IF q \in Slave THEN {q} ELSE {}
    ELSE isrM = {} /\ isrS = {}

\* The order of k_init_isr: the PICs are remapped before the gates of the
\* lines are filled in, and both before lidt.
Prepared ==
    /\ at \in {"irq_gates", "set_idt"} => base = "kernel"
    /\ at = "set_idt" => "irqs" \in gates
    /\ idt => /\ base = "kernel" /\ "irqs" \in gates
              /\ at \in {"kernel_sti", "init_timer", "sleep_call", "sleep", "kernel_loop"}

\* How far k_sleep has got: as long as fewer than Wait ticks have passed, the
\* counter is that far from where it was when k_sleep read it.
Sleeping ==
    /\ at = "sleep" /\ target >= Wait =>
          slept = Wait \/ global_tick = target - Wait + slept
    /\ SleptEnough

IInv == TypeOK /\ InService /\ Prepared /\ HandledOnceIdtLoaded /\ Sleeping

USE DEF Master, Slave, Cascade, Timer, Crashed

-----------------------------------------------------------------------------
\* The machine starts in real mode with nothing requested.
LEMMA InitIInv == Init => IInv
<1> SUFFICES ASSUME Init PROVE IInv
  OBVIOUS
<1>1. IF_ \in BOOLEAN /\ idt \in BOOLEAN
  BY Zenon DEF Init
<1>2. /\ global_tick \in 0 .. TickMod - 1 /\ global_seconds \in 0 .. TickMod - 1
      /\ target \in 0 .. TickMod - 1 /\ slept \in 0 .. Wait
  BY InterruptsAssumption DEF Init
<1>3. /\ mode = "real" /\ base = "bios" /\ gates = {} /\ cpu = "thread" /\ int_no = 0
      /\ irr = {} /\ isrM = {} /\ isrS = {} /\ handlers = {} /\ at = "install_gdt"
  BY DEF Init
<1>4. TypeOK
  BY <1>1, <1>2, <1>3 DEF TypeOK
<1>5. ~idt
  BY Zenon DEF Init
<1>6. InService /\ HandledOnceIdtLoaded
  BY <1>3 DEF InService, HandledOnceIdtLoaded
<1>7. Prepared /\ Sleeping
  BY <1>3, <1>5 DEF Prepared, Sleeping, SleptEnough
<1> QED
  BY <1>4, <1>6, <1>7 DEF IInv

\* Steps of the thread before k_sleep touch neither the clock nor, but for the
\* initialisation of the PICs, what is in service.
LEMMA BootKeeps ==
    ASSUME IInv,
           \/ install_gdt \/ boot_sti \/ switch_32 \/ kmain \/ isr_gates
           \/ remap_pic \/ irq_gates \/ set_idt \/ kernel_sti \/ k_init_timer
    PROVE  IInv'
<1>1. /\ UNCHANGED <<cpu, int_no, clock, target>> /\ cpu = "thread"
      /\ at' \notin {"sleep", "kernel_loop"}
  BY DEF install_gdt, boot_sti, switch_32, kmain, isr_gates, remap_pic, irq_gates,
         set_idt, kernel_sti, k_init_timer, Goes
<1>2. TypeOK'
  BY <1>1, InterruptsAssumption
     DEF IInv, TypeOK, install_gdt, boot_sti, switch_32, kmain, isr_gates, remap_pic,
         irq_gates, set_idt, kernel_sti, k_init_timer, Goes, clock, pic
<1>3. InService'
  BY <1>1 DEF IInv, InService, install_gdt, boot_sti, switch_32, kmain, isr_gates,
              remap_pic, irq_gates, set_idt, kernel_sti, k_init_timer, pic
<1>4. Prepared'
  BY DEF IInv, Prepared, install_gdt, boot_sti, switch_32, kmain, isr_gates, remap_pic,
         irq_gates, set_idt, kernel_sti, k_init_timer, Goes
<1>5. HandledOnceIdtLoaded' /\ Sleeping'
  BY <1>1 DEF HandledOnceIdtLoaded, Sleeping, SleptEnough
<1> QED
  BY <1>2, <1>3, <1>4, <1>5 DEF IInv

\* Entering and leaving k_sleep.
LEMMA SleepKeeps ==
    ASSUME IInv, k_sleep \/ sleep_returns
    PROVE  IInv'
<1>1. /\ UNCHANGED <<mode, IF_, base, gates, idt, handlers, cpu, int_no, pic,
                     global_tick, global_seconds>>
      /\ cpu = "thread"
  BY DEF k_sleep, sleep_returns, Goes, clock
<1>2. CASE k_sleep
  <2>1. /\ at' = "sleep" /\ at = "sleep_call" /\ slept' = 0
        /\ target' = (global_tick + Wait) % TickMod
    BY <1>2 DEF k_sleep, Target
  <2>2. target' \in 0 .. TickMod - 1
    BY <2>1, InterruptsAssumption DEF IInv, TypeOK
  <2>3. target' >= Wait => global_tick = target' - Wait
    <3>1. global_tick \in 0 .. TickMod - 1 /\ Wait \in 0 .. TickMod - 1 /\ TickMod \in Nat \ {0}
      BY InterruptsAssumption DEF IInv, TypeOK
    <3>2. CASE global_tick + Wait < TickMod
      BY <2>1, <3>1, <3>2
    <3>3. CASE global_tick + Wait >= TickMod
      <4>1. (global_tick + Wait) % TickMod = global_tick + Wait - TickMod
        BY <3>1, <3>3
      <4> QED
        BY <2>1, <3>1, <4>1
    <3> QED
      BY <3>1, <3>2, <3>3
  <2>4. TypeOK'
    BY <1>1, <2>1, <2>2, InterruptsAssumption DEF IInv, TypeOK, pic
  <2>5. Sleeping'
    BY <1>1, <2>1, <2>3, InterruptsAssumption DEF Sleeping, SleptEnough, IInv, TypeOK
  <2> QED
    BY <1>1, <2>1, <2>4, <2>5 DEF IInv, InService, Prepared, HandledOnceIdtLoaded, pic
<1>3. CASE sleep_returns
  <2>1. /\ at = "sleep" /\ at' = "kernel_loop" /\ UNCHANGED <<target, slept>>
        /\ global_tick >= target
    BY <1>3 DEF sleep_returns, Goes, Awake, clock
  <2>2. TypeOK'
    BY <1>1, <2>1 DEF IInv, TypeOK, pic
  <2>3. Sleeping'
    BY <1>1, <2>1, InterruptsAssumption DEF IInv, TypeOK, Sleeping, SleptEnough
  <2> QED
    BY <1>1, <2>1, <2>2, <2>3 DEF IInv, InService, Prepared, HandledOnceIdtLoaded, pic
<1> QED
  BY <1>2, <1>3

\* A request touches nothing but irr.
LEMMA RaiseKeeps ==
    ASSUME IInv, NEW q \in Irqs, Raise(q)
    PROVE  IInv'
  BY DEF Raise, IInv, TypeOK, InService, Prepared, HandledOnceIdtLoaded, Sleeping,
         SleptEnough, thread, clock

\* Taking an interrupt puts its line, and the cascade line for the slave's,
\* in service; it finds the IDT ready or the IDT is not loaded.
LEMMA DeliverKeeps ==
    ASSUME IInv, NEW q \in Irqs, Deliver(q)
    PROVE  IInv'
<1>1. UNCHANGED <<thread, clock>> /\ cpu = "thread" /\ irr' \subseteq Irqs
  BY DEF Deliver, IInv, TypeOK
<1>2. isrM = {} /\ isrS = {}
  BY <1>1 DEF IInv, InService
<1>3. Prepared' /\ Sleeping'
  BY <1>1 DEF IInv, Prepared, Sleeping, SleptEnough, thread, clock
<1>4. CASE mode = "real"
  BY <1>1, <1>2, <1>3, <1>4
     DEF Deliver, IInv, TypeOK, InService, HandledOnceIdtLoaded, thread, clock
<1>5. CASE mode = "protected" /\ ~(idt /\ base = "kernel" /\ "irqs" \in gates)
  <2>1. cpu' = "crashed" /\ UNCHANGED <<IF_, int_no, isrM, isrS>>
    BY <1>5 DEF Deliver
  <2>2. ~idt
    BY <1>5 DEF IInv, Prepared
  <2>3. ~idt'
    BY <1>1, <2>2 DEF thread
  <2>4. TypeOK'
    BY <1>1, <2>1 DEF IInv, TypeOK, thread, clock
  <2>5. InService' /\ HandledOnceIdtLoaded'
    BY <1>2, <2>1, <2>3 DEF InService, HandledOnceIdtLoaded
  <2> QED
    BY <1>3, <2>4, <2>5 DEF IInv
<1>6. CASE mode = "protected" /\ idt /\ base = "kernel" /\ "irqs" \in gates
  <2>1. /\ cpu' = "k_irq_handler" /\ IF_' = FALSE /\ int_no' = 32 + q
        /\ isrM' = {Line(q)} /\ isrS' = IF q \in Slave THEN {q} ELSE {}
    BY <1>2, <1>6 DEF Deliver
  <2>2. Line(q) \in Master /\ int_no' \in 32 .. 47
    BY <2>1, InterruptsAssumption DEF Line
  <2>3. TypeOK'
    BY <1>1, <2>1, <2>2 DEF IInv, TypeOK, thread, clock
  <2>4. InService'
    BY <2>1 DEF InService, Line
  <2> QED
    BY <1>1, <1>3, <2>1, <2>3, <2>4 DEF IInv, HandledOnceIdtLoaded
<1> QED
  BY <1>4, <1>5, <1>6 DEF IInv, TypeOK

\* A non-specific EOI on a PIC with at most one line in service clears it.
LEMMA EndedEmpty ==
    /\ Ended({}) = {}
    /\ \A i \in Nat : Ended({i}) = {}
  BY DEF Ended

\* k_irq_handler's EOIs end exactly what was acknowledged.
LEMMA HandlerKeeps ==
    ASSUME IInv, k_irq_handler
    PROVE  IInv'
<1>1. PICK q \in Irqs : /\ int_no = 32 + q
                        /\ isrM = {Line(q)}
                        /\ isrS = IF q \in Slave THEN {q} ELSE {}
  BY DEF k_irq_handler, IInv, InService
<1>2. q \in 0 .. 15 /\ Line(q) \in Nat
  BY InterruptsAssumption DEF Line
<1>3. isrM' = {} /\ isrS' = {}
  BY <1>1, <1>2, EndedEmpty DEF k_irq_handler, SendsEoi
<1>4. /\ UNCHANGED <<thread, IF_, int_no, irr, clock>>
      /\ cpu' \in {"handler", "iret"}
  BY DEF k_irq_handler
<1> QED
  BY <1>3, <1>4 DEF IInv, TypeOK, InService, Prepared, HandledOnceIdtLoaded, Sleeping,
                    SleptEnough, thread, clock

\* A tick advances the clock by one, and k_sleep's count with it.
LEMMA TickKeeps ==
    ASSUME IInv, timer_callback
    PROVE  IInv'
<1>1. /\ UNCHANGED <<thread, IF_, int_no, pic>> /\ cpu = "handler" /\ cpu' = "iret"
      /\ global_tick' = (global_tick + 1) % TickMod
      /\ global_seconds' \in {global_seconds, (global_seconds + 1) % TickMod}
      /\ slept' = IF slept < Wait THEN slept + 1 ELSE slept
  BY DEF timer_callback
<1>2. /\ global_tick \in 0 .. TickMod - 1 /\ target \in 0 .. TickMod - 1
      /\ global_seconds \in 0 .. TickMod - 1
      /\ Wait \in Nat /\ slept \in 0 .. Wait /\ TickMod \in Nat \ {0}
  BY InterruptsAssumption DEF IInv, TypeOK
<1>3. /\ global_tick' \in 0 .. TickMod - 1 /\ global_seconds' \in 0 .. TickMod - 1
      /\ slept' \in 0 .. Wait
  BY <1>1, <1>2
<1>4. TypeOK'
  BY <1>1, <1>3 DEF IInv, TypeOK, thread, pic
<1>5. Sleeping'
  <2>1. at' = at /\ target' = target
    BY <1>1 DEF thread
  <2>2. slept = Wait => slept' = Wait
    BY <1>1, <1>2
  <2>3. ASSUME at = "sleep", target >= Wait, slept # Wait
        PROVE  global_tick' = target - Wait + slept'
    <3>1. global_tick = target - Wait + slept /\ slept < Wait
      BY <2>3, <1>2 DEF IInv, Sleeping
    <3>2. global_tick + 1 < TickMod \/ global_tick + 1 = target
      BY <3>1, <1>2
    <3>3. (global_tick + 1) % TickMod = global_tick + 1
      BY <3>2, <1>2
    <3> QED
      BY <1>1, <1>2, <3>1, <3>3
  <2> QED
    BY <2>1, <2>2, <2>3 DEF IInv, Sleeping, SleptEnough
<1> QED
  BY <1>1, <1>4, <1>5 DEF IInv, InService, Prepared, HandledOnceIdtLoaded, thread, pic

\* The return of the stub.
LEMMA IretKeeps ==
    ASSUME IInv, iret
    PROVE  IInv'
  BY DEF iret, IInv, TypeOK, InService, Prepared, HandledOnceIdtLoaded, Sleeping,
         SleptEnough, thread, pic, clock

\* Every step keeps the inductive invariant.
LEMMA NextKeeps ==
    ASSUME IInv, [Next]_vars
    PROVE  IInv'
<1>1. CASE UNCHANGED vars
  BY <1>1 DEF vars, IInv, TypeOK, InService, Prepared, HandledOnceIdtLoaded, Sleeping,
              SleptEnough, thread, pic, clock
<1>2. CASE Next
  BY <1>2, BootKeeps, SleepKeeps, RaiseKeeps, DeliverKeeps, HandlerKeeps, TickKeeps,
     IretKeeps DEF Next, BootStep, StubStep
<1> QED
  BY <1>1, <1>2

\* The inductive invariant holds in every reachable state.
THEOREM Inductive == Spec => []IInv
  BY InitIInv, NextKeeps, PTL DEF Spec

\* Type correctness, k_sleep's target included.
THEOREM TypeCorrect == Spec => []TypeOK
<1>1. IInv => TypeOK
  BY DEF IInv
<1> QED
  BY <1>1, Inductive, PTL

\* When no interrupt is being handled no line of either PIC is in service,
\* whichever lines have devices and however their interrupts arrive.
THEOREM EoisMatch == Spec => []NoStuckInService
<1>1. IInv => NoStuckInService
  BY DEF IInv, InService, NoStuckInService
<1> QED
  BY <1>1, Inductive, PTL

\* From lidt on no interrupt brings the machine down.
THEOREM SafeOnceLoaded == Spec => []HandledOnceIdtLoaded
<1>1. IInv => HandledOnceIdtLoaded
  BY DEF IInv
<1> QED
  BY <1>1, Inductive, PTL

\* k_sleep never returns early, unless its target has wrapped around.
THEOREM SleepsEnough == Spec => []SleptEnough
<1>1. IInv => SleptEnough
  BY DEF IInv, Sleeping
<1> QED
  BY <1>1, Inductive, PTL

=============================================================================
