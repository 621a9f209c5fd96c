------------------------------- MODULE DiskII -------------------------------
(***************************************************************************)
(* The Disk ][ controller of the emulated machine (Apple2/AppleDevice.c)   *)
(* under the loop that drives it (machine_Run of Apple2/AppleMachine.c).   *)
(*                                                                         *)
(* The emulated program reaches the controller through the soft switches   *)
(* $C0E0 to $C0EF (and $CFFF, which acts as $C0E8), in any order; each     *)
(* access is one call of ad_SoftSwitch.  machine_Run gives the program a   *)
(* slice of cycles, and further slices while the motor is on.              *)
(***************************************************************************)
EXTENDS Integers

CONSTANTS Tracks,       \* tracks of the image (35)
          TrackLen,     \* nibbles of a track (0x1A00)
          MaxHalf,      \* the last half track the head reaches (140)
          UpdateMod,    \* 256, the modulus of the BYTE updatedrive
          Bytes,        \* values of a nibble
          Switches      \* the soft switches the program uses, from $C0E0

ASSUME DiskAssumption ==
    /\ Tracks \in Nat \ {0}
    /\ TrackLen \in Nat \ {0}
    /\ MaxHalf \in Nat
    /\ UpdateMod \in Nat \ {0, 1}
    /\ 0 \in Bytes
    /\ Switches \subseteq 0 .. 15

Drives == 0 .. 1
Phases == 0 .. 3

VARIABLES
    motorOn, writeMode, track, nibble, data,   \* struct FloppyDrive disk[2]
    currentDrive,
    phases, phasesB, phasesBB,                 \* magnets: now, before, before
    pIdx, pIdxB,
    halfTrackPos,
    dLatch,
    updatedrive,
    at,        \* "frame", "slice" (in ac_Run) or "render"
    slices,    \* ghost: calls of ac_Run in this machine_Run
    wild       \* ghost: a store went past the end of disk[d].data

head == <<phases, phasesB, phasesBB, pIdx, pIdxB, halfTrackPos, track>>
media == <<writeMode, nibble, data, dLatch, wild>>
motor == <<motorOn, currentDrive>>
loop == <<updatedrive, at, slices>>
vars == <<head, media, motor, loop>>

\* ad_ResetFloppy, ad_InsertFloppy(0) and ad_Reset, as machine_InitMachine
\* leaves them.
Inserted ==
    /\ motorOn = [d \in Drives |-> FALSE]
    /\ writeMode = [d \in Drives |-> FALSE]
    /\ track = [d \in Drives |-> 0]
    /\ nibble = [d \in Drives |-> 0]
    /\ \E image \in [0 .. Tracks * TrackLen - 1 -> Bytes] :
           data = [d \in Drives |->
                      IF d = 0 THEN image
                      ELSE [i \in 0 .. Tracks * TrackLen - 1 |-> 0]]
    /\ currentDrive = 0
    /\ phases = [d \in Drives |-> [p \in Phases |-> FALSE]]
    /\ phasesB = [d \in Drives |-> [p \in Phases |-> FALSE]]
    /\ phasesBB = [d \in Drives |-> [p \in Phases |-> FALSE]]
    /\ pIdx = [d \in Drives |-> 0]
    /\ pIdxB = [d \in Drives |-> 0]
    /\ halfTrackPos = [d \in Drives |-> 0]
    /\ dLatch = 0
    /\ updatedrive = 0
    /\ wild = FALSE

Init ==
    /\ Inserted
    /\ at = "frame"
    /\ slices = 0

-----------------------------------------------------------------------------
(* The soft switches.  All of them act on disk[currentDrive].              *)

\* An access happens inside ac_Run; past a stray store nothing is claimed.
Access(s) ==
    /\ at = "slice"
    /\ s \in Switches
    /\ ~wild

\* --halfTrackPos < 0, and back to 0
HeadIn(pos) == IF pos - 1 < 0 THEN 0 ELSE pos - 1

\* ++halfTrackPos > 140, and back to 140
HeadOut(pos) == IF pos + 1 > MaxHalf THEN MaxHalf ELSE pos + 1

\* Mutant of HeadMoves: the same neighbour is tested twice.
HeadMoves_OutOnly(pos, before, phase) ==
    IF before[(phase - 1) % 4] THEN HeadOut(pos) ELSE pos

\* Mutant of HeadMoves: both neighbours move the head the same way.
HeadMoves_SameWay(pos, before, phase) ==
    LET first == IF before[(phase + 1) % 4] THEN HeadOut(pos) ELSE pos
    IN  IF before[(phase - 1) % 4] THEN HeadOut(first) ELSE first

\* Where the head goes when a phase is energised: in if the next phase was on
\* two switches ago, then out if the previous one was.
HeadMoves(pos, before, phase) ==
    LET in == IF before[(phase + 1) % 4] THEN HeadIn(pos) ELSE pos
    IN  IF before[(phase - 1) % 4] THEN HeadOut(in) ELSE in

TrackOf(pos) == (pos + 1) \div 2

\* Mutant of stepMotor: phase off forgets that the switch was touched.
stepMotor_OffReturnsFirst(s) ==
    LET d == currentDrive
        phase == s \div 2
        bb == [phasesBB[d] EXCEPT ![pIdxB[d]] = phasesB[d][pIdxB[d]]]
    IN  /\ phases' = [phases EXCEPT ![d][phase] = (s % 2 = 1)]
        /\ phasesBB' = IF s % 2 = 0 THEN phasesBB ELSE [phasesBB EXCEPT ![d] = bb]
        /\ phasesB' = IF s % 2 = 0 THEN phasesB
                      ELSE [phasesB EXCEPT ![d][pIdx[d]] = phases[d][pIdx[d]]]
        /\ pIdxB' = IF s % 2 = 0 THEN pIdxB ELSE [pIdxB EXCEPT ![d] = pIdx[d]]
        /\ pIdx' = IF s % 2 = 0 THEN pIdx ELSE [pIdx EXCEPT ![d] = phase]
        /\ halfTrackPos' = IF s % 2 = 0 THEN halfTrackPos ELSE
               [halfTrackPos EXCEPT ![d] = HeadMoves(@, bb, phase)]
        /\ track' = IF s % 2 = 0 THEN track
                    ELSE [track EXCEPT ![d] = TrackOf(halfTrackPos'[d])]

\* Mutant of stepMotor: the track is computed from the first drive's head.
stepMotor_FirstTrack(s) ==
    LET d == currentDrive
        phase == s \div 2
        bb == [phasesBB[d] EXCEPT ![pIdxB[d]] = phasesB[d][pIdxB[d]]]
    IN  /\ phasesBB' = [phasesBB EXCEPT ![d] = bb]
        /\ phasesB' = [phasesB EXCEPT ![d][pIdx[d]] = phases[d][pIdx[d]]]
        /\ pIdxB' = [pIdxB EXCEPT ![d] = pIdx[d]]
        /\ pIdx' = [pIdx EXCEPT ![d] = phase]
        /\ phases' = [phases EXCEPT ![d][phase] = (s % 2 = 1)]
        /\ \/ /\ s % 2 = 0
              /\ UNCHANGED <<halfTrackPos, track>>
           \/ /\ s % 2 = 1
              /\ halfTrackPos' = [halfTrackPos EXCEPT ![d] = HeadMoves(@, bb, phase)]
              /\ track' = [track EXCEPT ![d] = TrackOf(halfTrackPos'[0])]

\* $C0E0 to $C0E7: phase s div 2 off or on.
stepMotor(s) ==
    LET d == currentDrive
        phase == s \div 2
        bb == [phasesBB[d] EXCEPT ![pIdxB[d]] = phasesB[d][pIdxB[d]]]
    IN  /\ phasesBB' = [phasesBB EXCEPT ![d] = bb]
        /\ phasesB' = [phasesB EXCEPT ![d][pIdx[d]] = phases[d][pIdx[d]]]
        /\ pIdxB' = [pIdxB EXCEPT ![d] = pIdx[d]]
        /\ pIdx' = [pIdx EXCEPT ![d] = phase]
        /\ phases' = [phases EXCEPT ![d][phase] = (s % 2 = 1)]
        /\ \/ /\ s % 2 = 0                                    \* PHASE x OFF
              /\ UNCHANGED <<halfTrackPos, track>>
           \/ /\ s % 2 = 1
              /\ halfTrackPos' = [halfTrackPos EXCEPT ![d] = HeadMoves(@, bb, phase)]
              /\ track' = [track EXCEPT ![d] = TrackOf(halfTrackPos'[d])]

ad_stepMotor(s) ==
    /\ Access(s)
    /\ s \in 0 .. 7
    /\ stepMotor(s)
    /\ UNCHANGED <<media, motor, loop>>

\* $C0E8 and $CFFF, $C0E9.
motor_switch(s) ==
    /\ Access(s)
    /\ s \in {8, 9}
    /\ motorOn' = [motorOn EXCEPT ![currentDrive] = (s = 9)]
    /\ UNCHANGED <<head, media, loop, currentDrive>>

\* Mutant of setDrv: the other drive keeps turning.
setDrv_LeavesOther(drv) ==
    [motorOn EXCEPT ![drv] = motorOn[1 - drv] \/ motorOn[drv]]

\* The motors after selecting drv: it takes over a turning motor.
setDrv(drv) ==
    [motorOn EXCEPT ![drv] = motorOn[1 - drv] \/ motorOn[drv],
                    ![1 - drv] = FALSE]

\* $C0EA, $C0EB.
ad_setDrv(s) ==
    /\ Access(s)
    /\ s \in {10, 11}
    /\ motorOn' = setDrv(s - 10)
    /\ currentDrive' = s - 10
    /\ UNCHANGED <<head, media, loop>>

\* The index of the nibble under the head, and whether disk[d].data has it.
Under(d) == track[d] * TrackLen + nibble[d]
InData(d) == Under(d) < Tracks * TrackLen

\* Mutant of Turned: one nibble too many to a turn.
Turned_OffByOne(n) == (n + 1) % (TrackLen + 1)

\* turn floppy of 1 nibble
Turned(n) == (n + 1) % TrackLen

\* $C0EC in read mode.  Past the end of the image the load returns whatever
\* byte follows the array.
shift_read(s) ==
    LET d == currentDrive
    IN  /\ Access(s)
        /\ s = 12
        /\ ~writeMode[d]
        /\ IF InData(d) THEN dLatch' = data[d][Under(d)] ELSE dLatch' \in Bytes
        /\ nibble' = [nibble EXCEPT ![d] = Turned(@)]
        /\ UNCHANGED <<head, motor, loop, writeMode, data, wild>>

\* $C0EC in write mode.  Past the end of the image the store hits some other
\* object.
shift_write(s) ==
    LET d == currentDrive
    IN  /\ Access(s)
        /\ s = 12
        /\ writeMode[d]
        /\ nibble' = [nibble EXCEPT ![d] = Turned(@)]
        /\ data' = IF InData(d) THEN [data EXCEPT ![d][Under(d)] = dLatch] ELSE data
        /\ wild' = ~InData(d)
        /\ UNCHANGED <<head, motor, loop, writeMode, dLatch>>

\* $C0ED: a read access passes value 0.
load_latch(s, value) ==
    /\ Access(s)
    /\ s = 13
    /\ dLatch' = value
    /\ UNCHANGED <<head, motor, loop, writeMode, nibble, data, wild>>

\* $C0EE, $C0EF.
latch_mode(s) ==
    /\ Access(s)
    /\ s \in {14, 15}
    /\ writeMode' = [writeMode EXCEPT ![currentDrive] = (s = 15)]
    /\ UNCHANGED <<head, motor, loop, nibble, data, dLatch, wild>>

SoftSwitch ==
    \E s \in Switches :
        \/ ad_stepMotor(s)
        \/ motor_switch(s)
        \/ ad_setDrv(s)
        \/ shift_read(s)
        \/ shift_write(s)
        \/ \E value \in Bytes : load_latch(s, value)
        \/ latch_mode(s)

-----------------------------------------------------------------------------
(* kernel_loop: machine_Run, then machine_Render.                          *)

machine_Run ==
    /\ at = "frame"
    /\ at' = "slice"
    /\ slices' = 1
    /\ UNCHANGED <<head, media, motor, updatedrive>>

\* ++updatedrive, which && skips when the motor is off.
Counted ==
    IF motorOn[currentDrive] THEN (updatedrive + 1) % UpdateMod ELSE updatedrive

\* Mutant of ad_UpdateFloppyDisk: the counter does not end the loop.
ad_UpdateFloppyDisk_MotorOnly == motorOn[currentDrive]

\* The value of disk[currentDrive].motorOn && ++updatedrive.
ad_UpdateFloppyDisk == motorOn[currentDrive] /\ Counted # 0

\* ac_Run comes back; another slice of 5000 cycles, or the end of the loop.
\* The ghost slices stops counting once the bound is passed.
slice_ends ==
    /\ at = "slice"
    /\ ~wild
    /\ updatedrive' = Counted
    /\ \/ /\ ad_UpdateFloppyDisk
          /\ at' = "slice"
          /\ slices' = IF slices > UpdateMod THEN slices ELSE slices + 1
       \/ /\ ~ad_UpdateFloppyDisk
          /\ at' = "render"
          /\ slices' = slices
    /\ UNCHANGED <<head, media, motor>>

machine_Render ==
    /\ at = "render"
    /\ at' = "frame"
    /\ slices' = 0
    /\ UNCHANGED <<head, media, motor, updatedrive>>

Next == SoftSwitch \/ machine_Run \/ slice_ends \/ machine_Render

\* The kernel loop never stops, and of the program it is assumed that ac_Run
\* comes back from every slice: it executes instructions that cost cycles
\* over and over again (FetchCosts of CpuRun shows that not all do).
Fairness == WF_vars(machine_Run) /\ WF_vars(slice_ends) /\ WF_vars(machine_Render)

Spec == Init /\ [][Next]_vars /\ Fairness

-----------------------------------------------------------------------------
(* Properties.                                                             *)

\* Every variable has the type its C object has: the head stays between the
\* stops of ad_stepMotor, the nibble counter inside a track.
TypeOK ==
    /\ motorOn \in [Drives -> BOOLEAN] /\ writeMode \in [Drives -> BOOLEAN]
    /\ track \in [Drives -> Nat] /\ nibble \in [Drives -> 0 .. TrackLen - 1]
    /\ data \in [Drives -> [0 .. Tracks * TrackLen - 1 -> Bytes]]
    /\ currentDrive \in Drives
    /\ phases \in [Drives -> [Phases -> BOOLEAN]]
    /\ phasesB \in [Drives -> [Phases -> BOOLEAN]]
    /\ phasesBB \in [Drives -> [Phases -> BOOLEAN]]
    /\ pIdx \in [Drives -> Phases] /\ pIdxB \in [Drives -> Phases]
    /\ halfTrackPos \in [Drives -> 0 .. MaxHalf]
    /\ dLatch \in Bytes
    /\ updatedrive \in 0 .. UpdateMod - 1
    /\ at \in {"frame", "slice", "render"}
    /\ slices \in Nat
    /\ wild \in BOOLEAN

\* Only the selected drive turns, whatever the order of the motor and drive
\* switches: machine_Run looks at the selected drive alone, so a motor left
\* on in the other one would never be noticed.
OneMotor ==
    \A d \in Drives : motorOn[d] => d = currentDrive

\* The track the data switches use is the one the head stands on, however
\* phase switches and drive changes are interleaved (ad_stepMotor returns
\* early when a phase goes off, and keeps one head for each drive).
TrackFollowsHead ==
    \A d \in Drives : track[d] = TrackOf(halfTrackPos[d])

\* One touch of a phase switch moves one head, by one half track at most,
\* although ad_stepMotor tests both neighbours and moves for each.
HeadStepsByOne ==
    [][\A d \in Drives :
           /\ halfTrackPos'[d] - halfTrackPos[d] \in {-1, 0, 1}
           /\ halfTrackPos'[d] # halfTrackPos[d] => d = currentDrive]_vars

\* Writing changes nibbles of the selected drive and of the track under its
\* head only: the turn of the disk never carries the head into a neighbour.
StoresStayOnTrack ==
    [][\A d \in Drives : \A i \in DOMAIN data[d] :
           data'[d][i] # data[d][i] =>
               d = currentDrive /\ i \div TrackLen = track[d]]_vars

\* A call of machine_Run gives the program at most UpdateMod slices, even if
\* it starts, stops and changes drives all the time: the frame is always
\* rendered after a bounded time.
BoundedSlices ==
    slices <= UpdateMod

\* machine_Run comes back (or a stray store has made everything undefined).
RunReturns ==
    at = "slice" ~> (at = "render" \/ wild)

=============================================================================
