---------------------------- MODULE DiskIIProofs ----------------------------
(***************************************************************************)
(* The safety properties of the Disk ][ controller for every geometry of   *)
(* the disk, every limit of the head and every width of updatedrive.       *)
(*                                                                         *)
(* They follow from one inductive invariant.  BoundedSlices is not         *)
(* inductive: updatedrive keeps its value from frame to frame, so the      *)
(* number of slices is tied to it by SlicesCounted.                        *)
(*                                                                         *)
(* The second part is about programs that seek the way Apple's software    *)
(* does: the emulated head stays on the half track of a real one or one    *)
(* behind it, with both orders of the switches.                            *)
(***************************************************************************)
EXTENDS DiskSeek, TLAPS

\* In the slice loop every further slice has counted updatedrive up from a
\* value above 0 without passing 0.
SlicesCounted ==
    /\ at = "frame" => slices = 0
    /\ at = "slice" => slices <= updatedrive + 1
    /\ at = "render" => slices <= UpdateMod

IInv == TypeOK /\ OneMotor /\ TrackFollowsHead /\ SlicesCounted

USE DEF Drives, Phases

-----------------------------------------------------------------------------
\* The stops of ad_stepMotor keep the head between 0 and MaxHalf, and one
\* energised phase moves it by one half track at most.
LEMMA HeadMovesType ==
    ASSUME NEW pos \in 0 .. MaxHalf, NEW before \in [Phases -> BOOLEAN],
           NEW phase \in Phases
    PROVE  /\ HeadMoves(pos, before, phase) \in 0 .. MaxHalf
           /\ HeadMoves(pos, before, phase) - pos \in {-1, 0, 1}
  BY DiskAssumption DEF HeadMoves, HeadIn, HeadOut

\* The track of a half track is a natural number.
LEMMA TrackOfType ==
    ASSUME NEW pos \in Nat
    PROVE  TrackOf(pos) \in Nat
  BY DEF TrackOf

-----------------------------------------------------------------------------
\* The controller starts with both motors off and both heads on track 0.
LEMMA InitIInv == Init => IInv
<1> SUFFICES ASSUME Init PROVE IInv
  OBVIOUS
<1>1. PICK image \in [0 .. Tracks * TrackLen - 1 -> Bytes] :
          data = [d \in Drives |-> IF d = 0 THEN image
                                   ELSE [i \in 0 .. Tracks * TrackLen - 1 |-> 0]]
  BY DEF Init, Inserted
<1>2. data \in [Drives -> [0 .. Tracks * TrackLen - 1 -> Bytes]]
  BY <1>1, DiskAssumption
<1>3. TypeOK
  <2>1. /\ nibble \in [Drives -> 0 .. TrackLen - 1]
        /\ halfTrackPos \in [Drives -> 0 .. MaxHalf]
        /\ track \in [Drives -> Nat]
        /\ updatedrive \in 0 .. UpdateMod - 1
    BY DiskAssumption DEF Init, Inserted
  <2>2. /\ motorOn \in [Drives -> BOOLEAN] /\ writeMode \in [Drives -> BOOLEAN]
        /\ phases \in [Drives -> [Phases -> BOOLEAN]]
        /\ phasesB \in [Drives -> [Phases -> BOOLEAN]]
        /\ phasesBB \in [Drives -> [Phases -> BOOLEAN]]
        /\ pIdx \in [Drives -> Phases] /\ pIdxB \in [Drives -> Phases]
    BY DEF Init, Inserted
  <2>3. /\ currentDrive = 0 /\ dLatch = 0 /\ at = "frame" /\ slices = 0
        /\ wild = FALSE
    BY DEF Init, Inserted
  <2>4. currentDrive \in Drives /\ dLatch \in Bytes /\ slices \in Nat
    BY <2>3, DiskAssumption
  <2>5. wild \in BOOLEAN /\ at \in {"frame", "slice", "render"}
    BY <2>3, Zenon
  <2> QED
    BY <1>2, <2>1, <2>2, <2>4, <2>5 DEF TypeOK
<1>4. OneMotor /\ TrackFollowsHead /\ SlicesCounted
  BY DEF Init, Inserted, OneMotor, TrackFollowsHead, TrackOf, SlicesCounted
<1> QED
  BY <1>3, <1>4 DEF IInv

\* A phase switch moves the head and the track of the selected drive together.
LEMMA StepMotorKeeps ==
    ASSUME IInv, NEW s \in Switches, ad_stepMotor(s)
    PROVE  IInv'
<1> DEFINE d == currentDrive
           phase == s \div 2
           bb == [phasesBB[d] EXCEPT ![pIdxB[d]] = phasesB[d][pIdxB[d]]]
<1>1. s \in 0 .. 7 /\ phase \in Phases
  BY DEF ad_stepMotor
<1>2. /\ phasesBB' = [phasesBB EXCEPT ![d] = bb]
      /\ phasesB' = [phasesB EXCEPT ![d][pIdx[d]] = phases[d][pIdx[d]]]
      /\ pIdxB' = [pIdxB EXCEPT ![d] = pIdx[d]]
      /\ pIdx' = [pIdx EXCEPT ![d] = phase]
      /\ phases' = [phases EXCEPT ![d][phase] = (s % 2 = 1)]
      /\ \/ UNCHANGED <<halfTrackPos, track>>
         \/ /\ halfTrackPos' = [halfTrackPos EXCEPT ![d] = HeadMoves(@, bb, phase)]
            /\ track' = [track EXCEPT ![d] = TrackOf(halfTrackPos'[d])]
      /\ UNCHANGED <<media, motor, loop>>
  BY DEF ad_stepMotor, stepMotor
<1>3. d \in Drives /\ bb \in [Phases -> BOOLEAN]
  BY DEF IInv, TypeOK
<1> HIDE DEF phase, bb
<1>4. /\ phasesBB' \in [Drives -> [Phases -> BOOLEAN]]
      /\ phasesB' \in [Drives -> [Phases -> BOOLEAN]]
      /\ phases' \in [Drives -> [Phases -> BOOLEAN]]
      /\ pIdx' \in [Drives -> Phases] /\ pIdxB' \in [Drives -> Phases]
  BY <1>1, <1>2, <1>3 DEF IInv, TypeOK
<1>5. /\ halfTrackPos' \in [Drives -> 0 .. MaxHalf]
      /\ track' \in [Drives -> Nat]
      /\ TrackFollowsHead'
  <2>1. CASE UNCHANGED <<halfTrackPos, track>>
    BY <2>1 DEF IInv, TypeOK, TrackFollowsHead
  <2>2. CASE /\ halfTrackPos' = [halfTrackPos EXCEPT ![d] = HeadMoves(@, bb, phase)]
             /\ track' = [track EXCEPT ![d] = TrackOf(halfTrackPos'[d])]
    <3>1. HeadMoves(halfTrackPos[d], bb, phase) \in 0 .. MaxHalf
      BY <1>1, <1>3, HeadMovesType DEF IInv, TypeOK
    <3>2. halfTrackPos' \in [Drives -> 0 .. MaxHalf]
      BY <2>2, <3>1 DEF IInv, TypeOK
    <3>3. TrackOf(halfTrackPos'[d]) \in Nat
      BY <3>2, <1>3, TrackOfType, DiskAssumption
    <3>4. track' \in [Drives -> Nat] /\ TrackFollowsHead'
      BY <2>2, <3>3, <1>3 DEF IInv, TypeOK, TrackFollowsHead
    <3> QED
      BY <3>2, <3>4
  <2> QED
    BY <1>2, <2>1, <2>2
<1> QED
  BY <1>2, <1>4, <1>5
     DEF IInv, TypeOK, OneMotor, SlicesCounted, media, motor, loop

\* The motor switches and the drive select leave one motor on at most.
LEMMA MotorKeeps ==
    ASSUME IInv, NEW s \in Switches, motor_switch(s) \/ ad_setDrv(s)
    PROVE  IInv'
<1>1. UNCHANGED <<head, media, loop>>
  BY DEF motor_switch, ad_setDrv
<1>2. currentDrive' \in Drives /\ motorOn' \in [Drives -> BOOLEAN] /\ OneMotor'
  <2>1. CASE motor_switch(s)
    BY <2>1 DEF IInv, TypeOK, OneMotor, motor_switch
  <2>2. CASE ad_setDrv(s)
    <3>1. s - 10 \in Drives /\ 1 - (s - 10) \in Drives /\ 1 - (s - 10) # s - 10
      BY <2>2 DEF ad_setDrv
    <3>2. \A d \in Drives : d = s - 10 \/ d = 1 - (s - 10)
      BY <2>2 DEF ad_setDrv
    <3>3. \A drv \in Drives : setDrv(drv) \in [Drives -> BOOLEAN]
      BY DEF setDrv, IInv, TypeOK
    <3>4. setDrv(s - 10)[1 - (s - 10)] = FALSE
      BY <3>1 DEF setDrv, IInv, TypeOK
    <3> QED
      BY <2>2, <3>1, <3>2, <3>3, <3>4 DEF ad_setDrv, OneMotor
  <2> QED
    BY <2>1, <2>2
<1> QED
  BY <1>1, <1>2
     DEF IInv, TypeOK, TrackFollowsHead, SlicesCounted, head, media, loop

\* The data switches keep the nibble counter inside the track and the image
\* a function of its indices.
LEMMA DataKeeps ==
    ASSUME IInv, NEW s \in Switches,
           \/ shift_read(s) \/ shift_write(s) \/ latch_mode(s)
           \/ \E value \in Bytes : load_latch(s, value)
    PROVE  IInv'
<1>1. UNCHANGED <<head, motor, loop>>
  BY DEF shift_read, shift_write, latch_mode, load_latch
<1>2. \A n \in 0 .. TrackLen - 1 : Turned(n) \in 0 .. TrackLen - 1
  BY DiskAssumption DEF Turned
<1>3. nibble' \in [Drives -> 0 .. TrackLen - 1]
  <2>1. nibble' = nibble \/ nibble' = [nibble EXCEPT ![currentDrive] = Turned(@)]
    BY DEF shift_read, shift_write, latch_mode, load_latch
  <2>2. nibble \in [Drives -> 0 .. TrackLen - 1] /\ currentDrive \in Drives
    BY DEF IInv, TypeOK
  <2>3. Turned(nibble[currentDrive]) \in 0 .. TrackLen - 1
    BY <1>2, <2>2
  <2> QED
    BY <2>1, <2>2, <2>3
<1>4. writeMode' \in [Drives -> BOOLEAN]
  BY DEF IInv, TypeOK, shift_read, shift_write, latch_mode, load_latch
<1>5. Under(currentDrive) \in Nat
  <2>1. track[currentDrive] \in Nat /\ nibble[currentDrive] \in Nat /\ TrackLen \in Nat
    BY DiskAssumption DEF IInv, TypeOK
  <2>2. track[currentDrive] * TrackLen \in Nat
    BY <2>1
  <2> QED
    BY <2>1, <2>2 DEF Under
<1>6. dLatch' \in Bytes
  <2>1. CASE shift_read(s)
    <3>1. CASE InData(currentDrive)
      <4>1. Under(currentDrive) \in 0 .. Tracks * TrackLen - 1
        BY <1>5, <3>1, DiskAssumption DEF InData
      <4> QED
        <5>1. data \in [Drives -> [0 .. Tracks * TrackLen - 1 -> Bytes]]
              /\ currentDrive \in Drives
          BY DEF IInv, TypeOK
        <5>2. dLatch' = data[currentDrive][Under(currentDrive)]
          BY <2>1, <3>1 DEF shift_read
        <5> QED
          BY <4>1, <5>1, <5>2
    <3> QED
      BY <2>1, <3>1 DEF shift_read
  <2> QED
    BY <2>1 DEF IInv, TypeOK, shift_write, latch_mode, load_latch
<1>7. data' \in [Drives -> [0 .. Tracks * TrackLen - 1 -> Bytes]]
  <2>1. \/ data' = data
        \/ data' = [data EXCEPT ![currentDrive][Under(currentDrive)] = dLatch]
    BY DEF shift_read, shift_write, latch_mode, load_latch
  <2>2. /\ data \in [Drives -> [0 .. Tracks * TrackLen - 1 -> Bytes]]
        /\ currentDrive \in Drives
        /\ dLatch \in Bytes
    BY DEF IInv, TypeOK
  <2> DEFINE T == 0 .. Tracks * TrackLen - 1
  <2> HIDE DEF T
  <2>3. data \in [Drives -> [T -> Bytes]]
    BY <2>2 DEF T
  <2>4. data' \in [Drives -> [T -> Bytes]]
    BY <2>1, <2>2, <2>3
  <2> QED
    BY <2>4 DEF T
<1>8. wild' \in BOOLEAN
  BY DEF IInv, TypeOK, shift_read, shift_write, latch_mode, load_latch
<1> QED
  BY <1>1, <1>3, <1>4, <1>6, <1>7, <1>8
     DEF IInv, TypeOK, OneMotor, TrackFollowsHead, SlicesCounted, head, motor, loop

\* The frame loop: a further slice has counted updatedrive up.
LEMMA LoopKeeps ==
    ASSUME IInv, machine_Run \/ slice_ends \/ machine_Render
    PROVE  IInv'
<1>1. UNCHANGED <<head, media, motor>>
  BY DEF machine_Run, slice_ends, machine_Render
<1>2. /\ updatedrive' \in 0 .. UpdateMod - 1
      /\ at' \in {"frame", "slice", "render"}
      /\ slices' \in Nat
      /\ SlicesCounted'
  <2>1. CASE machine_Run
    BY <2>1, DiskAssumption DEF machine_Run, IInv, TypeOK, SlicesCounted
  <2>2. CASE slice_ends
    <3>1. Counted \in 0 .. UpdateMod - 1
      BY DiskAssumption DEF Counted, IInv, TypeOK
    <3>2. ad_UpdateFloppyDisk => Counted = updatedrive + 1
      <4> SUFFICES ASSUME ad_UpdateFloppyDisk PROVE Counted = updatedrive + 1
        OBVIOUS
      <4>1. /\ Counted = (updatedrive + 1) % UpdateMod
            /\ (updatedrive + 1) % UpdateMod # 0
        BY DEF Counted, ad_UpdateFloppyDisk
      <4>2. updatedrive + 1 \in 1 .. UpdateMod /\ UpdateMod \in Nat \ {0}
        BY DiskAssumption DEF IInv, TypeOK
      <4>3. UpdateMod % UpdateMod = 0
        BY <4>2
      <4>4. updatedrive + 1 \in 1 .. UpdateMod - 1
        BY <4>1, <4>2, <4>3
      <4> QED
        BY <4>1, <4>2, <4>4
    <3> QED
      BY <2>2, <3>1, <3>2, DiskAssumption DEF slice_ends, IInv, TypeOK, SlicesCounted
  <2>3. CASE machine_Render
    BY <2>3 DEF machine_Render, IInv, TypeOK, SlicesCounted
  <2> QED
    BY <2>1, <2>2, <2>3
<1> QED
  BY <1>1, <1>2 DEF IInv, TypeOK, OneMotor, TrackFollowsHead, head, media, motor

\* Every step of the machine keeps the inductive invariant.
LEMMA NextKeeps ==
    ASSUME IInv, [Next]_vars
    PROVE  IInv'
<1>1. CASE UNCHANGED vars
  BY <1>1 DEF vars, head, media, motor, loop, IInv, TypeOK, OneMotor,
              TrackFollowsHead, SlicesCounted
<1>2. CASE SoftSwitch
  BY <1>2, StepMotorKeeps, MotorKeeps, DataKeeps DEF SoftSwitch
<1>3. CASE machine_Run \/ slice_ends \/ machine_Render
  BY <1>3, LoopKeeps
<1> QED
  BY <1>1, <1>2, <1>3 DEF Next

\* The inductive invariant holds in every reachable state.
THEOREM Inductive == Spec => []IInv
  BY InitIInv, NextKeeps, PTL DEF Spec

\* The head stays between its stops, the nibble counter inside the track and
\* the image keeps its size, for every geometry.
THEOREM TypeCorrect == Spec => []TypeOK
<1>1. IInv => TypeOK
  BY DEF IInv
<1> QED
  BY <1>1, Inductive, PTL

\* No order of the motor and drive switches leaves a motor on in the drive
\* that is not selected.
THEOREM MotorsExclusive == Spec => []OneMotor
<1>1. IInv => OneMotor
  BY DEF IInv
<1> QED
  BY <1>1, Inductive, PTL

\* The data switches always use the track under the head.
THEOREM TrackMatchesHead == Spec => []TrackFollowsHead
<1>1. IInv => TrackFollowsHead
  BY DEF IInv
<1> QED
  BY <1>1, Inductive, PTL

\* A call of machine_Run gives the program at most UpdateMod slices, although
\* updatedrive enters it with any value and is only counted while the motor
\* of the selected drive turns.
THEOREM SlicesBounded == Spec => []BoundedSlices
<1>1. IInv => BoundedSlices
  BY DiskAssumption DEF IInv, TypeOK, SlicesCounted, BoundedSlices
<1> QED
  BY <1>1, Inductive, PTL

\* No access moves a head by more than one half track, nor the head of the
\* drive that is not selected.
THEOREM HeadSteps == Spec => HeadStepsByOne
<1> DEFINE Steps ==
      \A d \in Drives :
           /\ halfTrackPos'[d] - halfTrackPos[d] \in {-1, 0, 1}
           /\ halfTrackPos'[d] # halfTrackPos[d] => d = currentDrive
<1>1. IInv /\ [Next]_vars => [Steps]_vars
  <2> SUFFICES ASSUME IInv, Next PROVE Steps
    OBVIOUS
  <2>1. CASE UNCHANGED halfTrackPos
    BY <2>1, DiskAssumption DEF IInv, TypeOK
  <2>2. ASSUME NEW s \in Switches, ad_stepMotor(s), ~UNCHANGED halfTrackPos
        PROVE  Steps
    <3> DEFINE d == currentDrive
               phase == s \div 2
               bb == [phasesBB[d] EXCEPT ![pIdxB[d]] = phasesB[d][pIdxB[d]]]
    <3>1. /\ phase \in Phases
          /\ halfTrackPos' = [halfTrackPos EXCEPT ![d] = HeadMoves(@, bb, phase)]
      BY <2>2 DEF ad_stepMotor, stepMotor
    <3>2. d \in Drives /\ bb \in [Phases -> BOOLEAN]
      BY DEF IInv, TypeOK
    <3> HIDE DEF phase, bb
    <3>3. HeadMoves(halfTrackPos[d], bb, phase) - halfTrackPos[d] \in {-1, 0, 1}
      BY <3>1, <3>2, HeadMovesType DEF IInv, TypeOK
    <3> QED
      BY <3>1, <3>2, <3>3, DiskAssumption DEF IInv, TypeOK
  <2>3. UNCHANGED halfTrackPos \/ \E s \in Switches : ad_stepMotor(s)
    BY DEF Next, SoftSwitch, motor_switch, ad_setDrv, shift_read, shift_write,
           load_latch, latch_mode, machine_Run, slice_ends, machine_Render, head
  <2> QED
    BY <2>1, <2>2, <2>3
<1> QED
  BY <1>1, Inductive, PTL DEF Spec, HeadStepsByOne

\* The index that disk[d].data is accessed with belongs to the track.
LEMMA IndexOnTrack ==
    ASSUME NEW len \in Nat \ {0}, NEW k \in Nat, NEW n \in 0 .. len - 1
    PROVE  (k * len + n) \div len = k
  OBVIOUS

\* A store changes one nibble of the selected drive, on the track under its
\* head, whatever the track length.
THEOREM StoresOnTrack == Spec => StoresStayOnTrack
<1> DEFINE Stays ==
      \A d \in Drives : \A i \in DOMAIN data[d] :
           data'[d][i] # data[d][i] => d = currentDrive /\ i \div TrackLen = track[d]
<1>1. IInv /\ [Next]_vars => [Stays]_vars
  <2> SUFFICES ASSUME IInv, Next PROVE Stays
    OBVIOUS
  <2>1. CASE UNCHANGED data
    BY <2>1
  <2>2. CASE data' = [data EXCEPT ![currentDrive][Under(currentDrive)] = dLatch]
    <3>1. /\ data \in [Drives -> [0 .. Tracks * TrackLen - 1 -> Bytes]]
          /\ currentDrive \in Drives
      BY DEF IInv, TypeOK
    <3>2. \A d \in Drives : \A i \in DOMAIN data[d] :
              data'[d][i] # data[d][i] => d = currentDrive /\ i = Under(currentDrive)
      BY <2>2, <3>1
    <3>3. Under(currentDrive) \div TrackLen = track[currentDrive]
      <4>1. /\ track[currentDrive] \in Nat
            /\ nibble[currentDrive] \in 0 .. TrackLen - 1
            /\ TrackLen \in Nat \ {0}
        BY DiskAssumption DEF IInv, TypeOK
      <4> QED
        BY <4>1, IndexOnTrack DEF Under
    <3> QED
      BY <3>2, <3>3
  <2>3. \/ UNCHANGED data
        \/ data' = [data EXCEPT ![currentDrive][Under(currentDrive)] = dLatch]
    BY DEF Next, SoftSwitch, ad_stepMotor, motor_switch, ad_setDrv, shift_read,
           shift_write, load_latch, latch_mode, machine_Run, slice_ends,
           machine_Render, media
  <2> QED
    BY <2>1, <2>2, <2>3
<1> QED
  BY <1>1, Inductive, PTL DEF Spec, StoresStayOnTrack

-----------------------------------------------------------------------------
(***************************************************************************)
(* Seeking.  The argument is that phasesB and phasesBB, which ad_stepMotor *)
(* updates one entry at a time, are the magnets one and two switches ago   *)
(* (Delayed).  A program that releases first always compares the new phase *)
(* with the old one, and its head is exact.  One that energises first      *)
(* compares it with the old phase too, but for its first step, which finds *)
(* no history: that step is lost, and no later one is.                     *)
(***************************************************************************)

\* The magnets that are on in f, which is phases[0] or phasesB[0], are S.
Magnets(f, S) == \A p \in Phases : f[p] <=> p \in S

Neighbours(a, p) == a \in Phases /\ (p = (a + 1) % 4 \/ p = (a - 1) % 4)

\* Where a real head goes from q when the energised phase changes from a to p.
Moved(q, a, p) == IF p = (a + 1) % 4 THEN HeadOut(q) ELSE HeadIn(q)

\* The emulated head is on the half track q of the real one or one behind.
Near(pos, q) == pos <= q /\ q <= pos + 1

pos0 == halfTrackPos[0]

\* phasesB and phasesBB lag by one switch each.
Delayed ==
    /\ \A p \in Phases : p # pIdx[0] => phasesB[0][p] = phases[0][p]
    /\ \A p \in Phases : p # pIdxB[0] => phasesBB[0][p] = phasesB[0][p]

\* The magnets between two steps: before the first, and with phase a on.  The
\* phase before it still shows in phasesB when the program energises first.
Resting == Magnets(phases[0], {}) /\ Magnets(phasesB[0], {}) /\ pos0 = 0

Holding(a) ==
    /\ Magnets(phases[0], {a})
    /\ order = "energiseFirst" =>
         \/ Magnets(phasesB[0], {}) /\ pos0 = 0
         \/ \E o \in Phases : Neighbours(a, o) /\ Magnets(phasesB[0], {a, o})

\* The real head has been sent from q, where the emulated head is near, to
\* the phase p; the first step of an energising program starts from rest.
Sent(a, p) ==
    \E q \in 0 .. MaxHalf :
        /\ ideal[0] = Moved(q, a, p)
        /\ Near(pos0, q)
        /\ Magnets(phasesB[0], {}) /\ order = "energiseFirst" => q = 0

\* Where the program is in a step.
Stage ==
    \/ todo = <<>> /\ arm[0] = None /\ Resting /\ ideal[0] = 0
    \/ todo = <<1>> /\ arm[0] = 0 /\ Resting /\ ideal[0] = 0
    \/ /\ todo = <<>> /\ arm[0] \in Phases
       /\ Holding(arm[0]) /\ Near(pos0, ideal[0])
       /\ order = "energiseFirst" /\ Magnets(phasesB[0], {}) => ideal[0] = 0
    \/ \E a \in Phases :
         /\ Neighbours(a, arm[0])
         /\ \/ /\ todo = <<2 * a, 2 * arm[0] + 1>> /\ order = "releaseFirst"
               /\ Holding(a) /\ Sent(a, arm[0])
            \/ /\ todo = <<2 * arm[0] + 1>> /\ order = "releaseFirst"
               /\ Magnets(phases[0], {}) /\ Magnets(phasesB[0], {a})
               /\ Sent(a, arm[0])
            \/ /\ todo = <<2 * arm[0] + 1, 2 * a>> /\ order = "energiseFirst"
               /\ Holding(a) /\ Sent(a, arm[0])
            \/ /\ todo = <<2 * a>> /\ order = "energiseFirst"
               /\ Magnets(phases[0], {a, arm[0]}) /\ Magnets(phasesB[0], {a})
               /\ Near(pos0, ideal[0])

\* Steps inward bring the real head to 0, and without a step beyond the image
\* it is over the image, and back at 0 after fewer steps.
Counting ==
    /\ ideal[0] = 0 \/ ideal[0] + inward[0] <= MaxHalf
    /\ ~beyond => /\ ideal[0] <= 2 * (Tracks - 1)
                  /\ ideal[0] = 0 \/ ideal[0] + inward[0] <= 2 * (Tracks - 1)

\* The types of a seeking program's variables; it only uses the first drive.
ProgOK ==
    /\ order \in {"releaseFirst", "energiseFirst"}
    /\ arm \in [Drives -> Phases \cup {None}]
    /\ ideal \in [Drives -> 0 .. MaxHalf]
    /\ inward \in [Drives -> 0 .. MaxHalf]
    /\ beyond \in BOOLEAN
    /\ currentDrive = 0
    /\ halfTrackPos[1] = 0 /\ ideal[1] = 0 /\ inward[1] = 0

SeekInv == IInv /\ ProgOK /\ Delayed /\ Stage /\ Counting

\* Of the program that touches what it likes, only what the controller keeps
\* for every program is claimed.
Wandering == order = "loose" /\ IInv

USE DEF Drives, Phases

-----------------------------------------------------------------------------
(* The head.                                                               *)

\* The remainders that name the neighbours of a phase.
LEMMA PhaseArithmetic ==
    /\ \A p \in Phases : p = 0 \/ p = 1 \/ p = 2 \/ p = 3
    /\ (0 + 1) % 4 = 1 /\ (1 + 1) % 4 = 2 /\ (2 + 1) % 4 = 3 /\ (3 + 1) % 4 = 0
    /\ (0 - 1) % 4 = 3 /\ (1 - 1) % 4 = 0 /\ (2 - 1) % 4 = 1 /\ (3 - 1) % 4 = 2
<1>1. \A p \in Phases : p = 0 \/ p = 1 \/ p = 2 \/ p = 3
  OBVIOUS
<1>2. (0 + 1) % 4 = 1 /\ (1 + 1) % 4 = 2 /\ (2 + 1) % 4 = 3 /\ (3 + 1) % 4 = 0
  OBVIOUS
<1>3. (0 - 1) % 4 = 3
  <2>1. \A i \in Int : i % 4 \in 0 .. 3 /\ i \div 4 \in Int /\ i = 4 * (i \div 4) + (i % 4)
    OBVIOUS
  <2>2. \A q \in Int, m \in 0 .. 3 : 0 - 1 = 4 * q + m => m = 3
    OBVIOUS
  <2>3. 0 - 1 \in Int
    OBVIOUS
  <2> QED
    BY <2>1, <2>2, <2>3, Zenon
<1>4. (1 - 1) % 4 = 0 /\ (2 - 1) % 4 = 1 /\ (3 - 1) % 4 = 2
  OBVIOUS
<1> QED
  BY <1>1, <1>2, <1>3, <1>4

\* A neighbour is another phase, and neighbours are mutual.
LEMMA NeighbourFacts ==
    ASSUME NEW a, NEW p, Neighbours(a, p)
    PROVE  /\ a \in Phases /\ p \in Phases /\ a # p /\ Neighbours(p, a)
           /\ (p + 1) % 4 \in Phases /\ (p - 1) % 4 \in Phases
           /\ p = (a + 1) % 4 => (p - 1) % 4 = a /\ (p + 1) % 4 # a
           /\ p # (a + 1) % 4 => (p + 1) % 4 = a /\ (p - 1) % 4 # a
  BY PhaseArithmetic DEF Neighbours

\* A phase that follows the only one that was on moves the head to it.
LEMMA MovedByOne ==
    ASSUME NEW a, NEW p, Neighbours(a, p), NEW pos \in 0 .. MaxHalf,
           NEW f, Magnets(f, {a})
    PROVE  HeadMoves(pos, f, p) = Moved(pos, a, p)
  BY NeighbourFacts DEF HeadMoves, Moved, Magnets

\* It does so, too, when another neighbour of the old phase is still on.
LEMMA MovedByTwo ==
    ASSUME NEW a, NEW p, Neighbours(a, p), NEW o, Neighbours(a, o),
           NEW pos \in 0 .. MaxHalf, NEW f, Magnets(f, {a, o})
    PROVE  HeadMoves(pos, f, p) = Moved(pos, a, p)
<1>1. (p + 1) % 4 # o /\ (p - 1) % 4 # o
  BY PhaseArithmetic DEF Neighbours
<1> QED
  BY <1>1, NeighbourFacts DEF HeadMoves, Moved, Magnets

\* Without a phase that was on before, the head stays.
LEMMA MovedByNone ==
    ASSUME NEW p \in Phases, NEW pos \in 0 .. MaxHalf, NEW f, Magnets(f, {})
    PROVE  HeadMoves(pos, f, p) = pos
<1>1. (p + 1) % 4 \in Phases /\ (p - 1) % 4 \in Phases
  BY PhaseArithmetic
<1> QED
  BY <1>1 DEF HeadMoves, Magnets

\* Moving both heads keeps the emulated one near the real one, even at the
\* stops; a first step that only the real one makes leaves it near.
LEMMA StaysNear ==
    ASSUME NEW a, NEW p, NEW pos \in 0 .. MaxHalf, NEW q \in 0 .. MaxHalf, Near(pos, q)
    PROVE  /\ Moved(q, a, p) \in 0 .. MaxHalf
           /\ Near(Moved(pos, a, p), Moved(q, a, p))
           /\ q = 0 => Near(pos, Moved(q, a, p))
  BY DiskAssumption DEF Near, Moved, HeadIn, HeadOut

-----------------------------------------------------------------------------
(* The history.                                                            *)

\* With the history delayed, ad_stepMotor shifts it: what it compares the new
\* phase with are the magnets two switches ago.
LEMMA Lag ==
    ASSUME IInv, currentDrive = 0, Delayed, NEW s \in 0 .. 7, ad_stepMotor(s)
    PROVE  /\ phasesB'[0] = phases[0]
           /\ phases'[0] = [phases[0] EXCEPT ![s \div 2] = (s % 2 = 1)]
           /\ Delayed'
           /\ s % 2 = 0 => halfTrackPos' = halfTrackPos
           /\ s % 2 = 1 => pos0' = HeadMoves(pos0, phasesB[0], s \div 2)
           /\ halfTrackPos'[1] = halfTrackPos[1]
           /\ currentDrive' = 0
<1> DEFINE phase == s \div 2
           bb == [phasesBB[0] EXCEPT ![pIdxB[0]] = phasesB[0][pIdxB[0]]]
           b == [phasesB[0] EXCEPT ![pIdx[0]] = phases[0][pIdx[0]]]
           on == s % 2 = 1
<1>1. phase \in Phases
  OBVIOUS
<1>2. /\ phasesBB' = [phasesBB EXCEPT ![0] = bb]
      /\ phasesB' = [phasesB EXCEPT ![0][pIdx[0]] = phases[0][pIdx[0]]]
      /\ pIdxB' = [pIdxB EXCEPT ![0] = pIdx[0]]
      /\ pIdx' = [pIdx EXCEPT ![0] = phase]
      /\ phases' = [phases EXCEPT ![0][phase] = on]
      /\ s % 2 = 0 => halfTrackPos' = halfTrackPos
      /\ s % 2 = 1 => halfTrackPos' = [halfTrackPos EXCEPT ![0] = HeadMoves(@, bb, phase)]
      /\ currentDrive' = 0
  BY DEF ad_stepMotor, stepMotor, motor
<1>3. /\ phases \in [Drives -> [Phases -> BOOLEAN]]
      /\ phasesB \in [Drives -> [Phases -> BOOLEAN]]
      /\ phasesBB \in [Drives -> [Phases -> BOOLEAN]]
      /\ pIdx \in [Drives -> Phases] /\ pIdxB \in [Drives -> Phases]
      /\ halfTrackPos \in [Drives -> 0 .. MaxHalf]
  BY DEF IInv, TypeOK
<1>4. bb = phasesB[0]
  BY <1>3 DEF Delayed
<1>5. b = phases[0]
  BY <1>3 DEF Delayed
<1>6. phasesB'[0] = phases[0] /\ phasesBB'[0] = phasesB[0]
  BY <1>2, <1>3, <1>4, <1>5
<1> HIDE DEF bb, phase, on
<1>7. /\ phases'[0] = [phases[0] EXCEPT ![phase] = on]
      /\ pIdx'[0] = phase /\ pIdxB'[0] = pIdx[0]
  BY <1>1, <1>2, <1>3
<1>8. Delayed'
  BY <1>1, <1>3, <1>6, <1>7 DEF Delayed
<1>9. s % 2 = 1 => pos0' = HeadMoves(pos0, phasesB[0], phase)
  BY <1>2, <1>3, <1>4 DEF pos0
<1>10. halfTrackPos'[1] = halfTrackPos[1]
  <2>1. s % 2 = 0 \/ s % 2 = 1
    OBVIOUS
  <2> QED
    BY <2>1, <1>2, <1>3
<1> QED
  BY <1>2, <1>6, <1>7, <1>8, <1>9, <1>10 DEF phase, on

\* A touch of the switch of phase p, off and on.
LEMMA TouchOff ==
    ASSUME IInv, ProgOK, Delayed, NEW p \in Phases, NEW S, Magnets(phases[0], S),
           ad_stepMotor(2 * p)
    PROVE  /\ Magnets(phasesB'[0], S) /\ Magnets(phases'[0], S \ {p})
           /\ Delayed' /\ halfTrackPos' = halfTrackPos /\ currentDrive' = 0
<1>1. 2 * p \in 0 .. 7 /\ (2 * p) \div 2 = p /\ (2 * p) % 2 = 0
  OBVIOUS
<1>2. /\ phasesB'[0] = phases[0]
      /\ phases'[0] = [phases[0] EXCEPT ![p] = ((2 * p) % 2 = 1)]
      /\ Delayed' /\ halfTrackPos' = halfTrackPos /\ currentDrive' = 0
  BY <1>1, Lag DEF ProgOK
<1>3. phases[0] \in [Phases -> BOOLEAN] /\ ~((2 * p) % 2 = 1)
  BY <1>1 DEF IInv, TypeOK
<1>4. \A i \in Phases : phases'[0][i] <=> i # p /\ phases[0][i]
  BY <1>2, <1>3
<1> QED
  BY <1>2, <1>4 DEF Magnets

LEMMA TouchOn ==
    ASSUME IInv, ProgOK, Delayed, NEW p \in Phases, NEW S, Magnets(phases[0], S),
           ad_stepMotor(2 * p + 1)
    PROVE  /\ Magnets(phasesB'[0], S) /\ Magnets(phases'[0], S \cup {p})
           /\ Delayed' /\ currentDrive' = 0
           /\ halfTrackPos'[1] = halfTrackPos[1]
           /\ pos0' = HeadMoves(pos0, phasesB[0], p)
<1>1. 2 * p + 1 \in 0 .. 7 /\ (2 * p + 1) \div 2 = p /\ (2 * p + 1) % 2 = 1
  OBVIOUS
<1>2. /\ phasesB'[0] = phases[0]
      /\ phases'[0] = [phases[0] EXCEPT ![p] = TRUE]
      /\ Delayed' /\ currentDrive' = 0
      /\ halfTrackPos'[1] = halfTrackPos[1]
      /\ pos0' = HeadMoves(pos0, phasesB[0], p)
  BY <1>1, Lag DEF ProgOK
<1>3. phases[0] \in [Phases -> BOOLEAN]
  BY DEF IInv, TypeOK
<1> QED
  BY <1>2, <1>3 DEF Magnets

-----------------------------------------------------------------------------
(* The steps of the program.                                               *)

LEMMA InitSeekInv == SeekInit => SeekInv \/ Wandering
<1> SUFFICES ASSUME SeekInit PROVE SeekInv \/ Wandering
  OBVIOUS
<1>0. /\ Inserted /\ at = "slice" /\ slices = 1
      /\ order \in {"releaseFirst", "energiseFirst", "loose"} /\ beyond = FALSE
      /\ arm = [d \in Drives |-> None] /\ ideal = [d \in Drives |-> 0]
      /\ inward = [d \in Drives |-> 0] /\ todo = <<>>
  BY Zenon DEF SeekInit
<1>1. IInv
  <2>1. PICK image \in [0 .. Tracks * TrackLen - 1 -> Bytes] :
            data = [d \in Drives |-> IF d = 0 THEN image
                                     ELSE [i \in 0 .. Tracks * TrackLen - 1 |-> 0]]
    BY <1>0 DEF Inserted
  <2>2. data \in [Drives -> [0 .. Tracks * TrackLen - 1 -> Bytes]]
    BY <2>1, DiskAssumption
  <2>3. /\ nibble \in [Drives -> 0 .. TrackLen - 1]
        /\ halfTrackPos \in [Drives -> 0 .. MaxHalf]
        /\ track \in [Drives -> Nat]
        /\ updatedrive \in 0 .. UpdateMod - 1
    BY <1>0, DiskAssumption DEF Inserted
  <2>4. /\ motorOn \in [Drives -> BOOLEAN] /\ writeMode \in [Drives -> BOOLEAN]
        /\ phases \in [Drives -> [Phases -> BOOLEAN]]
        /\ phasesB \in [Drives -> [Phases -> BOOLEAN]]
        /\ phasesBB \in [Drives -> [Phases -> BOOLEAN]]
        /\ pIdx \in [Drives -> Phases] /\ pIdxB \in [Drives -> Phases]
    BY <1>0 DEF Inserted
  <2>5. /\ currentDrive \in Drives /\ dLatch \in Bytes /\ slices \in Nat
    BY <1>0, DiskAssumption DEF Inserted
  <2>6. wild \in BOOLEAN /\ at \in {"frame", "slice", "render"}
    BY <1>0, Zenon DEF Inserted
  <2>7. OneMotor /\ TrackFollowsHead /\ SlicesCounted
    BY <1>0 DEF Inserted, OneMotor, TrackFollowsHead, TrackOf, SlicesCounted
  <2> QED
    BY <2>2, <2>3, <2>4, <2>5, <2>6, <2>7 DEF IInv, TypeOK
<1>2. CASE order = "loose"
  BY <1>1, <1>2 DEF Wandering
<1>3. CASE order \in {"releaseFirst", "energiseFirst"}
  <2>1. /\ arm \in [Drives -> Phases \cup {None}]
        /\ ideal \in [Drives -> 0 .. MaxHalf] /\ inward \in [Drives -> 0 .. MaxHalf]
        /\ currentDrive = 0
        /\ halfTrackPos[1] = 0 /\ ideal[1] = 0 /\ inward[1] = 0
    BY <1>0, DiskAssumption DEF Inserted
  <2>2. beyond \in BOOLEAN
    BY <1>0, Zenon
  <2>3. ProgOK
    BY <1>3, <2>1, <2>2 DEF ProgOK
  <2>4. Delayed
    BY <1>0 DEF Inserted, Delayed
  <2>5. Magnets(phases[0], {}) /\ Magnets(phasesB[0], {})
    BY <1>0 DEF Inserted, Magnets
  <2>6. Stage
    BY <1>0, <2>5 DEF Inserted, Stage, Resting, pos0
  <2>7. Counting
    BY <1>0, DiskAssumption DEF Counting
  <2> QED
    BY <1>1, <2>3, <2>4, <2>6, <2>7 DEF SeekInv
<1> QED
  BY <1>0, <1>2, <1>3, Zenon

\* The first phase is energised with the head at rest.
LEMMA RestKeeps ==
    ASSUME SeekInv, Rest(0)
    PROVE  SeekInv'
<1>1. /\ todo = <<>> /\ arm[0] = None /\ arm' = [arm EXCEPT ![0] = 0] /\ todo' = <<1>>
      /\ UNCHANGED <<vars, order, ideal, inward, beyond>>
  BY DEF Rest
<1>2. IInv'
  BY <1>1, NextKeeps DEF SeekInv
<1>3. UNCHANGED <<currentDrive, phases, phasesB, phasesBB, pIdx, pIdxB, halfTrackPos>>
  BY <1>1 DEF vars, head, motor
<1>4. ProgOK' /\ Delayed' /\ Counting'
  BY <1>1, <1>3 DEF SeekInv, ProgOK, Delayed, Counting
<1>5. Resting /\ ideal[0] = 0
  BY <1>1 DEF SeekInv, Stage, None
<1>6. arm'[0] = 0 /\ Resting' /\ ideal'[0] = 0
  BY <1>1, <1>3, <1>5 DEF SeekInv, ProgOK, Resting, Magnets, pos0
<1>7. Stage'
  BY <1>1, <1>6 DEF Stage
<1> QED
  BY <1>2, <1>4, <1>7 DEF SeekInv

\* A step is decided on: the real head is sent to the neighbour p.
LEMMA AimKeeps ==
    ASSUME SeekInv, NEW a, a = arm[0], NEW p, Neighbours(a, p),
           NEW n \in 0 .. MaxHalf, NEW pos, pos = Moved(ideal[0], a, p),
           pos = 0 \/ n = 0 \/ (pos = ideal[0] - 1 /\ n <= inward[0] + 1),
           Aim(0, p, pos, n)
    PROVE  SeekInv'
<1>1. /\ todo = <<>> /\ a # None /\ arm' = [arm EXCEPT ![0] = p]
      /\ todo' = IF order = "energiseFirst" THEN <<2 * p + 1, 2 * a>>
                                             ELSE <<2 * a, 2 * p + 1>>
      /\ ideal' = [ideal EXCEPT ![0] = pos] /\ inward' = [inward EXCEPT ![0] = n]
      /\ beyond' = (beyond \/ pos > 2 * (Tracks - 1))
      /\ UNCHANGED <<vars, order>>
  BY DEF Aim
<1>2. IInv'
  BY <1>1, NextKeeps DEF SeekInv
<1>3. UNCHANGED <<currentDrive, phases, phasesB, phasesBB, pIdx, pIdxB, halfTrackPos>>
  BY <1>1 DEF vars, head, motor
<1>4. /\ a \in Phases /\ Holding(a) /\ Near(pos0, ideal[0])
      /\ order = "energiseFirst" /\ Magnets(phasesB[0], {}) => ideal[0] = 0
  BY <1>1 DEF SeekInv, Stage, None
<1>5. /\ ideal[0] \in 0 .. MaxHalf /\ pos0 \in 0 .. MaxHalf /\ pos \in 0 .. MaxHalf
      /\ p \in Phases
  <2>1. ideal[0] \in 0 .. MaxHalf /\ pos0 \in 0 .. MaxHalf
    BY DEF SeekInv, ProgOK, IInv, TypeOK, pos0
  <2> QED
    BY <2>1, <1>4, StaysNear, NeighbourFacts
<1>6. /\ ideal' \in [Drives -> 0 .. MaxHalf] /\ ideal'[0] = pos /\ ideal'[1] = 0
      /\ inward' \in [Drives -> 0 .. MaxHalf] /\ inward'[0] = n /\ inward'[1] = 0
      /\ arm' \in [Drives -> Phases \cup {None}] /\ arm'[0] = p
  BY <1>1, <1>5 DEF SeekInv, ProgOK
<1>7. beyond' \in BOOLEAN /\ (~beyond' => ~beyond /\ pos <= 2 * (Tracks - 1))
  <2>1. beyond' \in BOOLEAN /\ (~beyond' => ~beyond /\ ~(pos > 2 * (Tracks - 1)))
    BY <1>1, Zenon
  <2>2. ~(pos > 2 * (Tracks - 1)) => pos <= 2 * (Tracks - 1)
    BY <1>5, DiskAssumption
  <2> QED
    BY <2>1, <2>2, Zenon
<1>8. ProgOK'
  BY <1>1, <1>3, <1>6, <1>7 DEF SeekInv, ProgOK
<1>9. Delayed' /\ Counting'
  <2>1. Delayed'
    BY <1>3 DEF SeekInv, Delayed
  <2>2. inward[0] \in 0 .. MaxHalf /\ MaxHalf \in Nat /\ Tracks \in Nat \ {0}
    BY DiskAssumption DEF SeekInv, ProgOK
  <2>3. pos = 0 \/ pos + n <= MaxHalf
    BY <1>5, <2>2 DEF SeekInv, Counting
  <2>4. ~beyond' => pos = 0 \/ pos + n <= 2 * (Tracks - 1)
    BY <1>5, <1>7, <2>2 DEF SeekInv, Counting
  <2> QED
    BY <1>6, <1>7, <2>1, <2>3, <2>4 DEF Counting
<1>10. Stage'
  <2>1. Holding(a)'
    BY <1>1, <1>3, <1>4 DEF Holding, Magnets, pos0
  <2>2. Sent(a, arm[0])'
    BY <1>1, <1>3, <1>4, <1>5, <1>6 DEF Sent, Magnets, pos0
  <2>3. Neighbours(a, arm'[0]) /\ a \in Phases
    BY <1>4, <1>6
  <2>4. \/ order' = "energiseFirst" /\ todo' = <<2 * arm'[0] + 1, 2 * a>>
        \/ order' = "releaseFirst" /\ todo' = <<2 * a, 2 * arm'[0] + 1>>
    BY <1>1, <1>6 DEF SeekInv, ProgOK
  <2> QED
    BY <2>1, <2>2, <2>3, <2>4, Zenon DEF Stage
<1> QED
  BY <1>2, <1>8, <1>9, <1>10 DEF SeekInv

\* Between touches only todo and the head change.
LEMMA TouchFrame ==
    ASSUME SeekInv, Touch, Delayed', currentDrive' = 0,
           halfTrackPos'[1] = halfTrackPos[1], Stage'
    PROVE  SeekInv'
<1>1. \E s \in Switches : ad_stepMotor(s)
  BY DEF Touch, ad_stepMotor, Access
<1>2. Next
  BY <1>1 DEF Next, SoftSwitch
<1>3. IInv'
  BY <1>2, NextKeeps DEF SeekInv
<1>4. UNCHANGED <<order, arm, ideal, inward, beyond>>
  BY DEF Touch
<1>5. ProgOK'
  BY <1>4 DEF SeekInv, ProgOK
<1>6. Counting'
  BY <1>4 DEF SeekInv, Counting
<1> QED
  BY <1>3, <1>5, <1>6 DEF SeekInv

\* Each touch leads from one stage of the step to the next.
LEMMA TouchKeeps ==
    ASSUME SeekInv, Touch
    PROVE  SeekInv'
<1>1. /\ todo # <<>> /\ ad_stepMotor(Head(todo)) /\ todo' = Tail(todo)
      /\ UNCHANGED <<order, arm, ideal, inward, beyond>>
  BY DEF Touch
<1>2. /\ IInv /\ ProgOK /\ Delayed /\ pos0 \in 0 .. MaxHalf /\ ideal[0] \in 0 .. MaxHalf
  BY DEF SeekInv, IInv, TypeOK, ProgOK, pos0
<1>3. CASE todo = <<1>> /\ arm[0] = 0 /\ Resting /\ ideal[0] = 0
  <2>1. ad_stepMotor(2 * 0 + 1) /\ todo' = <<>> /\ 0 \in Phases
    BY <1>1, <1>3
  <2>2. /\ Magnets(phasesB'[0], {}) /\ Magnets(phases'[0], {} \cup {0})
        /\ Delayed' /\ currentDrive' = 0 /\ halfTrackPos'[1] = halfTrackPos[1]
        /\ pos0' = HeadMoves(pos0, phasesB[0], 0)
    BY <1>2, <1>3, <2>1, TouchOn DEF Resting
  <2>3. pos0' = 0
    BY <1>2, <1>3, <2>1, <2>2, MovedByNone DEF Resting
  <2>4. Magnets(phases'[0], {0})
    BY <2>2 DEF Magnets
  <2>5. arm'[0] = 0 /\ ideal'[0] = 0
    BY <1>1, <1>3
  <2>6. Holding(arm[0])' /\ Near(pos0, ideal[0])'
    BY <2>2, <2>3, <2>4, <2>5 DEF Holding, Near
  <2>7. Stage'
    BY <2>1, <2>5, <2>6 DEF Stage
  <2> QED
    BY <2>2, <2>7, TouchFrame
<1>4. ASSUME NEW a \in Phases, Neighbours(a, arm[0]), order = "releaseFirst",
             todo = <<2 * a, 2 * arm[0] + 1>>, Holding(a), Sent(a, arm[0])
      PROVE  SeekInv'
  <2>1. ad_stepMotor(2 * a) /\ todo' = <<2 * arm[0] + 1>>
    BY <1>1, <1>4
  <2>2. /\ Magnets(phasesB'[0], {a}) /\ Magnets(phases'[0], {a} \ {a})
        /\ Delayed' /\ halfTrackPos' = halfTrackPos /\ currentDrive' = 0
    BY <1>2, <1>4, <2>1, TouchOff DEF Holding
  <2>3. Magnets(phases'[0], {})
    BY <2>2 DEF Magnets
  <2>4. Sent(a, arm[0])'
    BY <1>1, <1>4, <2>2 DEF Sent, pos0
  <2>5. Neighbours(a, arm'[0]) /\ todo' = <<2 * arm'[0] + 1>> /\ order' = "releaseFirst"
    BY <1>1, <1>4, <2>1
  <2>6. Stage'
    BY <2>2, <2>3, <2>4, <2>5, Zenon DEF Stage
  <2> QED
    BY <2>2, <2>6, TouchFrame
<1>5. ASSUME NEW a \in Phases, Neighbours(a, arm[0]), order = "releaseFirst",
             todo = <<2 * arm[0] + 1>>, Magnets(phases[0], {}),
             Magnets(phasesB[0], {a}), Sent(a, arm[0])
      PROVE  SeekInv'
  <2>1. ad_stepMotor(2 * arm[0] + 1) /\ todo' = <<>> /\ arm[0] \in Phases
    BY <1>1, <1>5, NeighbourFacts
  <2>2. /\ Magnets(phases'[0], {} \cup {arm[0]})
        /\ Delayed' /\ currentDrive' = 0 /\ halfTrackPos'[1] = halfTrackPos[1]
        /\ pos0' = HeadMoves(pos0, phasesB[0], arm[0])
    BY <1>2, <1>5, <2>1, TouchOn
  <2>3. pos0' = Moved(pos0, a, arm[0])
    BY <1>2, <1>5, <2>2, MovedByOne
  <2>4. PICK q \in 0 .. MaxHalf : ideal[0] = Moved(q, a, arm[0]) /\ Near(pos0, q)
    BY <1>5 DEF Sent
  <2>5. Near(pos0', ideal[0])
    BY <1>2, <2>3, <2>4, StaysNear
  <2>6. Near(pos0, ideal[0])'
    BY <1>1, <2>5 DEF Near
  <2>7. Holding(arm[0])' /\ order' = "releaseFirst" /\ arm'[0] \in Phases
    BY <1>1, <1>5, <2>1, <2>2 DEF Holding, Magnets
  <2>8. Stage'
    BY <2>1, <2>6, <2>7 DEF Stage
  <2> QED
    BY <2>2, <2>8, TouchFrame
<1>6. ASSUME NEW a \in Phases, Neighbours(a, arm[0]), order = "energiseFirst",
             todo = <<2 * arm[0] + 1, 2 * a>>, Holding(a), Sent(a, arm[0])
      PROVE  SeekInv'
  <2>1. ad_stepMotor(2 * arm[0] + 1) /\ todo' = <<2 * a>> /\ arm[0] \in Phases
    BY <1>1, <1>6, NeighbourFacts
  <2>2. /\ Magnets(phasesB'[0], {a}) /\ Magnets(phases'[0], {a} \cup {arm[0]})
        /\ Delayed' /\ currentDrive' = 0 /\ halfTrackPos'[1] = halfTrackPos[1]
        /\ pos0' = HeadMoves(pos0, phasesB[0], arm[0])
    BY <1>2, <1>6, <2>1, TouchOn DEF Holding
  <2>3. PICK q \in 0 .. MaxHalf : /\ ideal[0] = Moved(q, a, arm[0]) /\ Near(pos0, q)
                                  /\ Magnets(phasesB[0], {}) => q = 0
    BY <1>6 DEF Sent
  <2>4. Near(pos0', ideal[0])
    <3>1. CASE Magnets(phasesB[0], {})
      <4>1. pos0' = pos0
        BY <1>2, <2>1, <2>2, <3>1, MovedByNone
      <4> QED
        BY <1>2, <2>3, <3>1, <4>1, StaysNear
    <3>2. CASE ~Magnets(phasesB[0], {})
      <4>1. PICK o \in Phases : Neighbours(a, o) /\ Magnets(phasesB[0], {a, o})
        BY <1>6, <3>2 DEF Holding
      <4>2. pos0' = Moved(pos0, a, arm[0])
        BY <1>2, <1>6, <2>2, <4>1, MovedByTwo
      <4> QED
        BY <1>2, <2>3, <4>2, StaysNear
    <3> QED
      BY <3>1, <3>2
  <2>5. Near(pos0, ideal[0])'
    BY <1>1, <2>4 DEF Near
  <2>6. /\ Neighbours(a, arm'[0]) /\ todo' = <<2 * a>> /\ order' = "energiseFirst"
        /\ Magnets(phases'[0], {a, arm'[0]})
    BY <1>1, <1>6, <2>1, <2>2 DEF Magnets
  <2>7. Stage'
    BY <2>2, <2>5, <2>6, Zenon DEF Stage
  <2> QED
    BY <2>2, <2>7, TouchFrame
<1>7. ASSUME NEW a \in Phases, Neighbours(a, arm[0]), order = "energiseFirst",
             todo = <<2 * a>>, Magnets(phases[0], {a, arm[0]}), Near(pos0, ideal[0])
      PROVE  SeekInv'
  <2>1. ad_stepMotor(2 * a) /\ todo' = <<>>
    BY <1>1, <1>7
  <2>2. /\ Magnets(phasesB'[0], {a, arm[0]}) /\ Magnets(phases'[0], {a, arm[0]} \ {a})
        /\ Delayed' /\ halfTrackPos' = halfTrackPos /\ currentDrive' = 0
    BY <1>2, <1>7, <2>1, TouchOff
  <2>3. a # arm[0] /\ arm[0] \in Phases /\ Neighbours(arm[0], a) /\ arm' = arm
    BY <1>1, <1>7, NeighbourFacts
  <2>4. /\ Magnets(phases'[0], {arm'[0]}) /\ Magnets(phasesB'[0], {arm'[0], a})
        /\ ~Magnets(phasesB'[0], {})
    BY <2>2, <2>3 DEF Magnets
  <2>5. Holding(arm[0])'
    BY <2>3, <2>4 DEF Holding
  <2>6. Near(pos0, ideal[0])'
    BY <1>1, <1>7, <2>2 DEF Near, pos0
  <2>7. Stage'
    BY <2>1, <2>3, <2>4, <2>5, <2>6 DEF Stage
  <2> QED
    BY <2>2, <2>7, TouchFrame
<1> QED
  BY <1>1, <1>3, <1>4, <1>5, <1>6, <1>7 DEF SeekInv, Stage

\* Reading and writing leave the head alone.
LEMMA IdleKeeps ==
    ASSUME SeekInv, Transfer \/ UNCHANGED <<vars, prog>>
    PROVE  SeekInv'
<1>1. UNCHANGED <<head, currentDrive>>
  BY DEF Transfer, shift_read, shift_write, load_latch, latch_mode, vars, motor
<1>2. UNCHANGED <<order, arm, todo, ideal, inward, beyond>>
  BY DEF Transfer, prog
<1>3. IInv'
  <2>1. CASE UNCHANGED vars
    BY <2>1, NextKeeps DEF SeekInv
  <2>2. CASE Transfer
    <3>1. SoftSwitch
      BY <2>2 DEF Transfer, SoftSwitch, shift_read, shift_write, load_latch, latch_mode,
                  Access
    <3> QED
      BY <3>1, NextKeeps DEF SeekInv, Next
  <2> QED
    BY <2>1, <2>2
<1>4. UNCHANGED <<phases, phasesB, phasesBB, pIdx, pIdxB, halfTrackPos>>
  BY <1>1 DEF head
<1>5. ProgOK' /\ Counting'
  <2>1. ProgOK'
    BY <1>1, <1>2, <1>4 DEF SeekInv, ProgOK
  <2>2. Counting'
    BY <1>2 DEF SeekInv, Counting
  <2> QED
    BY <2>1, <2>2
<1>6. Delayed'
  BY <1>4 DEF SeekInv, Delayed
<1>7. Stage'
  BY <1>2, <1>4, Zenon DEF SeekInv, Stage, Resting, Holding, Sent, Near, pos0, Magnets
<1> QED
  BY <1>3, <1>5, <1>6, <1>7 DEF SeekInv

LEMMA SeekingKeeps ==
    ASSUME SeekInv, [SeekNext]_<<vars, prog>>
    PROVE  SeekInv'
<1>1. /\ currentDrive = 0 /\ ideal[0] \in 0 .. MaxHalf /\ inward[0] \in 0 .. MaxHalf
      /\ arm[0] \in Phases \cup {None}
      /\ ideal[0] = 0 \/ ideal[0] + inward[0] <= MaxHalf
      /\ MaxHalf \in Nat
  BY DiskAssumption DEF SeekInv, ProgOK, Counting
<1>2. CASE Rest(currentDrive)
  BY <1>1, <1>2, RestKeeps
<1>3. CASE StepOut(currentDrive)
  <2>1. Aim(0, (arm[0] + 1) % 4, HeadOut(ideal[0]), 0) /\ arm[0] \in Phases
    BY <1>1, <1>3 DEF StepOut, Aim
  <2>2. Neighbours(arm[0], (arm[0] + 1) % 4)
    BY <2>1 DEF Neighbours
  <2>3. HeadOut(ideal[0]) = Moved(ideal[0], arm[0], (arm[0] + 1) % 4) /\ 0 \in 0 .. MaxHalf
    BY <1>1 DEF Moved
  <2> QED
    BY <1>1, <2>1, <2>2, <2>3, AimKeeps
<1>4. CASE StepIn(currentDrive)
  <2> DEFINE run == IF inward[0] < MaxHalf THEN inward[0] + 1 ELSE inward[0]
  <2>1. Aim(0, (arm[0] - 1) % 4, HeadIn(ideal[0]), run) /\ arm[0] \in Phases
    BY <1>1, <1>4 DEF StepIn, Aim
  <2>2. Neighbours(arm[0], (arm[0] - 1) % 4)
    BY <2>1 DEF Neighbours
  <2>3. (arm[0] - 1) % 4 # (arm[0] + 1) % 4
    BY <2>1, PhaseArithmetic
  <2>4. HeadIn(ideal[0]) = Moved(ideal[0], arm[0], (arm[0] - 1) % 4)
    BY <2>3 DEF Moved
  <2>5. /\ run \in 0 .. MaxHalf /\ run <= inward[0] + 1
        /\ HeadIn(ideal[0]) = 0 \/ HeadIn(ideal[0]) = ideal[0] - 1
    BY <1>1 DEF HeadIn
  <2> HIDE DEF run
  <2> QED
    BY <2>1, <2>2, <2>4, <2>5, AimKeeps
<1>5. CASE Touch
  BY <1>5, TouchKeeps
<1>6. CASE Transfer \/ UNCHANGED <<vars, prog>>
  BY <1>6, IdleKeeps
<1>7. CASE Wander
  BY <1>7 DEF Wander, SeekInv, ProgOK
<1> QED
  BY <1>2, <1>3, <1>4, <1>5, <1>6, <1>7 DEF SeekNext

\* Each touch of the third program is a soft switch of the controller.
LEMMA WanderingKeeps ==
    ASSUME Wandering, [SeekNext]_<<vars, prog>>
    PROVE  Wandering'
<1>1. Wander \/ UNCHANGED <<vars, prog>>
  BY DEF Wandering, SeekNext, Rest, StepOut, StepIn, Aim, Touch, Transfer, Seeking
<1>2. order' = order
  BY <1>1 DEF Wander, prog
<1>3. [Next]_vars
  <2>1. CASE Wander
    <3>1. \E s \in Switches : ad_stepMotor(s) \/ ad_setDrv(s)
      BY <2>1 DEF Wander, ad_stepMotor, ad_setDrv, Access
    <3> QED
      BY <3>1 DEF Next, SoftSwitch
  <2> QED
    BY <1>1, <2>1
<1> QED
  BY <1>2, <1>3, NextKeeps DEF Wandering

\* The inductive invariant holds in every reachable state of every program.
THEOREM SeekInductive == SeekSpec => [](SeekInv \/ Wandering)
<1>1. (SeekInv \/ Wandering) /\ [SeekNext]_<<vars, prog>> => (SeekInv \/ Wandering)'
  <2>1. (SeekInv \/ Wandering)' <=> SeekInv' \/ Wandering'
    OBVIOUS
  <2> QED
    BY <2>1, SeekingKeeps, WanderingKeeps
<1> QED
  BY <1>1, InitSeekInv, PTL DEF SeekSpec

\* Between two steps the emulated head is where a real one would be or one
\* half track behind it: the history that ad_stepMotor keeps loses the first
\* step of a program that energises first, and nothing else.
THEOREM SeeksAccurately == SeekSpec => []SeekAccurate
<1>1. SeekInv \/ Wandering => SeekAccurate
  <2> SUFFICES ASSUME SeekInv, todo = <<>>, NEW d \in Drives
               PROVE  halfTrackPos[d] - ideal[d] \in {-1, 0}
    BY DEF SeekAccurate, Seeking, Wandering
  <2>1. CASE d = 1
    BY <2>1 DEF SeekInv, ProgOK
  <2>2. CASE d = 0
    <3>1. pos0 \in 0 .. MaxHalf /\ ideal[0] \in 0 .. MaxHalf
      BY DEF SeekInv, IInv, TypeOK, ProgOK, pos0
    <3>2. Near(pos0, ideal[0])
      BY DEF SeekInv, Stage, Resting, Near
    <3> QED
      BY <2>2, <3>1, <3>2, DiskAssumption DEF Near, pos0
  <2> QED
    BY <2>1, <2>2
<1> QED
  BY <1>1, SeekInductive, PTL

\* As many steps inward as the head may have to come back over leave the
\* emulated head on half track 0, wherever it was.
THEOREM Recalibrates == SeekSpec => []Recalibrated
<1>1. SeekInv \/ Wandering => Recalibrated
  <2> SUFFICES ASSUME SeekInv, todo = <<>>, NEW d \in Drives, inward[d] >= Travel
               PROVE  halfTrackPos[d] = 0
    BY DEF Recalibrated, Seeking, Wandering
  <2>1. CASE d = 1
    BY <2>1 DEF SeekInv, ProgOK
  <2>2. CASE d = 0
    <3>1. pos0 \in 0 .. MaxHalf /\ ideal[0] \in 0 .. MaxHalf
      BY DEF SeekInv, IInv, TypeOK, ProgOK, pos0
    <3>2. Near(pos0, ideal[0])
      BY DEF SeekInv, Stage, Resting, Near
    <3>3. ideal[0] = 0
      <4>1. /\ inward[0] \in 0 .. MaxHalf /\ MaxHalf \in Nat /\ Tracks \in Nat \ {0}
            /\ inward[0] >= Travel
        BY <2>2, DiskAssumption DEF SeekInv, ProgOK
      <4>2. CASE beyond
        BY <3>1, <4>1, <4>2 DEF SeekInv, Counting, Travel
      <4>3. CASE ~beyond
        BY <3>1, <4>1, <4>3 DEF SeekInv, Counting, Travel
      <4> QED
        BY <4>2, <4>3
    <3> QED
      BY <2>2, <3>1, <3>2, <3>3, DiskAssumption DEF Near, pos0
  <2> QED
    BY <2>1, <2>2
<1> QED
  BY <1>1, SeekInductive, PTL

\* A program that asks for the tracks of the image only finds the head over
\* the image whenever it reads or writes, for every number of tracks: the
\* emulated head is never further out than the real one.
THEOREM StaysInImage == SeekSpec => []SeeksStayInImage
<1>1. SeekInv \/ Wandering => SeeksStayInImage
  <2> SUFFICES ASSUME SeekInv, ~beyond, todo = <<>> PROVE InData(0)
    BY DEF SeeksStayInImage, SeekInv, ProgOK, Seeking, Wandering
  <2>1. /\ pos0 \in Nat /\ ideal[0] \in Nat /\ Tracks \in Nat \ {0} /\ TrackLen \in Nat \ {0}
        /\ track[0] = TrackOf(pos0) /\ nibble[0] \in 0 .. TrackLen - 1
    BY DiskAssumption DEF SeekInv, IInv, TypeOK, ProgOK, pos0, TrackFollowsHead
  <2>2. Near(pos0, ideal[0])
    BY DEF SeekInv, Stage, Resting, Near
  <2>3. pos0 <= 2 * (Tracks - 1)
    BY <2>1, <2>2 DEF SeekInv, Counting, Near
  <2>4. track[0] \in Nat /\ track[0] <= Tracks - 1
    BY <2>1, <2>3 DEF TrackOf
  <2>5. track[0] * TrackLen <= (Tracks - 1) * TrackLen
    BY <2>1, <2>4
  <2>6. (Tracks - 1) * TrackLen = Tracks * TrackLen - TrackLen
    BY <2>1
  <2>7. track[0] * TrackLen \in Nat /\ Tracks * TrackLen \in Nat
    BY <2>1, <2>4
  <2> QED
    BY <2>1, <2>5, <2>6, <2>7 DEF InData, Under
<1> QED
  BY <1>1, SeekInductive, PTL

=============================================================================
