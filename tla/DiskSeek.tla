------------------------------ MODULE DiskSeek ------------------------------
(***************************************************************************)
(* The Disk ][ of DiskII driven by one of three programs.  Two seek the    *)
(* way Apple's software does: exactly one phase is energised between two   *)
(* steps, and a step energises one of its neighbours and releases the old  *)
(* phase, in one of two orders.  The boot PROM (diskII in rombios.h)       *)
(* releases first; the RWTS of DOS on the disk image energises first.  The *)
(* third program is any other: it touches phase switches and changes       *)
(* drives as it likes, so that both neighbours of a phase may be on.       *)
(*                                                                         *)
(* A real drive moves its head by one half track for each step of a seek.  *)
(* ad_stepMotor has no model of the magnets: it compares the energised     *)
(* phase with a history of the last switches.  The properties say how far  *)
(* that history may lead the emulated head astray.                         *)
(***************************************************************************)
EXTENDS DiskII, Sequences

CONSTANT Loose    \* the phase switches the third program touches

VARIABLES
    order,    \* which of the two orders the program uses, or "loose"
    arm,      \* the energised phase of each drive, or None before the first
    todo,     \* the switches left to touch in this step
    ideal,    \* where the head of a real drive would be
    inward,   \* steps towards track 0 in a row, up to MaxHalf
    beyond    \* whether a step went past the last track of the image

None == 4
prog == <<order, arm, todo, ideal, inward, beyond>>

Seeking == order \in {"releaseFirst", "energiseFirst"}

\* The program runs inside the first slice of a machine_Run.  The third one
\* leaves the data alone and has a blank disk.
SeekInit ==
    /\ Inserted
    /\ at = "slice"
    /\ slices = 1
    /\ order \in {"releaseFirst", "energiseFirst", "loose"}
    /\ order = "loose" => data[0] = data[1]
    /\ arm = [d \in Drives |-> None]
    /\ todo = <<>>
    /\ ideal = [d \in Drives |-> 0]
    /\ inward = [d \in Drives |-> 0]
    /\ beyond = FALSE

\* The first phase energised is the one the arm of the drive stands at.
Rest(d) ==
    /\ Seeking
    /\ todo = <<>>
    /\ arm[d] = None
    /\ arm' = [arm EXCEPT ![d] = 0]
    /\ todo' = <<1>>
    /\ UNCHANGED <<vars, order, ideal, inward, beyond>>

\* Decide on a step from the energised phase to its neighbour p.
Aim(d, p, pos, run) ==
    /\ Seeking
    /\ todo = <<>>
    /\ arm[d] # None
    /\ arm' = [arm EXCEPT ![d] = p]
    /\ todo' = IF order = "energiseFirst" THEN <<2 * p + 1, 2 * arm[d]>>
                                           ELSE <<2 * arm[d], 2 * p + 1>>
    /\ ideal' = [ideal EXCEPT ![d] = pos]
    /\ inward' = [inward EXCEPT ![d] = run]
    /\ beyond' = (beyond \/ pos > 2 * (Tracks - 1))
    /\ UNCHANGED <<vars, order>>

StepOut(d) ==
    Aim(d, (arm[d] + 1) % 4, HeadOut(ideal[d]), 0)

StepIn(d) ==
    Aim(d, (arm[d] - 1) % 4, HeadIn(ideal[d]),
        IF inward[d] < MaxHalf THEN inward[d] + 1 ELSE inward[d])

Touch ==
    /\ Seeking
    /\ todo # <<>>
    /\ ad_stepMotor(Head(todo))
    /\ todo' = Tail(todo)
    /\ UNCHANGED <<order, arm, ideal, inward, beyond>>

\* Between two steps a seeking program uses the data switches as it likes.
Transfer ==
    /\ Seeking
    /\ todo = <<>>
    /\ \/ shift_read(12)
       \/ shift_write(12)
       \/ \E value \in Bytes : load_latch(13, value)
       \/ \E s \in {14, 15} : latch_mode(s)
    /\ UNCHANGED prog

\* Phases on and off in any order, and the other drive at any time.
Wander ==
    /\ order = "loose"
    /\ \/ \E s \in Loose : ad_stepMotor(s)
       \/ \E s \in {10, 11} : ad_setDrv(s)
    /\ UNCHANGED prog

SeekNext ==
    \/ Rest(currentDrive)
    \/ StepOut(currentDrive)
    \/ StepIn(currentDrive)
    \/ Touch
    \/ Transfer
    \/ Wander

SeekSpec == SeekInit /\ [][SeekNext]_<<vars, prog>>

-----------------------------------------------------------------------------
(* Properties.                                                             *)

\* Between two steps the emulated head is where a real drive's would be or one
\* half track behind it, however often the program turns round or runs against
\* the stops: the history of ad_stepMotor never accumulates an error, and
\* never leads the head further out.
SeekAccurate ==
    Seeking /\ todo = <<>> =>
        \A d \in Drives : halfTrackPos[d] - ideal[d] \in {-1, 0}

\* The half tracks the head may have to come back over.
Travel == IF beyond THEN MaxHalf ELSE 2 * (Tracks - 1)

\* As many steps towards track 0 as the head may have to come back over leave
\* the emulated head on half track 0 exactly, wherever it was.  A program that
\* kept to the 35 tracks of the image needs 68; the boot PROM, which does not
\* know where the head is, makes 80 (LDY #$50).
Recalibrated ==
    Seeking /\ todo = <<>> =>
        \A d \in Drives : inward[d] >= Travel => halfTrackPos[d] = 0

\* A program that never asks for more than the tracks of the image never has
\* the head beyond them when it reads or writes, although the emulated head
\* may lag a half track behind a real one and ad_stepMotor's stop lies far
\* behind the last track of data.
SeeksStayInImage ==
    Seeking /\ ~beyond /\ todo = <<>> => InData(currentDrive)

=============================================================================
