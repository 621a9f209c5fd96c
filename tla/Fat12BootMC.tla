---------------------------- MODULE Fat12BootMC -----------------------------
(***************************************************************************)
(* Disks with files in one piece, in pieces and in reverse order, and a    *)
(* kernel long enough to reach into a third 64K segment.                   *)
(***************************************************************************)
EXTENDS Fat12Boot

Straight(first, n) == [k \in 1 .. n |-> first + k - 1]
Reversed(first, n) == [k \in 1 .. n |-> first + n - k]
Strided(first, n)  == [k \in 1 .. n |-> first + 3 * (k - 1)]

MCDisks ==
    {[boot2 |-> Straight(2, 3), kernel |-> Straight(5, 140),
      dir |-> <<"boot2", "kernel">>],
     [boot2 |-> Reversed(300, 2), kernel |-> Reversed(2000, 70),
      dir |-> <<"other", "kernel", "other", "boot2">>],
     [boot2 |-> Strided(2, 5), kernel |-> Strided(340, 60),
      dir |-> [i \in 1 .. 40 |-> IF i = 20 THEN "boot2" ELSE IF i = 40 THEN "kernel"
                                 ELSE "other"]]}

=============================================================================
