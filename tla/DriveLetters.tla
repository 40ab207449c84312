---------------------------- MODULE DriveLetters ----------------------------
(***************************************************************************)
(* The drives a machine's document declares and the letters they go by     *)
(* (reliquary.py): what testaferro computes, and what the guest's DOS does *)
(* as it comes up.  A letter is its place in the alphabet, A being 0; each *)
(* drive bears one volume, as the code has it of any declaration.          *)
(***************************************************************************)
EXTENDS Integers, FiniteSets

HddSlots == 4

\* A drive is the key it has in the document: floppy0, hdd2.
Floppy(n) == [bus |-> "floppy", slot |-> n]
Hdd(n) == [bus |-> "hdd", slot |-> n]
Drives == {Floppy(n) : n \in 0 .. 1} \cup {Hdd(n) : n \in 0 .. HddSlots - 1}

BaseLetter(d) == IF d.bus = "floppy" THEN 0 ELSE 2

(* Mistaken variant of the operator below: the slot's own number.          *)
LetterBySlot(d, drives) == BaseLetter(d) + d.slot

\* _letter_map: a drive's place among those of its bus, gaps closed up.
LetterOf(d, drives) ==
    BaseLetter(d) + Cardinality({e \in drives : e.bus = d.bus /\ e.slot < d.slot})

\* The drive a letter is given to; none has it if the set is empty.
Lettered(letter, drives) == {d \in drives : LetterOf(d, drives) = letter}

\* _work_slot: the lowest disk slot nobody declared.
FreeSlots(drives) == {n \in 0 .. HddSlots - 1 : Hdd(n) \notin drives}
WorkSlot(drives) ==
    CHOOSE d \in {Hdd(n) : n \in FreeSlots(drives)} : \A n \in FreeSlots(drives) : d.slot <= n

\* _default_location: the root of the work drive.
DefaultLocation(drives, work) == [letter |-> LetterOf(work, drives), dir |-> "root"]

(* The guest: DOS goes over the slots of a bus in order and gives each     *)
(* drive it finds there the next letter.                                   *)
NextLetter(bus, drives) ==
    LET next[n \in 0 .. HddSlots] ==
            IF n = 0 THEN BaseLetter([bus |-> bus, slot |-> 0])
            ELSE next[n - 1] + (IF [bus |-> bus, slot |-> n - 1] \in drives THEN 1 ELSE 0)
    IN  next

GuestLetter(d, drives) == NextLetter(d.bus, drives)[d.slot]
=============================================================================
