---------------------------- MODULE SuiteSession ----------------------------
(***************************************************************************)
(* A suite from its staging to its verdicts (reliquary.py, dosbox_x.py,    *)
(* placement.py, at_rest.py, suite.py): the set gathered on the host, the  *)
(* machine authored or taken up again, the set put where it was declared   *)
(* to go, boot and setup, and the exchanges of run_some, each with a chunk *)
(* that SuiteChunks cuts when it is asked for the next.                    *)
(*                                                                         *)
(* A plan is the sessions one tester holds in turn.  Those that persist    *)
(* share a kept machine; any other has a home of its own.  An executable   *)
(* is known by the number of the session that staged it, 0 being none.     *)
(* Bounds: at most two sessions, Calls calls of run_some in each, all for  *)
(* the same names, and one clean --system.                                 *)
(***************************************************************************)
EXTENDS SuiteChunks, DriveLetters

CONSTANTS
    Plans,       \* what may be declared, session by session
    Lists,       \* Lists[k]: the lists of names a suite of kind k may be asked for
    Calls,       \* how often run_some may be called in a session
    NoAddress    \* no location: none declared, or none settled yet

Dirs == {"root", "dir"}
Addresses == [letter : 0 .. 5, dir : Dirs]

Sessions ==
    [provider : {"reliquary", "dosbox-x", "callable"},
     drives   : SUBSET Drives,      \* the machine's own, {} for the default
     inPlace  : BOOLEAN,            \* whether their media are used where they are
     image    : BOOLEAN,            \* whether a boot image is given
     location : Addresses \cup {NoAddress},
     keep     : BOOLEAN,            \* persist=
     setup    : Nat,                \* how many commands setup= has
     kind     : DOMAIN Lists]       \* of the names it may be asked for

ASSUME SuiteSessionAssumption ==
    /\ NoAddress \notin Addresses
    /\ Calls \in Nat
    /\ \A k \in DOMAIN Lists : Lists[k] \subseteq Subsets
    /\ Plans \subseteq Seq(Sessions) \ {<<>>}

VARIABLES
    plan, turn,  \* the sessions, and which one it is
    stage,       \* "idle", "staged", "made", "placed", "booted", "up" or "over"
    work,        \* work[h][dir]: the executable in that directory of h's work
    bootImg,     \* the homes with a copy of the boot image, or part of one
    document,    \* document[h]: the machine's drives, each with its medium
    disk,        \* disk[h][d][dir]: the executable there, work drive apart
    writes,      \* writes[d]: what guests wrote to the kept machine's drive
    touched,     \* the files of others that were written to
    cleaned,     \* whether clean --system has been run
    address,     \* the location settled for the suite
    setups,      \* how many setup commands the guest that is up has run
    last,        \* the executable the last exchange ran, and after how many
    busy, calls, \* whether run_some is under way; how often it was called
    asked,       \* how many of its chunks have been exchanged
    wanted,      \* the names, by index, it has read an outcome for
    outfile,     \* the names DOSBox-X's output file, if any, reads as outcomes of
    ran,         \* the names the suite has run in the latest call
    told         \* the names whose outcome that call returned

chunking == <<names, side, at, from, out>>
homes == <<work, bootImg, document, disk, writes, touched>>
exchanges == <<setups, last, busy, calls, asked, wanted, outfile, ran, told>>
sessionVars == <<chunking, plan, turn, stage, homes, cleaned, address, exchanges>>

Homes == {"kept", "own"}
Now == plan[turn]
H == IF Now.keep THEN "kept" ELSE "own"

Medium(where, how) == [location |-> where, materialize |-> how]
Media ==
    {Medium("declared", "copy"), Medium("declared", "use"), Medium("boot.img", "use"),
     Medium("work", "use"), Medium("system", "copy"), Medium("system", "difference")}
Machine(h) == DOMAIN document[h]
NoDrives == [d \in {} |-> Medium("work", "use")]
WorkDrive(h) == CHOOSE d \in Machine(h) : document[h][d].location = "work"
Nothing == [dir \in Dirs |-> 0]
Nobody == [tried |-> FALSE, program |-> 0, setups |-> 0]

\* The budget is stated by who carries the argv.
SideOf(s) ==
    CASE s.provider = "reliquary" -> "typed"
      [] s.provider = "dosbox-x"  -> "tail"
      [] s.provider = "callable"  -> "none"

SessionInit ==
    /\ plan \in Plans /\ turn = 1 /\ stage = "idle"
    /\ names \in Lists[plan[1].kind] /\ side = SideOf(plan[1]) /\ Init
    /\ work = [h \in Homes |-> Nothing] /\ bootImg = {}
    /\ document = [h \in Homes |-> NoDrives]
    /\ disk = [h \in Homes |-> [d \in Drives |-> Nothing]]
    /\ writes = [d \in Drives |-> "none"] /\ touched = {} /\ cleaned = FALSE
    /\ address = NoAddress
    /\ setups = 0 /\ last = Nobody /\ busy = FALSE /\ calls = 0 /\ asked = 0
    /\ wanted = {} /\ outfile = {} /\ ran = {} /\ told = {}

-----------------------------------------------------------------------------
(* stop_guest: a home of its own is swept, a kept one stays as it is.      *)
StopGuest ==
    /\ stage' = "over" /\ address' = NoAddress
    /\ IF Now.keep THEN UNCHANGED <<work, bootImg, document>>
       ELSE /\ work' = [work EXCEPT !["own"] = Nothing]
            /\ bootImg' = bootImg \ {"own"}
            /\ document' = [document EXCEPT !["own"] = NoDrives]

\* What guests wrote to these drives of the kept machine is gone.
Lose(S) == writes' = [d \in Drives |-> IF d \in S /\ writes[d] = "there" THEN "lost" ELSE writes[d]]

(* Mistaken variant of the operator below: the copy made every time.       *)
StageBootImageAgain ==
    IF Now.image
      THEN /\ bootImg' = bootImg \cup {H}
           /\ Lose({d \in Machine("kept") : Now.keep /\ document["kept"][d].location = "boot.img"})
      ELSE UNCHANGED <<bootImg, writes>>

\* _stage_boot_image: a copy for this home, once and for all if it is kept.
StageBootImage ==
    IF Now.image /\ ~(Now.keep /\ H \in bootImg)
      THEN /\ bootImg' = bootImg \cup {H}
           /\ Lose({d \in Machine("kept") : Now.keep /\ document["kept"][d].location = "boot.img"})
      ELSE UNCHANGED <<bootImg, writes>>

(* start_guest up to its try: the work directory made anew, the set        *)
(* gathered in it, the boot image copied.  What raises here stops nothing. *)
Stage ==
    /\ stage = "idle" /\ Now.provider = "reliquary"
    /\ \/ /\ work' = [work EXCEPT ![H] = [Nothing EXCEPT !["root"] = turn]]
          /\ StageBootImage
          /\ stage' = "staged"
       \/ /\ work' = [work EXCEPT ![H] = Nothing]
          /\ UNCHANGED <<bootImg, writes>> \/ StageBootImage
          /\ stage' = "over"
    /\ UNCHANGED <<chunking, plan, turn, document, disk, touched, cleaned, address, exchanges>>

\* _reopen: the machine a kept home holds, by the document it was made of.
Reopen ==
    /\ stage = "staged" /\ Now.keep /\ Machine("kept") # {}
    /\ \/ stage' = "made" /\ UNCHANGED <<work, bootImg, document, address>>
       \/ StopGuest
    /\ UNCHANGED <<chunking, plan, turn, disk, writes, touched, cleaned, exchanges>>

\* The drives of a document without testaferro's own.
DeclaredDrives(s) ==
    IF s.drives # {} THEN s.drives ELSE IF s.image THEN {Floppy(0)} ELSE {Hdd(0)}

(* Mistaken variant of the operator below: the tester's image itself.      *)
MediumInPlace(s, d) ==
    IF s.drives # {} THEN Medium("declared", IF s.inPlace THEN "use" ELSE "copy")
    ELSE IF s.image THEN Medium("image", "use")
    ELSE Medium("system", IF s.keep THEN "copy" ELSE "difference")

\* A declaration's own drives are passed on as they are: the boot_image of
\* config() or the ini is one, with its file in place.
DeclaredMedium(s, d) ==
    IF s.drives # {} THEN Medium("declared", IF s.inPlace THEN "use" ELSE "copy")
    ELSE IF s.image THEN Medium("boot.img", "use")
    ELSE Medium("system", IF s.keep THEN "copy" ELSE "difference")

\* _blueprint: a declaration, the copy of a boot image, or the system disk,
\* copied if it is to be kept; and the work drive in the first free slot.
Blueprint(s) ==
    LET own == WorkSlot(DeclaredDrives(s))
    IN  [d \in DeclaredDrives(s) \cup {own} |->
            IF d = own THEN Medium("work", "use") ELSE DeclaredMedium(s, d)]

\* _create, refused when no slot is free.  A file used in place may be the
\* one an earlier session used, with what that put on it.
Create ==
    /\ stage = "staged" /\ ~(Now.keep /\ Machine("kept") # {})
    /\ \/ /\ FreeSlots(DeclaredDrives(Now)) # {}
          /\ document' = [document EXCEPT ![H] = Blueprint(Now)]
          /\ \E files \in {disk[h] : h \in Homes} :
                disk' = [disk EXCEPT ![H] =
                            [d \in Drives |-> IF Now.inPlace THEN files[d] ELSE Nothing]]
          /\ stage' = "made" /\ UNCHANGED <<work, bootImg, address>>
       \/ StopGuest /\ UNCHANGED disk
    /\ UNCHANGED <<chunking, plan, turn, writes, touched, cleaned, exchanges>>

\* Whose file a write to a drive reaches: a medium used in place is written.
Write(d) ==
    LET m == document[H][d]
    IN  touched' = touched \cup (IF m.materialize = "use" THEN {m.location} \ {"work", "boot.img"} ELSE {})

Wished == IF Now.location = NoAddress THEN DefaultLocation(Machine(H), WorkDrive(H)) ELSE Now.location

\* put_tree of the work directory, for a disk alone: a floppy has no MBR.
PutTree(d, dir) ==
    /\ d.bus = "hdd"
    /\ disk' = [disk EXCEPT ![H][d][dir] = work[H]["root"]]
    /\ Write(d)

(* _place: the location resolved to a drive by its letter, or refused; the *)
(* work drive has the set already, any other is written, up to where that  *)
(* raises.                                                                 *)
PlaceSuite ==
    /\ stage = "made"
    /\ \/ /\ \E d \in Lettered(Wished.letter, Machine(H)) :
                IF d = WorkDrive(H) THEN UNCHANGED <<disk, touched>> ELSE PutTree(d, Wished.dir)
          /\ \/ stage' = "placed" /\ address' = Wished /\ UNCHANGED <<work, bootImg, document>>
             \/ StopGuest
       \/ StopGuest /\ UNCHANGED <<disk, touched>>
    /\ UNCHANGED <<chunking, plan, turn, writes, cleaned, exchanges>>

\* start_machine and _wait_ready.
Boot ==
    /\ stage = "placed"
    /\ \/ stage' = "booted" /\ UNCHANGED <<work, bootImg, document, address>>
       \/ StopGuest
    /\ setups' = 0
    /\ UNCHANGED <<chunking, plan, turn, disk, writes, touched, cleaned,
                   last, busy, calls, asked, wanted, outfile, ran, told>>

\* _run_setup, one command of it; the last one opens the session.
Setup ==
    /\ stage = "booted"
    /\ \/ /\ setups < Now.setup
          /\ setups' = setups + 1
          /\ UNCHANGED <<stage, work, bootImg, document, address>>
       \/ /\ setups = Now.setup
          /\ stage' = "up" /\ UNCHANGED <<setups, work, bootImg, document, address>>
       \/ setups < Now.setup /\ StopGuest /\ UNCHANGED setups
    /\ UNCHANGED <<chunking, plan, turn, disk, writes, touched, cleaned,
                   last, busy, calls, asked, wanted, outfile, ran, told>>

(* DOSBox-X: the constructor's refusals, then the work directory alone,    *)
(* the set gathered where the location is.                                 *)
StartBatch ==
    LET where == IF Now.location = NoAddress THEN [letter |-> 3, dir |-> "root"] ELSE Now.location
    IN  /\ stage = "idle" /\ Now.provider = "dosbox-x"
        /\ \/ /\ ~Now.keep /\ ~Now.image /\ where.letter = 3
              /\ work' = [work EXCEPT !["own"] = [Nothing EXCEPT ![where.dir] = turn]]
              /\ stage' = "up" /\ address' = where
              /\ UNCHANGED <<bootImg, document>>
           \/ StopGuest
        /\ UNCHANGED <<chunking, plan, turn, disk, writes, touched, cleaned, exchanges>>

\* Backend.start_guest: a backend over a callable has no guest to start.
StartCallable ==
    /\ stage = "idle" /\ Now.provider = "callable"
    /\ stage' = "up"
    /\ UNCHANGED <<chunking, plan, turn, homes, cleaned, address, exchanges>>

(* Mistaken variant of the action below: the location left settled.        *)
StopStillPlaced ==
    /\ stage = "up" /\ ~busy
    /\ stage' = "over"
    /\ UNCHANGED <<chunking, plan, turn, homes, cleaned, address, exchanges>>

Stop ==
    /\ stage = "up" /\ ~busy
    /\ StopGuest
    /\ UNCHANGED <<chunking, plan, turn, disk, writes, touched, cleaned, exchanges>>

\* A list of names to be cut from its start.
CutAnew == at' = 1 /\ from' = 1 /\ out' = <<>>

\* The tester's next session, of another suite perhaps.
NextSession ==
    /\ stage = "over" /\ turn < Len(plan)
    /\ turn' = turn + 1 /\ stage' = "idle"
    /\ names' \in Lists[plan[turn + 1].kind] /\ side' = SideOf(plan[turn + 1]) /\ CutAnew
    /\ setups' = 0 /\ last' = Nobody /\ busy' = FALSE /\ calls' = 0 /\ asked' = 0
    /\ wanted' = {} /\ outfile' = {} /\ ran' = {} /\ told' = {}
    /\ UNCHANGED <<plan, homes, cleaned, address>>

\* clean --system between two sessions: what lay over the disk is void.
CleanSystem ==
    /\ stage = "over" /\ ~cleaned /\ cleaned' = TRUE
    /\ Lose({d \in Machine("kept") : document["kept"][d] = Medium("system", "difference")})
    /\ UNCHANGED <<chunking, plan, turn, stage, work, bootImg, document, disk, touched, address, exchanges>>

\* A program or DOS itself writes to a drive other than the work drive.
GuestWrites ==
    /\ stage = "up" /\ \E d \in {e \in Machine(H) : document[H][e].location # "work"} :
          /\ Write(d)
          /\ IF Now.keep /\ writes[d] = "none" THEN writes' = [writes EXCEPT ![d] = "there"]
                                               ELSE UNCHANGED writes
    /\ UNCHANGED <<chunking, plan, turn, stage, work, bootImg, document, disk, cleaned, address, exchanges>>

-----------------------------------------------------------------------------
\* run_some is called, for the names it was called for before.
RunSome ==
    /\ stage = "up" /\ ~busy /\ calls < Calls
    /\ busy' = TRUE /\ calls' = calls + 1 /\ asked' = 0
    /\ wanted' = {} /\ ran' = {} /\ told' = {}
    /\ UNCHANGED <<names, side>> /\ CutAnew
    /\ UNCHANGED <<plan, turn, stage, homes, cleaned, address, setups, last, outfile>>

\* The next chunk is cut when the last has been exchanged.
Cut ==
    /\ busy /\ asked = Len(out)
    /\ Next
    /\ UNCHANGED <<plan, turn, stage, homes, cleaned, address, exchanges>>

Asking == busy /\ asked < Len(out)
Asked == out[asked + 1].from .. out[asked + 1].to

\* What an output may show of the names asked for: all of them, or not all,
\* for which one left out is enough, as run_some looks for every one.
Shown == {Asked} \cup {Asked \ {i} : i \in Asked}

\* It reads as outcomes of these names, or an exception ends the call.
Reads(S) == asked' = asked + 1 /\ wanted' = wanted \cup S /\ UNCHANGED busy
Raises == busy' = FALSE /\ UNCHANGED <<asked, wanted>>

Exchanged == UNCHANGED <<chunking, plan, turn, stage, homes, cleaned, address, calls, told>>
Runs(program, n) == last' = [tried |-> TRUE, program |-> program, setups |-> n]

\* What the guest finds under the address that is typed.
Found ==
    LET drives == {d \in Machine(H) : GuestLetter(d, Machine(H)) = address.letter}
    IN  IF drives = {} THEN 0
        ELSE LET d == CHOOSE d \in drives : TRUE
             IN  IF d = WorkDrive(H) THEN work[H][address.dir] ELSE disk[H][d][address.dir]

(* _run_in_guest of reliquary: the command typed at the address; a time    *)
(* out, or what does not read, raises, as does DOS's own complaint.        *)
Type ==
    /\ Asking /\ Now.provider = "reliquary"
    /\ Runs(Found, setups)
    /\ \/ Found # 0 /\ ran' = ran \cup Asked /\ \E shown \in Shown : Reads(shown)
       \/ Found # 0 /\ ran' = ran \cup Asked /\ Raises
       \/ UNCHANGED ran /\ Raises
    /\ UNCHANGED <<setups, outfile>> /\ Exchanged

(* _run_in_guest of DOSBox-X: a guest of its own, setup and all.  A time   *)
(* out or an exit status raises, whatever is in the file; else the file is *)
(* read, though the program may never have come to write it.               *)
Invoke ==
    /\ Asking /\ Now.provider = "dosbox-x"
    /\ \/ /\ Runs(work["own"][address.dir], Now.setup)
          /\ ran' = ran \cup Asked /\ outfile' \in Shown /\ Reads(outfile')
       \/ /\ last.tried /\ Reads(outfile)
          /\ UNCHANGED <<ran, outfile, last>>
       \/ Raises /\ UNCHANGED <<ran, outfile, last>>
       \/ /\ Runs(work["own"][address.dir], Now.setup)
          /\ ran' = ran \cup Asked /\ outfile' \in Shown \cup {{}} /\ Raises
    /\ UNCHANGED setups /\ Exchanged

\* The callable run hands back the text.
Call ==
    /\ Asking /\ Now.provider = "callable"
    /\ ran' = ran \cup Asked
    /\ (\E shown \in Shown : Reads(shown)) \/ Raises
    /\ UNCHANGED <<setups, last, outfile>> /\ Exchanged

(* Mistaken variant of the action below: no name looked for.               *)
ReturnUnchecked ==
    /\ busy /\ Finished /\ asked = Len(out)
    /\ busy' = FALSE
    /\ told' = 1 .. Len(names)
    /\ UNCHANGED <<chunking, plan, turn, stage, homes, cleaned, address,
                   setups, last, calls, asked, wanted, outfile, ran>>

\* run_some returns, unless a name is missing: LookupError.
Return ==
    /\ busy /\ Finished /\ asked = Len(out)
    /\ busy' = FALSE
    /\ told' = IF 1 .. Len(names) \subseteq wanted THEN 1 .. Len(names) ELSE {}
    /\ UNCHANGED <<chunking, plan, turn, stage, homes, cleaned, address,
                   setups, last, calls, asked, wanted, outfile, ran>>

Start == Stage \/ Reopen \/ Create \/ PlaceSuite \/ Boot \/ Setup \/ StartBatch \/ StartCallable
Exchange == RunSome \/ Cut \/ Type \/ Invoke \/ Call \/ Return
SessionNext == Start \/ Exchange \/ GuestWrites \/ Stop \/ NextSession \/ CleanSystem
SessionSpec == SessionInit /\ [][SessionNext]_sessionVars

-----------------------------------------------------------------------------
(* The shape of the state: a machine has one work drive, in a slot nobody  *)
(* declared, a location is settled from its placement to the stop, and a   *)
(* call goes on only in a session that is up.                              *)
SessionTypeOK ==
    /\ TypeOK /\ plan \in Plans /\ turn \in 1 .. Len(plan)
    /\ stage \in {"idle", "staged", "made", "placed", "booted", "up", "over"}
    /\ work \in [Homes -> [Dirs -> Nat]] /\ bootImg \subseteq Homes
    /\ DOMAIN document = Homes
    /\ \A h \in Homes : /\ Machine(h) \subseteq Drives
                        /\ \A d \in Machine(h) : document[h][d] \in Media
                        /\ Machine(h) # {} =>
                              Cardinality({d \in Machine(h) : document[h][d].location = "work"}) = 1
    /\ disk \in [Homes -> [Drives -> [Dirs -> Nat]]]
    /\ writes \in [Drives -> {"none", "there", "lost"}]
    /\ touched \subseteq {"image", "system", "declared"} /\ cleaned \in BOOLEAN
    /\ address \in Addresses \cup {NoAddress}
    /\ address # NoAddress <=>
          stage \in {"placed", "booted", "up"} /\ Now.provider # "callable"
    /\ setups \in Nat /\ busy \in BOOLEAN /\ calls \in 0 .. Calls
    /\ last \in [tried : BOOLEAN, program : Nat, setups : Nat]
    /\ busy => stage = "up"
    /\ asked \in 0 .. Len(out)
    /\ wanted \cup outfile \cup ran \cup told \subseteq 1 .. Len(names)

\* A directory declared on reliquary's work drive: the set is at its root.
Misplaced ==
    /\ Now.provider = "reliquary" /\ address # NoAddress /\ address.dir = "dir"
    /\ address.letter = LetterOf(WorkDrive(H), Machine(H))

(* "The address staged against is the address spelled": every command the  *)
(* suite is run by finds the executable of this very session there, never  *)
(* one an earlier session left on a kept disk and never none, on a guest   *)
(* whose setup commands have each run once.  A directory declared on the   *)
(* work drive is the exception: there is nothing there.                    *)
RunsWhatItStaged ==
    last.tried /\ address # NoAddress =>
        /\ last.program = IF Misplaced THEN 0 ELSE turn
        /\ last.setups = Now.setup

\* The names of the call's first exchange, if it is a guest of DOSBox-X.
FirstAsked == IF side = "tail" /\ out # <<>> THEN out[1].from .. out[1].to ELSE {}

(* What a call of run_some returns for a name, the suite has printed for   *)
(* that name in that very call: no output left by an exchange before, none *)
(* of an exchange that failed and none of a chunk passes for another.  The *)
(* exception is the first exchange of a call under DOSBox-X, which a file  *)
(* that an earlier call left can answer, when it is of the same chunk: the *)
(* file is not removed before the command that is to write it anew.        *)
ToldWhatRan == told \subseteq ran \cup FirstAsked

(* "The tester's image is read and never written" (P5), and no guest can   *)
(* reach the one system disk each of them shares: neither by what is put   *)
(* on its drives nor by what its programs write there.  Only a drive that  *)
(* a declaration of this session or an earlier one has used in place, the  *)
(* boot_image of config() among them, is written to in the file it names.  *)
ImagesAreOnlyRead ==
    touched \subseteq IF \E k \in 1 .. turn : plan[k].inPlace THEN {"declared"} ELSE {}

(* A kept machine's disks are the state being kept: what a guest wrote to  *)
(* one is there in every later session, whatever that session declares,    *)
(* however it fails, and whether or not the cached system is dropped.      *)
KeptDisksKeepTheirState == \A d \in Drives : writes[d] # "lost"

(* "Testaferro runs it where it put it": what is declared either fails     *)
(* before the guest boots or is where the suite is found.                  *)
DeclaredAddressWorks == last.tried /\ address # NoAddress => last.program # 0
=============================================================================
