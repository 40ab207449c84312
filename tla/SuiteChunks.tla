---------------------------- MODULE SuiteChunks -----------------------------
(***************************************************************************)
(* SuiteBackend._chunks (suite.py), one name at a time: names is cut, in   *)
(* order, into the chunks that run_some asks the guest about.  A chunk is  *)
(* the interval of names' indices it covers.                               *)
(***************************************************************************)
EXTENDS SuiteArgv, FiniteSets

CONSTANT Subsets    \* the lists of names run_some may be given

ASSUME SuiteChunksAssumption == Subsets \subseteq Seq(Tests) \ {<<>>}

VARIABLES
    names,    \* the list to cut
    side,     \* the executing side, which states the budget
    at,       \* index of the next name to place
    from,     \* where the chunk being filled begins
    out       \* the chunks yielded so far

vars == <<names, side, at, from, out>>

Limited == side # "none"
Chunk(a, b) == SubSeq(names, a, b)
Finished == at = Len(names) + 1 /\ from = at

Init ==
    /\ names \in Subsets /\ side \in Sides
    /\ at = 1 /\ from = 1 /\ out = <<>>

(* Mistaken variant of the action below: the first name taken for a title. *)
YieldRest ==
    /\ ~Limited /\ at = 1
    /\ out' = <<[from |-> 2, to |-> Len(names)]>>
    /\ at' = Len(names) + 1 /\ from' = at'
    /\ UNCHANGED <<names, side>>

\* No budget: the whole list is one chunk.
YieldAll ==
    /\ ~Limited /\ at = 1
    /\ out' = <<[from |-> 1, to |-> Len(names)]>>
    /\ at' = Len(names) + 1 /\ from' = at'
    /\ UNCHANGED <<names, side>>

(* Mistaken variant of the action below: the name weighed on its own.      *)
PlaceAlone ==
    /\ Limited /\ at <= Len(names)
    /\ \/ /\ from < at /\ ~Fits(Chunk(at, at), side)
          /\ out' = Append(out, [from |-> from, to |-> at - 1])
          /\ from' = at
       \/ /\ from = at \/ Fits(Chunk(at, at), side)
          /\ UNCHANGED <<from, out>>
    /\ at' = at + 1
    /\ UNCHANGED <<names, side>>

(* Mistaken variant of the action below: the name that no longer fits is   *)
(* taken into the chunk it closes.                                         *)
PlaceTwice ==
    /\ Limited /\ at <= Len(names)
    /\ \/ /\ from < at /\ ~Fits(Chunk(from, at), side)
          /\ out' = Append(out, [from |-> from, to |-> at])
          /\ from' = at
       \/ /\ from = at \/ Fits(Chunk(from, at), side)
          /\ UNCHANGED <<from, out>>
    /\ at' = at + 1
    /\ UNCHANGED <<names, side>>

(* Mistaken variant of the action below: every chunk closed at two names.  *)
PlaceInPairs ==
    /\ Limited /\ at <= Len(names)
    /\ \/ /\ from < at /\ (~Fits(Chunk(from, at), side) \/ at - from = 2)
          /\ out' = Append(out, [from |-> from, to |-> at - 1])
          /\ from' = at
       \/ /\ from = at \/ (Fits(Chunk(from, at), side) /\ at - from < 2)
          /\ UNCHANGED <<from, out>>
    /\ at' = at + 1
    /\ UNCHANGED <<names, side>>

\* A name that no longer fits opens the next chunk.
Place ==
    /\ Limited /\ at <= Len(names)
    /\ \/ /\ from < at /\ ~Fits(Chunk(from, at), side)
          /\ out' = Append(out, [from |-> from, to |-> at - 1])
          /\ from' = at
       \/ /\ from = at \/ Fits(Chunk(from, at), side)
          /\ UNCHANGED <<from, out>>
    /\ at' = at + 1
    /\ UNCHANGED <<names, side>>

(* Mistaken variant of the action below: the end of the list, exclusive.   *)
YieldLastPast ==
    /\ at = Len(names) + 1 /\ from < at
    /\ out' = Append(out, [from |-> from, to |-> at])
    /\ from' = at
    /\ UNCHANGED <<names, side, at>>

YieldLast ==
    /\ at = Len(names) + 1 /\ from < at
    /\ out' = Append(out, [from |-> from, to |-> Len(names)])
    /\ from' = at
    /\ UNCHANGED <<names, side, at>>

Next == YieldAll \/ Place \/ YieldLast
Spec == Init /\ [][Next]_vars

-----------------------------------------------------------------------------
(* The shape of the state.                                                 *)
TypeOK ==
    /\ names \in Subsets
    /\ side \in Sides
    /\ at \in 1 .. Len(names) + 1
    /\ from \in 1 .. at
    /\ out \in Seq([from : 1 .. Len(names) + 1, to : 0 .. Len(names)])

(* The chunks follow one another from the first name on without gap or     *)
(* overlap, up to where the chunk being filled begins: no name is lost and *)
(* none is asked for twice.                                                *)
EveryNameOnce ==
    /\ out = <<>> => from = 1
    /\ out # <<>> => out[1].from = 1 /\ out[Len(out)].to = from - 1
    /\ \A k \in 1 .. Len(out) - 1 : out[k + 1].from = out[k].to + 1
    /\ \A k \in 1 .. Len(out) : out[k].from <= out[k].to

(* No exchange carries more than the guest can take: neither the program's *)
(* argument tail nor, where the command is typed, the line, unless a       *)
(* single name alone is too long.                                          *)
EveryLineFits ==
    \A k \in 1 .. Len(out) :
        out[k].from < out[k].to /\ Limited =>
            LET spent == Spent(Chunk(out[k].from, out[k].to))
            IN  /\ spent <= ArgumentTailLimit
                /\ side = "typed" => CommandLen + 1 + spent <= DosCommandLineLimit

(* The ways to cut the list into parts that fit, or are single names, each *)
(* by where its parts begin.                                               *)
Cuttings ==
    {starts \in SUBSET (1 .. Len(names)) :
        /\ 1 \in starts
        /\ \A a \in starts :
              LET b == CHOOSE b \in a .. Len(names) :
                          /\ b = Len(names) \/ b + 1 \in starts
                          /\ \A c \in a + 1 .. b : c \notin starts
              IN  a = b \/ ~Limited \/ Fits(Chunk(a, b), side)}

(* "A few exchanges": with a budget each chunk is the longest that can be  *)
(* taken of what was left (ResultBroker cuts its batches so), and no other *)
(* cutting of the list has fewer parts.                                    *)
FewestChunks ==
    /\ Limited => \A k \in 1 .. Len(out) :
          out[k].to - out[k].from + 1 = ChunkLen(Chunk(out[k].from, Len(names)), side)
    /\ Finished => \A starts \in Cuttings : Len(out) <= Cardinality(starts)
=============================================================================
