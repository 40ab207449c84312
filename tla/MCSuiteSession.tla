--------------------------- MODULE MCSuiteSession ---------------------------
(* Instances of SuiteSession for TLC.                                      *)
EXTENDS SuiteSession

Lengths == <<8, 30, 120>>
UpTo(k) == UNION {[1 .. n -> Tests] : n \in 1 .. k}
UpToFive == UpTo(5)
ByKind == [five |-> UpToFive, three |-> UpTo(3), two |-> UpTo(2), pair |-> {<<1, 3>>}, one |-> {<<1>>}]

Address(l, d) == [letter |-> l, dir |-> d]
Plain == [provider |-> "reliquary", drives |-> {}, inPlace |-> FALSE, image |-> FALSE, location |-> NoAddress,
          keep |-> FALSE, setup |-> 0, kind |-> "one"]

\* One session of each provider, asked for any list.
AnyList ==
    {<<[Plain EXCEPT !.kind = "five"]>>,
     <<[Plain EXCEPT !.provider = "dosbox-x", !.kind = "three"]>>,
     <<[Plain EXCEPT !.provider = "callable", !.kind = "two"]>>}

\* Machines: testaferro's own, a boot image's, and declared ones, the slots
\* of whose disks are in order, have gaps, are full or begin late; and the
\* floppy or disk of a declaration that is used in place.
Like(D, here, given) == [drives |-> D, inPlace |-> here, image |-> given]
Declared ==
    {{Hdd(0)}, {Hdd(2)}, {Hdd(0), Hdd(3)}, {Floppy(0), Hdd(0), Hdd(1)},
     {Hdd(0), Hdd(1), Hdd(2), Hdd(3)}}
Defaults == {Like({}, FALSE, given) : given \in BOOLEAN}
InPlace == {Like({d}, TRUE, FALSE) : d \in {Floppy(0), Hdd(0)}}
Machines == Defaults \cup {Like(D, FALSE, FALSE) : D \in Declared} \cup InPlace
Locations == {NoAddress} \cup {Address(l, d) : l \in {0, 2, 3, 4}, d \in Dirs}

On(m, l, k, n) ==
    [Plain EXCEPT !.drives = m.drives, !.inPlace = m.inPlace, !.image = m.image,
                  !.location = l, !.keep = k, !.setup = n]

\* One session of each shape, and two in turn over one kept machine.
Single ==
    {<<On(m, l, k, 1)>> : m \in Machines, l \in Locations, k \in BOOLEAN}
        \cup {<<[On(m, l, k, 2) EXCEPT !.provider = "dosbox-x", !.kind = "pair"]>> :
                 m \in Defaults, l \in Locations, k \in BOOLEAN}
Kept(M, L) == {On(m, l, TRUE, 0) : m \in M, l \in L}
Twice ==
    {<<s, t>> :
        s \in Kept(Machines, {NoAddress, Address(2, "dir"), Address(3, "dir")}),
        t \in Kept({m \in Machines : m \in Defaults \/ m.drives = {Hdd(0), Hdd(3)}}, {NoAddress, Address(2, "dir")})}
Mixed == {<<On(m, NoAddress, FALSE, 1), Plain>> : m \in Machines}

AllPlans == AnyList \cup Single \cup Twice \cup Mixed
=============================================================================
