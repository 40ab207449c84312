------------------------- MODULE ResultBroker_proof -------------------------
(* Proofs about ResultBroker, for any suite, selection and guest.          *)
EXTENDS ResultBroker, FiniteSetTheorems, TLAPS

(* Answers are kept for a whole batch at once: while one item of it has    *)
(* none, none has, so that a batch asked for never repeats a test that has *)
(* its answer.                                                             *)
Batches ==
    /\ Whole => \A t, u \in Tests : cache[t] = "unknown" => cache[u] = "unknown"
    /\ \A t \in selected : \A u \in Mates(t) :
          ~Whole /\ Cardinality(Mates(t)) # 1 /\ cache[t] = "unknown" => cache[u] = "unknown"
    /\ op = "all" => Whole
    /\ op = "some" => ~Whole /\ Cardinality(Mates(asking)) # 1
    /\ op = "one" => ~Whole /\ Cardinality(Mates(asking)) = 1

Operations ==
    /\ op # "idle" => asking \in selected /\ cache[asking] = "unknown"
    /\ rest \subseteq Tests /\ wanted \subseteq Tests
    /\ op = "some" => rest \subseteq Mates(asking)
    /\ \A t \in wanted : said[t] \in Verdicts

Shapes ==
    /\ selected \subseteq Tests
    /\ op \in {"idle", "all", "some", "one"}
    /\ cache \in [Tests -> Verdicts \cup {"unknown", "missing"}]
    /\ told \in [Tests -> Verdicts \cup {"nothing", "missing", "unreadable"}]
    /\ ran \in [Tests -> Nat]
    /\ said \in [Tests -> Verdicts \cup {"nothing"}]

Answers ==
    \A t \in Tests :
        /\ cache[t] \in Verdicts => cache[t] = said[t]
        /\ told[t] \in Verdicts => told[t] = cache[t]

BrokerInv == Shapes /\ Operations /\ Batches /\ Answers /\ OnlySelectedRun

LEMMA BrokerInvInit == Init => BrokerInv
<1> SUFFICES ASSUME Init PROVE BrokerInv
  OBVIOUS
<1> USE DEF Init
<1>1. Shapes
  BY DEF Shapes
<1>2. Operations /\ Answers /\ OnlySelectedRun
  BY DEF Operations, Answers, OnlySelectedRun, Verdicts
<1>3. Batches
  BY DEF Batches, Mates
<1> QED
  BY <1>1, <1>2, <1>3 DEF BrokerInv

LEMMA GuestRunsIs ==
  ASSUME Shapes, NEW asked, GuestRuns(asked)
  PROVE  /\ said' \in [Tests -> Verdicts \cup {"nothing"}]
         /\ ran' \in [Tests -> Nat]
         /\ \A t \in Tests :
               IF t \in asked /\ t \in present
                 THEN said'[t] \in Verdicts /\ ran'[t] = ran[t] + 1
                 ELSE said'[t] = said[t] /\ ran'[t] = ran[t]
<1>1. PICK verdict \in [asked \cap present -> Verdicts] :
        /\ said' = [t \in Tests |-> IF t \in asked \cap present THEN verdict[t] ELSE said[t]]
        /\ ran' = [t \in Tests |-> IF t \in asked \cap present THEN ran[t] + 1 ELSE ran[t]]
  BY DEF GuestRuns
<1> QED
  BY <1>1 DEF Shapes

LEMMA NextChunkIs == NextChunk \subseteq rest
  BY DEF NextChunk, FirstOf

(* An exchange of run_some whose output is readable and shows these tests: *)
(* the operation goes on, or ends with its batch kept, or with nothing.    *)
RunSomeShows(shown) ==
    LET left == rest \ NextChunk
        read == wanted \cup shown
        over == left = {} \/ (~batched /\ ~(NextChunk \subseteq shown))
    IN  /\ Shows(NextChunk, shown)
        /\ \/ ~over /\ rest' = left /\ wanted' = read /\ UNCHANGED <<asking, op, cache, told>>
           \/ /\ over /\ Mates(asking) \subseteq read
              /\ cache' = [t \in Tests |-> IF t \in Mates(asking) THEN said'[t] ELSE cache[t]]
              /\ Finish(said'[asking])
           \/ over /\ ~(Mates(asking) \subseteq read) /\ Finish("missing") /\ UNCHANGED cache

LEMMA RunSomeIs ==
  ASSUME RunSome
  PROVE  /\ op = "some" /\ GuestRuns(NextChunk) /\ UNCHANGED <<fixed, calls>>
         /\ Unreadable \/ \E shown : RunSomeShows(shown)
<1>1. /\ op = "some" /\ GuestRuns(NextChunk) /\ UNCHANGED <<fixed, calls>>
  BY DEF RunSome
<1>2. ASSUME ~Unreadable PROVE \E shown : RunSomeShows(shown)
  BY <1>2 DEF RunSome, RunSomeShows
<1> QED
  BY <1>1, <1>2

(* What an exchange may do, whichever operation it is part of: tests asked *)
(* for, none of which has an answer, are run, and some of them get theirs. *)
LEMMA ExchangeKeeps ==
  ASSUME BrokerInv, op # "idle", NEW asked, GuestRuns(asked), selected' = selected,
         op' \in {"idle", "all", "some", "one"},
         \A t \in asked \cap Tests : t \in selected /\ cache[t] = "unknown",
         cache' \in [Tests -> Verdicts \cup {"unknown", "missing"}],
         \A t \in Tests : cache'[t] # cache[t] =>
             cache[t] = "unknown" /\ (cache'[t] \in Verdicts => cache'[t] = said'[t]),
         \/ told' = told
         \/ Tell(asking, cache'[asking]) /\ cache'[asking] # "unknown"
         \/ Tell(asking, "missing") \/ Tell(asking, "unreadable")
  PROVE  Shapes' /\ Answers' /\ OnlySelectedRun'
<1> USE DEF BrokerInv, fixed
<1>1. /\ said' \in [Tests -> Verdicts \cup {"nothing"}]
      /\ ran' \in [Tests -> Nat]
      /\ \A t \in Tests :
            IF t \in asked /\ t \in present
              THEN said'[t] \in Verdicts /\ ran'[t] = ran[t] + 1
              ELSE said'[t] = said[t] /\ ran'[t] = ran[t]
  BY GuestRunsIs
<1>2. asking \in Tests /\ cache[asking] = "unknown"
  BY DEF Operations, Shapes
<1>3. /\ told' \in [Tests -> Verdicts \cup {"nothing", "missing", "unreadable"}]
      /\ \A t \in Tests : told'[t] \in Verdicts =>
            told'[t] = told[t] \/ (t = asking /\ told'[t] = cache'[t])
  BY <1>2 DEF Shapes, Tell, Verdicts
<1>4. OnlySelectedRun'
  BY <1>1 DEF OnlySelectedRun, Shapes
<1>5. \A t \in Tests : cache'[t] \in Verdicts => cache'[t] = said'[t]
  <2>1. SUFFICES ASSUME NEW t \in Tests, cache'[t] \in Verdicts PROVE cache'[t] = said'[t]
    OBVIOUS
  <2>2. CASE cache'[t] = cache[t]
    <3>1. cache[t] # "unknown"
      BY <2>1, <2>2 DEF Verdicts
    <3> QED
      BY <1>1, <2>1, <2>2, <3>1 DEF Answers
  <2>3. CASE cache'[t] # cache[t]
    BY <2>1, <2>3
  <2> QED
    BY <2>2, <2>3
<1>6. \A t \in Tests : told'[t] \in Verdicts => told'[t] = cache'[t]
  <2>1. SUFFICES ASSUME NEW t \in Tests, told'[t] \in Verdicts PROVE told'[t] = cache'[t]
    OBVIOUS
  <2>2. CASE told'[t] = told[t]
    <3>1. cache[t] = told[t] /\ cache[t] # "unknown"
      BY <2>1, <2>2 DEF Answers, Verdicts
    <3> QED
      BY <2>2, <3>1
  <2> QED
    BY <1>3, <2>1, <2>2
<1>7. Shapes'
  BY <1>1, <1>3 DEF Shapes
<1> QED
  BY <1>4, <1>5, <1>6, <1>7 DEF Answers, Shapes

LEMMA UnreadableIs ==
  ASSUME Unreadable
  PROVE  /\ cache' = cache /\ Tell(asking, "unreadable") /\ op' = "idle"
         /\ rest' = {} /\ wanted' = {}
  BY DEF Unreadable, Finish

(* What is left when an operation is over.                                 *)
LEMMA Over ==
  ASSUME op' = "idle", rest' = {}, wanted' = {}, selected' = selected,
         /\ Whole => \A t, u \in Tests : cache'[t] = "unknown" => cache'[u] = "unknown"
         /\ \A t \in selected : \A u \in Mates(t) :
               ~Whole /\ Cardinality(Mates(t)) # 1 /\ cache'[t] = "unknown" => cache'[u] = "unknown"
  PROVE  Operations' /\ Batches'
  BY DEF Operations, Batches, Whole, Mates

LEMMA RunAllKeeps == BrokerInv /\ RunAll => BrokerInv'
<1> SUFFICES ASSUME BrokerInv, RunAll PROVE BrokerInv'
  OBVIOUS
<1> USE DEF BrokerInv, fixed
<1>1. /\ op = "all" /\ GuestRuns(Tests) /\ selected' = selected /\ Whole
      /\ asking \in selected /\ cache[asking] = "unknown" /\ selected = Tests
      /\ \A t \in Tests : cache[t] = "unknown"
  BY DEF RunAll, Operations, Batches, Whole
<1>2. said' \in [Tests -> Verdicts \cup {"nothing"}]
      /\ \A t \in Tests \cap present : said'[t] \in Verdicts
  BY <1>1, GuestRunsIs
<1>3. CASE Unreadable
  <2>1. /\ cache' = cache /\ Tell(asking, "unreadable") /\ op' = "idle"
        /\ rest' = {} /\ wanted' = {}
    BY <1>3, UnreadableIs
  <2>2. Shapes' /\ Answers' /\ OnlySelectedRun'
    BY <1>1, <2>1, ExchangeKeeps DEF Shapes
  <2>3. Operations' /\ Batches'
    BY <1>1, <2>1, Over DEF Batches
  <2> QED
    BY <2>2, <2>3
<1>4. CASE ~Unreadable
  <2>1. PICK shown \in SUBSET present :
          /\ cache' = [t \in Tests |-> IF t \in shown THEN said'[t] ELSE "missing"]
          /\ Tell(asking, cache'[asking]) /\ op' = "idle" /\ rest' = {} /\ wanted' = {}
    BY <1>4 DEF RunAll, Finish
  <2>2. \A t \in Tests : /\ cache'[t] \in Verdicts \cup {"missing"}
                         /\ cache'[t] \in Verdicts => cache'[t] = said'[t]
    BY <1>2, <2>1 DEF Verdicts
  <2>3. /\ cache' \in [Tests -> Verdicts \cup {"unknown", "missing"}]
        /\ \A t \in Tests : cache'[t] # "unknown"
    BY <2>1, <2>2 DEF Verdicts
  <2>4. Shapes' /\ Answers' /\ OnlySelectedRun'
    BY <1>1, <2>1, <2>2, <2>3, ExchangeKeeps
  <2>5. Operations' /\ Batches'
    BY <1>1, <2>1, <2>3, Over DEF Mates
  <2> QED
    BY <2>4, <2>5
<1> QED
  BY <1>3, <1>4

LEMMA RunOneKeeps == BrokerInv /\ RunOne => BrokerInv'
<1> SUFFICES ASSUME BrokerInv, RunOne PROVE BrokerInv'
  OBVIOUS
<1> USE DEF BrokerInv, fixed
<1>1. /\ op = "one" /\ GuestRuns({asking}) /\ selected' = selected /\ ~Whole
      /\ asking \in selected /\ asking \in Tests /\ cache[asking] = "unknown"
      /\ Cardinality(Mates(asking)) = 1
  BY DEF RunOne, Operations, Batches, Shapes
<1>2. /\ said' \in [Tests -> Verdicts \cup {"nothing"}]
      /\ asking \in present => said'[asking] \in Verdicts
  BY <1>1, GuestRunsIs
<1>3. CASE cache' = cache /\ (Tell(asking, "unreadable") \/ Tell(asking, "missing"))
           /\ op' = "idle" /\ rest' = {} /\ wanted' = {}
  <2>1. Shapes' /\ Answers' /\ OnlySelectedRun'
    BY <1>1, <1>3, ExchangeKeeps DEF Shapes
  <2>2. Operations' /\ Batches'
    BY <1>1, <1>3, Over DEF Batches
  <2> QED
    BY <2>1, <2>2
<1>4. CASE /\ asking \in present /\ cache' = [cache EXCEPT ![asking] = said'[asking]]
           /\ Tell(asking, said'[asking]) /\ op' = "idle" /\ rest' = {} /\ wanted' = {}
  <2>a. said'[asking] \in Verdicts /\ asking \in Tests
    <3>1. asking \in present /\ said'[asking] \in Verdicts
      BY <1>2, <1>4
    <3>2. asking \in Tests
      BY <1>1 DEF Shapes
    <3> QED
      BY <3>1, <3>2
  <2>b. cache \in [Tests -> Verdicts \cup {"unknown", "missing"}]
    BY DEF Shapes
  <2>c. cache' = [cache EXCEPT ![asking] = said'[asking]]
    BY <1>4
  <2>d. cache' \in [Tests -> Verdicts \cup {"unknown", "missing"}]
    BY ONLY <2>a, <2>b, <2>c
  <2>e. cache'[asking] = said'[asking] /\ \A t \in Tests : t # asking => cache'[t] = cache[t]
    BY ONLY <2>a, <2>b, <2>c
  <2>1. /\ cache' \in [Tests -> Verdicts \cup {"unknown", "missing"}]
        /\ cache'[asking] = said'[asking] /\ cache'[asking] # "unknown"
        /\ \A t \in Tests : t # asking => cache'[t] = cache[t]
    BY <2>a, <2>d, <2>e DEF Verdicts
  <2>2. Shapes' /\ Answers' /\ OnlySelectedRun'
    BY <1>1, <1>4, <2>1, ExchangeKeeps
  <2>3. \A t \in selected : \A u \in Mates(t) :
           Cardinality(Mates(t)) # 1 /\ cache'[t] = "unknown" => cache'[u] = "unknown"
    <3>1. SUFFICES ASSUME NEW t \in selected, NEW u \in Mates(t),
                          Cardinality(Mates(t)) # 1, cache'[t] = "unknown"
                   PROVE  cache'[u] = "unknown"
      OBVIOUS
    <3>a. t \in Tests /\ u \in selected /\ u \in Tests
      BY <3>1 DEF Mates, Shapes
    <3>b. t # asking
      BY <2>1, <3>1
    <3>2. t \in Tests /\ u \in selected /\ u \in Tests /\ t # asking /\ cache[t] = "unknown"
      BY <2>1, <3>1, <3>a, <3>b
    <3>3. u # asking
      <4>1. SUFFICES ASSUME u = asking PROVE FALSE
        OBVIOUS
      <4>2. Mates(t) = Mates(asking)
        BY <4>1 DEF Mates
      <4> QED
        BY <1>1, <3>1, <4>2
    <3> QED
      BY <1>1, <2>1, <3>1, <3>2, <3>3 DEF Batches
  <2>4. Operations' /\ Batches'
    BY <1>1, <1>4, <2>3, Over
  <2> QED
    BY <2>2, <2>4
<1> QED
  BY <1>3, <1>4 DEF RunOne, Finish, Unreadable

LEMMA RunSomeKeeps == BrokerInv /\ RunSome => BrokerInv'
<1> SUFFICES ASSUME BrokerInv, RunSome PROVE BrokerInv'
  OBVIOUS
<1> USE DEF BrokerInv, fixed
<1>1. /\ op = "some" /\ GuestRuns(NextChunk) /\ selected' = selected /\ ~Whole
      /\ asking \in selected /\ asking \in Tests /\ cache[asking] = "unknown"
      /\ Cardinality(Mates(asking)) # 1
      /\ NextChunk \subseteq rest /\ rest \subseteq Mates(asking)
  BY NextChunkIs, RunSomeIs DEF Operations, Batches, Shapes
<1>2. \A t \in Mates(asking) : t \in Tests /\ t \in selected /\ cache[t] = "unknown"
  BY <1>1 DEF Batches, Mates, Shapes
<1>3. /\ said' \in [Tests -> Verdicts \cup {"nothing"}]
      /\ \A t \in wanted \cup (NextChunk \cap present) : t \in Tests /\ said'[t] \in Verdicts
  <2>1. /\ said' \in [Tests -> Verdicts \cup {"nothing"}]
        /\ \A t \in Tests : IF t \in NextChunk /\ t \in present
                              THEN said'[t] \in Verdicts ELSE said'[t] = said[t]
    BY <1>1, GuestRunsIs
  <2> QED
    BY <1>1, <2>1 DEF Operations
<1>4. CASE cache' = cache /\ (Tell(asking, "unreadable") \/ Tell(asking, "missing"))
           /\ op' = "idle" /\ rest' = {} /\ wanted' = {}
  <2>1. Shapes' /\ Answers' /\ OnlySelectedRun'
    BY <1>1, <1>2, <1>4, ExchangeKeeps DEF Shapes
  <2>2. Operations' /\ Batches'
    BY <1>1, <1>4, Over DEF Batches
  <2> QED
    BY <2>1, <2>2
<1>5. CASE /\ Mates(asking) \subseteq wanted \cup (NextChunk \cap present)
           /\ cache' = [t \in Tests |-> IF t \in Mates(asking) THEN said'[t] ELSE cache[t]]
           /\ Tell(asking, said'[asking]) /\ op' = "idle" /\ rest' = {} /\ wanted' = {}
  <2>1. asking \in Mates(asking)
    BY <1>1 DEF Mates
  <2>2. \A t \in Tests :
           /\ t \in Mates(asking) => cache'[t] = said'[t] /\ cache'[t] \in Verdicts
           /\ t \notin Mates(asking) => cache'[t] = cache[t]
    BY <1>3, <1>5
  <2>3. /\ cache' \in [Tests -> Verdicts \cup {"unknown", "missing"}]
        /\ \A t \in Mates(asking) : cache'[t] # "unknown"
    BY <1>2, <1>5, <2>2 DEF Shapes, Verdicts
  <2>4. Shapes' /\ Answers' /\ OnlySelectedRun'
    <3>1. Tell(asking, cache'[asking]) /\ cache'[asking] # "unknown"
      BY <1>1, <1>5, <2>1, <2>2, <2>3
    <3>2. \A t \in Tests : cache'[t] # cache[t] =>
             cache[t] = "unknown" /\ (cache'[t] \in Verdicts => cache'[t] = said'[t])
      BY <1>2, <2>2
    <3>3. \A t \in NextChunk \cap Tests : t \in selected /\ cache[t] = "unknown"
      BY <1>1, <1>2
    <3> QED
      BY <1>1, <1>5, <2>3, <3>1, <3>2, <3>3, ExchangeKeeps
  <2>5. \A t \in selected : \A u \in Mates(t) :
           Cardinality(Mates(t)) # 1 /\ cache'[t] = "unknown" => cache'[u] = "unknown"
    <3>1. SUFFICES ASSUME NEW t \in selected, NEW u \in Mates(t),
                          Cardinality(Mates(t)) # 1, cache'[t] = "unknown"
                   PROVE  cache'[u] = "unknown"
      OBVIOUS
    <3>2. t \in Tests /\ u \in Tests /\ t \notin Mates(asking) /\ u \notin Mates(asking)
      BY <2>3, <3>1 DEF Mates, Shapes
    <3> QED
      BY <1>1, <2>2, <3>1, <3>2 DEF Batches
  <2>6. Operations' /\ Batches'
    BY <1>1, <1>5, <2>5, Over
  <2> QED
    BY <2>4, <2>6
<1>6. CASE /\ rest' = rest \ NextChunk /\ wanted' \subseteq wanted \cup (NextChunk \cap present)
           /\ UNCHANGED <<asking, op, cache, told>>
  <2>1. Shapes' /\ Answers' /\ OnlySelectedRun'
    BY <1>1, <1>2, <1>6, ExchangeKeeps DEF Shapes
  <2>2. Operations'
    BY <1>1, <1>3, <1>6 DEF Operations, Mates
  <2>3. Batches'
    BY <1>1, <1>6 DEF Batches, Whole, Mates
  <2> QED
    BY <2>1, <2>2, <2>3
<1>7. CASE Unreadable
  BY <1>4, <1>7, UnreadableIs
<1>8. ASSUME NEW shown, RunSomeShows(shown) PROVE BrokerInv'
  BY <1>4, <1>5, <1>6, <1>8 DEF RunSomeShows, Finish, Shows
<1> QED
  BY <1>7, <1>8, RunSomeIs

LEMMA AskKeeps == ASSUME BrokerInv, NEW t \in Tests, Ask(t) PROVE BrokerInv'
<1> USE DEF BrokerInv, fixed
<1>1. /\ t \in selected /\ cache[t] = "unknown" /\ asking' = t /\ op = "idle"
      /\ UNCHANGED <<selected, wanted, cache, told, ran, said>>
      /\ \/ Whole /\ op' = "all" /\ rest' = rest
         \/ ~Whole /\ Cardinality(Mates(t)) # 1 /\ op' = "some" /\ rest' = Mates(t)
         \/ ~Whole /\ Cardinality(Mates(t)) = 1 /\ op' = "one" /\ rest' = rest
  <2>1. 1 > 1 <=> FALSE
    OBVIOUS
  <2> QED
    BY <2>1 DEF Ask, Known
<1>2. Shapes' /\ Answers' /\ OnlySelectedRun'
  BY <1>1 DEF Shapes, Answers, OnlySelectedRun
<1>3. Operations'
  BY <1>1 DEF Operations, Mates, Shapes
<1>4. Batches'
  BY <1>1 DEF Batches, Whole, Mates
<1> QED
  BY <1>2, <1>3, <1>4

LEMMA AnswerKeeps == ASSUME BrokerInv, NEW t \in Tests, Answer(t) PROVE BrokerInv'
<1> USE DEF BrokerInv, fixed
<1>1. /\ told' = [told EXCEPT ![t] = cache[t]] /\ cache[t] # "unknown"
      /\ UNCHANGED <<selected, asking, op, rest, wanted, cache, ran, said>>
  BY DEF Answer, Known, Tell, history
<1>2. Shapes' /\ Answers' /\ OnlySelectedRun'
  BY <1>1 DEF Shapes, Answers, OnlySelectedRun
<1>3. Operations' /\ Batches'
  BY <1>1 DEF Operations, Batches, Whole, Mates
<1> QED
  BY <1>2, <1>3

LEMMA BrokerInvStep == BrokerInv /\ [Next]_vars => BrokerInv'
<1> SUFFICES ASSUME BrokerInv, [Next]_vars PROVE BrokerInv'
  OBVIOUS
<1>1. CASE UNCHANGED vars
  BY <1>1 DEF vars, fixed, history, BrokerInv, Shapes, Operations, Batches, Answers, OnlySelectedRun, Whole, Mates
<1> QED
  BY <1>1, RunAllKeeps, RunOneKeeps, RunSomeKeeps, AskKeeps, AnswerKeeps DEF Next, Exchange

(* A narrowed selection never has the guest run a test outside it, whoever *)
(* batches and whatever goes wrong.                                        *)
THEOREM NothingElseRuns == Spec => []OnlySelectedRun
<1>1. BrokerInv => OnlySelectedRun
  BY DEF BrokerInv
<1> QED
  BY <1>1, BrokerInvInit, BrokerInvStep, PTL DEF Spec

(* A reported verdict is the latest the guest gave of that test.           *)
THEOREM ReportsAreTheGuests == Spec => []ToldWhatTheGuestSaid
<1>1. BrokerInv => ToldWhatTheGuestSaid
  BY DEF BrokerInv, Answers, Shapes, ToldWhatTheGuestSaid
<1> QED
  BY <1>1, BrokerInvInit, BrokerInvStep, PTL DEF Spec
-----------------------------------------------------------------------------
(* What "missing" rests on: run_all alone keeps it, of a test its output   *)
(* does not show; and a name run_some has neither read nor still to ask    *)
(* for is one the guest has not got or one whose line was lost.            *)
MissingInv ==
    /\ \A t \in Tests : cache[t] = "missing" => Whole /\ t \notin present \ lost
    /\ op = "some" => (Mates(asking) \cap present) \ lost \subseteq wanted \cup rest

\* What one step may tell an item: see MissingHasACause.
Due(t) == IF Whole THEN {t} ELSE Mates(t)
MissingStep ==
    \A t \in Tests : told[t] = "nothing" /\ told'[t] = "missing"
        => ~(Due(t) \subseteq present \ lost')

LEMMA MissingInvInit == Init => MissingInv
<1> SUFFICES ASSUME Init PROVE MissingInv
  OBVIOUS
<1> QED
  BY DEF Init, MissingInv

(* An operation that ends, having told its item of nothing but what holds. *)
LEMMA MissingOver ==
  ASSUME BrokerInv, op' = "idle", selected' = selected, present' = present,
         asking \in Tests, NEW what, Tell(asking, what),
         what = "missing" => ~(Due(asking) \subseteq present \ lost'),
         \A t \in Tests : cache'[t] = "missing" => Whole /\ t \notin present \ lost'
  PROVE  MissingInv' /\ MissingStep
<1>1. told' = [told EXCEPT ![asking] = what] /\ DOMAIN told = Tests
  BY DEF Tell, BrokerInv, Shapes
<1>2. MissingStep
  BY <1>1 DEF MissingStep
<1> QED
  BY <1>2 DEF MissingInv, Whole

LEMMA MissingUnreadable ==
  ASSUME BrokerInv, MissingInv, Unreadable, UNCHANGED fixed, op # "idle"
  PROVE  MissingInv' /\ MissingStep
<1>1. /\ cache' = cache /\ lost' = lost /\ Tell(asking, "unreadable") /\ op' = "idle"
      /\ UNCHANGED <<selected, present>> /\ asking \in Tests
  BY DEF Unreadable, Finish, fixed, BrokerInv, Operations, Shapes
<1>2. \A t \in Tests : cache'[t] = "missing" => Whole /\ t \notin present \ lost'
  BY <1>1 DEF MissingInv
<1> QED
  BY <1>1, <1>2, MissingOver

LEMMA MissingRunAll == BrokerInv /\ MissingInv /\ RunAll => MissingInv' /\ MissingStep
<1> SUFFICES ASSUME BrokerInv, MissingInv, RunAll PROVE MissingInv' /\ MissingStep
  OBVIOUS
<1>1. /\ op = "all" /\ GuestRuns(Tests) /\ UNCHANGED fixed /\ UNCHANGED <<selected, present>>
      /\ asking \in Tests /\ Whole
  BY DEF RunAll, BrokerInv, Operations, Batches, Shapes, fixed
<1>2. \A t \in Tests \cap present : said'[t] \in Verdicts
  BY <1>1, GuestRunsIs DEF BrokerInv
<1>3. CASE Unreadable
  BY <1>1, <1>3, MissingUnreadable
<1>4. CASE ~Unreadable
  <2>1. PICK shown \in SUBSET present :
          /\ Shows(Tests, shown)
          /\ cache' = [t \in Tests |-> IF t \in shown THEN said'[t] ELSE "missing"]
          /\ Tell(asking, cache'[asking]) /\ op' = "idle"
    BY <1>4 DEF RunAll, Finish
  <2>2. \A t \in Tests : cache'[t] = "missing" => t \notin present \ lost'
    BY <1>2, <2>1 DEF Verdicts, Shows
  <2> QED
    BY <1>1, <2>1, <2>2, MissingOver DEF Due
<1> QED
  BY <1>3, <1>4

LEMMA MissingRunOne == BrokerInv /\ MissingInv /\ RunOne => MissingInv' /\ MissingStep
<1> SUFFICES ASSUME BrokerInv, MissingInv, RunOne PROVE MissingInv' /\ MissingStep
  OBVIOUS
<1>1. /\ op = "one" /\ GuestRuns({asking}) /\ UNCHANGED fixed /\ UNCHANGED <<selected, present>>
      /\ asking \in Tests /\ ~Whole /\ asking \in Mates(asking)
  BY DEF RunOne, BrokerInv, Operations, Batches, Shapes, fixed, Mates
<1>2. \A t \in Tests : cache[t] # "missing"
  BY <1>1 DEF MissingInv
<1>3. CASE Unreadable
  BY <1>1, <1>3, MissingUnreadable
<1>4. CASE Shows({asking}, {}) /\ Finish("missing") /\ UNCHANGED cache
  <2>1. asking \notin present \ lost'
    BY <1>4 DEF Shows
  <2>2. ~(Due(asking) \subseteq present \ lost')
    BY <1>1, <2>1 DEF Due
  <2> QED
    BY <1>1, <1>2, <1>4, <2>2, MissingOver DEF Finish
<1>5. CASE /\ asking \in present /\ cache' = [cache EXCEPT ![asking] = said'[asking]]
           /\ Finish(said'[asking])
  <2>1. said'[asking] # "missing"
    BY <1>1, <1>5, GuestRunsIs DEF Verdicts, BrokerInv
  <2>2. \A t \in Tests : cache'[t] # "missing"
    BY <1>1, <1>2, <1>5, <2>1 DEF BrokerInv, Shapes
  <2> QED
    BY <1>1, <1>5, <2>1, <2>2, MissingOver DEF Finish
<1> QED
  BY <1>3, <1>4, <1>5 DEF RunOne

LEMMA MissingRunSome == BrokerInv /\ MissingInv /\ RunSome => MissingInv' /\ MissingStep
<1> SUFFICES ASSUME BrokerInv, MissingInv, RunSome PROVE MissingInv' /\ MissingStep
  OBVIOUS
<1> DEFINE chunk == NextChunk
           left == rest \ chunk
<1>1. /\ op = "some" /\ GuestRuns(chunk) /\ UNCHANGED fixed /\ UNCHANGED <<selected, present>>
      /\ asking \in Tests /\ ~Whole
      /\ chunk \subseteq rest /\ rest \subseteq Mates(asking)
      /\ (Mates(asking) \cap present) \ lost \subseteq wanted \cup rest
  BY NextChunkIs, RunSomeIs DEF BrokerInv, Operations, Batches, Shapes, fixed, MissingInv
<1>2. \A t \in Tests : cache[t] # "missing"
  BY <1>1 DEF MissingInv
<1>3. CASE Unreadable
  BY <1>1, <1>3, MissingUnreadable
<1>4. ASSUME NEW shown, RunSomeShows(shown) PROVE MissingInv' /\ MissingStep
  <2> DEFINE read == wanted \cup shown
             over == left = {} \/ (~batched /\ ~(chunk \subseteq shown))
  <2>1. shown \subseteq chunk \cap present /\ lost' = lost \cup ((chunk \cap present) \ shown)
    BY <1>4 DEF RunSomeShows, Shows
  <2>2. (Mates(asking) \cap present) \ lost' \subseteq read \cup left
    BY <1>1, <2>1
  <2>3. CASE rest' = left /\ wanted' = read /\ UNCHANGED <<asking, op, cache, told>>
    <3>1. MissingStep
      BY <2>3 DEF MissingStep
    <3> QED
      BY <1>1, <1>2, <2>2, <2>3, <3>1 DEF MissingInv, Whole, Mates
  <2>4. CASE /\ Mates(asking) \subseteq read
             /\ cache' = [t \in Tests |-> IF t \in Mates(asking) THEN said'[t] ELSE cache[t]]
             /\ Finish(said'[asking])
    <3>1. \A t \in read : t \in Tests => said'[t] \in Verdicts
      <4>1. \A t \in Tests : IF t \in chunk /\ t \in present
                               THEN said'[t] \in Verdicts ELSE said'[t] = said[t]
        BY <1>1, GuestRunsIs DEF BrokerInv
      <4> QED
        BY <2>1, <4>1 DEF BrokerInv, Operations
    <3>2. \A t \in Tests : cache'[t] # "missing"
      BY <1>2, <2>4, <3>1 DEF Verdicts
    <3>3. said'[asking] # "missing"
      BY <1>1, <2>4, <3>1 DEF Mates, Verdicts, BrokerInv, Operations
    <3> QED
      BY <1>1, <2>4, <3>2, <3>3, MissingOver DEF Finish
  <2>5. CASE over /\ ~(Mates(asking) \subseteq read) /\ Finish("missing") /\ UNCHANGED cache
    <3>1. ~(Mates(asking) \subseteq present \ lost')
      <4>1. CASE left = {}
        BY <2>2, <2>5, <4>1
      <4>2. CASE ~(chunk \subseteq shown)
        BY <1>1, <2>1, <4>2
      <4> QED
        BY <2>5, <4>1, <4>2
    <3> QED
      BY <1>1, <1>2, <2>5, <3>1, MissingOver DEF Finish, Due
  <2> QED
    BY <1>4, <2>3, <2>4, <2>5 DEF RunSomeShows
<1> QED
  BY <1>3, <1>4, RunSomeIs

LEMMA MissingNext == BrokerInv /\ MissingInv /\ [Next]_vars => MissingInv' /\ MissingStep
<1> SUFFICES ASSUME BrokerInv, MissingInv, [Next]_vars PROVE MissingInv' /\ MissingStep
  OBVIOUS
<1>1. CASE UNCHANGED vars
  BY <1>1 DEF vars, fixed, history, MissingInv, MissingStep, Whole, Mates
<1>2. ASSUME NEW t \in Tests, Answer(t) PROVE MissingInv' /\ MissingStep
  <2>1. /\ told' = [told EXCEPT ![t] = cache[t]] /\ DOMAIN told = Tests
        /\ UNCHANGED <<selected, present, asking, op, rest, wanted, cache, lost>>
    BY <1>2 DEF Answer, Tell, fixed, history, BrokerInv, Shapes
  <2>2. MissingStep
    BY <2>1 DEF MissingInv, MissingStep, Due
  <2> QED
    BY <2>1, <2>2 DEF MissingInv, Whole, Mates
<1>3. ASSUME NEW t \in Tests, Ask(t) PROVE MissingInv' /\ MissingStep
  <2>1. /\ UNCHANGED <<selected, present, cache, told>> /\ asking' = t /\ cache[t] = "unknown"
        /\ op' = "some" => rest' = Mates(t)
    BY <1>3 DEF Ask, Known, fixed
  <2>2. \A u \in Tests : cache[u] # "missing"
    BY <2>1 DEF MissingInv, BrokerInv, Batches
  <2> QED
    BY <2>1, <2>2 DEF MissingInv, MissingStep, Whole, Mates
<1> QED
  BY <1>1, <1>2, <1>3, MissingRunAll, MissingRunOne, MissingRunSome DEF Next, Exchange

(* A test is only ever reported as not run because the guest's executable  *)
(* has not got it or the operation that answers it lost its line, or, in a *)
(* narrowed selection, those of a mate.                                    *)
THEOREM MissingIsCaused == Spec => MissingHasACause
<1>1. BrokerInv /\ MissingInv /\ [Next]_vars => MissingInv'
  BY MissingNext
<1>2. BrokerInv /\ MissingInv /\ [Next]_vars =>
        [\A t \in Tests : told[t] = "nothing" /\ told'[t] = "missing" =>
            ~((IF Whole THEN {t} ELSE Mates(t)) \subseteq present \ lost')]_vars
  BY MissingNext DEF MissingStep, Due
<1> QED
  BY <1>1, <1>2, BrokerInvInit, BrokerInvStep, MissingInvInit, PTL DEF Spec, MissingHasACause
-----------------------------------------------------------------------------
(* Why only failures run again.  A batch is called for once an item of it  *)
(* has its answer or is being asked about; no more calls were made than    *)
(* that and the items told of a failure.  A test has run once for each     *)
(* failure of its batch, and once more when it has its answer or is of the *)
(* batch under way and will not be asked for again.                        *)
Called == {Batch(i) : i \in {t \in selected : cache[t] # "unknown" \/ (op # "idle" /\ t = asking)}}
Settled(t) == cache[t] # "unknown" \/ (op = "some" /\ t \in Mates(asking) \ rest)

OnceInv ==
    /\ op # "idle" => told[asking] = "nothing"
    /\ calls \in Nat
    /\ \A t \in Tests :
          ran[t] <= Cardinality(Batch(t) \cap Failed) + (IF Settled(t) THEN 1 ELSE 0)
    /\ calls <= Cardinality(Called) + Cardinality(Failed)

LEMMA TestsAreFinite == IsFiniteSet(Tests)
<1>1. Ids \in [1 .. Len(Ids) -> Tests] /\ Len(Ids) \in Nat /\ Range(Ids) = Tests
  BY ResultBrokerAssumption
<1>2. Ids \in Surjection(1 .. Len(Ids), Tests)
  BY <1>1 DEF Surjection, Range
<1> QED
  BY <1>1, <1>2, FS_Interval, FS_Surjection

LEMMA BatchesAreFinite ==
  ASSUME NEW S \in SUBSET Tests
  PROVE  IsFiniteSet({Batch(t) : t \in S}) /\ Cardinality({Batch(t) : t \in S}) \in Nat
<1>1. IsFiniteSet(S)
  BY TestsAreFinite, FS_Subset
<1> DEFINE f == [t \in S |-> Batch(t)]
<1>2. f \in Surjection(S, {Batch(t) : t \in S})
  BY DEF Surjection
<1> HIDE DEF f
<1> QED
  BY <1>1, <1>2, FS_Surjection, FS_CardinalityType

LEMMA CalledIsFinite ==
  ASSUME selected \subseteq Tests
  PROVE  IsFiniteSet(Called) /\ Cardinality(Called) \in Nat
<1>1. {t \in selected : cache[t] # "unknown" \/ (op # "idle" /\ t = asking)} \in SUBSET Tests
  OBVIOUS
<1> QED
  BY <1>1, BatchesAreFinite DEF Called

(* Counting parts of the suite.                                            *)
LEMMA Parts ==
  ASSUME NEW S \in SUBSET Tests, NEW T \in SUBSET Tests, S \subseteq T
  PROVE  /\ Cardinality(S) \in Nat /\ Cardinality(T) \in Nat
         /\ Cardinality(S) <= Cardinality(T)
  BY TestsAreFinite, FS_Subset, FS_CardinalityType

LEMMA OneMore ==
  ASSUME NEW S \in SUBSET Tests, NEW t \in Tests, t \notin S
  PROVE  Cardinality(S \cup {t}) = Cardinality(S) + 1
  BY TestsAreFinite, FS_Subset, FS_AddElement

LEMMA AtMostOneMore ==
  ASSUME NEW S, IsFiniteSet(S), NEW x
  PROVE  /\ IsFiniteSet(S \cup {x})
         /\ Cardinality(S \cup {x}) <= Cardinality(S) + 1
<1> DEFINE c == Cardinality(S)
           d == Cardinality(S \cup {x})
<1>1. c \in Nat
  BY FS_CardinalityType
<1>2. IsFiniteSet(S \cup {x}) /\ d = IF x \in S THEN c ELSE c + 1
  BY FS_AddElement
<1> HIDE DEF c, d
<1>3. d <= c + 1
  BY <1>1, <1>2
<1> QED
  BY <1>2, <1>3 DEF c, d

LEMMA OnceInvInit == Init => OnceInv
<1> SUFFICES ASSUME Init PROVE OnceInv
  OBVIOUS
<1> USE DEF Init
<1>1. Called = {} /\ Failed = {}
  BY DEF Called, Failed
<1>2. \A t \in Tests : Batch(t) \cap Failed = {} /\ ran[t] = 0 /\ ~Settled(t)
  BY <1>1 DEF Settled
<1>3. Cardinality({}) = 0
  BY FS_EmptySet
<1> QED
  BY <1>1, <1>2, <1>3 DEF OnceInv

(* Tests asked for, none of which has an answer or was asked for before in *)
(* this operation: what they have run by now.                              *)
LEMMA OnceRan ==
  ASSUME BrokerInv, OnceInv, NEW asked, GuestRuns(asked),
         \A t \in asked \cap Tests : cache[t] = "unknown" /\ (op = "some" => t \in rest)
  PROVE  \A t \in Tests :
            /\ ran'[t] \in Nat
            /\ ran'[t] <= Cardinality(Batch(t) \cap Failed)
                          + (IF t \in asked \/ Settled(t) THEN 1 ELSE 0)
<1> SUFFICES ASSUME NEW t \in Tests
             PROVE  /\ ran'[t] \in Nat
                    /\ ran'[t] <= Cardinality(Batch(t) \cap Failed)
                                  + (IF t \in asked \/ Settled(t) THEN 1 ELSE 0)
  OBVIOUS
<1>1. /\ ran[t] \in Nat
      /\ ran'[t] = ran[t] \/ (ran'[t] = ran[t] + 1 /\ t \in asked)
  BY GuestRunsIs DEF BrokerInv, Shapes
<1>2. t \in asked => ~Settled(t)
  BY DEF Settled
<1>3. Cardinality(Batch(t) \cap Failed) \in Nat
  BY Parts DEF Failed
<1>4. ran[t] <= Cardinality(Batch(t) \cap Failed) + (IF Settled(t) THEN 1 ELSE 0)
  BY DEF OnceInv
<1> QED
  BY <1>1, <1>2, <1>3, <1>4

(* An exchange that keeps what it read or goes on.                         *)
LEMMA OnceKept ==
  ASSUME BrokerInv, OnceInv, op # "idle", selected' = selected, calls' = calls,
         NEW asked, GuestRuns(asked),
         \A t \in asked \cap Tests : cache[t] = "unknown" /\ (op = "some" => t \in rest),
         op' # "idle" => asking' = asking /\ told' = told,
         op' = "idle" => cache'[asking] # "unknown",
         told' = told \/ \E what : Tell(asking, what),
         \A t \in Tests : t \in asked \/ Settled(t) => Settled(t)',
         \A t \in Tests : cache[t] # "unknown" => cache'[t] # "unknown"
  PROVE  OnceInv'
<1>1. asking \in selected /\ selected \subseteq Tests /\ told[asking] = "nothing" /\ calls \in Nat
  BY DEF BrokerInv, Shapes, Operations, OnceInv
<1>2. Failed \subseteq Failed' /\ Failed' \subseteq Tests
  BY <1>1 DEF Failed, Tell, Whole, BrokerInv, Shapes
<1>3. \A t \in Tests : Batch(t)' = Batch(t)
  BY DEF Batch, Mates, Whole
<1>4. ASSUME NEW t \in Tests
      PROVE  ran'[t] <= Cardinality(Batch(t)' \cap Failed') + (IF Settled(t)' THEN 1 ELSE 0)
  <2>1. /\ ran'[t] \in Nat
        /\ ran'[t] <= Cardinality(Batch(t) \cap Failed)
                      + (IF t \in asked \/ Settled(t) THEN 1 ELSE 0)
    BY OnceRan
  <2>2. /\ Cardinality(Batch(t) \cap Failed) \in Nat
        /\ Cardinality(Batch(t)' \cap Failed') \in Nat
        /\ Cardinality(Batch(t) \cap Failed) <= Cardinality(Batch(t)' \cap Failed')
    BY <1>2, <1>3, Parts
  <2> QED
    BY <2>1, <2>2
<1>5. Called \subseteq Called'
  BY <1>1, <1>3 DEF Called
<1>6. /\ Cardinality(Called) \in Nat /\ Cardinality(Called') \in Nat
      /\ Cardinality(Called) <= Cardinality(Called')
  <2>1. {t \in selected' : cache'[t] # "unknown" \/ (op' # "idle" /\ t = asking')} \in SUBSET Tests
    BY <1>1
  <2>2. IsFiniteSet(Called') /\ Cardinality(Called') \in Nat
    <3>1. Called' \subseteq {Batch(t) : t \in selected}
      BY <1>1, <1>3, <2>1 DEF Called
    <3> QED
      BY <1>1, <3>1, BatchesAreFinite, FS_Subset, FS_CardinalityType
  <2> QED
    BY <1>1, <1>5, <2>2, CalledIsFinite, FS_Subset
<1>7. /\ Cardinality(Failed) \in Nat /\ Cardinality(Failed') \in Nat
      /\ Cardinality(Failed) <= Cardinality(Failed')
  BY <1>2, Parts
<1>8. calls' <= Cardinality(Called') + Cardinality(Failed')
  BY <1>1, <1>6, <1>7 DEF OnceInv
<1>9. op' # "idle" => told'[asking'] = "nothing"
  BY <1>1
<1> QED
  BY <1>1, <1>4, <1>8, <1>9 DEF OnceInv

(* An operation that ends in nothing kept: a failure more.                 *)
LEMMA OnceFailed ==
  ASSUME BrokerInv, OnceInv, op # "idle", selected' = selected, calls' = calls,
         NEW asked, GuestRuns(asked),
         \A t \in asked \cap Tests :
             cache[t] = "unknown" /\ (op = "some" => t \in rest) /\ asking \in Batch(t),
         op' = "idle", cache' = cache,
         NEW what, Tell(asking, what), what = "unreadable" \/ (what = "missing" /\ ~Whole)
  PROVE  OnceInv'
<1>1. asking \in selected /\ selected \subseteq Tests /\ told[asking] = "nothing" /\ calls \in Nat
  BY DEF BrokerInv, Shapes, Operations, OnceInv
<1>2. Failed' = Failed \cup {asking} /\ asking \notin Failed /\ Failed \subseteq Tests
  BY <1>1 DEF Failed, Tell, Whole, BrokerInv, Shapes
<1>3. \A t \in Tests : Batch(t)' = Batch(t)
  BY DEF Batch, Mates, Whole
<1>4. ASSUME NEW t \in Tests
      PROVE  ran'[t] <= Cardinality(Batch(t)' \cap Failed') + (IF Settled(t)' THEN 1 ELSE 0)
  <2>1. /\ ran'[t] \in Nat
        /\ ran'[t] <= Cardinality(Batch(t) \cap Failed)
                      + (IF t \in asked \/ Settled(t) THEN 1 ELSE 0)
    BY OnceRan
  <2>2. /\ Cardinality(Batch(t) \cap Failed) \in Nat
        /\ Cardinality(Batch(t)' \cap Failed') \in Nat
        /\ Cardinality(Batch(t) \cap Failed) <= Cardinality(Batch(t)' \cap Failed')
    BY <1>1, <1>2, <1>3, Parts
  <2>3. CASE asking \in Batch(t)
    <3>1. Batch(t)' \cap Failed' = (Batch(t) \cap Failed) \cup {asking}
      BY <1>2, <1>3, <2>3
    <3>2. Cardinality(Batch(t)' \cap Failed') = Cardinality(Batch(t) \cap Failed) + 1
      BY <1>1, <1>2, <3>1, OneMore
    <3> QED
      BY <2>1, <2>2, <3>2
  <2>4. CASE asking \notin Batch(t)
    <3>1. t \notin asked
      BY <2>4
    <3>2. Settled(t) => cache[t] # "unknown"
      BY <1>1, <2>4 DEF Settled, Batch, Whole, Mates
    <3>3. Settled(t) => Settled(t)'
      BY <3>2 DEF Settled
    <3> QED
      BY <2>1, <2>2, <3>1, <3>3
  <2> QED
    BY <2>3, <2>4
<1>5. /\ Cardinality(Called) \in Nat /\ Cardinality(Called') \in Nat
      /\ Cardinality(Called) <= Cardinality(Called') + 1
  <2>1. Called' \subseteq Called /\ Called \subseteq Called' \cup {Batch(asking)}
    BY <1>1, <1>3 DEF Called
  <2>2. IsFiniteSet(Called) /\ Cardinality(Called) \in Nat
    BY <1>1, CalledIsFinite
  <2>3. IsFiniteSet(Called') /\ Cardinality(Called') \in Nat
    BY <2>1, <2>2, FS_Subset, FS_CardinalityType
  <2>4. /\ IsFiniteSet(Called' \cup {Batch(asking)})
        /\ Cardinality(Called' \cup {Batch(asking)}) \in Nat
        /\ Cardinality(Called' \cup {Batch(asking)}) <= Cardinality(Called') + 1
    BY <2>3, AtMostOneMore, FS_CardinalityType
  <2> QED
    BY <2>1, <2>2, <2>3, <2>4, FS_Subset
<1>6. Cardinality(Failed) \in Nat /\ Cardinality(Failed') = Cardinality(Failed) + 1
  BY <1>1, <1>2, Parts, OneMore
<1>7. calls' <= Cardinality(Called') + Cardinality(Failed')
  BY <1>1, <1>5, <1>6 DEF OnceInv
<1> QED
  BY <1>1, <1>4, <1>7 DEF OnceInv

LEMMA OnceRunAll == BrokerInv /\ OnceInv /\ RunAll => OnceInv'
<1> SUFFICES ASSUME BrokerInv, OnceInv, RunAll PROVE OnceInv'
  OBVIOUS
<1>1. /\ op = "all" /\ GuestRuns(Tests) /\ selected' = selected /\ calls' = calls
      /\ asking \in Tests /\ Whole /\ \A t \in Tests : cache[t] = "unknown"
  BY DEF RunAll, BrokerInv, Operations, Batches, Shapes, fixed, Whole
<1>2. CASE Unreadable
  <2>1. cache' = cache /\ Tell(asking, "unreadable") /\ op' = "idle"
    BY <1>2, UnreadableIs
  <2>2. \A t \in Tests : asking \in Batch(t)
    BY <1>1 DEF Batch
  <2> QED
    BY <1>1, <2>1, <2>2, OnceFailed
<1>3. CASE ~Unreadable
  <2>1. PICK shown \in SUBSET present :
          /\ cache' = [t \in Tests |-> IF t \in shown THEN said'[t] ELSE "missing"]
          /\ op' = "idle" /\ Tell(asking, cache'[asking])
    BY <1>3 DEF RunAll, Finish
  <2>2. \A t \in Tests : cache'[t] # "unknown"
    <3>1. \A t \in Tests \cap present : said'[t] \in Verdicts
      BY <1>1, GuestRunsIs DEF BrokerInv
    <3> QED
      BY <2>1, <3>1 DEF Verdicts
  <2>3. \A t \in Tests : Settled(t)'
    BY <2>2 DEF Settled
  <2> QED
    BY <1>1, <2>1, <2>2, <2>3, OnceKept
<1> QED
  BY <1>2, <1>3

LEMMA OnceRunOne == BrokerInv /\ OnceInv /\ RunOne => OnceInv'
<1> SUFFICES ASSUME BrokerInv, OnceInv, RunOne PROVE OnceInv'
  OBVIOUS
<1>1. /\ op = "one" /\ GuestRuns({asking}) /\ selected' = selected /\ calls' = calls
      /\ asking \in Tests /\ asking \in selected /\ ~Whole /\ cache[asking] = "unknown"
  BY DEF RunOne, BrokerInv, Operations, Batches, Shapes, fixed
<1>2. CASE /\ cache' = cache /\ op' = "idle"
           /\ Tell(asking, "unreadable") \/ Tell(asking, "missing")
  <2>1. asking \in Batch(asking)
    BY <1>1 DEF Batch, Mates
  <2> QED
    BY <1>1, <1>2, <2>1, OnceFailed
<1>3. CASE /\ asking \in present /\ cache' = [cache EXCEPT ![asking] = said'[asking]]
           /\ op' = "idle" /\ Tell(asking, said'[asking])
  <2>1. said'[asking] # "unknown"
    BY <1>1, <1>3, GuestRunsIs DEF BrokerInv, Verdicts
  <2>2. cache'[asking] # "unknown" /\ \A t \in Tests : t # asking => cache'[t] = cache[t]
    BY <1>1, <1>3, <2>1 DEF BrokerInv, Shapes
  <2>3. \A t \in Tests : t = asking \/ Settled(t) => Settled(t)'
    BY <1>1, <2>2 DEF Settled
  <2> QED
    BY <1>1, <1>3, <2>2, <2>3, OnceKept
<1> QED
  BY <1>2, <1>3 DEF RunOne, Finish, Unreadable

LEMMA OnceRunSome == BrokerInv /\ OnceInv /\ RunSome => OnceInv'
<1> SUFFICES ASSUME BrokerInv, OnceInv, RunSome PROVE OnceInv'
  OBVIOUS
<1> DEFINE chunk == NextChunk
<1>1. /\ op = "some" /\ GuestRuns(chunk) /\ selected' = selected /\ calls' = calls
      /\ asking \in selected /\ asking \in Tests /\ asking \in Mates(asking) /\ ~Whole
      /\ chunk \subseteq rest /\ rest \subseteq Mates(asking)
      /\ \A t \in Mates(asking) : t \in Tests /\ cache[t] = "unknown"
  BY NextChunkIs, RunSomeIs DEF BrokerInv, Operations, Batches, Shapes, fixed, Mates
<1>2. CASE /\ cache' = cache /\ op' = "idle"
           /\ Tell(asking, "unreadable") \/ Tell(asking, "missing")
  <2>1. \A t \in chunk : asking \in Batch(t)
    BY <1>1 DEF Batch, Mates
  <2> QED
    BY <1>1, <1>2, <2>1, OnceFailed
<1>3. CASE rest' = rest \ chunk /\ UNCHANGED <<asking, op, cache, told>>
  <2>1. Mates(asking)' = Mates(asking)
    BY <1>1, <1>3 DEF Mates
  <2>2. \A t \in Tests : t \in chunk \/ Settled(t) => Settled(t)'
    BY <1>1, <1>3, <2>1 DEF Settled
  <2> QED
    BY <1>1, <1>3, <2>2, OnceKept
<1>4. CASE /\ Mates(asking) \subseteq wanted \cup (chunk \cap present) /\ op' = "idle"
           /\ cache' = [t \in Tests |-> IF t \in Mates(asking) THEN said'[t] ELSE cache[t]]
           /\ Tell(asking, said'[asking])
  <2>1. \A t \in Mates(asking) : said'[t] # "unknown"
    <3>1. \A t \in Tests : IF t \in chunk /\ t \in present
                             THEN said'[t] \in Verdicts ELSE said'[t] = said[t]
      BY <1>1, GuestRunsIs DEF BrokerInv
    <3> QED
      BY <1>1, <1>4, <3>1 DEF BrokerInv, Operations, Verdicts
  <2>2. \A t \in Tests : /\ t \in Mates(asking) => cache'[t] # "unknown"
                         /\ t \notin Mates(asking) => cache'[t] = cache[t]
    BY <1>4, <2>1
  <2>3. \A t \in Tests : t \in chunk \/ Settled(t) => Settled(t)'
    BY <1>1, <2>2 DEF Settled
  <2> QED
    BY <1>1, <1>4, <2>2, <2>3, OnceKept
<1>5. CASE Unreadable
  BY <1>2, <1>5, UnreadableIs
<1>6. ASSUME NEW shown, RunSomeShows(shown) PROVE OnceInv'
  BY <1>2, <1>3, <1>4, <1>6 DEF RunSomeShows, Finish, Shows
<1> QED
  BY <1>5, <1>6, RunSomeIs

LEMMA OnceAsk == ASSUME BrokerInv, OnceInv, NEW t \in Tests, Ask(t) PROVE OnceInv'
<1>1. /\ t \in selected /\ cache[t] = "unknown" /\ asking' = t /\ op = "idle" /\ op' # "idle"
      /\ UNCHANGED <<selected, cache, told, ran>> /\ calls' = calls + 1 /\ told[t] = "nothing"
      /\ selected \subseteq Tests /\ (op' = "some" => rest' = Mates(t))
  BY DEF Ask, Known, fixed, BrokerInv, Shapes
<1>2. \A u \in Tests : Batch(u)' = Batch(u)
  BY <1>1 DEF Batch, Whole, Mates
<1>3. Called' = Called \cup {Batch(t)}
  BY <1>1, <1>2 DEF Called
<1>4. Batch(t) \notin Called
  <2>1. SUFFICES ASSUME NEW u \in selected, cache[u] # "unknown", Batch(u) = Batch(t)
                 PROVE  FALSE
    BY <1>1 DEF Called
  <2>2. CASE Whole
    BY <1>1, <2>1, <2>2 DEF BrokerInv, Batches
  <2>3. CASE ~Whole
    <3>1. u \in Mates(t) /\ t \in Mates(t) /\ u # t /\ Mates(t) \subseteq Tests
      BY <1>1, <2>1, <2>3 DEF Batch, Mates
    <3>2. Cardinality(Mates(t)) = 1
      BY <1>1, <2>1, <2>3, <3>1 DEF BrokerInv, Batches
    <3>3. IsFiniteSet(Mates(t))
      BY <3>1, TestsAreFinite, FS_Subset
    <3> QED
      BY <3>1, <3>2, <3>3, FS_Singleton
  <2> QED
    BY <2>2, <2>3
<1>5. /\ Cardinality(Called) \in Nat
      /\ Cardinality(Called') = Cardinality(Called) + 1
  BY <1>1, <1>3, <1>4, CalledIsFinite, FS_AddElement
<1>6. Failed' = Failed /\ Cardinality(Failed) \in Nat
  BY <1>1, Parts DEF Failed, Whole
<1>7. \A u \in Tests : Settled(u) <=> Settled(u)'
  <2>1. op' = "some" => Mates(asking)' \subseteq rest'
    BY <1>1 DEF Mates
  <2> QED
    BY <1>1, <2>1 DEF Settled
<1>8. \A u \in Tests : ran'[u] <= Cardinality(Batch(u)' \cap Failed') + (IF Settled(u)' THEN 1 ELSE 0)
  BY <1>1, <1>2, <1>6, <1>7 DEF OnceInv
<1> QED
  BY <1>1, <1>5, <1>6, <1>8 DEF OnceInv

LEMMA OnceAnswer == ASSUME BrokerInv, OnceInv, NEW t \in Tests, Answer(t) PROVE OnceInv'
<1>1. /\ op = "idle" /\ UNCHANGED <<selected, asking, op, rest, cache, ran, calls>>
      /\ Tell(t, cache[t]) /\ told[t] = "nothing"
  BY DEF Answer, fixed, history
<1>2. Called' = Called /\ \A u \in Tests : Batch(u)' = Batch(u) /\ (Settled(u)' <=> Settled(u))
  BY <1>1 DEF Called, Batch, Whole, Mates, Settled
<1>3. Failed \subseteq Failed' /\ Failed' \subseteq Tests
  BY <1>1 DEF Failed, Tell, Whole, BrokerInv, Shapes
<1>4. ASSUME NEW u \in Tests
      PROVE  ran'[u] <= Cardinality(Batch(u)' \cap Failed') + (IF Settled(u)' THEN 1 ELSE 0)
  <2>1. /\ Cardinality(Batch(u) \cap Failed) \in Nat
        /\ Cardinality(Batch(u)' \cap Failed') \in Nat
        /\ Cardinality(Batch(u) \cap Failed) <= Cardinality(Batch(u)' \cap Failed')
    BY <1>2, <1>3, Parts
  <2>2. ran[u] \in Nat
    BY DEF BrokerInv, Shapes
  <2> QED
    BY <1>1, <1>2, <2>1, <2>2 DEF OnceInv
<1>5. /\ Cardinality(Failed) \in Nat /\ Cardinality(Failed') \in Nat
      /\ Cardinality(Failed) <= Cardinality(Failed')
  BY <1>3, Parts
<1>6. Cardinality(Called) \in Nat
  BY CalledIsFinite DEF BrokerInv, Shapes
<1> QED
  BY <1>1, <1>2, <1>4, <1>5, <1>6 DEF OnceInv

LEMMA OnceInvStep == BrokerInv /\ OnceInv /\ [Next]_vars => OnceInv'
<1> SUFFICES ASSUME BrokerInv, OnceInv, [Next]_vars PROVE OnceInv'
  OBVIOUS
<1>1. CASE UNCHANGED vars
  <2>1. /\ Called' = Called /\ Failed' = Failed
        /\ \A t \in Tests : Batch(t)' = Batch(t) /\ (Settled(t)' <=> Settled(t))
    BY <1>1 DEF Called, Failed, Batch, Whole, Mates, Settled, vars, fixed, history
  <2> QED
    BY <1>1, <2>1 DEF OnceInv, vars, fixed, history
<1> QED
  BY <1>1, OnceRunAll, OnceRunOne, OnceRunSome, OnceAsk, OnceAnswer DEF Next, Exchange

(* However the items interleave and whatever outputs lose: a test runs in  *)
(* the guest again, and the backend is called again, only for an item that *)
(* was told its call failed.                                               *)
THEOREM FailuresAloneRunAgain == Spec => []OnlyFailuresRunAgain
<1>1. BrokerInv /\ OnceInv => OnlyFailuresRunAgain
  <2> SUFFICES ASSUME BrokerInv, OnceInv PROVE OnlyFailuresRunAgain
    OBVIOUS
  <2> DEFINE all == {Batch(t) : t \in selected}
  <2>1. Called \subseteq all /\ selected \in SUBSET Tests /\ Failed \in SUBSET Tests
    BY DEF Called, Failed, BrokerInv, Shapes
  <2>2. IsFiniteSet(all) /\ Cardinality(all) \in Nat
    BY <2>1, BatchesAreFinite
  <2> HIDE DEF all
  <2>3. Cardinality(Called) <= Cardinality(all) /\ Cardinality(Called) \in Nat
    BY <2>1, <2>2, CalledIsFinite, FS_Subset
  <2>4. Cardinality(Failed) \in Nat
    BY <2>1, Parts
  <2>5. calls <= Cardinality(all) + Cardinality(Failed)
    <3>1. calls \in Nat /\ calls <= Cardinality(Called) + Cardinality(Failed)
      BY DEF OnceInv
    <3> QED
      BY <2>2, <2>3, <2>4, <3>1
  <2>6. ASSUME NEW t \in Tests PROVE ran[t] <= 1 + Cardinality(Batch(t) \cap Failed)
    <3>1. Cardinality(Batch(t) \cap Failed) \in Nat /\ ran[t] \in Nat
      BY <2>1, Parts DEF BrokerInv, Shapes
    <3> QED
      BY <3>1 DEF OnceInv
  <2> QED
    BY <2>5, <2>6 DEF OnlyFailuresRunAgain, all
<1> QED
  BY <1>1, BrokerInvInit, BrokerInvStep, OnceInvInit, OnceInvStep, PTL DEF Spec

-----------------------------------------------------------------------------
(* The shape of the state: the item asked for is that of the operation     *)
(* under way, and only run_some has names left to ask about.               *)
OpenInv ==
    /\ present \subseteq Tests /\ batched \in BOOLEAN
    /\ op = "idle" <=> asking = NoTest
    /\ rest # {} => op = "some"
    /\ calls \in Nat
    /\ lost \subseteq Tests

LEMMA OpenInvInit == Init => OpenInv
BY ResultBrokerAssumption DEF Init, OpenInv

LEMMA OpenInvStep == OpenInv /\ [Next]_vars => OpenInv'
<1> SUFFICES ASSUME OpenInv, [Next]_vars PROVE OpenInv'
  OBVIOUS
<1> USE DEF OpenInv, fixed, history
<1>1. ASSUME NEW t \in Tests, Answer(t) PROVE OpenInv'
  BY <1>1 DEF Answer
<1>2. ASSUME NEW t \in Tests, Ask(t) PROVE OpenInv'
  BY <1>2, ResultBrokerAssumption DEF Ask
<1>3. ASSUME NEW what, Finish(what), UNCHANGED <<fixed, calls>>, lost' \subseteq Tests
      PROVE  OpenInv'
  BY <1>3 DEF Finish
<1>4. ASSUME NEW asked, NEW shown, Shows(asked, shown) PROVE lost' \subseteq Tests
  BY <1>4 DEF Shows
<1>5. CASE RunAll
  BY <1>3, <1>4, <1>5 DEF RunAll, Unreadable
<1>6. CASE RunOne
  BY <1>3, <1>4, <1>6 DEF RunOne, Unreadable
<1>7. CASE RunSome
  <2>1. UNCHANGED <<fixed, calls>> /\ op = "some"
    BY <1>7, RunSomeIs
  <2>2. CASE Unreadable
    BY <1>3, <2>1, <2>2 DEF Unreadable
  <2>3. ASSUME NEW shown, RunSomeShows(shown) PROVE OpenInv'
    <3>1. lost' \subseteq Tests
      BY <1>4, <2>3 DEF RunSomeShows
    <3>2. CASE \E what : Finish(what)
      BY <1>3, <2>1, <3>1, <3>2
    <3>3. CASE UNCHANGED <<asking, op>>
      BY <2>1, <3>1, <3>3
    <3> QED
      BY <2>3, <3>2, <3>3 DEF RunSomeShows
  <2> QED
    BY <1>7, <2>2, <2>3, RunSomeIs
<1>8. CASE UNCHANGED vars
  BY <1>8 DEF vars
<1> QED
  BY <1>1, <1>2, <1>5, <1>6, <1>7, <1>8 DEF Next, Exchange

LEMMA BrokerIsTyped == BrokerInv /\ OpenInv => TypeOK
<1> SUFFICES ASSUME BrokerInv, OpenInv PROVE TypeOK
  OBVIOUS
<1> USE DEF BrokerInv, OpenInv, Shapes, Operations
<1>1. asking # NoTest => asking \in selected /\ asking \in Tests
  OBVIOUS
<1>2. asking # NoTest => rest \subseteq Mates(asking)
  OBVIOUS
<1> QED
  BY <1>1, <1>2 DEF TypeOK

(* The types, for any suite, selection and guest.                          *)
THEOREM BrokerTypes == Spec => []TypeOK
<1>1. BrokerInv /\ OpenInv /\ [Next]_vars => (BrokerInv /\ OpenInv)'
  BY BrokerInvStep, OpenInvStep
<1> QED
  BY <1>1, BrokerInvInit, OpenInvInit, BrokerIsTyped, PTL DEF Spec

=============================================================================
