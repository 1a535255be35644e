---------------------------- MODULE FetchProofs -----------------------------
(***************************************************************************)
(* Proofs about the fetch loop, for any number of User-Agents, any panel   *)
(* and any parser: its type invariant, which answer a fetch rests on, and  *)
(* when it may report an error.                                            *)
(***************************************************************************)
EXTENDS SubscriptionFetch, TLAPS

\* The attempts made when the loop is at `stage` and `agent`.
Made == CASE stage = "plain"   -> agent - 1
          [] stage = "flagged" -> Agents + agent - 1
          [] OTHER             -> Attempts

\* What the loop knows of the answers: none was usable, `best` is the first
\* stub, and without a stub `lastErr` is the last of them.
LoopInv ==
  InLoop =>
    /\ Len(answers) = Made
    /\ stage = "plain" \/ Len(answers) > 0
    /\ stage = "flagged" => ~hasFlag /\ agent <= Retries
    /\ \A i \in 1 .. Len(answers) : answers[i] \in Fruitless
    /\ best = None => \A i \in 1 .. Len(answers) : answers[i] \in Errors
    /\ best = None /\ Len(answers) > 0 => lastErr = answers[Len(answers)]
    /\ best # None => \E i \in 1 .. Len(answers) :
                        /\ answers[i] = best
                        /\ \A j \in 1 .. i - 1 : answers[j] \in Errors

FetchInv == FetchTypeOK /\ LoopInv /\ FirstUsableWins /\ ErrorOnlyWhenAllFailed

-----------------------------------------------------------------------------

\* There is a first User-Agent.
LEMMA FirstAgent == 1 \in 1 .. Agents
  BY FetchAssumption

LEMMA InitFetchInv == FetchInit => FetchInv
  <1> SUFFICES ASSUME FetchInit
               PROVE  FetchInv
    OBVIOUS
  <1>1. hasFlag \in BOOLEAN
    BY Zenon DEF FetchInit
  <1>2. FetchTypeOK
    BY <1>1, FirstAgent DEF FetchInit, FetchTypeOK, Stages, Results
  <1>3. LoopInv /\ FirstUsableWins /\ ErrorOnlyWhenAllFailed
    BY DEF FetchInit, LoopInv, InLoop, FirstUsableWins, ErrorOnlyWhenAllFailed
  <1>4. QED
    BY <1>2, <1>3 DEF FetchInv

\* An attempt in the loop makes the history longer by one, wherever it leads.
LEMMA AdvanceFacts ==
  ASSUME FetchTypeOK, LoopInv, Trying, Advance, UNCHANGED hasFlag
  PROVE  /\ stage' \in {"plain", "flagged", "over"}
         /\ agent' \in 1 .. Agents
         /\ Made' = Made + 1
         /\ stage' = "flagged" => ~hasFlag' /\ agent' <= Retries
  BY FetchAssumption
  DEF FetchTypeOK, LoopInv, InLoop, Trying, Advance, PassLength, Made, Attempts, Stages

\* The body that is delivered has the type of a result.
LEMMA DeliverFacts ==
  ASSUME NEW b \in Bodies, FetchTypeOK, Deliver(b)
  PROVE  /\ stage' = "idle"
         /\ outcome'.result \in {"ok", "unusable"}
         /\ outcome'.of = b
         /\ outcome' \in [result : Results, of : Bodies \cup Errors \cup {None}]
         /\ profile' \in {Parsed[c] : c \in Bodies} \cup {None}
  BY DEF Deliver, FetchTypeOK, Results

\* A usable answer ends the fetch at once.
LEMMA UsableKeepsInv ==
  ASSUME FetchInv, NEW b \in Bodies, UsableAnswer(b)
  PROVE  FetchInv'
  <1>1. /\ FetchTypeOK /\ LoopInv /\ Trying
        /\ b \notin Stubs /\ Deliver(b)
        /\ answers' = Append(answers, b)
        /\ UNCHANGED loop
    BY DEF FetchInv, UsableAnswer
  <1>2. answers \in Seq(Bodies \cup Errors)
    BY <1>1 DEF FetchTypeOK
  <1>3. /\ answers' \in Seq(Bodies \cup Errors)
        /\ Len(answers') = Len(answers) + 1
        /\ answers'[Len(answers')] = b
        /\ \A i \in 1 .. Len(answers) : answers'[i] = answers[i]
    BY <1>1, <1>2
  <1>4. FetchTypeOK'
    BY <1>1, <1>3, DeliverFacts DEF FetchTypeOK, loop, Stages
  <1>5. LoopInv'
    BY <1>1, DeliverFacts DEF LoopInv, InLoop
  <1>6. ErrorOnlyWhenAllFailed'
    BY <1>1, DeliverFacts DEF ErrorOnlyWhenAllFailed
  <1>7. FirstUsableWins'
    <2>1. outcome'.of = b
      BY <1>1, DeliverFacts
    <2>2. answers' # <<>> /\ Len(answers') - 1 = Len(answers)
      BY <1>2, <1>3
    <2>3. \A i \in 1 .. Len(answers') - 1 : answers'[i] \in Fruitless
      BY <1>1, <1>3, <2>2 DEF LoopInv, InLoop, Trying
    <2>4. Fruitless' = Fruitless
      BY DEF Fruitless
    <2>5. QED
      BY <1>1, <1>3, <2>1, <2>2, <2>3, <2>4 DEF FirstUsableWins
  <1>8. QED
    BY <1>4, <1>5, <1>6, <1>7 DEF FetchInv

\* A fruitless answer is recorded and the loop goes on.
LEMMA FruitlessKeepsInv ==
  ASSUME FetchInv,
         \/ \E b \in Bodies : StubAnswer(b)
         \/ \E e \in Errors : AttemptFails(e)
  PROVE  FetchInv'
  <1>1. PICK a \in Fruitless :
          /\ answers' = Append(answers, a)
          /\ \/ a \in Stubs /\ best' = (IF best = None THEN a ELSE best) /\ lastErr' = lastErr
             \/ a \in Errors /\ best' = best /\ lastErr' = a
    <2>1. ASSUME NEW b \in Bodies, StubAnswer(b)
          PROVE  /\ b \in Stubs /\ answers' = Append(answers, b)
                 /\ best' = (IF best = None THEN b ELSE best) /\ lastErr' = lastErr
      <3>1. best = None \/ best \in Stubs
        BY DEF FetchInv, FetchTypeOK
      <3>2. QED
        BY <2>1, <3>1 DEF StubAnswer, Quality
    <2>2. ASSUME NEW e \in Errors, AttemptFails(e)
          PROVE  answers' = Append(answers, e) /\ best' = best /\ lastErr' = e
      BY <2>2 DEF AttemptFails
    <2>3. QED
      BY <2>1, <2>2 DEF Fruitless
  <1>2. /\ FetchTypeOK /\ LoopInv /\ Trying /\ Advance
        /\ UNCHANGED <<hasFlag, outcome, profile>>
    BY DEF FetchInv, StubAnswer, AttemptFails
  <1>3. /\ stage' \in {"plain", "flagged", "over"}
        /\ agent' \in 1 .. Agents
        /\ Made' = Made + 1
        /\ stage' = "flagged" => ~hasFlag' /\ agent' <= Retries
    BY <1>2, AdvanceFacts
  <1>4. /\ answers \in Seq(Bodies \cup Errors)
        /\ Len(answers) \in Nat
        /\ Len(answers) = Made
    BY <1>2 DEF FetchTypeOK, LoopInv, InLoop, Trying
  <1>5. a \in Bodies \cup Errors /\ a # None
    BY FetchAssumption DEF Fruitless
  <1>6. /\ answers' \in Seq(Bodies \cup Errors)
        /\ Len(answers') = Len(answers) + 1
        /\ answers'[Len(answers) + 1] = a
        /\ \A i \in 1 .. Len(answers) : answers'[i] = answers[i]
    BY <1>1, <1>4, <1>5
  <1>7. FetchTypeOK'
    BY <1>1, <1>2, <1>3, <1>6 DEF FetchTypeOK, Stages
  <1>8. LoopInv'
    <2>1. Len(answers') = Made' /\ Len(answers') > 0
      BY <1>3, <1>4, <1>6
    <2>2. \A i \in 1 .. Len(answers') : answers'[i] \in Fruitless
      BY <1>1, <1>2, <1>4, <1>6 DEF LoopInv, InLoop, Trying
    <2>3. best' = None => \A i \in 1 .. Len(answers') : answers'[i] \in Errors
      BY <1>1, <1>2, <1>4, <1>5, <1>6 DEF LoopInv, InLoop, Trying
    <2>4. best' = None => lastErr' = answers'[Len(answers')]
      BY <1>1, <1>4, <1>5, <1>6
    <2>5. ASSUME best' # None
          PROVE  \E i \in 1 .. Len(answers') :
                   /\ answers'[i] = best'
                   /\ \A j \in 1 .. i - 1 : answers'[j] \in Errors
      <3>1. CASE best = None
        <4>1. best' = a /\ \A j \in 1 .. Len(answers) : answers[j] \in Errors
          BY <1>1, <1>2, <2>5, <3>1 DEF LoopInv, InLoop, Trying
        <4>2. Len(answers) + 1 \in 1 .. Len(answers')
          BY <1>4, <1>6
        <4>3. QED
          BY <1>4, <1>6, <4>1, <4>2
      <3>2. CASE best # None
        <4>1. PICK i \in 1 .. Len(answers) :
                /\ answers[i] = best
                /\ \A j \in 1 .. i - 1 : answers[j] \in Errors
          BY <1>2, <3>2 DEF LoopInv, InLoop, Trying
        <4>2. best' = best
          BY <1>1, <3>2
        <4>3. QED
          BY <1>4, <1>6, <4>1, <4>2
      <3>3. QED
        BY <3>1, <3>2
    <2>6. QED
      BY <1>3, <2>1, <2>2, <2>3, <2>4, <2>5 DEF LoopInv, InLoop, Fruitless
  <1>9. FirstUsableWins' /\ ErrorOnlyWhenAllFailed'
    BY <1>3 DEF FirstUsableWins, ErrorOnlyWhenAllFailed
  <1>10. QED
    BY <1>7, <1>8, <1>9 DEF FetchInv

\* After the loop the fetch rests on the first stub, or reports the last error.
LEMMA ConcludeKeepsInv ==
  ASSUME FetchInv, Conclude
  PROVE  FetchInv'
  <1>1. /\ FetchTypeOK /\ LoopInv /\ stage = "over"
        /\ UNCHANGED <<loop, answers>>
        /\ stage' = "idle"
    BY DEF FetchInv, Conclude, Deliver
  <1>2. /\ Len(answers) = Attempts /\ Len(answers) > 0
        /\ Attempts' = Attempts
        /\ \A i \in 1 .. Len(answers) : answers[i] \in Fruitless
    BY <1>1 DEF LoopInv, InLoop, Made, Attempts, loop
  <1>3. LoopInv'
    BY <1>1 DEF LoopInv, InLoop
  <1>4. CASE best # None
    <2>1. best \in Bodies /\ Deliver(best)
      BY <1>1, <1>4, FetchAssumption DEF FetchTypeOK, Conclude
    <2>2. FetchTypeOK'
      BY <1>1, <2>1, DeliverFacts DEF FetchTypeOK, loop, Stages
    <2>3. outcome'.of = best /\ outcome'.result \in {"ok", "unusable"}
      BY <1>1, <2>1, DeliverFacts
    <2>4. \E i \in 1 .. Len(answers) :
            /\ answers[i] = best
            /\ \A j \in 1 .. i - 1 : answers[j] \in Errors
      BY <1>1, <1>4 DEF LoopInv, InLoop
    <2>5. FirstUsableWins'
      BY <1>1, <1>2, <2>3, <2>4 DEF FirstUsableWins, Fruitless
    <2>6. ErrorOnlyWhenAllFailed'
      BY <2>3 DEF ErrorOnlyWhenAllFailed
    <2>7. QED
      BY <1>3, <2>2, <2>5, <2>6 DEF FetchInv
  <1>5. CASE best = None
    <2>1. outcome' = [result |-> "failed", of |-> lastErr] /\ profile' = profile
      BY <1>5 DEF Conclude
    <2>2. /\ \A i \in 1 .. Len(answers) : answers[i] \in Errors
          /\ lastErr = answers[Len(answers)]
      BY <1>1, <1>2, <1>5 DEF LoopInv, InLoop
    <2>3. FetchTypeOK'
      BY <1>1, <2>1 DEF FetchTypeOK, loop, Stages, Results
    <2>4. FirstUsableWins'
      BY <2>1 DEF FirstUsableWins
    <2>5. ErrorOnlyWhenAllFailed'
      BY <1>1, <1>2, <2>1, <2>2 DEF ErrorOnlyWhenAllFailed
    <2>6. QED
      BY <1>3, <2>3, <2>4, <2>5 DEF FetchInv
  <1>6. QED
    BY <1>4, <1>5

\* A new fetch forgets the last one; one whose URL is refused asks nobody.
LEMMA StartKeepsInv ==
  ASSUME FetchInv,
         \/ AskHelper
         \/ \E flag \in BOOLEAN : Begin(flag)
         \/ Unresolved
         \/ UNCHANGED fvars
  PROVE  FetchInv'
  <1> USE FetchAssumption
      DEF FetchInv, FetchTypeOK, LoopInv, InLoop, FirstUsableWins,
          ErrorOnlyWhenAllFailed, Stages, Results, loop
  <1>1. ASSUME NEW flag \in BOOLEAN, Begin(flag)
        PROVE  FetchInv'
    BY <1>1 DEF Begin, Forgets, Made
  <1>2. CASE Unresolved \/ AskHelper
    <2>1. /\ agent' = 1 /\ best' = None /\ lastErr' = None /\ answers' = <<>>
          /\ UNCHANGED <<hasFlag, profile>>
          /\ stage' \in {"idle", "resolving"}
          /\ outcome' \in [result : {"none", "unresolved"}, of : {None}]
      BY <1>2 DEF Unresolved, AskHelper, Forgets
    <2>2. FetchTypeOK'
      BY <2>1
    <2>3. LoopInv' /\ FirstUsableWins' /\ ErrorOnlyWhenAllFailed'
      BY <2>1
    <2>4. QED
      BY <2>2, <2>3
  <1>3. CASE UNCHANGED fvars
    BY <1>3 DEF fvars, Made, Attempts, Fruitless
  <1>4. QED
    BY <1>1, <1>2, <1>3

LEMMA FetchInvariant == FetchSpec => []FetchInv
  <1>1. FetchInv /\ [FetchNext]_fvars => FetchInv'
    BY UsableKeepsInv, FruitlessKeepsInv, ConcludeKeepsInv, StartKeepsInv
    DEF FetchNext, FetchGoesOn
  <1>2. QED
    BY <1>1, InitFetchInv, PTL DEF FetchSpec

\* Every reachable state of the fetch loop is well typed: no User-Agent beyond
\* the list is tried, and the best answer kept is a stub.
THEOREM FetchTypeCorrect == FetchSpec => []FetchTypeOK
  BY FetchInvariant, PTL DEF FetchInv

\* However many User-Agents and retries: the first usable answer wins.
THEOREM UsableAnswerWins == FetchSpec => []FirstUsableWins
  BY FetchInvariant, PTL DEF FetchInv

\* However many User-Agents and retries: an error is reported only when every
\* attempt has failed.
THEOREM ErrorsAreFinal == FetchSpec => []ErrorOnlyWhenAllFailed
  BY FetchInvariant, PTL DEF FetchInv

-----------------------------------------------------------------------------
(* Why a fetch ends                                                        *)

\* The steps a fetch in progress may still make: its attempts, and the end.
Remaining == IF InLoop THEN 1 + Attempts - Made ELSE 0

\* Every step of a fetch in progress leaves fewer to make, and there never
\* are more than one per attempt and one for the end.
Descends ==
  InLoop =>
    /\ Remaining \in 1 .. Attempts + 1
    /\ Remaining' \in Nat /\ Remaining' < Remaining

LEMMA RemainingBounds ==
  ASSUME FetchInv
  PROVE  /\ Attempts \in Nat /\ Remaining \in Nat
         /\ InLoop => /\ Made \in Nat /\ Remaining = 1 + Attempts - Made
                      /\ Remaining \in 1 .. Attempts + 1
  <1>1. Attempts \in Nat
    BY FetchAssumption DEF Attempts
  <1>2. ASSUME InLoop
        PROVE  Made \in Nat /\ Made <= Attempts
    BY <1>2, FetchAssumption DEF FetchInv, FetchTypeOK, LoopInv, InLoop, Made, Attempts, Stages
  <1>3. QED
    BY <1>1, <1>2 DEF Remaining

\* However many User-Agents and retries, and whatever the panel answers, a
\* fetch ends after at most one step per attempt and one to conclude: nothing
\* in the loop makes an attempt twice.
THEOREM FetchDescends == FetchSpec => [][Descends]_fvars
  <1>1. ASSUME FetchInv, FetchNext, InLoop
        PROVE  Remaining \in 1 .. Attempts + 1 /\ Remaining' \in Nat /\ Remaining' < Remaining
    <2>1. /\ Attempts \in Nat /\ Made \in Nat
          /\ Remaining = 1 + Attempts - Made /\ Remaining \in 1 .. Attempts + 1
      BY <1>1, RemainingBounds
    <2>2. FetchGoesOn
      BY <1>1 DEF FetchNext, AskHelper, Begin, Unresolved, InLoop
    <2>3. CASE ~InLoop'
      BY <2>1, <2>3 DEF Remaining
    <2>4. CASE InLoop'
      <3>1. Trying /\ Advance /\ UNCHANGED hasFlag
        BY <2>2, <2>4 DEF InLoop, FetchGoesOn, UsableAnswer, StubAnswer, AttemptFails, Conclude, Deliver
      <3>2. Made' = Made + 1 /\ Attempts' = Attempts
        BY <1>1, <3>1, AdvanceFacts DEF FetchInv, Attempts
      <3>3. FetchInv'
        BY <1>1, UsableKeepsInv, FruitlessKeepsInv, ConcludeKeepsInv, StartKeepsInv
        DEF FetchNext, FetchGoesOn
      <3>4. Made' <= Attempts'
        BY <2>4, <3>3, FetchAssumption DEF FetchInv, FetchTypeOK, LoopInv, InLoop, Made, Attempts, Stages
      <3>5. Remaining' = 1 + Attempts' - Made'
        BY <2>4 DEF Remaining
      <3>6. QED
        BY <2>1, <2>4, <3>2, <3>4, <3>5
    <2>5. QED
      BY <2>3, <2>4
  <1>2. FetchInv /\ [FetchNext]_fvars => [Descends]_fvars
    BY <1>1 DEF Descends
  <1>3. QED
    BY <1>2, FetchInvariant, PTL DEF FetchSpec

-----------------------------------------------------------------------------
(* What a fetch leaves behind                                              *)

\* A successful fetch leaves the profile of the body it rests on, and an
\* unusable body has none.
Delivered ==
  /\ outcome.result = "ok" =>
       /\ outcome.of \in Bodies /\ Parsed[outcome.of] # None
       /\ profile = Parsed[outcome.of]
  /\ outcome.result = "unusable" =>
       outcome.of \in Bodies /\ Parsed[outcome.of] = None

LEMMA DeliverDelivers ==
  ASSUME NEW b \in Bodies, Deliver(b)
  PROVE  Delivered'
  BY DEF Deliver, Delivered

LEMMA StepDelivered ==
  ASSUME FetchInv, Delivered, [FetchNext]_fvars
  PROVE  Delivered'
  <1>1. ASSUME NEW b \in Bodies, UsableAnswer(b)
        PROVE  Delivered'
    BY <1>1, DeliverDelivers DEF UsableAnswer
  <1>2. ASSUME Conclude
        PROVE  Delivered'
    <2>1. CASE best # None
      <3>1. best \in Bodies /\ Deliver(best)
        BY <1>2, <2>1, FetchAssumption DEF FetchInv, FetchTypeOK, Conclude
      <3>2. QED
        BY <3>1, DeliverDelivers
    <2>2. CASE best = None
      BY <1>2, <2>2 DEF Conclude, Delivered
    <2>3. QED
      BY <2>1, <2>2
  <1>3. ASSUME NEW flag \in BOOLEAN, Begin(flag)
        PROVE  Delivered'
    BY <1>3 DEF Begin, Delivered
  <1>4. CASE Unresolved \/ AskHelper
    BY <1>4 DEF Unresolved, AskHelper, Delivered
  <1>5. CASE \/ \E b \in Bodies : StubAnswer(b)
             \/ \E e \in Errors : AttemptFails(e)
             \/ UNCHANGED fvars
    BY <1>5 DEF StubAnswer, AttemptFails, fvars, Delivered
  <1>6. QED
    BY <1>1, <1>2, <1>3, <1>4, <1>5 DEF FetchNext, FetchGoesOn

LEMMA AlwaysDelivered == FetchSpec => []Delivered
  <1>1. FetchInit => Delivered
    BY DEF FetchInit, Delivered
  <1>2. FetchInv /\ Delivered /\ [FetchNext]_fvars => Delivered'
    BY StepDelivered
  <1>3. QED
    BY <1>1, <1>2, FetchInvariant, PTL DEF FetchSpec
=============================================================================
