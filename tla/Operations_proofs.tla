------------------------- MODULE Operations_proofs -------------------------
(***************************************************************************)
(* Theorems about Operations, for any number of plans, positions,          *)
(* evaluations and prices, and any limit.                                  *)
(*                                                                         *)
(* The limit needs a stronger invariant: it holds of the plans that are    *)
(* counted and not inserted yet together with those that are there.  The   *)
(* stop needs two: the highest price the row keeps is the highest seen,    *)
(* and what an evaluation has loaded of a row is what the row still says.  *)
(***************************************************************************)
EXTENDS Operations, FiniteSetTheorems, TLAPS

\* Plans that are there, or will be after a request that is past its count.
Taken == {p \in Plans \ excused : plan[p] \in Live \cup {"counted"}}
TakenWithinLimit == Cardinality(Taken) <= MaxPlans

\* Shares cost something, and a stop lies below the price it is taken from.
RealStops == Cost > 0 /\ FixedPct > 0 /\ TrailingPct > 0 /\ TightPct > 0

\* The row's peak is the highest price seen, and no row goes by unseen.
PeaksTracked ==
    \A s \in Positions :
        /\ row[s] # NoRow => top[s] # 0
        /\ row[s] # NoRow /\ s \notin raced => row[s].peak = top[s]

\* What an evaluation has loaded is what a position it has to itself still says.
LoadedCurrent ==
    \A s \in Positions, e \in Evaluators : loaded[e][s] # NoRow =>
        /\ top[s] # 0
        /\ row[s] # NoRow /\ s \notin raced =>
               loaded[e][s].price = row[s].price /\ loaded[e][s].peak = row[s].peak

StopInv == TypeOK /\ PeaksTracked /\ LoadedCurrent /\ HeldAboveStop
-----------------------------------------------------------------------------
\* A verdict on a position is a stage, a stop price and whether to sell.
LEMMA Verdict ==
    ASSUME NEW price \in Nat, NEW peak \in Nat, NEW days \in Nat, NEW weak \in BOOLEAN,
           NEW ma20 \in Nat
    PROVE  EvaluateStopStage(price, peak, days, weak, ma20)
               \in [stage : 1 .. 5, stop : Int, sell : BOOLEAN]
<1> USE OperationsAssumption
<1>1. ASSUME NEW stage \in 1 .. 5, NEW base \in Nat, NEW pct \in Nat
      PROVE  Trailing(stage, base, price, pct)
                 \in [stage : 1 .. 5, stop : Int, sell : BOOLEAN]
  BY <1>1 DEF Trailing, StopAt
<1>2. CASE price < ma20
  BY <1>2 DEF EvaluateStopStage
<1>3. CASE ~(price < ma20) /\ price >= ma20 /\ days >= LongDays /\ weak
  BY <1>3 DEF EvaluateStopStage
<1>4. CASE ~(price < ma20) /\ ~(price >= ma20 /\ days >= LongDays /\ weak)
  <2> DEFINE verdict == IF GainedPct(peak, TightTrigger) THEN Trailing(3, peak, price, TightPct)
                        ELSE IF GainedPct(peak, TrailingTrigger)
                             THEN Trailing(2, peak, price, TrailingPct)
                             ELSE Trailing(1, Cost, price, FixedPct)
  <2>1. EvaluateStopStage(price, peak, days, weak, ma20) = verdict
    BY <1>4, Zenon DEF EvaluateStopStage
  <2>2. /\ FixedPct \in Nat /\ TrailingPct \in Nat /\ TightPct \in Nat /\ Cost \in Nat
        /\ 1 \in 1 .. 5 /\ 2 \in 1 .. 5 /\ 3 \in 1 .. 5
    OBVIOUS
  <2>3. /\ Trailing(3, peak, price, TightPct) \in [stage : 1 .. 5, stop : Int, sell : BOOLEAN]
        /\ Trailing(2, peak, price, TrailingPct) \in [stage : 1 .. 5, stop : Int, sell : BOOLEAN]
        /\ Trailing(1, Cost, price, FixedPct) \in [stage : 1 .. 5, stop : Int, sell : BOOLEAN]
    BY <1>1, <2>2, Zenon
  <2> QED
    BY <2>1, <2>3, Zenon
<1> QED
  BY <1>2, <1>3, <1>4

\* Writing the changed columns leaves a row of the table, with the sale it had.
LEMMA RowWritten ==
    ASSUME NEW now \in Row, NEW was \in Row, NEW price \in Prices, NEW ma20 \in Averages,
           NEW weak \in BOOLEAN, NEW far \in Reach
    PROVE  /\ Changed(now, was, price, ma20, weak, far) \in Row
           /\ Changed(now, was, price, ma20, weak, far).sold = now.sold
<1> DEFINE peak == PeakWith(was, price)
           new  == EvaluateStopStage(price, peak, was.days + 1, weak, ma20)
<1>1. price \in Nat /\ ma20 \in Nat /\ was.days + 1 \in Nat /\ peak \in Nat
  BY OperationsAssumption DEF Row, PeakWith
<1>2. new \in [stage : 1 .. 5, stop : Int, sell : BOOLEAN]
  BY <1>1, Verdict
<1> HIDE DEF new
<1>3. new.stage \in 1 .. 5 /\ new.stop \in Int
  BY <1>2
<1>4. PICK stage \in 1 .. 5, stop \in Int, status \in {now.status, "PENDING_SELL"},
           top1 \in {price, now.peak}, price1 \in {price, now.price},
           days1 \in {now.days, was.days + 1} :
          Changed(now, was, price, ma20, weak, far)
              = [now EXCEPT !.price = price1, !.peak = top1, !.days = days1,
                            !.stage = stage, !.stop = stop, !.status = status]
  <2> DEFINE up    == far = "verdict" /\ new.stage > was.stage
             stage == IF up THEN new.stage ELSE now.stage
             stop  == IF up THEN new.stop ELSE now.stop
             status == IF far = "verdict" /\ new.sell THEN "PENDING_SELL" ELSE now.status
             top1 == IF far \in Peaked /\ price > was.peak THEN price ELSE now.peak
             price1 == IF far \in Priced /\ price # was.price THEN price ELSE now.price
             days1 == IF far \in Priced THEN was.days + 1 ELSE now.days
  <2>1. Changed(now, was, price, ma20, weak, far)
              = [now EXCEPT !.price = price1, !.peak = top1, !.days = days1,
                            !.stage = stage, !.stop = stop, !.status = status]
    BY DEF Changed, new, Row
  <2>2. stage \in 1 .. 5 /\ stop \in Int
    BY <1>3 DEF Row
  <2>3. /\ status \in {now.status, "PENDING_SELL"}
        /\ top1 \in {price, now.peak} /\ price1 \in {price, now.price}
        /\ days1 \in {now.days, was.days + 1}
    OBVIOUS
  <2> HIDE DEF up, stage, stop, status, top1, price1, days1
  <2> QED
    BY <2>1, <2>2, <2>3, ZenonT(30)
<1>5. /\ price1 \in Prices \cup {Cost} /\ top1 \in Prices \cup {Cost}
      /\ status \in {"HOLDING", "PENDING_SELL", "CLOSED"}
  BY <1>4 DEF Row
<1>6. ASSUME NEW days \in Nat
      PROVE  /\ [now EXCEPT !.price = price1, !.peak = top1, !.days = days,
                            !.stage = stage, !.stop = stop, !.status = status] \in Row
             /\ [now EXCEPT !.price = price1, !.peak = top1, !.days = days,
                            !.stage = stage, !.stop = stop, !.status = status].sold = now.sold
  BY <1>5, <1>6 DEF Row
<1>7. days1 \in Nat
  BY <1>1, <1>4 DEF Row
<1> QED
  BY <1>4, <1>6, <1>7

\* Every call keeps the tables to their values.
LEMMA TypesStep ==
    ASSUME TypeOK, [Next]_vars
    PROVE  TypeOK'
<1> USE OperationsAssumption DEF TypeOK, Live, Exists, evaluation
<1>1. ASSUME NEW p \in Plans, Request(p)
      PROVE  TypeOK'
  <2>1. CASE CountPlans(p)
    BY <2>1 DEF CountPlans
  <2>2. CASE InsertPlan(p)
    BY <2>2 DEF InsertPlan
  <2>3. CASE DeletePlan(p)
    BY <2>3 DEF DeletePlan
  <2>4. ASSUME NEW status \in Live \cup {"ARCHIVED"}, SetPlanStatus(p, status)
        PROVE  TypeOK'
    BY <2>4 DEF SetPlanStatus
  <2>5. CASE SaveCandidate(p)
    BY <2>5 DEF SaveCandidate
  <2>6. CASE SkipCandidate(p)
    BY <2>6 DEF SkipCandidate
  <2>7. ASSUME NEW s \in Positions, NEW manual \in BOOLEAN, ExecuteBuy(p, s, manual)
        PROVE  TypeOK'
    BY <2>7 DEF ExecuteBuy, StopAt, Row
  <2> QED
    BY <1>1, <2>1, <2>2, <2>3, <2>4, <2>5, <2>6, <2>7 DEF Request
<1>2. ASSUME NEW s \in Positions, Handle(s)
      PROVE  TypeOK'
  <2>1. ASSUME NEW price \in SalePrices, ConfirmSell(s, price)
        PROVE  TypeOK'
    <3>1. row' = [row EXCEPT ![s] = [row[s] EXCEPT !.status = "CLOSED", !.sold = price]]
      BY <2>1 DEF ConfirmSell
    <3>2. row[s] \in Row /\ row[s] # NoRow
      BY <2>1 DEF ConfirmSell
    <3>3. row'[s] \in Row
      BY <3>1, <3>2 DEF Row
    <3> QED
      BY <2>1, <3>1, <3>3 DEF ConfirmSell
  <2>2. ASSUME NEW stage \in HandStages, NEW stop \in StopPrices, AdjustStop(s, stage, stop)
        PROVE  TypeOK'
    <3>1. row' = [row EXCEPT ![s] = [row[s] EXCEPT !.stage = stage, !.stop = stop]]
      BY <2>2 DEF AdjustStop
    <3>2. row[s] \in Row /\ row[s] # NoRow
      BY <2>2 DEF AdjustStop
    <3>3. stage \in 1 .. 5 /\ stop \in Int
      BY <2>2
    <3>4. row'[s] \in Row
      BY <3>1, <3>2, <3>3 DEF Row
    <3> QED
      BY <2>2, <3>1, <3>4 DEF AdjustStop
  <2> QED
    BY <1>2, <2>1, <2>2 DEF Handle
<1>3. ASSUME NEW e \in Evaluators, Evaluate(e)
      PROVE  TypeOK'
  <2>1. CASE BeginEvaluation(e)
    BY <2>1 DEF BeginEvaluation
  <2>2. ASSUME NEW p \in Plans, LoadPositions(e, p)
        PROVE  TypeOK'
    BY <2>2 DEF LoadPositions
  <2>3. ASSUME NEW price \in Prices, NEW ma20 \in Averages, NEW weak \in BOOLEAN,
             NEW far \in [Positions -> Reach], CommitEvaluation(e, price, ma20, weak, far)
        PROVE  TypeOK'
    <3>1. row' \in [Positions -> Row \cup {NoRow}]
        BY <2>3, RowWritten DEF CommitEvaluation, Touched
      <3>2. top' \in [Positions -> Prices \cup {0, Cost}]
        BY <2>3 DEF CommitEvaluation
      <3>3. raced' \subseteq Positions
        BY <2>3 DEF CommitEvaluation, Touched
      <3> QED
        BY <2>3, <3>1, <3>2, <3>3 DEF CommitEvaluation, Finish
  <2>4. CASE AbortEvaluation(e)
    BY <2>4 DEF AbortEvaluation
  <2> QED
    BY <1>3, <2>1, <2>2, <2>3, <2>4 DEF Evaluate
<1>4. CASE UNCHANGED vars
  BY <1>4 DEF vars
<1> QED
  BY <1>1, <1>2, <1>3, <1>4 DEF Next

\* A call after which no more plans are taken keeps the limit.
LEMMA Fewer ==
    ASSUME TakenWithinLimit, Taken' \subseteq Taken
    PROVE  TakenWithinLimit'
<1>1. IsFiniteSet(Taken)
  BY FS_Subset, OperationsAssumption DEF Taken
<1>2. IsFiniteSet(Taken') /\ Cardinality(Taken') <= Cardinality(Taken)
  BY <1>1, FS_Subset
<1> QED
  BY <1>1, <1>2, FS_CardinalityType, OperationsAssumption DEF TakenWithinLimit

\* Only a count takes a plan more, and it takes it within the limit.
LEMMA LimitStep ==
    ASSUME TypeOK, TakenWithinLimit, [Next]_vars
    PROVE  TakenWithinLimit'
<1> USE DEF evaluation
<1>1. ASSUME NEW p \in Plans, Request(p)
      PROVE  TakenWithinLimit'
  <2>1. CASE CountPlans(p)
    <3>1. Taken' \subseteq Counted \cup {p}
      BY <2>1 DEF CountPlans, Taken, Counted, TypeOK
    <3>2. IsFiniteSet(Counted) /\ Cardinality(Counted) < MaxPlans
      BY <2>1, FS_Subset, OperationsAssumption DEF CountPlans, Counted
    <3>3. /\ IsFiniteSet(Counted \cup {p})
          /\ Cardinality(Counted \cup {p}) <= Cardinality(Counted) + 1
      <4>1. Cardinality(Counted) \in Nat
        BY <3>2, FS_CardinalityType
      <4>2. /\ IsFiniteSet(Counted \cup {p})
            /\ Cardinality(Counted \cup {p})
                   = IF p \in Counted THEN Cardinality(Counted) ELSE Cardinality(Counted) + 1
        BY <3>2, FS_AddElement
      <4> QED
        BY <4>1, <4>2
    <3>4. Cardinality(Taken') <= Cardinality(Counted \cup {p}) /\ IsFiniteSet(Taken')
      BY <3>1, <3>3, FS_Subset
    <3> QED
      BY <3>2, <3>3, <3>4, FS_CardinalityType, OperationsAssumption, SMTT(30) DEF TakenWithinLimit
  <2>2. CASE InsertPlan(p)
    BY <2>2, Fewer DEF InsertPlan, Taken, TypeOK, Live
  <2>3. CASE DeletePlan(p)
    BY <2>3, Fewer DEF DeletePlan, Taken, TypeOK, Exists, Live
  <2>4. ASSUME NEW status \in Live \cup {"ARCHIVED"}, SetPlanStatus(p, status)
        PROVE  TakenWithinLimit'
    BY <2>4, Fewer DEF SetPlanStatus, Taken, TypeOK, Exists, Live
  <2>5. CASE SaveCandidate(p)
    BY <2>5, Fewer DEF SaveCandidate, Taken
  <2>6. CASE SkipCandidate(p)
    BY <2>6, Fewer DEF SkipCandidate, Taken
  <2>7. ASSUME NEW s \in Positions, NEW manual \in BOOLEAN, ExecuteBuy(p, s, manual)
        PROVE  TakenWithinLimit'
    BY <2>7, Fewer DEF ExecuteBuy, Taken
  <2> QED
    BY <1>1, <2>1, <2>2, <2>3, <2>4, <2>5, <2>6, <2>7 DEF Request
<1>2. ASSUME NEW s \in Positions, Handle(s)
      PROVE  TakenWithinLimit'
  <2>1. ASSUME NEW price \in SalePrices, ConfirmSell(s, price)
        PROVE  TakenWithinLimit'
    BY <2>1, Fewer DEF ConfirmSell, Taken
  <2>2. ASSUME NEW stage \in HandStages, NEW stop \in StopPrices, AdjustStop(s, stage, stop)
        PROVE  TakenWithinLimit'
    BY <2>2, Fewer DEF AdjustStop, Taken
  <2> QED
    BY <1>2, <2>1, <2>2 DEF Handle
<1>3. ASSUME NEW e \in Evaluators, Evaluate(e)
      PROVE  TakenWithinLimit'
  <2>1. CASE BeginEvaluation(e)
    BY <2>1, Fewer DEF BeginEvaluation, Taken
  <2>2. ASSUME NEW p \in Plans, LoadPositions(e, p)
        PROVE  TakenWithinLimit'
    BY <2>2, Fewer DEF LoadPositions, Taken
  <2>3. ASSUME NEW price \in Prices, NEW ma20 \in Averages, NEW weak \in BOOLEAN,
             NEW far \in [Positions -> Reach], CommitEvaluation(e, price, ma20, weak, far)
        PROVE  TakenWithinLimit'
    BY <2>3, Fewer DEF CommitEvaluation, Finish, Taken
  <2>4. CASE AbortEvaluation(e)
    BY <2>4, Fewer DEF AbortEvaluation, Taken
  <2> QED
    BY <1>3, <2>1, <2>2, <2>3, <2>4 DEF Evaluate
<1>4. CASE UNCHANGED vars
  BY <1>4 DEF vars, Taken, TakenWithinLimit
<1> QED
  BY <1>1, <1>2, <1>3, <1>4 DEF Next

\* A sale that was recorded stays, whatever an evaluation has loaded before it.
LEMMA SaleStep ==
    ASSUME TypeOK, [Next]_vars, NEW i \in Positions, row[i] # NoRow, row[i].sold # 0
    PROVE  row'[i] = NoRow \/ row'[i].sold # 0
<1>1. row[i] \in Row
  BY DEF TypeOK
<1>2. CASE UNCHANGED row
  BY <1>2
<1>3. ASSUME NEW p \in Plans, DeletePlan(p)
      PROVE  row'[i] = NoRow \/ row'[i].sold # 0
  BY <1>3 DEF DeletePlan
<1>4. ASSUME NEW p \in Plans, NEW s \in Positions, NEW manual \in BOOLEAN,
             ExecuteBuy(p, s, manual)
      PROVE  row'[i].sold # 0
  BY <1>4 DEF ExecuteBuy, TypeOK
<1>5. ASSUME NEW s \in Positions, NEW price \in SalePrices, ConfirmSell(s, price)
      PROVE  row'[i].sold # 0
  BY <1>1, <1>5, OperationsAssumption DEF ConfirmSell, TypeOK, Row
<1>6. ASSUME NEW s \in Positions, NEW stage, NEW stop, AdjustStop(s, stage, stop)
      PROVE  row'[i].sold # 0
  BY <1>1, <1>6 DEF AdjustStop, TypeOK, Row
<1>7. ASSUME NEW e \in Evaluators, NEW price \in Prices, NEW ma20 \in Averages,
             NEW weak \in BOOLEAN,
             NEW far \in [Positions -> Reach], CommitEvaluation(e, price, ma20, weak, far)
      PROVE  row'[i].sold # 0
  <2>1. CASE i \in Touched(e)
    <3>1. loaded[e][i] \in Row
      BY <2>1 DEF Touched, TypeOK
    <3>2. row'[i] = Changed(row[i], loaded[e][i], price, ma20, weak, far[i])
      BY <1>7, <2>1 DEF CommitEvaluation
    <3> QED
      BY <1>1, <1>7, <3>1, <3>2, RowWritten
  <2>2. CASE i \notin Touched(e)
    BY <1>7, <2>2 DEF CommitEvaluation
  <2> QED
    BY <2>1, <2>2
<1> QED
  BY <1>2, <1>3, <1>4, <1>5, <1>6, <1>7
     DEF Next, Request, Handle, Evaluate, CountPlans, InsertPlan, SetPlanStatus,
         SaveCandidate, SkipCandidate, BeginEvaluation, LoadPositions, AbortEvaluation, vars

-----------------------------------------------------------------------------
\* What one verdict keeps, the verdict on price and peak alone keeps too.
LEMMA KeptIsAbove ==
    ASSUME NEW price \in Nat, NEW peak \in Nat, NEW days \in Nat, NEW weak \in BOOLEAN,
           NEW ma20 \in Nat, ~EvaluateStopStage(price, peak, days, weak, ma20).sell
    PROVE  ~EvaluateStopStage(price, peak, 0, FALSE, 0).sell
<1> USE OperationsAssumption
<1>1. ~(price < ma20)
  BY DEF EvaluateStopStage
<1>2. ~(price >= ma20 /\ days >= LongDays /\ weak)
  BY <1>1 DEF EvaluateStopStage
<1>3. ~(price < 0) /\ ~(price >= 0 /\ 0 >= LongDays /\ FALSE)
  OBVIOUS
<1>4. EvaluateStopStage(price, peak, 0, FALSE, 0)
          = EvaluateStopStage(price, peak, days, weak, ma20)
  BY <1>1, <1>2, <1>3 DEF EvaluateStopStage
<1> QED
  BY <1>4

\* Shares that were just bought are not to be sold.
LEMMA BoughtIsAbove ==
    ASSUME RealStops
    PROVE  ~EvaluateStopStage(Cost, Cost, 0, FALSE, 0).sell
<1> USE OperationsAssumption
<1>1. ASSUME NEW pct \in Nat, pct > 0
      PROVE  ~(Cost * 100 <= Cost * (100 - pct))
  BY <1>1 DEF RealStops
<1>2. ASSUME NEW stage, NEW pct \in Nat, pct > 0
      PROVE  ~Trailing(stage, Cost, Cost, pct).sell
  BY <1>1, <1>2 DEF Trailing, StopAt
<1>3. ~(Cost < 0) /\ ~(Cost >= 0 /\ 0 >= LongDays /\ FALSE)
  OBVIOUS
<1> QED
  BY <1>2, <1>3 DEF EvaluateStopStage, RealStops

\* An evaluation writes the peak it has seen over the peak it has loaded.
LEMMA PeaksStep ==
    ASSUME RealStops, StopInv, [Next]_vars
    PROVE  PeaksTracked'
<1> USE OperationsAssumption DEF StopInv, TypeOK, PeaksTracked, LoadedCurrent, evaluation
<1>1. ASSUME NEW p \in Plans, Request(p)
      PROVE  PeaksTracked'
  <2>1. CASE CountPlans(p)
    BY <2>1 DEF CountPlans
  <2>2. CASE InsertPlan(p)
    BY <2>2 DEF InsertPlan
  <2>3. CASE DeletePlan(p)
    BY <2>3 DEF DeletePlan
  <2>4. ASSUME NEW status \in Live \cup {"ARCHIVED"}, SetPlanStatus(p, status)
        PROVE  PeaksTracked'
    BY <2>4 DEF SetPlanStatus
  <2>5. CASE SaveCandidate(p)
    BY <2>5 DEF SaveCandidate
  <2>6. CASE SkipCandidate(p)
    BY <2>6 DEF SkipCandidate
  <2>7. ASSUME NEW s \in Positions, NEW manual \in BOOLEAN, ExecuteBuy(p, s, manual)
        PROVE  PeaksTracked'
    BY <2>7 DEF ExecuteBuy, RealStops, Row
  <2> QED
    BY <1>1, <2>1, <2>2, <2>3, <2>4, <2>5, <2>6, <2>7 DEF Request
<1>2. ASSUME NEW s \in Positions, Handle(s)
      PROVE  PeaksTracked'
  <2>1. ASSUME NEW price \in SalePrices, ConfirmSell(s, price)
        PROVE  PeaksTracked'
    BY <2>1 DEF ConfirmSell, Row
  <2>2. ASSUME NEW stage \in HandStages, NEW stop \in StopPrices, AdjustStop(s, stage, stop)
        PROVE  PeaksTracked'
    BY <2>2 DEF AdjustStop, Row
  <2> QED
    BY <1>2, <2>1, <2>2 DEF Handle
<1>3. ASSUME NEW e \in Evaluators, Evaluate(e)
      PROVE  PeaksTracked'
  <2>1. CASE BeginEvaluation(e)
    BY <2>1 DEF BeginEvaluation
  <2>2. ASSUME NEW p \in Plans, LoadPositions(e, p)
        PROVE  PeaksTracked'
    BY <2>2 DEF LoadPositions
  <2>3. ASSUME NEW price \in Prices, NEW ma20 \in Averages, NEW weak \in BOOLEAN,
             NEW far \in [Positions -> Reach], CommitEvaluation(e, price, ma20, weak, far)
        PROVE  PeaksTracked'
    <3> SUFFICES ASSUME NEW s \in Positions, row'[s] # NoRow
            PROVE  top'[s] # 0 /\ (s \notin raced' => row'[s].peak = top'[s])
        BY DEF PeaksTracked
      <3>1. row[s] # NoRow /\ top[s] \in Nat /\ price \in Nat
        BY <2>3 DEF CommitEvaluation
      <3>2. CASE s \notin Touched(e)
        BY <2>3, <3>1, <3>2 DEF CommitEvaluation
      <3>3. CASE s \in Touched(e)
        <4>1. row[s] \in Row /\ loaded[e][s] \in Row /\ loaded[e][s] # NoRow
          BY <3>1, <3>3 DEF Touched
        <4>2. /\ row'[s] = Changed(row[s], loaded[e][s], price, ma20, weak, far[s])
              /\ top'[s] = IF far[s] \in Peaked /\ price > top[s] THEN price ELSE top[s]
              /\ raced \subseteq raced'
          BY <2>3, <3>3 DEF CommitEvaluation
        <4>3. row'[s].peak = IF far[s] \in Peaked /\ price > loaded[e][s].peak
                             THEN price ELSE row[s].peak
          BY <4>1, <4>2 DEF Changed, Row
        <4> QED
          BY <3>1, <4>1, <4>2, <4>3
      <3> QED
        BY <3>2, <3>3
  <2>4. CASE AbortEvaluation(e)
    BY <2>4 DEF AbortEvaluation
  <2> QED
    BY <1>3, <2>1, <2>2, <2>3, <2>4 DEF Evaluate
<1>4. CASE UNCHANGED vars
  BY <1>4 DEF vars
<1> QED
  BY <1>1, <1>2, <1>3, <1>4 DEF Next

\* Two evaluations that hold a position together are recorded when one writes.
LEMMA LoadedStep ==
    ASSUME RealStops, StopInv, [Next]_vars
    PROVE  LoadedCurrent'
<1> USE OperationsAssumption DEF StopInv, TypeOK, PeaksTracked, LoadedCurrent, evaluation
<1>1. ASSUME NEW p \in Plans, Request(p)
      PROVE  LoadedCurrent'
  <2>1. CASE CountPlans(p)
    BY <2>1 DEF CountPlans
  <2>2. CASE InsertPlan(p)
    BY <2>2 DEF InsertPlan
  <2>3. CASE DeletePlan(p)
    BY <2>3 DEF DeletePlan
  <2>4. ASSUME NEW status \in Live \cup {"ARCHIVED"}, SetPlanStatus(p, status)
        PROVE  LoadedCurrent'
    BY <2>4 DEF SetPlanStatus
  <2>5. CASE SaveCandidate(p)
    BY <2>5 DEF SaveCandidate
  <2>6. CASE SkipCandidate(p)
    BY <2>6 DEF SkipCandidate
  <2>7. ASSUME NEW s \in Positions, NEW manual \in BOOLEAN, ExecuteBuy(p, s, manual)
        PROVE  LoadedCurrent'
    BY <2>7 DEF ExecuteBuy, RealStops
  <2> QED
    BY <1>1, <2>1, <2>2, <2>3, <2>4, <2>5, <2>6, <2>7 DEF Request
<1>2. ASSUME NEW s \in Positions, Handle(s)
      PROVE  LoadedCurrent'
  <2>1. ASSUME NEW price \in SalePrices, ConfirmSell(s, price)
        PROVE  LoadedCurrent'
    BY <2>1 DEF ConfirmSell, Row
  <2>2. ASSUME NEW stage \in HandStages, NEW stop \in StopPrices, AdjustStop(s, stage, stop)
        PROVE  LoadedCurrent'
    BY <2>2 DEF AdjustStop, Row
  <2> QED
    BY <1>2, <2>1, <2>2 DEF Handle
<1>3. ASSUME NEW e \in Evaluators, Evaluate(e)
      PROVE  LoadedCurrent'
  <2>1. CASE BeginEvaluation(e)
    BY <2>1 DEF BeginEvaluation
  <2>2. ASSUME NEW p \in Plans, LoadPositions(e, p)
        PROVE  LoadedCurrent'
    BY <2>2 DEF LoadPositions
  <2>3. ASSUME NEW price \in Prices, NEW ma20 \in Averages, NEW weak \in BOOLEAN,
             NEW far \in [Positions -> Reach], CommitEvaluation(e, price, ma20, weak, far)
        PROVE  LoadedCurrent'
    <3> SUFFICES ASSUME NEW s \in Positions, NEW f \in Evaluators, loaded'[f][s] # NoRow
            PROVE  /\ top'[s] # 0
                   /\ row'[s] # NoRow /\ s \notin raced' =>
                          /\ loaded'[f][s].price = row'[s].price
                          /\ loaded'[f][s].peak = row'[s].peak
        BY DEF LoadedCurrent
      <3>1. f # e /\ loaded'[f] = loaded[f]
        BY <2>3 DEF CommitEvaluation, Finish
      <3>2. top[s] # 0 /\ top[s] \in Nat /\ price \in Nat
        BY <3>1
      <3>3. CASE s \in Touched(e)
        <4>1. s \in raced'
          BY <2>3, <3>1, <3>3 DEF CommitEvaluation
        <4> QED
          BY <2>3, <3>2, <3>3, <4>1 DEF CommitEvaluation
      <3>4. CASE s \notin Touched(e)
        BY <2>3, <3>1, <3>2, <3>4 DEF CommitEvaluation
      <3> QED
        BY <3>3, <3>4
  <2>4. CASE AbortEvaluation(e)
    BY <2>4 DEF AbortEvaluation
  <2> QED
    BY <1>3, <2>1, <2>2, <2>3, <2>4 DEF Evaluate
<1>4. CASE UNCHANGED vars
  BY <1>4 DEF vars
<1> QED
  BY <1>1, <1>2, <1>3, <1>4 DEF Next

\* An evaluation that does not ask for a sale has found the price above the stop.
LEMMA AboveStep ==
    ASSUME RealStops, StopInv, PeaksTracked', [Next]_vars
    PROVE  HeldAboveStop'
<1> USE OperationsAssumption DEF StopInv, TypeOK, HeldAboveStop, evaluation
<1>1. ASSUME NEW p \in Plans, Request(p)
      PROVE  HeldAboveStop'
  <2>1. CASE CountPlans(p)
    BY <2>1 DEF CountPlans
  <2>2. CASE InsertPlan(p)
    BY <2>2 DEF InsertPlan
  <2>3. CASE DeletePlan(p)
    BY <2>3 DEF DeletePlan
  <2>4. ASSUME NEW status \in Live \cup {"ARCHIVED"}, SetPlanStatus(p, status)
        PROVE  HeldAboveStop'
    BY <2>4 DEF SetPlanStatus
  <2>5. CASE SaveCandidate(p)
    BY <2>5 DEF SaveCandidate
  <2>6. CASE SkipCandidate(p)
    BY <2>6 DEF SkipCandidate
  <2>7. ASSUME NEW s \in Positions, NEW manual \in BOOLEAN, ExecuteBuy(p, s, manual)
        PROVE  HeldAboveStop'
    BY <2>7, BoughtIsAbove DEF ExecuteBuy, Row
  <2> QED
    BY <1>1, <2>1, <2>2, <2>3, <2>4, <2>5, <2>6, <2>7 DEF Request
<1>2. ASSUME NEW s \in Positions, Handle(s)
      PROVE  HeldAboveStop'
  <2>1. ASSUME NEW price \in SalePrices, ConfirmSell(s, price)
        PROVE  HeldAboveStop'
    <3>1. row' = [row EXCEPT ![s] = [row[s] EXCEPT !.status = "CLOSED", !.sold = price]]
      BY <2>1 DEF ConfirmSell
    <3>2. row[s] \in Row /\ row[s] # NoRow
      BY <2>1 DEF ConfirmSell
    <3>3. \A t \in Positions \ {s} : row'[t] = row[t]
      BY <3>1
    <3>4. row'[s].status = "CLOSED"
      BY <3>1, <3>2 DEF Row
    <3>5. UNCHANGED <<top, raced, unjudged>>
      BY <2>1 DEF ConfirmSell
    <3> QED
      BY <3>2, <3>3, <3>4, <3>5
  <2>2. ASSUME NEW stage \in HandStages, NEW stop \in StopPrices, AdjustStop(s, stage, stop)
        PROVE  HeldAboveStop'
    <3>1. row' = [row EXCEPT ![s] = [row[s] EXCEPT !.stage = stage, !.stop = stop]]
      BY <2>2 DEF AdjustStop
    <3>2. row[s] \in Row /\ row[s] # NoRow
      BY <2>2 DEF AdjustStop
    <3>3. \A t \in Positions \ {s} : row'[t] = row[t]
      BY <3>1
    <3>4. row'[s].price = row[s].price /\ row'[s].status = row[s].status
      BY <3>1, <3>2 DEF Row
    <3>5. UNCHANGED <<top, raced, unjudged>>
      BY <2>2 DEF AdjustStop
    <3> QED
      BY <3>2, <3>3, <3>4, <3>5, ZenonT(30)
  <2> QED
    BY <1>2, <2>1, <2>2 DEF Handle
<1>3. ASSUME NEW e \in Evaluators, Evaluate(e)
      PROVE  HeldAboveStop'
  <2>1. CASE BeginEvaluation(e)
    BY <2>1 DEF BeginEvaluation
  <2>2. ASSUME NEW p \in Plans, LoadPositions(e, p)
        PROVE  HeldAboveStop'
    BY <2>2 DEF LoadPositions
  <2>3. ASSUME NEW price \in Prices, NEW ma20 \in Averages, NEW weak \in BOOLEAN,
             NEW far \in [Positions -> Reach], CommitEvaluation(e, price, ma20, weak, far)
        PROVE  HeldAboveStop'
    <3> SUFFICES ASSUME NEW s \in Positions \ (raced' \cup unjudged'), row'[s] # NoRow,
                        row'[s].status = "HOLDING"
            PROVE  ~EvaluateStopStage(row'[s].price, top'[s], 0, FALSE, 0).sell
        BY DEF HeldAboveStop
      <3>1. row[s] # NoRow /\ s \notin raced
        BY <2>3 DEF CommitEvaluation
      <3>2. CASE s \notin Touched(e)
        BY <2>3, <3>1, <3>2 DEF CommitEvaluation
      <3>3. CASE s \in Touched(e)
        <4> DEFINE was  == loaded[e][s]
                   peak == PeakWith(was, price)
                   new  == EvaluateStopStage(price, peak, was.days + 1, weak, ma20)
        <4>1. row[s] \in Row /\ was \in Row /\ was # NoRow
          BY <3>1, <3>3 DEF Touched
        <4>2. /\ row'[s] = Changed(row[s], was, price, ma20, weak, far[s])
              /\ top'[s] = IF far[s] \in Peaked /\ price > top[s] THEN price ELSE top[s]
              /\ far[s] # "nothing" => far[s] = "verdict"
              /\ far[s] = "nothing" => s \notin unjudged
          BY <2>3, <3>3 DEF CommitEvaluation
        <4>3. was.price = row[s].price /\ was.peak = row[s].peak /\ row[s].peak = top[s]
          BY <3>1, <4>1 DEF PeaksTracked, LoadedCurrent
        <4>4. CASE far[s] = "nothing"
          <5>1. /\ row'[s].price = row[s].price /\ row'[s].status = row[s].status
                /\ top'[s] = top[s]
            BY <4>1, <4>2, <4>4 DEF Changed, Row, Peaked, Priced
          <5> QED
            BY <3>1, <4>2, <4>4, <5>1
        <4>5. CASE far[s] = "verdict"
          <5>1. row'[s].price = price /\ top'[s] = peak
            BY <4>1, <4>2, <4>3, <4>5 DEF Changed, Row, PeakWith, Peaked, Priced, Reach
          <5>2. ~new.sell
            BY <4>1, <4>2, <4>5 DEF Changed, Row
          <5>3. price \in Nat /\ peak \in Nat /\ was.days + 1 \in Nat /\ ma20 \in Nat
            BY <4>1 DEF Row, PeakWith
          <5> QED
            BY <5>1, <5>2, <5>3, KeptIsAbove
        <4> QED
          BY <4>2, <4>4, <4>5
      <3> QED
        BY <3>2, <3>3
  <2>4. CASE AbortEvaluation(e)
    BY <2>4 DEF AbortEvaluation
  <2>5. CASE \E price \in Prices, ma20 \in Averages, weak \in BOOLEAN,
                far \in [Positions -> Reach] :
                   CommitEvaluation(e, price, ma20, weak, far)
    BY <2>3, <2>5, ZenonT(30)
  <2> QED
    BY <1>3, <2>1, <2>2, <2>4, <2>5 DEF Evaluate
<1>4. CASE UNCHANGED vars
  BY <1>4 DEF vars
<1> QED
  BY <1>1, <1>2, <1>3, <1>4 DEF Next
-----------------------------------------------------------------------------
\* The tables keep to their values.
THEOREM TypeCorrect == Spec => []TypeOK
<1>1. Init => TypeOK
  BY OperationsAssumption DEF Init, TypeOK
<1>2. TypeOK /\ [Next]_vars => TypeOK'
  BY TypesStep
<1> QED
  BY <1>1, <1>2, PTL DEF Spec

\* However many requests create plans, those that no other was counted with and that
\* were never archived are within _MAX_PLANS_PER_USER.
THEOREM LimitKept == Spec => []PlansWithinLimit
<1>1. Init => TakenWithinLimit
  <2> SUFFICES ASSUME Init PROVE TakenWithinLimit
    OBVIOUS
  <2>1. Taken = {}
    BY DEF Init, Taken, Live
  <2> QED
    BY <2>1, FS_EmptySet, OperationsAssumption DEF TakenWithinLimit
<1>2. TypeOK /\ TakenWithinLimit /\ [Next]_vars => TakenWithinLimit'
  BY LimitStep
<1>3. TakenWithinLimit => PlansWithinLimit
  <2> SUFFICES ASSUME TakenWithinLimit PROVE PlansWithinLimit
    OBVIOUS
  <2> DEFINE Kept == {p \in Plans \ excused : plan[p] \in Live}
  <2>1. IsFiniteSet(Taken) /\ Kept \subseteq Taken
    BY FS_Subset, OperationsAssumption DEF Taken
  <2>2. IsFiniteSet(Kept) /\ Cardinality(Kept) <= Cardinality(Taken)
    BY <2>1, FS_Subset
  <2> QED
    BY <2>1, <2>2, FS_CardinalityType, OperationsAssumption
       DEF PlansWithinLimit, TakenWithinLimit
<1> QED
  BY TypeCorrect, <1>1, <1>2, <1>3, PTL DEF Spec

\* No evaluation, however many are under way, loses the record of a sale.
THEOREM SalesStay == Spec => SaleKept
<1>1. TypeOK /\ [Next]_vars =>
          [\A s \in Positions : row[s] # NoRow /\ row[s].sold # 0 =>
               row'[s] = NoRow \/ row'[s].sold # 0]_vars
  BY SaleStep
<1> QED
  BY TypeCorrect, <1>1, PTL DEF Spec, SaleKept

\* A position is held only above the stop its highest price calls for, unless two
\* evaluations had it at the same time or its last one raised and was passed over.
THEOREM StopHonoured ==
    ASSUME RealStops
    PROVE  Spec => []HeldAboveStop
<1>1. Init => StopInv
  BY OperationsAssumption
     DEF Init, StopInv, TypeOK, PeaksTracked, LoadedCurrent, HeldAboveStop
<1>2. StopInv /\ [Next]_vars => StopInv'
  <2> SUFFICES ASSUME StopInv, [Next]_vars PROVE StopInv'
    OBVIOUS
  <2>1. TypeOK'
    BY TypesStep DEF StopInv
  <2>2. PeaksTracked' /\ LoadedCurrent'
    BY PeaksStep, LoadedStep
  <2>3. HeldAboveStop'
    BY <2>2, AboveStep
  <2> QED
    BY <2>1, <2>2, <2>3 DEF StopInv
<1>3. StopInv => HeldAboveStop
  BY DEF StopInv
<1> QED
  BY <1>1, <1>2, <1>3, PTL DEF Spec
=============================================================================
