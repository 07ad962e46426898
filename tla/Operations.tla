----------------------------- MODULE Operations -----------------------------
(***************************************************************************)
(* Trading plans, their candidates and their positions:                    *)
(* services/operations_service.py, called by api/v1/operations.py and by   *)
(* the evening task stop_loss_evaluation.                                  *)
(*                                                                         *)
(* Every call is one PostgreSQL transaction at READ COMMITTED.  A request  *)
(* about one row is one step.  Two calls are not: creating a plan counts   *)
(* the plans before it inserts one, and the evening evaluation loads the   *)
(* positions of plan after plan, computes, and writes at its end only the  *)
(* columns it changed.  Several evaluations may be under way: the message  *)
(* is acknowledged late and comes again when the worker is lost, and those *)
(* of several evenings wait in the queue while no worker runs.             *)
(*                                                                         *)
(* All shares are bought at one price and a plan's parameters stay as they *)
(* are.  Prices are integers, stop prices hundredths.                      *)
(***************************************************************************)
EXTENDS Integers, FiniteSets

CONSTANTS
    Plans,         \* plans that may be created
    MaxPlans,      \* _MAX_PLANS_PER_USER
    Positions,     \* rows of plan_position that may be created
    Evaluators,    \* evaluations that may be under way at the same time
    MaxEvaluations,\* bound: evaluations begun
    Cost,          \* the price shares are bought at
    Prices,        \* current prices the market data may show
    Averages,      \* ma20 it may show; 0 when it shows none
    SalePrices,    \* prices the user may report a sale at
    HandStages,    \* stages and stop prices the user may set by hand
    StopPrices,
    FixedPct, TrailingTrigger, TrailingPct, TightTrigger, TightPct, LongDays,
                   \* StageStopConfig
    NoRow          \* the position does not exist

ASSUME OperationsAssumption ==
    /\ IsFiniteSet(Plans) /\ IsFiniteSet(Positions)
    /\ {MaxPlans, MaxEvaluations, Cost, FixedPct, TrailingTrigger, TrailingPct,
        TightTrigger, TightPct, LongDays} \subseteq Nat
    /\ Prices \cup Averages \cup SalePrices \cup StopPrices \subseteq Nat
    /\ 0 \notin SalePrices /\ HandStages \subseteq 1 .. 5

VARIABLES
    plan,        \* table trading_plan: the status of each plan
    candidate,   \* table candidate_stock: the one candidate of each plan today
    row,         \* table plan_position
    at,          \* where each evaluation is
    unread,      \* the plans it has found and not loaded yet
    loaded,      \* the rows it has loaded, as they were
    evaluations, \* evaluations begun
    excused,     \* history: plans revived, or counted while another was
    top,         \* history: highest price an evaluation has seen, per position
    raced,       \* history: positions two evaluations held at the same time
    unjudged     \* history: positions whose last evaluation raised an exception
                 \* after it had stored a column

evaluation == <<at, unread, loaded, evaluations>>
vars == <<plan, candidate, row, at, unread, loaded, evaluations, excused, top,
          raced, unjudged>>

Live == {"ACTIVE", "PAUSED"}
Exists(p) == plan[p] \in Live \cup {"ARCHIVED"}

Row == [plan : Plans, status : {"HOLDING", "PENDING_SELL", "CLOSED"},
        price : Prices \cup {Cost}, peak : Prices \cup {Cost}, stage : 1 .. 5,
        stop : Int, days : Nat, sold : SalePrices \cup {0}]

Init ==
    /\ plan = [p \in Plans |-> "absent"]
    /\ candidate = [p \in Plans |-> "absent"]
    /\ row = [s \in Positions |-> NoRow]
    /\ at = [e \in Evaluators |-> "idle"]
    /\ unread = [e \in Evaluators |-> {}]
    /\ loaded = [e \in Evaluators |-> [s \in Positions |-> NoRow]]
    /\ evaluations = 0
    /\ excused = {}
    /\ top = [s \in Positions |-> 0]
    /\ raced = {}
    /\ unjudged = {}
-----------------------------------------------------------------------------
(***************************************************************************)
(* Plans.  Archived plans do not count; nothing counts when one is made    *)
(* active again.  Deleting a plan takes its candidates, buy records and    *)
(* positions with it, by the foreign keys.                                 *)
(***************************************************************************)
\* Slip: only active plans count.
CountedActive == {p \in Plans : plan[p] = "ACTIVE"}

Counted == {p \in Plans : plan[p] \in Live}

CountPlans(p) ==
    /\ plan[p] = "absent" /\ Cardinality(Counted) < MaxPlans
    /\ plan' = [plan EXCEPT ![p] = "counted"]
    /\ LET others == {q \in Plans \ {p} : plan[q] = "counted"}
       IN  excused' = IF others = {} THEN excused ELSE excused \cup others \cup {p}
    /\ UNCHANGED <<candidate, row, evaluation, top, raced, unjudged>>

InsertPlan(p) ==
    /\ plan[p] = "counted"
    /\ plan' = [plan EXCEPT ![p] = "ACTIVE"]
    /\ UNCHANGED <<candidate, row, evaluation, excused, top, raced, unjudged>>

SetPlanStatus(p, status) ==
    /\ Exists(p) /\ status # plan[p]
    /\ plan' = [plan EXCEPT ![p] = status]
    /\ excused' = IF plan[p] = "ARCHIVED" THEN excused \cup {p} ELSE excused
    /\ UNCHANGED <<candidate, row, evaluation, top, raced, unjudged>>

DeletePlan(p) ==
    /\ Exists(p)
    /\ plan' = [plan EXCEPT ![p] = "deleted"]
    /\ candidate' = [candidate EXCEPT ![p] = "absent"]
    /\ row' = [s \in Positions |->
          IF row[s] # NoRow /\ row[s].plan = p THEN NoRow ELSE row[s]]
    /\ UNCHANGED <<evaluation, excused, top, raced, unjudged>>
-----------------------------------------------------------------------------
(***************************************************************************)
(* Candidates.  A second screening of the day that selects the symbol      *)
(* again breaks the unique key: its whole transaction is rolled back.      *)
(***************************************************************************)
\* Slip: the freshness of the signal is stored as the status.
SaveCandidateFresh(p) ==
    /\ Exists(p) /\ candidate[p] = "absent"
    /\ candidate' = [candidate EXCEPT ![p] = "NEW"]
    /\ UNCHANGED <<plan, row, evaluation, excused, top, raced, unjudged>>

SaveCandidate(p) ==
    /\ Exists(p) /\ candidate[p] = "absent"
    /\ candidate' = [candidate EXCEPT ![p] = "PENDING"]
    /\ UNCHANGED <<plan, row, evaluation, excused, top, raced, unjudged>>

SkipCandidate(p) ==
    /\ candidate[p] # "absent"
    /\ candidate' = [candidate EXCEPT ![p] = "SKIPPED"]
    /\ UNCHANGED <<plan, row, evaluation, excused, top, raced, unjudged>>

StopAt(price, pct) == price * (100 - pct)

\* From the candidate of plan p, whatever its status, or by hand.
ExecuteBuy(p, s, manual) ==
    /\ Exists(p) /\ row[s] = NoRow
    /\ top[s] = 0      \* a deleted row's key is not used again
    /\ manual \/ candidate[p] # "absent"
    /\ row' = [row EXCEPT ![s] =
          [plan |-> p, status |-> "HOLDING", price |-> Cost, peak |-> Cost, stage |-> 1,
           stop |-> StopAt(Cost, FixedPct), days |-> 0, sold |-> 0]]
    /\ top' = [top EXCEPT ![s] = Cost]
    /\ candidate' = IF manual THEN candidate ELSE [candidate EXCEPT ![p] = "BOUGHT"]
    /\ UNCHANGED <<plan, evaluation, excused, raced, unjudged>>
-----------------------------------------------------------------------------
(***************************************************************************)
(* Positions.  Selling looks at nothing but the row's existence.           *)
(***************************************************************************)
ConfirmSell(s, price) ==
    /\ row[s] # NoRow
    /\ row' = [row EXCEPT ![s].status = "CLOSED", ![s].sold = price]
    /\ UNCHANGED <<plan, candidate, evaluation, excused, top, raced, unjudged>>

AdjustStop(s, stage, stop) ==
    /\ row[s] # NoRow
    /\ row' = [row EXCEPT ![s].stage = stage, ![s].stop = stop]
    /\ UNCHANGED <<plan, candidate, evaluation, excused, top, raced, unjudged>>

(***************************************************************************)
(* evaluate_stop_stage: the highest stage whose condition holds, with its  *)
(* stop price and whether it asks for a sale.                              *)
(***************************************************************************)
GainedPct(peak, pct) == peak * 100 >= Cost * (100 + pct)

Trailing(stage, peak, price, pct) ==
    [stage |-> stage, stop |-> StopAt(peak, pct), sell |-> price * 100 <= StopAt(peak, pct)]

EvaluateStopStage(price, peak, days, weak, ma20) ==
    CASE price < ma20 -> [stage |-> 5, stop |-> price * 100, sell |-> TRUE]
      [] price >= ma20 /\ days >= LongDays /\ weak ->
            [stage |-> 4, stop |-> ma20 * 100, sell |-> TRUE]
      [] OTHER ->
            IF GainedPct(peak, TightTrigger) THEN Trailing(3, peak, price, TightPct)
            ELSE IF GainedPct(peak, TrailingTrigger)
                 THEN Trailing(2, peak, price, TrailingPct)
                 ELSE Trailing(1, Cost, price, FixedPct)

PeakWith(r, price) == IF price > r.peak THEN price ELSE r.peak

(***************************************************************************)
(* run_stop_loss_evaluation: the active plans, then the holding positions  *)
(* of each, then one write of the changed columns.  A row that is gone by  *)
(* then makes the write fail, and all of it is rolled back.  An exception  *)
(* in the evaluation of one position leaves the others as they are.        *)
(***************************************************************************)
BeginEvaluation(e) ==
    /\ at[e] = "idle" /\ evaluations < MaxEvaluations
    /\ at' = [at EXCEPT ![e] = "loading"]
    /\ unread' = [unread EXCEPT ![e] = {p \in Plans : plan[p] = "ACTIVE"}]
    /\ evaluations' = evaluations + 1
    /\ UNCHANGED <<plan, candidate, row, loaded, excused, top, raced, unjudged>>

LoadPositions(e, p) ==
    /\ p \in unread[e]
    /\ unread' = [unread EXCEPT ![e] = @ \ {p}]
    /\ loaded' = [loaded EXCEPT ![e] = [s \in Positions |->
          IF row[s] # NoRow /\ row[s].plan = p /\ row[s].status = "HOLDING"
          THEN row[s] ELSE loaded[e][s]]]
    /\ UNCHANGED <<plan, candidate, row, at, evaluations, excused, top, raced, unjudged>>

\* How far the evaluation of a position comes.  Whatever raises in it is caught and
\* logged, the columns set by then stay set and are written with the others: the
\* peak comes first, price and days come after the verdict, the verdict last.
Reach  == {"nothing", "peak", "price", "verdict"}
Peaked == Reach \ {"nothing"}
Priced == {"price", "verdict"}

\* Slip: the peak is compared with and not stored.
ChangedNoPeak(now, was, price, ma20, weak, far) ==
    LET peak == PeakWith(was, price)
        new  == EvaluateStopStage(price, peak, was.days + 1, weak, ma20)
        up   == far = "verdict" /\ new.stage > was.stage
    IN  [now EXCEPT !.price = IF far \in Priced THEN price ELSE @,
             !.days = IF far \in Priced THEN was.days + 1 ELSE @,
             !.stage = IF up THEN new.stage ELSE @,
             !.stop = IF up THEN new.stop ELSE @,
             !.status = IF far = "verdict" /\ new.sell THEN "PENDING_SELL" ELSE @]

\* Slip: the whole row as it was loaded is written back.
ChangedRow(now, was, price, ma20, weak, far) ==
    LET peak == PeakWith(was, price)
        new  == EvaluateStopStage(price, peak, was.days + 1, weak, ma20)
        up   == far = "verdict" /\ new.stage > was.stage
    IN  [was EXCEPT !.price = IF far \in Priced THEN price ELSE @,
             !.peak = IF far \in Peaked THEN peak ELSE @,
             !.days = IF far \in Priced THEN was.days + 1 ELSE @,
             !.stage = IF up THEN new.stage ELSE @,
             !.stop = IF up THEN new.stop ELSE @,
             !.status = IF far = "verdict" /\ new.sell THEN "PENDING_SELL" ELSE @]

\* The row as it is now, with the columns that differ from what was loaded.
Changed(now, was, price, ma20, weak, far) ==
    LET peak == PeakWith(was, price)
        new  == EvaluateStopStage(price, peak, was.days + 1, weak, ma20)
        up   == far = "verdict" /\ new.stage > was.stage
    IN  [now EXCEPT !.price = IF far \in Priced /\ price # was.price THEN price ELSE @,
             !.peak = IF far \in Peaked /\ price > was.peak THEN price ELSE @,
             !.days = IF far \in Priced THEN was.days + 1 ELSE @,
             !.stage = IF up THEN new.stage ELSE @,
             !.stop = IF up THEN new.stop ELSE @,
             !.status = IF far = "verdict" /\ new.sell THEN "PENDING_SELL" ELSE @]

Finish(e) ==
    /\ at' = [at EXCEPT ![e] = "idle"]
    /\ loaded' = [loaded EXCEPT ![e] = [s \in Positions |-> NoRow]]
    /\ UNCHANGED <<plan, candidate, unread, evaluations, excused>>

Ready(e) == at[e] = "loading" /\ unread[e] = {}
Touched(e) == {s \in Positions : loaded[e][s] # NoRow}

\* far[s] is how far the evaluation of position s came.
CommitEvaluation(e, price, ma20, weak, far) ==
    /\ Ready(e)
    /\ \A s \in Touched(e) : row[s] # NoRow
    /\ row' = [s \in Positions |->
          IF s \in Touched(e)
          THEN Changed(row[s], loaded[e][s], price, ma20, weak, far[s])
          ELSE row[s]]
    /\ top' = [s \in Positions |->
          IF s \in Touched(e) /\ far[s] \in Peaked /\ price > top[s]
          THEN price ELSE top[s]]
    /\ raced' = raced \cup {s \in Touched(e) :
          \E f \in Evaluators \ {e} : loaded[f][s] # NoRow}
    /\ unjudged' = {s \in Positions :
          IF s \in Touched(e) /\ far[s] # "nothing" THEN far[s] # "verdict"
          ELSE s \in unjudged}
    /\ Finish(e)

\* A row is gone, the database fails, or the worker is lost: nothing is written.
AbortEvaluation(e) ==
    /\ at[e] = "loading"
    /\ at' = [at EXCEPT ![e] = "idle"]
    /\ unread' = [unread EXCEPT ![e] = {}]
    /\ loaded' = [loaded EXCEPT ![e] = [s \in Positions |-> NoRow]]
    /\ UNCHANGED <<plan, candidate, row, evaluations, excused, top, raced, unjudged>>

Evaluate(e) ==
    \/ BeginEvaluation(e)
    \/ \E p \in Plans : LoadPositions(e, p)
    \/ \E price \in Prices, ma20 \in Averages, weak \in BOOLEAN,
          far \in [Positions -> Reach] : CommitEvaluation(e, price, ma20, weak, far)
    \/ AbortEvaluation(e)

Request(p) ==
    \/ CountPlans(p) \/ InsertPlan(p) \/ DeletePlan(p)
    \/ \E status \in Live \cup {"ARCHIVED"} : SetPlanStatus(p, status)
    \/ SaveCandidate(p) \/ SkipCandidate(p)
    \/ \E s \in Positions, manual \in BOOLEAN : ExecuteBuy(p, s, manual)

Handle(s) ==
    \/ \E price \in SalePrices : ConfirmSell(s, price)
    \/ \E stage \in HandStages, stop \in StopPrices : AdjustStop(s, stage, stop)

Next ==
    \/ \E p \in Plans : Request(p)
    \/ \E s \in Positions : Handle(s)
    \/ \E e \in Evaluators : Evaluate(e)

Spec == Init /\ [][Next]_vars
-----------------------------------------------------------------------------
\* Every variable keeps to its values; a candidate is PENDING, BOUGHT or SKIPPED, never
\* the freshness of its signal (OperationsService.save_candidates).
TypeOK ==
    /\ plan \in [Plans -> {"absent", "counted", "deleted", "ARCHIVED"} \cup Live]
    /\ candidate \in [Plans -> {"absent", "PENDING", "BOUGHT", "SKIPPED"}]
    /\ row \in [Positions -> Row \cup {NoRow}]
    /\ at \in [Evaluators -> {"idle", "loading"}]
    /\ unread \in [Evaluators -> SUBSET Plans]
    /\ loaded \in [Evaluators -> [Positions -> Row \cup {NoRow}]]
    /\ evaluations \in 0 .. MaxEvaluations
    /\ excused \subseteq Plans /\ raced \subseteq Positions
    /\ unjudged \subseteq Positions
    /\ top \in [Positions -> Prices \cup {0, Cost}]

\* The user never has more plans than the limit, but for those that were counted at
\* the same time and those taken back from the archive, which nothing counts.
PlansWithinLimit == Cardinality({p \in Plans \ excused : plan[p] \in Live}) <= MaxPlans

\* Whatever evaluations are under way, they never lose the record of a sale (its price;
\* the status they may put back to PENDING_SELL).
SaleKept ==
    [][\A s \in Positions : row[s] # NoRow /\ row[s].sold # 0 =>
           row'[s] = NoRow \/ row'[s].sold # 0]_vars

\* A position that two evaluations never had at the same time is held only while its
\* price is above the stop that its highest price so far calls for, unless its last
\* evaluation raised and was passed over (run_stop_loss_evaluation).  Such an evening
\* costs no more than itself: the next evaluation that comes to a verdict comes to it
\* with the peak the broken one had stored.
HeldAboveStop ==
    \A s \in Positions \ (raced \cup unjudged) :
        row[s] # NoRow /\ row[s].status = "HOLDING" =>
            ~ EvaluateStopStage(row[s].price, top[s], 0, FALSE, 0).sell
=============================================================================
