------------------------------ MODULE Backtest ------------------------------
(***************************************************************************)
(* The daily loop of the strategy driven backtest,                         *)
(* BacktestEngine._run_backtest_strategy_driven, with everything it calls  *)
(* that touches money, positions and orders.  One trading day is a         *)
(* sequence of phases: settle the frozen money, retry the sales that a     *)
(* limit-down opening delayed, check every position for a sale, execute    *)
(* the sales, screen, execute the purchases, take the equity snapshot.     *)
(*                                                                         *)
(* An order signalled on a day is executed AT ONCE, in the books, at the   *)
(* opening price of the stock's next bar, and the trade is dated by that   *)
(* bar.  A stock may be suspended, so that its next bar is days away.      *)
(*                                                                         *)
(* Prices are whole ticks; money is counted in hundredths of a tick, so    *)
(* that rates in whole percents stay exact.  The screener and the index    *)
(* averages are abstracted: every set of candidates with every score and   *)
(* every market state is possible on every day.                            *)
(***************************************************************************)
EXTENDS Integers, FiniteSets, Sequences, SequencesExt, Functions

CONSTANTS
    Symbols,          \* the stocks in kline_data
    StartDate,        \* first date that is traded; bars before it are warm-up
    LastDate,         \* last date with data
    NoBar,            \* the stock is suspended on that date
    Markets,          \* price histories: for each stock and date, bar or NoBar
    NoPosition,
    Sector,           \* sector of a stock, "" when the candidate has none
    LimitPct,         \* daily price limit of a stock, by its code: 10, 20 or 30
    Modes,            \* allocation modes to try
    Scores,           \* trend scores the screener gives
    InitialCash,      \* in hundredths of a tick
    MaxHoldings, MaxPositionPct, MaxSectorPct,
    StopLossPct, TrendMa, TrailingPct, MaxHoldingDays,
    CommissionBuyPct, CommissionSellPct, SlippagePct

Lot   == 100
Dates == 1 .. LastDate

ASSUME BacktestAssumption ==
    /\ IsFiniteSet(Symbols)
    /\ LastDate \in Nat /\ StartDate \in Dates
    /\ Modes \subseteq {"equal", "score_weighted"}
    /\ LimitPct \in [Symbols -> {10, 20, 30}]
    /\ {InitialCash, MaxHoldings, MaxPositionPct, MaxSectorPct, StopLossPct,
        TrendMa, TrailingPct, MaxHoldingDays, CommissionBuyPct,
        CommissionSellPct, SlippagePct} \subseteq Nat

VARIABLES
    bars,       \* the price history of this run
    mode,       \* config.allocation_mode
    day,        \* trade_date, 0 before the first
    phase,      \* what the loop body does next
    cash, frozen,
    pos,        \* state.positions
    sales,      \* sell signals still to execute in this phase
    orders,     \* ranked candidates still to buy in this phase
    ledger,     \* state.trade_records
    equity      \* the last equity snapshot

inputs == <<bars, mode>>
money  == <<cash, frozen>>
vars == <<bars, mode, day, phase, cash, frozen, pos, sales, orders, ledger, equity>>

\* Reasons of a sale, numbered by their priority.
StopLoss      == 1
TrendBreak    == 2
TrailingStop  == 3
HeldTooLong   == 4
ExitCondition == 5
Reasons == 1 .. 5
NoReason == 0

-----------------------------------------------------------------------------
(***************************************************************************)
(* The date index: the last bar up to a date, and the first one after it.  *)
(***************************************************************************)
BarsUpTo(s, d)  == {e \in Dates : e <= d /\ bars[s][e] # NoBar}
BarsAfter(s, d) == {e \in Dates : e > d /\ bars[s][e] # NoBar}
LastBar(s, d)   == bars[s][Max(BarsUpTo(s, d))]
NextDate(s, d)  == Min(BarsAfter(s, d))
NextOpen(s, d)  == bars[s][NextDate(s, d)].open
HasBar(s, d)    == bars[s][d] # NoBar

TradeDates   == {d \in StartDate .. LastDate : \E s \in Symbols : HasBar(s, d)}
DayIndex(d)  == Cardinality({e \in TradeDates : e < d})

(***************************************************************************)
(* Price limits: the previous close times (1 +- pct), rounded to the tick, *)
(* halves to the even tick.                                                *)
(***************************************************************************)
ToTick(hundredths) ==
    LET q == hundredths \div 100
        r == hundredths % 100
    IN  IF r < 50 \/ (r = 50 /\ q % 2 = 0) THEN q ELSE q + 1

LimitUp(close, s)   == ToTick(close * (100 + LimitPct[s]))
LimitDown(close, s) == ToTick(close * (100 - LimitPct[s]))

Amount(price, qty)  == 100 * price * qty
BuyFee(price, qty)  == price * qty * (CommissionBuyPct + SlippagePct)
SellFee(price, qty) == price * qty * (CommissionSellPct + SlippagePct)

Held            == {s \in Symbols : pos[s] # NoPosition}
CostOf(S)       == SumFunction([s \in S |-> Amount(pos[s].cost, pos[s].qty)])
EquityAtCost    == cash + CostOf(Held)
SectorAtCost(x) == CostOf({s \in Held : Sector[s] = x})

Init ==
    /\ bars \in Markets
    /\ mode \in Modes
    /\ day = 0
    /\ phase = "closed"
    /\ cash = InitialCash
    /\ frozen = 0
    /\ pos = [s \in Symbols |-> NoPosition]
    /\ sales = {}
    /\ orders = <<>>
    /\ ledger = <<>>
    /\ equity = InitialCash
-----------------------------------------------------------------------------
(***************************************************************************)
(* A trading day opens: the money of earlier sales is settled, and the     *)
(* sales that could not be executed are taken up again.                    *)
(***************************************************************************)
\* Slip: every position is put up for sale, not only the delayed ones.
DelayedAll == Held
Delayed == {s \in Held : pos[s].pending # NoReason}

\* Slip: the frozen money is settled but not cleared.
SettleFrozenTwice == cash' = cash + frozen /\ UNCHANGED frozen
SettleFrozen      == cash' = cash + frozen /\ frozen' = 0

OpenDay ==
    /\ phase = "closed"
    /\ \E d \in TradeDates :
        /\ d > day /\ \A e \in TradeDates : e > day => d <= e
        /\ day' = d
    /\ SettleFrozen
    /\ sales' = {[symbol |-> s, reason |-> pos[s].pending] : s \in Delayed}
    /\ pos' = [s \in Symbols |->
                 IF s \in Delayed THEN [pos[s] EXCEPT !.pending = NoReason] ELSE pos[s]]
    /\ phase' = "delayed"
    /\ UNCHANGED <<inputs, orders, ledger, equity>>

(***************************************************************************)
(* _execute_sells, one signal: by priority when they are fresh, in any     *)
(* order when they are delayed.  With no later bar, or one that opens at   *)
(* the limit-down price, the signal stays with the position.               *)
(***************************************************************************)
Sellable(s, d) ==
    /\ BarsAfter(s, d) # {}
    /\ NextOpen(s, d) > LimitDown(LastBar(s, d).close, s)

\* Slip: what a sale brings can be spent on the same day.
CreditAtOnce(proceeds) == cash' = cash + proceeds /\ UNCHANGED frozen
Credit(proceeds)       == frozen' = frozen + proceeds /\ UNCHANGED cash

Postpone(sig) == pos' = [pos EXCEPT ![sig.symbol].pending = sig.reason]

ExecuteSell ==
    /\ phase \in {"delayed", "sales"}
    /\ \E sig \in sales :
        LET s == sig.symbol
            p == pos[s]
        IN  /\ phase = "sales" => \A other \in sales : sig.reason <= other.reason
            /\ sales' = sales \ {sig}
            /\ IF Sellable(s, day)
               THEN LET open == NextOpen(s, day) IN
                    /\ Credit(Amount(open, p.qty) - SellFee(open, p.qty))
                    /\ ledger' = Append(ledger, [date |-> NextDate(s, day),
                            symbol |-> s, action |-> "SELL", price |-> open,
                            qty |-> p.qty, reason |-> sig.reason])
                    /\ pos' = [pos EXCEPT ![s] = NoPosition]
               ELSE Postpone(sig) /\ UNCHANGED <<money, ledger>>
    /\ UNCHANGED <<inputs, day, phase, orders, equity>>

(***************************************************************************)
(* _check_sell_conditions.  A suspended stock is not looked at.  The       *)
(* highest close is followed first, but not on a day that closes at the    *)
(* limit-up price; then the first condition that holds gives the reason.   *)
(* The conditions the user wrote (ExitConditionEvaluator) are any set of   *)
(* positions; the lowest close, which only they read, is left out.         *)
(***************************************************************************)
\* Slip: the last bar is used without a look at its date.
SuspendedNoData(s, d) == BarsUpTo(s, d) = {}
Suspended(s, d)       == ~HasBar(s, d)

Highest(s, d) ==
    LET c == LastBar(s, d).close
        earlier == BarsUpTo(s, d - 1)
        atLimit == earlier # {} /\ c >= LimitUp(LastBar(s, d - 1).close, s)
    IN  IF c > pos[s].high /\ ~atLimit THEN c ELSE pos[s].high

\* The sum of the last n closes up to day d.
LastCloses(s, d, n) ==
    LET recent == {e \in BarsUpTo(s, d) :
                     Cardinality({f \in BarsUpTo(s, d) : f > e}) < n}
    IN  SumFunction([e \in recent |-> bars[s][e].close])

\* Slip: a loss that just reaches the stop does not count.
StopPassed(s, close)  == (pos[s].cost - close) * 100 > StopLossPct * pos[s].cost
StopReached(s, close) == (pos[s].cost - close) * 100 >= StopLossPct * pos[s].cost

Triggered(s, d, high, exits) ==
    LET c == LastBar(s, d).close IN
    {r \in Reasons :
        \/ r = StopLoss /\ StopReached(s, c)
        \/ /\ r = TrendBreak
           /\ Cardinality(BarsUpTo(s, d)) >= TrendMa
           /\ c * TrendMa < LastCloses(s, d, TrendMa)
        \/ r = TrailingStop /\ (high - c) * 100 >= TrailingPct * high
        \/ r = HeldTooLong /\ DayIndex(d) - pos[s].buyIndex > MaxHoldingDays
        \/ r = ExitCondition /\ s \in exits}

CheckPositions ==
    /\ phase = "delayed" /\ sales = {}
    /\ LET seen == {s \in Held : ~Suspended(s, day)} IN
       \E exits \in SUBSET seen :
          LET fired(s) == Triggered(s, day, Highest(s, day), exits) IN
          /\ pos' = [s \in Symbols |->
                       IF s \in seen THEN [pos[s] EXCEPT !.high = Highest(s, day)]
                                     ELSE pos[s]]
          /\ sales' = {[symbol |-> s, reason |-> Min(fired(s))] :
                         s \in {x \in seen : fired(x) # {}}}
    /\ phase' = "sales"
    /\ UNCHANGED <<inputs, day, money, orders, ledger, equity>>
-----------------------------------------------------------------------------
(***************************************************************************)
(* The screen.  A stock that gained more than 9 % in its last bar or more  *)
(* than 20 % in its last three is dropped, below the 20 day average of the *)
(* index (CAUTION) a score under 90 too, below the 60 day average (DANGER) *)
(* nothing is bought.                                                      *)
(***************************************************************************)
GainOver(s, d, n, pct) ==
    LET ago == {e \in BarsUpTo(s, d) :
                  Cardinality({f \in BarsUpTo(s, d) : f > e}) = n}
    IN  \E e \in ago :
          (LastBar(s, d).close - bars[s][e].close) * 100 > pct * bars[s][e].close

NotOverheated(s, d) ==
    /\ BarsUpTo(s, d) # {}
    /\ ~GainOver(s, d, 1, 9)
    /\ ~GainOver(s, d, 3, 20)

\* The best candidates that are not held, as many as there are free places;
\* equal scores come in any order.
Ranked(cands, score) ==
    LET free == MaxHoldings - Cardinality(Held)
        new  == cands \ Held
    IN  {SubSeq(q, 1, Min({free, Len(q)})) :
           q \in {r \in SetToSeqs(new) :
                    \A i, j \in DOMAIN r : i < j => score[r[i]] >= score[r[j]]}}

Screen ==
    /\ phase = "sales" /\ sales = {}
    /\ \E risk \in {"NORMAL", "CAUTION", "DANGER"},
          cands \in SUBSET {s \in Symbols : NotOverheated(s, day)} :
       \E score \in [cands -> Scores] :
        /\ risk = "CAUTION" => \A s \in cands : score[s] >= 90
        /\ risk = "DANGER" => cands = {}
        /\ IF Cardinality(Held) >= MaxHoldings
           THEN orders' = <<>>
           ELSE \E best \in Ranked(cands, score) :
                  LET total == SumFunction([s \in ToSet(best) |-> score[s]]) IN
                  orders' = [i \in DOMAIN best |->
                    [symbol |-> best[i], score |-> score[best[i]], total |-> total]]
    /\ phase' = "buys"
    /\ UNCHANGED <<inputs, day, money, pos, sales, ledger, equity>>

(***************************************************************************)
(* _calculate_buy_amount: the share of the cash the allocation gives the   *)
(* stock, capped by its share of the equity, in whole lots.  A price that  *)
(* is not positive buys nothing.                                           *)
(***************************************************************************)
LotsFor(amount, open) == IF open > 0 THEN amount \div Amount(open, Lot) ELSE 0

BuyQty(order, open) ==
    LET places == MaxHoldings - Cardinality(Held)
        capped == LotsFor((EquityAtCost * MaxPositionPct) \div 100, open)
        wanted == IF mode = "score_weighted" /\ order.total > 0
                  THEN LotsFor((cash * order.score) \div order.total, open)
                  ELSE IF places <= 0 THEN 0 ELSE LotsFor(cash \div places, open)
    IN  Lot * Min({wanted, capped})

(***************************************************************************)
(* _execute_buys, one candidate.  It is passed over when it has no later   *)
(* bar, opens at the limit-up price, its sector is full already, or the    *)
(* cash does not reach; otherwise it is booked at once.                    *)
(***************************************************************************)
SectorFull(s) ==
    /\ Sector[s] # "" /\ MaxSectorPct > 0 /\ EquityAtCost > 0
    /\ SectorAtCost(Sector[s]) * 100 >= MaxSectorPct * EquityAtCost

Buyable(s, d) ==
    /\ BarsAfter(s, d) # {}
    /\ NextOpen(s, d) < LimitUp(LastBar(s, d).close, s)
    /\ ~SectorFull(s)

Book(s, qty) ==
    LET open == NextOpen(s, day) IN
    /\ cash' = cash - Amount(open, qty) - BuyFee(open, qty)
    /\ pos' = [pos EXCEPT ![s] =
         [qty |-> qty, cost |-> open, buyDate |-> NextDate(s, day),
          buyIndex |-> DayIndex(day) + 1, high |-> open, pending |-> NoReason]]
    /\ ledger' = Append(ledger, [date |-> NextDate(s, day), symbol |-> s,
         action |-> "BUY", price |-> open, qty |-> qty, reason |-> NoReason])

ExecuteBuy ==
    /\ phase = "buys" /\ orders # <<>>
    /\ LET order == Head(orders)
           s     == order.symbol
           qty   == IF Buyable(s, day) THEN BuyQty(order, NextOpen(s, day)) ELSE 0
       IN  IF /\ qty > 0
              /\ Amount(NextOpen(s, day), qty) + BuyFee(NextOpen(s, day), qty) <= cash
           THEN Book(s, qty)
           ELSE UNCHANGED <<cash, pos, ledger>>
    /\ orders' = Tail(orders)
    /\ UNCHANGED <<inputs, day, phase, frozen, sales, equity>>

(***************************************************************************)
(* The snapshot values every position at its last close.                   *)
(***************************************************************************)
\* Slip: a suspended stock is valued at its cost.
MarkToday(s, d) == IF HasBar(s, d) THEN bars[s][d].close ELSE pos[s].cost
Mark(s, d) == IF BarsUpTo(s, d) # {} THEN LastBar(s, d).close ELSE pos[s].cost

CloseDay ==
    /\ phase = "buys" /\ orders = <<>>
    /\ equity' = cash + frozen
                 + SumFunction([s \in Held |-> Amount(Mark(s, day), pos[s].qty)])
    /\ phase' = "closed"
    /\ UNCHANGED <<inputs, day, money, pos, sales, orders, ledger>>

Next == OpenDay \/ ExecuteSell \/ CheckPositions \/ Screen \/ ExecuteBuy \/ CloseDay

Spec == Init /\ [][Next]_vars
-----------------------------------------------------------------------------
Bar      == [open : Nat, close : Nat]
Position == [qty : Nat, cost : Nat, buyDate : Dates, buyIndex : Nat, high : Nat,
             pending : {NoReason} \cup Reasons]
Signal   == [symbol : Symbols, reason : Reasons]
Order    == [symbol : Symbols, score : Nat, total : Nat]
Trade    == [date : Dates, symbol : Symbols, action : {"BUY", "SELL"},
             price : Nat, qty : Nat, reason : {NoReason} \cup Reasons]

ASSUME MarketAssumption ==
    /\ Markets \subseteq [Symbols -> [Dates -> Bar \cup {NoBar}]]
    /\ Scores \subseteq Nat
    /\ NoBar \notin Bar /\ NoPosition \notin Position

\* Every variable keeps to its values: quantities, prices and the cost of a position
\* never go below zero, and only a position that is held has a sale to execute.
TypeOK ==
    /\ bars \in [Symbols -> [Dates -> Bar \cup {NoBar}]]
    /\ mode \in Modes
    /\ day \in 0 .. LastDate
    /\ phase \in {"closed", "delayed", "sales", "buys"}
    /\ cash \in Int /\ frozen \in Int /\ equity \in Int
    /\ pos \in [Symbols -> Position \cup {NoPosition}]
    /\ sales \subseteq Signal
    /\ orders \in Seq(Order)
    /\ ledger \in Seq(Trade)

(***************************************************************************)
(* The engine trades on an account that is never overdrawn, sells whole    *)
(* positions it holds, holds at most max_holdings stocks and never spends  *)
(* on a day what that day's sales brought.                                 *)
(***************************************************************************)
Account == INSTANCE BrokerAccount WITH
    shares <- [s \in Symbols |-> IF pos[s] = NoPosition THEN 0 ELSE pos[s].qty]

\* Every step of the daily loop is a step of that account, or none.
AccountKept == Account!AccountSpec

(***************************************************************************)
(* What the ledger of trades says of the money.                            *)
(***************************************************************************)
Indices(action) == {i \in DOMAIN ledger : ledger[i].action = action}
Spent(S)  == SumFunction([i \in S |-> Amount(ledger[i].price, ledger[i].qty)
                                       + BuyFee(ledger[i].price, ledger[i].qty)])
Earned(S) == SumFunction([i \in S |-> Amount(ledger[i].price, ledger[i].qty)
                                       - SellFee(ledger[i].price, ledger[i].qty)])
QtyIn(s, action) ==
    SumFunction([i \in {k \in Indices(action) : ledger[k].symbol = s} |-> ledger[i].qty])

\* Whoever replays the trade records arrives at the equity of the snapshot:
\* the initial capital, less purchases, plus sales, plus what is left of each
\* stock at its last close.  Fees, frozen money and delayed sales all meet here.
EquityMatchesLedger ==
    phase = "closed" =>
        equity = InitialCash - Spent(Indices("BUY")) + Earned(Indices("SELL"))
            + SumFunction([s \in {x \in Symbols : \E i \in DOMAIN ledger :
                                                     ledger[i].symbol = x} |->
                             Amount(LastBar(s, day).close,
                                    QtyIn(s, "BUY") - QtyIn(s, "SELL"))])

\* A sale closes the purchase before it, with all its shares and on a later date
\* (A-share T+1), also when the purchase was dated days ahead because the stock is
\* suspended; and nothing is bought again before it is sold.
SoldAfterBought ==
    \A j \in DOMAIN ledger :
        LET earlier == {i \in 1 .. j - 1 : ledger[i].symbol = ledger[j].symbol}
            last    == ledger[Max(earlier)]
        IN  IF ledger[j].action = "SELL"
            THEN /\ earlier # {} /\ last.action = "BUY"
                 /\ last.qty = ledger[j].qty /\ last.date < ledger[j].date
            ELSE earlier = {} \/ last.action = "SELL"

\* As long as no stock is suspended, the account could have been run by the dates
\* of the trades: on no date do the purchases up to it cost more than the capital
\* and the sales before it brought.
FundsFollowDates ==
    (\A s \in Symbols, d \in Dates : HasBar(s, d)) =>
        \A d \in Dates :
            Spent({i \in Indices("BUY") : ledger[i].date <= d})
              <= InitialCash + Earned({i \in Indices("SELL") : ledger[i].date < d})

\* No trading day ends with a position whose loss has reached the stop and that
\* could have been sold at the next opening; one that could not waits for it.
StopHonoured ==
    phase = "closed" =>
        \A s \in Held :
            /\ HasBar(s, day) /\ pos[s].buyDate <= day
            /\ (pos[s].cost - bars[s][day].close) * 100 >= StopLossPct * pos[s].cost
            => pos[s].pending # NoReason /\ ~Sellable(s, day)
=============================================================================
