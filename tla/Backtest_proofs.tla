-------------------------- MODULE Backtest_proofs --------------------------
(***************************************************************************)
(* Proofs about Backtest.  First what the date index, the price limits and *)
(* the sums over positions return, then the type invariant; then what the  *)
(* daily loop keeps of its positions, signals and candidates; then the     *)
(* trades, the stop loss and the account it implements.                    *)
(***************************************************************************)
EXTENDS Backtest, NumberSets, SequenceTheorems

(***************************************************************************)
(* The date index.                                                         *)
(***************************************************************************)
\* The bars up to a date are dates, and so are the bars after it.
LEMMA BarsAreDates ==
    ASSUME NEW s, NEW d \in Nat
    PROVE  /\ BarsUpTo(s, d) \in SUBSET (0 .. d) /\ BarsUpTo(s, d) \in SUBSET Dates
           /\ BarsAfter(s, d) \in SUBSET Nat /\ BarsAfter(s, d) \in SUBSET Dates
<1>1. LastDate \in Nat
  BY BacktestAssumption
<1>2. \A e \in Dates : e \in Nat
  BY <1>1 DEF Dates
<1>3. ASSUME NEW e \in BarsUpTo(s, d)
      PROVE  e \in 0 .. d /\ e \in Dates
  BY <1>2, <1>3 DEF BarsUpTo
<1>4. \A e \in BarsAfter(s, d) : e \in Dates
  BY DEF BarsAfter
<1> QED
  BY <1>2, <1>3, <1>4

\* The next bar of a stock is after the date, and no bar is between them.
LEMMA NextBar ==
    ASSUME bars \in [Symbols -> [Dates -> Bar \cup {NoBar}]],
           NEW s \in Symbols, NEW d \in Nat, BarsAfter(s, d) # {}
    PROVE  /\ NextDate(s, d) \in Dates /\ NextDate(s, d) > d /\ HasBar(s, NextDate(s, d))
           /\ \A e \in Dates : HasBar(s, e) /\ e > d => NextDate(s, d) <= e
           /\ NextOpen(s, d) \in Nat
<1>1. /\ NextDate(s, d) \in BarsAfter(s, d)
      /\ \A e \in BarsAfter(s, d) : NextDate(s, d) <= e
  BY BarsAreDates, MinOf DEF NextDate
<1>2. /\ NextDate(s, d) \in Dates /\ NextDate(s, d) > d
      /\ bars[s][NextDate(s, d)] # NoBar
  BY <1>1 DEF BarsAfter
<1>3. \A e \in Dates : HasBar(s, e) /\ e > d => NextDate(s, d) <= e
  BY <1>1 DEF BarsAfter, HasBar
<1>4. bars[s][NextDate(s, d)] \in Bar
  BY <1>2
<1>5. NextOpen(s, d) \in Nat
  BY <1>4 DEF NextOpen, Bar
<1> QED
  BY <1>2, <1>3, <1>5 DEF HasBar

\* The last bar of a stock up to a date is one, and no later one is.
LEMMA LastBarUpTo ==
    ASSUME bars \in [Symbols -> [Dates -> Bar \cup {NoBar}]],
           NEW s \in Symbols, NEW d \in Nat, BarsUpTo(s, d) # {}
    PROVE  /\ Max(BarsUpTo(s, d)) \in BarsUpTo(s, d)
           /\ \A e \in BarsUpTo(s, d) : e <= Max(BarsUpTo(s, d))
           /\ LastBar(s, d) \in Bar /\ LastBar(s, d).close \in Nat
<1> DEFINE m == Max(BarsUpTo(s, d))
<1>1. m \in BarsUpTo(s, d) /\ \A e \in BarsUpTo(s, d) : m >= e
  BY BarsAreDates, MaxOf
<1>2. m \in Dates /\ bars[s][m] # NoBar
  BY <1>1 DEF BarsUpTo
<1>3. bars[s][m] \in Bar
  BY <1>2
<1>4. \A e \in BarsUpTo(s, d) : e \in Nat
  BY BarsAreDates
<1>5. \A e \in BarsUpTo(s, d) : e <= m
  BY <1>1, <1>4
<1> QED
  BY <1>1, <1>3, <1>5 DEF LastBar, Bar

\* A stock with a bar on the date has that one as its last.
LEMMA LastBarToday ==
    ASSUME bars \in [Symbols -> [Dates -> Bar \cup {NoBar}]],
           NEW s \in Symbols, NEW d \in Dates, HasBar(s, d)
    PROVE  BarsUpTo(s, d) # {} /\ LastBar(s, d) = bars[s][d]
<1>1. d \in Nat
  BY BacktestAssumption DEF Dates
<1>2. d \in BarsUpTo(s, d)
  BY <1>1 DEF BarsUpTo, HasBar
<1>3. /\ Max(BarsUpTo(s, d)) \in BarsUpTo(s, d)
      /\ d <= Max(BarsUpTo(s, d))
  BY <1>1, <1>2, LastBarUpTo
<1>4. Max(BarsUpTo(s, d)) \in 0 .. d
  BY <1>1, <1>3, BarsAreDates
<1>5. Max(BarsUpTo(s, d)) = d
  BY <1>1, <1>3, <1>4
<1> QED
  BY <1>2, <1>5 DEF LastBar

\* Rounding to the tick gives a natural number.
LEMMA ToTickType ==
    ASSUME NEW x \in Nat
    PROVE  ToTick(x) \in Nat
<1>1. x \div 100 \in Nat
  OBVIOUS
<1> QED
  BY <1>1 DEF ToTick

\* The price limits of a stock are never negative.
LEMMA LimitsType ==
    ASSUME NEW s \in Symbols, NEW c \in Nat
    PROVE  LimitUp(c, s) \in Nat /\ LimitDown(c, s) \in Nat
<1>1. LimitPct[s] \in {10, 20, 30}
  BY BacktestAssumption
<1>2. c * (100 + LimitPct[s]) \in Nat /\ c * (100 - LimitPct[s]) \in Nat
  <2>1. CASE LimitPct[s] = 10
    BY <2>1
  <2>2. CASE LimitPct[s] = 20
    BY <2>2
  <2>3. CASE LimitPct[s] = 30
    BY <2>3
  <2> QED
    BY <1>1, <2>1, <2>2, <2>3
<1> QED
  BY <1>2, ToTickType DEF LimitUp, LimitDown

\* Trading days are counted by natural numbers.
LEMMA DayIndexType ==
    ASSUME NEW d
    PROVE  DayIndex(d) \in Nat
<1>1. StartDate \in Int /\ LastDate \in Int
  BY BacktestAssumption DEF Dates
<1>2. IsFiniteSet(StartDate .. LastDate)
  BY <1>1, FS_Interval
<1>3. {e \in TradeDates : e < d} \in SUBSET (StartDate .. LastDate)
  BY DEF TradeDates
<1>4. IsFiniteSet({e \in TradeDates : e < d})
  BY <1>2, <1>3, FS_Subset
<1> QED
  BY <1>4, FS_CardinalityType DEF DayIndex

\* Trading days are dates.
LEMMA TradeDatesAreDates ==
    /\ TradeDates \in SUBSET Dates /\ TradeDates \in SUBSET Nat
    /\ Dates \in SUBSET Nat /\ LastDate \in Nat
<1>1. LastDate \in Nat /\ StartDate \in 1 .. LastDate
  BY BacktestAssumption DEF Dates
<1> QED
  BY <1>1 DEF TradeDates, Dates
-----------------------------------------------------------------------------
(***************************************************************************)
(* Positions, amounts and quantities.                                      *)
(***************************************************************************)
\* The positions are finitely many, and each is a position.
LEMMA HeldPositions ==
    ASSUME TypeOK
    PROVE  /\ Held \in SUBSET Symbols /\ IsFiniteSet(Held) /\ Cardinality(Held) \in Nat
           /\ \A s \in Held : pos[s] \in Position
<1>1. Held \in SUBSET Symbols /\ IsFiniteSet(Symbols)
  BY BacktestAssumption DEF Held
<1>2. IsFiniteSet(Held) /\ Cardinality(Held) \in Nat
  BY <1>1, FS_Subset, FS_CardinalityType
<1> QED
  BY <1>1, <1>2 DEF Held, TypeOK

\* An amount of money is a natural number, and so are the fees.
LEMMA AmountType ==
    ASSUME NEW price \in Nat, NEW qty \in Nat
    PROVE  /\ Amount(price, qty) \in Nat
           /\ BuyFee(price, qty) \in Nat /\ SellFee(price, qty) \in Nat
<1>1. CommissionBuyPct \in Nat /\ CommissionSellPct \in Nat /\ SlippagePct \in Nat
  BY BacktestAssumption
<1>2. price * qty \in Nat
  OBVIOUS
<1>3. 100 * price * qty \in Nat
  OBVIOUS
<1>4. /\ CommissionBuyPct + SlippagePct \in Nat
      /\ CommissionSellPct + SlippagePct \in Nat
  BY <1>1
<1>5. /\ price * qty * (CommissionBuyPct + SlippagePct) \in Nat
      /\ price * qty * (CommissionSellPct + SlippagePct) \in Nat
  BY <1>2, <1>4
<1> QED
  BY <1>3, <1>5 DEF Amount, BuyFee, SellFee

\* The equity at cost is a number.
LEMMA EquityAtCostType ==
    ASSUME TypeOK
    PROVE  EquityAtCost \in Int
<1> DEFINE f == [s \in Held |-> Amount(pos[s].cost, pos[s].qty)]
<1>1. ASSUME NEW s \in Held
      PROVE  f[s] \in Int
  <2>1. pos[s].cost \in Nat /\ pos[s].qty \in Nat
    BY HeldPositions DEF Position
  <2>2. Amount(pos[s].cost, pos[s].qty) \in Nat
    BY <2>1, AmountType
  <2> QED
    BY <2>2
<1>2. IsFiniteSet(Held) /\ Held = DOMAIN f
  BY HeldPositions
<1>3. SumFunction(f) \in Int
  <2> HIDE DEF f
  <2> QED
    BY <1>1, <1>2, SumFunctionType
<1>4. cash \in Int
  BY DEF TypeOK
<1> QED
  BY <1>3, <1>4 DEF EquityAtCost, CostOf

\* The smaller of two numbers is one of them, and at most each.
LEMMA MinOfTwo ==
    ASSUME NEW a \in Int, NEW b \in Int
    PROVE  /\ Min({a, b}) \in Int /\ Min({a, b}) <= a /\ Min({a, b}) <= b
           /\ Min({a, b}) = a \/ Min({a, b}) = b
<1>1. \E m \in {a, b} : \A k \in {a, b} : m <= k
  OBVIOUS
<1>2. Min({a, b}) \in {a, b} /\ \A k \in {a, b} : Min({a, b}) <= k
  BY <1>1 DEF Min
<1> QED
  BY <1>2

\* The lots an amount buys are a number, and a price of 0 buys none.
LEMMA LotsForType ==
    ASSUME NEW amount \in Int, NEW open \in Nat
    PROVE  /\ LotsFor(amount, open) \in Int
           /\ open = 0 => LotsFor(amount, open) = 0
<1>1. CASE open > 0
  <2>1. Amount(open, Lot) \in Nat \ {0}
    BY <1>1 DEF Amount, Lot
  <2>2. amount \div Amount(open, Lot) \in Int
    BY <2>1
  <2> QED
    BY <1>1, <2>2 DEF LotsFor
<1>2. CASE open = 0
  BY <1>2 DEF LotsFor
<1> QED
  BY <1>1, <1>2

\* The quantity bought is a number, and it is 0 when the price is.
LEMMA BuyQtyType ==
    ASSUME TypeOK, NEW order \in Order, NEW open \in Nat
    PROVE  BuyQty(order, open) \in Int /\ (BuyQty(order, open) > 0 => open > 0)
<1> DEFINE places == MaxHoldings - Cardinality(Held)
           share  == (EquityAtCost * MaxPositionPct) \div 100
           capped == LotsFor(share, open)
           wanted == IF mode = "score_weighted" /\ order.total > 0
                     THEN LotsFor((cash * order.score) \div order.total, open)
                     ELSE IF places <= 0 THEN 0 ELSE LotsFor(cash \div places, open)
<1>1. /\ cash \in Int /\ MaxHoldings \in Nat /\ MaxPositionPct \in Nat
      /\ EquityAtCost \in Int /\ Cardinality(Held) \in Nat
      /\ order.score \in Nat /\ order.total \in Nat
  BY BacktestAssumption, EquityAtCostType, HeldPositions DEF TypeOK, Order
<1>2. share \in Int
  <2>1. EquityAtCost * MaxPositionPct \in Int
    BY <1>1
  <2> QED
    BY <2>1
<1>3. capped \in Int
  <2> HIDE DEF share
  <2> QED
    BY <1>2, LotsForType
<1>4. wanted \in Int
  <2>1. CASE mode = "score_weighted" /\ order.total > 0
    <3>1. cash * order.score \in Int /\ order.total \in Nat \ {0}
      BY <1>1, <2>1
    <3>2. (cash * order.score) \div order.total \in Int
      BY <3>1
    <3> QED
      BY <2>1, <3>2, LotsForType
  <2>2. CASE ~(mode = "score_weighted" /\ order.total > 0) /\ places <= 0
    BY <2>2
  <2>3. CASE ~(mode = "score_weighted" /\ order.total > 0) /\ ~(places <= 0)
    <3>1. places \in Nat \ {0}
      BY <1>1, <2>3
    <3>2. cash \div places \in Int
      BY <1>1, <3>1
    <3> QED
      BY <2>3, <3>2, LotsForType
  <2> QED
    BY <2>1, <2>2, <2>3
<1>5. open = 0 => capped = 0
  <2> HIDE DEF share
  <2> QED
    BY <1>2, LotsForType
<1>6. BuyQty(order, open) = Lot * Min({wanted, capped})
  BY DEF BuyQty
<1> HIDE DEF wanted, capped
<1>7. /\ Min({wanted, capped}) \in Int /\ Min({wanted, capped}) <= capped
  BY <1>3, <1>4, MinOfTwo
<1>8. BuyQty(order, open) \in Int
  BY <1>6, <1>7 DEF Lot
<1>9. BuyQty(order, open) > 0 => open > 0
  BY <1>3, <1>5, <1>6, <1>7 DEF Lot
<1> QED
  BY <1>8, <1>9
-----------------------------------------------------------------------------
(***************************************************************************)
(* The types of the variables, with what keeps them: the loop is inside a  *)
(* day that has data, and a signal is one of its own for a stock held.     *)
(***************************************************************************)
Daytime == phase # "closed" => day \in Dates

OneSignalEach ==
    /\ \A g \in sales : g.symbol \in Held
    /\ \A g, h \in sales : g.symbol = h.symbol => g = h

Sound == TypeOK /\ Daytime /\ OneSignalEach

\* The variables before the first day are of their types.
LEMMA InitSound ==
    ASSUME Init
    PROVE  Sound
<1>1. /\ LastDate \in Nat /\ InitialCash \in Nat
      /\ Markets \subseteq [Symbols -> [Dates -> Bar \cup {NoBar}]]
  BY BacktestAssumption, MarketAssumption
<1>2. bars \in [Symbols -> [Dates -> Bar \cup {NoBar}]] /\ mode \in Modes
  BY <1>1 DEF Init
<1>3. day \in 0 .. LastDate
  BY <1>1 DEF Init
<1>4. TypeOK
  BY <1>1, <1>2, <1>3 DEF Init, TypeOK
<1>5. Daytime /\ OneSignalEach
  BY DEF Init, Daytime, OneSignalEach
<1> QED
  BY <1>4, <1>5 DEF Sound

\* The opening of a day keeps the types: the delayed sales are of stocks held.
LEMMA OpenDaySound ==
    ASSUME Sound, OpenDay
    PROVE  Sound'
<1>1. day' \in TradeDates /\ day' > day /\ phase' = "delayed"
  BY DEF OpenDay
<1>2. day' \in Dates /\ day' \in 0 .. LastDate
  BY <1>1, TradeDatesAreDates DEF Dates
<1>3. /\ cash' = cash + frozen /\ frozen' = 0
      /\ UNCHANGED <<bars, mode, orders, ledger, equity>>
  BY DEF OpenDay, SettleFrozen, inputs
<1>4. sales' = {[symbol |-> s, reason |-> pos[s].pending] : s \in Delayed}
  BY DEF OpenDay
<1>5. pos' = [s \in Symbols |->
                IF s \in Delayed THEN [pos[s] EXCEPT !.pending = NoReason] ELSE pos[s]]
  BY DEF OpenDay
<1>6. ASSUME NEW s \in Delayed
      PROVE  /\ s \in Symbols /\ s \in Held /\ pos[s] \in Position
             /\ pos[s].pending \in Reasons
  <2>1. s \in Held /\ pos[s].pending # NoReason
    BY DEF Delayed
  <2>2. s \in Symbols /\ pos[s] \in Position
    BY <2>1, HeldPositions DEF Sound
  <2>3. pos[s].pending \in {NoReason} \cup Reasons
    BY <2>2 DEF Position
  <2> QED
    BY <2>1, <2>2, <2>3
<1>7. ASSUME NEW s \in Symbols
      PROVE  /\ pos'[s] \in Position \cup {NoPosition}
             /\ s \in Delayed => pos'[s] \in Position
  <2>1. CASE s \in Delayed
    <3>1. pos'[s] = [pos[s] EXCEPT !.pending = NoReason]
      BY <1>5, <2>1
    <3>2. pos[s] \in Position
      BY <1>6, <2>1
    <3>3. pos'[s] \in Position
      BY <3>1, <3>2 DEF Position
    <3> QED
      BY <3>3
  <2>2. CASE s \notin Delayed
    BY <1>5, <2>2 DEF Sound, TypeOK
  <2> QED
    BY <2>1, <2>2
<1>8. pos' \in [Symbols -> Position \cup {NoPosition}]
  BY <1>5, <1>7
<1>9. sales' \subseteq Signal
  BY <1>4, <1>6 DEF Signal
<1>10. cash' \in Int /\ frozen' \in Int
  BY <1>3 DEF Sound, TypeOK
<1>11. TypeOK'
  BY <1>1, <1>2, <1>3, <1>8, <1>9, <1>10 DEF Sound, TypeOK
<1>12. Daytime'
  BY <1>2 DEF Daytime
<1>13. OneSignalEach'
  <2>1. ASSUME NEW g \in sales'
        PROVE  g.symbol \in Held'
    <3>1. PICK s \in Delayed : g = [symbol |-> s, reason |-> pos[s].pending]
      BY <1>4
    <3>2. g.symbol = s /\ s \in Symbols
      BY <1>6, <3>1
    <3>3. pos'[s] \in Position
      BY <1>7, <3>2
    <3>4. pos'[s] # NoPosition
      BY <3>3, MarketAssumption
    <3> QED
      BY <3>2, <3>4 DEF Held
  <2>2. \A g, h \in sales' : g.symbol = h.symbol => g = h
    BY <1>4
  <2> QED
    BY <2>1, <2>2 DEF OneSignalEach
<1> QED
  BY <1>11, <1>12, <1>13 DEF Sound

\* What a sale step does to its signal's stock: it sells the whole position at the
\* opening of the next bar, or leaves the reason with it.
LEMMA SellCases ==
    ASSUME Sound, ExecuteSell
    PROVE  \E sig \in sales :
             /\ phase \in {"delayed", "sales"} /\ day \in Dates
             /\ phase = "sales" => \A other \in sales : sig.reason <= other.reason
             /\ sig.symbol \in Held /\ sig.reason \in Reasons
             /\ sales' = sales \ {sig}
             /\ UNCHANGED <<bars, mode, day, phase, cash, orders, equity>>
             /\ \/ /\ Sellable(sig.symbol, day)
                   /\ frozen' = frozen
                        + (Amount(NextOpen(sig.symbol, day), pos[sig.symbol].qty)
                           - SellFee(NextOpen(sig.symbol, day), pos[sig.symbol].qty))
                   /\ ledger' = Append(ledger,
                        [date |-> NextDate(sig.symbol, day), symbol |-> sig.symbol,
                         action |-> "SELL", price |-> NextOpen(sig.symbol, day),
                         qty |-> pos[sig.symbol].qty, reason |-> sig.reason])
                   /\ pos' = [pos EXCEPT ![sig.symbol] = NoPosition]
                \/ /\ ~Sellable(sig.symbol, day)
                   /\ pos' = [pos EXCEPT ![sig.symbol].pending = sig.reason]
                   /\ UNCHANGED <<frozen, ledger>>
<1>1. PICK sig \in sales :
        /\ phase = "sales" => \A other \in sales : sig.reason <= other.reason
        /\ sales' = sales \ {sig}
        /\ IF Sellable(sig.symbol, day)
           THEN /\ Credit(Amount(NextOpen(sig.symbol, day), pos[sig.symbol].qty)
                          - SellFee(NextOpen(sig.symbol, day), pos[sig.symbol].qty))
                /\ ledger' = Append(ledger,
                     [date |-> NextDate(sig.symbol, day), symbol |-> sig.symbol,
                      action |-> "SELL", price |-> NextOpen(sig.symbol, day),
                      qty |-> pos[sig.symbol].qty, reason |-> sig.reason])
                /\ pos' = [pos EXCEPT ![sig.symbol] = NoPosition]
           ELSE Postpone(sig) /\ UNCHANGED <<money, ledger>>
  BY DEF ExecuteSell
<1>2. /\ phase \in {"delayed", "sales"}
      /\ UNCHANGED <<bars, mode, day, phase, orders, equity>>
  BY DEF ExecuteSell, inputs
<1>3. day \in Dates
  BY <1>2 DEF Sound, Daytime
<1>4. sig.symbol \in Held /\ sig.reason \in Reasons
  <2>1. sig \in Signal
    BY DEF Sound, TypeOK
  <2> QED
    BY <2>1 DEF Sound, OneSignalEach, Signal
<1>5. CASE Sellable(sig.symbol, day)
  <2>1. UNCHANGED cash
    BY <1>1, <1>5 DEF Credit
  <2>2. frozen' = frozen + (Amount(NextOpen(sig.symbol, day), pos[sig.symbol].qty)
                            - SellFee(NextOpen(sig.symbol, day), pos[sig.symbol].qty))
    BY <1>1, <1>5 DEF Credit
  <2> QED
    BY <1>1, <1>2, <1>3, <1>4, <1>5, <2>1, <2>2
<1>6. CASE ~Sellable(sig.symbol, day)
  <2>1. UNCHANGED <<cash, frozen, ledger>>
    BY <1>1, <1>6 DEF money
  <2>2. pos' = [pos EXCEPT ![sig.symbol].pending = sig.reason]
    BY <1>1, <1>6 DEF Postpone
  <2> QED
    BY <1>1, <1>2, <1>3, <1>4, <1>6, <2>1, <2>2
<1> QED
  BY <1>5, <1>6

\* A sale keeps the types: it gets the money of whole shares at the next opening.
LEMMA ExecuteSellSound ==
    ASSUME Sound, ExecuteSell
    PROVE  Sound'
<1>1. PICK sig \in sales :
        /\ phase \in {"delayed", "sales"} /\ day \in Dates
        /\ sig.symbol \in Held /\ sig.reason \in Reasons
        /\ sales' = sales \ {sig}
        /\ UNCHANGED <<bars, mode, day, phase, cash, orders, equity>>
        /\ \/ /\ Sellable(sig.symbol, day)
              /\ frozen' = frozen
                   + (Amount(NextOpen(sig.symbol, day), pos[sig.symbol].qty)
                      - SellFee(NextOpen(sig.symbol, day), pos[sig.symbol].qty))
              /\ ledger' = Append(ledger,
                   [date |-> NextDate(sig.symbol, day), symbol |-> sig.symbol,
                    action |-> "SELL", price |-> NextOpen(sig.symbol, day),
                    qty |-> pos[sig.symbol].qty, reason |-> sig.reason])
              /\ pos' = [pos EXCEPT ![sig.symbol] = NoPosition]
           \/ /\ ~Sellable(sig.symbol, day)
              /\ pos' = [pos EXCEPT ![sig.symbol].pending = sig.reason]
              /\ UNCHANGED <<frozen, ledger>>
  BY SellCases
<1> DEFINE s == sig.symbol
           p == pos[s]
<1>2. /\ TypeOK /\ s \in Symbols /\ p \in Position /\ p.qty \in Nat
      /\ bars \in [Symbols -> [Dates -> Bar \cup {NoBar}]]
  BY <1>1, HeldPositions DEF Sound, TypeOK, Position
<1>3. day \in Nat
  BY <1>1, TradeDatesAreDates
<1>4. frozen' \in Int /\ ledger' \in Seq(Trade)
  <2>1. CASE UNCHANGED <<frozen, ledger>>
    BY <2>1 DEF Sound, TypeOK
  <2>2. CASE Sellable(s, day) /\ ~UNCHANGED <<frozen, ledger>>
    <3>1. NextDate(s, day) \in Dates /\ NextOpen(s, day) \in Nat
      BY <1>2, <1>3, <2>2, NextBar DEF Sellable
    <3>2. /\ Amount(NextOpen(s, day), p.qty) \in Nat
          /\ SellFee(NextOpen(s, day), p.qty) \in Nat
      BY <1>2, <3>1, AmountType
    <3>3. frozen' \in Int
      BY <1>1, <1>2, <2>2, <3>2 DEF TypeOK
    <3> DEFINE t == [date |-> NextDate(s, day), symbol |-> s, action |-> "SELL",
                     price |-> NextOpen(s, day), qty |-> p.qty, reason |-> sig.reason]
    <3>4. t \in Trade
      BY <1>1, <1>2, <3>1 DEF Trade
    <3>5. ledger' = Append(ledger, t) /\ ledger \in Seq(Trade)
      BY <1>1, <1>2, <2>2 DEF TypeOK
    <3> HIDE DEF t
    <3>6. ledger' \in Seq(Trade)
      BY <3>4, <3>5
    <3> QED
      BY <3>3, <3>6
  <2> QED
    BY <1>1, <2>1, <2>2
<1>5. /\ pos' \in [Symbols -> Position \cup {NoPosition}]
      /\ \A x \in Symbols \ {s} : pos'[x] = pos[x]
  <2>1. CASE pos' = [pos EXCEPT ![s] = NoPosition]
    BY <1>2, <2>1 DEF TypeOK
  <2>2. CASE pos' = [pos EXCEPT ![s].pending = sig.reason]
    <3>1. pos' = [pos EXCEPT ![s] = [p EXCEPT !.pending = sig.reason]]
      BY <2>2
    <3>2. [p EXCEPT !.pending = sig.reason] \in Position
      BY <1>1, <1>2 DEF Position
    <3> QED
      BY <1>2, <3>1, <3>2 DEF TypeOK
  <2> QED
    BY <1>1, <2>1, <2>2
<1>6. TypeOK'
  BY <1>1, <1>2, <1>4, <1>5 DEF TypeOK
<1>7. Daytime'
  BY <1>1 DEF Daytime
<1>8. OneSignalEach'
  <2>1. ASSUME NEW g \in sales'
        PROVE  g.symbol \in Held'
    <3>1. g \in sales /\ g # sig
      BY <1>1
    <3>2. g.symbol # s /\ g.symbol \in Held
      BY <3>1 DEF Sound, OneSignalEach
    <3>3. pos'[g.symbol] = pos[g.symbol]
      BY <1>5, <3>2 DEF Held
    <3> QED
      BY <3>2, <3>3 DEF Held
  <2> QED
    BY <1>1, <2>1 DEF Sound, OneSignalEach
<1> QED
  BY <1>6, <1>7, <1>8 DEF Sound

\* The positions the sell conditions look at: those with a bar today.
Seen == {s \in Held : ~Suspended(s, day)}

\* What the check of the positions does: it follows the highest close of those it sees
\* and raises at most one signal for each, and one for every loss at the stop.
LEMMA CheckCases ==
    ASSUME Sound, CheckPositions
    PROVE  /\ phase = "delayed" /\ phase' = "sales" /\ day \in Dates
           /\ UNCHANGED <<bars, mode, day, cash, frozen, orders, ledger, equity>>
           /\ pos' = [s \in Symbols |->
                        IF s \in Seen THEN [pos[s] EXCEPT !.high = Highest(s, day)]
                                      ELSE pos[s]]
           /\ \A g \in sales' : g \in Signal /\ g.symbol \in Seen
           /\ \A g, h \in sales' : g.symbol = h.symbol => g = h
           /\ \A s \in Seen : StopReached(s, bars[s][day].close)
                                => \E g \in sales' : g.symbol = s
<1>1. PICK exits \in SUBSET Seen :
        /\ pos' = [s \in Symbols |->
                     IF s \in Seen THEN [pos[s] EXCEPT !.high = Highest(s, day)]
                                   ELSE pos[s]]
        /\ sales' = {[symbol |-> s,
                      reason |-> Min(Triggered(s, day, Highest(s, day), exits))] :
                       s \in {x \in Seen :
                                Triggered(x, day, Highest(x, day), exits) # {}}}
  BY DEF CheckPositions, Seen
<1> DEFINE fired(s) == Triggered(s, day, Highest(s, day), exits)
<1>2. /\ phase = "delayed" /\ phase' = "sales"
      /\ UNCHANGED <<bars, mode, day, cash, frozen, orders, ledger, equity>>
  BY DEF CheckPositions, inputs, money
<1>3. day \in Dates
  BY <1>2 DEF Sound, Daytime
<1>4. Seen \in SUBSET Symbols
  BY HeldPositions DEF Sound, Seen
<1>5. \A s \in Symbols : fired(s) \subseteq Reasons
  BY DEF Triggered
<1>6. ASSUME NEW g \in sales'
      PROVE  g \in Signal /\ g.symbol \in Seen
  <2>1. PICK s \in Seen : /\ fired(s) # {}
                          /\ g = [symbol |-> s, reason |-> Min(fired(s))]
    BY <1>1
  <2>2. fired(s) \in SUBSET Nat /\ fired(s) \subseteq Reasons
    BY <1>4, <1>5 DEF Reasons
  <2>3. Min(fired(s)) \in Reasons
    <3> HIDE DEF fired
    <3> QED
      BY <2>1, <2>2, MinOf
  <2> QED
    BY <1>4, <2>1, <2>3 DEF Signal
<1>7. \A g, h \in sales' : g.symbol = h.symbol => g = h
  BY <1>1
<1>8. ASSUME NEW s \in Seen, StopReached(s, bars[s][day].close)
      PROVE  \E g \in sales' : g.symbol = s
  <2>1. s \in Symbols /\ HasBar(s, day)
    BY <1>4 DEF Seen, Suspended
  <2>2. LastBar(s, day) = bars[s][day]
    BY <1>3, <2>1, LastBarToday DEF Sound, TypeOK
  <2>3. StopLoss \in fired(s)
    BY <1>8, <2>2 DEF Triggered, Reasons, StopLoss
  <2>4. s \in {x \in Seen : fired(x) # {}}
    BY <2>3
  <2>5. [symbol |-> s, reason |-> Min(fired(s))] \in sales'
    BY <1>1, <2>4
  <2> QED
    BY <2>5
<1> QED
  BY <1>1, <1>2, <1>3, <1>6, <1>7, <1>8

\* The highest close that is followed is a price.
LEMMA FollowedPosition ==
    ASSUME Sound, day \in Dates, NEW s \in Seen
    PROVE  /\ s \in Symbols /\ pos[s] \in Position
           /\ [pos[s] EXCEPT !.high = Highest(s, day)] \in Position
<1>1. /\ s \in Symbols /\ pos[s] \in Position /\ HasBar(s, day)
      /\ bars \in [Symbols -> [Dates -> Bar \cup {NoBar}]]
  BY HeldPositions DEF Sound, Seen, Suspended, TypeOK
<1>2. day \in Nat
  BY TradeDatesAreDates
<1>3. LastBar(s, day).close \in Nat
  BY <1>1, <1>2, LastBarToday, LastBarUpTo
<1>4. Highest(s, day) \in Nat
  BY <1>1, <1>3 DEF Highest, Position
<1> QED
  BY <1>1, <1>4 DEF Position

\* The check of the positions keeps the types.
LEMMA CheckPositionsSound ==
    ASSUME Sound, CheckPositions
    PROVE  Sound'
<1>1. /\ phase' = "sales" /\ day \in Dates
      /\ UNCHANGED <<bars, mode, day, cash, frozen, orders, ledger, equity>>
      /\ pos' = [s \in Symbols |->
                   IF s \in Seen THEN [pos[s] EXCEPT !.high = Highest(s, day)]
                                 ELSE pos[s]]
      /\ \A g \in sales' : g \in Signal /\ g.symbol \in Seen
      /\ \A g, h \in sales' : g.symbol = h.symbol => g = h
  BY CheckCases
<1>2. ASSUME NEW s \in Seen
      PROVE  s \in Symbols /\ pos'[s] \in Position
  <2>1. /\ s \in Symbols /\ pos[s] \in Position
        /\ [pos[s] EXCEPT !.high = Highest(s, day)] \in Position
    BY <1>1, FollowedPosition
  <2> QED
    BY <1>1, <2>1
<1>3. pos' \in [Symbols -> Position \cup {NoPosition}]
  BY <1>1, <1>2 DEF Sound, TypeOK
<1>4. TypeOK'
  BY <1>1, <1>3 DEF Sound, TypeOK
<1>5. OneSignalEach'
  <2>1. ASSUME NEW g \in sales'
        PROVE  g.symbol \in Held'
    BY <1>1, <1>2, MarketAssumption DEF Held
  <2> QED
    BY <1>1, <2>1 DEF OneSignalEach
<1>6. Daytime'
  BY <1>1 DEF Daytime
<1> QED
  BY <1>4, <1>5, <1>6 DEF Sound

\* The ranking returns candidates that are not held, each once, no more than there
\* are free places.
LEMMA RankedCandidates ==
    ASSUME TypeOK, NEW cands \in SUBSET Symbols, NEW score,
           NEW best \in Ranked(cands, score), Cardinality(Held) < MaxHoldings
    PROVE  \E m \in Nat :
             /\ best \in [1 .. m -> cands \ Held]
             /\ m + Cardinality(Held) <= MaxHoldings
             /\ \A i, j \in 1 .. m : i # j => best[i] # best[j]
<1> DEFINE free == MaxHoldings - Cardinality(Held)
           new  == cands \ Held
<1>1. IsFiniteSet(new) /\ Cardinality(new) \in Nat
  <2>1. new \in SUBSET Symbols /\ IsFiniteSet(Symbols)
    BY BacktestAssumption
  <2> QED
    BY <2>1, FS_Subset, FS_CardinalityType
<1>2. PICK q \in SetToSeqs(new) : best = SubSeq(q, 1, Min({free, Len(q)}))
  BY DEF Ranked
<1> DEFINE n == Cardinality(new)
<1>3. q \in [1 .. n -> new] /\ \A i, j \in 1 .. n : i # j => q[i] # q[j]
  BY <1>2 DEF SetToSeqs
<1> HIDE DEF n, new
<1>4. n \in Nat
  BY <1>1 DEF n
<1>5. q \in Seq(new) /\ Len(q) = n
  BY <1>3, <1>4
<1>6. free \in Nat /\ MaxHoldings \in Nat /\ Cardinality(Held) \in Nat
  BY HeldPositions, BacktestAssumption
<1> DEFINE m == Min({free, n})
<1>7. m \in Int /\ m <= free /\ m <= n /\ (m = free \/ m = n)
  <2>1. free \in Int /\ n \in Int
    BY <1>4, <1>6
  <2> HIDE DEF free
  <2> QED
    BY <2>1, MinOfTwo
<1> HIDE DEF m
<1>8. m \in Nat
  BY <1>4, <1>6, <1>7
<1>9. best = SubSeq(q, 1, m)
  BY <1>2, <1>5 DEF m
<1>10. best \in [1 .. m -> new] /\ \A i \in 1 .. m : best[i] = q[i]
  <2>1. \A i \in 1 .. m : q[i] \in new
    BY <1>3, <1>4, <1>7, <1>8
  <2>2. 1 \in Int /\ m \in Int
    BY <1>7
  <2>3. /\ best \in Seq(new)
        /\ Len(best) = IF 1 <= m THEN m - 1 + 1 ELSE 0
        /\ \A i \in 1 .. m - 1 + 1 : best[i] = q[1 + i - 1]
    BY <1>9, <2>1, <2>2, SubSeqProperties
  <2>4. Len(best) = m /\ \A i \in 1 .. m : best[i] = q[i]
    BY <1>8, <2>3
  <2>5. best \in [1 .. m -> new]
    BY <2>3, <2>4
  <2> QED
    BY <2>4, <2>5
<1>11. \A i, j \in 1 .. m : i # j => best[i] # best[j]
  <2>1. \A i \in 1 .. m : i \in 1 .. n
    BY <1>4, <1>7, <1>8
  <2> QED
    BY <1>3, <1>10, <2>1
<1>12. m + Cardinality(Held) <= MaxHoldings
  BY <1>6, <1>7, <1>8
<1> QED
  BY <1>8, <1>10, <1>11, <1>12 DEF new

\* What the screen does: it puts up candidates that have a bar and are not held, each
\* once, no more than there are free places.
LEMMA ScreenCases ==
    ASSUME Sound, Screen
    PROVE  /\ phase = "sales" /\ sales = {} /\ phase' = "buys" /\ day \in Dates
           /\ UNCHANGED <<bars, mode, day, cash, frozen, pos, sales, ledger, equity>>
           /\ orders' \in Seq(Order)
           /\ orders' = <<>> \/ Len(orders') + Cardinality(Held) <= MaxHoldings
           /\ \A i \in 1 .. Len(orders') : /\ orders'[i].symbol \notin Held
                                           /\ BarsUpTo(orders'[i].symbol, day) # {}
           /\ \A i, j \in 1 .. Len(orders') :
                i # j => orders'[i].symbol # orders'[j].symbol
<1>1. /\ phase = "sales" /\ sales = {} /\ phase' = "buys"
      /\ UNCHANGED <<bars, mode, day, cash, frozen, pos, sales, ledger, equity>>
  BY DEF Screen, inputs, money
<1>2. day \in Dates
  BY <1>1 DEF Sound, Daytime
<1>3. CASE orders' = <<>>
  BY <1>1, <1>2, <1>3
<1>4. CASE orders' # <<>>
  <2>1. PICK cands \in SUBSET {s \in Symbols : NotOverheated(s, day)} :
        \E score \in [cands -> Scores] :
           IF Cardinality(Held) >= MaxHoldings
           THEN orders' = <<>>
           ELSE \E best \in Ranked(cands, score) :
                  orders' = [i \in DOMAIN best |->
                    [symbol |-> best[i], score |-> score[best[i]],
                     total |-> SumFunction([s \in ToSet(best) |-> score[s]])]]
    BY DEF Screen
  <2>2. PICK score \in [cands -> Scores] :
           IF Cardinality(Held) >= MaxHoldings
           THEN orders' = <<>>
           ELSE \E best \in Ranked(cands, score) :
                  orders' = [i \in DOMAIN best |->
                    [symbol |-> best[i], score |-> score[best[i]],
                     total |-> SumFunction([s \in ToSet(best) |-> score[s]])]]
    BY <2>1
  <2>3. MaxHoldings \in Nat /\ Cardinality(Held) \in Nat
    BY BacktestAssumption, HeldPositions DEF Sound
  <2>4. Cardinality(Held) < MaxHoldings
    BY <1>4, <2>2, <2>3
  <2>5. PICK best \in Ranked(cands, score) :
           orders' = [i \in DOMAIN best |->
                    [symbol |-> best[i], score |-> score[best[i]],
                     total |-> SumFunction([s \in ToSet(best) |-> score[s]])]]
    BY <2>2, <2>3, <2>4
  <2>6. cands \in SUBSET Symbols /\ TypeOK
    BY DEF Sound
  <2>7. PICK m \in Nat : /\ best \in [1 .. m -> cands \ Held]
                         /\ m + Cardinality(Held) <= MaxHoldings
                         /\ \A i, j \in 1 .. m : i # j => best[i] # best[j]
    BY <2>4, <2>6, RankedCandidates
  <2> DEFINE total == SumFunction([s \in ToSet(best) |-> score[s]])
  <2>8. total \in Nat
    <3> DEFINE S == ToSet(best)
               f == [s \in S |-> score[s]]
    <3>1. S \in SUBSET cands
      BY <2>7 DEF ToSet
    <3>2. IsFiniteSet(S)
      <4>1. S \in SUBSET Symbols /\ IsFiniteSet(Symbols)
        BY <2>6, <3>1, BacktestAssumption
      <4> QED
        BY <4>1, FS_Subset
    <3>3. ASSUME NEW s \in S
          PROVE  f[s] \in Nat /\ f[s] \in Int
      <4>1. s \in cands
        BY <3>1
      <4>2. score[s] \in Scores
        BY <2>2, <4>1
      <4>3. score[s] \in Nat
        BY <4>2, MarketAssumption
      <4> HIDE DEF S
      <4>4. f[s] = score[s]
        OBVIOUS
      <4> QED
        BY <4>3, <4>4
    <3>4. S = DOMAIN f
      OBVIOUS
    <3> HIDE DEF S, f
    <3>5. SumFunction(f) \in Nat
      BY <3>2, <3>3, <3>4, SumFunctionType
    <3> QED
      BY <3>5 DEF S, f
  <2>9. orders' = [i \in 1 .. m |-> [symbol |-> best[i], score |-> score[best[i]],
                                     total |-> total]]
    BY <2>5, <2>7
  <2> HIDE DEF total
  <2>10. ASSUME NEW i \in 1 .. m
         PROVE  [symbol |-> best[i], score |-> score[best[i]], total |-> total] \in Order
    <3>1. best[i] \in cands /\ best[i] \in Symbols /\ score[best[i]] \in Nat
      BY <2>6, <2>7, MarketAssumption
    <3> QED
      BY <2>8, <3>1 DEF Order
  <2>11. orders' \in [1 .. m -> Order]
    BY <2>9, <2>10
  <2>12. orders' \in Seq(Order) /\ Len(orders') = m
    BY <2>7, <2>11
  <2>13. ASSUME NEW i \in 1 .. m
         PROVE  /\ orders'[i].symbol \notin Held
                /\ BarsUpTo(orders'[i].symbol, day) # {}
    <3>1. orders'[i].symbol = best[i] /\ best[i] \in cands /\ best[i] \notin Held
      BY <2>7, <2>9
    <3>2. NotOverheated(best[i], day)
      BY <2>1, <3>1
    <3> QED
      BY <3>1, <3>2 DEF NotOverheated
  <2>14. \A i, j \in 1 .. m : i # j => orders'[i].symbol # orders'[j].symbol
    BY <2>7, <2>9
  <2> QED
    BY <1>1, <1>2, <2>7, <2>12, <2>13, <2>14
<1> QED
  BY <1>3, <1>4

\* The screen keeps the types.
LEMMA ScreenSound ==
    ASSUME Sound, Screen
    PROVE  Sound'
<1>1. /\ phase' = "buys" /\ day \in Dates /\ orders' \in Seq(Order)
      /\ UNCHANGED <<bars, mode, day, cash, frozen, pos, sales, ledger, equity>>
  BY ScreenCases
<1>2. TypeOK'
  BY <1>1 DEF Sound, TypeOK
<1>3. Daytime' /\ OneSignalEach'
  BY <1>1 DEF Sound, Daytime, OneSignalEach, Held
<1> QED
  BY <1>2, <1>3 DEF Sound

\* What a purchase step does to the first candidate: it books whole lots at the opening
\* of the next bar when the cash reaches, or passes it over.
LEMMA BuyCases ==
    ASSUME Sound, ExecuteBuy
    PROVE  LET s == Head(orders).symbol IN
           /\ phase = "buys" /\ day \in Dates /\ orders # <<>> /\ s \in Symbols
           /\ orders' = Tail(orders)
           /\ UNCHANGED <<bars, mode, day, phase, frozen, sales, equity>>
           /\ \/ UNCHANGED <<cash, pos, ledger>>
              \/ \E qty \in Nat :
                   /\ qty > 0 /\ NextOpen(s, day) > 0 /\ BarsAfter(s, day) # {}
                   /\ NextOpen(s, day) \in Nat /\ NextDate(s, day) \in Dates
                   /\ Amount(NextOpen(s, day), qty) + BuyFee(NextOpen(s, day), qty)
                        <= cash
                   /\ Book(s, qty)
<1> DEFINE s == Head(orders).symbol
           open == NextOpen(s, day)
           qty == IF Buyable(s, day) THEN BuyQty(Head(orders), open) ELSE 0
<1>1. /\ phase = "buys" /\ orders # <<>> /\ orders' = Tail(orders)
      /\ UNCHANGED <<bars, mode, day, phase, frozen, sales, equity>>
  BY DEF ExecuteBuy, inputs
<1>2. IF qty > 0 /\ Amount(open, qty) + BuyFee(open, qty) <= cash
      THEN Book(s, qty) ELSE UNCHANGED <<cash, pos, ledger>>
  BY DEF ExecuteBuy
<1>3. day \in Dates /\ day \in Nat
  BY <1>1, TradeDatesAreDates DEF Sound, Daytime
<1>4. Head(orders) \in Order /\ s \in Symbols
  <2>1. orders \in Seq(Order) /\ orders # <<>>
    BY <1>1 DEF Sound, TypeOK
  <2>2. Head(orders) \in Order
    BY <2>1
  <2> QED
    BY <2>2 DEF Order
<1>5. CASE qty > 0 /\ Amount(open, qty) + BuyFee(open, qty) <= cash
  <2>1. Buyable(s, day) /\ BarsAfter(s, day) # {} /\ qty = BuyQty(Head(orders), open)
    BY <1>5 DEF Buyable
  <2>2. open \in Nat /\ NextDate(s, day) \in Dates
    BY <1>3, <1>4, <2>1, NextBar DEF Sound, TypeOK
  <2> HIDE DEF open
  <2>3. qty \in Int /\ (qty > 0 => open > 0)
    BY <1>4, <2>1, <2>2, BuyQtyType DEF Sound
  <2> HIDE DEF qty
  <2>4. qty \in Nat /\ open > 0
    BY <1>5, <2>3
  <2> QED
    BY <1>1, <1>2, <1>3, <1>4, <1>5, <2>1, <2>2, <2>4 DEF open
<1>6. CASE ~(qty > 0 /\ Amount(open, qty) + BuyFee(open, qty) <= cash)
  BY <1>1, <1>2, <1>3, <1>4, <1>6
<1> QED
  BY <1>5, <1>6

\* A purchase keeps the types.
LEMMA ExecuteBuySound ==
    ASSUME Sound, ExecuteBuy
    PROVE  Sound'
<1> DEFINE s == Head(orders).symbol
<1>1. /\ day \in Dates /\ orders # <<>> /\ s \in Symbols /\ orders' = Tail(orders)
      /\ UNCHANGED <<bars, mode, day, phase, frozen, sales, equity>>
      /\ \/ UNCHANGED <<cash, pos, ledger>>
         \/ \E qty \in Nat :
              /\ NextOpen(s, day) \in Nat /\ NextDate(s, day) \in Dates
              /\ Book(s, qty)
  BY BuyCases
<1>2. orders' \in Seq(Order)
  BY <1>1 DEF Sound, TypeOK
<1>3. CASE UNCHANGED <<cash, pos, ledger>>
  <2>1. TypeOK'
    BY <1>1, <1>2, <1>3 DEF Sound, TypeOK
  <2>2. Daytime' /\ OneSignalEach'
    BY <1>1, <1>3 DEF Sound, Daytime, OneSignalEach, Held
  <2> QED
    BY <2>1, <2>2 DEF Sound
<1>4. CASE ~UNCHANGED <<cash, pos, ledger>>
  <2>1. PICK qty \in Nat : /\ NextOpen(s, day) \in Nat /\ NextDate(s, day) \in Dates
                           /\ Book(s, qty)
    BY <1>1, <1>4
  <2> HIDE DEF s
  <2> DEFINE open == NextOpen(s, day)
             p == [qty |-> qty, cost |-> open, buyDate |-> NextDate(s, day),
                   buyIndex |-> DayIndex(day) + 1, high |-> open, pending |-> NoReason]
             t == [date |-> NextDate(s, day), symbol |-> s, action |-> "BUY",
                   price |-> open, qty |-> qty, reason |-> NoReason]
  <2>2. /\ cash' = cash - Amount(open, qty) - BuyFee(open, qty)
        /\ pos' = [pos EXCEPT ![s] = p]
        /\ ledger' = Append(ledger, t)
    BY <2>1 DEF Book
  <2>3. Amount(open, qty) \in Nat /\ BuyFee(open, qty) \in Nat
    BY <2>1, AmountType
  <2>4. p \in Position
    <3>1. DayIndex(day) + 1 \in Nat
      BY DayIndexType
    <3> QED
      BY <2>1, <3>1 DEF Position
  <2>5. t \in Trade
    BY <1>1, <2>1 DEF Trade
  <2> HIDE DEF p, t
  <2>6. cash' \in Int
    BY <2>2, <2>3 DEF Sound, TypeOK
  <2>7. pos' \in [Symbols -> Position \cup {NoPosition}]
    BY <2>2, <2>4 DEF Sound, TypeOK
  <2>8. ledger' \in Seq(Trade)
    BY <2>2, <2>5 DEF Sound, TypeOK
  <2>9. TypeOK'
    BY <1>1, <1>2, <2>6, <2>7, <2>8 DEF Sound, TypeOK
  <2>10. Daytime'
    BY <1>1 DEF Sound, Daytime
  <2>11. OneSignalEach'
    <3>1. ASSUME NEW x \in Held
          PROVE  x \in Held'
      <4>1. pos'[x] # NoPosition
        BY <2>2, <2>4, MarketAssumption DEF Held, Sound, TypeOK
      <4> QED
        BY <4>1 DEF Held
    <3> QED
      BY <1>1, <3>1 DEF Sound, OneSignalEach
  <2> QED
    BY <2>9, <2>10, <2>11 DEF Sound
<1> QED
  BY <1>3, <1>4

\* The value of a stock in the snapshot is a natural number.
LEMMA MarkType ==
    ASSUME TypeOK, NEW s \in Held, NEW d \in Nat
    PROVE  Mark(s, d) \in Nat
<1>1. s \in Symbols /\ pos[s] \in Position
  BY HeldPositions
<1>2. CASE BarsUpTo(s, d) # {}
  <2>1. LastBar(s, d).close \in Nat
    BY <1>1, <1>2, LastBarUpTo DEF TypeOK
  <2> QED
    BY <1>2, <2>1 DEF Mark
<1>3. CASE BarsUpTo(s, d) = {}
  BY <1>1, <1>3 DEF Mark, Position
<1> QED
  BY <1>2, <1>3

\* The snapshot keeps the types.
LEMMA CloseDaySound ==
    ASSUME Sound, CloseDay
    PROVE  Sound'
<1> DEFINE f == [s \in Held |-> Amount(Mark(s, day), pos[s].qty)]
<1>1. /\ phase = "buys" /\ phase' = "closed" /\ equity' = cash + frozen + SumFunction(f)
      /\ UNCHANGED <<bars, mode, day, cash, frozen, pos, sales, orders, ledger>>
  BY DEF CloseDay, inputs, money
<1>2. day \in Nat
  BY <1>1, TradeDatesAreDates DEF Sound, Daytime
<1>3. ASSUME NEW s \in Held
      PROVE  f[s] \in Int
  <2>1. Mark(s, day) \in Nat /\ pos[s].qty \in Nat
    BY <1>2, MarkType, HeldPositions DEF Sound, Position
  <2>2. Amount(Mark(s, day), pos[s].qty) \in Nat
    BY <2>1, AmountType
  <2> QED
    BY <2>2
<1>4. SumFunction(f) \in Int
  <2>1. IsFiniteSet(Held) /\ Held = DOMAIN f
    BY HeldPositions DEF Sound
  <2> HIDE DEF f
  <2> QED
    BY <1>3, <2>1, SumFunctionType
<1> HIDE DEF f
<1>5. equity' \in Int
  BY <1>1, <1>4 DEF Sound, TypeOK
<1>6. TypeOK'
  BY <1>1, <1>5 DEF Sound, TypeOK
<1>7. Daytime' /\ OneSignalEach'
  BY <1>1 DEF Sound, Daytime, OneSignalEach, Held
<1> QED
  BY <1>6, <1>7 DEF Sound

\* Every step keeps the types.
LEMMA StepSound ==
    ASSUME Sound, [Next]_vars
    PROVE  Sound'
<1>1. CASE Next
  BY <1>1, OpenDaySound, ExecuteSellSound, CheckPositionsSound, ScreenSound,
     ExecuteBuySound, CloseDaySound DEF Next
<1>2. CASE UNCHANGED vars
  <2>1. TypeOK'
    BY <1>2 DEF vars, Sound, TypeOK
  <2>2. Daytime' /\ OneSignalEach'
    BY <1>2 DEF vars, Sound, Daytime, OneSignalEach, Held
  <2> QED
    BY <2>1, <2>2 DEF Sound
<1> QED
  BY <1>1, <1>2

\* On every run of the backtest the variables are of their types, inside a day the date
\* has data, and every sell signal is the only one for a stock that is held.
THEOREM AlwaysSound == Spec => []Sound
BY InitSound, StepSound, PTL DEF Spec

\* The type invariant: no quantity, price or cost of a position is ever negative, every
\* order, trade and signal is well formed (the loop body of _run_backtest_strategy_driven).
\* Of cash and frozen money it says that they are whole numbers; that they are not negative
\* takes a bound on the fees and is part of AccountImplemented.
THEOREM TypeCorrect == Spec => []TypeOK
<1>1. Sound => TypeOK
  BY DEF Sound
<1> QED
  BY <1>1, AlwaysSound, PTL
-----------------------------------------------------------------------------
(***************************************************************************)
(* What the loop keeps of its positions, signals and candidates.  A        *)
(* position is of whole shares at a positive price; a date on which its    *)
(* stock has a bar before the purchase is over; whatever waits to be sold  *)
(* was bought by today.  Candidates are bought once, while there is room.  *)
(***************************************************************************)
Ripe(s) ==
    \A e \in Dates : HasBar(s, e) /\ e < pos[s].buyDate =>
        e <= day /\ (phase \in {"delayed", "sales"} => e < day)

PositionKept(s) ==
    /\ pos[s].qty > 0 /\ pos[s].cost > 0
    /\ BarsUpTo(s, day) # {}
    /\ Ripe(s)
    /\ pos[s].pending # NoReason => pos[s].buyDate <= day

PositionsKept == \A s \in Held : PositionKept(s)

SignalsRipe ==
    phase \in {"delayed", "sales"} => \A g \in sales : pos[g.symbol].buyDate <= day

OrdersKept ==
    /\ phase # "buys" => orders = <<>>
    /\ orders = <<>> \/ Len(orders) + Cardinality(Held) <= MaxHoldings
    /\ \A i \in 1 .. Len(orders) : /\ orders[i].symbol \notin Held
                                   /\ BarsUpTo(orders[i].symbol, day) # {}
    /\ \A i, j \in 1 .. Len(orders) : i # j => orders[i].symbol # orders[j].symbol

Steady == PositionsKept /\ SignalsRipe /\ OrdersKept

\* Nothing is held, signalled or put up before the first day.
LEMMA InitSteady ==
    ASSUME Init
    PROVE  Steady
BY DEF Init, Steady, PositionsKept, SignalsRipe, OrdersKept, Held

\* A bar up to a date is one up to any later date.
LEMMA BarsStay ==
    ASSUME NEW s, NEW d \in Nat, NEW e \in Nat, d <= e, BarsUpTo(s, d) # {}
    PROVE  BarsUpTo(s, e) # {}
<1>1. PICK x \in Dates : x <= d /\ bars[s][x] # NoBar
  BY DEF BarsUpTo
<1>2. x \in Nat
  BY TradeDatesAreDates
<1>3. x \in BarsUpTo(s, e)
  BY <1>1, <1>2 DEF BarsUpTo
<1> QED
  BY <1>3

\* A step that lets the bars and the day stand lets the date index stand.
LEMMA SameIndex ==
    ASSUME bars' = bars, day' = day
    PROVE  /\ \A s : BarsUpTo(s, day)' = BarsUpTo(s, day)
           /\ \A s, e : HasBar(s, e)' = HasBar(s, e)
BY DEF BarsUpTo, HasBar

\* The numbers a position is compared by.
LEMMA PositionNumbers ==
    ASSUME TypeOK, NEW s \in Held
    PROVE  /\ s \in Symbols /\ pos[s] \in Position /\ day \in Nat
           /\ pos[s].buyDate \in Nat /\ pos[s].buyDate \in Dates
           /\ pos[s].qty \in Nat /\ pos[s].cost \in Nat
<1>1. s \in Symbols /\ pos[s] \in Position
  BY HeldPositions
<1>2. day \in Nat
  BY BacktestAssumption DEF TypeOK
<1>3. pos[s].buyDate \in Dates
  BY <1>1 DEF Position
<1> QED
  BY <1>1, <1>2, <1>3, TradeDatesAreDates DEF Position

\* The opening of a day: what could not be sold before was bought before.
LEMMA OpenDaySteady ==
    ASSUME Sound, Steady, OpenDay
    PROVE  Steady'
<1>1. /\ phase = "closed" /\ phase' = "delayed" /\ day' \in TradeDates /\ day' > day
      /\ UNCHANGED <<bars, orders>>
      /\ sales' = {[symbol |-> s, reason |-> pos[s].pending] : s \in Delayed}
      /\ pos' = [s \in Symbols |->
                   IF s \in Delayed THEN [pos[s] EXCEPT !.pending = NoReason] ELSE pos[s]]
  BY DEF OpenDay, inputs
<1>2. day \in Nat /\ day' \in Nat
  BY <1>1, TradeDatesAreDates DEF Sound, TypeOK
<1>3. ASSUME NEW s \in Symbols
      PROVE  /\ s \in Held => /\ pos'[s].qty = pos[s].qty /\ pos'[s].cost = pos[s].cost
                              /\ pos'[s].buyDate = pos[s].buyDate
                              /\ pos'[s].pending \in {NoReason, pos[s].pending}
             /\ s \notin Held => pos'[s] = NoPosition
  <2>1. s \in Held => pos[s] \in Position
    BY HeldPositions DEF Sound
  <2>2. CASE s \in Delayed
    <3>1. s \in Held /\ pos'[s] = [pos[s] EXCEPT !.pending = NoReason]
      BY <1>1, <2>2 DEF Delayed
    <3> QED
      BY <2>1, <3>1 DEF Position
  <2>3. CASE s \notin Delayed
    BY <1>1, <2>3 DEF Held
  <2> QED
    BY <2>2, <2>3
<1>4. \A s \in Held' : s \in Held /\ s \in Symbols
  BY <1>3 DEF Held
<1>5. PositionsKept'
  <2>1. ASSUME NEW s \in Held'
        PROVE  /\ pos'[s].qty > 0 /\ pos'[s].cost > 0
               /\ BarsUpTo(s, day)' # {}
               /\ Ripe(s)'
               /\ pos'[s].pending # NoReason => pos'[s].buyDate <= day'
    <3>1. /\ pos[s].qty > 0 /\ pos[s].cost > 0 /\ BarsUpTo(s, day) # {} /\ Ripe(s)
          /\ pos[s].pending # NoReason => pos[s].buyDate <= day
      BY <1>4 DEF Steady, PositionsKept, PositionKept
    <3>2. /\ pos'[s].qty = pos[s].qty /\ pos'[s].cost = pos[s].cost
          /\ pos'[s].buyDate = pos[s].buyDate
          /\ pos'[s].pending \in {NoReason, pos[s].pending}
      BY <1>3, <1>4
    <3>3. pos[s].buyDate \in Nat
      BY <1>4, PositionNumbers DEF Sound
    <3>4. BarsUpTo(s, day') # {}
      BY <1>1, <1>2, <3>1, BarsStay
    <3>5. BarsUpTo(s, day)' # {}
      BY <1>1, <3>4 DEF BarsUpTo
    <3>6. ASSUME NEW e \in Dates, HasBar(s, e)', e < pos'[s].buyDate
          PROVE  e < day'
      <4>1. HasBar(s, e) /\ e < pos[s].buyDate
        BY <1>1, <3>2, <3>6 DEF HasBar
      <4>2. e <= day /\ e \in Nat
        BY <3>1, <4>1, TradeDatesAreDates DEF Ripe
      <4> QED
        BY <1>1, <1>2, <4>2
    <3>7. \A e \in Dates : e < day' => e <= day'
      BY <1>2, TradeDatesAreDates
    <3>8. Ripe(s)'
      BY <3>6, <3>7 DEF Ripe
    <3>9. pos'[s].pending # NoReason => pos'[s].buyDate <= day'
      BY <1>1, <1>2, <3>1, <3>2, <3>3
    <3> QED
      BY <3>1, <3>2, <3>5, <3>8, <3>9
  <2> QED
    BY <2>1 DEF PositionsKept, PositionKept
<1>6. SignalsRipe'
  <2>1. ASSUME NEW g \in sales'
        PROVE  pos'[g.symbol].buyDate <= day'
    <3>1. PICK s \in Delayed : g.symbol = s
      BY <1>1
    <3>2. s \in Held /\ s \in Symbols /\ pos[s].pending # NoReason
      BY DEF Delayed, Held
    <3>3. pos[s].buyDate <= day /\ pos'[s].buyDate = pos[s].buyDate
      BY <1>3, <3>2 DEF Steady, PositionsKept, PositionKept
    <3>4. pos[s].buyDate \in Nat
      BY <3>2, PositionNumbers DEF Sound
    <3> QED
      BY <1>1, <1>2, <3>1, <3>3, <3>4
  <2> QED
    BY <2>1 DEF SignalsRipe
<1>7. orders' = <<>> /\ phase' # "buys"
  BY <1>1 DEF Steady, OrdersKept
<1>8. OrdersKept'
  BY <1>7 DEF OrdersKept
<1> QED
  BY <1>5, <1>6, <1>8 DEF Steady

\* A position whose shares, price and date stand is kept by a step of the same day that
\* does not go back to the sales.
LEMMA PositionStays ==
    ASSUME bars' = bars, day' = day, NEW s, PositionKept(s),
           pos'[s].qty = pos[s].qty, pos'[s].cost = pos[s].cost,
           pos'[s].buyDate = pos[s].buyDate,
           pos'[s].pending = pos[s].pending \/ pos[s].buyDate <= day,
           phase' \in {"delayed", "sales"} => phase \in {"delayed", "sales"}
    PROVE  PositionKept(s)'
<1>1. /\ pos[s].qty > 0 /\ pos[s].cost > 0 /\ BarsUpTo(s, day) # {} /\ Ripe(s)
      /\ pos[s].pending # NoReason => pos[s].buyDate <= day
  BY DEF PositionKept
<1>2. BarsUpTo(s, day)' # {}
  BY <1>1, SameIndex
<1>3. Ripe(s)'
  BY <1>1, SameIndex DEF Ripe
<1>4. pos'[s].pending # NoReason => pos'[s].buyDate <= day'
  BY <1>1
<1> QED
  BY <1>1, <1>2, <1>3, <1>4 DEF PositionKept

\* A sale closes a position, or leaves it with a reason that was found on a day after
\* its purchase.
LEMMA ExecuteSellSteady ==
    ASSUME Sound, Steady, ExecuteSell
    PROVE  Steady'
<1>1. PICK sig \in sales :
        /\ phase \in {"delayed", "sales"} /\ sig.symbol \in Held
        /\ sales' = sales \ {sig}
        /\ UNCHANGED <<bars, mode, day, phase, cash, orders, equity>>
        /\ \/ pos' = [pos EXCEPT ![sig.symbol] = NoPosition]
           \/ pos' = [pos EXCEPT ![sig.symbol].pending = sig.reason]
  BY SellCases
<1>2. ASSUME NEW s \in Held'
      PROVE  /\ s \in Held
             /\ pos'[s].qty = pos[s].qty /\ pos'[s].cost = pos[s].cost
             /\ pos'[s].buyDate = pos[s].buyDate
             /\ pos'[s].pending = pos[s].pending \/ s = sig.symbol
  <2>1. s \in Symbols /\ pos'[s] # NoPosition
    BY DEF Held
  <2>2. CASE s = sig.symbol
    <3>1. s \in Held /\ pos[s] \in Position
      BY <1>1, <2>2, HeldPositions DEF Sound
    <3>2. pos \in [Symbols -> Position \cup {NoPosition}]
      BY DEF Sound, TypeOK
    <3>3. pos'[s] = [pos[s] EXCEPT !.pending = sig.reason]
      BY <1>1, <2>1, <2>2, <3>2
    <3> QED
      BY <2>2, <3>1, <3>3 DEF Position
  <2>3. CASE s # sig.symbol
    <3>1. pos'[s] = pos[s]
      BY <1>1, <2>1, <2>3 DEF Sound, TypeOK
    <3> QED
      BY <2>1, <3>1 DEF Held
  <2> QED
    BY <2>2, <2>3
<1>3. ASSUME NEW g \in sales
      PROVE  pos[g.symbol].buyDate <= day
  BY <1>1 DEF Steady, SignalsRipe
<1>4. PositionsKept'
  <2>1. ASSUME NEW s \in Held'
        PROVE  PositionKept(s)'
    BY <1>1, <1>2, <1>3, PositionStays DEF Steady, PositionsKept
  <2> QED
    BY <2>1 DEF PositionsKept
<1>5. SignalsRipe'
  <2>1. ASSUME NEW g \in sales'
        PROVE  pos'[g.symbol].buyDate <= day'
    <3>1. g \in sales /\ g # sig
      BY <1>1
    <3>2. g.symbol \in Held /\ g.symbol # sig.symbol
      BY <3>1 DEF Sound, OneSignalEach
    <3>3. pos'[g.symbol] = pos[g.symbol]
      BY <1>1, <3>2 DEF Held, Sound, TypeOK
    <3> QED
      BY <1>1, <1>3, <3>1, <3>3
  <2> QED
    BY <2>1 DEF SignalsRipe
<1>6. OrdersKept'
  <2>1. orders' = <<>> /\ phase' # "buys"
    BY <1>1 DEF Steady, OrdersKept
  <2> QED
    BY <2>1 DEF OrdersKept
<1> QED
  BY <1>4, <1>5, <1>6 DEF Steady

\* The check of the positions raises signals only for stocks with a bar today, and
\* those were bought by today: no bar of theirs lies before the purchase.
LEMMA CheckPositionsSteady ==
    ASSUME Sound, Steady, CheckPositions
    PROVE  Steady'
<1>1. /\ phase = "delayed" /\ phase' = "sales" /\ day \in Dates
      /\ UNCHANGED <<bars, mode, day, cash, frozen, orders, ledger, equity>>
      /\ pos' = [s \in Symbols |->
                   IF s \in Seen THEN [pos[s] EXCEPT !.high = Highest(s, day)]
                                 ELSE pos[s]]
      /\ \A g \in sales' : g \in Signal /\ g.symbol \in Seen
  BY CheckCases
<1>2. ASSUME NEW s \in Symbols
      PROVE  /\ s \in Held => /\ pos'[s].qty = pos[s].qty /\ pos'[s].cost = pos[s].cost
                              /\ pos'[s].buyDate = pos[s].buyDate
                              /\ pos'[s].pending = pos[s].pending
             /\ s \notin Held => pos'[s] = NoPosition
  <2>1. s \in Held => pos[s] \in Position
    BY HeldPositions DEF Sound
  <2>2. CASE s \in Seen
    <3>1. s \in Held /\ pos'[s] = [pos[s] EXCEPT !.high = Highest(s, day)]
      BY <1>1, <2>2 DEF Seen
    <3> QED
      BY <2>1, <3>1 DEF Position
  <2>3. CASE s \notin Seen
    BY <1>1, <2>3 DEF Held
  <2> QED
    BY <2>2, <2>3
<1>3. PositionsKept'
  <2>1. ASSUME NEW s \in Held'
        PROVE  PositionKept(s)'
    <3>1. s \in Held /\ s \in Symbols
      BY <1>2 DEF Held
    <3> QED
      BY <1>1, <1>2, <3>1, PositionStays DEF Steady, PositionsKept
  <2> QED
    BY <2>1 DEF PositionsKept
<1>4. SignalsRipe'
  <2>1. ASSUME NEW g \in sales'
        PROVE  pos'[g.symbol].buyDate <= day'
    <3> DEFINE s == g.symbol
    <3>1. s \in Held /\ HasBar(s, day)
      BY <1>1 DEF Seen, Suspended
    <3>2. s \in Symbols /\ pos[s].buyDate \in Nat /\ day \in Nat
      BY <3>1, PositionNumbers DEF Sound
    <3>3. ~(day < pos[s].buyDate)
      BY <1>1, <3>1, <3>2 DEF Steady, PositionsKept, PositionKept, Ripe
    <3>4. pos'[s].buyDate = pos[s].buyDate
      BY <1>2, <3>1, <3>2
    <3> QED
      BY <1>1, <3>2, <3>3, <3>4
  <2> QED
    BY <2>1 DEF SignalsRipe
<1>5. OrdersKept'
  <2>1. orders' = <<>> /\ phase' # "buys"
    BY <1>1 DEF Steady, OrdersKept
  <2> QED
    BY <2>1 DEF OrdersKept
<1> QED
  BY <1>3, <1>4, <1>5 DEF Steady

\* The screen puts up what can be bought.
LEMMA ScreenSteady ==
    ASSUME Sound, Steady, Screen
    PROVE  Steady'
<1>1. /\ phase = "sales" /\ phase' = "buys" /\ day \in Dates
      /\ UNCHANGED <<bars, mode, day, cash, frozen, pos, sales, ledger, equity>>
      /\ orders' = <<>> \/ Len(orders') + Cardinality(Held) <= MaxHoldings
      /\ \A i \in 1 .. Len(orders') : /\ orders'[i].symbol \notin Held
                                      /\ BarsUpTo(orders'[i].symbol, day) # {}
      /\ \A i, j \in 1 .. Len(orders') :
           i # j => orders'[i].symbol # orders'[j].symbol
  BY ScreenCases
<1>2. Held' = Held
  BY <1>1 DEF Held
<1>3. PositionsKept'
  <2>1. ASSUME NEW s \in Held
        PROVE  PositionKept(s)'
    BY <1>1, PositionStays DEF Steady, PositionsKept
  <2> QED
    BY <1>2, <2>1 DEF PositionsKept
<1>4. SignalsRipe'
  BY <1>1 DEF SignalsRipe
<1>5. \A i \in 1 .. Len(orders') : BarsUpTo(orders[i].symbol, day)' # {}
  BY <1>1, SameIndex DEF BarsUpTo
<1>6. OrdersKept'
  BY <1>1, <1>2, <1>5 DEF OrdersKept
<1> QED
  BY <1>3, <1>4, <1>6 DEF Steady

\* The snapshot changes nothing of them.
LEMMA CloseDaySteady ==
    ASSUME Sound, Steady, CloseDay
    PROVE  Steady'
<1>1. /\ phase = "buys" /\ orders = <<>> /\ phase' = "closed"
      /\ UNCHANGED <<bars, mode, day, cash, frozen, pos, sales, orders, ledger>>
  BY DEF CloseDay, inputs, money
<1>2. Held' = Held
  BY <1>1 DEF Held
<1>3. PositionsKept'
  <2>1. ASSUME NEW s \in Held
        PROVE  PositionKept(s)'
    BY <1>1, PositionStays DEF Steady, PositionsKept
  <2> QED
    BY <1>2, <2>1 DEF PositionsKept
<1>4. SignalsRipe' /\ OrdersKept'
  BY <1>1 DEF SignalsRipe, OrdersKept
<1> QED
  BY <1>3, <1>4 DEF Steady

\* The first candidate is a stock of its own that is not held and has a bar; what is
\* behind it moves up.
LEMMA FirstCandidate ==
    ASSUME Sound, Steady, orders # <<>>, orders' = Tail(orders)
    PROVE  /\ Head(orders).symbol \notin Held
           /\ BarsUpTo(Head(orders).symbol, day) # {}
           /\ Len(orders') = Len(orders) - 1 /\ Len(orders) \in Nat \ {0}
           /\ Len(orders) + Cardinality(Held) <= MaxHoldings
           /\ \A i \in 1 .. Len(orders') : i + 1 \in 1 .. Len(orders)
           /\ \A i \in 1 .. Len(orders') : orders'[i] = orders[i + 1]
           /\ \A i \in 1 .. Len(orders') : orders'[i].symbol # Head(orders).symbol
<1>1. orders \in Seq(Order)
  BY DEF Sound, TypeOK
<1>2. Len(orders) \in Nat \ {0} /\ Head(orders) = orders[1]
  BY <1>1
<1>3. /\ Len(orders') = Len(orders) - 1
      /\ \A i \in 1 .. Len(orders') : orders'[i] = orders[i + 1]
  BY <1>1, HeadTailProperties
<1>4. /\ \A i \in 1 .. Len(orders) : /\ orders[i].symbol \notin Held
                                     /\ BarsUpTo(orders[i].symbol, day) # {}
      /\ \A i, j \in 1 .. Len(orders) : i # j => orders[i].symbol # orders[j].symbol
      /\ Len(orders) + Cardinality(Held) <= MaxHoldings
  BY DEF Steady, OrdersKept
<1>5. 1 \in 1 .. Len(orders)
  BY <1>2
<1>6. ASSUME NEW i \in 1 .. Len(orders')
      PROVE  i + 1 \in 1 .. Len(orders) /\ i + 1 # 1
  BY <1>2, <1>3
<1>7. \A i \in 1 .. Len(orders') : orders'[i].symbol # Head(orders).symbol
  BY <1>2, <1>3, <1>4, <1>5, <1>6
<1> QED
  BY <1>2, <1>3, <1>4, <1>5, <1>6, <1>7

\* What a purchase does to the positions: there is one more.
LEMMA BookedPosition ==
    ASSUME Sound, NEW s \in Symbols, s \notin Held, NEW qty \in Nat, Book(s, qty),
           NextOpen(s, day) \in Nat, NextDate(s, day) \in Dates
    PROVE  /\ Held' = Held \cup {s} /\ Cardinality(Held') = Cardinality(Held) + 1
           /\ pos'[s] = [qty |-> qty, cost |-> NextOpen(s, day),
                         buyDate |-> NextDate(s, day), buyIndex |-> DayIndex(day) + 1,
                         high |-> NextOpen(s, day), pending |-> NoReason]
           /\ \A x \in Symbols \ {s} : pos'[x] = pos[x]
<1> DEFINE p == [qty |-> qty, cost |-> NextOpen(s, day), buyDate |-> NextDate(s, day),
                 buyIndex |-> DayIndex(day) + 1, high |-> NextOpen(s, day),
                 pending |-> NoReason]
<1>1. pos' = [pos EXCEPT ![s] = p]
  BY DEF Book
<1>2. pos \in [Symbols -> Position \cup {NoPosition}]
  BY DEF Sound, TypeOK
<1>3. p \in Position
  <2>1. DayIndex(day) + 1 \in Nat
    BY DayIndexType
  <2> QED
    BY <2>1 DEF Position
<1>4. p # NoPosition
  BY <1>3, MarketAssumption
<1>5. pos'[s] = p /\ \A x \in Symbols \ {s} : pos'[x] = pos[x]
  BY <1>1, <1>2
<1> HIDE DEF p
<1>6. Held' = Held \cup {s}
  BY <1>4, <1>5 DEF Held
<1>7. Cardinality(Held \cup {s}) = Cardinality(Held) + 1
  BY HeldPositions, FS_AddElement DEF Sound
<1> QED
  BY <1>5, <1>6, <1>7 DEF p

\* A purchase makes a position of whole lots, dated by the first bar after today, and
\* takes one candidate and one place.
LEMMA ExecuteBuySteady ==
    ASSUME Sound, Steady, ExecuteBuy
    PROVE  Steady'
<1>0. PICK s : s = Head(orders).symbol
  OBVIOUS
<1>1. /\ phase = "buys" /\ day \in Dates /\ orders # <<>> /\ s \in Symbols
      /\ orders' = Tail(orders)
      /\ UNCHANGED <<bars, mode, day, phase, frozen, sales, equity>>
      /\ \/ UNCHANGED <<cash, pos, ledger>>
         \/ \E qty \in Nat :
              /\ qty > 0 /\ NextOpen(s, day) > 0 /\ BarsAfter(s, day) # {}
              /\ NextOpen(s, day) \in Nat /\ NextDate(s, day) \in Dates
              /\ Book(s, qty)
  BY <1>0, BuyCases
<1>2. /\ s \notin Held /\ BarsUpTo(s, day) # {}
      /\ Len(orders') = Len(orders) - 1 /\ Len(orders) \in Nat \ {0}
      /\ Len(orders) + Cardinality(Held) <= MaxHoldings
      /\ \A i \in 1 .. Len(orders') : i + 1 \in 1 .. Len(orders)
      /\ \A i \in 1 .. Len(orders') : orders'[i] = orders[i + 1]
      /\ \A i \in 1 .. Len(orders') : orders'[i].symbol # s
  BY <1>0, <1>1, FirstCandidate
<1>3. Cardinality(Held) \in Nat /\ MaxHoldings \in Nat /\ day \in Nat
  BY <1>1, HeldPositions, BacktestAssumption, TradeDatesAreDates DEF Sound
<1>4. \A i \in 1 .. Len(orders') : /\ orders'[i].symbol \notin Held
                                   /\ BarsUpTo(orders'[i].symbol, day) # {}
  BY <1>2 DEF Steady, OrdersKept
<1>5. \A i, j \in 1 .. Len(orders') : i # j => orders'[i].symbol # orders'[j].symbol
  <2>1. ASSUME NEW i \in 1 .. Len(orders'), NEW j \in 1 .. Len(orders'), i # j
        PROVE  orders'[i].symbol # orders'[j].symbol
    <3>1. i + 1 \in 1 .. Len(orders) /\ j + 1 \in 1 .. Len(orders) /\ i + 1 # j + 1
      BY <1>2, <2>1
    <3>2. orders[i + 1].symbol # orders[j + 1].symbol
      BY <3>1 DEF Steady, OrdersKept
    <3> QED
      BY <1>2, <3>2
  <2> QED
    BY <2>1
<1>6. \A i \in 1 .. Len(orders') : BarsUpTo(orders[i].symbol, day)' # {}
  BY <1>1, <1>4 DEF BarsUpTo
<1>7. SignalsRipe'
  BY <1>1 DEF SignalsRipe
<1>8. ASSUME NEW x \in Held, x \in Held', pos'[x] = pos[x]
      PROVE  PositionKept(x)'
  BY <1>1, <1>8, PositionStays DEF Steady, PositionsKept
<1>9. CASE UNCHANGED <<cash, pos, ledger>>
  <2>1. Held' = Held
    BY <1>9 DEF Held
  <2>2. PositionsKept'
    BY <1>8, <1>9, <2>1 DEF PositionsKept
  <2>3. OrdersKept'
    BY <1>1, <1>2, <1>3, <1>4, <1>5, <1>6, <2>1 DEF OrdersKept
  <2> QED
    BY <1>7, <2>2, <2>3 DEF Steady
<1>10. CASE ~UNCHANGED <<cash, pos, ledger>>
  <2>1. PICK qty \in Nat :
              /\ qty > 0 /\ NextOpen(s, day) > 0 /\ BarsAfter(s, day) # {}
              /\ NextOpen(s, day) \in Nat /\ NextDate(s, day) \in Dates
              /\ Book(s, qty)
    BY <1>1, <1>10
  <2>2. /\ Held' = Held \cup {s} /\ Cardinality(Held') = Cardinality(Held) + 1
        /\ pos'[s] = [qty |-> qty, cost |-> NextOpen(s, day),
                      buyDate |-> NextDate(s, day), buyIndex |-> DayIndex(day) + 1,
                      high |-> NextOpen(s, day), pending |-> NoReason]
        /\ \A x \in Symbols \ {s} : pos'[x] = pos[x]
    BY <1>1, <1>2, <2>1, BookedPosition
  <2>3. PositionKept(s)'
    <3>1. /\ pos'[s].qty = qty /\ pos'[s].cost = NextOpen(s, day)
          /\ pos'[s].buyDate = NextDate(s, day) /\ pos'[s].pending = NoReason
      BY <2>2
    <3>2. BarsUpTo(s, day)' # {}
      BY <1>1, <1>2 DEF BarsUpTo
    <3>3. ASSUME NEW e \in Dates, HasBar(s, e)', e < pos'[s].buyDate
          PROVE  e <= day
      <4>1. HasBar(s, e)
        BY <1>1, <3>3 DEF HasBar
      <4>2. e > day => NextDate(s, day) <= e
        BY <1>1, <1>3, <2>1, <4>1, NextBar DEF Sound, TypeOK
      <4>3. e \in Nat /\ NextDate(s, day) \in Nat
        BY <2>1, TradeDatesAreDates
      <4> QED
        BY <1>3, <3>1, <3>3, <4>2, <4>3
    <3>4. Ripe(s)'
      BY <1>1, <3>3 DEF Ripe
    <3> QED
      BY <2>1, <3>1, <3>2, <3>4 DEF PositionKept
  <2>4. PositionsKept'
    <3>1. ASSUME NEW x \in Held', x # s
          PROVE  PositionKept(x)'
      <4>1. x \in Held /\ x \in Symbols
        BY <2>2, <3>1 DEF Held
      <4> QED
        BY <1>8, <2>2, <3>1, <4>1
    <3> QED
      BY <2>3, <3>1 DEF PositionsKept
  <2>5. OrdersKept'
    <3>1. \A i \in 1 .. Len(orders') : orders'[i].symbol \notin Held'
      BY <1>2, <1>4, <2>2
    <3>2. Len(orders') + Cardinality(Held') <= MaxHoldings
      BY <1>2, <1>3, <2>2
    <3> QED
      BY <1>1, <1>5, <1>6, <3>1, <3>2 DEF OrdersKept
  <2> QED
    BY <1>7, <2>4, <2>5 DEF Steady
<1> QED
  BY <1>9, <1>10

\* Every step keeps them.
LEMMA StepSteady ==
    ASSUME Sound, Steady, [Next]_vars
    PROVE  Steady'
<1>1. CASE Next
  BY <1>1, OpenDaySteady, ExecuteSellSteady, CheckPositionsSteady, ScreenSteady,
     ExecuteBuySteady, CloseDaySteady DEF Next
<1>2. CASE UNCHANGED vars
  <2>1. Held' = Held
    BY <1>2 DEF vars, Held
  <2>2. PositionsKept'
    <3>1. ASSUME NEW s \in Held
          PROVE  PositionKept(s)'
      BY <1>2, PositionStays DEF vars, Steady, PositionsKept
    <3> QED
      BY <2>1, <3>1 DEF PositionsKept
  <2>3. \A i \in 1 .. Len(orders') : BarsUpTo(orders[i].symbol, day)' # {}
    BY <1>2 DEF vars, Steady, OrdersKept, BarsUpTo
  <2>4. SignalsRipe' /\ OrdersKept'
    BY <1>2, <2>1, <2>3 DEF vars, Steady, SignalsRipe, OrdersKept
  <2> QED
    BY <2>2, <2>4 DEF Steady
<1> QED
  BY <1>1, <1>2

\* On every run positions are whole and ripe, signals come after the purchase, and there
\* is a place for every candidate.
THEOREM AlwaysSteady == Spec => [](Sound /\ Steady)
<1>1. Init => Sound /\ Steady
  BY InitSound, InitSteady
<1>2. Sound /\ Steady /\ [Next]_vars => (Sound /\ Steady)'
  BY StepSound, StepSteady
<1> QED
  BY <1>1, <1>2, PTL DEF Spec
-----------------------------------------------------------------------------
(***************************************************************************)
(* The trades.  The last trade of a stock tells whether it is held: its    *)
(* purchase, with the shares and the date of the position, or its sale.    *)
(***************************************************************************)
TradesOf(s)  == {i \in DOMAIN ledger : ledger[i].symbol = s}
LastTrade(s) == ledger[Max(TradesOf(s))]

BookOf(s) ==
    IF s \in Held
    THEN /\ TradesOf(s) # {} /\ LastTrade(s).action = "BUY"
         /\ LastTrade(s).qty = pos[s].qty /\ LastTrade(s).date = pos[s].buyDate
    ELSE TradesOf(s) = {} \/ LastTrade(s).action = "SELL"

BooksKept == \A s \in Symbols : BookOf(s)

\* What may be written next of a stock.
Follows(t) ==
    IF t.action = "SELL"
    THEN /\ TradesOf(t.symbol) # {} /\ LastTrade(t.symbol).action = "BUY"
         /\ LastTrade(t.symbol).qty = t.qty /\ LastTrade(t.symbol).date < t.date
    ELSE TradesOf(t.symbol) = {} \/ LastTrade(t.symbol).action = "SELL"

\* A trade that is written is the last of its stock; the others keep theirs.
LEMMA OneMoreTrade ==
    ASSUME ledger \in Seq(Trade), NEW t \in Trade, ledger' = Append(ledger, t)
    PROVE  /\ TradesOf(t.symbol)' # {} /\ LastTrade(t.symbol)' = t
           /\ \A s \in Symbols \ {t.symbol} :
                /\ TradesOf(s)' = TradesOf(s)
                /\ TradesOf(s) # {} => LastTrade(s)' = LastTrade(s)
<1> DEFINE n == Len(ledger)
<1>1. /\ n \in Nat /\ DOMAIN ledger = 1 .. n /\ DOMAIN ledger' = 1 .. n + 1
      /\ ledger'[n + 1] = t /\ \A i \in 1 .. n : ledger'[i] = ledger[i]
  OBVIOUS
<1> HIDE DEF n
<1>2. PICK u : u = t.symbol
  OBVIOUS
<1>3. TradesOf(u)' # {} /\ LastTrade(u)' = t
  <2> DEFINE S == {i \in 1 .. n + 1 : ledger'[i].symbol = u}
  <2>1. n + 1 \in S
    BY <1>1, <1>2
  <2>2. S \in SUBSET (0 .. n + 1) /\ n + 1 \in Nat /\ S # {}
    BY <1>1, <2>1
  <2>3. Max(S) \in S /\ \A i \in S : Max(S) >= i
    <3> HIDE DEF S
    <3> QED
      BY <2>2, MaxOf
  <2>4. Max(S) = n + 1
    <3>1. Max(S) \in 1 .. n + 1
      BY <2>3
    <3>2. Max(S) >= n + 1
      BY <2>1, <2>3
    <3> HIDE DEF S
    <3> QED
      BY <1>1, <3>1, <3>2
  <2>5. TradesOf(u)' = S
    BY <1>1 DEF TradesOf
  <2> QED
    BY <1>1, <2>1, <2>4, <2>5 DEF LastTrade
<1>4. ASSUME NEW s \in Symbols \ {u}
      PROVE  /\ TradesOf(s)' = TradesOf(s)
             /\ TradesOf(s) # {} => LastTrade(s)' = LastTrade(s)
  <2>1. TradesOf(s)' = {i \in 1 .. n + 1 : ledger'[i].symbol = s}
    BY <1>1 DEF TradesOf
  <2>2. TradesOf(s) = {i \in 1 .. n : ledger[i].symbol = s}
    BY <1>1 DEF TradesOf
  <2>3. ASSUME NEW i \in 1 .. n + 1, ledger'[i].symbol = s
        PROVE  i \in 1 .. n /\ ledger[i].symbol = s
    <3>1. i # n + 1
      BY <1>1, <1>2, <2>3
    <3>2. i \in 1 .. n
      BY <1>1, <3>1
    <3> QED
      BY <1>1, <2>3, <3>2
  <2>4. \A i \in 1 .. n : i \in 1 .. n + 1 /\ ledger'[i].symbol = ledger[i].symbol
    BY <1>1
  <2>5. TradesOf(s)' = TradesOf(s)
    BY <2>1, <2>2, <2>3, <2>4
  <2>6. LastTrade(s)' = ledger'[Max(TradesOf(s))]
    BY <2>5 DEF LastTrade
  <2>7. CASE TradesOf(s) # {}
    <3>1. TradesOf(s) \in SUBSET (0 .. n)
      BY <1>1, <2>2
    <3>2. Max(TradesOf(s)) \in TradesOf(s)
      BY <1>1, <2>7, <3>1, MaxOf
    <3>3. ledger'[Max(TradesOf(s))] = ledger[Max(TradesOf(s))]
      BY <1>1, <2>2, <3>2
    <3> QED
      BY <2>5, <2>6, <3>3 DEF LastTrade
  <2> QED
    BY <2>5, <2>7
<1> QED
  BY <1>2, <1>3, <1>4

\* A trade that follows the last of its stock keeps the order of purchases and sales.
LEMMA OrderKept ==
    ASSUME ledger \in Seq(Trade), NEW t \in Trade, ledger' = Append(ledger, t),
           SoldAfterBought, Follows(t)
    PROVE  SoldAfterBought'
<1> DEFINE n == Len(ledger)
<1>1. /\ n \in Nat /\ DOMAIN ledger = 1 .. n /\ DOMAIN ledger' = 1 .. n + 1
      /\ ledger'[n + 1] = t /\ \A i \in 1 .. n : ledger'[i] = ledger[i]
  OBVIOUS
<1> HIDE DEF n
<1> DEFINE Earlier(j)    == {i \in 1 .. j - 1 : ledger[i].symbol = ledger[j].symbol}
           EarlierNow(j) == {i \in 1 .. j - 1 : ledger'[i].symbol = ledger'[j].symbol}
           Right(j, e, last) == IF ledger'[j].action = "SELL"
                             THEN /\ e # {} /\ last.action = "BUY"
                                  /\ last.qty = ledger'[j].qty
                                  /\ last.date < ledger'[j].date
                             ELSE e = {} \/ last.action = "SELL"
<1>2. ASSUME NEW j \in 1 .. n
      PROVE  Right(j, EarlierNow(j), ledger'[Max(EarlierNow(j))])
  <2>1. IF ledger[j].action = "SELL"
        THEN /\ Earlier(j) # {} /\ ledger[Max(Earlier(j))].action = "BUY"
             /\ ledger[Max(Earlier(j))].qty = ledger[j].qty
             /\ ledger[Max(Earlier(j))].date < ledger[j].date
        ELSE Earlier(j) = {} \/ ledger[Max(Earlier(j))].action = "SELL"
    BY <1>1 DEF SoldAfterBought
  <2>2. \A i \in 1 .. j - 1 : i \in 1 .. n
    BY <1>1
  <2>3. EarlierNow(j) = Earlier(j)
    BY <1>1, <2>2
  <2>4. Earlier(j) # {} => Max(Earlier(j)) \in 1 .. n
    <3>1. Earlier(j) \in SUBSET (0 .. n)
      BY <2>2
    <3>2. Earlier(j) # {} => Max(Earlier(j)) \in Earlier(j)
      <4> HIDE DEF Earlier
      <4> QED
        BY <1>1, <3>1, MaxOf
    <3> QED
      BY <2>2, <3>2
  <2>5. Earlier(j) # {} => ledger'[Max(Earlier(j))] = ledger[Max(Earlier(j))]
    BY <1>1, <2>4
  <2>6. ledger'[j] = ledger[j]
    BY <1>1
  <2> HIDE DEF Earlier, EarlierNow
  <2> QED
    BY <2>1, <2>3, <2>5, <2>6
<1>3. Right(n + 1, EarlierNow(n + 1), ledger'[Max(EarlierNow(n + 1))])
  <2>1. EarlierNow(n + 1) = TradesOf(t.symbol)
    BY <1>1 DEF TradesOf
  <2>2. TradesOf(t.symbol) # {} => ledger'[Max(TradesOf(t.symbol))] = LastTrade(t.symbol)
    <3>1. TradesOf(t.symbol) \in SUBSET (0 .. n)
      BY <1>1 DEF TradesOf
    <3>2. TradesOf(t.symbol) # {} => Max(TradesOf(t.symbol)) \in TradesOf(t.symbol)
      BY <1>1, <3>1, MaxOf
    <3>3. TradesOf(t.symbol) # {} => Max(TradesOf(t.symbol)) \in 1 .. n
      BY <1>1, <3>2 DEF TradesOf
    <3> QED
      BY <1>1, <3>3 DEF LastTrade
  <2> HIDE DEF EarlierNow
  <2> QED
    BY <1>1, <2>1, <2>2 DEF Follows
<1>4. \A j \in 1 .. n + 1 : j \in 1 .. n \/ j = n + 1
  BY <1>1
<1>5. ASSUME NEW j \in DOMAIN ledger'
      PROVE  Right(j, EarlierNow(j), ledger'[Max(EarlierNow(j))])
  <2>1. CASE j \in 1 .. n
    BY <1>2, <2>1
  <2>2. CASE j = n + 1
    BY <1>3, <2>2
  <2> QED
    BY <1>1, <1>4, <2>1, <2>2
<1> QED
  BY <1>5 DEF SoldAfterBought

\* A step that writes no trade and lets the shares and the dates of the positions stand
\* lets the books stand.
LEMMA BooksStand ==
    ASSUME ledger' = ledger, Held' = Held, BooksKept, SoldAfterBought,
           \A s \in Held : pos'[s].qty = pos[s].qty /\ pos'[s].buyDate = pos[s].buyDate
    PROVE  BooksKept' /\ SoldAfterBought'
<1>1. BooksKept'
  <2>1. ASSUME NEW s \in Symbols
        PROVE  BookOf(s)'
    <3>1. TradesOf(s)' = TradesOf(s) /\ LastTrade(s)' = LastTrade(s)
      BY DEF TradesOf, LastTrade
    <3> QED
      BY <3>1 DEF BooksKept, BookOf
  <2> QED
    BY <2>1 DEF BooksKept
<1>2. SoldAfterBought'
  BY DEF SoldAfterBought
<1> QED
  BY <1>1, <1>2

\* Steps that neither buy nor sell let the positions stand.
LEMMA HoldingsStand ==
    ASSUME Sound, OpenDay \/ CheckPositions \/ Screen \/ CloseDay
    PROVE  /\ Held' = Held /\ ledger' = ledger
           /\ \A s \in Held : /\ pos'[s].qty = pos[s].qty /\ pos'[s].cost = pos[s].cost
                              /\ pos'[s].buyDate = pos[s].buyDate
<1>1. \A s \in Held : s \in Symbols /\ pos[s] \in Position
  BY HeldPositions DEF Sound
<1>2. \A p \in Position : p # NoPosition
  BY MarketAssumption
<1>3. CASE OpenDay
  <2>1. /\ ledger' = ledger
        /\ pos' = [s \in Symbols |->
                     IF s \in Delayed THEN [pos[s] EXCEPT !.pending = NoReason] ELSE pos[s]]
    BY <1>3 DEF OpenDay
  <2>3. ASSUME NEW s \in Held
        PROVE  /\ s \in Held'
               /\ pos'[s].qty = pos[s].qty /\ pos'[s].cost = pos[s].cost
               /\ pos'[s].buyDate = pos[s].buyDate
    <3>1. CASE s \in Delayed
      <4>1. pos'[s] = [pos[s] EXCEPT !.pending = NoReason]
        BY <1>1, <2>1, <3>1
      <4>2. pos'[s] \in Position
        <5>1. NoReason \in {NoReason} \cup Reasons
          OBVIOUS
        <5> QED
          BY <1>1, <4>1, <5>1 DEF Position
      <4> QED
        BY <1>1, <1>2, <4>1, <4>2 DEF Held, Position
    <3>2. CASE s \notin Delayed
      BY <1>1, <2>1, <3>2 DEF Held
    <3> QED
      BY <3>1, <3>2
  <2>4. \A s \in Held' : s \in Held
    BY <2>1 DEF Held, Delayed
  <2> QED
    BY <2>1, <2>3, <2>4
<1>4. CASE CheckPositions
  <2>1. /\ ledger' = ledger /\ day \in Dates
        /\ pos' = [s \in Symbols |->
                     IF s \in Seen THEN [pos[s] EXCEPT !.high = Highest(s, day)]
                                   ELSE pos[s]]
    BY <1>4, CheckCases
  <2>3. ASSUME NEW s \in Held
        PROVE  /\ s \in Held'
               /\ pos'[s].qty = pos[s].qty /\ pos'[s].cost = pos[s].cost
               /\ pos'[s].buyDate = pos[s].buyDate
    <3>1. CASE s \in Seen
      <4>1. pos'[s] = [pos[s] EXCEPT !.high = Highest(s, day)]
        BY <1>1, <2>1, <3>1
      <4>2. pos'[s] \in Position
        BY <2>1, <3>1, <4>1, FollowedPosition
      <4> QED
        BY <1>1, <1>2, <4>1, <4>2 DEF Held, Position
    <3>2. CASE s \notin Seen
      BY <1>1, <2>1, <3>2 DEF Held
    <3> QED
      BY <3>1, <3>2
  <2>4. \A s \in Held' : s \in Held
    BY <2>1 DEF Held, Seen
  <2> QED
    BY <2>1, <2>3, <2>4
<1>5. CASE Screen
  BY <1>5, ScreenCases DEF Held
<1>6. CASE CloseDay
  BY <1>6 DEF CloseDay, Held
<1> QED
  BY <1>3, <1>4, <1>5, <1>6

\* A sale follows the purchase of the position, on a later date; so it closes its book.
LEMMA SaleFollows ==
    ASSUME Sound, Steady, BooksKept, SoldAfterBought, ExecuteSell
    PROVE  BooksKept' /\ SoldAfterBought'
<1>1. PICK sig \in sales :
        /\ phase \in {"delayed", "sales"} /\ day \in Dates
        /\ sig.symbol \in Held /\ sig.reason \in Reasons
        /\ sales' = sales \ {sig}
        /\ UNCHANGED <<bars, mode, day, phase, cash, orders, equity>>
        /\ \/ /\ Sellable(sig.symbol, day)
              /\ ledger' = Append(ledger,
                   [date |-> NextDate(sig.symbol, day), symbol |-> sig.symbol,
                    action |-> "SELL", price |-> NextOpen(sig.symbol, day),
                    qty |-> pos[sig.symbol].qty, reason |-> sig.reason])
              /\ pos' = [pos EXCEPT ![sig.symbol] = NoPosition]
           \/ /\ ~Sellable(sig.symbol, day)
              /\ pos' = [pos EXCEPT ![sig.symbol].pending = sig.reason]
              /\ UNCHANGED <<frozen, ledger>>
  BY SellCases
<1>2. PICK s : s = sig.symbol
  OBVIOUS
<1>3. /\ s \in Held /\ s \in Symbols /\ pos[s] \in Position /\ day \in Nat
      /\ pos[s].buyDate \in Nat /\ pos[s].qty \in Nat
      /\ pos \in [Symbols -> Position \cup {NoPosition}] /\ ledger \in Seq(Trade)
  BY <1>1, <1>2, PositionNumbers DEF Sound, TypeOK
<1>4. CASE Sellable(s, day)
  <2>0. PICK t : t = [date |-> NextDate(s, day), symbol |-> s, action |-> "SELL",
                      price |-> NextOpen(s, day), qty |-> pos[s].qty,
                      reason |-> sig.reason]
    OBVIOUS
  <2>1. ledger' = Append(ledger, t) /\ pos' = [pos EXCEPT ![s] = NoPosition]
    BY <1>1, <1>2, <1>4, <2>0
  <2>2. /\ NextDate(s, day) \in Dates /\ NextDate(s, day) > day
        /\ NextOpen(s, day) \in Nat /\ NextDate(s, day) \in Nat
    BY <1>3, <1>4, NextBar, TradeDatesAreDates DEF Sellable, Sound, TypeOK
  <2>3. t \in Trade
    BY <1>1, <1>3, <2>0, <2>2 DEF Trade
  <2>4. t.symbol = s /\ t.action = "SELL" /\ t.qty = pos[s].qty /\ t.date = NextDate(s, day)
    BY <2>0
  <2>5. pos[s].buyDate <= day
    BY <1>1, <1>2 DEF Steady, SignalsRipe
  <2>6. Follows(t)
    <3>1. /\ TradesOf(s) # {} /\ LastTrade(s).action = "BUY"
          /\ LastTrade(s).qty = pos[s].qty /\ LastTrade(s).date = pos[s].buyDate
      BY <1>3 DEF BooksKept, BookOf
    <3>2. pos[s].buyDate < NextDate(s, day)
      BY <1>3, <2>2, <2>5
    <3> QED
      BY <2>4, <3>1, <3>2 DEF Follows
  <2>7. SoldAfterBought'
    BY <1>3, <2>1, <2>3, <2>6, OrderKept
  <2>8. Held' = Held \ {s}
    BY <1>3, <2>1 DEF Held
  <2>9. ASSUME NEW x \in Symbols
        PROVE  BookOf(x)'
    <3>1. CASE x = s
      <4>1. TradesOf(t.symbol)' # {} /\ LastTrade(t.symbol)' = t
        BY <1>3, <2>1, <2>3, OneMoreTrade
      <4>2. TradesOf(s)' # {} /\ LastTrade(s)' = t
        BY <2>4, <4>1
      <4>3. x \notin Held'
        BY <2>8, <3>1
      <4> QED
        BY <2>4, <3>1, <4>2, <4>3 DEF BookOf
    <3>2. CASE x # s
      <4>1. /\ TradesOf(x)' = TradesOf(x)
            /\ TradesOf(x) # {} => LastTrade(x)' = LastTrade(x)
        BY <1>3, <2>1, <2>3, <2>4, <3>2, OneMoreTrade
      <4>2. x \in Held' <=> x \in Held
        BY <2>8, <3>2
      <4>3. pos'[x] = pos[x]
        BY <1>3, <2>1, <3>2
      <4> QED
        BY <4>1, <4>2, <4>3 DEF BooksKept, BookOf
    <3> QED
      BY <3>1, <3>2
  <2> QED
    BY <2>7, <2>9 DEF BooksKept
<1>5. CASE ~Sellable(s, day)
  <2>1. ledger' = ledger /\ pos' = [pos EXCEPT ![s].pending = sig.reason]
    BY <1>1, <1>2, <1>5
  <2>2. pos' = [pos EXCEPT ![s] = [pos[s] EXCEPT !.pending = sig.reason]]
    BY <2>1
  <2>3. [pos[s] EXCEPT !.pending = sig.reason] \in Position
    BY <1>1, <1>3 DEF Position
  <2>4. \A x \in Symbols \ {s} : pos'[x] = pos[x]
    BY <1>3, <2>2
  <2>5. pos'[s] = [pos[s] EXCEPT !.pending = sig.reason]
    BY <1>3, <2>2
  <2>6. Held' = Held
    BY <1>3, <2>3, <2>4, <2>5, MarketAssumption DEF Held
  <2>7. \A x \in Held : pos'[x].qty = pos[x].qty /\ pos'[x].buyDate = pos[x].buyDate
    BY <1>3, <2>4, <2>5 DEF Held, Position
  <2> QED
    BY <2>1, <2>6, <2>7, BooksStand
<1> QED
  BY <1>4, <1>5

\* A purchase of a stock that is not held opens its book again.
LEMMA PurchaseFollows ==
    ASSUME Sound, Steady, BooksKept, SoldAfterBought, ExecuteBuy
    PROVE  BooksKept' /\ SoldAfterBought'
<1>0. PICK s : s = Head(orders).symbol
  OBVIOUS
<1>1. /\ day \in Dates /\ orders # <<>> /\ s \in Symbols /\ orders' = Tail(orders)
      /\ \/ UNCHANGED <<cash, pos, ledger>>
         \/ \E qty \in Nat :
              /\ qty > 0 /\ NextOpen(s, day) > 0 /\ BarsAfter(s, day) # {}
              /\ NextOpen(s, day) \in Nat /\ NextDate(s, day) \in Dates
              /\ Book(s, qty)
  BY <1>0, BuyCases
<1>2. s \notin Held
  BY <1>0, <1>1, FirstCandidate
<1>3. CASE UNCHANGED <<cash, pos, ledger>>
  <2>1. Held' = Held
    BY <1>3 DEF Held
  <2> QED
    BY <1>3, <2>1, BooksStand
<1>4. CASE ~UNCHANGED <<cash, pos, ledger>>
  <2>1. PICK qty \in Nat : /\ NextOpen(s, day) \in Nat /\ NextDate(s, day) \in Dates
                           /\ Book(s, qty)
    BY <1>1, <1>4
  <2>2. PICK t : t = [date |-> NextDate(s, day), symbol |-> s, action |-> "BUY",
                      price |-> NextOpen(s, day), qty |-> qty, reason |-> NoReason]
    OBVIOUS
  <2>3. ledger' = Append(ledger, t) /\ ledger \in Seq(Trade)
    BY <2>1, <2>2 DEF Book, Sound, TypeOK
  <2>4. /\ t.symbol = s /\ t.action = "BUY" /\ t.qty = qty /\ t.date = NextDate(s, day)
    BY <2>2
  <2>5. t \in Trade
    BY <1>1, <2>1, <2>2 DEF Trade
  <2>6. /\ Held' = Held \cup {s}
        /\ pos'[s] = [qty |-> qty, cost |-> NextOpen(s, day),
                      buyDate |-> NextDate(s, day), buyIndex |-> DayIndex(day) + 1,
                      high |-> NextOpen(s, day), pending |-> NoReason]
        /\ \A x \in Symbols \ {s} : pos'[x] = pos[x]
    BY <1>1, <1>2, <2>1, BookedPosition
  <2>7. Follows(t)
    <3>1. TradesOf(s) = {} \/ LastTrade(s).action = "SELL"
      BY <1>1, <1>2 DEF BooksKept, BookOf
    <3> QED
      BY <2>4, <3>1 DEF Follows
  <2>8. SoldAfterBought'
    BY <2>3, <2>5, <2>7, OrderKept
  <2>9. ASSUME NEW x \in Symbols
        PROVE  BookOf(x)'
    <3>1. CASE x = s
      <4>1. TradesOf(t.symbol)' # {} /\ LastTrade(t.symbol)' = t
        BY <2>3, <2>5, OneMoreTrade
      <4>2. TradesOf(s)' # {} /\ LastTrade(s)' = t
        BY <2>4, <4>1
      <4>3. x \in Held' /\ pos'[s].qty = qty /\ pos'[s].buyDate = NextDate(s, day)
        BY <2>6, <3>1
      <4> QED
        BY <2>4, <3>1, <4>2, <4>3 DEF BookOf
    <3>2. CASE x # s
      <4>1. /\ TradesOf(x)' = TradesOf(x)
            /\ TradesOf(x) # {} => LastTrade(x)' = LastTrade(x)
        BY <2>3, <2>4, <2>5, <3>2, OneMoreTrade
      <4>2. (x \in Held' <=> x \in Held) /\ pos'[x] = pos[x]
        BY <2>6, <3>2
      <4> QED
        BY <4>1, <4>2 DEF BooksKept, BookOf
    <3> QED
      BY <3>1, <3>2
  <2> QED
    BY <2>8, <2>9 DEF BooksKept
<1> QED
  BY <1>3, <1>4

\* Every step keeps the books.
LEMMA StepFollows ==
    ASSUME Sound, Steady, BooksKept, SoldAfterBought, [Next]_vars
    PROVE  BooksKept' /\ SoldAfterBought'
<1>1. CASE OpenDay \/ CheckPositions \/ Screen \/ CloseDay
  BY <1>1, HoldingsStand, BooksStand
<1>2. CASE ExecuteSell
  BY <1>2, SaleFollows
<1>3. CASE ExecuteBuy
  BY <1>3, PurchaseFollows
<1>4. CASE UNCHANGED vars
  <2>1. Held' = Held /\ ledger' = ledger /\ pos' = pos
    BY <1>4 DEF vars, Held
  <2> QED
    BY <2>1, BooksStand
<1> QED
  BY <1>1, <1>2, <1>3, <1>4 DEF Next

\* The books and the order of the trades are kept together.
THEOREM AlwaysBooked == Spec => [](BooksKept /\ SoldAfterBought)
<1>1. Init => BooksKept /\ SoldAfterBought
  BY DEF Init, BooksKept, BookOf, SoldAfterBought, TradesOf, Held
<1>2. /\ Sound /\ Steady /\ BooksKept /\ SoldAfterBought /\ [Next]_vars
      => BooksKept' /\ SoldAfterBought'
  BY StepFollows
<1> QED
  BY <1>1, <1>2, AlwaysSteady, PTL DEF Spec

\* A sale closes the purchase before it, with all its shares and on a later date (A-share
\* T+1), also when the purchase was dated ahead; nothing is bought again before it is
\* sold (_execute_sells and _execute_buys on the records they append).
THEOREM SalesFollowPurchases == Spec => []SoldAfterBought
BY AlwaysBooked, PTL
-----------------------------------------------------------------------------
(***************************************************************************)
(* The stop loss.  Between the check and the end of the sales every loss   *)
(* at the stop has a signal, or was already left waiting for a buyer;      *)
(* after them only the second is possible.                                 *)
(***************************************************************************)
LossAt(s)  == /\ HasBar(s, day) /\ pos[s].buyDate <= day
              /\ StopReached(s, bars[s][day].close)
Waiting(s) == pos[s].pending # NoReason /\ ~Sellable(s, day)

StopWatched ==
    /\ phase = "sales" => \A s \in Held : LossAt(s) =>
                             Waiting(s) \/ \E g \in sales : g.symbol = s
    /\ phase \in {"buys", "closed"} => \A s \in Held : LossAt(s) => Waiting(s)

\* Whether a stock can be sold depends on its bars and the day only.
LEMMA SameSellable ==
    ASSUME bars' = bars, day' = day, NEW s
    PROVE  Sellable(s, day)' = Sellable(s, day)
<1>1. BarsAfter(s, day)' = BarsAfter(s, day) /\ NextOpen(s, day)' = NextOpen(s, day)
  BY DEF BarsAfter, NextOpen, NextDate
<1>2. LastBar(s, day)' = LastBar(s, day)
  BY DEF LastBar, BarsUpTo
<1> QED
  BY <1>1, <1>2 DEF Sellable

\* A position that stands has the loss it had.
LEMMA SameLoss ==
    ASSUME bars' = bars, day' = day, NEW s,
           pos'[s].cost = pos[s].cost, pos'[s].buyDate = pos[s].buyDate
    PROVE  LossAt(s)' = LossAt(s)
BY DEF LossAt, HasBar, StopReached

\* A sale takes the signal off: the position is gone, or waits.
LEMMA ExecuteSellWatched ==
    ASSUME Sound, StopWatched, ExecuteSell
    PROVE  StopWatched'
<1>1. PICK sig \in sales :
        /\ phase \in {"delayed", "sales"} /\ day \in Dates
        /\ sig.symbol \in Held /\ sig.reason \in Reasons
        /\ sales' = sales \ {sig}
        /\ UNCHANGED <<bars, mode, day, phase, cash, orders, equity>>
        /\ \/ pos' = [pos EXCEPT ![sig.symbol] = NoPosition]
           \/ /\ ~Sellable(sig.symbol, day)
              /\ pos' = [pos EXCEPT ![sig.symbol].pending = sig.reason]
  BY SellCases
<1>2. ASSUME phase = "sales", NEW s \in Held', LossAt(s)'
      PROVE  Waiting(s)' \/ \E g \in sales' : g.symbol = s
  <2>1. s \in Symbols /\ pos'[s] # NoPosition
    BY DEF Held
  <2>2. pos \in [Symbols -> Position \cup {NoPosition}]
    BY DEF Sound, TypeOK
  <2>3. CASE s = sig.symbol
    <3>1. ~Sellable(s, day) /\ pos' = [pos EXCEPT ![s].pending = sig.reason]
      BY <1>1, <2>1, <2>2, <2>3
    <3>2. s \in Held /\ pos[s] \in Position
      BY <1>1, <2>3, HeldPositions DEF Sound
    <3>3. pos'[s] = [pos[s] EXCEPT !.pending = sig.reason]
      BY <2>1, <2>2, <3>1
    <3>4. pos'[s].pending = sig.reason
      BY <3>2, <3>3 DEF Position
    <3>5. pos'[s].pending # NoReason
      BY <1>1, <3>4 DEF Reasons, NoReason
    <3>6. ~Sellable(s, day)'
      BY <1>1, <3>1, SameSellable
    <3> QED
      BY <3>5, <3>6 DEF Waiting
  <2>4. CASE s # sig.symbol
    <3>1. pos'[s] = pos[s] /\ s \in Held
      BY <1>1, <2>1, <2>2, <2>4 DEF Held
    <3>2. LossAt(s)
      BY <1>1, <1>2, <3>1, SameLoss
    <3>3. Waiting(s) \/ \E g \in sales : g.symbol = s
      BY <1>2, <3>1, <3>2 DEF StopWatched
    <3>4. CASE Waiting(s)
      <4>1. ~Sellable(s, day)'
        BY <1>1, <3>4, SameSellable DEF Waiting
      <4> QED
        BY <3>1, <3>4, <4>1 DEF Waiting
    <3>5. CASE \E g \in sales : g.symbol = s
      BY <1>1, <2>4, <3>5
    <3> QED
      BY <3>3, <3>4, <3>5
  <2> QED
    BY <2>3, <2>4
<1> QED
  BY <1>1, <1>2 DEF StopWatched

\* The check signals every loss it sees.
LEMMA CheckPositionsWatched ==
    ASSUME Sound, CheckPositions
    PROVE  StopWatched'
<1>1. /\ phase' = "sales" /\ day \in Dates
      /\ UNCHANGED <<bars, mode, day, cash, frozen, orders, ledger, equity>>
      /\ \A s \in Seen : StopReached(s, bars[s][day].close)
                           => \E g \in sales' : g.symbol = s
  BY CheckCases
<1>2. /\ Held' = Held
      /\ \A s \in Held : pos'[s].cost = pos[s].cost /\ pos'[s].buyDate = pos[s].buyDate
  BY HoldingsStand
<1>3. ASSUME NEW s \in Held', LossAt(s)'
      PROVE  \E g \in sales' : g.symbol = s
  <2>1. s \in Held /\ LossAt(s)
    BY <1>1, <1>2, <1>3, SameLoss
  <2>2. s \in Seen /\ StopReached(s, bars[s][day].close)
    BY <2>1 DEF LossAt, Seen, Suspended
  <2> QED
    BY <1>1, <2>2
<1> QED
  BY <1>1, <1>3 DEF StopWatched

\* Steps that let the positions stand after the sales are over.
LEMMA WaitingStays ==
    ASSUME bars' = bars, day' = day, NEW s, pos'[s] = pos[s],
           LossAt(s) => Waiting(s)
    PROVE  LossAt(s)' => Waiting(s)'
BY SameLoss, SameSellable DEF Waiting

\* The purchases of the day are dated later: they are no loss of today.
LEMMA ExecuteBuyWatched ==
    ASSUME Sound, Steady, StopWatched, ExecuteBuy
    PROVE  StopWatched'
<1>0. PICK s : s = Head(orders).symbol
  OBVIOUS
<1>1. /\ phase = "buys" /\ day \in Dates /\ orders # <<>> /\ s \in Symbols
      /\ orders' = Tail(orders)
      /\ UNCHANGED <<bars, mode, day, phase, frozen, sales, equity>>
      /\ \/ UNCHANGED <<cash, pos, ledger>>
         \/ \E qty \in Nat :
              /\ qty > 0 /\ NextOpen(s, day) > 0 /\ BarsAfter(s, day) # {}
              /\ NextOpen(s, day) \in Nat /\ NextDate(s, day) \in Dates
              /\ Book(s, qty)
  BY <1>0, BuyCases
<1>2. s \notin Held
  BY <1>0, <1>1, FirstCandidate
<1>3. \A x \in Held : LossAt(x) => Waiting(x)
  BY <1>1 DEF StopWatched
<1>4. CASE UNCHANGED <<cash, pos, ledger>>
  <2>1. ASSUME NEW x \in Held'
        PROVE  LossAt(x)' => Waiting(x)'
    <3>1. x \in Held /\ pos'[x] = pos[x]
      BY <1>4 DEF Held
    <3> QED
      BY <1>1, <1>3, <3>1, WaitingStays
  <2> QED
    BY <1>1, <2>1 DEF StopWatched
<1>5. CASE ~UNCHANGED <<cash, pos, ledger>>
  <2>1. PICK qty \in Nat :
              /\ BarsAfter(s, day) # {}
              /\ NextOpen(s, day) \in Nat /\ NextDate(s, day) \in Dates
              /\ Book(s, qty)
    BY <1>1, <1>5
  <2>2. /\ Held' = Held \cup {s}
        /\ pos'[s] = [qty |-> qty, cost |-> NextOpen(s, day),
                      buyDate |-> NextDate(s, day), buyIndex |-> DayIndex(day) + 1,
                      high |-> NextOpen(s, day), pending |-> NoReason]
        /\ \A x \in Symbols \ {s} : pos'[x] = pos[x]
    BY <1>1, <1>2, <2>1, BookedPosition
  <2>3. NextDate(s, day) > day /\ day \in Nat /\ NextDate(s, day) \in Nat
    BY <1>1, <2>1, NextBar, TradeDatesAreDates DEF Sound, TypeOK
  <2>4. ~(pos'[s].buyDate <= day')
    BY <1>1, <2>2, <2>3
  <2>5. ASSUME NEW x \in Held'
        PROVE  LossAt(x)' => Waiting(x)'
    <3>1. CASE x = s
      BY <2>4, <3>1 DEF LossAt
    <3>2. CASE x # s
      <4>1. x \in Held /\ pos'[x] = pos[x]
        BY <2>2, <3>2 DEF Held
      <4> QED
        BY <1>1, <1>3, <4>1, WaitingStays
    <3> QED
      BY <3>1, <3>2
  <2> QED
    BY <1>1, <2>5 DEF StopWatched
<1> QED
  BY <1>4, <1>5

\* No trading day ends with a position whose loss has reached the stop and that could have
\* been sold at the next opening; one that could not waits for it (_check_sell_conditions,
\* then _execute_sells, in every order of its signals).
THEOREM StopsHonoured == Spec => []StopHonoured
<1>1. Init => StopWatched
  BY DEF Init, StopWatched, Held
<1>2. Sound /\ Steady /\ StopWatched /\ [Next]_vars => StopWatched'
  <2> SUFFICES ASSUME Sound, Steady, StopWatched, [Next]_vars
               PROVE  StopWatched'
    OBVIOUS
  <2>1. CASE OpenDay
    BY <2>1 DEF OpenDay, StopWatched
  <2>2. CASE ExecuteSell
    BY <2>2, ExecuteSellWatched
  <2>3. CASE CheckPositions
    BY <2>3, CheckPositionsWatched
  <2>4. CASE Screen \/ CloseDay
    <3>1. /\ phase' \in {"buys", "closed"}
          /\ (phase = "sales" /\ sales = {}) \/ phase = "buys"
          /\ UNCHANGED <<bars, day, pos>>
      <4>1. CASE Screen
        BY <4>1, ScreenCases
      <4>2. CASE CloseDay
        BY <4>2 DEF CloseDay, inputs
      <4> QED
        BY <2>4, <4>1, <4>2
    <3>2. \A s \in Held : LossAt(s) => Waiting(s)
      BY <3>1 DEF StopWatched
    <3>3. ASSUME NEW s \in Held'
          PROVE  LossAt(s)' => Waiting(s)'
      <4>1. s \in Held /\ pos'[s] = pos[s]
        BY <3>1 DEF Held
      <4> QED
        BY <3>1, <3>2, <4>1, WaitingStays
    <3> QED
      BY <3>1, <3>3 DEF StopWatched
  <2>5. CASE ExecuteBuy
    BY <2>5, ExecuteBuyWatched
  <2>6. CASE UNCHANGED vars
    <3>1. UNCHANGED <<bars, day, pos, phase, sales>> /\ Held' = Held
      BY <2>6 DEF vars, Held
    <3>2. ASSUME NEW s
          PROVE  LossAt(s)' = LossAt(s) /\ Waiting(s)' = Waiting(s)
      BY <3>1, SameLoss, SameSellable DEF Waiting
    <3> QED
      BY <3>1, <3>2 DEF StopWatched
  <2> QED
    BY <2>1, <2>2, <2>3, <2>4, <2>5, <2>6 DEF Next
<1>3. StopWatched => StopHonoured
  BY DEF StopWatched, StopHonoured, LossAt, Waiting, StopReached
<1> QED
  BY <1>1, <1>2, <1>3, AlwaysSteady, PTL DEF Spec
-----------------------------------------------------------------------------
(***************************************************************************)
(* The account.  The daily loop implements BrokerAccount: the shares of a  *)
(* stock are those of its position.                                        *)
(***************************************************************************)
SharesOf == [s \in Symbols |-> IF pos[s] = NoPosition THEN 0 ELSE pos[s].qty]

\* A sale at a price brings money when the fees are less than the amount.
LEMMA SaleBringsMoney ==
    ASSUME CommissionSellPct + SlippagePct < 100,
           NEW price \in Nat, NEW qty \in Nat, price > 0, qty > 0
    PROVE  Amount(price, qty) - SellFee(price, qty) > 0
<1> DEFINE c == CommissionSellPct + SlippagePct
           x == price * qty
<1>1. c \in Nat /\ c < 100
  BY BacktestAssumption
<1>2. x \in Nat /\ x > 0
  OBVIOUS
<1>3. Amount(price, qty) = 100 * x /\ SellFee(price, qty) = x * c
  BY DEF Amount, SellFee
<1> HIDE DEF x, c
<1>4. x * c < 100 * x
  BY <1>1, <1>2
<1>5. x * c \in Nat /\ 100 * x \in Nat
  BY <1>1, <1>2
<1> QED
  BY <1>3, <1>4, <1>5

\* A purchase at a price costs money.
LEMMA PurchaseCostsMoney ==
    ASSUME NEW price \in Nat, NEW qty \in Nat, price > 0, qty > 0
    PROVE  Amount(price, qty) > 0
BY DEF Amount

\* The stocks with shares are those held.
LEMMA SharesAreHeld ==
    ASSUME Sound, Steady
    PROVE  /\ Account!HeldOf(SharesOf) = Held
           /\ \A s \in Held : SharesOf[s] = pos[s].qty /\ SharesOf[s] > 0
           /\ \A s \in Symbols \ Held : SharesOf[s] = 0
<1>1. ASSUME NEW s \in Held
      PROVE  s \in Symbols /\ SharesOf[s] = pos[s].qty /\ SharesOf[s] > 0
  BY DEF Held, SharesOf, Steady, PositionsKept, PositionKept
<1>2. ASSUME NEW s \in Symbols \ Held
      PROVE  SharesOf[s] = 0
  BY DEF Held, SharesOf
<1>3. Account!HeldOf(SharesOf) = Held
  BY <1>1, <1>2 DEF Account!HeldOf
<1> QED
  BY <1>1, <1>2, <1>3

\* Positions with the same shares are the same account.
LEMMA SharesStand ==
    ASSUME Held' = Held, \A s \in Held : pos'[s].qty = pos[s].qty
    PROVE  SharesOf' = SharesOf
<1>1. ASSUME NEW s \in Symbols
      PROVE  (IF pos'[s] = NoPosition THEN 0 ELSE pos'[s].qty)
               = IF pos[s] = NoPosition THEN 0 ELSE pos[s].qty
  BY DEF Held
<1> QED
  BY <1>1 DEF SharesOf

\* The opening of a day settles.
LEMMA OpenDaySettles ==
    ASSUME Sound, OpenDay
    PROVE  Account!Settle
<1>1. cash' = cash + frozen /\ frozen' = 0
  BY DEF OpenDay, SettleFrozen
<1>2. SharesOf' = SharesOf
  BY HoldingsStand, SharesStand
<1> QED
  BY <1>1, <1>2 DEF Account!Settle, SharesOf

\* A sale step sells a stock, or nothing.
LEMMA SellStepSells ==
    ASSUME CommissionSellPct + SlippagePct < 100, Sound, Steady, ExecuteSell
    PROVE  \/ \E s \in Symbols : Account!SellShares(s)
           \/ UNCHANGED <<cash, frozen>> /\ SharesOf' = SharesOf
<1>1. PICK sig \in sales :
        /\ day \in Dates /\ sig.symbol \in Held /\ sig.reason \in Reasons
        /\ UNCHANGED <<bars, mode, day, phase, cash, orders, equity>>
        /\ \/ /\ Sellable(sig.symbol, day)
              /\ frozen' = frozen
                   + (Amount(NextOpen(sig.symbol, day), pos[sig.symbol].qty)
                      - SellFee(NextOpen(sig.symbol, day), pos[sig.symbol].qty))
              /\ pos' = [pos EXCEPT ![sig.symbol] = NoPosition]
           \/ /\ ~Sellable(sig.symbol, day)
              /\ pos' = [pos EXCEPT ![sig.symbol].pending = sig.reason]
              /\ UNCHANGED <<frozen, ledger>>
  BY SellCases
<1>2. PICK s : s = sig.symbol
  OBVIOUS
<1>3. /\ s \in Held /\ s \in Symbols /\ pos[s] \in Position /\ day \in Nat
      /\ pos[s].qty \in Nat /\ pos[s].qty > 0 /\ BarsUpTo(s, day) # {}
      /\ pos \in [Symbols -> Position \cup {NoPosition}]
      /\ bars \in [Symbols -> [Dates -> Bar \cup {NoBar}]]
  BY <1>1, <1>2, PositionNumbers DEF Sound, TypeOK, Steady, PositionsKept, PositionKept
<1>4. CASE Sellable(s, day)
  <2> DEFINE open == NextOpen(s, day)
  <2>1. open \in Nat /\ open > LimitDown(LastBar(s, day).close, s)
    BY <1>3, <1>4, NextBar DEF Sellable
  <2>2. LimitDown(LastBar(s, day).close, s) \in Nat
    BY <1>3, LastBarUpTo, LimitsType
  <2>3. open > 0
    BY <2>1, <2>2
  <2> HIDE DEF open
  <2>4. Amount(open, pos[s].qty) - SellFee(open, pos[s].qty) > 0
    BY <1>3, <2>1, <2>3, SaleBringsMoney
  <2>5. Amount(open, pos[s].qty) \in Nat /\ SellFee(open, pos[s].qty) \in Nat
    BY <1>3, <2>1, AmountType
  <2>6. /\ frozen' = frozen + (Amount(open, pos[s].qty) - SellFee(open, pos[s].qty))
        /\ pos' = [pos EXCEPT ![s] = NoPosition] /\ cash' = cash
    BY <1>1, <1>2, <1>4 DEF open
  <2>7. frozen < frozen'
    BY <2>4, <2>5, <2>6 DEF Sound, TypeOK
  <2>8. SharesOf' = [SharesOf EXCEPT ![s] = 0]
    BY <1>3, <2>6 DEF SharesOf
  <2>9. SharesOf[s] > 0
    BY <1>3, SharesAreHeld
  <2>10. Account!SellShares(s)
    BY <2>6, <2>7, <2>8, <2>9 DEF Account!SellShares, SharesOf
  <2> QED
    BY <1>3, <2>10
<1>5. CASE ~Sellable(s, day)
  <2>1. pos' = [pos EXCEPT ![s] = [pos[s] EXCEPT !.pending = sig.reason]]
    BY <1>1, <1>2, <1>5
  <2>2. [pos[s] EXCEPT !.pending = sig.reason] \in Position
    BY <1>1, <1>3 DEF Position
  <2>3. /\ pos'[s] = [pos[s] EXCEPT !.pending = sig.reason]
        /\ \A x \in Symbols \ {s} : pos'[x] = pos[x]
    BY <1>3, <2>1
  <2>4. Held' = Held
    BY <1>3, <2>2, <2>3, MarketAssumption DEF Held
  <2>5. \A x \in Held : pos'[x].qty = pos[x].qty
    BY <1>3, <2>3 DEF Held, Position
  <2> QED
    BY <1>1, <1>2, <1>5, <2>4, <2>5, SharesStand
<1> QED
  BY <1>4, <1>5

\* A purchase step buys a stock there is a place for, or nothing.
LEMMA BuyStepBuys ==
    ASSUME Sound, Steady, ExecuteBuy
    PROVE  \/ \E s \in Symbols : Account!BuyShares(s)
           \/ UNCHANGED <<cash, frozen>> /\ SharesOf' = SharesOf
<1>0. PICK s : s = Head(orders).symbol
  OBVIOUS
<1>1. /\ day \in Dates /\ orders # <<>> /\ s \in Symbols /\ orders' = Tail(orders)
      /\ UNCHANGED <<bars, mode, day, phase, frozen, sales, equity>>
      /\ \/ UNCHANGED <<cash, pos, ledger>>
         \/ \E qty \in Nat :
              /\ qty > 0 /\ NextOpen(s, day) > 0
              /\ NextOpen(s, day) \in Nat /\ NextDate(s, day) \in Dates
              /\ Amount(NextOpen(s, day), qty) + BuyFee(NextOpen(s, day), qty) <= cash
              /\ Book(s, qty)
  BY <1>0, BuyCases
<1>2. /\ s \notin Held /\ Len(orders) \in Nat \ {0}
      /\ Len(orders) + Cardinality(Held) <= MaxHoldings
  BY <1>0, <1>1, FirstCandidate
<1>3. CASE UNCHANGED <<cash, pos, ledger>>
  BY <1>1, <1>3 DEF SharesOf
<1>4. CASE ~UNCHANGED <<cash, pos, ledger>>
  <2>1. PICK qty \in Nat :
              /\ qty > 0 /\ NextOpen(s, day) > 0
              /\ NextOpen(s, day) \in Nat /\ NextDate(s, day) \in Dates
              /\ Amount(NextOpen(s, day), qty) + BuyFee(NextOpen(s, day), qty) <= cash
              /\ Book(s, qty)
    BY <1>1, <1>4
  <2>2. PICK open : open = NextOpen(s, day)
    OBVIOUS
  <2>3. /\ Amount(open, qty) \in Nat /\ BuyFee(open, qty) \in Nat
        /\ Amount(open, qty) > 0
    BY <2>1, <2>2, AmountType, PurchaseCostsMoney
  <2>4. cash' = cash - Amount(open, qty) - BuyFee(open, qty)
    BY <2>1, <2>2 DEF Book
  <2>5. 0 <= cash' /\ cash' < cash
    BY <2>1, <2>2, <2>3, <2>4 DEF Sound, TypeOK
  <2>6. /\ pos'[s].qty = qty /\ s \in Held'
        /\ \A x \in Symbols \ {s} : pos'[x] = pos[x]
    <3>1. /\ Held' = Held \cup {s}
          /\ pos'[s] = [qty |-> qty, cost |-> NextOpen(s, day),
                        buyDate |-> NextDate(s, day), buyIndex |-> DayIndex(day) + 1,
                        high |-> NextOpen(s, day), pending |-> NoReason]
          /\ \A x \in Symbols \ {s} : pos'[x] = pos[x]
      BY <1>1, <1>2, <2>1, BookedPosition
    <3> QED
      BY <3>1
  <2>7. SharesOf' = [x \in Symbols |->
                       IF pos'[x] = NoPosition THEN 0 ELSE pos'[x].qty]
    BY DEF SharesOf
  <2>8. SharesOf'[s] = qty /\ \A x \in Symbols \ {s} : SharesOf'[x] = SharesOf[x]
    BY <1>1, <2>6, <2>7 DEF SharesOf, Held
  <2>9. SharesOf' = [SharesOf EXCEPT ![s] = SharesOf'[s]]
    BY <2>7, <2>8 DEF SharesOf
  <2>10. SharesOf[s] = 0 /\ Account!HeldOf(SharesOf) = Held
    BY <1>1, <1>2, SharesAreHeld
  <2>11. Cardinality(Held) < MaxHoldings
    BY <1>2, HeldPositions, BacktestAssumption DEF Sound
  <2> DEFINE held == Account!HeldOf(SharesOf)
  <2>12. Account!Cardinality(held) = Cardinality(held)
    BY DEF Account!Cardinality, Cardinality
  <2>13. /\ SharesOf[s] = 0 /\ Account!Cardinality(held) < MaxHoldings
         /\ SharesOf'[s] > 0 /\ SharesOf' = [SharesOf EXCEPT ![s] = SharesOf'[s]]
         /\ 0 <= cash' /\ cash' < cash /\ UNCHANGED frozen
    BY <1>1, <2>1, <2>5, <2>8, <2>9, <2>10, <2>11, <2>12
  <2>14. Account!BuyShares(s)
    BY <2>13 DEF Account!BuyShares, SharesOf
  <2> QED
    BY <1>1, <2>14
<1> QED
  BY <1>3, <1>4

\* The daily loop implements the account: never overdrawn, only whole positions are sold,
\* at most max_holdings stocks are held, and what a sale brings is frozen until the next
\* day.  It does as long as the fees of a sale are less than the sale, as any rates of
\* BacktestConfig that make sense are: with more, a sale would take money.
THEOREM AccountImplemented ==
    ASSUME CommissionSellPct + SlippagePct < 100
    PROVE  Spec => AccountKept
<1>1. Init => Account!AccountInit
  BY DEF Init, Account!AccountInit
<1>2. Sound /\ Steady /\ [Next]_vars => [Account!AccountNext]_(Account!account)
  <2> SUFFICES ASSUME Sound, Steady, [Next]_vars
               PROVE  [Account!AccountNext]_(Account!account)
    OBVIOUS
  <2>1. CASE OpenDay
    BY <2>1, OpenDaySettles DEF Account!AccountNext
  <2>2. CASE ExecuteSell
    BY <2>2, SellStepSells DEF Account!AccountNext, Account!account, SharesOf
  <2>3. CASE CheckPositions \/ Screen \/ CloseDay
    <3>1. SharesOf' = SharesOf
      BY <2>3, HoldingsStand, SharesStand
    <3>2. UNCHANGED <<cash, frozen>>
      BY <2>3 DEF CheckPositions, Screen, CloseDay, money
    <3> QED
      BY <3>1, <3>2 DEF Account!account, SharesOf
  <2>4. CASE ExecuteBuy
    BY <2>4, BuyStepBuys DEF Account!AccountNext, Account!account, SharesOf
  <2>5. CASE UNCHANGED vars
    BY <2>5 DEF vars, Account!account
  <2> QED
    BY <2>1, <2>2, <2>3, <2>4, <2>5 DEF Next
<1> QED
  BY <1>1, <1>2, AlwaysSteady, PTL DEF Spec, AccountKept, Account!AccountSpec
-----------------------------------------------------------------------------
(***************************************************************************)
(* The money.  What the trades cost and brought, as sums over the ledger,  *)
(* accounts for the cash, the frozen money and the shares after every      *)
(* step, and for the equity of every snapshot.                             *)
(***************************************************************************)
PriceOf(t)    == Amount(t.price, t.qty) + BuyFee(t.price, t.qty)
ProceedsOf(t) == Amount(t.price, t.qty) - SellFee(t.price, t.qty)
SharesIn(S)   == SumFunction([i \in S |-> ledger[i].qty])
BoughtOf(s)   == {i \in Indices("BUY") : ledger[i].symbol = s}
SoldOf(s)     == {i \in Indices("SELL") : ledger[i].symbol = s}

\* What a trade moves is a number.
LEMMA TradeAmounts ==
    ASSUME NEW t \in Trade
    PROVE  /\ PriceOf(t) \in Int /\ ProceedsOf(t) \in Int /\ t.qty \in Int
           /\ t.qty \in Nat /\ PriceOf(t) >= 0
<1>1. t.price \in Nat /\ t.qty \in Nat
  BY DEF Trade
<1>2. /\ Amount(t.price, t.qty) \in Nat /\ BuyFee(t.price, t.qty) \in Nat
      /\ SellFee(t.price, t.qty) \in Nat
  BY <1>1, AmountType
<1> QED
  BY <1>1, <1>2 DEF PriceOf, ProceedsOf

\* The ledger with one more trade, as a function.
LEMMA AppendedLedger ==
    ASSUME ledger \in Seq(Trade), NEW t \in Trade, ledger' = Append(ledger, t),
           NEW n, n = Len(ledger) + 1
    PROVE  /\ n \in Nat /\ n \notin DOMAIN ledger /\ IsFiniteSet(DOMAIN ledger)
           /\ DOMAIN ledger' = DOMAIN ledger \cup {n}
           /\ ledger'[n] = t /\ \A i \in DOMAIN ledger : ledger'[i] = ledger[i]
           /\ \A i \in DOMAIN ledger : ledger[i] \in Trade
<1>1. Len(ledger) \in Nat /\ DOMAIN ledger = 1 .. Len(ledger)
  OBVIOUS
<1>2. /\ ledger'[Len(ledger) + 1] = t /\ DOMAIN ledger' = 1 .. Len(ledger) + 1
      /\ \A i \in 1 .. Len(ledger) : ledger'[i] = ledger[i] /\ ledger[i] \in Trade
  OBVIOUS
<1>3. 1 .. Len(ledger) + 1 = 1 .. Len(ledger) \cup {Len(ledger) + 1}
  BY <1>1
<1>4. IsFiniteSet(1 .. Len(ledger))
  BY <1>1, FS_Interval
<1> QED
  BY <1>1, <1>2, <1>3, <1>4

\* A trade that is written adds to the sums it is in and leaves the others alone.
LEMMA SumsOfLedger ==
    ASSUME ledger \in Seq(Trade), NEW t \in Trade, ledger' = Append(ledger, t),
           NEW n, n = Len(ledger) + 1, NEW S \in SUBSET DOMAIN ledger
    PROVE  /\ Spent(S) \in Int /\ Earned(S) \in Int /\ SharesIn(S) \in Int
           /\ Spent(S)' = Spent(S) /\ Earned(S)' = Earned(S)
           /\ SharesIn(S)' = SharesIn(S)
           /\ Spent(S \cup {n})' = Spent(S) + PriceOf(t)
           /\ Earned(S \cup {n})' = Earned(S) + ProceedsOf(t)
           /\ SharesIn(S \cup {n})' = SharesIn(S) + t.qty
<1>1. /\ IsFiniteSet(DOMAIN ledger) /\ n \notin DOMAIN ledger
      /\ ledger'[n] = t /\ \A i \in DOMAIN ledger : ledger'[i] = ledger[i]
      /\ \A i \in DOMAIN ledger : ledger[i] \in Trade
  BY AppendedLedger
<1>2. IsFiniteSet(S) /\ n \notin S /\ \A i \in S : ledger[i] \in Trade
  BY <1>1, FS_Subset
<1>3. Spent(S) \in Int /\ Spent(S)' = Spent(S) /\ Spent(S \cup {n})' = Spent(S) + PriceOf(t)
  <2> DEFINE f == [i \in S |-> PriceOf(ledger[i])]
             h == [i \in S |-> PriceOf(ledger'[i])]
             g == [i \in S \cup {n} |-> PriceOf(ledger'[i])]
  <2>1. f \in [S -> Int] /\ g \in [S \cup {n} -> Int] /\ h = f
    BY <1>1, <1>2, TradeAmounts
  <2>2. g[n] = PriceOf(t) /\ \A i \in S : f[i] = g[i]
    BY <1>1
  <2>3. SumFunction(g) = SumFunction(f) + g[n] /\ SumFunction(f) \in Int
    <3>1. OneMore(S, n, f, g)
      BY <1>2, <2>1, <2>2 DEF OneMore
    <3> HIDE DEF f, g, h
    <3> QED
      BY <3>1, SumFunctionOneMore
  <2>4. /\ Spent(S) = SumFunction(f) /\ Spent(S)' = SumFunction(h)
        /\ Spent(S \cup {n})' = SumFunction(g)
    BY DEF Spent, PriceOf
  <2> QED
    BY <2>1, <2>2, <2>3, <2>4
<1>4. /\ Earned(S) \in Int /\ Earned(S)' = Earned(S)
      /\ Earned(S \cup {n})' = Earned(S) + ProceedsOf(t)
  <2> DEFINE f == [i \in S |-> ProceedsOf(ledger[i])]
             h == [i \in S |-> ProceedsOf(ledger'[i])]
             g == [i \in S \cup {n} |-> ProceedsOf(ledger'[i])]
  <2>1. f \in [S -> Int] /\ g \in [S \cup {n} -> Int] /\ h = f
    BY <1>1, <1>2, TradeAmounts
  <2>2. g[n] = ProceedsOf(t) /\ \A i \in S : f[i] = g[i]
    BY <1>1
  <2>3. SumFunction(g) = SumFunction(f) + g[n] /\ SumFunction(f) \in Int
    <3>1. OneMore(S, n, f, g)
      BY <1>2, <2>1, <2>2 DEF OneMore
    <3> HIDE DEF f, g, h
    <3> QED
      BY <3>1, SumFunctionOneMore
  <2>4. /\ Earned(S) = SumFunction(f) /\ Earned(S)' = SumFunction(h)
        /\ Earned(S \cup {n})' = SumFunction(g)
    BY DEF Earned, ProceedsOf
  <2> QED
    BY <2>1, <2>2, <2>3, <2>4
<1>5. /\ SharesIn(S) \in Int /\ SharesIn(S)' = SharesIn(S)
      /\ SharesIn(S \cup {n})' = SharesIn(S) + t.qty
  <2> DEFINE f == [i \in S |-> ledger[i].qty]
             h == [i \in S |-> ledger'[i].qty]
             g == [i \in S \cup {n} |-> ledger'[i].qty]
  <2>1. f \in [S -> Int] /\ g \in [S \cup {n} -> Int] /\ h = f
    BY <1>1, <1>2, TradeAmounts
  <2>2. g[n] = t.qty /\ \A i \in S : f[i] = g[i]
    BY <1>1
  <2>3. SumFunction(g) = SumFunction(f) + g[n] /\ SumFunction(f) \in Int
    <3>1. OneMore(S, n, f, g)
      BY <1>2, <2>1, <2>2 DEF OneMore
    <3> HIDE DEF f, g, h
    <3> QED
      BY <3>1, SumFunctionOneMore
  <2>4. /\ SharesIn(S) = SumFunction(f) /\ SharesIn(S)' = SumFunction(h)
        /\ SharesIn(S \cup {n})' = SumFunction(g)
    BY DEF SharesIn
  <2> QED
    BY <2>1, <2>2, <2>3, <2>4
<1> QED
  BY <1>3, <1>4, <1>5

\* Which purchases and sales the ledger lists after one more trade.
LEMMA ListsGrow ==
    ASSUME ledger \in Seq(Trade), NEW t \in Trade, ledger' = Append(ledger, t),
           NEW n, n = Len(ledger) + 1
    PROVE  /\ Indices("BUY") \in SUBSET DOMAIN ledger
           /\ Indices("SELL") \in SUBSET DOMAIN ledger
           /\ t.action = "BUY" => /\ Indices("BUY")' = Indices("BUY") \cup {n}
                                  /\ Indices("SELL")' = Indices("SELL")
           /\ t.action = "SELL" => /\ Indices("BUY")' = Indices("BUY")
                                   /\ Indices("SELL")' = Indices("SELL") \cup {n}
<1>1. /\ DOMAIN ledger' = DOMAIN ledger \cup {n} /\ n \notin DOMAIN ledger
      /\ ledger'[n] = t /\ \A i \in DOMAIN ledger : ledger'[i] = ledger[i]
  BY AppendedLedger
<1> QED
  BY <1>1 DEF Indices

\* The same of one stock.
LEMMA ListsOfStockGrow ==
    ASSUME ledger \in Seq(Trade), NEW t \in Trade, ledger' = Append(ledger, t),
           NEW n, n = Len(ledger) + 1, NEW s
    PROVE  /\ BoughtOf(s) \in SUBSET DOMAIN ledger /\ SoldOf(s) \in SUBSET DOMAIN ledger
           /\ BoughtOf(s)' = IF t.action = "BUY" /\ t.symbol = s
                             THEN BoughtOf(s) \cup {n} ELSE BoughtOf(s)
           /\ SoldOf(s)' = IF t.action = "SELL" /\ t.symbol = s
                           THEN SoldOf(s) \cup {n} ELSE SoldOf(s)
<1>1. /\ DOMAIN ledger' = DOMAIN ledger \cup {n} /\ n \notin DOMAIN ledger
      /\ ledger'[n] = t /\ \A i \in DOMAIN ledger : ledger'[i] = ledger[i]
  BY AppendedLedger
<1> QED
  BY <1>1 DEF Indices, BoughtOf, SoldOf

\* What a trade does to what was spent and earned.
LEMMA TradeIsCounted ==
    ASSUME ledger \in Seq(Trade), NEW t \in Trade, ledger' = Append(ledger, t)
    PROVE  /\ Spent(Indices("BUY")) \in Int /\ Earned(Indices("SELL")) \in Int
           /\ t.action = "BUY" =>
                /\ Spent(Indices("BUY"))' = Spent(Indices("BUY")) + PriceOf(t)
                /\ Earned(Indices("SELL"))' = Earned(Indices("SELL"))
           /\ t.action = "SELL" =>
                /\ Spent(Indices("BUY"))' = Spent(Indices("BUY"))
                /\ Earned(Indices("SELL"))' = Earned(Indices("SELL")) + ProceedsOf(t)
<1>1. PICK n : n = Len(ledger) + 1
  OBVIOUS
<1>2. PICK B, S : B = Indices("BUY") /\ S = Indices("SELL")
  OBVIOUS
<1>3. /\ B \in SUBSET DOMAIN ledger /\ S \in SUBSET DOMAIN ledger
      /\ t.action = "BUY" => Indices("BUY")' = B \cup {n} /\ Indices("SELL")' = S
      /\ t.action = "SELL" => Indices("BUY")' = B /\ Indices("SELL")' = S \cup {n}
  BY <1>1, <1>2, ListsGrow
<1>4. /\ Spent(B) \in Int /\ Spent(B)' = Spent(B)
      /\ Spent(B \cup {n})' = Spent(B) + PriceOf(t)
  BY <1>1, <1>3, SumsOfLedger
<1>5. /\ Earned(S) \in Int /\ Earned(S)' = Earned(S)
      /\ Earned(S \cup {n})' = Earned(S) + ProceedsOf(t)
  BY <1>1, <1>3, SumsOfLedger
<1>6. ASSUME t.action = "BUY"
      PROVE  /\ Spent(Indices("BUY"))' = Spent(B \cup {n})'
             /\ Earned(Indices("SELL"))' = Earned(S)'
  BY <1>3, <1>6
<1>7. ASSUME t.action = "SELL"
      PROVE  /\ Spent(Indices("BUY"))' = Spent(B)'
             /\ Earned(Indices("SELL"))' = Earned(S \cup {n})'
  BY <1>3, <1>7
<1> QED
  BY <1>2, <1>4, <1>5, <1>6, <1>7

\* What a trade does to the shares bought and sold of a stock.
LEMMA TradeIsCountedOf ==
    ASSUME ledger \in Seq(Trade), NEW t \in Trade, ledger' = Append(ledger, t), NEW s
    PROVE  /\ SharesIn(BoughtOf(s)) \in Int /\ SharesIn(SoldOf(s)) \in Int
           /\ SharesIn(BoughtOf(s))' = SharesIn(BoughtOf(s))
                + IF t.action = "BUY" /\ t.symbol = s THEN t.qty ELSE 0
           /\ SharesIn(SoldOf(s))' = SharesIn(SoldOf(s))
                + IF t.action = "SELL" /\ t.symbol = s THEN t.qty ELSE 0
<1>1. PICK n : n = Len(ledger) + 1
  OBVIOUS
<1>2. PICK B, S : B = BoughtOf(s) /\ S = SoldOf(s)
  OBVIOUS
<1>3. /\ B \in SUBSET DOMAIN ledger /\ S \in SUBSET DOMAIN ledger
      /\ BoughtOf(s)' = IF t.action = "BUY" /\ t.symbol = s THEN B \cup {n} ELSE B
      /\ SoldOf(s)' = IF t.action = "SELL" /\ t.symbol = s THEN S \cup {n} ELSE S
  BY <1>1, <1>2, ListsOfStockGrow
<1>4. /\ SharesIn(B) \in Int /\ SharesIn(B)' = SharesIn(B)
      /\ SharesIn(B \cup {n})' = SharesIn(B) + t.qty
  BY <1>1, <1>3, SumsOfLedger
<1>5. /\ SharesIn(S) \in Int /\ SharesIn(S)' = SharesIn(S)
      /\ SharesIn(S \cup {n})' = SharesIn(S) + t.qty
  BY <1>1, <1>3, SumsOfLedger
<1>6. SharesIn(BoughtOf(s))' = IF t.action = "BUY" /\ t.symbol = s
                               THEN SharesIn(B \cup {n})' ELSE SharesIn(B)'
  BY <1>3
<1>7. SharesIn(SoldOf(s))' = IF t.action = "SELL" /\ t.symbol = s
                             THEN SharesIn(S \cup {n})' ELSE SharesIn(S)'
  BY <1>3
<1> QED
  BY <1>2, <1>4, <1>5, <1>6, <1>7


-----------------------------------------------------------------------------
\* The cash and the frozen money are the capital, less the purchases, plus the sales.
MoneyKept ==
    cash + frozen = InitialCash - Spent(Indices("BUY")) + Earned(Indices("SELL"))

\* The shares that were bought and not sold are those of the position.
SharesKept ==
    \A s \in Symbols : SharesIn(BoughtOf(s)) - SharesIn(SoldOf(s)) = SharesOf[s]

\* Every stock that was traded has a bar to be valued at.
TradedHaveBars == \A i \in DOMAIN ledger : BarsUpTo(ledger[i].symbol, day) # {}

Counted == MoneyKept /\ SharesKept /\ TradedHaveBars

\* Everything before the first trade.
LEMMA InitCounted ==
    ASSUME Init
    PROVE  Counted
<1>1. Indices("BUY") = {} /\ Indices("SELL") = {} /\ DOMAIN ledger = {}
  BY DEF Init, Indices
<1>2. ASSUME NEW f, DOMAIN f = {}
      PROVE  SumFunction(f) = 0
  <2>1. {} = DOMAIN f /\ IsFiniteSet({}) /\ \A x \in {} : f[x] \in Int
    BY <1>2, FS_EmptySet
  <2> QED
    BY <2>1, SumFunctionType
<1>3. Spent({}) = 0 /\ Earned({}) = 0 /\ SharesIn({}) = 0
  BY <1>2 DEF Spent, Earned, SharesIn
<1>4. MoneyKept
  <2>1. Spent(Indices("BUY")) = 0 /\ Earned(Indices("SELL")) = 0
    BY <1>1, <1>3
  <2>2. cash + frozen = InitialCash /\ InitialCash \in Int
    BY BacktestAssumption DEF Init
  <2> QED
    BY <2>1, <2>2 DEF MoneyKept
<1>5. SharesKept
  <2>1. \A s \in Symbols : BoughtOf(s) = {} /\ SoldOf(s) = {} /\ SharesOf[s] = 0
    BY <1>1 DEF BoughtOf, SoldOf, SharesOf, Init
  <2> QED
    BY <1>3, <2>1 DEF SharesKept
<1>6. TradedHaveBars
  BY <1>1 DEF TradedHaveBars
<1> QED
  BY <1>4, <1>5, <1>6 DEF Counted

\* A step that trades nothing counts the same.
LEMMA NoTradeCounted ==
    ASSUME Sound, Counted, ledger' = ledger, SharesOf' = SharesOf, bars' = bars,
           cash' + frozen' = cash + frozen,
           day \in Nat, day' \in Nat, day <= day'
    PROVE  Counted'
<1>1. MoneyKept'
  <2>1. /\ Spent(Indices("BUY"))' = Spent(Indices("BUY"))
        /\ Earned(Indices("SELL"))' = Earned(Indices("SELL"))
    BY DEF Spent, Earned, Indices
  <2> QED
    BY <2>1 DEF Counted, MoneyKept
<1>2. SharesKept'
  <2>1. \A s \in Symbols : /\ SharesIn(BoughtOf(s))' = SharesIn(BoughtOf(s))
                           /\ SharesIn(SoldOf(s))' = SharesIn(SoldOf(s))
    BY DEF SharesIn, BoughtOf, SoldOf, Indices
  <2> QED
    BY <2>1 DEF Counted, SharesKept
<1>3. TradedHaveBars'
  <2>1. ASSUME NEW i \in DOMAIN ledger
        PROVE  BarsUpTo(ledger[i].symbol, day)' # {}
    <3>1. PICK e \in Dates : e <= day /\ bars[ledger[i].symbol][e] # NoBar
      BY DEF Counted, TradedHaveBars, BarsUpTo
    <3>2. e <= day' /\ bars'[ledger'[i].symbol][e] # NoBar
      BY <3>1 DEF Dates
    <3> QED
      BY <3>2 DEF BarsUpTo
  <2> QED
    BY <2>1 DEF TradedHaveBars
<1> QED
  BY <1>1, <1>2, <1>3 DEF Counted

\* A trade is counted.
LEMMA TradeCounted ==
    ASSUME Sound, Counted, NEW t \in Trade, ledger' = Append(ledger, t),
           UNCHANGED <<bars, day>>, BarsUpTo(t.symbol, day) # {},
           \/ /\ t.action = "BUY" /\ cash' = cash - PriceOf(t) /\ frozen' = frozen
              /\ SharesOf'[t.symbol] = SharesOf[t.symbol] + t.qty
           \/ /\ t.action = "SELL" /\ frozen' = frozen + ProceedsOf(t) /\ cash' = cash
              /\ SharesOf'[t.symbol] = SharesOf[t.symbol] - t.qty,
           \A s \in Symbols \ {t.symbol} : SharesOf'[s] = SharesOf[s],
           \A s \in Symbols : SharesOf[s] \in Int
    PROVE  Counted'
<1>0. /\ ledger \in Seq(Trade) /\ cash \in Int /\ frozen \in Int
      /\ PriceOf(t) \in Int /\ ProceedsOf(t) \in Int /\ t.qty \in Int
      /\ InitialCash \in Int
  <2>1. ledger \in Seq(Trade) /\ cash \in Int /\ frozen \in Int
    BY DEF Sound, TypeOK
  <2>2. InitialCash \in Int
    BY BacktestAssumption
  <2>3. PriceOf(t) \in Int /\ ProceedsOf(t) \in Int /\ t.qty \in Int
    BY TradeAmounts
  <2> QED
    BY <2>1, <2>2, <2>3
<1>1. MoneyKept'
  <2>1. cash + frozen = InitialCash - Spent(Indices("BUY")) + Earned(Indices("SELL"))
    BY DEF Counted, MoneyKept
  <2>2. /\ Spent(Indices("BUY")) \in Int /\ Earned(Indices("SELL")) \in Int
        /\ t.action = "BUY" =>
             /\ Spent(Indices("BUY"))' = Spent(Indices("BUY")) + PriceOf(t)
             /\ Earned(Indices("SELL"))' = Earned(Indices("SELL"))
        /\ t.action = "SELL" =>
             /\ Spent(Indices("BUY"))' = Spent(Indices("BUY"))
             /\ Earned(Indices("SELL"))' = Earned(Indices("SELL")) + ProceedsOf(t)
    BY <1>0, TradeIsCounted
  <2>3. PICK spent, earned, more, got :
          /\ spent = Spent(Indices("BUY")) /\ earned = Earned(Indices("SELL"))
          /\ more = PriceOf(t) /\ got = ProceedsOf(t)
    OBVIOUS
  <2>4. /\ spent \in Int /\ earned \in Int /\ more \in Int /\ got \in Int
        /\ cash \in Int /\ frozen \in Int /\ InitialCash \in Int
        /\ cash + frozen = InitialCash - spent + earned
    BY <1>0, <2>1, <2>2, <2>3
  <2>5. CASE t.action = "BUY" /\ cash' = cash - PriceOf(t) /\ frozen' = frozen
    <3>1. /\ Spent(Indices("BUY"))' = spent + more /\ Earned(Indices("SELL"))' = earned
          /\ cash' = cash - more /\ frozen' = frozen
      BY <2>2, <2>3, <2>5
    <3>2. cash' + frozen' = InitialCash - (spent + more) + earned
      <4>1. cash' + frozen' = (cash + frozen) - more
        BY <2>4, <3>1
      <4>2. (InitialCash - spent + earned) - more = InitialCash - (spent + more) + earned
        BY <2>4
      <4> QED
        BY <2>4, <4>1, <4>2
    <3> QED
      BY <3>1, <3>2 DEF MoneyKept
  <2>6. CASE t.action = "SELL" /\ frozen' = frozen + ProceedsOf(t) /\ cash' = cash
    <3>1. /\ Spent(Indices("BUY"))' = spent
          /\ Earned(Indices("SELL"))' = earned + got
          /\ cash' = cash /\ frozen' = frozen + got
      BY <2>2, <2>3, <2>6
    <3>2. cash' + frozen' = InitialCash - spent + (earned + got)
      <4>1. cash' + frozen' = (cash + frozen) + got
        BY <2>4, <3>1
      <4>2. (InitialCash - spent + earned) + got = InitialCash - spent + (earned + got)
        BY <2>4
      <4> QED
        BY <2>4, <4>1, <4>2
    <3> QED
      BY <3>1, <3>2 DEF MoneyKept
  <2> QED
    BY <2>5, <2>6
<1>2. SharesKept'
  <2> SUFFICES ASSUME NEW s \in Symbols
               PROVE  SharesIn(BoughtOf(s))' - SharesIn(SoldOf(s))' = SharesOf'[s]
    BY DEF SharesKept
  <2>1. SharesIn(BoughtOf(s)) - SharesIn(SoldOf(s)) = SharesOf[s]
    BY DEF Counted, SharesKept
  <2>2. /\ SharesIn(BoughtOf(s)) \in Int /\ SharesIn(SoldOf(s)) \in Int
        /\ SharesIn(BoughtOf(s))' = SharesIn(BoughtOf(s))
             + IF t.action = "BUY" /\ t.symbol = s THEN t.qty ELSE 0
        /\ SharesIn(SoldOf(s))' = SharesIn(SoldOf(s))
             + IF t.action = "SELL" /\ t.symbol = s THEN t.qty ELSE 0
    BY <1>0, TradeIsCountedOf
  <2>3. CASE t.symbol = s
    BY <1>0, <2>1, <2>2, <2>3
  <2>4. CASE t.symbol # s
    BY <1>0, <2>1, <2>2, <2>4
  <2> QED
    BY <2>3, <2>4
<1>3. TradedHaveBars'
  <2>1. PICK n : n = Len(ledger) + 1
    OBVIOUS
  <2>2. /\ DOMAIN ledger' = DOMAIN ledger \cup {n}
        /\ ledger'[n] = t /\ \A i \in DOMAIN ledger : ledger'[i] = ledger[i]
    BY <1>0, <2>1, AppendedLedger
  <2>3. \A s : BarsUpTo(s, day)' = BarsUpTo(s, day)
    BY DEF BarsUpTo
  <2> QED
    BY <2>2, <2>3 DEF Counted, TradedHaveBars
<1> QED
  BY <1>1, <1>2, <1>3 DEF Counted

\* Shares are numbers.
LEMMA SharesTyped ==
    ASSUME TypeOK, NEW s \in Symbols
    PROVE  SharesOf[s] \in Nat
BY DEF SharesOf, TypeOK, Position

\* A sale that is put off moves no shares.
LEMMA PostponedShares ==
    ASSUME Sound, NEW s \in Held, NEW reason \in Reasons,
           pos' = [pos EXCEPT ![s].pending = reason]
    PROVE  SharesOf' = SharesOf
<1>1. /\ s \in Symbols /\ pos[s] \in Position
      /\ pos \in [Symbols -> Position \cup {NoPosition}]
  BY HeldPositions DEF Sound, TypeOK
<1>2. PICK p : p = [pos[s] EXCEPT !.pending = reason]
  OBVIOUS
<1>3. p \in Position /\ p.qty = pos[s].qty
  BY <1>1, <1>2 DEF Position
<1>4. pos'[s] = p /\ \A x \in Symbols \ {s} : pos'[x] = pos[x]
  BY <1>1, <1>2
<1>5. Held' = Held
  BY <1>1, <1>3, <1>4, MarketAssumption DEF Held
<1>6. \A x \in Held : pos'[x].qty = pos[x].qty
  BY <1>3, <1>4 DEF Held
<1> QED
  BY <1>5, <1>6, SharesStand

\* A sale step is counted.
LEMMA ExecuteSellCounted ==
    ASSUME Sound, Steady, Counted, ExecuteSell
    PROVE  Counted'
<1>1. PICK sig \in sales :
        /\ day \in Dates /\ sig.symbol \in Held /\ sig.reason \in Reasons
        /\ UNCHANGED <<bars, mode, day, phase, cash, orders, equity>>
        /\ \/ /\ Sellable(sig.symbol, day)
              /\ frozen' = frozen
                   + (Amount(NextOpen(sig.symbol, day), pos[sig.symbol].qty)
                      - SellFee(NextOpen(sig.symbol, day), pos[sig.symbol].qty))
              /\ ledger' = Append(ledger,
                   [date |-> NextDate(sig.symbol, day), symbol |-> sig.symbol,
                    action |-> "SELL", price |-> NextOpen(sig.symbol, day),
                    qty |-> pos[sig.symbol].qty, reason |-> sig.reason])
              /\ pos' = [pos EXCEPT ![sig.symbol] = NoPosition]
           \/ /\ ~Sellable(sig.symbol, day)
              /\ pos' = [pos EXCEPT ![sig.symbol].pending = sig.reason]
              /\ UNCHANGED <<frozen, ledger>>
  BY SellCases
<1>2. PICK s : s = sig.symbol
  OBVIOUS
<1>3. /\ s \in Held /\ s \in Symbols /\ pos[s] \in Position /\ day \in Nat
      /\ pos[s].qty \in Nat /\ BarsUpTo(s, day) # {}
      /\ pos \in [Symbols -> Position \cup {NoPosition}]
      /\ bars \in [Symbols -> [Dates -> Bar \cup {NoBar}]]
  BY <1>1, <1>2, PositionNumbers DEF Sound, TypeOK, Steady, PositionsKept, PositionKept
<1>4. CASE Sellable(s, day)
  <2>1. PICK t : t = [date |-> NextDate(s, day), symbol |-> s,
                      action |-> "SELL", price |-> NextOpen(s, day),
                      qty |-> pos[s].qty, reason |-> sig.reason]
    OBVIOUS
  <2>2. NextOpen(s, day) \in Nat /\ NextDate(s, day) \in Dates
    BY <1>3, <1>4, NextBar DEF Sellable
  <2>3. t \in Trade
    BY <1>1, <1>3, <2>1, <2>2 DEF Trade
  <2>4. /\ t.symbol = s /\ t.action = "SELL" /\ t.qty = pos[s].qty
        /\ t.price = NextOpen(s, day)
    BY <2>1
  <2>5. ledger' = Append(ledger, t) /\ frozen' = frozen + ProceedsOf(t) /\ cash' = cash
    BY <1>1, <1>2, <1>4, <2>1, <2>4 DEF ProceedsOf
  <2>6. pos' = [pos EXCEPT ![s] = NoPosition]
    BY <1>1, <1>2, <1>4
  <2>7. SharesOf' = [SharesOf EXCEPT ![s] = 0] /\ SharesOf[s] = pos[s].qty
    BY <1>3, <2>6 DEF SharesOf, Held
  <2>8. \A x \in Symbols : SharesOf[x] \in Int
    BY <1>3, SharesTyped DEF Sound
  <2>9. /\ SharesOf'[s] = SharesOf[s] - t.qty
        /\ \A x \in Symbols \ {s} : SharesOf'[x] = SharesOf[x]
    <3>1. SharesOf'[s] = 0 /\ \A x \in Symbols \ {s} : SharesOf'[x] = SharesOf[x]
      BY <1>3, <2>7 DEF SharesOf
    <3> QED
      BY <1>3, <2>4, <2>7, <3>1
  <2>10. UNCHANGED <<bars, day>>
    BY <1>1
  <2> QED
    BY <1>3, <2>3, <2>4, <2>5, <2>8, <2>9, <2>10, TradeCounted
<1>5. CASE ~Sellable(s, day)
  <2>1. SharesOf' = SharesOf
    BY <1>1, <1>2, <1>3, <1>5, PostponedShares
  <2> QED
    BY <1>1, <1>2, <1>3, <1>5, <2>1, NoTradeCounted
<1> QED
  BY <1>4, <1>5

\* A purchase step is counted.
LEMMA ExecuteBuyCounted ==
    ASSUME Sound, Steady, Counted, ExecuteBuy
    PROVE  Counted'
<1>0. PICK s : s = Head(orders).symbol
  OBVIOUS
<1>1. /\ day \in Dates /\ orders # <<>> /\ s \in Symbols /\ orders' = Tail(orders)
      /\ UNCHANGED <<bars, mode, day, phase, frozen, sales, equity>>
      /\ \/ UNCHANGED <<cash, pos, ledger>>
         \/ \E qty \in Nat :
              /\ NextOpen(s, day) \in Nat /\ NextDate(s, day) \in Dates
              /\ Book(s, qty)
  BY <1>0, BuyCases
<1>2. /\ s \notin Held /\ BarsUpTo(s, day) # {}
  BY <1>0, <1>1, FirstCandidate
<1>3. CASE UNCHANGED <<cash, pos, ledger>>
  <2>1. SharesOf' = SharesOf
    BY <1>3 DEF SharesOf
  <2>2. day \in Nat
    BY <1>1, TradeDatesAreDates
  <2> QED
    BY <1>1, <1>3, <2>1, <2>2, NoTradeCounted
<1>4. CASE ~UNCHANGED <<cash, pos, ledger>>
  <2>1. PICK qty \in Nat :
              /\ NextOpen(s, day) \in Nat /\ NextDate(s, day) \in Dates
              /\ Book(s, qty)
    BY <1>1, <1>4
  <2>2. PICK t : t = [date |-> NextDate(s, day), symbol |-> s, action |-> "BUY",
                      price |-> NextOpen(s, day), qty |-> qty, reason |-> NoReason]
    OBVIOUS
  <2>3. t \in Trade
    BY <1>1, <2>1, <2>2 DEF Trade
  <2>4. /\ t.symbol = s /\ t.action = "BUY" /\ t.qty = qty
        /\ t.price = NextOpen(s, day)
    BY <2>2
  <2>5. ledger' = Append(ledger, t)
    BY <2>1, <2>2 DEF Book
  <2>6. cash' = cash - PriceOf(t)
    <3>1. /\ cash' = cash - Amount(NextOpen(s, day), qty) - BuyFee(NextOpen(s, day), qty)
          /\ Amount(NextOpen(s, day), qty) \in Nat /\ BuyFee(NextOpen(s, day), qty) \in Nat
      BY <2>1, AmountType DEF Book
    <3>2. PriceOf(t) = Amount(NextOpen(s, day), qty) + BuyFee(NextOpen(s, day), qty)
      BY <2>4 DEF PriceOf
    <3>3. cash \in Int
      BY DEF Sound, TypeOK
    <3> QED
      BY <3>1, <3>2, <3>3
  <2>7. /\ pos'[s].qty = qty /\ s \in Held'
        /\ \A x \in Symbols \ {s} : pos'[x] = pos[x]
    <3>1. /\ Held' = Held \cup {s}
          /\ pos'[s] = [qty |-> qty, cost |-> NextOpen(s, day),
                        buyDate |-> NextDate(s, day), buyIndex |-> DayIndex(day) + 1,
                        high |-> NextOpen(s, day), pending |-> NoReason]
          /\ \A x \in Symbols \ {s} : pos'[x] = pos[x]
      BY <1>1, <1>2, <2>1, BookedPosition
    <3> QED
      BY <3>1
  <2>8. /\ SharesOf'[s] = qty /\ SharesOf[s] = 0
        /\ \A x \in Symbols \ {s} : SharesOf'[x] = SharesOf[x]
    BY <1>1, <1>2, <2>7 DEF SharesOf, Held
  <2>9. \A x \in Symbols : SharesOf[x] \in Int
    BY SharesTyped DEF Sound
  <2>10. SharesOf'[s] = SharesOf[s] + t.qty
    BY <2>1, <2>4, <2>8
  <2>11. UNCHANGED <<bars, day, frozen>>
    BY <1>1
  <2> QED
    BY <1>2, <2>3, <2>4, <2>5, <2>6, <2>8, <2>9, <2>10, <2>11, TradeCounted
<1> QED
  BY <1>3, <1>4

\* The other steps trade nothing.
LEMMA QuietStepCounted ==
    ASSUME Sound, Counted, OpenDay \/ CheckPositions \/ Screen \/ CloseDay
    PROVE  Counted'
<1>1. ledger' = ledger /\ SharesOf' = SharesOf
  BY HoldingsStand, SharesStand
<1>2. bars' = bars
  BY DEF OpenDay, CheckPositions, Screen, CloseDay, inputs
<1>3. cash' + frozen' = cash + frozen
  <2>1. CASE OpenDay
    BY <2>1 DEF OpenDay, SettleFrozen, Sound, TypeOK
  <2>2. CASE CheckPositions \/ Screen \/ CloseDay
    BY <2>2 DEF CheckPositions, Screen, CloseDay, money
  <2> QED
    BY <2>1, <2>2
<1>4. day \in Nat /\ day' \in Nat /\ day <= day'
  <2>1. day \in Nat
    BY BacktestAssumption DEF Sound, TypeOK
  <2>2. CASE OpenDay
    <3>1. PICK d \in TradeDates : d > day /\ day' = d
      BY <2>2 DEF OpenDay
    <3> QED
      BY <2>1, <3>1, TradeDatesAreDates
  <2>3. CASE CheckPositions \/ Screen \/ CloseDay
    BY <2>1, <2>3 DEF CheckPositions, Screen, CloseDay
  <2> QED
    BY <2>1, <2>2, <2>3
<1> QED
  BY <1>1, <1>2, <1>3, <1>4, NoTradeCounted

\* Every step counts.
LEMMA StepCounted ==
    ASSUME Sound, Steady, Counted, [Next]_vars
    PROVE  Counted'
<1>1. CASE OpenDay \/ CheckPositions \/ Screen \/ CloseDay
  BY <1>1, QuietStepCounted
<1>2. CASE ExecuteSell
  BY <1>2, ExecuteSellCounted
<1>3. CASE ExecuteBuy
  BY <1>3, ExecuteBuyCounted
<1>4. CASE UNCHANGED vars
  <2>1. SharesOf' = SharesOf
    BY <1>4 DEF vars, SharesOf
  <2>2. day \in Nat
    BY BacktestAssumption DEF Sound, TypeOK
  <2> QED
    BY <1>4, <2>1, <2>2, NoTradeCounted DEF vars
<1> QED
  BY <1>1, <1>2, <1>3, <1>4 DEF Next

\* The stocks of the ledger, and what is left of one at its last close.
Traded  == {s \in Symbols : \E i \in DOMAIN ledger : ledger[i].symbol = s}
Left(s) == Amount(LastBar(s, day).close, QtyIn(s, "BUY") - QtyIn(s, "SELL"))

\* What is held was traded and is valued as the ledger says; of the rest nothing is left.
LEMMA LeftOfTraded ==
    ASSUME Sound, Steady, BooksKept, Counted
    PROVE  /\ Held \in SUBSET Traded
           /\ \A s \in Held : Left(s) = Amount(Mark(s, day), pos[s].qty) /\ Left(s) \in Int
           /\ \A s \in Traded \ Held : Left(s) = 0
<1>0. day \in Nat /\ bars \in [Symbols -> [Dates -> Bar \cup {NoBar}]]
  BY BacktestAssumption DEF Sound, TypeOK
<1>1. ASSUME NEW s \in Held
      PROVE  s \in Traded
  <2>1. s \in Symbols /\ TradesOf(s) # {}
    BY DEF BooksKept, BookOf, Held
  <2> QED
    BY <2>1 DEF TradesOf, Traded
<1>2. ASSUME NEW s \in Symbols
      PROVE  QtyIn(s, "BUY") - QtyIn(s, "SELL") = SharesOf[s]
  <2>1. /\ QtyIn(s, "BUY") = SharesIn(BoughtOf(s))
        /\ QtyIn(s, "SELL") = SharesIn(SoldOf(s))
    BY DEF QtyIn, SharesIn, BoughtOf, SoldOf
  <2> QED
    BY <2>1 DEF Counted, SharesKept
<1>3. ASSUME NEW s \in Symbols, BarsUpTo(s, day) # {}
      PROVE  LastBar(s, day).close \in Nat
  BY <1>0, <1>3, LastBarUpTo
<1>4. ASSUME NEW s \in Held
      PROVE  Left(s) = Amount(Mark(s, day), pos[s].qty) /\ Left(s) \in Int
  <2>1. /\ s \in Symbols /\ BarsUpTo(s, day) # {} /\ SharesOf[s] = pos[s].qty
        /\ pos[s].qty \in Nat
    BY SharesAreHeld, PositionNumbers DEF Sound, Steady, PositionsKept, PositionKept
  <2>2. Mark(s, day) = LastBar(s, day).close
    BY <2>1 DEF Mark
  <2>3. Left(s) = Amount(LastBar(s, day).close, pos[s].qty)
    BY <1>2, <2>1 DEF Left
  <2>4. LastBar(s, day).close \in Nat
    BY <1>3, <2>1
  <2>5. Amount(LastBar(s, day).close, pos[s].qty) \in Nat
    BY <2>1, <2>4, AmountType
  <2> QED
    BY <2>2, <2>3, <2>5
<1>5. ASSUME NEW s \in Traded \ Held
      PROVE  Left(s) = 0
  <2>1. s \in Symbols /\ BarsUpTo(s, day) # {}
    BY DEF Traded, Counted, TradedHaveBars
  <2>2. SharesOf[s] = 0
    BY <2>1, SharesAreHeld
  <2>3. LastBar(s, day).close \in Nat
    BY <1>3, <2>1
  <2>4. Left(s) = Amount(LastBar(s, day).close, 0)
    BY <1>2, <2>1, <2>2 DEF Left
  <2> QED
    BY <2>3, <2>4 DEF Amount
<1> QED
  BY <1>1, <1>4, <1>5

\* What is left of all stocks is what the positions are worth.
LEMMA LeftIsHeld ==
    ASSUME Sound, Steady, BooksKept, Counted
    PROVE  SumFunction([s \in Held |-> Amount(Mark(s, day), pos[s].qty)])
             = SumFunction([s \in Traded |-> Left(s)])
<1> DEFINE f == [s \in Held |-> Amount(Mark(s, day), pos[s].qty)]
           g == [s \in Traded |-> Left(s)]
<1>1. /\ Held \in SUBSET Traded
      /\ \A s \in Held : Left(s) = Amount(Mark(s, day), pos[s].qty) /\ Left(s) \in Int
      /\ \A s \in Traded \ Held : Left(s) = 0
  BY LeftOfTraded
<1>2. f \in [Held -> Int] /\ g \in [Traded -> Int]
  BY <1>1
<1>3. (\A s \in Held : f[s] = g[s]) /\ (\A s \in Traded \ Held : g[s] = 0)
  BY <1>1
<1>4. IsFiniteSet(Traded)
  <2>1. Traded \in SUBSET Symbols
    BY DEF Traded
  <2> QED
    BY <2>1, FS_Subset, BacktestAssumption
<1>5. PICK S, T : S = Held /\ T = Traded
  OBVIOUS
<1> HIDE DEF f, g
<1>6. /\ IsFiniteSet(T) /\ S \in SUBSET T /\ f \in [S -> Int] /\ g \in [T -> Int]
      /\ \A s \in S : f[s] = g[s]
      /\ \A s \in T \ S : g[s] = 0
  BY <1>1, <1>2, <1>3, <1>4, <1>5
<1>7. SumFunction(f) = SumFunction(g)
  BY <1>6, SumFunctionGrows
<1> QED
  BY <1>7 DEF f, g

\* A snapshot agrees with the ledger.
LEMMA CloseDayMatches ==
    ASSUME Sound, Steady, BooksKept, Counted, CloseDay
    PROVE  EquityMatchesLedger'
<1>1. equity' = cash + frozen
                + SumFunction([s \in Held |-> Amount(Mark(s, day), pos[s].qty)])
  BY DEF CloseDay
<1>2. equity' = cash + frozen + SumFunction([s \in Traded |-> Left(s)])
  BY <1>1, LeftIsHeld
<1>3. equity' = InitialCash - Spent(Indices("BUY")) + Earned(Indices("SELL"))
                  + SumFunction([s \in Traded |-> Left(s)])
  BY <1>2 DEF Counted, MoneyKept
<1>4. UNCHANGED <<bars, day, ledger>>
  BY DEF CloseDay, inputs
<1>5. /\ Spent(Indices("BUY"))' = Spent(Indices("BUY"))
      /\ Earned(Indices("SELL"))' = Earned(Indices("SELL"))
  BY <1>4 DEF Spent, Earned, Indices
<1>6. SumFunction([s \in Traded |-> Left(s)])' = SumFunction([s \in Traded |-> Left(s)])
  BY <1>4 DEF Traded, Left, LastBar, BarsUpTo, QtyIn, Indices
<1>7. equity' = InitialCash - Spent(Indices("BUY"))' + Earned(Indices("SELL"))'
                  + SumFunction([s \in Traded |-> Left(s)])'
  BY <1>3, <1>5, <1>6
<1> QED
  BY <1>7 DEF EquityMatchesLedger, Traded, Left

\* Every step keeps the equity of the snapshot in agreement with the ledger.
LEMMA StepMatches ==
    ASSUME Sound, Steady, BooksKept, Counted, EquityMatchesLedger, [Next]_vars
    PROVE  EquityMatchesLedger'
<1>1. CASE OpenDay
  BY <1>1 DEF OpenDay, EquityMatchesLedger
<1>2. CASE ExecuteSell
  BY <1>2 DEF ExecuteSell, EquityMatchesLedger
<1>3. CASE CheckPositions
  BY <1>3 DEF CheckPositions, EquityMatchesLedger
<1>4. CASE Screen
  BY <1>4 DEF Screen, EquityMatchesLedger
<1>5. CASE ExecuteBuy
  BY <1>5 DEF ExecuteBuy, EquityMatchesLedger
<1>6. CASE CloseDay
  BY <1>6, CloseDayMatches
<1>7. CASE UNCHANGED vars
  <2>1. UNCHANGED <<bars, day, ledger, phase, equity>>
    BY <1>7 DEF vars
  <2>2. /\ Spent(Indices("BUY"))' = Spent(Indices("BUY"))
        /\ Earned(Indices("SELL"))' = Earned(Indices("SELL"))
    BY <2>1 DEF Spent, Earned, Indices
  <2>3. SumFunction([s \in Traded |-> Left(s)])' = SumFunction([s \in Traded |-> Left(s)])
    BY <2>1 DEF Traded, Left, LastBar, BarsUpTo, QtyIn, Indices
  <2>4. phase' = "closed" =>
           equity' = InitialCash - Spent(Indices("BUY"))' + Earned(Indices("SELL"))'
                       + SumFunction([s \in Traded |-> Left(s)])'
    BY <2>1, <2>2, <2>3 DEF EquityMatchesLedger, Traded, Left
  <2> QED
    BY <2>4 DEF EquityMatchesLedger, Traded, Left
<1> QED
  BY <1>1, <1>2, <1>3, <1>4, <1>5, <1>6, <1>7 DEF Next

\* Before the first trade the equity is the capital.
LEMMA InitMatches ==
    ASSUME Init
    PROVE  EquityMatchesLedger
<1>1. Indices("BUY") = {} /\ Indices("SELL") = {} /\ Traded = {}
  BY DEF Init, Indices, Traded
<1>2. ASSUME NEW f, DOMAIN f = {}
      PROVE  SumFunction(f) = 0
  <2>1. {} = DOMAIN f /\ IsFiniteSet({}) /\ \A x \in {} : f[x] \in Int
    BY <1>2, FS_EmptySet
  <2> QED
    BY <2>1, SumFunctionType
<1>3. Spent({}) = 0 /\ Earned({}) = 0
  BY <1>2 DEF Spent, Earned
<1>4. SumFunction([s \in Traded |-> Left(s)]) = 0
  <2>1. DOMAIN [s \in Traded |-> Left(s)] = {}
    BY <1>1
  <2> QED
    BY <1>2, <2>1
<1>5. equity = InitialCash /\ InitialCash \in Int
  BY BacktestAssumption DEF Init
<1>6. equity = InitialCash - Spent(Indices("BUY")) + Earned(Indices("SELL"))
                 + SumFunction([s \in Traded |-> Left(s)])
  <2>1. Spent(Indices("BUY")) = 0 /\ Earned(Indices("SELL")) = 0
    BY <1>1, <1>3
  <2>2. PICK left : left = SumFunction([s \in Traded |-> Left(s)])
    OBVIOUS
  <2>3. left = 0
    BY <1>4, <2>2
  <2> QED
    BY <1>5, <2>1, <2>2, <2>3
<1> QED
  BY <1>6 DEF EquityMatchesLedger, Traded, Left

\* Whoever replays the trade records arrives at the equity of the snapshot.
THEOREM EquityIsReplayed == Spec => []EquityMatchesLedger
<1>1. Init => Counted /\ EquityMatchesLedger
  BY InitCounted, InitMatches
<1>2. /\ Sound /\ Steady /\ BooksKept /\ SoldAfterBought
      /\ Counted /\ EquityMatchesLedger /\ [Next]_vars
      => Counted' /\ EquityMatchesLedger'
  BY StepCounted, StepMatches
<1> QED
  BY <1>1, <1>2, AlwaysSteady, AlwaysBooked, PTL DEF Spec

-----------------------------------------------------------------------------
(***************************************************************************)
(* The dates.  While no stock is suspended a trade is dated by the next    *)
(* day, and the cash is what the purchases left of the capital and of the  *)
(* sales dated by today.                                                   *)
(***************************************************************************)
Full         == \A s \in Symbols, d \in Dates : HasBar(s, d)
PaidBy(d)    == {i \in Indices("BUY") : ledger[i].date <= d}
GotBefore(d) == {i \in Indices("SELL") : ledger[i].date < d}

Dated     == \A i \in DOMAIN ledger : ledger[i].date <= day + 1
CashDated == cash = InitialCash - Spent(Indices("BUY")) + Earned(GotBefore(day + 1))
FundsKept == Full => Dated /\ CashDated

\* The purchases and the sales up to a date after one more trade.
LEMMA DatedListsGrow ==
    ASSUME ledger \in Seq(Trade), NEW t \in Trade, ledger' = Append(ledger, t),
           NEW n, n = Len(ledger) + 1, NEW d
    PROVE  /\ PaidBy(d) \in SUBSET DOMAIN ledger /\ GotBefore(d) \in SUBSET DOMAIN ledger
           /\ PaidBy(d)' = IF t.action = "BUY" /\ t.date <= d
                           THEN PaidBy(d) \cup {n} ELSE PaidBy(d)
           /\ GotBefore(d)' = IF t.action = "SELL" /\ t.date < d
                              THEN GotBefore(d) \cup {n} ELSE GotBefore(d)
<1>1. /\ DOMAIN ledger' = DOMAIN ledger \cup {n} /\ n \notin DOMAIN ledger
      /\ ledger'[n] = t /\ \A i \in DOMAIN ledger : ledger'[i] = ledger[i]
  BY AppendedLedger
<1> QED
  BY <1>1 DEF Indices, PaidBy, GotBefore

\* What a trade does to what was spent and earned up to a date.
LEMMA TradeIsDated ==
    ASSUME ledger \in Seq(Trade), NEW t \in Trade, ledger' = Append(ledger, t), NEW d
    PROVE  /\ Spent(PaidBy(d)) \in Int /\ Earned(GotBefore(d)) \in Int
           /\ Spent(PaidBy(d))' = Spent(PaidBy(d))
                + IF t.action = "BUY" /\ t.date <= d THEN PriceOf(t) ELSE 0
           /\ Earned(GotBefore(d))' = Earned(GotBefore(d))
                + IF t.action = "SELL" /\ t.date < d THEN ProceedsOf(t) ELSE 0
<1>1. PICK n : n = Len(ledger) + 1
  OBVIOUS
<1>2. PICK B, S : B = PaidBy(d) /\ S = GotBefore(d)
  OBVIOUS
<1>3. /\ B \in SUBSET DOMAIN ledger /\ S \in SUBSET DOMAIN ledger
      /\ PaidBy(d)' = IF t.action = "BUY" /\ t.date <= d THEN B \cup {n} ELSE B
      /\ GotBefore(d)' = IF t.action = "SELL" /\ t.date < d THEN S \cup {n} ELSE S
  BY <1>1, <1>2, DatedListsGrow
<1>4. /\ Spent(B) \in Int /\ Spent(B)' = Spent(B)
      /\ Spent(B \cup {n})' = Spent(B) + PriceOf(t)
  BY <1>1, <1>3, SumsOfLedger
<1>5. /\ Earned(S) \in Int /\ Earned(S)' = Earned(S)
      /\ Earned(S \cup {n})' = Earned(S) + ProceedsOf(t)
  BY <1>1, <1>3, SumsOfLedger
<1>6. Spent(PaidBy(d))' = IF t.action = "BUY" /\ t.date <= d
                          THEN Spent(B \cup {n})' ELSE Spent(B)'
  BY <1>3
<1>7. Earned(GotBefore(d))' = IF t.action = "SELL" /\ t.date < d
                              THEN Earned(S \cup {n})' ELSE Earned(S)'
  BY <1>3
<1> QED
  BY <1>2, <1>4, <1>5, <1>6, <1>7

\* A sale takes no money while its fees are not more than the amount.
LEMMA ProceedsAreNatural ==
    ASSUME CommissionSellPct + SlippagePct < 100, NEW t \in Trade
    PROVE  ProceedsOf(t) \in Nat
<1> DEFINE c == CommissionSellPct + SlippagePct
           x == t.price * t.qty
<1>1. c \in Nat /\ c < 100
  BY BacktestAssumption
<1>2. x \in Nat
  BY DEF Trade
<1>3. ProceedsOf(t) = 100 * x - x * c
  BY DEF ProceedsOf, Amount, SellFee, Trade
<1> HIDE DEF x, c
<1>4. x * c <= 100 * x /\ x * c \in Nat /\ 100 * x \in Nat
  BY <1>1, <1>2
<1> QED
  BY <1>3, <1>4

\* More sales earn no less.
LEMMA EarnedGrows ==
    ASSUME CommissionSellPct + SlippagePct < 100, ledger \in Seq(Trade),
           NEW T \in SUBSET DOMAIN ledger, NEW S \in SUBSET T
    PROVE  Earned(S) <= Earned(T) /\ Earned(S) \in Int /\ Earned(T) \in Int
<1> DEFINE f == [i \in S |-> ProceedsOf(ledger[i])]
           g == [i \in T |-> ProceedsOf(ledger[i])]
<1>1. \A i \in DOMAIN ledger : ProceedsOf(ledger[i]) \in Nat
  BY ProceedsAreNatural
<1>2. IsFiniteSet(DOMAIN ledger)
  BY FS_Interval
<1>3. IsFiniteSet(T) /\ IsFiniteSet(S)
  BY <1>2, FS_Subset
<1>4. f \in [S -> Int] /\ g \in [T -> Int] /\ \A i \in S : f[i] = g[i]
  BY <1>1
<1>5. \A i \in T \ S : g[i] >= 0
  BY <1>1
<1>6. Earned(S) = SumFunction(f) /\ Earned(T) = SumFunction(g)
  BY DEF Earned, ProceedsOf
<1> HIDE DEF f, g
<1>7. SumFunction(f) <= SumFunction(g)
  BY <1>3, <1>4, <1>5, SumFunctionGrows
<1>8. SumFunction(f) \in Int
  <2>1. S = DOMAIN f /\ \A i \in S : f[i] \in Int
    BY <1>4
  <2> QED
    BY <1>3, <2>1, SumFunctionType
<1>9. SumFunction(g) \in Int
  <2>1. T = DOMAIN g /\ \A i \in T : g[i] \in Int
    BY <1>4
  <2> QED
    BY <1>3, <2>1, SumFunctionType
<1> QED
  BY <1>6, <1>7, <1>8, <1>9

\* The next bar is tomorrow's.
LEMMA NextIsTomorrow ==
    ASSUME TypeOK, Full, NEW s \in Symbols, day \in Dates, BarsAfter(s, day) # {}
    PROVE  NextDate(s, day) = day + 1
<1>1. PICK e \in Dates : e > day
  BY DEF BarsAfter
<1>2. day + 1 \in Dates /\ day + 1 > day
  BY <1>1, BacktestAssumption DEF Dates
<1>3. HasBar(s, day + 1)
  BY <1>2 DEF Full
<1>4. day \in Nat /\ bars \in [Symbols -> [Dates -> Bar \cup {NoBar}]]
  BY TradeDatesAreDates DEF TypeOK
<1>5. /\ NextDate(s, day) \in Dates /\ NextDate(s, day) > day
      /\ \A d \in Dates : HasBar(s, d) /\ d > day => NextDate(s, day) <= d
  BY <1>4, NextBar
<1>6. NextDate(s, day) <= day + 1 /\ NextDate(s, day) \in Nat
  BY <1>2, <1>3, <1>5, TradeDatesAreDates
<1> QED
  BY <1>4, <1>5, <1>6

\* The first trades are still to come.
LEMMA InitFunds ==
    ASSUME Init
    PROVE  FundsKept /\ FundsFollowDates
<1>1. Indices("BUY") = {} /\ Indices("SELL") = {} /\ DOMAIN ledger = {}
  BY DEF Init, Indices
<1>2. ASSUME NEW f, DOMAIN f = {}
      PROVE  SumFunction(f) = 0
  <2>1. {} = DOMAIN f /\ IsFiniteSet({}) /\ \A x \in {} : f[x] \in Int
    BY <1>2, FS_EmptySet
  <2> QED
    BY <2>1, SumFunctionType
<1>3. Spent({}) = 0 /\ Earned({}) = 0
  BY <1>2 DEF Spent, Earned
<1>4. \A d : PaidBy(d) = {} /\ GotBefore(d) = {}
  BY <1>1 DEF PaidBy, GotBefore
<1>5. InitialCash \in Nat /\ cash = InitialCash
  BY BacktestAssumption DEF Init
<1>6. FundsKept
  <2>1. Spent(Indices("BUY")) = 0 /\ Earned(GotBefore(day + 1)) = 0
    BY <1>1, <1>3, <1>4
  <2>2. CashDated
    BY <1>5, <2>1 DEF CashDated
  <2> QED
    BY <1>1, <2>2 DEF FundsKept, Dated
<1>7. \A d \in Dates : Spent(PaidBy(d)) <= InitialCash + Earned(GotBefore(d))
  <2>1. \A d : Spent(PaidBy(d)) = 0 /\ Earned(GotBefore(d)) = 0
    BY <1>3, <1>4
  <2> QED
    BY <1>5, <2>1
<1> QED
  BY <1>6, <1>7 DEF FundsFollowDates, PaidBy, GotBefore

\* A step that trades nothing on the same day changes nothing of this.
LEMMA QuietFunds ==
    ASSUME FundsKept, FundsFollowDates, UNCHANGED <<bars, day, cash, ledger>>
    PROVE  FundsKept' /\ FundsFollowDates'
<1>1. Full' = Full
  BY DEF Full, HasBar
<1>2. Dated' = Dated
  BY DEF Dated
<1>3. CashDated' = CashDated
  BY DEF CashDated, Spent, Earned, Indices, GotBefore
<1>4. FundsFollowDates' = FundsFollowDates
  BY DEF FundsFollowDates, HasBar, Spent, Earned, Indices
<1> QED
  BY <1>1, <1>2, <1>3, <1>4 DEF FundsKept

\* The opening of a day settles exactly the sales of the days before.
LEMMA OpenDayFunds ==
    ASSUME Sound, Counted, FundsKept, FundsFollowDates, OpenDay
    PROVE  FundsKept' /\ FundsFollowDates'
<1>1. PICK d \in TradeDates : d > day /\ day' = d
  BY DEF OpenDay
<1>2. /\ ledger' = ledger /\ bars' = bars /\ cash' = cash + frozen
  BY DEF OpenDay, SettleFrozen, inputs
<1>3. d \in Nat /\ day \in Nat /\ ledger \in Seq(Trade)
  BY <1>1, TradeDatesAreDates, BacktestAssumption DEF Sound, TypeOK
<1>4. FundsFollowDates' = FundsFollowDates
  BY <1>2 DEF FundsFollowDates, HasBar, Spent, Earned, Indices
<1>5. Full' = Full
  BY <1>2 DEF Full, HasBar
<1>6. ASSUME Full
      PROVE  Dated' /\ CashDated'
  <2>1. \A i \in DOMAIN ledger : ledger[i].date \in Nat /\ ledger[i].date <= day + 1
    <3>1. \A i \in DOMAIN ledger : ledger[i] \in Trade
      BY <1>3
    <3>2. \A i \in DOMAIN ledger : ledger[i].date \in Dates
      BY <3>1 DEF Trade
    <3> QED
      BY <1>6, <3>2, TradeDatesAreDates DEF FundsKept, Dated
  <2>2. \A i \in DOMAIN ledger : ledger[i].date < d + 1
    BY <1>1, <1>3, <2>1
  <2>3. Dated'
    BY <1>1, <1>2, <1>3, <2>1, <2>2 DEF Dated
  <2>4. GotBefore(d + 1) = Indices("SELL")
    BY <2>2 DEF GotBefore, Indices
  <2>5. /\ Spent(Indices("BUY"))' = Spent(Indices("BUY"))
        /\ Earned(GotBefore(day + 1))' = Earned(GotBefore(d + 1))
    BY <1>1, <1>2 DEF Spent, Earned, Indices, GotBefore
  <2>6. cash' = InitialCash - Spent(Indices("BUY")) + Earned(Indices("SELL"))
    BY <1>2 DEF Counted, MoneyKept
  <2>7. CashDated'
    BY <2>4, <2>5, <2>6 DEF CashDated
  <2> QED
    BY <2>3, <2>7
<1> QED
  BY <1>4, <1>5, <1>6 DEF FundsKept

\* A sale tomorrow brings money for the days after it only.
LEMMA SaleFunds ==
    ASSUME CommissionSellPct + SlippagePct < 100, Sound, FundsKept, FundsFollowDates,
           NEW t \in Trade, t.action = "SELL", Full => t.date = day + 1,
           ledger' = Append(ledger, t), UNCHANGED <<bars, day, cash>>
    PROVE  FundsKept' /\ FundsFollowDates'
<1>0. /\ day \in Nat /\ ledger \in Seq(Trade) /\ InitialCash \in Int /\ cash \in Int
      /\ Full' = Full
  BY BacktestAssumption DEF Sound, TypeOK, Full, HasBar
<1>1. SUFFICES ASSUME Full
               PROVE  /\ Dated' /\ CashDated'
                      /\ \A d \in Dates : Spent(PaidBy(d))' <=
                                            InitialCash + Earned(GotBefore(d))'
  BY <1>0 DEF FundsKept, FundsFollowDates, Full, PaidBy, GotBefore
<1>2. Dated /\ CashDated /\ t.date = day + 1
  BY <1>1 DEF FundsKept
<1>3. Dated'
  <2>1. PICK n : n = Len(ledger) + 1
    OBVIOUS
  <2>2. /\ DOMAIN ledger' = DOMAIN ledger \cup {n}
        /\ ledger'[n] = t /\ \A i \in DOMAIN ledger : ledger'[i] = ledger[i]
    BY <1>0, <2>1, AppendedLedger
  <2> QED
    BY <1>0, <1>2, <2>2 DEF Dated
<1>4. CashDated'
  <2>1. PICK e : e = day + 1
    OBVIOUS
  <2>2. Earned(GotBefore(e))' = Earned(GotBefore(e))
    <3>1. /\ Earned(GotBefore(e)) \in Int
          /\ Earned(GotBefore(e))' = Earned(GotBefore(e))
               + IF t.action = "SELL" /\ t.date < e THEN ProceedsOf(t) ELSE 0
      BY <1>0, TradeIsDated
    <3>2. ~(t.date < e)
      BY <1>0, <1>2, <2>1
    <3> QED
      BY <3>1, <3>2
  <2>3. Earned(GotBefore(day + 1))' = Earned(GotBefore(e))'
    BY <2>1
  <2>4. Spent(Indices("BUY"))' = Spent(Indices("BUY"))
    BY <1>0, TradeIsCounted
  <2>5. cash' = InitialCash - Spent(Indices("BUY"))' + Earned(GotBefore(day + 1))'
    BY <1>2, <2>1, <2>2, <2>3, <2>4 DEF CashDated
  <2> QED
    BY <2>5 DEF CashDated
<1>5. ASSUME NEW d \in Dates
      PROVE  Spent(PaidBy(d))' <= InitialCash + Earned(GotBefore(d))'
  <2>1. Spent(PaidBy(d)) <= InitialCash + Earned(GotBefore(d))
    BY <1>1 DEF FundsFollowDates, Full, PaidBy, GotBefore
  <2>2. /\ Spent(PaidBy(d)) \in Int /\ Earned(GotBefore(d)) \in Int
        /\ Spent(PaidBy(d))' = Spent(PaidBy(d))
             + IF t.action = "BUY" /\ t.date <= d THEN PriceOf(t) ELSE 0
        /\ Earned(GotBefore(d))' = Earned(GotBefore(d))
             + IF t.action = "SELL" /\ t.date < d THEN ProceedsOf(t) ELSE 0
    BY <1>0, TradeIsDated
  <2>3. ProceedsOf(t) \in Nat
    BY ProceedsAreNatural
  <2>4. Spent(PaidBy(d))' = Spent(PaidBy(d)) /\ Earned(GotBefore(d))' >= Earned(GotBefore(d))
    BY <2>2, <2>3
  <2>5. Earned(GotBefore(d))' \in Int
    BY <2>2, <2>3
  <2> QED
    BY <1>0, <2>1, <2>2, <2>4, <2>5
<1> QED
  BY <1>3, <1>4, <1>5

\* A purchase tomorrow is paid with what was there by today.
LEMMA PurchaseFunds ==
    ASSUME CommissionSellPct + SlippagePct < 100, Sound, FundsKept, FundsFollowDates,
           NEW t \in Trade, t.action = "BUY", Full => t.date = day + 1,
           ledger' = Append(ledger, t), UNCHANGED <<bars, day>>,
           cash' = cash - PriceOf(t), 0 <= cash'
    PROVE  FundsKept' /\ FundsFollowDates'
<1>0. /\ day \in Nat /\ ledger \in Seq(Trade) /\ InitialCash \in Int /\ cash \in Int
      /\ Full' = Full /\ PriceOf(t) \in Int
  <2>1. PriceOf(t) \in Int
    BY TradeAmounts
  <2>2. Full' = Full
    BY DEF Full, HasBar
  <2> QED
    BY <2>1, <2>2, BacktestAssumption DEF Sound, TypeOK
<1>1. SUFFICES ASSUME Full
               PROVE  /\ Dated' /\ CashDated'
                      /\ \A d \in Dates : Spent(PaidBy(d))' <=
                                            InitialCash + Earned(GotBefore(d))'
  BY <1>0 DEF FundsKept, FundsFollowDates, Full, PaidBy, GotBefore
<1>2. Dated /\ CashDated /\ t.date = day + 1
  BY <1>1 DEF FundsKept
<1>3. Dated'
  <2>1. PICK n : n = Len(ledger) + 1
    OBVIOUS
  <2>2. /\ DOMAIN ledger' = DOMAIN ledger \cup {n}
        /\ ledger'[n] = t /\ \A i \in DOMAIN ledger : ledger'[i] = ledger[i]
    BY <1>0, <2>1, AppendedLedger
  <2> QED
    BY <1>0, <1>2, <2>2 DEF Dated
<1>4. /\ Spent(Indices("BUY")) \in Int
      /\ Spent(Indices("BUY"))' = Spent(Indices("BUY")) + PriceOf(t)
  BY <1>0, TradeIsCounted
<1>5. ASSUME NEW d
      PROVE  Earned(GotBefore(d))' = Earned(GotBefore(d)) /\ Earned(GotBefore(d)) \in Int
  <2>1. /\ Earned(GotBefore(d)) \in Int
        /\ Earned(GotBefore(d))' = Earned(GotBefore(d))
             + IF t.action = "SELL" /\ t.date < d THEN ProceedsOf(t) ELSE 0
    BY <1>0, TradeIsDated
  <2> QED
    BY <2>1
<1>6. PICK e : e = day + 1
  OBVIOUS
<1>7. Earned(GotBefore(e))' = Earned(GotBefore(e)) /\ Earned(GotBefore(e)) \in Int
  BY <1>5
<1>8. cash' = InitialCash - Spent(Indices("BUY"))' + Earned(GotBefore(e))'
  <2>1. PICK spent, earned, more : /\ spent = Spent(Indices("BUY")) /\ more = PriceOf(t)
                                   /\ earned = Earned(GotBefore(e))
    OBVIOUS
  <2>2. cash = InitialCash - spent + earned
    BY <1>2, <1>6, <2>1 DEF CashDated
  <2>3. /\ spent \in Int /\ earned \in Int /\ more \in Int /\ InitialCash \in Int
        /\ cash \in Int /\ cash' = cash - more
    BY <1>0, <1>4, <1>7, <2>1
  <2>4. cash' = InitialCash - (spent + more) + earned
    BY <2>2, <2>3
  <2> QED
    BY <1>4, <1>7, <2>1, <2>4
<1>9. CashDated'
  <2>1. Earned(GotBefore(day + 1))' = Earned(GotBefore(e))'
    BY <1>6
  <2> QED
    BY <1>8, <2>1 DEF CashDated
<1>10. ASSUME NEW d \in Dates
       PROVE  Spent(PaidBy(d))' <= InitialCash + Earned(GotBefore(d))'
  <2>0. d \in Nat
    BY TradeDatesAreDates
  <2>1. CASE d <= day
    <3>1. Spent(PaidBy(d)) <= InitialCash + Earned(GotBefore(d))
      BY <1>1 DEF FundsFollowDates, Full, PaidBy, GotBefore
    <3>2. /\ Spent(PaidBy(d)) \in Int
          /\ Spent(PaidBy(d))' = Spent(PaidBy(d))
               + IF t.action = "BUY" /\ t.date <= d THEN PriceOf(t) ELSE 0
      BY <1>0, TradeIsDated
    <3>3. ~(t.date <= d)
      BY <1>0, <1>2, <2>0, <2>1
    <3> QED
      BY <1>5, <3>1, <3>2, <3>3
  <2>2. CASE ~(d <= day)
    <3>1. \A i \in DOMAIN ledger' : ledger'[i].date <= e
      BY <1>3, <1>6 DEF Dated
    <3>2. \A i \in DOMAIN ledger' : ledger'[i].date <= d
      <4>1. ledger' \in Seq(Trade)
        BY <1>0
      <4>2. \A i \in DOMAIN ledger' : ledger'[i].date \in Dates
        <5>1. \A i \in DOMAIN ledger' : ledger'[i] \in Trade
          BY <4>1
        <5> QED
          BY <5>1 DEF Trade
      <4>3. \A i \in DOMAIN ledger' : ledger'[i].date \in Nat
        BY <4>2, TradeDatesAreDates
      <4> QED
        BY <1>0, <1>6, <2>0, <2>2, <3>1, <4>3
    <3>3. PaidBy(d)' = Indices("BUY")'
      BY <3>2 DEF PaidBy, Indices
    <3>4. Spent(PaidBy(d))' = Spent(Indices("BUY"))'
      BY <3>3
    <3>5. GotBefore(e) \in SUBSET GotBefore(d) /\ GotBefore(d) \in SUBSET DOMAIN ledger
      <4>1. \A i \in DOMAIN ledger : ledger[i] \in Trade
        BY <1>0
      <4>2. \A i \in DOMAIN ledger : ledger[i].date \in Nat
        BY <4>1, TradeDatesAreDates DEF Trade
      <4>3. d \in Nat /\ e \in Nat /\ e <= d
        BY <1>0, <1>6, <2>0, <2>2
      <4>4. \A i \in DOMAIN ledger : ledger[i].date < e => ledger[i].date < d
        BY <4>2, <4>3
      <4> QED
        BY <4>4 DEF GotBefore, Indices
    <3>6. Earned(GotBefore(e)) <= Earned(GotBefore(d))
      <4>1. PICK S, T : S = GotBefore(e) /\ T = GotBefore(d)
        OBVIOUS
      <4>2. T \in SUBSET DOMAIN ledger /\ S \in SUBSET T
        BY <3>5, <4>1
      <4>3. Earned(S) <= Earned(T)
        BY <1>0, <4>2, EarnedGrows
      <4> QED
        BY <4>1, <4>3
    <3>7. /\ Earned(GotBefore(d))' = Earned(GotBefore(d))
          /\ Earned(GotBefore(d)) \in Int
      BY <1>5
    <3>8. Spent(Indices("BUY"))' <= InitialCash + Earned(GotBefore(e))'
      <4>1. PICK spent, earned : spent = Spent(Indices("BUY"))' /\ earned = Earned(GotBefore(e))'
        OBVIOUS
      <4>2. spent \in Int /\ earned \in Int
        BY <1>0, <1>4, <1>7, <4>1
      <4>3. cash' = InitialCash - spent + earned /\ 0 <= cash'
        BY <1>8, <4>1
      <4>4. spent <= InitialCash + earned
        BY <1>0, <4>2, <4>3
      <4> QED
        BY <4>1, <4>4
    <3>9. Spent(Indices("BUY"))' \in Int
      BY <1>0, <1>4
    <3> QED
      BY <1>0, <1>7, <3>4, <3>6, <3>7, <3>8, <3>9
  <2> QED
    BY <2>1, <2>2
<1> QED
  BY <1>3, <1>9, <1>10

\* A sale step keeps the dates.
LEMMA ExecuteSellFunds ==
    ASSUME CommissionSellPct + SlippagePct < 100, Sound, Steady,
           FundsKept, FundsFollowDates, ExecuteSell
    PROVE  FundsKept' /\ FundsFollowDates'
<1>1. PICK sig \in sales :
        /\ day \in Dates /\ sig.symbol \in Held /\ sig.reason \in Reasons
        /\ UNCHANGED <<bars, mode, day, phase, cash, orders, equity>>
        /\ \/ /\ Sellable(sig.symbol, day)
              /\ ledger' = Append(ledger,
                   [date |-> NextDate(sig.symbol, day), symbol |-> sig.symbol,
                    action |-> "SELL", price |-> NextOpen(sig.symbol, day),
                    qty |-> pos[sig.symbol].qty, reason |-> sig.reason])
           \/ UNCHANGED <<frozen, ledger>>
  BY SellCases
<1>2. CASE ledger' = ledger
  BY <1>1, <1>2, QuietFunds
<1>3. CASE ledger' # ledger
  <2>1. PICK s : s = sig.symbol
    OBVIOUS
  <2>2. /\ s \in Held /\ s \in Symbols /\ pos[s] \in Position /\ day \in Nat
        /\ pos[s].qty \in Nat /\ BarsAfter(s, day) # {}
        /\ bars \in [Symbols -> [Dates -> Bar \cup {NoBar}]]
    BY <1>1, <1>3, <2>1, PositionNumbers DEF Sound, TypeOK, Sellable
  <2>3. PICK t : t = [date |-> NextDate(s, day), symbol |-> s,
                      action |-> "SELL", price |-> NextOpen(s, day),
                      qty |-> pos[s].qty, reason |-> sig.reason]
    OBVIOUS
  <2>4. NextOpen(s, day) \in Nat /\ NextDate(s, day) \in Dates
    BY <2>2, NextBar
  <2>5. t \in Trade
    BY <1>1, <2>2, <2>3, <2>4 DEF Trade
  <2>6. t.action = "SELL" /\ t.date = NextDate(s, day)
    BY <2>3
  <2>7. Full => t.date = day + 1
    BY <1>1, <2>2, <2>6, NextIsTomorrow DEF Sound
  <2>8. ledger' = Append(ledger, t)
    BY <1>1, <1>3, <2>1, <2>3
  <2> QED
    BY <1>1, <2>5, <2>6, <2>7, <2>8, SaleFunds
<1> QED
  BY <1>2, <1>3

\* A purchase step keeps the dates.
LEMMA ExecuteBuyFunds ==
    ASSUME CommissionSellPct + SlippagePct < 100, Sound,
           FundsKept, FundsFollowDates, ExecuteBuy
    PROVE  FundsKept' /\ FundsFollowDates'
<1>0. PICK s : s = Head(orders).symbol
  OBVIOUS
<1>1. /\ day \in Dates /\ s \in Symbols
      /\ UNCHANGED <<bars, mode, day, phase, frozen, sales, equity>>
      /\ \/ UNCHANGED <<cash, pos, ledger>>
         \/ \E qty \in Nat :
              /\ BarsAfter(s, day) # {}
              /\ NextOpen(s, day) \in Nat /\ NextDate(s, day) \in Dates
              /\ Amount(NextOpen(s, day), qty) + BuyFee(NextOpen(s, day), qty) <= cash
              /\ Book(s, qty)
  BY <1>0, BuyCases
<1>2. CASE UNCHANGED <<cash, pos, ledger>>
  BY <1>1, <1>2, QuietFunds
<1>3. CASE ~UNCHANGED <<cash, pos, ledger>>
  <2>1. PICK qty \in Nat :
              /\ BarsAfter(s, day) # {}
              /\ NextOpen(s, day) \in Nat /\ NextDate(s, day) \in Dates
              /\ Amount(NextOpen(s, day), qty) + BuyFee(NextOpen(s, day), qty) <= cash
              /\ Book(s, qty)
    BY <1>1, <1>3
  <2>2. PICK t : t = [date |-> NextDate(s, day), symbol |-> s, action |-> "BUY",
                      price |-> NextOpen(s, day), qty |-> qty, reason |-> NoReason]
    OBVIOUS
  <2>3. t \in Trade
    BY <1>1, <2>1, <2>2 DEF Trade
  <2>4. /\ t.action = "BUY" /\ t.qty = qty
        /\ t.price = NextOpen(s, day) /\ t.date = NextDate(s, day)
    BY <2>2
  <2>5. ledger' = Append(ledger, t)
    BY <2>1, <2>2 DEF Book
  <2>6. cash' = cash - PriceOf(t) /\ 0 <= cash'
    <3>1. /\ cash' = cash - Amount(NextOpen(s, day), qty) - BuyFee(NextOpen(s, day), qty)
          /\ Amount(NextOpen(s, day), qty) \in Nat /\ BuyFee(NextOpen(s, day), qty) \in Nat
      BY <2>1, AmountType DEF Book
    <3>2. PriceOf(t) = Amount(NextOpen(s, day), qty) + BuyFee(NextOpen(s, day), qty)
      BY <2>4 DEF PriceOf
    <3>3. cash \in Int
      BY DEF Sound, TypeOK
    <3> QED
      BY <2>1, <3>1, <3>2, <3>3
  <2>7. Full => t.date = day + 1
    BY <1>1, <2>1, <2>4, NextIsTomorrow DEF Sound
  <2>8. UNCHANGED <<bars, day>>
    BY <1>1
  <2> QED
    BY <2>3, <2>4, <2>5, <2>6, <2>7, <2>8, PurchaseFunds
<1> QED
  BY <1>2, <1>3

\* While no stock is suspended, on no date do the purchases up to it cost more than the
\* capital and the sales before it brought: what was frozen is spent a day later at the
\* earliest.  The fees of a sale are again less than the sale.
THEOREM FundsAreThere ==
    ASSUME CommissionSellPct + SlippagePct < 100
    PROVE  Spec => []FundsFollowDates
<1>1. Init => Counted /\ FundsKept /\ FundsFollowDates
  BY InitCounted, InitFunds
<1>2. /\ Sound /\ Steady /\ Counted /\ FundsKept /\ FundsFollowDates /\ [Next]_vars
      => Counted' /\ FundsKept' /\ FundsFollowDates'
  <2> SUFFICES ASSUME Sound, Steady, Counted, FundsKept, FundsFollowDates, [Next]_vars
               PROVE  Counted' /\ FundsKept' /\ FundsFollowDates'
    OBVIOUS
  <2>0. Counted'
    BY StepCounted
  <2>1. CASE OpenDay
    BY <2>0, <2>1, OpenDayFunds
  <2>2. CASE ExecuteSell
    BY <2>0, <2>2, ExecuteSellFunds
  <2>3. CASE CheckPositions \/ Screen \/ CloseDay
    <3>1. UNCHANGED <<bars, day, cash, ledger>>
      BY <2>3 DEF CheckPositions, Screen, CloseDay, inputs, money
    <3> QED
      BY <2>0, <3>1, QuietFunds
  <2>4. CASE ExecuteBuy
    BY <2>0, <2>4, ExecuteBuyFunds
  <2>5. CASE UNCHANGED vars
    BY <2>0, <2>5, QuietFunds DEF vars
  <2> QED
    BY <2>1, <2>2, <2>3, <2>4, <2>5 DEF Next
<1> QED
  BY <1>1, <1>2, AlwaysSteady, PTL DEF Spec
=============================================================================
