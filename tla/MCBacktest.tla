----------------------------- MODULE MCBacktest -----------------------------
(***************************************************************************)
(* Model checking of Backtest: three stocks, two of one sector, over five  *)
(* dates, each with one of a few price histories.                          *)
(***************************************************************************)
EXTENDS Backtest, TLC
CONSTANTS x1, x2, y1

Stocks  == {x1, x2, y1}
Sectors == x1 :> "X" @@ x2 :> "X" @@ y1 :> ""
Limits  == x1 :> 10 @@ x2 :> 20 @@ y1 :> 10
Both    == {"equal", "score_weighted"}
TwoScores == {60, 90}

B(o, cl)  == [open |-> o, close |-> cl]
Flat      == <<B(100, 100), B(100, 100), B(100, 100), B(100, 100), B(100, 100)>>
\* Reaches the stop, then opens twice at the limit-down price (of 10 %).
Crash     == <<B(100, 100), B(100, 92), B(83, 83), B(75, 75), B(80, 80)>>
\* Opens at the limit-up price, then falls back: a trailing stop.
Surge     == <<B(100, 100), B(110, 110), B(105, 108), B(108, 98), B(98, 98)>>
\* Suspended for two dates after a bad day.
Halted    == <<B(100, 100), B(100, 92), NoBar, NoBar, B(95, 95)>>
\* Suspended at once: a purchase is dated ahead.
Paused    == <<B(100, 100), NoBar, B(100, 99), B(99, 90), B(90, 90)>>
\* Listed on the second date.
Listed    == <<NoBar, B(100, 100), B(100, 99), B(99, 92), B(92, 92)>>

TapesOf   == x1 :> {Flat, Crash, Surge, Halted, Paused, Listed}
             @@ x2 :> {Flat, Crash, Halted, Listed}
             @@ y1 :> {Flat, Surge, Halted}
Histories == {h \in [Stocks -> UNION {TapesOf[s] : s \in Stocks}] :
                \A s \in Stocks : h[s] \in TapesOf[s]}
=============================================================================
