---------------------------- MODULE MCOperations ----------------------------
(***************************************************************************)
(* Model checking of Operations: two plans of which one fits the limit, a  *)
(* position, two evaluations at a time.  Shares cost 100: the prices are a *)
(* loss beyond the fixed stop, no gain, a gain for the trailing stop and   *)
(* one for the tight stop.  No gain and no average is what the evening     *)
(* task would see: it passes empty market data.  Today it does not come    *)
(* that far, as the async_pg_session it imports is not defined.            *)
(***************************************************************************)
EXTENDS Operations, TLC
CONSTANTS p1, p2, s1, e1, e2

TwoPlans      == {p1, p2}
OnePosition   == {s1}
TwoEvaluators == {e1, e2}
PriceSteps    == {91, 100, 106, 111}
NoneOrAverage == {0, 101}
HandStops     == {10000}
OneStage      == {3}
OneSale       == {105}

\* Candidates of one plan at a time: they are read by the purchase from them alone.
OneScreened   == Cardinality({p \in Plans : candidate[p] # "absent"}) <= 1

Symmetry      == Permutations(TwoPlans) \cup Permutations(TwoEvaluators)
=============================================================================
