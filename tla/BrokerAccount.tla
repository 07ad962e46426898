--------------------------- MODULE BrokerAccount ---------------------------
(***************************************************************************)
(* What a simulated A-share account promises, whatever strategy trades on  *)
(* it: it is never overdrawn, it sells only what it holds and sells it     *)
(* whole, at most MaxHoldings stocks are held, and what a sale brings is   *)
(* frozen until the account settles.  Amounts are left open; a step says   *)
(* only in which direction money and shares move.                          *)
(***************************************************************************)
EXTENDS Integers, FiniteSets

CONSTANTS
    Symbols,       \* the stocks
    InitialCash,   \* money paid in
    MaxHoldings    \* stocks that may be held at a time

VARIABLES
    cash,          \* money that may be spent
    frozen,        \* money from sales, not settled yet
    shares         \* shares held of each stock

account == <<cash, frozen, shares>>

HeldOf(holding) == {s \in Symbols : holding[s] > 0}

AccountInit ==
    /\ cash = InitialCash
    /\ frozen = 0
    /\ shares = [s \in Symbols |-> 0]

Settle ==
    /\ cash' = cash + frozen
    /\ frozen' = 0
    /\ UNCHANGED shares

BuyShares(s) ==
    /\ shares[s] = 0
    /\ Cardinality(HeldOf(shares)) < MaxHoldings
    /\ shares'[s] > 0
    /\ shares' = [shares EXCEPT ![s] = shares'[s]]
    /\ 0 <= cash' /\ cash' < cash
    /\ UNCHANGED frozen

SellShares(s) ==
    /\ shares[s] > 0
    /\ shares' = [shares EXCEPT ![s] = 0]
    /\ frozen < frozen'
    /\ UNCHANGED cash

AccountNext == Settle \/ \E s \in Symbols : BuyShares(s) \/ SellShares(s)

AccountSpec == AccountInit /\ [][AccountNext]_account
=============================================================================
