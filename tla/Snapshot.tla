------------------------------ MODULE Snapshot ------------------------------
(***************************************************************************)
(* The state a day leaves, saved and read back (steadyhand/snapshot.py).   *)
(* Paper trading runs each day from the state it saved the day before; a   *)
(* backtest never leaves memory. A document holds what a state is made     *)
(* of: what the portfolio keeps beside its ledger is worked out again, and *)
(* each value is checked by the constructor it is rebuilt with.            *)
(***************************************************************************)
EXTENDS EngineDay

State == [positions |-> positions, ledger |-> ledger, balance |-> balance, open |-> open,
          pending |-> pending, entitlements |-> entitlements, frozen |-> frozen,
          closes |-> closes, units |-> units, halt |-> halt, lastDay |-> today]

-----------------------------------------------------------------------------
(* Saving.                                                                 *)

\* The stocks of a set by symbol, and a mapping keyed by stocks as a list of pairs.
Listed(stocks) ==
    LET upTo[i \in 0..Len(BySymbol)] ==
          IF i = 0 THEN <<>>
          ELSE IF BySymbol[i] \in stocks THEN Append(upTo[i - 1], BySymbol[i]) ELSE upTo[i - 1]
    IN  upTo[Len(BySymbol)]

Pairs(stocks, of) ==
    LET listed == Listed(stocks) IN [i \in DOMAIN listed |-> <<listed[i], of[listed[i]]>>]

EncodePortfolio ==
    [positions |-> Pairs({s \in Stock : Held(s)}, positions), ledger |-> ledger]

EncodeState ==
    [portfolio |-> EncodePortfolio,
     pending |-> pending, entitlements |-> entitlements,
     frozen |-> Pairs(frozen, [s \in frozen |-> "frozen"]),
     lastCloses |-> Pairs({s \in Stock : closes[s] # NoBar}, closes),
     units |-> units, halt |-> halt, lastDay |-> today]

-----------------------------------------------------------------------------
(* Reading.                                                                *)

Keys(pairs) == {pairs[i][1] : i \in DOMAIN pairs}
ReadPairs(pairs) == [s \in Keys(pairs) |-> pairs[CHOOSE i \in DOMAIN pairs : pairs[i][1] = s][2]]

IsPosition(p) == p.quantity >= 1 /\ p.basis >= 0
IsMovement(m) == m.settles >= m.day
IsOrder(o) == o.quantity >= 1
IsEntitlement(e) == e.payDate > e.exDate /\ e.gross > 0
IsUnitValue(u) == u.units >= 0 /\ u.price >= 0 /\ u.high >= 0

\* Positions are by symbol, and none is of a stock named before.
CheckPositions(listed) ==
    /\ \A i \in DOMAIN listed : IsPosition(listed[i][2])
    /\ [i \in DOMAIN listed |-> listed[i][1]] = Listed(Keys(listed))

\* Portfolio's constructor: no movement is before the one it follows.
IsPortfolio(p) ==
    /\ CheckPositions(p.positions)
    /\ \A i \in DOMAIN p.ledger :
         IsMovement(p.ledger[i]) /\ (i > 1 => p.ledger[i - 1].day <= p.ledger[i].day)

Readable(document) ==
    /\ IsPortfolio(document.portfolio)
    /\ \A o \in document.pending : IsOrder(o)
    /\ \A i \in DOMAIN document.entitlements : IsEntitlement(document.entitlements[i])
    /\ IsUnitValue(document.units)

\* The movements that settle after the last day: Portfolio keeps them from one movement to
\* the next, here they are looked for in the whole ledger.
OpenIn_credits(movements) ==
    {i \in DOMAIN movements :
        movements[i].settles > movements[Len(movements)].day /\ movements[i].amount >= 0}
OpenIn(movements) == {i \in DOMAIN movements : movements[i].settles > movements[Len(movements)].day}
BalanceOf(movements) ==
    SumFunctionOnSet([i \in DOMAIN movements |-> movements[i].amount], DOMAIN movements)

DecodeState(document) ==
    LET held == ReadPairs(document.portfolio.positions)
        priced == ReadPairs(document.lastCloses)
        movements == document.portfolio.ledger
    IN  [positions |-> [s \in Stock |-> IF s \in DOMAIN held THEN held[s] ELSE NoPosition],
         ledger |-> movements, balance |-> BalanceOf(movements), open |-> OpenIn(movements),
         pending |-> document.pending, entitlements |-> document.entitlements,
         frozen |-> Keys(document.frozen),
         closes |-> [s \in Stock |-> IF s \in DOMAIN priced THEN priced[s] ELSE NoBar],
         units |-> document.units, halt |-> document.halt, lastDay |-> document.lastDay]

-----------------------------------------------------------------------------
\* A paper account goes on as a backtest does: whatever a day leaves is accepted when the
\* next process reads it, is what it was, the caches and what lies under splits, freezes and
\* days without a bar included, and gives every stock held the last close that its day may
\* have to value it at (decode_state, run_day).
SavedStateCarriesOn ==
    phase = "closed" =>
        /\ Readable(EncodeState)
        /\ DecodeState(EncodeState) = State
        /\ EveryHoldingHasAClose
=============================================================================
