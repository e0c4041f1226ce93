--------------------------- MODULE LendingClients ---------------------------
(***************************************************************************)
(* The three protocol clients (suilendClient.ts, naviClient.ts,            *)
(* scallopClient.ts) over the one signing path of suiExecutionClient.ts,   *)
(* and what their calls leave on chain.  The wallet borrows one coin, of   *)
(* UnitsPerCoin raw units; limit is its borrow limit in raw units of that  *)
(* coin at the prices of the moment.  Clients report amounts in units of   *)
(* their own: that conversion is kept.                                     *)
(***************************************************************************)
EXTENDS Policy, Sequences, FiniteSets

CONSTANTS
    UnitsPerCoin,    \* 10^decimals of the borrowed coin
    NaviPrecision,   \* 10^9 / 10^decimals: NAVI reports balances to 1e9
    UnitsPerShare,   \* underlying units a pool share is worth
    BorrowWeight,    \* what a unit of debt counts for on Suilend; whole, for arithmetic
    UsdcCoinType, SuiCoinType,
    NoContext,       \* the Suilend SDK is not initialized in this process
    Failed,          \* a read that threw
    MaxLanded        \* bound: transactions

ASSUME ClientsAssumption ==
    /\ {UnitsPerCoin, NaviPrecision, UnitsPerShare, BorrowWeight} \subseteq Nat \ {0}
    /\ {UsdcCoinType, SuiCoinType} \subseteq STRING
    /\ MaxLanded \in Nat

VARIABLES
    shares,       \* [LendingProtocols -> pool shares held: cTokens, sCoins]
    debt,         \* [LendingProtocols -> raw units owed]
    limit,        \* [LendingProtocols -> borrow limit]
    obligations,  \* Suilend obligation owner caps of the wallet
    reserveMap,   \* Suilend limit at the prices getContext read, kept for good
    landed        \* history: transactions on chain

chainVars == <<shares, debt, limit, obligations, landed>>

Infinite == <<0, 0>>
NoPositions == [health |-> Infinite, borrows |-> <<>>, obligation |-> FALSE]

\* The coin an asset names: by its shorthand or by its full type.
resolveCoinType(asset) ==
    CASE asset = "usdc" -> UsdcCoinType [] asset = "sui" -> SuiCoinType [] OTHER -> asset

\* What raw units of debt count for against the borrow limit.
Weighted(protocol, raw) == IF protocol = "suilend" THEN BorrowWeight * raw ELSE raw

Borrow(amount, raw) == IF raw = 0 THEN <<>> ELSE <<amount>>

\* The context is made on first use and never refreshed.
SuilendLimit == IF reserveMap = NoContext THEN limit["suilend"] ELSE reserveMap

getContext(protocol) == reserveMap' = IF protocol = "suilend" THEN SuilendLimit ELSE reserveMap

\* Amounts in whole coins, toFixed(0).
toObligationResponse(raw) ==
    [health |-> <<SuilendLimit, Weighted("suilend", raw)>>, obligation |-> TRUE,
     borrows |-> Borrow((2 * raw + UnitsPerCoin) \div (2 * UnitsPerCoin), raw)]

\* The first owner cap only; a failed read throws.
SuilendPositions ==
    {Failed, IF obligations = 0 THEN NoPositions ELSE toObligationResponse(debt["suilend"])}

\* Amounts to nine decimals whatever the coin; a health factor that cannot be
\* read is infinite; a failed read of the positions throws.
NaviPositions ==
    LET raw == debt["navi"]
    IN  {Failed} \cup
        {[health |-> health, obligation |-> FALSE, borrows |-> Borrow(raw * NaviPrecision, raw)] :
            health \in {<<limit["navi"], raw>>, Infinite}}

\* Decimal coins, which parse as an integer only when whole.  Any failure reads
\* as no position at all.
ScallopPositions ==
    LET raw   == debt["scallop"]
        coins == IF raw % UnitsPerCoin = 0 THEN raw \div UnitsPerCoin ELSE Unparsable
    IN  {NoPositions,
         [health |-> <<limit["scallop"], raw>>, obligation |-> TRUE, borrows |-> Borrow(coins, raw)]}

\* What getPositions may answer.
getPositions(protocol) ==
    CASE protocol = "suilend" -> SuilendPositions
      [] protocol = "navi"    -> NaviPositions
      [] protocol = "scallop" -> ScallopPositions

\* What a simulation counts a new borrow for: NAVI asks the protocol; the others
\* take estimateBorrowUsd, which has no weight, and is 0 for a coin that no market
\* lists or prices.
Counted(protocol, amount) == IF protocol = "navi" THEN {amount} ELSE {amount, 0}

\* simulateHealthFactorAfterBorrow: over the positions it is given, where the
\* unweighted borrow is added to the weighted debt,
OverPositions(positions, counted) == {<<positions.health[1], positions.health[2] + counted>>}

\* or by the protocol itself, 0 when that fails.
NaviSimulated(counted) == {<<limit["navi"], debt["navi"] + counted>>, <<0, 1>>}

Simulated(protocol, positions, counted) ==
    IF protocol = "navi" THEN NaviSimulated(counted) ELSE OverPositions(positions, counted)

\* Whether the client builds its transaction.  Suilend wants the obligation and
\* its cap for all but a supply; Scallop looks one up when it has none.
SuilendBuilds(kind, positions) == kind # "supply" => positions.obligation
NaviBuilds(kind) == kind \in {"supply", "withdraw", "borrow", "repay"}
ScallopBuilds(kind) == kind \in {"borrow", "repay"} => limit["scallop"] > 0

Builds(kind, protocol, positions) ==
    CASE protocol = "suilend" -> SuilendBuilds(kind, positions)
      [] protocol = "navi"    -> NaviBuilds(kind)
      [] protocol = "scallop" -> ScallopBuilds(kind)

\* Shares to redeem for an underlying amount: rounded down, all of them when the
\* amount reaches the deposit.
underlyingToCtokenValue(requested, held, deposited) ==
    IF requested >= deposited THEN held ELSE (requested * held) \div deposited

underlyingToSCoinAmount(requested, held, deposited) ==
    IF deposited <= 0 \/ requested >= deposited THEN held
    ELSE LET coins == (requested * held) \div deposited
         IN  IF coins > held THEN held ELSE coins

\* Shares a withdraw takes; NAVI is asked in underlying.
Redeemed(protocol, amount) ==
    LET held      == shares[protocol]
        deposited == held * UnitsPerShare
    IN  CASE protocol = "suilend" -> underlyingToCtokenValue(amount, held, deposited)
          [] protocol = "scallop" -> underlyingToSCoinAmount(amount, held, deposited)
          [] protocol = "navi"    -> IF amount >= deposited THEN held ELSE amount \div UnitsPerShare

\* Mutant: no look at the wallet's owner caps.
CreateAlways(protocol) == protocol = "suilend"

\* buildSupplyTx: the first supply creates the obligation inside its transaction.
CreatesObligation(protocol) == protocol = "suilend" /\ obligations = 0

\* What a transaction does on chain when it lands.  The protocol keeps borrows
\* within its limit and never repays more than is owed.
Lands(kind, protocol, amount, creates, tx) ==
    /\ Cardinality(landed) < MaxLanded
    /\ kind = "borrow" => Weighted(protocol, debt[protocol] + amount) <= limit[protocol]
    /\ kind = "withdraw" => shares[protocol] > 0
    /\ debt' = [debt EXCEPT ![protocol] =
          CASE kind = "borrow" -> @ + amount
            [] kind = "repay"  -> IF amount > @ THEN 0 ELSE @ - amount
            [] OTHER           -> @]
    /\ shares' = [shares EXCEPT ![protocol] =
          CASE kind = "supply"   -> @ + amount \div UnitsPerShare
            [] kind = "withdraw" -> @ - Redeemed(protocol, amount)
            [] OTHER             -> @]
    /\ obligations' = obligations + (IF creates THEN 1 ELSE 0)
    /\ landed' = landed \cup {tx}
    /\ UNCHANGED limit

\* executeSupply, executeWithdraw, executeBorrow, executeRepay end in
\* signAndExecute: it returns a digest once its transaction landed; it throws
\* because the transaction failed, or because waiting for it did although it
\* landed.
signAndExecute(kind, protocol, amount, creates, tx, answer) ==
    \/ answer = "digest" /\ Lands(kind, protocol, amount, creates, tx)
    \/ answer = "threw" /\ UNCHANGED chainVars
    \/ answer = "threw" /\ Lands(kind, protocol, amount, creates, tx)

\* Prices move at any time, and with them the limit.
PricesMove(protocol, l) ==
    /\ limit' = [limit EXCEPT ![protocol] = l]
    /\ UNCHANGED <<shares, debt, obligations, reserveMap, landed>>
=============================================================================
