-------------------------- MODULE MCTreasuryRelay --------------------------
(* Pools and deployments of the relay, each for one question. *)
EXTENDS TreasuryRelay, TLC

CONSTANTS c1, c2

\* Rates in 0.001 percent, utilizations in parts of 10000.
Kinked(at, low, high) == (0 :> 0) @@ (at :> low) @@ (10000 :> high)

Pool(supplied, borrowed, rates, spot) ==
    [supplied |-> supplied, borrowed |-> borrowed, limit |-> Uncapped, rates |-> rates,
     borrowApr |-> spot, supplyApr |-> (spot * 9 * borrowed) \div (10 * supplied),
     spreadPct |-> 10, boost |-> 0]

\* Below their kinks: every marginal yield falls.
Suilend == Pool(100, 80, Kinked(8000, 5000, 50000), 5000)
Navi == Pool(60, 48, [optimal |-> 8000, base |-> 0, multiplier |-> 4500, jump |-> 25500], 4500)
Scallop == Pool(60, 48, [mid |-> 8000, high |-> 9000, base |-> 0, atMid |-> 4500,
                         atHigh |-> 17250, max |-> 30000], 4500)

\* Nearly everything is borrowed: the yield falls steeply, then no more.
Steep == Pool(40, 38, Kinked(8000, 5000, 90000), 68750)

Terms(perTxCap, periodCap, periodMs) ==
    [perTxCap |-> perTxCap, periodCap |-> periodCap, periodMs |-> periodMs, expiryMs |-> 4]

\* Two pools, and a budget that takes several transactions.
Plain ==
    [vaulted |-> TRUE, paused |-> FALSE, allowed |-> {"suilend", "navi"}, write |-> {"suilend", "navi"},
     refs |-> {"suilend", "navi"}, above |-> FALSE, flaky |-> {"navi"}, moving |-> {}, skew |-> 0,
     funds |-> 14, terms |-> Terms(4, 12, 2), maxSupplyRaw |-> 9, minIdleRaw |-> 3,
     pools |-> ("suilend" :> Suilend) @@ ("navi" :> Navi)]

\* The whole budget in one transaction, the agent's clock behind.
Whole == [Plain EXCEPT !.terms = Terms(12, 12, 2), !.skew = -1, !.flaky = {}]

\* The agent's clock ahead, Suilend not configured, and a pool that jumps.
Ahead ==
    [Whole EXCEPT !.skew = 1, !.refs = {"navi"}, 
                  !.pools = ("suilend" :> Steep) @@ ("navi" :> Navi)]

\* The doubles end on the other side of the jump.
AheadAbove == [Ahead EXCEPT !.above = TRUE]

\* Limits: one pool with little room, one with none.
Limited ==
    [Whole EXCEPT !.skew = 0, !.moving = {"scallop"}, !.allowed = {"suilend", "scallop"}, !.refs = {"suilend", "scallop"},
                  !.write = {"suilend", "scallop"},
                  !.pools = ("suilend" :> [Suilend EXCEPT !.limit = 105])
                            @@ ("scallop" :> [Scallop EXCEPT !.limit = 64])]

Full == [Limited EXCEPT !.pools["scallop"].limit = 60]

\* A period that only the agent's doubles can count.
Endless ==
    [Whole EXCEPT !.skew = 0, !.terms.periodMs = MaxU64, !.allowed = {"suilend"}, !.refs = {"suilend"},
                  !.write = {"suilend"}, !.pools = "suilend" :> Suilend]

\* The agent's wallet, no treasury; and the pause for the loop strategy.
Wallet ==
    [Plain EXCEPT !.vaulted = FALSE, !.moving = {"suilend", "navi"}, !.flaky = {"suilend"},
                  !.minIdleRaw = 0, !.pools["navi"].boost = 200]
Choosy == [Wallet EXCEPT !.minIdleRaw = 5]
Paused == [Wallet EXCEPT !.paused = TRUE]

\* Three pools alike, all above their kinks: their yields jump at one water line.
Alike ==
    [AheadAbove EXCEPT !.skew = 0, !.allowed = {"suilend", "navi", "scallop"}, !.refs = @ \cup {"suilend", "scallop"},
                       !.pools = ("suilend" :> Steep)
          @@ ("navi" :> [Steep EXCEPT !.rates = [optimal |-> 8000, base |-> 0, multiplier |-> 5000,
                                                 jump |-> 85000]])
          @@ ("scallop" :> [Steep EXCEPT !.rates = [mid |-> 4000, high |-> 8000, base |-> 0, atMid |-> 2500,
                                                    atHigh |-> 5000, max |-> 90000]])]

MCDeployments == {Plain, Whole, Ahead, AheadAbove, Limited, Full, Endless, Wallet, Choosy, Paused}
MCAlike == {Alike}
MCCalls == {c1, c2}
MCSymmetry == Permutations(MCCalls)
=============================================================================
