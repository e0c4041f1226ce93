---------------------------- MODULE MCTreasury ----------------------------
(* Constant values of the TLC runs of Treasury. *)
EXTENDS TreasuryVault, TLC

CONSTANTS navi, scallop    \* two adapters

\* Both adapters under their own protocol ids; scallop's redeem destroys its
\* receipt, navi's puts it back.
MCAdapters == {navi, scallop}
MCProtocols == {1, 2}
MCHome == (navi :> 2) @@ (scallop :> 1)
MCClosing == {scallop}

\* One adapter is enough where only the clock and the caps matter.
MCAdapters1 == {navi}
MCProtocols1 == {2}
MCHome1 == (navi :> 2)

\* Two releases to a window, windows that tumble twice before expiry.
ShortPeriod == [perTxCap |-> 1, periodCap |-> 2, periodMs |-> 2, expiryMs |-> 5]
\* One release to a window: three windows use up LifetimeExposure exactly.
OnePerPeriod == [perTxCap |-> 2, periodCap |-> 1, periodMs |-> 2, expiryMs |-> 5]
\* start + period leaves the integers once the clock has moved.
HugePeriod == [perTxCap |-> 2, periodCap |-> 2, periodMs |-> 15, expiryMs |-> 5]
\* period_ms = 0: every release opens a window of its own.
NoPeriod == [perTxCap |-> 1, periodCap |-> 1, periodMs |-> 0, expiryMs |-> 3]

MCTermsMixed == {ShortPeriod, OnePerPeriod, HugePeriod, NoPeriod}
MCTermsShort == {ShortPeriod}

Symmetry == Permutations(Treasuries)
=============================================================================
