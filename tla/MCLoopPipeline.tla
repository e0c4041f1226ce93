--------------------------- MODULE MCLoopPipeline ---------------------------
(* Constant values of the TLC runs of LoopPipeline. *)
EXTENDS LoopPipeline, TLC

CONSTANTS s1, s2, main

\* The executor's timer and the main agent's tool call, each with its own run.
MCRunOf == (s1 :> "executor") @@ (s2 :> main)

MCEmpty == [p \in Protocols |-> {}]
MCWallets == {MCEmpty}
\* A wallet with collateral that existing-collateral loops can borrow against.
MCFunded == {[MCEmpty EXCEPT ![1] = {"collateral"}]}

\* Others repay, or borrow, what a loop borrows; or nobody moves anything.
MCDebtShared == {<<1, "debt">>}
MCOwn == {}

MCFresh == [fresh |-> TRUE, from |-> 1, to |-> 2, sound |-> TRUE]
MCExisting == [MCFresh EXCEPT !.fresh = FALSE]
MCUnsound == [MCFresh EXCEPT !.to = 1, !.sound = FALSE]

MCOneShape == {MCExisting}
MCTwoShapes == {MCFresh, MCUnsound}
=============================================================================
