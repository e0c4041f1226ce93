---------------------------- MODULE MCDecision ----------------------------
(* Constant values of the TLC runs of Decision. *)
EXTENDS Decision, TLC

CONSTANTS t1, t2, navi, naviV2, old, new, k1, k2

\* Two implementations of one adapter, so that the deployer can swap them.
MCAdapters2 == {navi, naviV2}
MCHome2 == (navi :> 2) @@ (naviV2 :> 2)
MCBindings2 == {<<2, navi>>, <<2, naviV2>>}

MCAdapters1 == {navi}
MCHome1 == (navi :> 2)
MCBindings1 == {<<2, navi>>}

MCProtocols == {2}
MCTerms == {[perTxCap |-> 1, periodCap |-> 2, periodMs |-> 1, expiryMs |-> 2]}

MCKeys == {k1, k2}
MCImageOf == (k1 :> old) @@ (k2 :> new)
MCImageOf1 == (k1 :> old)

MkIntent(t, cap, n, e, k) ==
    [treasury |-> t, agentCap |-> cap, nonce |-> n, expiresAt |-> e, kind |-> k,
     protocol |-> 2, amount |-> 1]

\* Nonces 0..3 with a short-lived one among them, and an unknown kind.
MCIntents1 ==
    {MkIntent(t1, t1, n, 1, 0) : n \in 0..3} \cup {MkIntent(t1, t1, 3, 0, 0),
     MkIntent(t1, t1, 2, 1, 1)}
=============================================================================
