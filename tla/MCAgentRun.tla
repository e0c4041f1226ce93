----------------------------- MODULE MCAgentRun -----------------------------
(* Deployments of the main agent, each with its own part of the state space. *)
EXTENDS AgentRun, TLC

CONSTANTS s1, s2

Nothing == [p \in LendingProtocols |-> 0]

Steady == [p \in LendingProtocols |-> {}]

Spelled(kind, protocol, asset, amount) == [kind |-> kind, protocol |-> protocol, asset |-> asset, amount |-> amount]

Ask(kind, protocol, amount) == Spelled(kind, protocol, "usdc", amount)

\* Live supplies with tweets, memory on Walrus; the blob to restore is not ours.
Supplier ==
    [enabled |-> TRUE, dryRun |-> FALSE, keyed |-> TRUE, treasury |-> FALSE,
     protocols |-> {"suilend"}, allowedProtocols |-> {"suilend"}, write |-> {"suilend"},
     enablePositionCreation |-> TRUE, enableBorrow |-> FALSE, allowedAssets |-> {"usdc"},
     maxSupplyRaw |-> 2, maxBorrowRaw |-> 1, minHealthFactor |-> 1,
     maxToolRounds |-> 1, posting |-> TRUE, backend |-> "walrus", stateBlobId |-> Foreign,
     borrowAsset |-> "usdc", loopCollateral |-> "none",
     shares |-> Nothing, debt |-> Nothing, limit |-> Nothing, prices |-> Steady,
     looping |-> {},
     requests |-> {Ask("supply", "suilend", 2)}]

\* A machine with an older blob of this wallet to restore, no tweets.
Restored == [Supplier EXCEPT !.stateBlobId = createEmptyAgentState, !.posting = FALSE]

\* Memory in the file, several rounds, no allowlist and two spellings of the coin.
Speller ==
    [Supplier EXCEPT !.backend = "file", !.stateBlobId = NoBlob, !.posting = FALSE,
                     !.maxToolRounds = 2, !.allowedAssets = {},
                     !.requests = {Ask("supply", "suilend", 2), Spelled("supply", "suilend", UsdcCoinType, 2)}]

\* Borrows on two protocols whose prices move, memory in the file, no tweets.
Borrower ==
    [Supplier EXCEPT !.protocols = {"suilend", "navi"}, !.allowedProtocols = {"suilend", "navi"},
                     !.write = {"suilend", "navi"}, !.enablePositionCreation = FALSE,
                     !.enableBorrow = TRUE, !.posting = FALSE,
                     !.backend = "file", !.stateBlobId = NoBlob,
                     !.requests = {Ask("borrow", "suilend", 1)}, !.maxBorrowRaw = 2,
                     !.minHealthFactor = 2, !.prices = [Steady EXCEPT !["suilend"] = {2, 6}], !.looping = {"suilend"},
                     !.debt = [Nothing EXCEPT !["suilend"] = 1, !["navi"] = 1],
                     !.limit = [Nothing EXCEPT !["suilend"] = 6, !["navi"] = 2]]

\* The guard alone, over memory on Walrus with an older blob to restore.
Repayer ==
    [Borrower EXCEPT !.backend = "walrus", !.stateBlobId = createEmptyAgentState, !.looping = {},
                     !.maxBorrowRaw = 1, !.requests = {}, !.prices = Steady,
                     !.limit = [Nothing EXCEPT !["suilend"] = 1]]

\* Scallop, planned only.
Planner ==
    [Borrower EXCEPT !.dryRun = TRUE, !.keyed = FALSE, !.protocols = {"scallop"},
                     !.allowedProtocols = {"scallop"}, !.write = {"scallop"},
                     !.requests = {Ask("borrow", "scallop", 1)},
                     !.prices = [Steady EXCEPT !["scallop"] = {2, 6}],
                     !.debt = [Nothing EXCEPT !["scallop"] = 2],
                     !.limit = [Nothing EXCEPT !["scallop"] = 2]]

\* Moves funds between NAVI and Scallop, no cap on the assets.
Mover ==
    [Borrower EXCEPT !.enableBorrow = FALSE, !.enablePositionCreation = TRUE, !.allowedAssets = {},
                     !.protocols = {"navi", "scallop"}, !.allowedProtocols = {"navi", "scallop"},
                     !.write = {"navi", "scallop"}, !.prices = Steady, !.maxToolRounds = 1,
                     !.requests = {Ask("withdraw", "scallop", 3), Ask("withdraw", "navi", 2)},
                     !.maxSupplyRaw = 3,
                     !.shares = [Nothing EXCEPT !["navi"] = 2, !["scallop"] = 2]]

MCConfigs == {Supplier, Restored, Speller, Borrower, Repayer, Planner, Mover}
MCSlots == {s1, s2}
MCSymmetry == Permutations(MCSlots)
=============================================================================
