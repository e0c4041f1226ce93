----------------------------- MODULE HealthGuard -----------------------------
(***************************************************************************)
(* healthGuard.ts: the pass over the protocols that opens every run of the *)
(* main agent.  One step reads one protocol's positions and does all that  *)
(* follows from them; nothing else of the process runs meanwhile.          *)
(***************************************************************************)
EXTENDS MemoryStore, LendingClients

VARIABLES
    config,   \* AppConfig of the deployment
    mem,      \* the state object of the run
    run       \* [id, phase, round, todo, borrows, last]; saving: the guard's repay is

guardVars == <<storeVars, chainVars, reserveMap, config, mem, run>>

\* Protocols in the order of PROTOCOLS.
Enabled ==
    LET IfOn(p) == IF config.enabled /\ p \in config.protocols \cap config.allowedProtocols
                   THEN <<p>> ELSE <<>>
    IN  IfOn("suilend") \o IfOn("navi") \o IfOn("scallop")

Transaction(kind, protocol, asset, creates) ==
    [digest |-> Cardinality(landed) + 1, kind |-> kind, protocol |-> protocol, asset |-> asset,
     coin |-> resolveCoinType(asset), creates |-> creates, run |-> run.id, round |-> run.round]

\* Mutant: the alert is not queued.
Unalerted(protocol) == mem' = mem /\ saveAgentState(mem') /\ UNCHANGED pointer

\* Left to the operator: an alert, kept locally.
Alert(protocol) ==
    /\ mem' = queueHealthAlert(mem, protocol)
    /\ saveAgentState(mem')
    /\ UNCHANGED pointer

RepayAction(protocol, asset) ==
    [run |-> run.id, protocol |-> protocol, kind |-> "repay", asset |-> asset,
     digest |-> Cardinality(landed) + 1, dryRun |-> config.dryRun,
     status |-> IF config.dryRun THEN "planned" ELSE "confirmed"]

\* A repay of the largest borrow, for the amount its client reports: refused by
\* the policy, planned, executed, or failed.
repayCritical(protocol, positions, verdict) ==
    LET amount  == Head(positions.borrows)
        refused == ~evaluateLendingWrite("repay", protocol, config.borrowAsset, amount, Infinite, config)
        tx      == Transaction("repay", protocol, config.borrowAsset, FALSE)
        record  == RepayAction(protocol, config.borrowAsset)
    IN  \/ /\ refused /\ ~config.dryRun /\ verdict = "alert"
           /\ Alert(protocol)
           /\ UNCHANGED chainVars
        \/ /\ config.dryRun /\ verdict = "alert"
           /\ mem' = queueHealthAlert(recordPositionAction(mem, record, TRUE), protocol)
           /\ saveAgentState(mem')
           /\ UNCHANGED <<pointer, chainVars>>
        \/ /\ ~refused /\ ~config.dryRun /\ verdict = "repaid"
           /\ Builds("repay", protocol, positions)
           /\ signAndExecute("repay", protocol, amount, FALSE, tx, "digest")
           /\ mem' = clearHealthAlert(recordPositionAction(mem, record, TRUE))
           /\ saveAgentState(mem')
           /\ UNCHANGED pointer
        \/ /\ ~refused /\ ~config.dryRun /\ verdict = "alert"
           /\ signAndExecute("repay", protocol, amount, FALSE, tx, "threw")
           /\ Alert(protocol)

\* One turn of the loop over the protocols.  last is what became of the last
\* critical one; a failed read is passed over.
GuardProtocol ==
    /\ run.phase = "guard" /\ run.todo # <<>>
    /\ LET protocol == Head(run.todo)
       IN  \E positions \in getPositions(protocol) :
              LET read     == positions # Failed
                  critical == read /\ evaluateHealthGuard(positions, config)
                  rest     == [run EXCEPT !.todo = Tail(@)]
              IN  /\ IF read THEN getContext(protocol) ELSE UNCHANGED reserveMap
                  /\ \/ /\ ~critical
                        /\ run' = [rest EXCEPT !.borrows = @ \/ (read /\ positions.borrows # <<>>)]
                        /\ UNCHANGED <<storeVars, chainVars, mem>>
                     \/ \E verdict \in {"alert", "repaid"} :
                           /\ critical
                           /\ run' = [[[rest EXCEPT !.borrows = TRUE] EXCEPT !.last = verdict]
                                        EXCEPT !.phase = IF verdict = "repaid" THEN "saving" ELSE "guard"]
                           /\ repayCritical(protocol, positions, verdict)
    /\ UNCHANGED config

\* The upload of the save after a repay ends, and the loop goes on.
GuardSaved ==
    /\ run.phase = "saving"
    /\ IF config.backend = "walrus" THEN Uploaded(mem) ELSE UNCHANGED storeVars
    /\ run' = [run EXCEPT !.phase = "guard"]
    /\ UNCHANGED <<chainVars, reserveMap, config, mem>>

\* After the last protocol: no borrow seen clears a pending alert.
GuardEnds ==
    /\ run.phase = "guard" /\ run.todo = <<>>
    /\ run' = [run EXCEPT !.phase = "model"]
    /\ mem' = IF config.enabled /\ ~run.borrows THEN clearHealthAlert(mem) ELSE mem
    /\ UNCHANGED <<storeVars, chainVars, reserveMap, config>>

GuardNext == GuardProtocol \/ GuardSaved \/ GuardEnds
=============================================================================
