---------------------------- MODULE TreasuryVault ----------------------------
(* Treasury implements BoundedVault, under the mapping given here. *)
EXTENDS Treasury

MandateOf(t) ==
    CASE t \notin created -> "none"
      [] t \in created /\ treasury[t].agent = NoAgent -> "closed"
      [] OTHER -> "open"

\* The quota of a treasury without a period is what may ever enter it.
QuotaOf(t) ==
    CASE t \notin created -> 0
      [] t \in created /\ terms[t].periodMs = 0 -> MaxInflow
      [] OTHER -> MaxWindows(t) * terms[t].periodCap

Vault == INSTANCE BoundedVault WITH
    Vaults  <- Treasuries,
    mandate <- [t \in Treasuries |-> MandateOf(t)],
    idle    <- [t \in Treasuries |-> treasury[t].funds],
    paid    <- [t \in Treasuries |-> hist[t].withdrawn + hist[t].redeemed],
    working <- AtWork,
    used    <- [t \in Treasuries |-> spend[t].released],
    quota   <- [t \in Treasuries |-> QuotaOf(t)]

\* Every treasury transaction is a step of the vault or leaves it unchanged:
\* whatever the windows, receipts and re-custodying do, the owner sees coins
\* that are idle, at work or paid, under one mandate with a lifetime quota.
ImplementsVault == Vault!VaultSpec
=============================================================================
