---------------------------- MODULE BoundedVault ----------------------------
(***************************************************************************)
(* What a treasury promises its owner, with no clock, cap, nonce, enclave  *)
(* or adapter in it: coins are idle, at work or paid back to the owner;    *)
(* the mandate to put idle coins to work opens once and closes for good;   *)
(* and what is put to work over the whole mandate never exceeds a quota    *)
(* that is fixed when the vault opens.  What is at work is one pool: it is *)
(* behind receipts that may change hands between vaults, and that their    *)
(* holders may trade with the protocols.  TreasuryVault shows that         *)
(* Treasury implements it.                                                 *)
(***************************************************************************)
EXTENDS Integers

CONSTANT Vaults

VARIABLES
    mandate,   \* "none" before the vault exists, then "open", then "closed"
    idle, paid,
    working,   \* behind the receipts of all vaults
    used,      \* put to work so far
    quota      \* the most that may ever be

vaultVars == <<mandate, idle, paid, working, used, quota>>

VaultInit ==
    /\ mandate = [v \in Vaults |-> "none"]
    /\ idle = [v \in Vaults |-> 0]
    /\ paid = [v \in Vaults |-> 0]
    /\ working = 0
    /\ used = [v \in Vaults |-> 0]
    /\ quota = [v \in Vaults |-> 0]

Open(v) ==
    /\ mandate[v] = "none"
    /\ mandate' = [mandate EXCEPT ![v] = "open"]
    /\ idle'[v] \in Nat /\ idle' = [idle EXCEPT ![v] = idle'[v]]
    /\ quota'[v] \in Nat /\ quota' = [quota EXCEPT ![v] = quota'[v]]
    /\ UNCHANGED <<working, paid, used>>

Fund(v) ==
    /\ mandate[v] # "none"
    /\ idle'[v] > idle[v] /\ idle' = [idle EXCEPT ![v] = idle'[v]]
    /\ UNCHANGED <<mandate, working, paid, used, quota>>

PutToWork(v) ==
    LET amount == idle[v] - idle'[v]
    IN  /\ mandate[v] = "open"
        /\ amount > 0 /\ idle'[v] >= 0
        /\ used[v] + amount <= quota[v]
        /\ idle' = [idle EXCEPT ![v] = @ - amount]
        /\ working' = working + amount
        /\ used' = [used EXCEPT ![v] = @ + amount]
        /\ UNCHANGED <<mandate, paid, quota>>

PayOwner(v) ==
    LET amount == paid'[v] - paid[v]
    IN  /\ mandate[v] # "none"
        /\ amount > 0
        /\ paid' = [paid EXCEPT ![v] = @ + amount]
        /\ \/ /\ idle[v] >= amount
              /\ idle' = [idle EXCEPT ![v] = @ - amount]
              /\ UNCHANGED working
           \/ /\ working >= amount
              /\ working' = working - amount
              /\ UNCHANGED idle
        /\ UNCHANGED <<mandate, used, quota>>

Close(v) ==
    /\ mandate[v] = "open"
    /\ mandate' = [mandate EXCEPT ![v] = "closed"]
    /\ UNCHANGED <<idle, working, paid, used, quota>>

\* Holders of receipts supply and redeem on their own account.
Trade ==
    /\ working' \in Nat
    /\ UNCHANGED <<mandate, idle, paid, used, quota>>

VaultNext ==
    \/ \E v \in Vaults : Open(v) \/ Fund(v) \/ PutToWork(v) \/ PayOwner(v) \/ Close(v)
    \/ Trade

VaultSpec == VaultInit /\ [][VaultNext]_vaultVars
=============================================================================
