------------------------------ MODULE Treasury ------------------------------
(***************************************************************************)
(* The on-chain treasury of capability.move together with the receipt      *)
(* custody done by the protocol adapter packages.  A Move transaction is   *)
(* atomic: an abort undoes every write it made, so each transaction is one *)
(* action and each assert! a conjunct of its guard.                        *)
(*                                                                         *)
(* capability::new mints exactly one AgentCap and one OwnerCap for the     *)
(* treasury it creates and nothing else mints either, so both caps are     *)
(* named by the treasury they were minted for: "cap" and "owner"           *)
(* parameters below range over treasuries, and cap.treasury is the cap.    *)
(*                                                                         *)
(* Who may ask for a release (enclave signature, adapter allowlist, nonce) *)
(* is module Decision; here any caller reaches SupplyThroughAdapter, as    *)
(* the unit tests do with release_with_ticket_for_testing.                 *)
(***************************************************************************)
EXTENDS Integers, Sequences, FiniteSets, Functions

CONSTANTS
    Treasuries,   \* ids of treasuries that may be created
    Protocols,    \* u8 protocol ids, the PositionKey of a receipt
    Adapters,     \* adapter packages (their witness types)
    Home,         \* [Adapters -> Protocols]: the PROTOCOL_* constant of each
    Closing,      \* adapters whose owner_redeem destroys the receipt
    Terms,        \* spend bounds an owner may create a treasury with
    Amounts,      \* amounts a transaction may name
    MaxU64,       \* width of the Move integers
    NoAgent,      \* option::none in Treasury.agent
    NoReceipt,    \* no dynamic field under that PositionKey
    MaxNow,       \* bound: the clock stops here
    MaxInflow,    \* bound: coins that may enter one treasury
    MaxMinted,    \* bound: once so many receipts were minted nobody opens one
    MaxBrought    \* bound: coins holders supply to the protocols themselves

TermsType == [perTxCap : Nat, periodCap : Nat, periodMs : Nat, expiryMs : Nat]

ASSUME TreasuryAssumption ==
    /\ IsFiniteSet(Treasuries) /\ IsFiniteSet(Protocols)
    /\ Home \in [Adapters -> Protocols]
    /\ Closing \subseteq Adapters
    /\ Terms \subseteq TermsType
    /\ Amounts \subseteq Nat
    /\ MaxU64 \in Nat
    /\ MaxNow \in Nat
    /\ MaxInflow \in Nat
    /\ MaxMinted \in Nat /\ MaxBrought \in Nat
    /\ NoAgent \notin Treasuries
    /\ NoReceipt \notin [adapter : Adapters, amount : Nat, born : Nat]

VARIABLES
    now,        \* Clock.timestamp_ms
    created,    \* treasuries that exist
    treasury,   \* the mutable fields of each Treasury object
    terms,      \* its spend bounds, fixed by new
    custody,    \* receipt stored under each PositionKey
    loose,      \* receipts in no treasury: taken out by an owner or opened
                \* at the protocol itself; objects that anyone may pass on
    minted,     \* receipts minted so far, the last object id
    brought,    \* history: coins that holders supplied to the protocols
                \* themselves, less what they took back there
    hist,       \* history: when it was created, coins in and coins paid out
    spend       \* history: coins released in all, window rolls, each release

vars == <<now, created, treasury, terms, custody, loose, minted, brought, hist, spend>>

-----------------------------------------------------------------------------
(* Types.  A receipt is a MockPosition, AccountCap, ObligationOwnerCap or  *)
(* ScallopPosition: its adapter stands for the receipt's Move type, its    *)
(* amount for the principal behind it, and born for its object id.         *)

Receipt == [adapter : Adapters, amount : Nat, born : Nat]

TreasuryType ==
    [agent : Treasuries \cup {NoAgent}, funds : Nat, spent : Nat, start : Nat]

Release == [amount : Nat, at : Nat]

History == [bornAt : Nat, inflow : Nat, withdrawn : Nat, redeemed : Nat]

Spending == [released : Nat, rolls : Nat, log : Seq(Release)]

TypeOK ==
    /\ now \in Nat
    /\ created \subseteq Treasuries
    /\ treasury \in [Treasuries -> TreasuryType]
    /\ terms \in [Treasuries -> TermsType]
    /\ custody \in [Treasuries -> [Protocols -> Receipt \cup {NoReceipt}]]
    /\ loose \subseteq Receipt
    /\ minted \in Nat /\ brought \in Int
    /\ hist \in [Treasuries -> History]
    /\ spend \in [Treasuries -> Spending]

\* Nothing exists before its transaction; the values of a treasury that is
\* not in "created" are placeholders.
Init ==
    /\ now = 0
    /\ created = {}
    /\ treasury = [t \in Treasuries |->
                     [agent |-> NoAgent, funds |-> 0, spent |-> 0, start |-> 0]]
    /\ terms = [t \in Treasuries |->
                  [perTxCap |-> 0, periodCap |-> 0, periodMs |-> 0, expiryMs |-> 0]]
    /\ custody = [t \in Treasuries |-> [p \in Protocols |-> NoReceipt]]
    /\ loose = {} /\ minted = 0 /\ brought = 0
    /\ hist = [t \in Treasuries |->
                 [bornAt |-> 0, inflow |-> 0, withdrawn |-> 0, redeemed |-> 0]]
    /\ spend = [t \in Treasuries |-> [released |-> 0, rolls |-> 0, log |-> <<>>]]

-----------------------------------------------------------------------------
(* The clock and the owner's transactions.                                 *)

Tick ==
    /\ now < MaxNow
    /\ now' = now + 1
    /\ UNCHANGED <<created, treasury, terms, custody, loose, minted, brought, hist, spend>>

Create(t, bounds, amount) ==
    /\ t \notin created
    /\ amount <= MaxInflow
    /\ created' = created \cup {t}
    /\ treasury' = [treasury EXCEPT ![t] =
                      [agent |-> t, funds |-> amount, spent |-> 0, start |-> now]]
    /\ terms' = [terms EXCEPT ![t] = bounds]
    /\ hist' = [hist EXCEPT ![t] =
                  [bornAt |-> now, inflow |-> amount, withdrawn |-> 0, redeemed |-> 0]]
    /\ UNCHANGED <<now, custody, loose, minted, brought, spend>>

\* deposit: anyone may add funds.
Deposit(t, amount) ==
    /\ t \in created
    /\ hist[t].inflow + amount <= MaxInflow
    /\ treasury' = [treasury EXCEPT ![t].funds = @ + amount]
    /\ hist' = [hist EXCEPT ![t].inflow = @ + amount]
    /\ UNCHANGED <<now, created, terms, custody, loose, minted, brought, spend>>

\* The assertion owner.treasury == object::id(treasury) of every owner call.
OwnerCapMatches(t, owner) == owner = t

\* Mutant: the funds are not compared with the amount.
WithdrawUnchecked(t, owner, amount) ==
    /\ {t, owner} \subseteq created
    /\ OwnerCapMatches(t, owner)
    /\ treasury' = [treasury EXCEPT ![t].funds = @ - amount]
    /\ hist' = [hist EXCEPT ![owner].withdrawn = @ + amount]
    /\ UNCHANGED <<now, created, terms, custody, loose, minted, brought, spend>>

\* The coin goes to whoever holds the cap: hist of that owner counts it.
WithdrawPrincipal(t, owner, amount) ==
    /\ {t, owner} \subseteq created
    /\ OwnerCapMatches(t, owner)
    /\ amount <= treasury[t].funds
    /\ treasury' = [treasury EXCEPT ![t].funds = @ - amount]
    /\ hist' = [hist EXCEPT ![owner].withdrawn = @ + amount]
    /\ UNCHANGED <<now, created, terms, custody, loose, minted, brought, spend>>

Revoke(t, owner) ==
    /\ {t, owner} \subseteq created
    /\ OwnerCapMatches(t, owner)
    /\ treasury' = [treasury EXCEPT ![t].agent = NoAgent]
    /\ UNCHANGED <<now, created, terms, custody, loose, minted, brought, hist, spend>>

OwnerTakeReceipt(t, owner, p) ==
    /\ {t, owner} \subseteq created
    /\ OwnerCapMatches(t, owner)
    /\ custody[t][p] # NoReceipt
    /\ custody' = [custody EXCEPT ![t][p] = NoReceipt]
    /\ loose' = loose \cup {custody[t][p]}
    /\ UNCHANGED <<now, created, treasury, terms, minted, brought, hist, spend>>

\* Mutant: the slot is not asked to be free, and what lay there is lost.
OwnerRecustodyOver(t, owner, p, receipt) ==
    /\ {t, owner} \subseteq created
    /\ OwnerCapMatches(t, owner)
    /\ custody' = [custody EXCEPT ![t][p] = receipt]
    /\ loose' = loose \ {receipt}
    /\ UNCHANGED <<now, created, treasury, terms, minted, brought, hist, spend>>

\* The owner names the protocol id and brings a receipt: neither need be the
\* one of the protocol, or of the treasury, that the receipt came from.
OwnerRecustody(t, owner, p, receipt) ==
    /\ {t, owner} \subseteq created
    /\ OwnerCapMatches(t, owner)
    /\ receipt \in loose
    /\ custody[t][p] = NoReceipt
    /\ custody' = [custody EXCEPT ![t][p] = receipt]
    /\ loose' = loose \ {receipt}
    /\ UNCHANGED <<now, created, treasury, terms, minted, brought, hist, spend>>

\* NAVI's AccountCap and Suilend's ObligationOwnerCap are objects of those
\* protocols: anyone may open one there, empty.  The positions of the Scallop
\* and the mock adapter are made by the adapter alone.
OpenPosition(a) ==
    /\ a \notin Closing
    /\ minted < MaxMinted
    /\ minted' = minted + 1
    /\ loose' = loose \cup {[adapter |-> a, amount |-> 0, born |-> minted + 1]}
    /\ UNCHANGED <<now, created, treasury, terms, custody, brought, hist, spend>>

\* Whoever holds such a receipt supplies to the protocol, or redeems there,
\* without the adapter.
HolderTrades(receipt, amount) ==
    /\ receipt.adapter \notin Closing
    /\ brought + amount - receipt.amount <= MaxBrought
    /\ loose' = (loose \ {receipt}) \cup {[receipt EXCEPT !.amount = amount]}
    /\ brought' = brought + amount - receipt.amount
    /\ UNCHANGED <<now, created, treasury, terms, custody, minted, hist, spend>>

Worth(receipt) == IF receipt = NoReceipt THEN 0 ELSE receipt.amount

\* What owner_redeem of adapter a may be asked for.
Redeemable(t, a) == 0..Worth(custody[t][Home[a]])

\* owner_redeem of adapter a: owner_take_receipt under the adapter's own
\* PROTOCOL constant, the protocol pays out, and the NAVI and Suilend adapters
\* put the receipt back.  dof::remove aborts on a receipt of another type.
OwnerRedeem(t, owner, a, amount) ==
    LET p == Home[a]
        receipt == custody[t][p]
    IN  /\ {t, owner} \subseteq created
        /\ OwnerCapMatches(t, owner)
        /\ receipt # NoReceipt
        /\ receipt.adapter = a
        /\ \/ /\ a \in Closing
              /\ amount = receipt.amount
              /\ custody' = [custody EXCEPT ![t][p] = NoReceipt]
           \/ /\ a \notin Closing
              /\ amount <= receipt.amount
              /\ custody' = [custody EXCEPT ![t][p].amount = @ - amount]
        /\ hist' = [hist EXCEPT ![owner].redeemed = @ + amount]
        /\ UNCHANGED <<now, created, treasury, terms, loose, minted, brought, spend>>

-----------------------------------------------------------------------------
(* The agent's bounded release.                                            *)

\* period_start_ms + period_ms, which aborts when it does not fit 64 bits.
WindowEnds(t) == treasury[t].start + terms[t].periodMs

WindowElapsed(t) == now >= WindowEnds(t)

\* Mutant: a new window keeps the spend of the old one.
SpentCarriedOver(t) == treasury[t].spent

\* period_start_ms and spent_in_period once the window was rolled if it had
\* elapsed, before this release is counted.
WindowStart(t) == IF WindowElapsed(t) THEN now ELSE treasury[t].start

SpentBefore(t) == IF WindowElapsed(t) THEN 0 ELSE treasury[t].spent

\* Mutant: the period cap is asked of the amount, not of the window's total.
CapsOnAmount(t, amount) == amount <= terms[t].perTxCap /\ amount <= terms[t].periodCap

WithinCaps(t, amount) ==
    /\ amount <= terms[t].perTxCap
    /\ SpentBefore(t) + amount <= terms[t].periodCap

\* Mutant: revoking does not end the cap.
ActiveAfterRevoke(t, cap) == cap = t /\ now < terms[t].expiryMs

\* Mutant: expiry is not checked.
ActiveAfterExpiry(t, cap) == cap = t /\ treasury[t].agent = cap

AgentActive(t, cap) ==
    /\ cap = t                       \* EWrongTreasury
    /\ treasury[t].agent = cap       \* ENotActiveAgent
    /\ now < terms[t].expiryMs       \* ECapabilityExpired

\* release_with_ticket: the coin it splits off is handed on with the ticket.
ReleaseWithTicket(t, cap, amount) ==
    /\ AgentActive(t, cap)
    /\ WindowEnds(t) <= MaxU64
    /\ SpentBefore(t) + amount <= MaxU64
    /\ WithinCaps(t, amount)
    /\ amount <= treasury[t].funds
    /\ treasury' = [treasury EXCEPT ![t] =
                      [agent |-> @.agent,
                       funds |-> @.funds - amount,
                       spent |-> SpentBefore(t) + amount,
                       start |-> WindowStart(t)]]
    /\ spend' = [spend EXCEPT ![t] =
                   [released |-> @.released + amount,
                    rolls |-> IF WindowElapsed(t) THEN @.rolls + 1 ELSE @.rolls,
                    log |-> Append(@.log, [amount |-> amount, at |-> now])]]

\* The ticket leaves the adapter one way out: deposit into the receipt already
\* held for the protocol, whoever's coins it stands for, or custody a fresh one.
\* borrow_mut aborts when the held receipt has another type.
DischargeTicket(t, a, p, amount) ==
    \/ /\ custody[t][p] # NoReceipt
       /\ custody[t][p].adapter = a
       /\ custody' = [custody EXCEPT ![t][p].amount = @ + amount]
       /\ UNCHANGED minted
    \/ /\ custody[t][p] = NoReceipt
       /\ minted' = minted + 1
       /\ custody' = [custody EXCEPT ![t][p] =
                        [adapter |-> a, amount |-> amount, born |-> minted + 1]]

SupplyThroughAdapter(t, cap, a, p, amount) ==
    /\ {t, cap} \subseteq created
    /\ ReleaseWithTicket(t, cap, amount)
    /\ DischargeTicket(t, a, p, amount)
    /\ UNCHANGED <<now, created, terms, loose, brought, hist>>

-----------------------------------------------------------------------------

OwnerNext ==
    \E t \in Treasuries :
       \/ \E bounds \in Terms, amount \in Amounts : Create(t, bounds, amount)
       \/ \E amount \in Amounts : Deposit(t, amount)
       \/ \E owner \in Treasuries :
             \/ \E amount \in Amounts : WithdrawPrincipal(t, owner, amount)
             \/ Revoke(t, owner)
             \/ \E p \in Protocols : OwnerTakeReceipt(t, owner, p)
             \/ \E p \in Protocols : \E receipt \in loose :
                   OwnerRecustody(t, owner, p, receipt)
             \/ \E a \in Adapters : \E amount \in Redeemable(t, a) :
                   OwnerRedeem(t, owner, a, amount)

SupplyNext ==
    \E t, cap \in Treasuries, a \in Adapters, p \in Protocols, amount \in Amounts :
       SupplyThroughAdapter(t, cap, a, p, amount)

HolderNext ==
    \/ \E a \in Adapters : OpenPosition(a)
    \/ \E receipt \in loose, amount \in Amounts \cup {0} : HolderTrades(receipt, amount)

Next == Tick \/ OwnerNext \/ HolderNext \/ SupplyNext

Spec == Init /\ [][Next]_vars

-----------------------------------------------------------------------------
(* Properties.                                                             *)

\* Sum of the amounts of the releases of t whose number lies in "numbers".
AmountOf(t, numbers) == SumFunction([i \in numbers |-> spend[t].log[i].amount])

\* Principal behind the receipts that lie in t.
InCustody(t) == SumFunction([p \in Protocols |-> Worth(custody[t][p])])

\* Principal behind all receipts, in whichever treasury they lie, or in none.
AtWork ==
    SumFunction([t \in Treasuries |-> InCustody(t)]) + SumFunction([r \in loose |-> r.amount])

\* Every coin that entered a treasury is still its funds, was withdrawn by its
\* own owner, or was released; and of all coins released, with those that
\* holders supplied themselves, each is behind exactly one receipt or was
\* redeemed by an owner, however often receipts were taken out, traded, put
\* back under another id or into another treasury (release_with_ticket,
\* custody_new, owner_take_receipt, owner_recustody, the adapters' owner_redeem).
Conservation ==
    /\ \A t \in created :
          hist[t].inflow = treasury[t].funds + hist[t].withdrawn + spend[t].released
    /\ SumFunction([t \in Treasuries |-> spend[t].released]) + brought
          = AtWork + SumFunction([t \in Treasuries |-> hist[t].redeemed])

\* spent_in_period is what was released since period_start_ms, so a roll of the
\* window neither forgets a release of the new window nor carries over one of
\* the old (release_with_ticket's roll happens before the spend is added).
SpentIsWindowTotal ==
    \A t \in created : terms[t].periodMs > 0 =>
       treasury[t].spent =
          AmountOf(t, {i \in DOMAIN spend[t].log : spend[t].log[i].at >= treasury[t].start})

\* Releases of t made less than one period after the i-th, the i-th included.
SpanFrom(t, i) ==
    {j \in i..Len(spend[t].log) : spend[t].log[j].at - spend[t].log[i].at < terms[t].periodMs}

\* Windows tumble: however the releases straddle a boundary, any span of
\* period_ms sees at most two windows' worth of the period cap.
TwoWindowsPerSpan ==
    \A t \in created : \A i \in DOMAIN spend[t].log :
       AmountOf(t, SpanFrom(t, i)) <= 2 * terms[t].periodCap

\* Windows that can start before the agent's authority expires.
MaxWindows(t) ==
    LET life == terms[t].expiryMs - hist[t].bornAt
    IN  IF life <= 0 THEN 1 ELSE 1 + (life \div terms[t].periodMs)

\* The most the agent can ever move out of a treasury, over its whole life and
\* whatever it does, is one period cap per window that fits before expiry.
LifetimeExposure ==
    \A t \in created : terms[t].periodMs > 0 =>
       spend[t].released <= MaxWindows(t) * terms[t].periodCap

\* What a step does to a treasury whose mandate was revoked or has expired.
MandateKept(t) ==
    (treasury[t].agent = NoAgent \/ now >= terms[t].expiryMs) =>
       /\ spend'[t].released = spend[t].released
       /\ Len(spend'[t].log) = Len(spend[t].log)
       /\ treasury[t].agent = NoAgent => treasury'[t].agent = NoAgent

\* Once the owner revoked, or the expiry passed, nothing is ever released again
\* and no transaction puts an agent back (revoke, ENotActiveAgent and
\* ECapabilityExpired in release_with_ticket).
MandateEndsForGood == [][\A t \in created : MandateKept(t)]_vars

=============================================================================
