------------------------------- MODULE Bridge -------------------------------
(***************************************************************************)
(* The SRX token on every chain and the bridge between them.               *)
(*                                                                         *)
(* Ethereum (Hub) runs SRXToken: the genesis mint, launch limits, and       *)
(* outstandingByEid, what the hub has sent to each remote chain and not got *)
(* back.  Every other chain (a spoke) runs SRXOFTNative, which talks to the *)
(* hub only.  A send burns on the source chain and puts a message in        *)
(* flight; the message mints on the destination when it is executed.        *)
(*                                                                         *)
(* LayerZero is external: it keeps a message until lzReceive succeeds, in   *)
(* any order and with any delay, and a delivery that reverts (paused, peer  *)
(* unset, unbacked credit) can be retried.  On the links of Faulty spokes   *)
(* it may also execute a message more than once.                            *)
(***************************************************************************)
EXTENDS Totals

CONSTANTS
    Hub,             \* Ethereum
    Spokes,          \* the remote chains
    Faulty,          \* spokes whose link may repeat a delivery
    Accounts,        \* addresses, the same on every chain
    MAX_SUPPLY,      \* the cap, and what genesis mints
    ConversionRate,  \* local units per shared (bridged) unit
    PeerChoices,     \* the pairs <<c, d>> whose peer the owner of c changes
    LimitChoices,    \* values governance gives the launch limits; 0 is off
    Exemptable,      \* accounts governance exempts from the launch limits
    MaxMessages,     \* bound on the messages ever sent
    MaxBurned        \* bound on what a chain ever burns

ASSUME ChainsAssumption ==
    /\ Hub \notin Spokes
    /\ IsFiniteSet(Spokes)
    /\ Faulty \subseteq Spokes
    /\ PeerChoices \subseteq {p \in (Spokes \cup {Hub}) \X (Spokes \cup {Hub}) : p[1] # p[2]}
ASSUME AccountsAssumption == IsFiniteSet(Accounts) /\ Exemptable \subseteq Accounts
ASSUME AmountsAssumption ==
    /\ MAX_SUPPLY \in Nat \ {0}
    /\ ConversionRate \in Nat \ {0}
    /\ LimitChoices \subseteq Nat
    /\ MaxMessages \in Nat /\ MaxBurned \in Nat

Chains == Spokes \cup {Hub}

VARIABLES
    balance,             \* balance[c][a]: SRX of account a on chain c
    totalBurned,         \* totalBurned[c]: buy-and-burn on chain c
    genesisComplete,
    outstandingByEid,    \* hub accounting, per spoke
    paused,              \* paused[c]
    peers,               \* peers[c]: the chains whose OFT is a trusted peer of c
    maxTransferAmount, maxWalletBalance, isExemptFromLimits,
    inflight,            \* messages sent and not yet executed
    nonce                \* messages sent so far

limitVars == <<maxTransferAmount, maxWalletBalance, isExemptFromLimits>>
vars == <<balance, totalBurned, genesisComplete, outstandingByEid, paused, peers,
          limitVars, inflight, nonce>>

Messages == [id : Nat, src : Chains, dst : Chains, to : Accounts, amount : Nat]

\* totalSupply() of the token contract on chain c.
Supply(c) == Total(balance[c])

\* What is on its way between the hub and spoke s, in either direction.
InTransit(s) == Total([m \in {x \in inflight : s \in {x.src, x.dst}} |-> m.amount])

\* OFT sends whole shared units; the rest stays with the sender.
RemoveDust(v) == v - (v % ConversionRate)

Init ==
    /\ balance = [c \in Chains |-> [a \in Accounts |-> 0]]
    /\ totalBurned = [c \in Chains |-> 0]
    /\ genesisComplete = FALSE
    /\ outstandingByEid = [s \in Spokes |-> 0]
    /\ paused = [c \in Chains |-> FALSE]
    /\ peers = [c \in Chains |-> {}]
    /\ maxTransferAmount = 0
    /\ maxWalletBalance = 0
    /\ isExemptFromLimits = [a \in Accounts |-> FALSE]
    /\ inflight = {}
    /\ nonce = 0
-----------------------------------------------------------------------------
(***************************************************************************)
(* _update: the one place every mint, burn and transfer goes through.       *)
(***************************************************************************)
\* Launch protection, on the hub's token only.
WithinLimits(from, to, v) ==
    /\ \/ maxTransferAmount = 0
       \/ isExemptFromLimits[from] \/ isExemptFromLimits[to]
       \/ v <= maxTransferAmount
    /\ \/ maxWalletBalance = 0
       \/ isExemptFromLimits[to]
       \/ balance[Hub][to] + v <= maxWalletBalance

\* Mutant of Mint: an arrival from the bridge is held to the wallet limit.
MintLimited(c, to, v) ==
    /\ ~paused[c]
    /\ Supply(c) + v <= MAX_SUPPLY
    /\ c = Hub => WithinLimits(to, to, v)
    /\ balance' = [balance EXCEPT ![c] = Plus(balance[c], to, v)]

Mint(c, to, v) ==
    /\ ~paused[c]
    /\ Supply(c) + v <= MAX_SUPPLY
    /\ balance' = [balance EXCEPT ![c] = Plus(balance[c], to, v)]

Burn(c, from, v) ==
    /\ ~paused[c]
    /\ v <= balance[c][from]
    /\ balance' = [balance EXCEPT ![c] = Minus(balance[c], from, v)]

\* A transfer between two accounts (rescueTokens is one from the token itself).
Transfer(c, from, to, v) ==
    /\ ~paused[c]
    /\ from # to
    /\ v <= balance[c][from]
    /\ c = Hub => WithinLimits(from, to, v)
    /\ balance' = [balance EXCEPT ![c] = Plus(Minus(balance[c], from, v), to, v)]
    /\ UNCHANGED <<totalBurned, genesisComplete, outstandingByEid, paused, peers,
                   limitVars, inflight, nonce>>

\* Mutant of Genesis: nothing records that it ran.
GenesisAgain(distributor) ==
    /\ Mint(Hub, distributor, MAX_SUPPLY)
    /\ UNCHANGED <<totalBurned, genesisComplete, outstandingByEid, paused, peers,
                   limitVars, inflight, nonce>>

Genesis(distributor) ==
    /\ ~genesisComplete
    /\ genesisComplete' = TRUE
    /\ Mint(Hub, distributor, MAX_SUPPLY)
    /\ UNCHANGED <<totalBurned, outstandingByEid, paused, peers, limitVars, inflight, nonce>>

BuyAndBurn(c, a, v) ==
    /\ totalBurned[c] + v <= MaxBurned
    /\ totalBurned' = Plus(totalBurned, c, v)
    /\ Burn(c, a, v)
    /\ UNCHANGED <<genesisComplete, outstandingByEid, paused, peers, limitVars, inflight, nonce>>
-----------------------------------------------------------------------------
(***************************************************************************)
(* The bridge.                                                             *)
(***************************************************************************)
\* Mutant of HubDebit: the departure is not recorded.
HubDebitUnrecorded(d, from, v) ==
    /\ Burn(Hub, from, v)
    /\ UNCHANGED outstandingByEid

\* _debit on the hub burns and records what is now outstanding on the spoke.
HubDebit(d, from, v) ==
    /\ Burn(Hub, from, v)
    /\ outstandingByEid' = Plus(outstandingByEid, d, v)

\* _debit on a spoke burns, and sends to the hub only.
SpokeDebit(c, d, from, v) ==
    /\ d = Hub
    /\ Burn(c, from, v)
    /\ UNCHANGED outstandingByEid

\* Mutant of Send: the debit is for what was asked, the message without dust.
SendDusty(c, d, from, to, v) ==
    /\ nonce < MaxMessages
    /\ d \in peers[c]
    /\ IF c = Hub THEN HubDebit(d, from, v) ELSE SpokeDebit(c, d, from, v)
    /\ inflight' = inflight \cup {[id |-> nonce, src |-> c, dst |-> d,
                                   to |-> to, amount |-> RemoveDust(v)]}
    /\ nonce' = nonce + 1
    /\ UNCHANGED <<totalBurned, genesisComplete, paused, peers, limitVars>>

Send(c, d, from, to, v) ==
    /\ nonce < MaxMessages
    /\ d \in peers[c]
    /\ IF c = Hub THEN HubDebit(d, from, RemoveDust(v))
                  ELSE SpokeDebit(c, d, from, RemoveDust(v))
    /\ inflight' = inflight \cup {[id |-> nonce, src |-> c, dst |-> d,
                                   to |-> to, amount |-> RemoveDust(v)]}
    /\ nonce' = nonce + 1
    /\ UNCHANGED <<totalBurned, genesisComplete, paused, peers, limitVars>>

\* Mutant of HubCredit: no check of what is outstanding.
HubCreditUnchecked(m) ==
    outstandingByEid' = Minus(outstandingByEid, m.src, m.amount)

\* _credit on the hub: never more than was sent to that spoke.
HubCredit(m) ==
    /\ m.amount <= outstandingByEid[m.src]
    /\ outstandingByEid' = Minus(outstandingByEid, m.src, m.amount)

SpokeCredit(m) ==
    /\ m.src = Hub
    /\ UNCHANGED outstandingByEid

OnFaultyLink(m) == m.src \in Faulty \/ m.dst \in Faulty

\* lzReceive on the destination.  The endpoint drops an executed message,
\* except that a faulty link may keep it and execute it again.
Receive(m) ==
    /\ m \in inflight
    /\ m.src \in peers[m.dst]
    /\ IF m.dst = Hub THEN HubCredit(m) ELSE SpokeCredit(m)
    /\ Mint(m.dst, m.to, m.amount)
    /\ \/ inflight' = inflight \ {m}
       \/ OnFaultyLink(m) /\ UNCHANGED inflight
    /\ UNCHANGED <<totalBurned, genesisComplete, paused, peers, limitVars, nonce>>
-----------------------------------------------------------------------------
(***************************************************************************)
(* Administration: pausers, the bridge owner, governance.                   *)
(***************************************************************************)
Pause(c) ==
    /\ ~paused[c]
    /\ paused' = [paused EXCEPT ![c] = TRUE]
    /\ UNCHANGED <<balance, totalBurned, genesisComplete, outstandingByEid, peers,
                   limitVars, inflight, nonce>>

Unpause(c) ==
    /\ paused[c]
    /\ paused' = [paused EXCEPT ![c] = FALSE]
    /\ UNCHANGED <<balance, totalBurned, genesisComplete, outstandingByEid, peers,
                   limitVars, inflight, nonce>>

\* setPeer to the real OFT of chain d, or to zero; it works while paused.
SetPeer(c, d, on) ==
    /\ peers' = [peers EXCEPT ![c] = IF on THEN peers[c] \cup {d} ELSE peers[c] \ {d}]
    /\ UNCHANGED <<balance, totalBurned, genesisComplete, outstandingByEid, paused,
                   limitVars, inflight, nonce>>

SetMaxTransferAmount(v) ==
    /\ maxTransferAmount' = v
    /\ UNCHANGED <<balance, totalBurned, genesisComplete, outstandingByEid, paused, peers,
                   maxWalletBalance, isExemptFromLimits, inflight, nonce>>

SetMaxWalletBalance(v) ==
    /\ maxWalletBalance' = v
    /\ UNCHANGED <<balance, totalBurned, genesisComplete, outstandingByEid, paused, peers,
                   maxTransferAmount, isExemptFromLimits, inflight, nonce>>

SetExemptFromLimits(a, exempt) ==
    /\ isExemptFromLimits' = [isExemptFromLimits EXCEPT ![a] = exempt]
    /\ UNCHANGED <<balance, totalBurned, genesisComplete, outstandingByEid, paused, peers,
                   maxTransferAmount, maxWalletBalance, inflight, nonce>>

TokenNext ==
    \/ \E a \in Accounts : Genesis(a)
    \/ \E c \in Chains, a \in Accounts, v \in 1..MAX_SUPPLY :
        \/ BuyAndBurn(c, a, v)
        \/ \E b \in Accounts : Transfer(c, a, b, v)

BridgeNext ==
    \/ \E c, d \in Chains, a, b \in Accounts, v \in 1..MAX_SUPPLY : Send(c, d, a, b, v)
    \/ \E m \in inflight : Receive(m)

AdminNext ==
    \/ \E c \in Chains : Pause(c) \/ Unpause(c)
    \/ \E p \in PeerChoices, on \in BOOLEAN : SetPeer(p[1], p[2], on)
    \/ \E v \in LimitChoices : SetMaxTransferAmount(v) \/ SetMaxWalletBalance(v)
    \/ \E a \in Exemptable, exempt \in BOOLEAN : SetExemptFromLimits(a, exempt)

Next == TokenNext \/ BridgeNext \/ AdminNext

Spec == Init /\ [][Next]_vars

\* Anyone may execute a message that can be executed, so one that stays
\* executable is executed in the end; nothing else is promised to happen.
Fairness ==
    \A i \in 0..MaxMessages : WF_vars(\E m \in inflight : m.id = i /\ Receive(m))

FairSpec == Spec /\ Fairness
-----------------------------------------------------------------------------
(***************************************************************************)
(* Properties.                                                             *)
(***************************************************************************)
\* Every variable has its type; message ids are below the nonce.
TypeOK ==
    /\ balance \in [Chains -> [Accounts -> Nat]]
    /\ totalBurned \in [Chains -> Nat]
    /\ genesisComplete \in BOOLEAN
    /\ outstandingByEid \in [Spokes -> Nat]
    /\ paused \in [Chains -> BOOLEAN]
    /\ peers \in [Chains -> SUBSET Chains]
    /\ maxTransferAmount \in Nat /\ maxWalletBalance \in Nat
    /\ isExemptFromLimits \in [Accounts -> BOOLEAN]
    /\ inflight \subseteq Messages /\ IsFiniteSet(inflight)
    /\ nonce \in Nat /\ \A m \in inflight : m.id < nonce

\* The supply minted so far.
Minted == IF genesisComplete THEN MAX_SUPPLY ELSE 0

\* Hub accounting (SRXToken N-01): what circulates on Ethereum, what it has
\* sent to each spoke and not got back, and what it burned always add up to
\* the genesis mint, whatever a faulty link repeats.
HubConservation ==
    Supply(Hub) + Total(outstandingByEid) + totalBurned[Hub] = Minted

\* On a link that repeats nothing, what the hub counts as outstanding is
\* exactly what the spoke holds, burned, or has on its way: a returning
\* holder never meets UnbackedInboundCredit, and a faulty link elsewhere
\* cannot take the backing of this one.
SpokeBacking ==
    \A s \in Spokes \ Faulty :
        outstandingByEid[s] = Supply(s) + totalBurned[s] + InTransit(s)

\* The headline guarantee (SRXToken and SRXOFTNative, "10 billion SRX"): the
\* SRX on the hub and on all sound spokes and on the way between them never
\* exceeds the cap.
GlobalCap ==
    Supply(Hub) + Total([s \in Spokes \ Faulty |-> Supply(s) + InTransit(s)]) <= MAX_SUPPLY

\* No message of a sound link is ever stranded by the value checks of its
\* destination: the hub has it outstanding, and the cap leaves room for it.
Executable ==
    \A m \in inflight : ~OnFaultyLink(m) =>
        /\ m.dst = Hub => m.amount <= outstandingByEid[m.src]
        /\ Supply(m.dst) + m.amount <= MAX_SUPPLY

\* Nothing else strands one either: with the destination open and its peer
\* set it can be executed now, whatever the launch limits are by then.
NeverStranded ==
    \A m \in inflight :
        (~OnFaultyLink(m) /\ ~paused[m.dst] /\ m.src \in peers[m.dst]) => ENABLED Receive(m)

\* The bridge implements the abstract ledger (the hub's view of it).
Ledger == INSTANCE SupplyLedger WITH
    home <- Supply(Hub), abroad <- outstandingByEid, burned <- totalBurned[Hub]
ImplementsLedger == Ledger!Spec

\* Every chain is unpaused and every link has its peers.
AllOpen ==
    /\ \A c \in Chains : ~paused[c]
    /\ \A s \in Spokes : s \in peers[Hub] /\ Hub \in peers[s]

Pending(i) == \E m \in inflight : m.id = i /\ ~OnFaultyLink(m)

\* Once pauses are lifted and peers restored for good, every message of a
\* sound link is executed, whatever it missed in between: neither the
\* outstanding check nor the cap ever strands a transfer.
DeliveredOnceOpen ==
    \A i \in 0..MaxMessages : <>[]AllOpen => [](Pending(i) => <>~Pending(i))
=============================================================================
