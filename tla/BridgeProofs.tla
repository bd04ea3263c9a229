---------------------------- MODULE BridgeProofs ----------------------------
(***************************************************************************)
(* Proofs about Bridge, for every set of spokes, accounts and faulty links, *)
(* every supply and every conversion rate: type correctness, the hub's      *)
(* conservation of supply, the backing of every sound spoke, the global cap *)
(* and the implementation of SupplyLedger.                                  *)
(***************************************************************************)
EXTENDS Bridge, CommonProofs

USE ChainsAssumption, AccountsAssumption, AmountsAssumption

\* What the invariants need to be inductive: a message joins the hub and one
\* spoke, and no chain is its own peer.
Wellformed ==
    /\ \A m \in inflight : \/ m.src = Hub /\ m.dst \in Spokes
                           \/ m.src \in Spokes /\ m.dst = Hub
    /\ \A c \in Chains : c \notin peers[c]

IInv == TypeOK /\ Wellformed /\ HubConservation /\ SpokeBacking
-----------------------------------------------------------------------------
(***************************************************************************)
(* How the operators of _update move the supply of a chain.                *)
(***************************************************************************)
LEMMA SupplyType ==
  ASSUME TypeOK
  PROVE  \A c \in Chains : Supply(c) \in Nat
BY TotalType DEF TypeOK, Supply

\* A mint adds its amount to the supply of its chain and to no other.
LEMMA MintSupply ==
  ASSUME TypeOK, NEW c \in Chains, NEW to \in Accounts, NEW v \in Nat, Mint(c, to, v)
  PROVE  /\ balance' \in [Chains -> [Accounts -> Nat]]
         /\ Supply(c)' = Supply(c) + v
         /\ \A d \in Chains \ {c} : Supply(d)' = Supply(d)
<1> DEFINE g == Plus(balance[c], to, v)
<1>1. balance[c] \in [Accounts -> Nat] /\ balance[c][to] \in Nat
  BY DEF TypeOK
<1>2. g \in [Accounts -> Nat] /\ g[to] = balance[c][to] + v
  BY <1>1 DEF Plus
<1>3. \A a \in Accounts \ {to} : g[a] = balance[c][a]
  BY <1>1 DEF Plus
<1>4. Total(g) = Total(balance[c]) - balance[c][to] + g[to]
  BY <1>1, <1>2, <1>3, TotalChange
<1>5. Total(balance[c]) \in Nat
  BY <1>1, TotalType
<1>6. balance' = [balance EXCEPT ![c] = g]
  BY DEF Mint
<1>7. /\ balance' \in [Chains -> [Accounts -> Nat]]
      /\ balance'[c] = g
      /\ \A d \in Chains \ {c} : balance'[d] = balance[d]
  BY <1>2, <1>6 DEF TypeOK
<1> QED BY <1>1, <1>2, <1>4, <1>5, <1>7 DEF Supply

\* A burn takes its amount from the supply of its chain and from no other.
LEMMA BurnSupply ==
  ASSUME TypeOK, NEW c \in Chains, NEW from \in Accounts, NEW v \in Nat, Burn(c, from, v)
  PROVE  /\ balance' \in [Chains -> [Accounts -> Nat]]
         /\ Supply(c)' = Supply(c) - v
         /\ \A d \in Chains \ {c} : Supply(d)' = Supply(d)
<1> DEFINE g == Minus(balance[c], from, v)
<1>1. balance[c] \in [Accounts -> Nat] /\ balance[c][from] \in Nat
  BY DEF TypeOK
<1>2. v <= balance[c][from]
  BY DEF Burn
<1>3. g \in [Accounts -> Nat] /\ g[from] = balance[c][from] - v
  BY <1>1, <1>2 DEF Minus
<1>4. \A a \in Accounts \ {from} : g[a] = balance[c][a]
  BY <1>1 DEF Minus
<1>5. Total(g) = Total(balance[c]) - balance[c][from] + g[from]
  BY <1>1, <1>3, <1>4, TotalChange
<1>6. Total(balance[c]) \in Nat
  BY <1>1, TotalType
<1>7. balance' = [balance EXCEPT ![c] = g]
  BY DEF Burn
<1>8. /\ balance' \in [Chains -> [Accounts -> Nat]]
      /\ balance'[c] = g
      /\ \A d \in Chains \ {c} : balance'[d] = balance[d]
  BY <1>3, <1>7 DEF TypeOK
<1> QED BY <1>1, <1>3, <1>5, <1>6, <1>8 DEF Supply

\* A transfer leaves every supply.
LEMMA TransferSupply ==
  ASSUME TypeOK, NEW c \in Chains, NEW from \in Accounts, NEW to \in Accounts, NEW v \in Nat,
         Transfer(c, from, to, v)
  PROVE  /\ balance' \in [Chains -> [Accounts -> Nat]]
         /\ \A d \in Chains : Supply(d)' = Supply(d)
<1> DEFINE f == balance[c]
           g == Minus(f, from, v)
           h == Plus(g, to, v)
<1>1. f \in [Accounts -> Nat] /\ f[from] \in Nat /\ f[to] \in Nat
  BY DEF TypeOK
<1>2. v <= f[from] /\ from # to
  BY DEF Transfer
<1>3. g \in [Accounts -> Nat] /\ g[from] = f[from] - v
      /\ \A a \in Accounts \ {from} : g[a] = f[a]
  BY <1>1, <1>2 DEF Minus
<1>4. h \in [Accounts -> Nat] /\ h[to] = g[to] + v
      /\ \A a \in Accounts \ {to} : h[a] = g[a]
  BY <1>3 DEF Plus
<1> HIDE DEF f, g, h
<1>5. Total(g) = Total(f) - f[from] + g[from]
  BY <1>1, <1>3, TotalChange
<1>6. Total(h) = Total(g) - g[to] + h[to]
  BY <1>3, <1>4, TotalChange
<1>7. Total(f) \in Nat /\ Total(g) \in Nat /\ g[to] \in Nat
  BY <1>1, <1>3, TotalType
<1>8. Total(h) = Total(f)
  BY <1>1, <1>3, <1>4, <1>5, <1>6, <1>7
<1>9. balance' = [balance EXCEPT ![c] = h]
  BY DEF Transfer, f, g, h
<1>10. /\ balance' \in [Chains -> [Accounts -> Nat]]
       /\ balance'[c] = h
       /\ \A d \in Chains \ {c} : balance'[d] = balance[d]
  BY <1>4, <1>9 DEF TypeOK
<1> QED BY <1>8, <1>10 DEF Supply, f
-----------------------------------------------------------------------------
(***************************************************************************)
(* How a message entering or leaving the network moves what is in transit.  *)
(***************************************************************************)
LEMMA TransitType ==
  ASSUME TypeOK, NEW s \in Spokes
  PROVE  InTransit(s) \in Nat
<1> DEFINE S == {x \in inflight : s \in {x.src, x.dst}}
           f == [m \in S |-> m.amount]
<1>1. IsFiniteSet(S)
  BY FS_Subset DEF TypeOK
<1>2. f \in [S -> Nat]
  BY DEF TypeOK, Messages
<1> QED BY <1>1, <1>2, TotalType DEF InTransit

\* A message sent adds its amount to what its two ends have in transit.
LEMMA TransitAdd ==
  ASSUME TypeOK, NEW m \in Messages, m \notin inflight,
         inflight' = inflight \cup {m}, NEW s \in Spokes
  PROVE  InTransit(s)' = InTransit(s) + (IF s \in {m.src, m.dst} THEN m.amount ELSE 0)
<1> DEFINE S == {x \in inflight : s \in {x.src, x.dst}}
           T == {x \in inflight' : s \in {x.src, x.dst}}
           f == [x \in S |-> x.amount]
           g == [x \in T |-> x.amount]
<1>1. IsFiniteSet(S) /\ f \in [S -> Nat]
  BY FS_Subset DEF TypeOK, Messages
<1>2. InTransit(s) = Total(f) /\ InTransit(s)' = Total(g)
  BY DEF InTransit
<1>3. InTransit(s) \in Nat
  BY TransitType
<1>4. CASE s \in {m.src, m.dst}
  <2>1. T = S \cup {m} /\ m \notin S
    BY <1>4
  <2>2. g \in [S \cup {m} -> Nat] /\ g[m] = m.amount /\ \A x \in S : g[x] = f[x]
    BY <2>1, <1>1 DEF Messages, TypeOK
  <2>3. Total(g) = Total(f) + g[m]
    <3> HIDE DEF f, g, S, T
    <3> QED BY <1>1, <2>1, <2>2, TotalExtend
  <2> QED BY <1>2, <1>4, <2>2, <2>3
<1>5. CASE s \notin {m.src, m.dst}
  <2>1. T = S
    BY <1>5
  <2> QED BY <1>2, <1>3, <1>5, <2>1
<1> QED BY <1>4, <1>5

\* A message executed takes its amount out of what its two ends have in transit.
LEMMA TransitRemove ==
  ASSUME TypeOK, NEW m \in inflight,
         inflight' = inflight \ {m}, NEW s \in Spokes
  PROVE  InTransit(s)' = InTransit(s) - (IF s \in {m.src, m.dst} THEN m.amount ELSE 0)
<1> DEFINE S == {x \in inflight : s \in {x.src, x.dst}}
           T == {x \in inflight' : s \in {x.src, x.dst}}
           f == [x \in S |-> x.amount]
           g == [x \in T |-> x.amount]
<1>1. IsFiniteSet(S) /\ f \in [S -> Nat]
  BY FS_Subset DEF TypeOK, Messages
<1>2. InTransit(s) = Total(f) /\ InTransit(s)' = Total(g)
  BY DEF InTransit
<1>3. InTransit(s) \in Nat
  BY TransitType
<1>4. CASE s \in {m.src, m.dst}
  <2>1. T = S \ {m} /\ m \in S
    BY <1>4
  <2>2. g \in [S \ {m} -> Nat] /\ f[m] = m.amount /\ \A x \in S \ {m} : g[x] = f[x]
    BY <2>1, <1>1 DEF Messages, TypeOK
  <2>3. Total(g) = Total(f) - f[m]
    <3> HIDE DEF f, g, S, T
    <3> QED BY <1>1, <2>1, <2>2, TotalShrink
  <2> QED BY <1>2, <1>4, <2>2, <2>3
<1>5. CASE s \notin {m.src, m.dst}
  <2>1. T = S
    BY <1>5
  <2> QED BY <1>2, <1>3, <1>5, <2>1
<1> QED BY <1>4, <1>5

\* A send moves at most what the sender asked for.
LEMMA DustType ==
  ASSUME NEW v \in Nat
  PROVE  RemoveDust(v) \in Nat /\ RemoveDust(v) <= v
<1>1. v % ConversionRate \in 0..(ConversionRate - 1)
  OBVIOUS
<1>2. v % ConversionRate <= v
  OBVIOUS
<1> QED BY <1>1, <1>2 DEF RemoveDust
-----------------------------------------------------------------------------
(***************************************************************************)
(* The inductive invariant, one lemma per action that moves value.         *)
(***************************************************************************)
\* Outstanding amounts and hub burns are numbers.
LEMMA SumsType ==
  ASSUME TypeOK
  PROVE  /\ \A c \in Chains : Supply(c) \in Nat /\ totalBurned[c] \in Nat
         /\ \A s \in Spokes : InTransit(s) \in Nat /\ outstandingByEid[s] \in Nat
         /\ Total(outstandingByEid) \in Nat
         /\ Minted \in Nat
BY SupplyType, TransitType, TotalType DEF TypeOK, Minted

\* The same for the hub's accounting of one more, or one less, unit abroad.
LEMMA OutstandingPlus ==
  ASSUME TypeOK, NEW s \in Spokes, NEW n \in Nat,
         outstandingByEid' = Plus(outstandingByEid, s, n)
  PROVE  /\ outstandingByEid' \in [Spokes -> Nat]
         /\ outstandingByEid'[s] = outstandingByEid[s] + n
         /\ \A t \in Spokes \ {s} : outstandingByEid'[t] = outstandingByEid[t]
         /\ Total(outstandingByEid)' = Total(outstandingByEid) + n
<1>1. /\ outstandingByEid' \in [Spokes -> Nat]
      /\ outstandingByEid'[s] = outstandingByEid[s] + n
      /\ \A t \in Spokes \ {s} : outstandingByEid'[t] = outstandingByEid[t]
  BY DEF TypeOK, Plus
<1>2. Total(outstandingByEid')
        = Total(outstandingByEid) - outstandingByEid[s] + outstandingByEid'[s]
  <2>1. outstandingByEid \in [Spokes -> Nat]
    BY DEF TypeOK
  <2>2. ASSUME NEW f \in [Spokes -> Nat], NEW g \in [Spokes -> Nat],
               \A t \in Spokes \ {s} : g[t] = f[t]
        PROVE  Total(g) = Total(f) - f[s] + g[s]
    BY <2>2, TotalChange, ChainsAssumption
  <2> QED BY <1>1, <2>1, <2>2
<1>3. Total(outstandingByEid) \in Nat /\ outstandingByEid[s] \in Nat
  BY SumsType
<1> QED BY <1>1, <1>2, <1>3

\* The same for a unit that comes back.
LEMMA OutstandingMinus ==
  ASSUME TypeOK, NEW s \in Spokes, NEW n \in Nat, n <= outstandingByEid[s],
         outstandingByEid' = Minus(outstandingByEid, s, n)
  PROVE  /\ outstandingByEid' \in [Spokes -> Nat]
         /\ outstandingByEid'[s] = outstandingByEid[s] - n
         /\ \A t \in Spokes \ {s} : outstandingByEid'[t] = outstandingByEid[t]
         /\ Total(outstandingByEid)' = Total(outstandingByEid) - n
<1>1. /\ outstandingByEid' \in [Spokes -> Nat]
      /\ outstandingByEid'[s] = outstandingByEid[s] - n
      /\ \A t \in Spokes \ {s} : outstandingByEid'[t] = outstandingByEid[t]
  BY DEF TypeOK, Minus
<1>2. Total(outstandingByEid')
        = Total(outstandingByEid) - outstandingByEid[s] + outstandingByEid'[s]
  <2>1. outstandingByEid \in [Spokes -> Nat]
    BY DEF TypeOK
  <2>2. ASSUME NEW f \in [Spokes -> Nat], NEW g \in [Spokes -> Nat],
               \A t \in Spokes \ {s} : g[t] = f[t]
        PROVE  Total(g) = Total(f) - f[s] + g[s]
    BY <2>2, TotalChange, ChainsAssumption
  <2> QED BY <1>1, <2>1, <2>2
<1>3. Total(outstandingByEid) \in Nat /\ outstandingByEid[s] \in Nat
  BY SumsType
<1> QED BY <1>1, <1>2, <1>3

\* Nothing exists before the genesis.
LEMMA InitIInv == Init => IInv
<1> SUFFICES ASSUME Init PROVE IInv
  OBVIOUS
<1>1. TypeOK
  BY FS_EmptySet DEF Init, TypeOK, Chains
<1>2. Wellformed
  BY DEF Init, Wellformed
<1>3. \A c \in Chains : Supply(c) = 0
  BY TotalZero DEF Init, Supply
<1>4. Total(outstandingByEid) = 0
  BY TotalZero DEF Init
<1>5. \A s \in Spokes : InTransit(s) = 0
  <2> TAKE s \in Spokes
  <2>1. {x \in inflight : s \in {x.src, x.dst}} = {}
    BY DEF Init
  <2> QED BY <2>1, TotalZero DEF InTransit
<1>6. HubConservation
  BY <1>3, <1>4 DEF HubConservation, Init, Chains, Minted
<1>7. SpokeBacking
  BY <1>3, <1>5 DEF SpokeBacking, Init, Chains
<1> QED BY <1>1, <1>2, <1>6, <1>7 DEF IInv

\* The genesis mints the fixed supply on the hub, once.
LEMMA GenesisIInv ==
  ASSUME IInv, NEW a \in Accounts, Genesis(a)
  PROVE  IInv'
<1> USE DEF IInv
<1>1. /\ balance' \in [Chains -> [Accounts -> Nat]]
      /\ Supply(Hub)' = Supply(Hub) + MAX_SUPPLY
      /\ \A d \in Chains \ {Hub} : Supply(d)' = Supply(d)
  BY MintSupply DEF Genesis, Chains
<1>2. TypeOK'
  BY <1>1 DEF TypeOK, Genesis, limitVars
<1>3. Wellformed'
  BY DEF Wellformed, Genesis
<1>4. HubConservation'
  BY <1>1, SumsType DEF HubConservation, Genesis, Minted, Chains
<1>5. SpokeBacking'
  BY <1>1 DEF SpokeBacking, Genesis, InTransit, Chains
<1> QED BY <1>2, <1>3, <1>4, <1>5

\* A transfer keeps the invariant.
LEMMA TransferIInv ==
  ASSUME IInv, NEW c \in Chains, NEW a \in Accounts, NEW b \in Accounts,
         NEW v \in Nat, Transfer(c, a, b, v)
  PROVE  IInv'
<1> USE DEF IInv
<1>1. /\ balance' \in [Chains -> [Accounts -> Nat]]
      /\ \A d \in Chains : Supply(d)' = Supply(d)
  BY TransferSupply
<1>2. TypeOK'
  BY <1>1 DEF TypeOK, Transfer, limitVars
<1>3. Wellformed'
  BY DEF Wellformed, Transfer
<1>4. HubConservation'
  BY <1>1 DEF HubConservation, Transfer, Minted, Chains
<1>5. SpokeBacking'
  <2>1. \A s \in Spokes : s \in Chains /\ Supply(s)' = Supply(s)
    BY <1>1 DEF Chains
  <2>2. /\ inflight' = inflight /\ outstandingByEid' = outstandingByEid
        /\ totalBurned' = totalBurned
    BY DEF Transfer
  <2>3. \A s \in Spokes : InTransit(s)' = InTransit(s)
    BY <2>2 DEF InTransit
  <2> QED BY <2>1, <2>2, <2>3 DEF SpokeBacking
<1> QED BY <1>2, <1>3, <1>4, <1>5

\* A burn leaves the supply and is counted.
LEMMA BuyAndBurnIInv ==
  ASSUME IInv, NEW c \in Chains, NEW a \in Accounts, NEW v \in Nat, BuyAndBurn(c, a, v)
  PROVE  IInv'
<1> USE DEF IInv
<1>1. /\ balance' \in [Chains -> [Accounts -> Nat]]
      /\ Supply(c)' = Supply(c) - v
      /\ \A d \in Chains \ {c} : Supply(d)' = Supply(d)
  BY BurnSupply DEF BuyAndBurn
<1>2. /\ totalBurned' \in [Chains -> Nat]
      /\ totalBurned'[c] = totalBurned[c] + v
      /\ \A d \in Chains \ {c} : totalBurned'[d] = totalBurned[d]
  BY DEF BuyAndBurn, TypeOK, Plus
<1>3. TypeOK'
  BY <1>1, <1>2 DEF TypeOK, BuyAndBurn, limitVars
<1>4. Wellformed'
  BY DEF Wellformed, BuyAndBurn
<1>5. \A d \in Chains : Supply(d)' + totalBurned'[d] = Supply(d) + totalBurned[d]
  BY <1>1, <1>2, SumsType
<1>6. Hub \in Chains /\ \A s \in Spokes : s \in Chains
  BY DEF Chains
<1>7. UNCHANGED <<outstandingByEid, inflight, genesisComplete>>
  BY DEF BuyAndBurn
<1>8. Total(outstandingByEid)' = Total(outstandingByEid) /\ Minted' = Minted
      /\ \A s \in Spokes : InTransit(s)' = InTransit(s)
  BY <1>7 DEF Minted, InTransit
<1>9. \A d \in Chains : Supply(d)' \in Nat /\ totalBurned'[d] \in Nat
  <2>1. \A d \in Chains : Total(balance'[d]) \in Nat
    BY <1>1, TotalType
  <2> QED BY <1>2, <2>1 DEF Supply
<1>10. HubConservation'
  <2>1. Supply(Hub)' + totalBurned'[Hub] = Supply(Hub) + totalBurned[Hub]
    BY <1>5, <1>6
  <2>2. /\ Supply(Hub) \in Nat /\ Supply(Hub)' \in Nat
        /\ totalBurned[Hub] \in Nat /\ totalBurned'[Hub] \in Nat
        /\ Total(outstandingByEid) \in Nat
    BY <1>6, <1>9, SumsType DEF TypeOK
  <2>3. Supply(Hub) + Total(outstandingByEid) + totalBurned[Hub] = Minted
    BY DEF HubConservation
  <2>4. Supply(Hub)' + Total(outstandingByEid)' + totalBurned'[Hub]
          = Supply(Hub) + Total(outstandingByEid) + totalBurned[Hub]
    BY <1>8, <2>1, <2>2
  <2> QED BY <1>8, <2>3, <2>4 DEF HubConservation
<1>11. SpokeBacking'
  BY <1>5, <1>6, <1>7, <1>8, <1>9, SumsType DEF SpokeBacking
<1> QED BY <1>3, <1>4, <1>10, <1>11

\* A send moves supply into transit, and the hub counts it as outstanding.
LEMMA SendIInv ==
  ASSUME IInv, NEW c \in Chains, NEW d \in Chains, NEW a \in Accounts, NEW b \in Accounts,
         NEW v \in Nat, Send(c, d, a, b, v)
  PROVE  IInv'
<1> USE DEF IInv
<1> DEFINE n == RemoveDust(v)
           m == [id |-> nonce, src |-> c, dst |-> d, to |-> b, amount |-> n]
<1>1. n \in Nat
  BY DustType
<1>2. Burn(c, a, n) /\ inflight' = inflight \cup {m} /\ nonce' = nonce + 1
  BY DEF Send, HubDebit, SpokeDebit
<1>3. /\ balance' \in [Chains -> [Accounts -> Nat]]
      /\ Supply(c)' = Supply(c) - n
      /\ \A e \in Chains \ {c} : Supply(e)' = Supply(e)
  BY <1>1, <1>2, BurnSupply
<1>4. m \in Messages /\ m \notin inflight /\ m.src = c /\ m.dst = d /\ m.amount = n
  BY <1>1 DEF Messages, TypeOK
<1>5. \A s \in Spokes :
        InTransit(s)' = InTransit(s) + (IF s \in {c, d} THEN n ELSE 0)
  BY <1>2, <1>4, TransitAdd
<1>6. \/ c = Hub /\ d \in Spokes
      \/ c \in Spokes /\ d = Hub
  BY DEF Send, SpokeDebit, Wellformed, Chains
<1>7. /\ c = Hub => outstandingByEid' = Plus(outstandingByEid, d, n)
      /\ c # Hub => outstandingByEid' = outstandingByEid
  BY DEF Send, HubDebit, SpokeDebit
<1>8. outstandingByEid' \in [Spokes -> Nat]
  BY <1>1, <1>6, <1>7, OutstandingPlus DEF TypeOK
<1>9. IsFiniteSet(inflight')
  BY <1>2, FS_AddElement DEF TypeOK
<1>10. nonce' \in Nat /\ \A x \in inflight' : x.id < nonce'
  BY <1>2 DEF TypeOK, Messages
<1>11. inflight' \subseteq Messages
  BY <1>2, <1>4 DEF TypeOK
<1>12. UNCHANGED <<totalBurned, genesisComplete, paused, peers, limitVars>>
  BY DEF Send
<1>13. TypeOK'
  BY <1>3, <1>8, <1>9, <1>10, <1>11, <1>12 DEF TypeOK, limitVars
<1>14. Wellformed'
  BY <1>2, <1>4, <1>6, <1>12 DEF Wellformed
<1> HIDE DEF n, m
<1>15. CASE c = Hub /\ d \in Spokes
  <2>1. /\ outstandingByEid'[d] = outstandingByEid[d] + n
        /\ \A t \in Spokes \ {d} : outstandingByEid'[t] = outstandingByEid[t]
        /\ Total(outstandingByEid)' = Total(outstandingByEid) + n
    BY <1>1, <1>7, <1>15, OutstandingPlus
  <2>2. HubConservation'
    BY <1>1, <1>3, <1>12, <1>15, <2>1, SumsType DEF HubConservation, Minted
  <2>3. \A s \in Spokes : s # Hub /\ s \in Chains
    BY DEF Chains
  <2>4. SpokeBacking'
    BY <1>1, <1>3, <1>5, <1>12, <1>15, <2>1, <2>3, SumsType DEF SpokeBacking
  <2> QED BY <1>13, <1>14, <2>2, <2>4
<1>16. CASE c \in Spokes /\ d = Hub
  <2>1. Hub # c /\ Hub \in Chains /\ (\A s \in Spokes : s # Hub /\ s \in Chains)
    BY <1>16 DEF Chains
  <2>2. HubConservation'
    BY <1>3, <1>7, <1>12, <2>1 DEF HubConservation, Minted
  <2>3. SpokeBacking'
    BY <1>1, <1>3, <1>5, <1>7, <1>12, <1>16, <2>1, SumsType DEF SpokeBacking
  <2> QED BY <1>13, <1>14, <2>2, <2>3
<1> QED BY <1>6, <1>15, <1>16

\* A delivery moves what is in transit into supply, behind the hub's check.
LEMMA ReceiveIInv ==
  ASSUME IInv, NEW m \in inflight, Receive(m)
  PROVE  IInv'
<1> USE DEF IInv
<1> DEFINE n == m.amount
<1>1. /\ m \in Messages /\ n \in Nat /\ m.to \in Accounts
      /\ m.src \in Chains /\ m.dst \in Chains
  BY DEF TypeOK, Messages
<1>2. \/ m.src = Hub /\ m.dst \in Spokes
      \/ m.src \in Spokes /\ m.dst = Hub
  BY DEF Wellformed
<1>3. /\ balance' \in [Chains -> [Accounts -> Nat]]
      /\ Supply(m.dst)' = Supply(m.dst) + n
      /\ \A e \in Chains \ {m.dst} : Supply(e)' = Supply(e)
  BY <1>1, MintSupply DEF Receive
<1>4. \/ inflight' = inflight \ {m}
      \/ inflight' = inflight /\ (m.src \in Faulty \/ m.dst \in Faulty)
  BY DEF Receive, OnFaultyLink
<1>5. \A s \in Spokes \ Faulty :
        InTransit(s)' = InTransit(s) - (IF s \in {m.src, m.dst} THEN n ELSE 0)
  <2> TAKE s \in Spokes \ Faulty
  <2>1. CASE inflight' = inflight \ {m}
    BY <2>1, TransitRemove
  <2>2. CASE inflight' = inflight /\ (m.src \in Faulty \/ m.dst \in Faulty)
    <3>1. s \notin {m.src, m.dst}
      BY <1>2, <2>2
    <3>2. InTransit(s)' = InTransit(s) /\ InTransit(s) \in Nat
      BY <2>2, SumsType DEF InTransit
    <3> QED BY <3>1, <3>2
  <2> QED BY <1>4, <2>1, <2>2
<1>6. /\ m.dst = Hub => /\ n <= outstandingByEid[m.src]
                        /\ outstandingByEid' = Minus(outstandingByEid, m.src, n)
      /\ m.dst # Hub => outstandingByEid' = outstandingByEid
  BY DEF Receive, HubCredit, SpokeCredit
<1>7. outstandingByEid' \in [Spokes -> Nat]
  BY <1>1, <1>2, <1>6, OutstandingMinus DEF TypeOK
<1>8. inflight' \subseteq inflight
  BY <1>4
<1>9. IsFiniteSet(inflight')
  BY <1>8, FS_Subset DEF TypeOK
<1>10. UNCHANGED <<totalBurned, genesisComplete, paused, peers, limitVars, nonce>>
  BY DEF Receive
<1>11. TypeOK'
  BY <1>3, <1>7, <1>8, <1>9, <1>10 DEF TypeOK, limitVars
<1>12. Wellformed'
  BY <1>8, <1>10 DEF Wellformed
<1> HIDE DEF n
<1>13. CASE m.src \in Spokes /\ m.dst = Hub
  <2>1. /\ outstandingByEid'[m.src] = outstandingByEid[m.src] - n
        /\ \A t \in Spokes \ {m.src} : outstandingByEid'[t] = outstandingByEid[t]
        /\ Total(outstandingByEid)' = Total(outstandingByEid) - n
    BY <1>1, <1>6, <1>13, OutstandingMinus
  <2>2. HubConservation'
    BY <1>1, <1>3, <1>10, <1>13, <2>1, SumsType DEF HubConservation, Minted
  <2>3. \A s \in Spokes : s # Hub /\ s \in Chains
    BY DEF Chains
  <2>4. SpokeBacking'
    BY <1>1, <1>3, <1>5, <1>10, <1>13, <2>1, <2>3, SumsType DEF SpokeBacking
  <2> QED BY <1>11, <1>12, <2>2, <2>4
<1>14. CASE m.src = Hub /\ m.dst \in Spokes
  <2>1. Hub # m.dst /\ Hub \in Chains /\ (\A s \in Spokes : s # Hub /\ s \in Chains)
    BY <1>14 DEF Chains
  <2>2. HubConservation'
    BY <1>3, <1>6, <1>10, <2>1 DEF HubConservation, Minted
  <2>3. SpokeBacking'
    BY <1>1, <1>3, <1>5, <1>6, <1>10, <1>14, <2>1, SumsType DEF SpokeBacking
  <2> QED BY <1>11, <1>12, <2>2, <2>3
<1> QED BY <1>2, <1>13, <1>14

\* The pausers, the owner and governance move no value.
LEMMA AdminIInv ==
  ASSUME IInv, AdminNext
  PROVE  IInv'
<1> USE DEF IInv
<1>1. UNCHANGED <<balance, totalBurned, genesisComplete, outstandingByEid, inflight, nonce>>
  BY DEF AdminNext, Pause, Unpause, SetPeer, SetMaxTransferAmount, SetMaxWalletBalance,
         SetExemptFromLimits
<1>2. /\ paused' \in [Chains -> BOOLEAN]
      /\ peers' \in [Chains -> SUBSET Chains]
      /\ \A c \in Chains : c \notin peers'[c]
  <2>1. CASE \E p \in PeerChoices, on \in BOOLEAN : SetPeer(p[1], p[2], on)
    <3> PICK p \in PeerChoices, on \in BOOLEAN : SetPeer(p[1], p[2], on)
      BY <2>1
    <3>1. p[1] \in Chains /\ p[2] \in Chains /\ p[1] # p[2]
      BY DEF Chains
    <3> QED BY <3>1 DEF SetPeer, TypeOK, Wellformed
  <2>2. CASE \E c \in Chains : Pause(c) \/ Unpause(c)
    BY <2>2 DEF Pause, Unpause, TypeOK, Wellformed
  <2>3. CASE UNCHANGED <<paused, peers>>
    BY <2>3 DEF TypeOK, Wellformed
  <2> QED BY <2>1, <2>2, <2>3 DEF AdminNext, SetMaxTransferAmount, SetMaxWalletBalance,
                                  SetExemptFromLimits
<1>3. /\ maxTransferAmount' \in Nat /\ maxWalletBalance' \in Nat
      /\ isExemptFromLimits' \in [Accounts -> BOOLEAN]
  BY DEF AdminNext, Pause, Unpause, SetPeer, SetMaxTransferAmount, SetMaxWalletBalance,
         SetExemptFromLimits, limitVars, TypeOK
<1>4. TypeOK' /\ Wellformed'
  BY <1>1, <1>2, <1>3 DEF TypeOK, Wellformed
<1>5. HubConservation' /\ SpokeBacking'
  BY <1>1 DEF HubConservation, SpokeBacking, Supply, InTransit, Minted
<1> QED BY <1>4, <1>5

\* Every step keeps the invariant.
LEMMA StepIInv == IInv /\ [Next]_vars => IInv'
<1> SUFFICES ASSUME IInv, [Next]_vars PROVE IInv'
  OBVIOUS
<1>0. 1..MAX_SUPPLY \subseteq Nat
  OBVIOUS
<1>1. CASE TokenNext
  BY <1>0, <1>1, GenesisIInv, TransferIInv, BuyAndBurnIInv DEF TokenNext
<1>2. CASE BridgeNext
  BY <1>0, <1>2, SendIInv, ReceiveIInv DEF BridgeNext
<1>3. CASE AdminNext
  BY <1>3, AdminIInv
<1>4. CASE UNCHANGED vars
  BY <1>4 DEF vars, limitVars, IInv, TypeOK, Wellformed, HubConservation, SpokeBacking,
              Supply, InTransit, Minted
<1> QED BY <1>1, <1>2, <1>3, <1>4 DEF Next

\* The invariant holds always.
LEMMA Invariance == Spec => []IInv
BY InitIInv, StepIInv, PTL DEF Spec
-----------------------------------------------------------------------------
(***************************************************************************)
(* Every variable keeps its type.                                          *)
(***************************************************************************)
THEOREM TypeCorrect == Spec => []TypeOK
<1>1. IInv => TypeOK
  BY DEF IInv
<1> QED BY <1>1, Invariance, PTL

(***************************************************************************)
(* What circulates on Ethereum, what is outstanding on the spokes and what  *)
(* was burned always add up to the genesis mint, for any number of faulty   *)
(* links.                                                                  *)
(***************************************************************************)
THEOREM HubConserves == Spec => []HubConservation
<1>1. IInv => HubConservation
  BY DEF IInv
<1> QED BY <1>1, Invariance, PTL

(***************************************************************************)
(* On every sound link the hub's outstanding amount is exactly what is      *)
(* still abroad: held, burned or in transit.                               *)
(***************************************************************************)
THEOREM SpokesBacked == Spec => []SpokeBacking
<1>1. IInv => SpokeBacking
  BY DEF IInv
<1> QED BY <1>1, Invariance, PTL

(***************************************************************************)
(* The SRX of the hub, the sound spokes and the way between them is at most *)
(* what genesis minted.                                                    *)
(***************************************************************************)
THEOREM GlobalCapHolds == Spec => []GlobalCap
<1>1. IInv => GlobalCap
  <2> SUFFICES ASSUME IInv PROVE GlobalCap
    OBVIOUS
  <2> USE DEF IInv
  <2> DEFINE R == Spokes \ Faulty
             f == [s \in R |-> Supply(s) + InTransit(s)]
  <2>1. \A s \in R : s \in Chains /\ s \in Spokes
    BY DEF Chains
  <2>2. f \in [R -> Nat]
    BY <2>1, SumsType
  <2>3. \A s \in R : f[s] <= outstandingByEid[s]
    BY <2>1, SumsType DEF SpokeBacking
  <2>4. Total(f) <= Total(outstandingByEid)
    <3>1. R \in SUBSET Spokes /\ IsFiniteSet(Spokes) /\ outstandingByEid \in [Spokes -> Nat]
      BY DEF TypeOK
    <3> HIDE DEF f, R
    <3> QED BY <2>2, <2>3, <3>1, TotalMonotone
  <2>5. IsFiniteSet(R)
    BY FS_Subset
  <2>6. Total(f) \in Nat
    <3> HIDE DEF f, R
    <3> QED BY <2>2, <2>5, TotalType
  <2>7. Supply(Hub) \in Nat /\ Total(outstandingByEid) \in Nat /\ totalBurned[Hub] \in Nat
    BY SumsType DEF Chains
  <2>8. Supply(Hub) + Total(outstandingByEid) + totalBurned[Hub] <= MAX_SUPPLY
    BY DEF HubConservation, Minted
  <2> HIDE DEF f
  <2>9. Supply(Hub) + Total(f) <= MAX_SUPPLY
    BY <2>4, <2>6, <2>7, <2>8
  <2> QED BY <2>9 DEF GlobalCap, f
<1> QED BY <1>1, Invariance, PTL

(***************************************************************************)
(* No message of a sound link is ever refused for its amount, so only a     *)
(* pause or a missing peer delays it.                                       *)
(***************************************************************************)
THEOREM SoundMessagesExecutable == Spec => []Executable
<1>1. IInv => Executable
  <2> SUFFICES ASSUME IInv, NEW m \in inflight, ~OnFaultyLink(m)
               PROVE  /\ m.dst = Hub => m.amount <= outstandingByEid[m.src]
                      /\ Supply(m.dst) + m.amount <= MAX_SUPPLY
    BY DEF Executable
  <2> USE DEF IInv
  <2>1. m.amount \in Nat
    BY DEF TypeOK, Messages
  <2>2. PICK s \in Spokes \ Faulty : \/ m.src = Hub /\ m.dst = s
                                     \/ m.src = s /\ m.dst = Hub
    BY DEF Wellformed, OnFaultyLink
  <2>3. s # Hub /\ s \in Chains /\ Hub \in Chains
    BY DEF Chains
  <2>4. m.amount <= InTransit(s)
    <3> DEFINE S == {x \in inflight : s \in {x.src, x.dst}}
               f == [x \in S |-> x.amount]
    <3>1. IsFiniteSet(S) /\ f \in [S -> Nat] /\ m \in S /\ f[m] = m.amount
      BY <2>2, FS_Subset DEF TypeOK, Messages
    <3>2. f[m] <= Total(f)
      <4> HIDE DEF S, f
      <4> QED BY <3>1, TotalBound
    <3> QED BY <3>1, <3>2 DEF InTransit
  <2>5. outstandingByEid[s] = Supply(s) + totalBurned[s] + InTransit(s)
    BY DEF SpokeBacking
  <2>6. /\ Supply(s) \in Nat /\ totalBurned[s] \in Nat /\ InTransit(s) \in Nat
        /\ Supply(Hub) \in Nat /\ totalBurned[Hub] \in Nat
        /\ outstandingByEid[s] \in Nat /\ Total(outstandingByEid) \in Nat
    BY <2>3, SumsType
  <2>7. outstandingByEid[s] <= Total(outstandingByEid)
    BY TotalBound DEF TypeOK
  <2>8. Supply(Hub) + Total(outstandingByEid) + totalBurned[Hub] <= MAX_SUPPLY
    BY DEF HubConservation, Minted
  <2>9. m.amount <= outstandingByEid[s]
    BY <2>1, <2>4, <2>5, <2>6
  <2>10. Supply(s) + m.amount <= MAX_SUPPLY /\ Supply(Hub) + m.amount <= MAX_SUPPLY
    BY <2>1, <2>4, <2>5, <2>6, <2>7, <2>8
  <2> QED BY <2>2, <2>9, <2>10
<1> QED BY <1>1, Invariance, PTL
(***************************************************************************)
(* What NeverStranded says of Receive, for provers that do not reach        *)
(* ENABLED: an invariant, that every check of lzReceive but the pause and   *)
(* the peer goes through, and a lemma, that nothing else can stop it.       *)
(***************************************************************************)
\* The value checks of the destination of m, and who may have sent to it.
Deliverable(m) ==
    /\ m.dst = Hub => m.amount <= outstandingByEid[m.src]
    /\ m.dst # Hub => m.src = Hub
    /\ Supply(m.dst) + m.amount <= MAX_SUPPLY

\* Every message of a sound link passes them.
SoundMessagesDeliverable == \A m \in inflight : ~OnFaultyLink(m) => Deliverable(m)

\* The values that the execution of m leaves.
DeliveryValues(m) ==
    /\ balance' = [balance EXCEPT ![m.dst] = Plus(balance[m.dst], m.to, m.amount)]
    /\ outstandingByEid' = IF m.dst = Hub THEN Minus(outstandingByEid, m.src, m.amount)
                           ELSE outstandingByEid
    /\ inflight' = inflight \ {m}
    /\ totalBurned' = totalBurned /\ genesisComplete' = genesisComplete
    /\ paused' = paused /\ peers' = peers
    /\ maxTransferAmount' = maxTransferAmount /\ maxWalletBalance' = maxWalletBalance
    /\ isExemptFromLimits' = isExemptFromLimits /\ nonce' = nonce

\* Nothing but Deliverable, the pause and the peer guards a delivery: one value
\* for each variable of the module makes a step of it, whatever the launch
\* limits are.
LEMMA DeliverableIsReceived ==
  ASSUME NEW m \in inflight, Deliverable(m), ~paused[m.dst], m.src \in peers[m.dst],
         DeliveryValues(m)
  PROVE  Receive(m)
<1>1. IF m.dst = Hub THEN HubCredit(m) ELSE SpokeCredit(m)
  BY DEF HubCredit, SpokeCredit, Deliverable, DeliveryValues
<1>2. Mint(m.dst, m.to, m.amount)
  BY DEF Mint, Deliverable, DeliveryValues
<1>3. /\ inflight' = inflight \ {m}
      /\ UNCHANGED <<totalBurned, genesisComplete, paused, peers, limitVars, nonce>>
  BY DEF DeliveryValues, limitVars
<1> QED BY <1>1, <1>2, <1>3 DEF Receive

\* In every reachable state the messages of sound links pass every check of
\* their destination but the pause and the peer.
THEOREM SoundMessagesNeverStranded == Spec => []SoundMessagesDeliverable
<1>1. IInv /\ Executable => SoundMessagesDeliverable
  BY DEF IInv, Wellformed, Executable, Deliverable, SoundMessagesDeliverable
<1> QED BY <1>1, Invariance, SoundMessagesExecutable, PTL
-----------------------------------------------------------------------------
(***************************************************************************)
(* Refinement: every step of the bridge is a step of the abstract ledger or *)
(* leaves it alone.                                                        *)
(***************************************************************************)
LEMMA InitRefines == Init => Ledger!Init
<1> SUFFICES ASSUME Init PROVE Ledger!Init
  OBVIOUS
<1>1. Supply(Hub) = 0
  BY TotalZero DEF Init, Supply, Chains
<1> QED BY <1>1 DEF Init, Ledger!Init, Chains

\* The genesis is the genesis of the ledger.
LEMMA GenesisRefines ==
  ASSUME IInv, NEW a \in Accounts, Genesis(a)
  PROVE  Ledger!Genesis
<1> USE DEF IInv
<1>1. Hub \in Chains
  BY DEF Chains
<1>2. Supply(Hub)' = Supply(Hub) + MAX_SUPPLY
  BY <1>1, MintSupply DEF Genesis
<1>3. Supply(Hub) + Total(outstandingByEid) + totalBurned[Hub] = 0
  BY DEF HubConservation, Genesis, Minted
<1>4. Supply(Hub) = 0 /\ Total(outstandingByEid) = 0 /\ totalBurned[Hub] = 0
  BY <1>1, <1>3, SumsType
<1>5. \A s \in Spokes : outstandingByEid[s] = 0
  <2> TAKE s \in Spokes
  <2>1. outstandingByEid[s] <= 0
    BY <1>4, TotalBound DEF TypeOK
  <2> QED BY <2>1, SumsType
<1> QED BY <1>2, <1>4, <1>5 DEF Genesis, Ledger!Genesis

\* A burn is a burn of the ledger, at home or abroad, or no step of it.
LEMMA BurnRefines ==
  ASSUME IInv, NEW c \in Chains, NEW a \in Accounts, NEW v \in 1..MAX_SUPPLY,
         BuyAndBurn(c, a, v)
  PROVE  [Ledger!Next]_(Ledger!ledgerVars)
<1> USE DEF IInv
<1>1. Hub \in Chains /\ v \in Nat
  BY DEF Chains
<1>2. /\ Supply(c)' = Supply(c) - v
      /\ \A d \in Chains \ {c} : Supply(d)' = Supply(d)
      /\ balance' \in [Chains -> [Accounts -> Nat]]
  BY <1>1, BurnSupply DEF BuyAndBurn
<1>3. CASE c = Hub
  <2>1. Supply(Hub)' = Supply(Hub) - v /\ totalBurned'[Hub] = totalBurned[Hub] + v
    BY <1>2, <1>3 DEF BuyAndBurn, Plus, TypeOK
  <2>2. v <= Supply(Hub)
    <3>1. Total(balance'[Hub]) \in Nat
      BY <1>1, <1>2, TotalType
    <3> QED BY <1>1, <2>1, <3>1, SumsType DEF Supply
  <2>3. Ledger!Burn(v)
    BY <2>1, <2>2 DEF Ledger!Burn, BuyAndBurn
  <2>4. v \in 0..MAX_SUPPLY
    OBVIOUS
  <2> QED BY <2>3, <2>4 DEF Ledger!Next
<1>4. CASE c # Hub
  <2>1. Supply(Hub)' = Supply(Hub)
    BY <1>1, <1>2, <1>4
  <2>2. totalBurned'[Hub] = totalBurned[Hub] /\ outstandingByEid' = outstandingByEid
    BY <1>1, <1>4 DEF BuyAndBurn, Plus, TypeOK
  <2> QED BY <2>1, <2>2 DEF Ledger!ledgerVars
<1> QED BY <1>3, <1>4

\* A send is a step of the ledger, or none.
LEMMA SendRefines ==
  ASSUME IInv, NEW c \in Chains, NEW d \in Chains, NEW a \in Accounts, NEW b \in Accounts,
         NEW v \in 1..MAX_SUPPLY, Send(c, d, a, b, v)
  PROVE  [Ledger!Next]_(Ledger!ledgerVars)
<1> USE DEF IInv
<1> DEFINE n == RemoveDust(v)
<1>1. n \in 0..MAX_SUPPLY /\ n \in Nat /\ Hub \in Chains
  BY DustType DEF Chains
<1>2. Burn(c, a, n) /\ totalBurned' = totalBurned
  BY DEF Send, HubDebit, SpokeDebit
<1>3. /\ Supply(c)' = Supply(c) - n
      /\ \A e \in Chains \ {c} : Supply(e)' = Supply(e)
      /\ balance' \in [Chains -> [Accounts -> Nat]]
  BY <1>1, <1>2, BurnSupply
<1> HIDE DEF n
<1>4. CASE c = Hub
  <2>1. d \in Spokes
    BY <1>4 DEF Send, Wellformed, Chains
  <2>2. outstandingByEid' = Plus(outstandingByEid, d, n)
    BY <1>4 DEF Send, HubDebit, n
  <2>3. n <= Supply(Hub)
    <3>1. Total(balance'[Hub]) \in Nat
      BY <1>1, <1>3, TotalType
    <3> QED BY <1>1, <1>3, <1>4, <3>1, SumsType DEF Supply
  <2>4. Ledger!Depart(d, n)
    BY <1>2, <1>3, <1>4, <2>2, <2>3 DEF Ledger!Depart, Plus, Ledger!Plus
  <2> QED BY <1>1, <2>1, <2>4 DEF Ledger!Next
<1>5. CASE c # Hub
  <2>1. Supply(Hub)' = Supply(Hub) /\ outstandingByEid' = outstandingByEid
    BY <1>1, <1>3, <1>5 DEF Send, SpokeDebit
  <2> QED BY <1>2, <2>1 DEF Ledger!ledgerVars
<1> QED BY <1>4, <1>5

\* A delivery is a step of the ledger, or none.
LEMMA ReceiveRefines ==
  ASSUME IInv, NEW m \in inflight, Receive(m)
  PROVE  [Ledger!Next]_(Ledger!ledgerVars)
<1> USE DEF IInv
<1> DEFINE n == m.amount
<1>1. n \in Nat /\ m.to \in Accounts /\ m.dst \in Chains /\ Hub \in Chains
  BY DEF TypeOK, Messages, Chains
<1>2. /\ Supply(m.dst)' = Supply(m.dst) + n
      /\ \A e \in Chains \ {m.dst} : Supply(e)' = Supply(e)
  BY <1>1, MintSupply DEF Receive
<1>3. totalBurned' = totalBurned
  BY DEF Receive
<1> HIDE DEF n
<1>4. CASE m.dst = Hub
  <2>1. m.src \in Spokes
    BY <1>4 DEF Wellformed
  <2>2. n <= outstandingByEid[m.src] /\ outstandingByEid' = Minus(outstandingByEid, m.src, n)
    BY <1>4 DEF Receive, HubCredit, n
  <2>3. Ledger!Return(m.src, n)
    BY <1>2, <1>3, <1>4, <2>2 DEF Ledger!Return, Minus, Ledger!Minus
  <2>4. n \in 0..MAX_SUPPLY
    <3>1. Supply(Hub) + n <= MAX_SUPPLY
      BY <1>4 DEF Receive, Mint, n
    <3> QED BY <1>1, <3>1, SumsType
  <2> QED BY <2>1, <2>3, <2>4 DEF Ledger!Next
<1>5. CASE m.dst # Hub
  <2>1. Supply(Hub)' = Supply(Hub) /\ outstandingByEid' = outstandingByEid
    BY <1>1, <1>2, <1>5 DEF Receive, SpokeCredit
  <2> QED BY <1>3, <2>1 DEF Ledger!ledgerVars
<1> QED BY <1>4, <1>5

\* Every step of the bridge is a step of the ledger, or none.
LEMMA StepRefines == IInv /\ [Next]_vars => [Ledger!Next]_(Ledger!ledgerVars)
<1> SUFFICES ASSUME IInv, [Next]_vars PROVE [Ledger!Next]_(Ledger!ledgerVars)
  OBVIOUS
<1> USE DEF IInv
<1>1. Hub \in Chains /\ 1..MAX_SUPPLY \subseteq Nat
  BY DEF Chains
<1>2. CASE \E a \in Accounts : Genesis(a)
  BY <1>2, GenesisRefines DEF Ledger!Next
<1>3. ASSUME NEW c \in Chains, NEW a \in Accounts, NEW b \in Accounts,
             NEW v \in 1..MAX_SUPPLY, Transfer(c, a, b, v)
      PROVE  [Ledger!Next]_(Ledger!ledgerVars)
  <2>1. Supply(Hub)' = Supply(Hub)
    BY <1>1, <1>3, TransferSupply
  <2> QED BY <1>3, <2>1 DEF Transfer, Ledger!ledgerVars
<1>4. CASE TokenNext
  BY <1>2, <1>3, <1>4, BurnRefines DEF TokenNext
<1>5. CASE BridgeNext
  BY <1>5, SendRefines, ReceiveRefines DEF BridgeNext
<1>6. CASE AdminNext \/ UNCHANGED vars
  BY <1>6 DEF AdminNext, Pause, Unpause, SetPeer, SetMaxTransferAmount,
              SetMaxWalletBalance, SetExemptFromLimits, vars, Supply, Ledger!ledgerVars
<1> QED BY <1>4, <1>5, <1>6 DEF Next

(***************************************************************************)
(* The bridge implements the abstract ledger: SRX leaves Ethereum and comes *)
(* back from the chain it left for, and nothing else changes the supply.    *)
(***************************************************************************)
THEOREM BridgeImplementsLedger == Spec => ImplementsLedger
BY InitRefines, StepRefines, Invariance, PTL DEF Spec, ImplementsLedger, Ledger!Spec
=============================================================================
