------------------------------ MODULE TgeProofs ------------------------------
(***************************************************************************)
(* Proofs about TgeLaunch, for every plan, every set of addresses, every    *)
(* manifest and every number of edits, stops and donations: only a checked  *)
(* list is paid, through the Safe in one transaction, grants are their rows, *)
(* and a run that reports success has left what verify_tge.js verifies.     *)
(***************************************************************************)
EXTENDS TgeLaunch, CommonProofs

-----------------------------------------------------------------------------
(***************************************************************************)
(* The plan.                                                               *)
(***************************************************************************)
\* The rows are finitely many and each has its label.
LEMMA PlanRows ==
  /\ Plan \in Seq(Rows) /\ IsFiniteSet(Labels)
  /\ \A row \in Rows : row.label \in Labels /\ Row(row.label) = row
  /\ \A l \in Labels : Row(l) \in Rows /\ Row(l).label = l
  /\ \A row \in Rows : row.kind \in {"vault", "wallet", "contract"} /\ row.amount \in Nat \ {0}
<1>1. Plan \in Seq([label : STRING, kind : {"vault", "wallet", "contract"}, amount : Nat \ {0}])
      /\ \A i, j \in DOMAIN Plan : Plan[i].label = Plan[j].label => i = j
  BY PlanAssumption
<1> DEFINE n == Len(Plan)
<1>2. n \in Nat /\ DOMAIN Plan = 1..n /\ Plan \in Seq(Rows)
  BY <1>1 DEF Rows
<1>3. \A row \in Rows : row.kind \in {"vault", "wallet", "contract"} /\ row.amount \in Nat \ {0}
  <2>1. \A i \in 1..n : /\ Plan[i].kind \in {"vault", "wallet", "contract"}
                       /\ Plan[i].amount \in Nat \ {0}
    <3> DEFINE Shapes == [label : STRING, kind : {"vault", "wallet", "contract"}, amount : Nat \ {0}]
    <3>1. \A r \in Shapes : r.kind \in {"vault", "wallet", "contract"} /\ r.amount \in Nat \ {0}
      OBVIOUS
    <3>2. Plan \in Seq(Shapes)
      BY <1>1
    <3> HIDE DEF Shapes
    <3>3. \A i \in 1..n : Plan[i] \in Shapes
      BY <3>2
    <3> QED BY <3>1, <3>3
  <2> QED BY <1>2, <2>1 DEF Rows
<1>4. ASSUME NEW row \in Rows PROVE row.label \in Labels /\ Row(row.label) = row
  <2>1. \A other \in Rows : other.label = row.label => other = row
    BY <1>1, <1>2 DEF Rows
  <2> QED BY <2>1 DEF Labels, Row
<1>5. \A l \in Labels : Row(l) \in Rows /\ Row(l).label = l
  BY <1>4 DEF Labels
<1>6. IsFiniteSet(Labels)
  <2> DEFINE f == [i \in 1..n |-> Plan[i].label]
  <2>1. f \in Surjection(1..n, Labels)
    BY <1>2 DEF Surjection, Labels, Rows
  <2>2. IsFiniteSet(1..n)
    BY <1>2, FS_Interval
  <2> HIDE DEF f, n
  <2> QED BY <2>1, <2>2, FS_Surjection
<1> QED BY <1>2, <1>3, <1>4, <1>5, <1>6

\* Amounts are natural numbers, and so are their sums.
LEMMA Sums ==
  /\ Amount \in [Labels -> Nat \ {0}] /\ MAX_SUPPLY \in Nat
  /\ \A list, a : Sent(list, a) \in Nat
<1>1. Amount \in [Labels -> Nat \ {0}]
  BY PlanRows DEF Amount
<1>2. MAX_SUPPLY \in Nat
  BY <1>1, PlanRows, TotalType DEF MAX_SUPPLY
<1>3. ASSUME NEW list, NEW a PROVE Sent(list, a) \in Nat
  <2> DEFINE S == {k \in Labels : list[k] = a}
             f == [l \in S |-> Amount[l]]
  <2>1. IsFiniteSet(S)
    BY PlanRows, FS_Subset
  <2>2. f \in [S -> Nat]
    BY <1>1
  <2>3. Sent(list, a) = Total(f)
    BY DEF Sent
  <2> HIDE DEF S, f
  <2> QED BY <2>1, <2>2, <2>3, TotalType
<1> QED BY <1>1, <1>2, <1>3

-----------------------------------------------------------------------------
(***************************************************************************)
(* Chains and calls.                                                       *)
(***************************************************************************)
Lists == [Labels -> Address]
Chains == [genesis : BOOLEAN, allocations : Lists \cup {NoList}, distributed : BOOLEAN,
           bal : [Address -> Int], declared : [Address -> Nat], grant : [Address -> Int],
           triggered : SUBSET Address, rewardPool : Int, locked : Int]
Calls == [fn : {"declare"}, at : Address, amount : Nat]
         \cup [fn : {"setAllocations"}, list : Lists]
         \cup [fn : {"genesis"}] \cup [fn : {"distribute"}]
         \cup [fn : {"triggerTGE"}, at : Address]
         \cup [fn : {"notify"}, amount : Int]

\* A call is one of six.
LEMMA CallKinds ==
  ASSUME NEW call \in Calls
  PROVE  \/ call.fn = "declare" /\ call.at \in Address /\ call.amount \in Nat
         \/ call.fn = "setAllocations" /\ call.list \in Lists
         \/ call.fn = "genesis" \/ call.fn = "distribute"
         \/ call.fn = "triggerTGE" /\ call.at \in Address
         \/ call.fn = "notify" /\ call.amount \in Int
BY DEF Calls

\* What each call does, and when it reverts.
LEMMA CallEffects ==
  ASSUME NEW c, NEW call
  PROVE  /\ call.fn = "declare" =>
                Effect(c, call) = [c EXCEPT !.declared[call.at] = call.amount]
         /\ call.fn = "setAllocations" =>
                Effect(c, call) = [c EXCEPT !.allocations = call.list] /\ (~Reverts(c, call) => ~c.distributed)
         /\ call.fn = "genesis" =>
                Effect(c, call) = [c EXCEPT !.genesis = TRUE, !.bal[Distributor] = @ + MAX_SUPPLY]
         /\ call.fn = "distribute" =>
                Effect(c, call) =
                    [c EXCEPT !.distributed = TRUE,
                              !.bal = [a \in Address |-> @[a] + Sent(c.allocations, a)
                                                         - IF a = Distributor THEN MAX_SUPPLY ELSE 0]]
         /\ call.fn = "triggerTGE" =>
                Effect(c, call) =
                    [c EXCEPT !.triggered = @ \cup {call.at},
                              !.grant[call.at] = IF c.declared[call.at] # 0 THEN c.declared[call.at] ELSE c.bal[call.at]]
         /\ call.fn = "notify" => Effect(c, call) = [c EXCEPT !.rewardPool = @ + call.amount]
<1>1. ASSUME call.fn = "declare" PROVE Effect(c, call) = [c EXCEPT !.declared[call.at] = call.amount]
  BY <1>1 DEF Effect
<1>2. ASSUME call.fn = "setAllocations"
      PROVE  Effect(c, call) = [c EXCEPT !.allocations = call.list] /\ (~Reverts(c, call) => ~c.distributed)
  BY <1>2 DEF Effect, Reverts
<1>3. ASSUME call.fn = "genesis"
      PROVE  Effect(c, call) = [c EXCEPT !.genesis = TRUE, !.bal[Distributor] = @ + MAX_SUPPLY]
  BY <1>3 DEF Effect
<1>4. ASSUME call.fn = "distribute"
      PROVE  Effect(c, call) =
                    [c EXCEPT !.distributed = TRUE,
                              !.bal = [a \in Address |-> @[a] + Sent(c.allocations, a)
                                                         - IF a = Distributor THEN MAX_SUPPLY ELSE 0]]
  BY <1>4 DEF Effect
<1>5. ASSUME call.fn = "triggerTGE"
      PROVE  Effect(c, call) =
                    [c EXCEPT !.triggered = @ \cup {call.at},
                              !.grant[call.at] = IF c.declared[call.at] # 0 THEN c.declared[call.at] ELSE c.bal[call.at]]
  BY <1>5 DEF Effect
<1>6. ASSUME call.fn = "notify" PROVE Effect(c, call) = [c EXCEPT !.rewardPool = @ + call.amount]
  BY <1>6 DEF Effect
<1> QED BY <1>1, <1>2, <1>3, <1>4, <1>5, <1>6

\* What each call changes, field by field.
LEMMA EffectFields ==
  ASSUME NEW c \in Chains, NEW call \in Calls
  PROVE  /\ Effect(c, call) \in Chains
         /\ Effect(c, call).genesis = (c.genesis \/ call.fn = "genesis")
         /\ Effect(c, call).allocations = IF call.fn = "setAllocations" THEN call.list ELSE c.allocations
         /\ Effect(c, call).distributed = (c.distributed \/ call.fn = "distribute")
         /\ Effect(c, call).triggered = IF call.fn = "triggerTGE" THEN c.triggered \cup {call.at} ELSE c.triggered
         /\ call.fn \notin {"genesis", "distribute"} => Effect(c, call).bal = c.bal
         /\ call.fn # "declare" => Effect(c, call).declared = c.declared
         /\ call.fn # "triggerTGE" => Effect(c, call).grant = c.grant
         /\ call.fn # "notify" => Effect(c, call).rewardPool = c.rewardPool
         /\ Effect(c, call).locked = c.locked
<1> DEFINE d == Effect(c, call)
           Fields == /\ d \in Chains
                     /\ d.genesis = (c.genesis \/ call.fn = "genesis")
                     /\ d.allocations = IF call.fn = "setAllocations" THEN call.list ELSE c.allocations
                     /\ d.distributed = (c.distributed \/ call.fn = "distribute")
                     /\ d.triggered = IF call.fn = "triggerTGE" THEN c.triggered \cup {call.at} ELSE c.triggered
                     /\ call.fn \notin {"genesis", "distribute"} => d.bal = c.bal
                     /\ call.fn # "declare" => d.declared = c.declared
                     /\ call.fn # "triggerTGE" => d.grant = c.grant
                     /\ call.fn # "notify" => d.rewardPool = c.rewardPool
                     /\ d.locked = c.locked
<1>0. MAX_SUPPLY \in Nat /\ (\A a \in Address : Sent(c.allocations, a) \in Nat) /\ Distributor \in Address
  BY Sums, AddressAssumption
<1>1. ASSUME call.fn = "declare", call.at \in Address, call.amount \in Nat
      PROVE  d = [c EXCEPT !.declared[call.at] = call.amount] /\ d \in Chains
  <2>1. d = [c EXCEPT !.declared[call.at] = call.amount]
    BY <1>1, CallEffects
  <2> HIDE DEF d
  <2> QED BY <1>1, <2>1 DEF Chains
<1>2. ASSUME call.fn = "setAllocations", call.list \in Lists
      PROVE  d = [c EXCEPT !.allocations = call.list] /\ d \in Chains
  <2>1. d = [c EXCEPT !.allocations = call.list]
    BY <1>2, CallEffects
  <2> HIDE DEF d
  <2> QED BY <1>2, <2>1 DEF Chains
<1>3. ASSUME call.fn = "genesis"
      PROVE  d = [c EXCEPT !.genesis = TRUE, !.bal[Distributor] = @ + MAX_SUPPLY] /\ d \in Chains
  <2>1. d = [c EXCEPT !.genesis = TRUE, !.bal[Distributor] = @ + MAX_SUPPLY]
    BY <1>3, CallEffects
  <2> HIDE DEF d
  <2>2. [c.bal EXCEPT ![Distributor] = @ + MAX_SUPPLY] \in [Address -> Int]
    BY <1>0 DEF Chains
  <2> QED BY <2>1, <2>2 DEF Chains
<1>4. ASSUME call.fn = "distribute"
      PROVE  /\ d = [c EXCEPT !.distributed = TRUE,
                              !.bal = [a \in Address |-> @[a] + Sent(c.allocations, a)
                                                         - IF a = Distributor THEN MAX_SUPPLY ELSE 0]]
             /\ d \in Chains
  <2>1. d = [c EXCEPT !.distributed = TRUE,
                      !.bal = [a \in Address |-> @[a] + Sent(c.allocations, a)
                                                 - IF a = Distributor THEN MAX_SUPPLY ELSE 0]]
    BY <1>4, CallEffects
  <2> HIDE DEF d
  <2>2. [a \in Address |-> c.bal[a] + Sent(c.allocations, a)
                           - IF a = Distributor THEN MAX_SUPPLY ELSE 0] \in [Address -> Int]
    BY <1>0 DEF Chains
  <2> QED BY <2>1, <2>2 DEF Chains
<1>5. ASSUME call.fn = "triggerTGE", call.at \in Address
      PROVE  /\ d = [c EXCEPT !.triggered = @ \cup {call.at},
                              !.grant[call.at] = IF c.declared[call.at] # 0 THEN c.declared[call.at] ELSE c.bal[call.at]]
             /\ d \in Chains
  <2>1. d = [c EXCEPT !.triggered = @ \cup {call.at},
                      !.grant[call.at] = IF c.declared[call.at] # 0 THEN c.declared[call.at] ELSE c.bal[call.at]]
    BY <1>5, CallEffects
  <2> HIDE DEF d
  <2>2. c.triggered \cup {call.at} \in SUBSET Address
    BY <1>5 DEF Chains
  <2>3. [c.grant EXCEPT ![call.at] = IF c.declared[call.at] # 0 THEN c.declared[call.at] ELSE c.bal[call.at]] \in [Address -> Int]
    BY <1>5 DEF Chains
  <2> QED BY <2>1, <2>2, <2>3 DEF Chains
<1>6. ASSUME call.fn = "notify", call.amount \in Int
      PROVE  d = [c EXCEPT !.rewardPool = @ + call.amount] /\ d \in Chains
  <2>1. d = [c EXCEPT !.rewardPool = @ + call.amount]
    BY <1>6, CallEffects
  <2> HIDE DEF d
  <2> QED BY <1>6, <2>1 DEF Chains
<1> HIDE DEF d
<1>7. ASSUME call.fn = "declare" PROVE Fields
  BY <1>1, <1>7, CallKinds DEF Chains
<1>8. ASSUME call.fn = "setAllocations" PROVE Fields
  BY <1>2, <1>8, CallKinds DEF Chains
<1>9. ASSUME call.fn = "genesis" PROVE Fields
  BY <1>3, <1>9, CallKinds DEF Chains
<1>10. ASSUME call.fn = "distribute" PROVE Fields
  BY <1>4, <1>10, CallKinds DEF Chains
<1>11. ASSUME call.fn = "triggerTGE" PROVE Fields
  BY <1>5, <1>11, CallKinds DEF Chains
<1>12. ASSUME call.fn = "notify" PROVE Fields
  BY <1>6, <1>12, CallKinds DEF Chains
<1>13. Fields
  <2> HIDE DEF Fields
  <2> QED BY <1>7, <1>8, <1>9, <1>10, <1>11, <1>12, CallKinds
<1> QED BY <1>13 DEF d

\* The chains t that a batch passes through, from c to d.
Trace(t, calls, c, d) ==
    /\ t \in [0..Len(calls) -> Chains]
    /\ t[0] = c /\ t[Len(calls)] = d
    /\ \A i \in 1..Len(calls) : ~Reverts(t[i - 1], calls[i]) /\ t[i] = Effect(t[i - 1], calls[i])

\* A batch that the Safe executes passes through the effects of its calls, none of which reverts.
LEMMA BatchTrace ==
  ASSUME NEW calls \in Seq(Calls), NEW c \in Chains, NEW d \in Execute(calls, c)
  PROVE  \E t : Trace(t, calls, c, d)
<1> DEFINE n == Len(calls)
           After(A, i) == {Effect(before, calls[i]) : before \in {b \in A : ~Reverts(b, calls[i])}}
           F(f) == [i \in 0..n |-> IF i = 0 THEN {c} ELSE After(f[i - 1], i)]
           after == CHOOSE f : f = F(f)
           Sets == SUBSET Chains
           start == {c}
           step == [i \in 1..n |-> [A \in Sets |-> After(A, i)]]
<1>1. Execute(calls, c) = after[n]
  BY DEF Execute
<1>2. n \in Nat /\ \A i \in 1..n : calls[i] \in Calls
  OBVIOUS
<1>3. \A i \in 1..n : \A A \in Sets : After(A, i) \in Sets
  <2>1. \A call \in Calls : \A b \in Chains : Effect(b, call) \in Chains
    BY EffectFields
  <2> QED BY <1>2, <2>1
<1> HIDE DEF After
<1>4. step \in [1..n -> [Sets -> Sets]] /\ start \in Sets
  BY <1>3
<1>5. PICK f : Stepwise(f, n, Sets, start, step)
  <2> HIDE DEF step, n, Sets, start
  <2> QED BY <1>2, <1>4, StepwiseFunction
<1>6. f = F(f)
  <2>0. f \in [0..n -> Sets] /\ f[0] = {c} /\ \A i \in 1..n : f[i] = step[i][f[i - 1]]
    BY <1>5 DEF Stepwise
  <2>1. ASSUME NEW i \in 0..n PROVE f[i] = F(f)[i]
    <3>1. CASE i = 0
      BY <2>0, <3>1
    <3>2. CASE i # 0
      <4>1. i \in 1..n /\ i - 1 \in 0..n
        BY <1>2, <3>2
      <4>2. f[i] = After(f[i - 1], i)
        BY <2>0, <4>1
      <4> QED BY <3>2, <4>2
    <3> QED BY <3>1, <3>2
  <2> QED BY <2>0, <2>1
<1>7. after = F(after)
  <2> HIDE DEF F
  <2> QED BY <1>6
<1> HIDE DEF after
<1>8. after[0] = {c} /\ \A i \in 1..n : after[i] = After(after[i - 1], i)
  <2> HIDE DEF n
  <2>1. 0 \in 0..n /\ \A i \in 1..n : i \in 0..n /\ i # 0
    BY <1>2
  <2> QED BY <1>7, <2>1
<1> DEFINE Passes(t, i, e) ==
               /\ t \in [0..i -> Chains] /\ t[0] = c /\ t[i] = e
               /\ \A j \in 1..i : ~Reverts(t[j - 1], calls[j]) /\ t[j] = Effect(t[j - 1], calls[j])
           Reached(i) == \A e \in after[i] : \E t : Passes(t, i, e)
           T == {i \in 0..n : after[i] \in Sets /\ Reached(i)}
<1>9. 0 \in T
  <2>1. after[0] \in Sets /\ 0 \in 0..n
    BY <1>2, <1>8
  <2>2. ASSUME NEW e \in after[0] PROVE \E t : Passes(t, 0, e)
    <3> DEFINE t == [i \in 0..0 |-> c]
    <3>1. t \in [0..0 -> Chains] /\ t[0] = c /\ c = e
      BY <1>8, <2>2
    <3> HIDE DEF t
    <3>2. Passes(t, 0, e)
      BY <3>1
    <3> QED BY <3>2
  <2> HIDE DEF Passes, n
  <2> QED BY <2>1, <2>2
<1>10. ASSUME NEW i \in 1..n, i - 1 \in T PROVE i \in T
  <2>1. i \in Nat /\ i - 1 \in Nat /\ i \in 0..n /\ after[i - 1] \in Sets /\ after[i] = After(after[i - 1], i)
    BY <1>2, <1>8, <1>10
  <2>2. after[i] \in Sets
    BY <1>3, <2>1
  <2>3. ASSUME NEW e \in after[i] PROVE \E t : Passes(t, i, e)
    <3>1. PICK b \in after[i - 1] : ~Reverts(b, calls[i]) /\ e = Effect(b, calls[i])
      BY <2>1, <2>3 DEF After
    <3>2. PICK t : Passes(t, i - 1, b)
      <4> HIDE DEF Passes
      <4> QED BY <1>10
    <3>3. e \in Chains
      BY <2>2, <2>3
    <3> DEFINE u == [j \in 0..i |-> IF j = i THEN e ELSE t[j]]
    <3>4. u \in [0..i -> Chains] /\ u[i] = e /\ \A j \in 0..(i - 1) : u[j] = t[j]
      BY <2>1, <3>2, <3>3
    <3> HIDE DEF u
    <3>5. u[0] = c /\ u[i - 1] = b
      BY <2>1, <3>2, <3>4
    <3>6. ASSUME NEW j \in 1..i PROVE ~Reverts(u[j - 1], calls[j]) /\ u[j] = Effect(u[j - 1], calls[j])
      <4>1. CASE j = i
        BY <3>1, <3>4, <3>5, <4>1
      <4>2. CASE j # i
        <5>1. j \in 1..(i - 1) /\ j \in 0..(i - 1) /\ j - 1 \in 0..(i - 1)
          BY <2>1, <4>2
        <5> QED BY <3>2, <3>4, <5>1
      <4> QED BY <4>1, <4>2
    <3>7. Passes(u, i, e)
      BY <3>4, <3>5, <3>6
    <3> HIDE DEF Passes
    <3> QED BY <3>7
  <2> HIDE DEF Passes, n
  <2> QED BY <2>1, <2>2, <2>3
<1>11. n \in T
  <2>1. 0..n \subseteq T
    <3> HIDE DEF T, n
    <3> QED BY <1>2, <1>9, <1>10, Steps
  <2>2. n \in 0..n
    BY <1>2
  <2> HIDE DEF T, n
  <2> QED BY <2>1, <2>2
<1>12. PICK t : Passes(t, n, d)
  <2> HIDE DEF Passes
  <2> QED BY <1>1, <1>11
<1>13. Trace(t, calls, c, d)
  BY <1>12 DEF Trace
<1> QED BY <1>13

-----------------------------------------------------------------------------
(***************************************************************************)
(* The lists that pass the gate, and the batches made of them.             *)
(***************************************************************************)
\* A list that agrees with the manifest, as far as there is one.
Checked(list) ==
    /\ list \in Lists
    /\ manifest = NoManifest => network = "local"
    /\ manifest # NoManifest => list = manifest.dest
    /\ manifest # NoManifest => \A l, k \in Labels : list[l] = list[k] => l = k
    /\ manifest # NoManifest => \A l \in VaultLabels : list[l] \in DOMAIN Vaults /\ Vaults[list[l]].row = l
    /\ network = "real" =>
           /\ \A l \in Labels : list[l] \in Contracts
           /\ \A l \in VaultLabels : Vaults[list[l]] = [row |-> l, payee |-> "named"]

\* A list that passes the gate is one.
LEMMA GateChecks ==
  ASSUME env \in EnvFiles, manifest \in Manifests \cup {NoManifest}, network \in {"real", "testnet", "local"}, RunTgeTargetChecks(env)
  PROVE  Checked(AllocationsOf(env))
<1> DEFINE list == AllocationsOf(env)
<1>1. env.dest \in [Labels -> Address \cup {Unset}]
  BY FilesAssumption
<1>2. list \in Lists
  <2>1. ASSUME NEW l \in Labels PROVE list[l] \in Address
    <3>1. list[l] = IF Row(l).kind = "wallet" THEN WalletFor(env.dest[l]) ELSE env.dest[l]
      BY <2>1 DEF AllocationsOf
    <3>2. list[l] # Unset
      BY <2>1 DEF RunTgeTargetChecks
    <3>3. env.dest[l] \in Address \cup {Unset} /\ TestnetWallet \in Address
      BY <1>1, <2>1, AddressAssumption
    <3> QED BY <3>1, <3>2, <3>3 DEF WalletFor
  <2>2. list = [l \in Labels |-> list[l]]
    BY DEF AllocationsOf
  <2> HIDE DEF list
  <2> QED BY <2>1, <2>2 DEF Lists
<1>3. manifest = NoManifest => network = "local"
  BY DEF RunTgeTargetChecks
<1>4. ASSUME manifest # NoManifest
      PROVE  /\ list = [l \in Labels |-> manifest.dest[l]] /\ manifest.network = network
             /\ \A l, k \in Labels : list[l] = list[k] => l = k
             /\ manifest.dest \in [Labels -> Address]
             /\ RolesAgree(env, manifest) /\ CheckOnChain(list, manifest)
  <2>1. CheckAgainstManifest(list, env, manifest) /\ CheckOnChain(list, manifest)
    BY <1>4 DEF RunTgeTargetChecks
  <2>2. list = [l \in Labels |-> list[l]]
    BY DEF AllocationsOf
  <2>3. manifest.dest \in [Labels -> Address]
    BY <1>4, FilesAssumption
  <2> HIDE DEF list
  <2> QED BY <2>1, <2>2, <2>3 DEF CheckAgainstManifest
<1> HIDE DEF list
<1>5. ASSUME network = "real"
      PROVE  /\ \A l \in Labels : list[l] \in Contracts
             /\ \A l \in VaultLabels : Vaults[list[l]] = [row |-> l, payee |-> "named"]
  <2>1. manifest # NoManifest /\ ~IsTestnet
    BY <1>3, <1>5 DEF IsTestnet
  <2>2. manifest.pinned
    BY <1>4, <2>1 DEF RolesAgree
  <2>3. \A l \in Labels : list[l] \in Contracts
    BY <1>4, <2>1 DEF CheckOnChain
  <2>4. ASSUME NEW l \in VaultLabels PROVE Vaults[list[l]] = [row |-> l, payee |-> "named"]
    <3>1. l \in Labels /\ Row(l).kind = "vault"
      BY DEF VaultLabels
    <3>2. list[l] \in DOMAIN Vaults /\ Vaults[list[l]].row = l /\ Vaults[list[l]].payee = "named"
      BY <1>4, <2>1, <2>2, <2>3, <3>1 DEF CheckOnChain
    <3>3. Vaults[list[l]] \in [row : Labels, payee : {"named", "other"}]
      BY <3>2, AddressAssumption
    <3> QED BY <3>2, <3>3
  <2> QED BY <2>3, <2>4
<1>6. manifest # NoManifest => list = manifest.dest
  <2> SUFFICES ASSUME manifest # NoManifest PROVE list = manifest.dest
    OBVIOUS
  <2>1. manifest.dest = [l \in Labels |-> manifest.dest[l]]
    BY <1>4
  <2> QED BY <1>4, <2>1
<1>7. ASSUME manifest # NoManifest, NEW l \in VaultLabels
      PROVE  list[l] \in DOMAIN Vaults /\ Vaults[list[l]].row = l
  <2>1. l \in Labels /\ Row(l).kind = "vault"
    BY DEF VaultLabels
  <2>2. list[l] \in Contracts
    BY <1>4, <1>7, <2>1 DEF CheckOnChain
  <2> QED BY <1>4, <1>7, <2>1, <2>2 DEF CheckOnChain
<1> QED BY <1>2, <1>3, <1>4, <1>5, <1>6, <1>7 DEF Checked, list

\* The rows of the vaults.
LEMMA VaultPlan ==
  /\ VaultRows \in Seq(Rows) /\ DOMAIN VaultRows = 1..Len(VaultRows) /\ Len(VaultRows) \in Nat
  /\ \A i \in DOMAIN VaultRows : VaultRows[i].label \in VaultLabels /\ VaultRows[i].amount \in Nat \ {0}
                                 /\ VaultRows[i] = Row(VaultRows[i].label)
  /\ \A l \in VaultLabels : \E i \in DOMAIN VaultRows : VaultRows[i].label = l
<1> DEFINE keep == [i \in DOMAIN Plan |-> Plan[i].kind = "vault"]
<1>1. VaultRows = Picked(Plan, keep)
  BY DEF VaultRows
<1>2. /\ VaultRows \in Seq(Rows)
      /\ \A k \in 1..Len(VaultRows) : \E i \in 1..Len(Plan) : keep[i] /\ VaultRows[k] = Plan[i]
      /\ \A i \in 1..Len(Plan) : keep[i] => \E k \in 1..Len(VaultRows) : VaultRows[k] = Plan[i]
  <2>1. Plan \in Seq(Rows) /\ keep \in [1..Len(Plan) -> BOOLEAN]
    BY PlanRows
  <2> HIDE DEF keep
  <2>2. VaultRows \in Seq(Rows) /\ \E at : Picks(VaultRows, Plan, keep, at)
    BY <1>1, <2>1, PickedEntries
  <2>3. PICK at : Picks(VaultRows, Plan, keep, at)
    BY <2>2
  <2> QED BY <2>2, <2>3 DEF Picks
<1>3. DOMAIN VaultRows = 1..Len(VaultRows) /\ Len(VaultRows) \in Nat /\ DOMAIN Plan = 1..Len(Plan)
  BY <1>2, PlanRows
<1>4. \A k \in DOMAIN VaultRows : VaultRows[k] \in Rows /\ VaultRows[k].kind = "vault"
  <2> TAKE k \in DOMAIN VaultRows
  <2>1. PICK i \in DOMAIN Plan : keep[i] /\ VaultRows[k] = Plan[i]
    BY <1>2, <1>3
  <2> QED BY <2>1 DEF Rows
<1> HIDE DEF keep
<1>5. \A l \in VaultLabels : \E i \in DOMAIN VaultRows : VaultRows[i].label = l
  <2> SUFFICES ASSUME NEW l \in VaultLabels PROVE \E i \in DOMAIN VaultRows : VaultRows[i].label = l
    OBVIOUS
  <2>1. l \in Labels /\ Row(l).kind = "vault" /\ Row(l) \in Rows /\ Row(l).label = l
    BY PlanRows DEF VaultLabels
  <2>2. PICK i \in DOMAIN Plan : Plan[i] = Row(l)
    BY <2>1 DEF Rows
  <2>3. keep[i] /\ i \in 1..Len(Plan)
    BY <1>3, <2>1, <2>2 DEF keep
  <2>4. PICK k \in 1..Len(VaultRows) : VaultRows[k] = Plan[i]
    BY <1>2, <2>3
  <2> QED BY <1>3, <2>1, <2>2, <2>4
<1>6. \A k \in DOMAIN VaultRows : VaultRows[k].label \in VaultLabels /\ VaultRows[k].amount \in Nat \ {0}
                                  /\ VaultRows[k] = Row(VaultRows[k].label)
  BY <1>4, PlanRows DEF VaultLabels
<1> QED BY <1>2, <1>3, <1>5, <1>6

\* The vaults of the first script are vaults, one for each row.
LEMMA DeployedTypes ==
  /\ DeployedVaults \in [VaultLabels -> DOMAIN Vaults] /\ DOMAIN Vaults \subseteq Address
  /\ \A l \in VaultLabels : Vaults[DeployedVaults[l]] = [row |-> l, payee |-> "named"]
<1>1. ASSUME NEW l \in VaultLabels
      PROVE  \E a \in DOMAIN Vaults : Vaults[a] = [row |-> l, payee |-> "named"]
  <2>1. Row(l) \in Rows /\ Row(l).kind = "vault" /\ Row(l).label = l
    BY PlanRows DEF VaultLabels
  <2> QED BY <2>1, AddressAssumption
<1>2. ASSUME NEW l \in VaultLabels
      PROVE  DeployedVaults[l] \in DOMAIN Vaults /\ Vaults[DeployedVaults[l]] = [row |-> l, payee |-> "named"]
  <2>1. DeployedVaults[l] = CHOOSE a \in DOMAIN Vaults : Vaults[a] = [row |-> l, payee |-> "named"]
    BY DEF DeployedVaults
  <2> QED BY <1>1, <2>1
<1>3. DeployedVaults = [l \in VaultLabels |-> DeployedVaults[l]]
  BY DEF DeployedVaults
<1> QED BY <1>2, <1>3, AddressAssumption

\* The batch of the first script declares every vault and distributes nothing.
LEMMA VestingCalls ==
  /\ VestingBatch(DeployedVaults) \in Seq(Calls)
  /\ \A i \in 1..Len(VestingBatch(DeployedVaults)) :
        VestingBatch(DeployedVaults)[i].fn \in {"declare", "setAllocations"}
  /\ \A i \in 1..Len(VestingBatch(DeployedVaults)) :
        VestingBatch(DeployedVaults)[i].fn = "declare" =>
            \E l \in VaultLabels : /\ VestingBatch(DeployedVaults)[i].at = DeployedVaults[l]
                                   /\ VestingBatch(DeployedVaults)[i].amount = Amount[l]
<1> DEFINE declares == [i \in DOMAIN VaultRows |-> [fn |-> "declare", at |-> DeployedVaults[VaultRows[i].label],
                                                    amount |-> VaultRows[i].amount]]
           last == [fn |-> "setAllocations", list |-> FirstList(DeployedVaults)]
           b == VestingBatch(DeployedVaults)
           Fine(x) == x \in Calls /\ x.fn \in {"declare", "setAllocations"}
                      /\ (x.fn = "declare" => \E l \in VaultLabels : x.at = DeployedVaults[l] /\ x.amount = Amount[l])
<1>1. b = declares \o <<last>>
  BY DEF VestingBatch
<1>2. FirstList(DeployedVaults) \in Lists
  <2>1. \A l \in Labels : FirstList(DeployedVaults)[l] \in Address
    BY DeployedTypes, AddressAssumption DEF FirstList, VaultLabels
  <2> QED BY <2>1 DEF FirstList, Lists
<1>3. last \in Calls /\ last.fn = "setAllocations"
  BY <1>2 DEF Calls
<1>4. ASSUME NEW i \in DOMAIN VaultRows PROVE Fine(declares[i])
  <2> DEFINE l == VaultRows[i].label
  <2>1. l \in VaultLabels /\ DeployedVaults[l] \in Address /\ VaultRows[i].amount \in Nat
        /\ VaultRows[i] = Row(l) /\ l \in Labels
    BY VaultPlan, DeployedTypes DEF VaultLabels
  <2>2. declares[i] = [fn |-> "declare", at |-> DeployedVaults[l], amount |-> VaultRows[i].amount]
    OBVIOUS
  <2>3. VaultRows[i].amount = Amount[l]
    BY <2>1 DEF Amount
  <2> HIDE DEF l, declares
  <2>4. /\ declares[i] \in Calls /\ declares[i].fn = "declare"
        /\ declares[i].at = DeployedVaults[l] /\ declares[i].amount = Amount[l]
    BY <2>1, <2>2, <2>3 DEF Calls
  <2> QED BY <2>1, <2>4
<1>5. declares = [i \in 1..Len(VaultRows) |-> declares[i]]
  BY VaultPlan
<1> DEFINE n == Len(VaultRows)
<1>6. n \in Nat /\ \A i \in 1..n : declares[i] \in Calls
  BY <1>4, VaultPlan
<1> HIDE DEF declares, last, b, Fine
<1>7. declares \in Seq(Calls) /\ Len(declares) = n
  <2> HIDE DEF n
  <2> QED BY <1>5, <1>6 DEF n
<1>8. <<last>> \in Seq(Calls) /\ Len(<<last>>) = 1 /\ <<last>>[1] = last
  BY <1>3
<1>9. b \in Seq(Calls) /\ Len(b) = n + 1 /\ (\A i \in 1..n : b[i] = declares[i]) /\ b[n + 1] = last
  BY <1>1, <1>3, <1>6, <1>7, <1>8
<1>10. ASSUME NEW i \in 1..Len(b) PROVE Fine(b[i])
  <2>1. CASE i = n + 1
    BY <1>3, <1>9, <2>1 DEF Fine
  <2>2. CASE i # n + 1
    <3>1. i \in 1..n /\ i \in DOMAIN VaultRows
      BY <1>6, <1>9, <2>2, VaultPlan DEF n
    <3> QED BY <1>4, <1>9, <3>1
  <2> QED BY <2>1, <2>2
<1> QED BY <1>9, <1>10 DEF b, Fine

\* A batch that distributes, one that starts every clock of a list unless it
\* runs, and one that sets a list first and no other after it.  A sound call
\* declares what the plan says, or starts the clock of a checked list; a batch is
\* well made if it distributes only what it sets first, a checked list.
Pays(b) == \E i \in 1..Len(b) : b[i].fn = "distribute"
Starts(b, list) ==
    \A l \in VaultLabels :
        \/ list[l] \in chain.triggered
        \/ \E i \in 1..Len(b) : b[i].fn = "triggerTGE" /\ b[i].at = list[l]
Leads(b, list) ==
    /\ Len(b) >= 1 /\ b[1].fn = "setAllocations" /\ b[1].list = list
    /\ \A i \in 2..Len(b) : b[i].fn # "setAllocations"
Sound(call) ==
    /\ call.fn = "declare" => \E l \in VaultLabels : call.at = DeployedVaults[l] /\ call.amount = Amount[l]
    /\ call.fn = "triggerTGE" => \E l \in VaultLabels : \E list : Checked(list) /\ call.at = list[l]
Well(b) ==
    /\ b \in Seq(Calls) /\ \A i \in 1..Len(b) : Sound(b[i])
    /\ Pays(b) => \E list : Checked(list) /\ Leads(b, list) /\ Starts(b, list)

\* Calls appended to a batch, none of which sets a list.
LEMMA LeadsOn ==
  ASSUME NEW s \in Seq(Calls), NEW t \in Seq(Calls), NEW list, Leads(s, list),
         \A i \in 1..Len(t) : t[i].fn # "setAllocations"
  PROVE  Leads(s \o t, list)
<1> DEFINE n == Len(s)
           u == s \o t
<1>1. /\ n \in Nat /\ n >= 1 /\ Len(t) \in Nat /\ Len(u) = n + Len(t)
      /\ \A i \in 1..n : u[i] = s[i]
      /\ \A i \in 1..Len(t) : u[n + i] = t[i]
  BY DEF Leads
<1> HIDE DEF n, u
<1>2. u[1].fn = "setAllocations" /\ u[1].list = list /\ Len(u) >= 1
  BY <1>1 DEF Leads
<1>3. ASSUME NEW i \in 2..Len(u) PROVE u[i].fn # "setAllocations"
  <2>1. CASE i <= n
    <3>1. i \in 2..n /\ i \in 1..n
      BY <1>1, <2>1
    <3> QED BY <1>1, <3>1 DEF Leads, n
  <2>2. CASE i > n
    <3> DEFINE j == i - n
    <3>1. j \in 1..Len(t) /\ n + j = i
      BY <1>1, <2>2
    <3> HIDE DEF j
    <3>2. u[i] = t[j]
      BY <1>1, <3>1
    <3> QED BY <3>1, <3>2
  <2> QED BY <1>1, <2>1, <2>2
<1> QED BY <1>2, <1>3 DEF Leads, u

\* The clocks that a snapshot leaves to start.
LEMMA TriggerCalls ==
  ASSUME NEW r, r.list \in Lists
  PROVE  /\ Trigger(r) \in Seq(Calls)
         /\ \A i \in 1..Len(Trigger(r)) : Trigger(r)[i].fn = "triggerTGE"
         /\ \A i \in 1..Len(Trigger(r)) : \E l \in VaultLabels : Trigger(r)[i].at = r.list[l]
         /\ \A l \in VaultLabels : r.list[l] \notin r.triggered =>
                \E i \in 1..Len(Trigger(r)) : Trigger(r)[i].at = r.list[l]
<1> DEFINE all == TriggerAll(r)
           keep == [i \in DOMAIN VaultRows |-> r.list[VaultRows[i].label] \notin r.triggered]
           n == Len(VaultRows)
           q == Trigger(r)
<1>1. n \in Nat /\ DOMAIN VaultRows = 1..n
  BY VaultPlan
<1>2. ASSUME NEW i \in 1..n
      PROVE  /\ all[i] \in Calls /\ all[i].fn = "triggerTGE" /\ all[i].at = r.list[VaultRows[i].label]
             /\ VaultRows[i].label \in VaultLabels
  <2>1. VaultRows[i].label \in VaultLabels /\ r.list[VaultRows[i].label] \in Address
    BY <1>1, VaultPlan DEF Lists, VaultLabels
  <2>2. all[i] = [fn |-> "triggerTGE", at |-> r.list[VaultRows[i].label]]
    BY <1>1 DEF TriggerAll
  <2> HIDE DEF all
  <2> QED BY <2>1, <2>2 DEF Calls
<1>3. all = [i \in 1..n |-> all[i]]
  BY <1>1 DEF TriggerAll
<1> HIDE DEF all, n
<1>4. all \in Seq(Calls) /\ Len(all) = n
  BY <1>1, <1>2, <1>3
<1>5. q = Picked(all, keep) /\ keep \in [1..n -> BOOLEAN]
  BY <1>1 DEF Trigger, all
<1> HIDE DEF keep, q
<1>6. q \in Seq(Calls) /\ \E at : Picks(q, all, keep, at)
  BY <1>4, <1>5, PickedEntries
<1>0. PICK at : Picks(q, all, keep, at)
  BY <1>6
<1>7. \A k \in 1..Len(q) : \E i \in 1..n : q[k] = all[i]
  BY <1>4, <1>0 DEF Picks
<1>8. ASSUME NEW l \in VaultLabels, r.list[l] \notin r.triggered
      PROVE  \E k \in 1..Len(q) : q[k].at = r.list[l]
  <2>1. PICK i \in DOMAIN VaultRows : VaultRows[i].label = l
    BY VaultPlan
  <2>2. keep[i] /\ i \in 1..n
    BY <1>1, <1>8, <2>1 DEF keep
  <2>3. PICK k \in 1..Len(q) : q[k] = all[i]
    BY <1>4, <1>0, <2>2 DEF Picks
  <2> QED BY <1>2, <2>1, <2>2, <2>3
<1>9. \A k \in 1..Len(q) : q[k].fn = "triggerTGE" /\ \E l \in VaultLabels : q[k].at = r.list[l]
  BY <1>2, <1>7
<1> QED BY <1>6, <1>8, <1>9 DEF q

\* What a snapshot leaves to do: the first call sets the list if any pays it out.
LEMMA PhaseACalls ==
  ASSUME NEW r, Checked(r.list), r.triggered \subseteq chain.triggered,
         r.genesisDone \in BOOLEAN, r.distributedDone \in BOOLEAN
  PROVE  /\ PhaseA(r) \in Seq(Calls)
         /\ r.distributedDone =>
                \A i \in 1..Len(PhaseA(r)) : PhaseA(r)[i].fn \in {"genesis", "triggerTGE"}
         /\ ~r.distributedDone => Leads(PhaseA(r), r.list)
         /\ Starts(PhaseA(r), r.list)
         /\ \A i \in 1..Len(PhaseA(r)) : Sound(PhaseA(r)[i])
<1> DEFINE A == Allocate(r)
           G == Genesis(r)
           D == Distribute(r)
           T == Trigger(r)
           s == A \o G
           u == s \o D
           b == u \o T
<1>0. r.list \in Lists
  BY DEF Checked
<1>1. /\ T \in Seq(Calls) /\ \A i \in 1..Len(T) : T[i].fn = "triggerTGE"
      /\ \A l \in VaultLabels : r.list[l] \notin r.triggered => \E i \in 1..Len(T) : T[i].at = r.list[l]
  BY <1>0, TriggerCalls
<1>2. G \in Seq(Calls) /\ \A i \in 1..Len(G) : G[i].fn = "genesis"
  <2> DEFINE call == [fn |-> "genesis"]
  <2>1. call \in Calls /\ call.fn = "genesis"
    BY DEF Calls
  <2>2. G = IF r.genesisDone THEN <<>> ELSE <<call>>
    BY DEF Genesis
  <2> HIDE DEF call, G
  <2> QED BY <2>1, <2>2
<1>3. /\ D \in Seq(Calls) /\ \A i \in 1..Len(D) : D[i].fn = "distribute"
      /\ r.distributedDone => D = <<>>
  <2> DEFINE call == [fn |-> "distribute"]
  <2>1. call \in Calls /\ call.fn = "distribute"
    BY DEF Calls
  <2>2. D = IF r.distributedDone THEN <<>> ELSE <<call>>
    BY DEF Distribute
  <2> HIDE DEF call, D
  <2> QED BY <2>1, <2>2
<1>4. /\ A \in Seq(Calls)
      /\ r.distributedDone => A = <<>>
      /\ ~r.distributedDone => Leads(A, r.list)
  <2> DEFINE call == [fn |-> "setAllocations", list |-> r.list]
  <2>1. call \in Calls /\ call.fn = "setAllocations" /\ call.list = r.list
    BY <1>0 DEF Calls
  <2>2. A = IF r.distributedDone THEN <<>> ELSE <<call>>
    BY DEF Allocate
  <2> HIDE DEF call, A
  <2>3. CASE r.distributedDone
    BY <2>2, <2>3
  <2>4. CASE ~r.distributedDone
    <3>1. A = <<call>> /\ A \in Seq(Calls) /\ Len(A) = 1 /\ A[1] = call
      BY <2>1, <2>2, <2>4
    <3> QED BY <2>1, <2>4, <3>1 DEF Leads
  <2> QED BY <2>3, <2>4
<1>5. PhaseA(r) = b
  BY DEF PhaseA
<1> HIDE DEF A, G, D, T
<1>6. s \in Seq(Calls) /\ u \in Seq(Calls) /\ b \in Seq(Calls)
  BY <1>1, <1>2, <1>3, <1>4
<1>7. ASSUME r.distributedDone, NEW i \in 1..Len(b) PROVE b[i].fn \in {"genesis", "triggerTGE"}
  <2>1. A = <<>> /\ D = <<>>
    BY <1>3, <1>4, <1>7
  <2>2. u = G
    BY <1>2, <2>1
  <2> HIDE DEF u
  <2>3. b[i] = IF i <= Len(G) THEN G[i] ELSE T[i - Len(G)]
    BY <1>1, <1>2, <1>7, <2>2
  <2>4. i <= Len(G) => i \in 1..Len(G)
    BY <1>2
  <2>5. i > Len(G) => i - Len(G) \in 1..Len(T)
    BY <1>1, <1>2, <1>7, <2>2
  <2>6. Len(G) \in Nat /\ i \in Nat
    BY <1>2
  <2> QED BY <1>1, <1>2, <2>3, <2>4, <2>5, <2>6
<1>8. ASSUME ~r.distributedDone PROVE Leads(b, r.list)
  <2>1. Leads(s, r.list)
    BY <1>2, <1>4, <1>8, LeadsOn
  <2> HIDE DEF s
  <2>2. Leads(u, r.list)
    BY <1>3, <1>6, <2>1, LeadsOn
  <2> HIDE DEF u
  <2> QED BY <1>1, <1>6, <2>2, LeadsOn
<1>9. Starts(b, r.list)
  <2> HIDE DEF u
  <2> SUFFICES ASSUME NEW l \in VaultLabels, r.list[l] \notin chain.triggered
               PROVE  \E i \in 1..Len(b) : b[i].fn = "triggerTGE" /\ b[i].at = r.list[l]
    BY DEF Starts
  <2>1. PICK k \in 1..Len(T) : T[k].at = r.list[l]
    BY <1>1
  <2> DEFINE i == Len(u) + k
  <2>2. i \in 1..Len(b) /\ b[i] = T[k]
    BY <1>1, <1>6
  <2> QED BY <1>1, <2>1, <2>2
<1>10. ASSUME NEW x \in Calls, x.fn \in {"setAllocations", "genesis", "distribute"}
       PROVE  Sound(x)
  BY <1>10 DEF Sound
<1>11. \A i \in 1..Len(T) : Sound(T[i])
  <2>1. ASSUME NEW i \in 1..Len(T) PROVE \E l \in VaultLabels : T[i].at = r.list[l]
    BY <1>0, TriggerCalls DEF T
  <2> QED BY <1>1, <2>1 DEF Sound
<1>12. \A i \in 1..Len(A) : A[i].fn = "setAllocations"
  <2> DEFINE call == [fn |-> "setAllocations", list |-> r.list]
  <2>1. call.fn = "setAllocations" /\ A = IF r.distributedDone THEN <<>> ELSE <<call>>
    BY DEF Allocate, A
  <2> HIDE DEF call
  <2> QED BY <2>1
<1>13. ASSUME NEW p \in Seq(Calls), NEW q \in Seq(Calls),
              \A i \in 1..Len(p) : Sound(p[i]), \A i \in 1..Len(q) : Sound(q[i])
       PROVE  \A i \in 1..Len(p \o q) : Sound((p \o q)[i])
  <2> SUFFICES ASSUME NEW i \in 1..Len(p \o q) PROVE Sound((p \o q)[i])
    OBVIOUS
  <2>1. CASE i <= Len(p)
    <3>1. i \in 1..Len(p) /\ (p \o q)[i] = p[i]
      BY <2>1
    <3> QED BY <1>13, <3>1
  <2>2. CASE i > Len(p)
    <3>1. i - Len(p) \in 1..Len(q) /\ (p \o q)[i] = q[i - Len(p)]
      BY <2>2
    <3> QED BY <1>13, <3>1
  <2> QED BY <2>1, <2>2
<1>14. \A i \in 1..Len(b) : Sound(b[i])
  <2>1. \A i \in 1..Len(A) : Sound(A[i])
    BY <1>4, <1>10, <1>12
  <2>2. \A i \in 1..Len(G) : Sound(G[i])
    BY <1>2, <1>10
  <2>3. \A i \in 1..Len(D) : Sound(D[i])
    BY <1>3, <1>10
  <2>4. \A i \in 1..Len(s) : Sound(s[i])
    BY <1>2, <1>4, <1>13, <2>1, <2>2
  <2> HIDE DEF s
  <2>5. \A i \in 1..Len(u) : Sound(u[i])
    BY <1>3, <1>6, <1>13, <2>3, <2>4
  <2> HIDE DEF u
  <2> QED BY <1>1, <1>6, <1>11, <1>13, <2>5
<1> QED BY <1>5, <1>6, <1>7, <1>8, <1>9, <1>14

\* A list that no two labels share sends an address its own amount.
LEMMA SentExact ==
  ASSUME NEW list \in Lists, \A l, k \in Labels : list[l] = list[k] => l = k, NEW l \in Labels
  PROVE  Sent(list, list[l]) = Amount[l]
<1> DEFINE S == {k \in Labels : list[k] = list[l]}
           f == [k \in S |-> Amount[k]]
           none == [k \in S |-> 0]
<1>1. S = {l} /\ Amount[l] \in Nat
  BY Sums
<1>2. f \in [S -> Nat] /\ f[l] = Amount[l]
  BY <1>1
<1>3. none \in [S -> Nat] /\ none[l] = 0 /\ IsFiniteSet(S) /\ l \in S /\ \A y \in S \ {l} : f[y] = none[y]
  BY <1>1, FS_Singleton
<1>4. Total(none) = 0
  <2>1. \A x \in DOMAIN none : none[x] = 0
    OBVIOUS
  <2> HIDE DEF none
  <2> QED BY <2>1, TotalZero
<1>5. Sent(list, list[l]) = Total(f)
  BY DEF Sent
<1> HIDE DEF S, f, none
<1>6. Total(f) = Total(none) - none[l] + f[l]
  BY <1>2, <1>3, TotalChange
<1> QED BY <1>1, <1>2, <1>3, <1>4, <1>5, <1>6

\* What has been paid out was checked.
Paid(c) == c.distributed => Checked(c.allocations)

\* The grant of a vault whose clock runs, when m tokens have been sent by mistake.
Exact(c, v, m) ==
    IF c.declared[v] # 0 THEN c.grant[v] = Amount[Vaults[v].row]
    ELSE c.grant[v] \in Amount[Vaults[v].row]..(Amount[Vaults[v].row] + m)

\* What the declarations and the balances of the vaults may be, before the
\* distribution and after it.
Grants(c, m) ==
    manifest # NoManifest =>
        /\ \A v \in DOMAIN Vaults : c.declared[v] \in {0, Amount[Vaults[v].row]}
        /\ ~c.distributed => c.triggered = {} /\ \A v \in DOMAIN Vaults : c.bal[v] = 0
        /\ c.distributed => \A l \in VaultLabels : c.bal[manifest.dest[l]] \in Amount[l]..(Amount[l] + m)
        /\ \A v \in c.triggered : (\E l \in VaultLabels : v = manifest.dest[l]) /\ Exact(c, v, m)

\* Where a checked list sends the rows of the vaults.
LEMMA CheckedVaults ==
  ASSUME NEW list, Checked(list), manifest # NoManifest, NEW l \in VaultLabels
  PROVE  /\ list = manifest.dest /\ list[l] \in DOMAIN Vaults /\ Vaults[list[l]].row = l /\ l \in Labels
         /\ list[l] \in Address /\ list[l] # Distributor /\ list[l] # StakingPool
         /\ Amount[l] \in Nat \ {0} /\ Sent(list, list[l]) = Amount[l]
<1>1. /\ list = manifest.dest /\ list[l] \in DOMAIN Vaults /\ Vaults[list[l]].row = l /\ l \in Labels
      /\ list \in Lists /\ \A i, k \in Labels : list[i] = list[k] => i = k
  BY DEF Checked, VaultLabels
<1>2. Sent(list, list[l]) = Amount[l]
  BY <1>1, SentExact
<1>3. list[l] \in Address /\ list[l] # Distributor /\ list[l] # StakingPool
  BY <1>1, AddressAssumption
<1>4. Amount[l] \in Nat \ {0}
  BY <1>1, Sums
<1> QED BY <1>1, <1>2, <1>3, <1>4

\* A sound call that does not revert keeps both, and no clock stops.
LEMMA CallKeeps ==
  ASSUME NEW c \in Chains, NEW call \in Calls, NEW m \in Nat, Sound(call), ~Reverts(c, call),
         call.fn = "distribute" => Checked(c.allocations), Paid(c), Grants(c, m)
  PROVE  /\ Paid(Effect(c, call)) /\ Grants(Effect(c, call), m)
         /\ c.triggered \subseteq Effect(c, call).triggered
<1> DEFINE d == Effect(c, call)
<1>1. /\ d \in Chains
      /\ d.allocations = IF call.fn = "setAllocations" THEN call.list ELSE c.allocations
      /\ d.distributed = (c.distributed \/ call.fn = "distribute")
      /\ d.triggered = IF call.fn = "triggerTGE" THEN c.triggered \cup {call.at} ELSE c.triggered
      /\ call.fn \notin {"genesis", "distribute"} => d.bal = c.bal
      /\ call.fn # "declare" => d.declared = c.declared
      /\ call.fn # "triggerTGE" => d.grant = c.grant
  BY EffectFields
<1>2. Paid(d)
  <2>1. call.fn = "setAllocations" => ~c.distributed
    BY CallEffects
  <2> HIDE DEF d
  <2>2. CASE call.fn = "setAllocations"
    BY <1>1, <2>1, <2>2 DEF Paid
  <2>3. CASE call.fn = "distribute"
    BY <1>1, <2>3 DEF Paid
  <2>4. CASE call.fn \notin {"setAllocations", "distribute"}
    BY <1>1, <2>4 DEF Paid
  <2> QED BY <2>2, <2>3, <2>4
<1>3. c.triggered \subseteq d.triggered
  <2> HIDE DEF d
  <2> QED BY <1>1
<1>4. ASSUME manifest # NoManifest PROVE Grants(d, m)
  <2>1. /\ \A v \in DOMAIN Vaults : c.declared[v] \in {0, Amount[Vaults[v].row]}
        /\ ~c.distributed => c.triggered = {} /\ \A v \in DOMAIN Vaults : c.bal[v] = 0
        /\ c.distributed => \A l \in VaultLabels : c.bal[manifest.dest[l]] \in Amount[l]..(Amount[l] + m)
        /\ \A v \in c.triggered : (\E l \in VaultLabels : v = manifest.dest[l]) /\ Exact(c, v, m)
    BY <1>4 DEF Grants
  <2>2. /\ c.bal \in [Address -> Int] /\ c.declared \in [Address -> Nat] /\ c.grant \in [Address -> Int]
        /\ DOMAIN Vaults \subseteq Address /\ c.triggered \subseteq Address
        /\ c.distributed \in BOOLEAN
    BY DeployedTypes DEF Chains
  <2>3. CASE call.fn \in {"setAllocations", "notify"}
    <3> HIDE DEF d
    <3>1. d.declared = c.declared /\ d.bal = c.bal /\ d.grant = c.grant /\ d.triggered = c.triggered
          /\ d.distributed = c.distributed
      BY <1>1, <2>2, <2>3
    <3> QED BY <2>1, <3>1 DEF Grants, Exact
  <2>4. CASE call.fn = "declare"
    <3>1. d = [c EXCEPT !.declared[call.at] = call.amount] /\ call.at \in Address
      BY <2>4, CallEffects, CallKinds
    <3>2. d.declared = [c.declared EXCEPT ![call.at] = call.amount]
      BY <3>1 DEF Chains
    <3>3. call.at \notin c.triggered
      BY <2>4 DEF Reverts
    <3> HIDE DEF d
    <3>4. d.bal = c.bal /\ d.grant = c.grant /\ d.triggered = c.triggered /\ d.distributed = c.distributed
      BY <1>1, <2>2, <2>4
    <3>5. PICK k \in VaultLabels : call.at = DeployedVaults[k] /\ call.amount = Amount[k]
      BY <2>4 DEF Sound
    <3>6. Vaults[call.at].row = k
      <4>1. Vaults[DeployedVaults[k]] = [row |-> k, payee |-> "named"]
        BY DeployedTypes
      <4> QED BY <3>5, <4>1
    <3>7. \A v \in DOMAIN Vaults : d.declared[v] \in {0, Amount[Vaults[v].row]}
      BY <2>1, <2>2, <3>2, <3>5, <3>6
    <3>8. \A v \in c.triggered : Exact(d, v, m)
      <4> SUFFICES ASSUME NEW v \in c.triggered PROVE Exact(d, v, m)
        OBVIOUS
      <4>1. d.declared[v] = c.declared[v]
        BY <2>2, <3>1, <3>2, <3>3
      <4> QED BY <2>1, <3>4, <4>1 DEF Exact
    <3> QED BY <2>1, <3>4, <3>7, <3>8 DEF Grants
  <2>5. CASE call.fn = "genesis"
    <3>1. d = [c EXCEPT !.genesis = TRUE, !.bal[Distributor] = @ + MAX_SUPPLY]
      BY <2>5, CallEffects
    <3>2. \A a \in Address : a # Distributor => d.bal[a] = c.bal[a]
      BY <2>2, <3>1 DEF Chains
    <3> HIDE DEF d
    <3>3. d.declared = c.declared /\ d.grant = c.grant /\ d.triggered = c.triggered /\ d.distributed = c.distributed
      BY <1>1, <2>2, <2>5
    <3>4. \A v \in DOMAIN Vaults : d.bal[v] = c.bal[v]
      BY <2>2, <3>2, AddressAssumption
    <3>5. ASSUME c.distributed, NEW l \in VaultLabels PROVE d.bal[manifest.dest[l]] = c.bal[manifest.dest[l]]
      <4>1. manifest.dest[l] \in DOMAIN Vaults
        BY <1>4, <3>5, CheckedVaults DEF Paid
      <4> QED BY <3>4, <4>1
    <3> QED BY <2>1, <3>3, <3>4, <3>5 DEF Grants, Exact
  <2>6. CASE call.fn = "distribute"
    <3>1. ~c.distributed
      BY <2>6 DEF Reverts
    <3>2. d = [c EXCEPT !.distributed = TRUE,
                        !.bal = [a \in Address |-> @[a] + Sent(c.allocations, a)
                                                   - IF a = Distributor THEN MAX_SUPPLY ELSE 0]]
      BY <2>6, CallEffects
    <3>3. \A a \in Address : a # Distributor => d.bal[a] = c.bal[a] + Sent(c.allocations, a) - 0
      BY <3>2 DEF Chains
    <3> HIDE DEF d
    <3>4. d.declared = c.declared /\ d.grant = c.grant /\ d.triggered = {} /\ d.distributed
      BY <1>1, <2>1, <2>6, <3>1
    <3>5. ASSUME NEW l \in VaultLabels PROVE d.bal[manifest.dest[l]] \in Amount[l]..(Amount[l] + m)
      <4> DEFINE a == c.allocations[l]
      <4>1. Checked(c.allocations)
        BY <2>6
      <4>2. /\ c.allocations = manifest.dest /\ a \in DOMAIN Vaults /\ a \in Address /\ a # Distributor
            /\ Amount[l] \in Nat \ {0} /\ Sent(c.allocations, a) = Amount[l]
        BY <1>4, <4>1, CheckedVaults
      <4>3. c.bal[a] = 0
        BY <2>1, <3>1, <4>2
      <4>4. d.bal[a] = 0 + Amount[l] - 0
        BY <3>3, <4>2, <4>3
      <4>5. manifest.dest[l] = a
        BY <4>2
      <4> HIDE DEF a
      <4> QED BY <4>2, <4>4, <4>5
    <3> QED BY <2>1, <3>4, <3>5 DEF Grants, Exact
  <2>7. CASE call.fn = "triggerTGE"
    <3> DEFINE v == call.at
    <3>1. v \in Address /\ v \notin c.triggered /\ c.bal[v] # 0 /\ ~(c.bal[v] < c.declared[v])
      BY <2>7, CallKinds DEF Reverts
    <3>2. d = [c EXCEPT !.triggered = @ \cup {call.at},
                        !.grant[call.at] = IF c.declared[call.at] # 0 THEN c.declared[call.at] ELSE c.bal[call.at]]
      BY <2>7, CallEffects
    <3>3. d.grant = [c.grant EXCEPT ![v] = IF c.declared[v] # 0 THEN c.declared[v] ELSE c.bal[v]]
      BY <3>2 DEF Chains
    <3>4. PICK k \in VaultLabels : \E list : Checked(list) /\ v = list[k]
      BY <2>7 DEF Sound
    <3>10. PICK list : Checked(list) /\ v = list[k]
      BY <3>4
    <3>5. v = manifest.dest[k] /\ v \in DOMAIN Vaults /\ Vaults[v].row = k /\ Amount[k] \in Nat \ {0}
      BY <1>4, <3>10, CheckedVaults
    <3>6. c.distributed
      BY <2>1, <3>1, <3>5
    <3> HIDE DEF d
    <3>7. /\ d.declared = c.declared /\ d.bal = c.bal /\ d.triggered = c.triggered \cup {v}
          /\ d.distributed = c.distributed
      BY <1>1, <2>2, <2>7
    <3> HIDE DEF v
    <3>8. Exact(d, v, m)
      <4>1. c.declared[v] \in {0, Amount[k]} /\ c.bal[v] \in Amount[k]..(Amount[k] + m)
        BY <2>1, <3>5, <3>6
      <4>2. d.grant[v] = IF c.declared[v] # 0 THEN c.declared[v] ELSE c.bal[v]
        BY <2>2, <3>1, <3>3
      <4> QED BY <3>5, <3>7, <4>1, <4>2 DEF Exact
    <3>9. \A w \in c.triggered : Exact(d, w, m)
      <4> SUFFICES ASSUME NEW w \in c.triggered PROVE Exact(d, w, m)
        OBVIOUS
      <4>1. d.grant[w] = c.grant[w]
        BY <2>2, <3>1, <3>3
      <4> QED BY <2>1, <3>7, <4>1 DEF Exact
    <3> QED BY <2>1, <3>5, <3>6, <3>7, <3>8, <3>9 DEF Grants
  <2> QED BY <2>3, <2>4, <2>5, <2>6, <2>7, CallKinds
<1>5. Grants(d, m)
  <2>1. CASE manifest = NoManifest
    BY <2>1 DEF Grants
  <2> QED BY <1>4, <2>1
<1> QED BY <1>2, <1>3, <1>5

\* Every clock of the list that was paid out runs.
Started(c) == c.distributed => \A l \in VaultLabels : c.allocations[l] \in c.triggered

\* A way from c to d on which only checked lists are paid out.
Lawful(b, c, d) ==
    \E t : /\ Trace(t, b, c, d)
          /\ \A i \in 1..Len(b) : b[i].fn = "distribute" => Checked(t[i - 1].allocations)

\* A well-made batch keeps what holds of the chain, and one transaction that
\* distributes starts every clock.
LEMMA BatchKeeps ==
  ASSUME chain \in Chains, NEW m \in Nat, NEW b, Well(b), NEW d \in Execute(b, chain),
         Paid(chain), Grants(chain, m)
  PROVE  /\ d \in Chains /\ Paid(d) /\ Grants(d, m) /\ chain.triggered \subseteq d.triggered
         /\ Started(chain) => Started(d)
         /\ Lawful(b, chain, d)
<1> DEFINE n == Len(b)
<1>1. b \in Seq(Calls) /\ n \in Nat /\ \A i \in 1..n : b[i] \in Calls /\ Sound(b[i])
  BY DEF Well
<1>2. PICK t : Trace(t, b, chain, d)
  BY <1>1, BatchTrace
<1>3. /\ t \in [0..n -> Chains] /\ t[0] = chain /\ t[n] = d
      /\ \A i \in 1..n : ~Reverts(t[i - 1], b[i]) /\ t[i] = Effect(t[i - 1], b[i])
  BY <1>2 DEF Trace
<1>4. PICK list : Pays(b) => Checked(list) /\ Leads(b, list) /\ Starts(b, list)
  BY DEF Well
<1> DEFINE Fine(i) == /\ Paid(t[i]) /\ Grants(t[i], m) /\ chain.triggered \subseteq t[i].triggered
           Runs(i) == \A j \in 1..i : b[j].fn = "triggerTGE" => b[j].at \in t[i].triggered
           Set(i)  == IF Pays(b) THEN i >= 1 => t[i].allocations = list
                      ELSE /\ t[i].distributed = chain.distributed
                           /\ chain.distributed => t[i].allocations = chain.allocations
           T == {i \in 0..n : Fine(i) /\ Runs(i) /\ Set(i)}
<1>5. 0 \in T
  <2> HIDE DEF n
  <2>1. Fine(0) /\ Runs(0) /\ Set(0)
    BY <1>3
  <2> HIDE DEF Fine, Runs, Set
  <2> QED BY <1>1, <2>1
<1>6. ASSUME NEW i \in 1..n, i - 1 \in T PROVE i \in T
  <2> DEFINE c == t[i - 1]
             e == t[i]
             call == b[i]
             h == i - 1
  <2>1. /\ Fine(h) /\ Runs(h) /\ Set(h)
    <3> HIDE DEF Fine, Runs, Set, n
    <3> QED BY <1>6
  <2>2. /\ c \in Chains /\ e \in Chains /\ call \in Calls /\ Sound(call) /\ ~Reverts(c, call)
        /\ e = Effect(c, call) /\ i \in 0..n /\ i \in Nat /\ h \in Nat
    BY <1>1, <1>3
  <2>3. call.fn = "distribute" => Checked(c.allocations)
    <3> SUFFICES ASSUME call.fn = "distribute" PROVE Checked(c.allocations)
      OBVIOUS
    <3>1. Pays(b)
      BY DEF Pays
    <3>2. i # 1
      BY <1>4, <3>1 DEF Leads
    <3>3. h >= 1
      BY <2>2, <3>2
    <3> QED BY <1>4, <2>1, <3>1, <3>3
  <2>4. /\ Paid(c) /\ Grants(c, m) /\ chain.triggered \subseteq c.triggered
    BY <2>1
  <2>5. e.allocations = (IF call.fn = "setAllocations" THEN call.list ELSE c.allocations)
        /\ e.distributed = (c.distributed \/ call.fn = "distribute")
        /\ e.triggered = (IF call.fn = "triggerTGE" THEN c.triggered \cup {call.at} ELSE c.triggered)
    <3> HIDE DEF c, e, call
    <3> QED BY <2>2, EffectFields
  <2>6. call.fn = "setAllocations" => ~c.distributed
    <3> HIDE DEF c, e, call
    <3> QED BY <2>2, CallEffects
  <2>7. Paid(e) /\ Grants(e, m) /\ c.triggered \subseteq e.triggered
    <3> HIDE DEF c, e, call
    <3> QED BY <2>2, <2>3, <2>4, CallKeeps
  <2>8. Fine(i)
    BY <2>4, <2>7
  <2>9. Runs(i)
    <3> SUFFICES ASSUME NEW j \in 1..i, b[j].fn = "triggerTGE" PROVE b[j].at \in e.triggered
      OBVIOUS
    <3>1. CASE j = i
      BY <2>5, <3>1
    <3>2. CASE j # i
      <4>1. j \in 1..h
        BY <2>2, <3>2
      <4> QED BY <2>1, <2>7, <4>1
    <3> QED BY <3>1, <3>2
  <2>10. Set(i)
    <3>1. CASE Pays(b)
      <4>1. Leads(b, list)
        BY <1>4, <3>1
      <4>2. CASE i = 1
        <5>1. call.fn = "setAllocations" /\ call.list = list
          BY <4>1, <4>2 DEF Leads
        <5> QED BY <2>5, <3>1, <5>1
      <4>3. CASE i # 1
        <5>1. i \in 2..n /\ h >= 1
          BY <1>1, <2>2, <4>3
        <5>2. call.fn # "setAllocations"
          BY <4>1, <5>1 DEF Leads
        <5>3. c.allocations = list
          BY <2>1, <3>1, <5>1
        <5> QED BY <2>5, <3>1, <5>2, <5>3
      <4> QED BY <4>2, <4>3
    <3>2. CASE ~Pays(b)
      <4>1. call.fn # "distribute"
        BY <3>2 DEF Pays
      <4>2. c.distributed = chain.distributed /\ (chain.distributed => c.allocations = chain.allocations)
        BY <2>1, <3>2
      <4>3. c.distributed \in BOOLEAN
        BY <2>2 DEF Chains
      <4> HIDE DEF c, e, call
      <4>4. e.distributed = chain.distributed /\ (chain.distributed => e.allocations = chain.allocations)
        BY <2>5, <2>6, <4>1, <4>2, <4>3
      <4> QED BY <3>2, <4>4 DEF e
    <3> QED BY <3>1, <3>2
  <2> HIDE DEF Fine, Runs, Set, n
  <2> QED BY <2>2, <2>8, <2>9, <2>10
<1>7. 0..n \subseteq T /\ n \in T
  <2>1. 0..n \subseteq T
    <3> HIDE DEF T, n
    <3> QED BY <1>1, <1>5, <1>6, Steps
  <2>2. n \in 0..n
    BY <1>1
  <2> HIDE DEF T, n
  <2> QED BY <2>1, <2>2
<1>8. Fine(n) /\ Runs(n) /\ Set(n)
  <2> HIDE DEF Fine, Runs, Set, n
  <2> QED BY <1>7
<1>9. d \in Chains
  BY <1>1, <1>3
<1>10. ASSUME Started(chain), d.distributed, NEW l \in VaultLabels PROVE d.allocations[l] \in d.triggered
  <2>1. CASE Pays(b)
    <3>1. Leads(b, list) /\ Starts(b, list) /\ n >= 1
      BY <1>4, <2>1 DEF Leads
    <3>2. d.allocations = list
      BY <1>3, <1>8, <2>1, <3>1
    <3>3. CASE list[l] \in chain.triggered
      BY <1>3, <1>8, <3>2, <3>3
    <3>4. CASE \E i \in 1..n : b[i].fn = "triggerTGE" /\ b[i].at = list[l]
      BY <1>3, <1>8, <3>2, <3>4
    <3> QED BY <3>1, <3>3, <3>4 DEF Starts
  <2>2. CASE ~Pays(b)
    <3>1. chain.distributed /\ d.allocations = chain.allocations
      BY <1>3, <1>8, <1>10, <2>2
    <3> QED BY <1>3, <1>8, <1>10, <3>1 DEF Started
  <2> QED BY <2>1, <2>2
<1>11. Paid(d) /\ Grants(d, m) /\ chain.triggered \subseteq d.triggered
  BY <1>3, <1>8
<1>12. Started(chain) => Started(d)
  BY <1>10 DEF Started
<1>13. ASSUME NEW i \in 1..n, b[i].fn = "distribute" PROVE Checked(t[i - 1].allocations)
  <2>1. Pays(b)
    BY <1>13 DEF Pays
  <2>2. i # 1
    BY <1>4, <1>13, <2>1 DEF Leads
  <2> DEFINE h == i - 1
  <2>3. h \in 0..n /\ h >= 1
    BY <1>1, <2>2
  <2> HIDE DEF h
  <2>4. Set(h)
    <3> HIDE DEF Fine, Runs, Set, n
    <3> QED BY <1>7, <2>3
  <2>5. t[h].allocations = list
    BY <2>1, <2>3, <2>4
  <2> QED BY <1>4, <2>1, <2>5 DEF h
<1>14. Lawful(b, chain, d)
  BY <1>2, <1>13 DEF Lawful
<1> QED BY <1>9, <1>11, <1>12, <1>14

\* The batch of the first script is well made.
LEMMA VestingWell == Well(VestingBatch(DeployedVaults))
<1> DEFINE b == VestingBatch(DeployedVaults)
<1>1. /\ b \in Seq(Calls) /\ \A i \in 1..Len(b) : b[i].fn \in {"declare", "setAllocations"}
      /\ \A i \in 1..Len(b) : b[i].fn = "declare" =>
             \E l \in VaultLabels : b[i].at = DeployedVaults[l] /\ b[i].amount = Amount[l]
  BY VestingCalls
<1> HIDE DEF b
<1>2. ~Pays(b) /\ \A i \in 1..Len(b) : Sound(b[i])
  BY <1>1 DEF Pays, Sound
<1>3. Well(b)
  BY <1>1, <1>2 DEF Well
<1> QED BY <1>3 DEF b

\* A step that keeps the two files keeps what is checked.
LEMMA CheckedKept ==
  ASSUME UNCHANGED <<network, manifest>>, NEW list
  PROVE  Checked(list)' = Checked(list)
BY DEF Checked

\* A well-made batch stays one while clocks only start.
LEMMA WellKept ==
  ASSUME UNCHANGED <<network, manifest>>, chain.triggered \subseteq chain'.triggered, NEW b, Well(b)
  PROVE  Well(b)'
<1>1. \A list : Starts(b, list) => Starts(b, list)'
  BY DEF Starts
<1>2. \A list : Checked(list) => Checked(list)'
  BY DEF Checked
<1>3. ASSUME NEW call, Sound(call) PROVE Sound(call)'
  BY <1>2, <1>3 DEF Sound
<1>4. /\ b \in Seq(Calls) /\ \A i \in 1..Len(b) : Sound(b[i])
      /\ Pays(b) => \E list : Checked(list) /\ Leads(b, list) /\ Starts(b, list)
  BY DEF Well
<1>5. \A i \in 1..Len(b) : Sound(b[i])'
  BY <1>3, <1>4
<1>6. Pays(b) => \E list : Checked(list)' /\ Leads(b, list) /\ Starts(b, list)'
  BY <1>1, <1>2, <1>4
<1> QED BY <1>4, <1>5, <1>6 DEF Well

-----------------------------------------------------------------------------
(***************************************************************************)
(* The inductive invariant.                                                *)
(***************************************************************************)
\* What a run of 06 carries from step to step.
RunShapes ==
    {NoRun} \cup [at : {"genesisComplete", "success"}, list : Lists]
    \cup [at : {"distributed"}, list : Lists, genesisDone : BOOLEAN]
    \cup [at : {"tgeTriggered"}, list : Lists, genesisDone : BOOLEAN, distributedDone : BOOLEAN]
    \cup [at : {"balanceOf", "confirm", "send"}, list : Lists, todo : Seq(Calls)]
    \cup [at : {"rewardPool"}, list : Lists, amount : Int]

\* What the admin has still to send itself: the list is set first, if at all, and
\* is in place when the rest is sent.
Going(todo, list, c) ==
    /\ \A i \in 1..Len(todo) : Sound(todo[i])
    /\ \A i \in 2..Len(todo) : todo[i].fn # "setAllocations"
    /\ todo[1].fn = "setAllocations" => todo[1].list = list
    /\ Pays(todo) => todo[1].fn = "setAllocations" \/ c.allocations = list

FilesInv ==
    /\ network \in {"real", "testnet", "local"} /\ signerIsAdmin \in BOOLEAN /\ deployed \in BOOLEAN
    /\ env \in EnvFiles /\ manifest \in Manifests \cup {NoManifest} /\ donations \in Nat
ChainInv ==
    /\ chain \in Chains /\ Paid(chain) /\ Grants(chain, donations)
    /\ ~signerIsAdmin => Started(chain)
BatchesInv ==
    /\ \A b \in batches : Well(b)
    /\ signerIsAdmin => batches = {}
RunInv ==
    /\ run \in RunShapes
    /\ run # NoRun => deployed /\ Checked(run.list)
    /\ run.at \in {"confirm", "send"} =>
           /\ run.todo # <<>>
           /\ IF signerIsAdmin THEN Going(run.todo, run.list, chain) ELSE Well(run.todo)
LaunchInv == FilesInv /\ ChainInv /\ BatchesInv /\ RunInv

\* The shape of a run at each of its steps.
LEMMA RunKinds ==
  ASSUME run \in RunShapes
  PROVE  /\ run = NoRun <=> run.at = "none"
         /\ run.at \in {"none", "genesisComplete", "success", "distributed", "tgeTriggered",
                        "balanceOf", "confirm", "send", "rewardPool"}
         /\ run.at = "none" \/ run.list \in Lists
         /\ run.at = "distributed" => run.genesisDone \in BOOLEAN
         /\ run.at = "tgeTriggered" => run.genesisDone \in BOOLEAN /\ run.distributedDone \in BOOLEAN
         /\ run.at \in {"balanceOf", "confirm", "send"} =>
                run \in [at : {"balanceOf", "confirm", "send"}, list : Lists, todo : Seq(Calls)]
         /\ run.at = "rewardPool" => run.amount \in Int
BY DEF RunShapes, NoRun

\* Nothing is done yet.
LEMMA LaunchInit == Init => LaunchInv
<1> SUFFICES ASSUME Init PROVE LaunchInv
  OBVIOUS
<1>1. FilesInv
  BY DEF Init, FilesInv
<1>2. chain \in Chains
  BY DEF Init, Chains
<1>3. ~chain.distributed /\ chain.triggered = {} /\ \A a \in Address : chain.bal[a] = 0 /\ chain.declared[a] = 0
  BY DEF Init
<1>4. Paid(chain) /\ Started(chain)
  BY <1>3 DEF Paid, Started
<1>5. Grants(chain, donations)
  BY <1>3, DeployedTypes DEF Grants
<1>6. BatchesInv
  BY DEF Init, BatchesInv
<1>7. RunInv
  BY DEF Init, RunInv, RunShapes, NoRun
<1> QED BY <1>1, <1>2, <1>4, <1>5, <1>6, <1>7 DEF LaunchInv, ChainInv

\* A chain that keeps what was checked, in a step that keeps the files.
LEMMA ChainKept ==
  ASSUME UNCHANGED <<network, manifest, signerIsAdmin>>, chain' \in Chains,
         Paid(chain'), Grants(chain', donations'), ~signerIsAdmin => Started(chain')
  PROVE  ChainInv'
<1>1. Paid(chain)'
  BY DEF Paid, Checked
<1>2. Grants(chain, donations)'
  BY DEF Grants, Exact
<1>3. (~signerIsAdmin => Started(chain))'
  BY DEF Started
<1> QED BY <1>1, <1>2, <1>3 DEF ChainInv

\* Written batches stay well made.
LEMMA BatchesKept ==
  ASSUME BatchesInv, UNCHANGED <<network, manifest, signerIsAdmin, batches>>,
         chain.triggered \subseteq chain'.triggered
  PROVE  BatchesInv'
<1>1. \A b \in batches : Well(b)'
  BY WellKept DEF BatchesInv
<1> QED BY <1>1 DEF BatchesInv

\* So does a new one.
LEMMA BatchFlushed ==
  ASSUME BatchesInv, UNCHANGED <<network, manifest, signerIsAdmin, chain>>, ~signerIsAdmin,
         NEW b, Well(b), batches' = batches \cup {b}
  PROVE  BatchesInv'
<1>1. \A x \in batches' : Well(x)'
  BY WellKept DEF BatchesInv
<1> QED BY <1>1 DEF BatchesInv

\* A run that waits while the chain moves on.
LEMMA RunKept ==
  ASSUME RunInv, UNCHANGED <<network, manifest, signerIsAdmin, run>>, deployed => deployed',
         chain.triggered \subseteq chain'.triggered,
         signerIsAdmin /\ run # NoRun => chain'.allocations = chain.allocations
  PROVE  RunInv'
<1>1. \A list : Checked(list) => Checked(list)'
  BY DEF Checked
<1>2. run # NoRun => deployed' /\ Checked(run.list)'
  BY DEF Checked, RunInv
<1>3. ASSUME run.at \in {"confirm", "send"}
      PROVE  run.todo # <<>> /\ IF signerIsAdmin THEN Going(run.todo, run.list, chain)' ELSE Well(run.todo)'
  <2>1. run.todo # <<>> /\ run # NoRun
    BY <1>3 DEF RunInv, NoRun
  <2>2. CASE signerIsAdmin
    <3>1. Going(run.todo, run.list, chain) /\ chain'.allocations = chain.allocations
      BY <1>3, <2>1, <2>2 DEF RunInv
    <3>2. \A call : Sound(call) => Sound(call)'
      BY <1>1 DEF Sound
    <3> DEFINE todo == run.todo
               list == run.list
    <3>3. todo' = todo /\ list' = list
      OBVIOUS
    <3>4. \A i \in 1..Len(todo) : Sound(todo[i]) /\ Sound(todo[i])'
      BY <3>1, <3>2 DEF Going, Sound, Checked
    <3>5. Going(run.todo, run.list, chain)'
      BY <3>1, <3>4 DEF Going, Pays
    <3> QED BY <2>1, <2>2, <3>5
  <2>3. CASE ~signerIsAdmin
    <3> DEFINE b == run.todo
    <3>1. Well(b)
      BY <1>3, <2>3 DEF RunInv
    <3>2. Well(run.todo)'
      <4>1. \A i \in 1..Len(b) : Sound(b[i])'
        BY <3>1 DEF Well, Sound, Checked
      <4>2. Pays(b) => \E list : Checked(list)' /\ Leads(b, list) /\ Starts(b, list)'
        BY <1>1, <3>1 DEF Well, Starts
      <4>3. b' = b /\ b \in Seq(Calls)
        BY <3>1 DEF Well
      <4> QED BY <4>1, <4>2, <4>3 DEF Well, Pays, Leads, Starts
    <3> QED BY <2>1, <2>3, <3>2
  <2> QED BY <2>2, <2>3
<1> QED BY <1>2, <1>3 DEF RunInv

-----------------------------------------------------------------------------
(***************************************************************************)
(* Every action keeps the invariant.                                       *)
(***************************************************************************)
\* 03 executes or writes its batch; no run has started.
LEMMA DeployVestingKeeps ==
  ASSUME LaunchInv, DeployVesting
  PROVE  LaunchInv'
<1> USE DEF LaunchInv
<1>1. run = NoRun
  BY DEF DeployVesting, RunInv
<1>2. FilesInv' /\ UNCHANGED <<network, manifest, signerIsAdmin, run, donations>> /\ deployed'
  BY DEF DeployVesting, FilesInv
<1> DEFINE b == VestingBatch(DeployedVaults)
<1>3. Well(b)
  BY VestingWell
<1>4. CASE signerIsAdmin
  <2>1. chain' \in Execute(b, chain) /\ batches' = batches
    BY <1>4 DEF DeployVesting
  <2> HIDE DEF b
  <2> DEFINE d == chain'
             m == donations
  <2>2. m \in Nat /\ Paid(chain) /\ Grants(chain, m) /\ chain \in Chains /\ d \in Execute(b, chain)
    BY <2>1 DEF FilesInv, ChainInv
  <2> HIDE DEF d, m
  <2>3. d \in Chains /\ Paid(d) /\ Grants(d, m) /\ chain.triggered \subseteq d.triggered
    BY <1>3, <2>2, BatchKeeps
  <2>4. ChainInv'
    BY <1>2, <1>4, <2>3, ChainKept DEF d, m
  <2>5. BatchesInv'
    BY <1>2, <2>1, <2>3, BatchesKept DEF d
  <2>6. RunInv'
    BY <1>1, <1>2, <2>3, RunKept DEF d
  <2> QED BY <1>2, <2>4, <2>5, <2>6
<1>5. CASE ~signerIsAdmin
  <2>1. batches' = batches \cup {b} /\ chain' = chain
    BY <1>5 DEF DeployVesting, Flush
  <2> HIDE DEF b
  <2>2. ChainInv'
    BY <1>2, <2>1, ChainKept DEF ChainInv
  <2>3. BatchesInv'
    BY <1>2, <1>3, <1>5, <2>1, BatchFlushed
  <2>4. RunInv'
    BY <1>1, <1>2, <2>1, RunKept
  <2> QED BY <1>2, <2>2, <2>3, <2>4
<1> QED BY <1>4, <1>5

\* Steps that leave the chain and the batches alone.
LEMMA QuietStep ==
  ASSUME LaunchInv, UNCHANGED <<network, manifest, signerIsAdmin, chain, batches, deployed, donations>>,
         env' \in EnvFiles, RunInv'
  PROVE  LaunchInv'
<1> USE DEF LaunchInv
<1>1. FilesInv'
  BY DEF FilesInv
<1>2. ChainInv'
  BY ChainKept DEF ChainInv
<1>3. BatchesInv'
  BY BatchesKept
<1> QED BY <1>1, <1>2, <1>3

\* A run that ends, or goes on with a checked list and nothing to send.
LEMMA RunMoves ==
  ASSUME UNCHANGED <<network, manifest>>, run' \in RunShapes, deployed',
         run' # NoRun => Checked(run'.list), run'.at \notin {"confirm", "send"}
  PROVE  RunInv'
<1>1. run' # NoRun => Checked(run.list)'
  BY DEF Checked
<1> QED BY <1>1 DEF RunInv

\* A run that ends.
LEMMA RunEnds ==
  ASSUME run' = NoRun
  PROVE  RunInv'
BY DEF RunInv, RunShapes, NoRun

\* The .env file is edited, or the run stops.
LEMMA EditKeeps ==
  ASSUME LaunchInv, EditEnv \/ StopRun
  PROVE  LaunchInv'
<1>1. UNCHANGED <<network, manifest, signerIsAdmin, chain, batches, deployed, donations>> /\ env' \in EnvFiles
  BY DEF EditEnv, StopRun, LaunchInv, FilesInv
<1>2. run' = NoRun
  BY DEF EditEnv, StopRun
<1> QED BY <1>1, <1>2, RunEnds, QuietStep

\* A run starts with a list that passed the gate.
LEMMA StartKeeps ==
  ASSUME LaunchInv, StartRun
  PROVE  LaunchInv'
<1>1. UNCHANGED <<network, manifest, signerIsAdmin, chain, batches, deployed, donations>> /\ env' \in EnvFiles
  BY DEF StartRun, LaunchInv, FilesInv
<1> DEFINE list == AllocationsOf(env)
<1>2. Checked(list)
  BY GateChecks DEF StartRun, LaunchInv, FilesInv
<1>3. run' = [at |-> "genesisComplete", list |-> list] /\ deployed'
  BY DEF StartRun
<1> HIDE DEF list
<1>4. list \in Lists
  BY <1>2 DEF Checked
<1>5. run' \in RunShapes /\ run'.list = list /\ run'.at = "genesisComplete"
  BY <1>3, <1>4 DEF RunShapes
<1>6. RunInv'
  BY <1>1, <1>2, <1>3, <1>5, RunMoves
<1> QED BY <1>1, <1>6, QuietStep

\* The pre-flight reads and the confirmation.
LEMMA PreflightKeeps ==
  ASSUME LaunchInv, Preflight
  PROVE  LaunchInv'
<1>1. UNCHANGED <<network, manifest, signerIsAdmin, chain, batches, deployed, donations>> /\ env' \in EnvFiles
  BY DEF Preflight, LaunchInv, FilesInv
<1>2. /\ run \in RunShapes /\ (run # NoRun => deployed /\ Checked(run.list))
      /\ chain.genesis \in BOOLEAN /\ chain.distributed \in BOOLEAN
  BY DEF LaunchInv, RunInv, ChainInv, Chains
<1>3. run # NoRun /\ Checked(run.list) /\ run.list \in Lists /\ deployed'
  BY <1>1, <1>2, RunKinds DEF Preflight, ReadGenesis, ReadDistributed, ReadTriggered, Confirm, Checked
<1>4. ASSUME ReadGenesis PROVE RunInv'
  <2>1. run' = [at |-> "distributed", list |-> run.list, genesisDone |-> chain.genesis]
    BY <1>4 DEF ReadGenesis
  <2>2. run' \in RunShapes /\ run'.list = run.list /\ run'.at = "distributed"
    BY <1>2, <1>3, <2>1 DEF RunShapes
  <2> QED BY <1>1, <1>3, <2>2, RunMoves
<1>5. ASSUME ReadDistributed PROVE RunInv'
  <2>1. run' = [at |-> "tgeTriggered", list |-> run.list, genesisDone |-> run.genesisDone,
                distributedDone |-> chain.distributed] /\ run.genesisDone \in BOOLEAN
    BY <1>2, <1>5, RunKinds DEF ReadDistributed
  <2>2. run' \in RunShapes /\ run'.list = run.list /\ run'.at = "tgeTriggered"
    BY <1>2, <1>3, <2>1 DEF RunShapes
  <2> QED BY <1>1, <1>3, <2>2, RunMoves
<1>6. ASSUME ReadTriggered PROVE RunInv'
  <2> DEFINE r == [list |-> run.list, genesisDone |-> run.genesisDone,
                   distributedDone |-> run.distributedDone, triggered |-> chain.triggered]
             todo == PhaseA(r)
             at == IF todo = <<>> THEN "balanceOf" ELSE IF network = "local" THEN "send" ELSE "confirm"
  <2>1. run' = NoRun \/ run' = [at |-> at, list |-> run.list, todo |-> todo]
    BY <1>6 DEF ReadTriggered
  <2>2. r.list = run.list /\ r.genesisDone \in BOOLEAN /\ r.distributedDone \in BOOLEAN /\ r.triggered = chain.triggered
    BY <1>2, <1>6, RunKinds DEF ReadTriggered
  <2> HIDE DEF r
  <2>3. /\ todo \in Seq(Calls)
        /\ r.distributedDone =>
                \A i \in 1..Len(todo) : todo[i].fn \in {"genesis", "triggerTGE"}
        /\ ~r.distributedDone => Leads(todo, run.list)
        /\ Starts(todo, run.list)
        /\ \A i \in 1..Len(todo) : Sound(todo[i])
    BY <1>3, <2>2, PhaseACalls
  <2> HIDE DEF todo
  <2>4. r.distributedDone => ~Pays(todo)
    BY <2>3 DEF Pays
  <2>5. Well(todo)
    BY <1>3, <2>2, <2>3, <2>4 DEF Well
  <2>6. ASSUME todo # <<>> PROVE Going(todo, run.list, chain)
    <3>1. Len(todo) >= 1 /\ 2..Len(todo) \subseteq 1..Len(todo)
      BY <2>3, <2>6
    <3>2. CASE r.distributedDone
      <4>1. todo[1].fn # "setAllocations" /\ \A i \in 2..Len(todo) : todo[i].fn # "setAllocations"
        BY <2>3, <3>1, <3>2
      <4> QED BY <2>3, <2>4, <3>2, <4>1 DEF Going
    <3>3. CASE ~r.distributedDone
      BY <2>3, <3>3 DEF Going, Leads
    <3> QED BY <2>2, <3>2, <3>3
  <2>7. CASE run' = NoRun
    BY <2>7, RunEnds
  <2>8. CASE run' = [at |-> at, list |-> run.list, todo |-> todo]
    <3>1. at \in {"balanceOf", "confirm", "send"} /\ (at # "balanceOf" => todo # <<>>)
      OBVIOUS
    <3> HIDE DEF at
    <3> DEFINE list == run.list
    <3>2. list \in Lists /\ Checked(list)
      BY <1>3
    <3> HIDE DEF list
    <3>3. run' = [at |-> at, list |-> list, todo |-> todo]
      BY <2>8 DEF list
    <3>4. run' \in RunShapes /\ run'.list = list /\ run'.at = at /\ run'.todo = todo
      BY <2>3, <3>1, <3>2, <3>3 DEF RunShapes
    <3>5. (run # NoRun => deployed /\ Checked(run.list))'
      BY <1>1, <1>3, <3>2, <3>4 DEF Checked
    <3>6. Well(run.todo)'
      BY <1>1, <2>5, <3>4 DEF Well, Checked, Starts, Leads, Pays, Sound
    <3>7. todo # <<>> => Going(run.todo, run.list, chain)'
      BY <1>1, <2>6, <3>4 DEF Going, Checked, Pays, Sound, list
    <3> QED BY <1>1, <3>1, <3>4, <3>5, <3>6, <3>7 DEF RunInv
  <2> QED BY <2>1, <2>7, <2>8
<1>7. ASSUME Confirm PROVE RunInv'
  <2>1. run' = [run EXCEPT !.at = "send"] /\ run.at = "confirm"
        /\ run \in [at : {"balanceOf", "confirm", "send"}, list : Lists, todo : Seq(Calls)]
    BY <1>2, <1>7, RunKinds DEF Confirm
  <2>2. run' \in RunShapes /\ run'.list = run.list /\ run'.at = "send" /\ run'.todo = run.todo
    BY <2>1 DEF RunShapes
  <2>3. /\ run.todo # <<>>
        /\ IF signerIsAdmin THEN Going(run.todo, run.list, chain) ELSE Well(run.todo)
    BY <2>1 DEF LaunchInv, RunInv
  <2>4. Checked(run.list)'
    BY <1>1, <1>3, <2>2 DEF Checked
  <2>5. Well(run.todo) => Well(run.todo)'
    BY <1>1, <2>2 DEF Well, Checked, Starts, Leads, Pays, Sound
  <2>6. Going(run.todo, run.list, chain) => Going(run.todo, run.list, chain)'
    BY <1>1, <2>2 DEF Going, Checked, Pays, Sound
  <2> QED BY <1>1, <1>3, <2>2, <2>3, <2>4, <2>5, <2>6 DEF RunInv
<1>8. RunInv'
  BY <1>4, <1>5, <1>6, <1>7 DEF Preflight
<1> QED BY <1>1, <1>8, QuietStep

\* A batch for the Safe is written, and the run stops.
LEMMA QueueKeeps ==
  ASSUME LaunchInv, QueuePhaseA
  PROVE  LaunchInv'
<1> USE DEF LaunchInv
<1>1. /\ UNCHANGED <<network, manifest, signerIsAdmin, chain, deployed, donations, env>> /\ run' = NoRun
      /\ batches' = batches \cup {run.todo} /\ ~signerIsAdmin
  BY DEF QueuePhaseA, Flush
<1>2. Well(run.todo)
  BY DEF QueuePhaseA, RunInv
<1>3. BatchesInv'
  <2>1. PICK b : b = run.todo
    OBVIOUS
  <2>2. Well(b) /\ batches' = batches \cup {b} /\ BatchesInv
    BY <1>1, <1>2, <2>1
  <2> QED BY <1>1, <2>2, BatchFlushed
<1>4. FilesInv' /\ ChainInv'
  BY <1>1, ChainKept DEF FilesInv, ChainInv
<1> QED BY <1>1, <1>3, <1>4, RunEnds

\* What is left to send after the first call was sent.
LEMMA GoingOn ==
  ASSUME NEW todo \in Seq(Calls), Len(todo) > 1, NEW list, NEW c, NEW d, Going(todo, list, c),
         d.allocations = IF todo[1].fn = "setAllocations" THEN todo[1].list ELSE c.allocations
  PROVE  Tail(todo) \in Seq(Calls) /\ Tail(todo) # <<>> /\ Going(Tail(todo), list, d)
<1> DEFINE n == Len(todo)
           u == Tail(todo)
<1>1. n \in Nat /\ n > 1 /\ u \in Seq(Calls) /\ Len(u) = n - 1 /\ \A i \in 1..(n - 1) : u[i] = todo[i + 1]
  OBVIOUS
<1> HIDE DEF u, n
<1>2. u # <<>>
  BY <1>1
<1>3. \A i \in 1..(n - 1) : i + 1 \in 1..n /\ i + 1 \in 2..n
  BY <1>1
<1>4. \A i \in 1..Len(u) : Sound(u[i]) /\ u[i].fn # "setAllocations"
  BY <1>1, <1>3 DEF Going, n
<1>5. Pays(u) => Pays(todo)
  BY <1>1, <1>3 DEF Pays, n
<1>6. Pays(u) => d.allocations = list
  BY <1>5 DEF Going
<1>7. (\A i \in 2..Len(u) : i \in 1..Len(u)) /\ 1 \in 1..Len(u)
  BY <1>1
<1>8. Going(u, list, d)
  BY <1>4, <1>6, <1>7 DEF Going
<1> QED BY <1>1, <1>2, <1>8 DEF u

\* The admin sends one call.
LEMMA SendKeeps ==
  ASSUME LaunchInv, SendDirect
  PROVE  LaunchInv'
<1> USE DEF LaunchInv
<1>1. /\ UNCHANGED <<network, manifest, signerIsAdmin, batches, deployed, donations, env>>
      /\ signerIsAdmin /\ run.at = "send"
  BY DEF SendDirect
<1> DEFINE call == Head(run.todo)
           d == Effect(chain, call)
           m == donations
           todo == run.todo
<1>2. /\ run \in [at : {"balanceOf", "confirm", "send"}, list : Lists, todo : Seq(Calls)]
      /\ run # NoRun /\ deployed /\ Checked(run.list)
      /\ todo \in Seq(Calls) /\ todo # <<>> /\ Going(todo, run.list, chain)
  BY <1>1, RunKinds DEF RunInv
<1>3. Len(todo) >= 1 /\ call = todo[1] /\ call \in Calls /\ 1 \in 1..Len(todo)
  BY <1>2
<1>4. Sound(call)
  BY <1>2, <1>3 DEF Going
<1>5. call.fn = "distribute" => Checked(chain.allocations)
  <2> SUFFICES ASSUME call.fn = "distribute" PROVE Checked(chain.allocations)
    OBVIOUS
  <2>1. Pays(todo)
    BY <1>3 DEF Pays
  <2>2. chain.allocations = run.list
    BY <1>2, <1>3, <2>1 DEF Going
  <2> QED BY <1>2, <2>2
<1>6. FilesInv' /\ m \in Nat /\ chain \in Chains /\ Paid(chain) /\ Grants(chain, m)
  BY <1>1 DEF FilesInv, ChainInv
<1>7. CASE Reverts(chain, call)
  <2>1. run' = NoRun /\ chain' = chain
    BY <1>7 DEF SendDirect
  <2>2. ChainInv'
    BY <1>1, <2>1, ChainKept DEF ChainInv
  <2>3. BatchesInv'
    BY <1>1, <2>1, BatchesKept
  <2> QED BY <1>6, <2>1, <2>2, <2>3, RunEnds
<1>8. CASE ~Reverts(chain, call)
  <2>1. /\ chain' = d
        /\ \/ run' = NoRun
           \/ run' = [run EXCEPT !.todo = Tail(@), !.at = IF Len(run.todo) = 1 THEN "balanceOf" ELSE @]
    BY <1>8 DEF SendDirect
  <2>2. /\ d \in Chains
        /\ d.allocations = IF call.fn = "setAllocations" THEN call.list ELSE chain.allocations
    <3> HIDE DEF call
    <3> QED BY <1>3, <1>6, EffectFields
  <2>3. Paid(d) /\ Grants(d, m) /\ chain.triggered \subseteq d.triggered
    <3> HIDE DEF call, m
    <3> QED BY <1>3, <1>4, <1>5, <1>6, <1>8, CallKeeps
  <2> HIDE DEF d
  <2>4. ChainInv'
    BY <1>1, <2>1, <2>2, <2>3, ChainKept
  <2>5. BatchesInv'
    BY <1>1, <2>1, <2>3, BatchesKept
  <2>6. CASE run' = NoRun
    BY <1>6, <2>4, <2>5, <2>6, RunEnds
  <2>7. CASE run' = [run EXCEPT !.todo = Tail(@), !.at = IF Len(run.todo) = 1 THEN "balanceOf" ELSE @]
    <3>1. /\ run'.list = run.list /\ run'.todo = Tail(todo)
          /\ run'.at = IF Len(todo) = 1 THEN "balanceOf" ELSE "send"
      BY <1>1, <1>2, <2>7
    <3>2. Tail(todo) \in Seq(Calls)
      BY <1>2
    <3>3. run' \in RunShapes
      <4>1. run' \in [at : {"balanceOf", "confirm", "send"}, list : Lists, todo : Seq(Calls)]
        BY <1>2, <2>7, <3>2
      <4> QED BY <4>1 DEF RunShapes
    <3>4. CASE Len(todo) = 1
      <4>1. run'.at \notin {"confirm", "send"}
        BY <3>1, <3>4
      <4> QED BY <1>1, <1>2, <1>6, <2>4, <2>5, <3>1, <3>3, <4>1, RunMoves
    <3>5. CASE Len(todo) # 1
      <4>1. PICK t, list, c : t = todo /\ list = run.list /\ c = chain
        OBVIOUS
      <4>2. PICK e : e = d
        OBVIOUS
      <4>3. t \in Seq(Calls) /\ Len(t) > 1
        <5>1. t \in Seq(Calls) /\ t # <<>> /\ Len(t) # 1
          BY <1>2, <3>5, <4>1
        <5> DEFINE n == Len(t)
        <5>2. n \in Nat /\ n # 0 /\ n # 1
          BY <5>1
        <5> HIDE DEF n
        <5>3. n > 1
          BY <5>2
        <5> QED BY <5>1, <5>3 DEF n
      <4> HIDE DEF todo
      <4>4. Going(t, list, c)
        BY <1>2, <4>1
      <4>5. e.allocations = IF t[1].fn = "setAllocations" THEN t[1].list ELSE c.allocations
        BY <1>3, <2>2, <4>1, <4>2
      <4>6. Tail(t) # <<>> /\ Going(Tail(t), list, e)
        BY <4>3, <4>4, <4>5, GoingOn
      <4>7. run'.todo = Tail(t) /\ run'.list = list /\ chain' = e /\ run'.at = "send"
        BY <2>1, <3>1, <3>5, <4>1, <4>2
      <4>8. Going(run.todo, run.list, chain)'
        BY <1>1, <4>6, <4>7 DEF Going, Checked, Pays, Sound
      <4>9. Checked(run.list)'
        BY <1>1, <1>2, <3>1 DEF Checked
      <4>10. RunInv'
        BY <1>1, <1>2, <3>3, <4>6, <4>7, <4>8, <4>9 DEF RunInv
      <4> QED BY <1>6, <2>4, <2>5, <4>10
    <3> QED BY <3>4, <3>5
  <2> QED BY <2>1, <2>6, <2>7
<1> QED BY <1>7, <1>8

\* Step 4 reads the balance.
LEMMA ReadStakingKeeps ==
  ASSUME LaunchInv, ReadStakingBalance
  PROVE  LaunchInv'
<1>1. /\ UNCHANGED <<network, manifest, signerIsAdmin, chain, batches, deployed, donations>> /\ env' \in EnvFiles
      /\ run.at = "balanceOf"
  BY DEF ReadStakingBalance, LaunchInv, FilesInv
<1> DEFINE list == run.list
           held == chain.bal[run.list["Staking"]]
<1>2. /\ deployed' /\ Checked(list) /\ list \in Lists
  BY <1>1, RunKinds DEF LaunchInv, RunInv, Checked
<1>3. held \in Int
  <2>1. "Staking" \in Labels
    BY PlanAssumption
  <2> QED BY <1>2, <2>1 DEF LaunchInv, ChainInv, Chains, Lists
<1>4. run' = [at |-> "rewardPool", list |-> list, amount |-> held]
  BY DEF ReadStakingBalance
<1> HIDE DEF list, held
<1>5. run' \in RunShapes /\ run'.list = list /\ run'.at = "rewardPool"
  BY <1>2, <1>3, <1>4 DEF RunShapes
<1>6. RunInv'
  BY <1>1, <1>2, <1>5, RunMoves
<1> QED BY <1>1, <1>6, QuietStep

\* Step 4 registers the pool, by itself or by a batch of its own.
LEMMA RegisterKeeps ==
  ASSUME LaunchInv, Register
  PROVE  LaunchInv'
<1> USE DEF LaunchInv
<1>1. /\ UNCHANGED <<network, manifest, signerIsAdmin, deployed, donations, env>> /\ run.at = "rewardPool"
  BY DEF Register
<1> DEFINE call == [fn |-> "notify", amount |-> run.amount]
           d == Effect(chain, call)
           m == donations
<1>2. /\ deployed' /\ Checked(run.list) /\ run.list \in Lists /\ run.amount \in Int
  BY <1>1, RunKinds DEF RunInv, Checked
<1>3. call \in Calls /\ call.fn = "notify"
  BY <1>2 DEF Calls
<1>4. FilesInv' /\ m \in Nat /\ chain \in Chains /\ Paid(chain) /\ Grants(chain, m)
  BY <1>1 DEF FilesInv, ChainInv
<1>5. /\ run' = NoRun \/ run' = Success
      /\ \/ chain' = chain /\ batches' = batches
         \/ chain' = d /\ batches' = batches /\ ~Reverts(chain, call) /\ signerIsAdmin
         \/ chain' = chain /\ batches' = batches \cup {<<call>>} /\ ~signerIsAdmin
  <2> HIDE DEF call
  <2> QED BY DEF Register, Flush, call
<1> HIDE DEF call
<1>6. RunInv'
  <2>1. CASE run' = NoRun
    BY <2>1, RunEnds
  <2>2. CASE run' = Success
    <3> DEFINE list == run.list
    <3>1. run' = [at |-> "success", list |-> list] /\ list \in Lists /\ Checked(list)
      BY <1>2, <2>2 DEF Success
    <3> HIDE DEF list
    <3>2. run' \in RunShapes /\ run'.list = list /\ run'.at = "success"
      BY <3>1 DEF RunShapes
    <3> QED BY <1>1, <1>2, <3>1, <3>2, RunMoves
  <2> QED BY <1>5, <2>1, <2>2
<1>7. CASE chain' = chain /\ batches' = batches
  <2>1. ChainInv'
    BY <1>1, <1>7, ChainKept DEF ChainInv
  <2>2. BatchesInv'
    BY <1>1, <1>7, BatchesKept
  <2> QED BY <1>4, <1>6, <2>1, <2>2
<1>8. CASE chain' = d /\ batches' = batches /\ ~Reverts(chain, call) /\ signerIsAdmin
  <2>1. Sound(call) /\ call.fn # "distribute"
    BY <1>3 DEF Sound
  <2>2. d \in Chains
    BY <1>3, <1>4, EffectFields
  <2>3. Paid(d) /\ Grants(d, m) /\ chain.triggered \subseteq d.triggered
    <3> HIDE DEF m
    <3> QED BY <1>3, <1>4, <1>8, <2>1, CallKeeps
  <2> HIDE DEF d
  <2>4. ChainInv'
    BY <1>1, <1>8, <2>2, <2>3, ChainKept
  <2>5. BatchesInv'
    BY <1>1, <1>8, <2>3, BatchesKept
  <2> QED BY <1>4, <1>6, <2>4, <2>5
<1>9. CASE chain' = chain /\ batches' = batches \cup {<<call>>} /\ ~signerIsAdmin
  <2>1. PICK x : x = call
    OBVIOUS
  <2> DEFINE b == <<x>>
  <2>2. b \in Seq(Calls) /\ Len(b) = 1 /\ b[1] = x /\ x.fn = "notify"
    BY <1>3, <2>1
  <2>3. batches' = batches \cup {b}
    BY <1>9, <2>1
  <2> HIDE DEF b
  <2>4. Well(b)
    BY <2>2 DEF Well, Pays, Sound
  <2>5. BatchesInv'
    BY <1>1, <1>9, <2>3, <2>4, BatchFlushed
  <2>6. ChainInv'
    BY <1>1, <1>9, ChainKept DEF ChainInv
  <2> QED BY <1>4, <1>6, <2>5, <2>6
<1> QED BY <1>5, <1>7, <1>8, <1>9

\* The Safe executes a batch, whatever run is going on.
LEMMA ExecuteKeeps ==
  ASSUME LaunchInv, ExecuteBatch
  PROVE  LaunchInv'
<1> USE DEF LaunchInv
<1>1. UNCHANGED <<network, manifest, signerIsAdmin, batches, deployed, donations, env, run>>
  BY DEF ExecuteBatch
<1>2. PICK b \in batches : chain' \in Execute(b, chain)
  BY DEF ExecuteBatch
<1> DEFINE d == chain'
           m == donations
<1>3. /\ Well(b) /\ ~signerIsAdmin
  BY <1>2 DEF BatchesInv
<1>4. FilesInv' /\ m \in Nat /\ Paid(chain) /\ Grants(chain, m) /\ chain \in Chains /\ Started(chain)
  BY <1>1, <1>3 DEF FilesInv, ChainInv
<1>5. d \in Execute(b, chain)
  BY <1>2
<1> HIDE DEF d, m
<1>6. d \in Chains /\ Paid(d) /\ Grants(d, m) /\ chain.triggered \subseteq d.triggered /\ Started(d)
  BY <1>3, <1>4, <1>5, BatchKeeps
<1>7. ChainInv'
  BY <1>1, <1>6, ChainKept DEF d, m
<1>8. BatchesInv'
  BY <1>1, <1>6, BatchesKept DEF d
<1>9. RunInv'
  BY <1>1, <1>3, <1>6, RunKept DEF d
<1> QED BY <1>4, <1>7, <1>8, <1>9

\* Tokens that move between holders.
LEMMA HoldersKeep ==
  ASSUME LaunchInv, UNCHANGED <<network, manifest, signerIsAdmin, batches, deployed, env, run>>,
         chain.distributed, donations' \in Nat, donations <= donations', chain' \in Chains,
         chain'.distributed = chain.distributed, chain'.allocations = chain.allocations,
         chain'.triggered = chain.triggered, chain'.declared = chain.declared, chain'.grant = chain.grant,
         manifest # NoManifest => \A l \in VaultLabels :
             chain'.bal[manifest.dest[l]] \in
                 chain.bal[manifest.dest[l]]..(chain.bal[manifest.dest[l]] + (donations' - donations))
  PROVE  LaunchInv'
<1> USE DEF LaunchInv
<1>1. FilesInv'
  BY DEF FilesInv
<1> DEFINE d == chain'
           m == donations
           k == donations'
<1>2. m \in Nat /\ k \in Nat /\ m <= k /\ Paid(chain) /\ Grants(chain, m) /\ (~signerIsAdmin => Started(chain))
  BY DEF FilesInv, ChainInv
<1>3. Paid(d) /\ (Started(chain) => Started(d))
  BY <1>2 DEF Paid, Started
<1>4. ASSUME manifest # NoManifest PROVE Grants(d, k)
  <2>1. \A l \in VaultLabels : Amount[l] \in Nat
    BY Sums DEF VaultLabels
  <2>2. \A l \in VaultLabels : d.bal[manifest.dest[l]] \in Amount[l]..(Amount[l] + k)
    <3> SUFFICES ASSUME NEW l \in VaultLabels PROVE d.bal[manifest.dest[l]] \in Amount[l]..(Amount[l] + k)
      OBVIOUS
    <3>1. chain.bal[manifest.dest[l]] \in Amount[l]..(Amount[l] + m)
      BY <1>2, <1>4 DEF Grants
    <3>2. d.bal[manifest.dest[l]] \in chain.bal[manifest.dest[l]]..(chain.bal[manifest.dest[l]] + (k - m))
      BY <1>4
    <3> HIDE DEF d, k, m
    <3> QED BY <1>2, <2>1, <3>1, <3>2
  <2>3. ASSUME NEW v \in chain.triggered
        PROVE  (\E l \in VaultLabels : v = manifest.dest[l]) /\ Exact(d, v, k)
    <3>1. PICK l \in VaultLabels : v = manifest.dest[l]
      BY <1>2, <1>4, <2>3 DEF Grants
    <3>2. Vaults[v].row = l
      BY <1>2, <1>4, <3>1, CheckedVaults DEF Paid
    <3>3. Exact(chain, v, m)
      BY <1>2, <1>4, <2>3 DEF Grants
    <3>4. d.declared[v] = chain.declared[v] /\ d.grant[v] = chain.grant[v]
      OBVIOUS
    <3> HIDE DEF d, k, m
    <3>5. Exact(d, v, k)
      BY <1>2, <2>1, <3>2, <3>3, <3>4 DEF Exact
    <3> QED BY <3>1, <3>5
  <2> QED BY <1>2, <1>4, <2>2, <2>3 DEF Grants
<1>5. Grants(d, k)
  <2>1. CASE manifest = NoManifest
    BY <2>1 DEF Grants
  <2> QED BY <1>4, <2>1
<1>6. ChainInv'
  BY <1>2, <1>3, <1>5, ChainKept
<1>7. BatchesInv'
  BY BatchesKept
<1>8. RunInv'
  BY RunKept
<1> QED BY <1>1, <1>6, <1>7, <1>8

\* A liquid wallet is no vault that a checked list pays.
LEMMA HolderApart ==
  ASSUME LaunchInv, NEW a \in Holders
  PROVE  /\ chain.distributed /\ a \in Address
         /\ manifest # NoManifest => \A l \in VaultLabels :
                a # manifest.dest[l] /\ manifest.dest[l] \in Address /\ manifest.dest[l] # StakingPool
<1>1. chain.distributed /\ a \in Address
  BY DEF Holders
<1>2. Checked(chain.allocations)
  BY <1>1 DEF LaunchInv, ChainInv, Paid
<1>3. ASSUME manifest # NoManifest, NEW l \in VaultLabels
      PROVE  a # manifest.dest[l] /\ manifest.dest[l] \in Address /\ manifest.dest[l] # StakingPool
  <2>1. PICK k \in Labels : Row(k).kind = "wallet" /\ chain.allocations[k] = a
    BY DEF Holders
  <2>2. k # l /\ l \in Labels
    BY <2>1 DEF VaultLabels
  <2>3. chain.allocations = manifest.dest /\ \A i, j \in Labels : chain.allocations[i] = chain.allocations[j] => i = j
    BY <1>2, <1>3 DEF Checked
  <2>4. manifest.dest[l] \in Address /\ manifest.dest[l] # StakingPool
    BY <1>2, <1>3, <2>3, CheckedVaults
  <2> QED BY <2>1, <2>2, <2>3, <2>4
<1> QED BY <1>1, <1>3

\* What a token that goes from a to b leaves of the chain c.
Moves(c, a, b, d) ==
    /\ d \in Chains
    /\ d.distributed = c.distributed /\ d.allocations = c.allocations
    /\ d.triggered = c.triggered /\ d.declared = c.declared
    /\ d.grant = c.grant /\ d.genesis = c.genesis
    /\ d.rewardPool = c.rewardPool /\ d.locked = c.locked
    /\ \A x \in Address \ {a} : d.bal[x] \in c.bal[x]..(c.bal[x] + 1)
    /\ \A x \in Address \ {a, b} : d.bal[x] = c.bal[x]

\* A transfer does.
LEMMA TransferMoves ==
  ASSUME NEW c \in Chains, NEW a \in Address, NEW b \in Address
  PROVE  Moves(c, a, b, Transfer(c, a, b))
<1> DEFINE sent == [c EXCEPT !.bal[a] = @ - 1]
           d == [sent EXCEPT !.bal[b] = @ + 1]
<1>1. [c.bal EXCEPT ![a] = @ - 1] \in [Address -> Int]
  BY DEF Chains
<1>2. sent \in Chains
  BY <1>1 DEF Chains
<1>3. /\ sent.distributed = c.distributed /\ sent.allocations = c.allocations
      /\ sent.triggered = c.triggered /\ sent.declared = c.declared /\ sent.grant = c.grant
      /\ sent.genesis = c.genesis /\ sent.rewardPool = c.rewardPool /\ sent.locked = c.locked
      /\ sent.bal = [c.bal EXCEPT ![a] = @ - 1]
  BY DEF Chains
<1>4. /\ sent.bal \in [Address -> Int] /\ c.bal \in [Address -> Int]
      /\ \A x \in Address \ {a} : sent.bal[x] = c.bal[x]
  BY <1>1, <1>3 DEF Chains
<1> HIDE DEF sent
<1>5. [sent.bal EXCEPT ![b] = @ + 1] \in [Address -> Int]
  BY <1>2 DEF Chains
<1>6. d \in Chains
  BY <1>2, <1>5 DEF Chains
<1>7. /\ d.distributed = sent.distributed /\ d.allocations = sent.allocations
      /\ d.triggered = sent.triggered /\ d.declared = sent.declared /\ d.grant = sent.grant
      /\ d.genesis = sent.genesis /\ d.rewardPool = sent.rewardPool /\ d.locked = sent.locked
      /\ d.bal = [sent.bal EXCEPT ![b] = @ + 1]
  BY <1>2 DEF Chains
<1>8. Transfer(c, a, b) = d
  BY DEF Transfer, sent
<1> HIDE DEF d
<1>9. ASSUME NEW x \in Address \ {a} PROVE d.bal[x] \in c.bal[x]..(c.bal[x] + 1)
  BY <1>4, <1>7
<1>10. ASSUME NEW x \in Address \ {a, b} PROVE d.bal[x] = c.bal[x]
  BY <1>4, <1>7
<1>11. Moves(c, a, b, d)
  BY <1>3, <1>6, <1>7, <1>9, <1>10 DEF Moves
<1> QED BY <1>8, <1>11

\* A token is sent to a vault.
LEMMA DonateKeeps ==
  ASSUME LaunchInv, Donate
  PROVE  LaunchInv'
<1>1. UNCHANGED <<network, manifest, signerIsAdmin, batches, deployed, env, run>> /\ donations' = donations + 1
      /\ donations \in Nat /\ chain \in Chains
  BY DEF Donate, LaunchInv, FilesInv, ChainInv
<1>2. PICK a \in Holders, v \in DOMAIN Vaults : chain' = Transfer(chain, a, v)
  BY DEF Donate
<1>3. a \in Address /\ chain.distributed /\ v \in Address
  BY HolderApart, DeployedTypes
<1>4. /\ chain' \in Chains
      /\ chain'.distributed = chain.distributed /\ chain'.allocations = chain.allocations
      /\ chain'.triggered = chain.triggered /\ chain'.declared = chain.declared /\ chain'.grant = chain.grant
      /\ \A x \in Address \ {a} : chain'.bal[x] \in chain.bal[x]..(chain.bal[x] + 1)
  <2>1. Moves(chain, a, v, chain')
    BY <1>1, <1>2, <1>3, TransferMoves
  <2> QED BY <2>1 DEF Moves
<1>5. ASSUME manifest # NoManifest, NEW l \in VaultLabels
      PROVE  chain'.bal[manifest.dest[l]] \in
                 chain.bal[manifest.dest[l]]..(chain.bal[manifest.dest[l]] + (donations' - donations))
  <2>1. a # manifest.dest[l] /\ manifest.dest[l] \in Address
    BY <1>5, HolderApart
  <2>2. donations' - donations = 1
    BY <1>1
  <2> QED BY <1>4, <2>1, <2>2
<1>6. donations' \in Nat /\ donations <= donations'
  BY <1>1
<1> QED BY <1>1, <1>3, <1>4, <1>5, <1>6, HoldersKeep

\* A user stakes a token.
LEMMA StakeKeeps ==
  ASSUME LaunchInv, Stake
  PROVE  LaunchInv'
<1>1. UNCHANGED <<network, manifest, signerIsAdmin, batches, deployed, env, run, donations>>
      /\ donations \in Nat /\ chain \in Chains /\ chain.bal \in [Address -> Int]
  BY DEF Stake, LaunchInv, FilesInv, ChainInv, Chains
<1>2. PICK a \in Holders : chain' = [Transfer(chain, a, StakingPool) EXCEPT !.locked = @ + 1]
  BY DEF Stake
<1>3. a \in Address /\ chain.distributed /\ StakingPool \in Address
  BY HolderApart, AddressAssumption
<1> DEFINE moved == Transfer(chain, a, StakingPool)
<1>4. /\ moved \in Chains
      /\ moved.distributed = chain.distributed /\ moved.allocations = chain.allocations
      /\ moved.triggered = chain.triggered /\ moved.declared = chain.declared /\ moved.grant = chain.grant
      /\ \A x \in Address \ {a, StakingPool} : moved.bal[x] = chain.bal[x]
  <2>1. Moves(chain, a, StakingPool, moved)
    BY <1>1, <1>3, TransferMoves
  <2> QED BY <2>1 DEF Moves
<1>5. chain' = [moved EXCEPT !.locked = @ + 1]
  BY <1>2
<1> HIDE DEF moved
<1>6. /\ chain' \in Chains
      /\ chain'.distributed = moved.distributed /\ chain'.allocations = moved.allocations
      /\ chain'.triggered = moved.triggered /\ chain'.declared = moved.declared /\ chain'.grant = moved.grant
      /\ chain'.bal = moved.bal
  BY <1>4, <1>5 DEF Chains
<1>7. ASSUME manifest # NoManifest, NEW l \in VaultLabels
      PROVE  chain'.bal[manifest.dest[l]] \in
                 chain.bal[manifest.dest[l]]..(chain.bal[manifest.dest[l]] + (donations' - donations))
  <2>1. a # manifest.dest[l] /\ manifest.dest[l] \in Address /\ manifest.dest[l] # StakingPool
    BY <1>7, HolderApart
  <2>2. donations' - donations = 0 /\ chain.bal[manifest.dest[l]] \in Int
    BY <1>1, <2>1
  <2> QED BY <1>4, <1>6, <2>1, <2>2
<1>8. donations' \in Nat /\ donations <= donations'
  BY <1>1
<1> QED BY <1>1, <1>3, <1>4, <1>6, <1>7, <1>8, HoldersKeep

\* Nothing happens.
LEMMA NothingKeeps ==
  ASSUME LaunchInv, UNCHANGED vars
  PROVE  LaunchInv'
<1>1. UNCHANGED <<network, manifest, signerIsAdmin, chain, batches, deployed, donations, run>> /\ env' \in EnvFiles
  BY DEF vars, LaunchInv, FilesInv
<1>2. RunInv'
  BY <1>1, RunKept DEF LaunchInv
<1> QED BY <1>1, <1>2, QuietStep

\* Every step keeps the invariant.
LEMMA LaunchStep ==
  ASSUME LaunchInv, [Next]_vars
  PROVE  LaunchInv'
BY DeployVestingKeeps, EditKeeps, StartKeeps, PreflightKeeps, SendKeeps, QueueKeeps, ReadStakingKeeps,
   RegisterKeeps, ExecuteKeeps, DonateKeeps, StakeKeeps, NothingKeeps DEF Next

-----------------------------------------------------------------------------
\* Whatever .env says by the time, whichever run stopped and whichever batch the
\* Safe executes late or twice: only a list that agrees with the signed manifest,
\* one address for each row, is ever paid out, and on a real network only to
\* contracts, each vault paying its named beneficiary.
THEOREM DistributionsChecked == Spec => []CheckedDistribution
<1>1. Init => LaunchInv
  BY LaunchInit
<1>2. LaunchInv /\ [Next]_vars => LaunchInv'
  BY LaunchStep
<1>3. LaunchInv => CheckedDistribution
  BY DEF LaunchInv, ChainInv, Paid, Checked, CheckedDistribution
<1> QED BY <1>1, <1>2, <1>3, PTL DEF Spec

\* Through the Safe nobody ever sees the tokens distributed and the clock of a
\* vault not started.
THEOREM LaunchesInOneTransaction == Spec => []OneTransaction
<1>1. Init => LaunchInv
  BY LaunchInit
<1>2. LaunchInv /\ [Next]_vars => LaunchInv'
  BY LaunchStep
<1>3. LaunchInv => OneTransaction
  BY DEF LaunchInv, ChainInv, Started, OneTransaction
<1> QED BY <1>1, <1>2, <1>3, PTL DEF Spec

\* A vault whose clock runs has granted its row's amount, whatever was sent to it
\* by mistake; at most one without a declaration granted what it held.
THEOREM GrantsExact == Spec => []GrantExact
<1>1. Init => LaunchInv
  BY LaunchInit
<1>2. LaunchInv /\ [Next]_vars => LaunchInv'
  BY LaunchStep
<1>3. LaunchInv => GrantExact
  BY DEF LaunchInv, ChainInv, Grants, Exact, GrantExact
<1> QED BY <1>1, <1>2, <1>3, PTL DEF Spec

-----------------------------------------------------------------------------
(***************************************************************************)
(* What a successful run leaves behind.  All balances are known as long as  *)
(* no user has moved a token.                                              *)
(***************************************************************************)
\* The functions that a list of calls names.
Kinds(s) == {s[i].fn : i \in 1..Len(s)}

\* Calls put one after another.
LEMMA KindsJoin ==
  ASSUME NEW p \in Seq(Calls), NEW q \in Seq(Calls)
  PROVE  Kinds(p \o q) = Kinds(p) \cup Kinds(q)
<1> DEFINE s == p \o q
<1>1. /\ Len(p) \in Nat /\ Len(q) \in Nat /\ Len(s) = Len(p) + Len(q)
      /\ \A i \in 1..Len(p) : s[i] = p[i]
      /\ \A i \in 1..Len(q) : s[Len(p) + i] = q[i]
  OBVIOUS
<1> HIDE DEF s
<1>2. ASSUME NEW i \in 1..Len(s) PROVE s[i].fn \in Kinds(p) \cup Kinds(q)
  <2>1. CASE i <= Len(p)
    <3>1. i \in 1..Len(p)
      BY <1>1, <2>1
    <3> QED BY <1>1, <3>1 DEF Kinds
  <2>2. CASE i > Len(p)
    <3> DEFINE j == i - Len(p)
    <3>1. j \in 1..Len(q) /\ Len(p) + j = i
      BY <1>1, <2>2
    <3> HIDE DEF j
    <3>2. s[i] = q[j]
      BY <1>1, <3>1
    <3> QED BY <3>1, <3>2 DEF Kinds
  <2> QED BY <1>1, <2>1, <2>2
<1>3. ASSUME NEW i \in 1..Len(p) PROVE p[i].fn \in Kinds(s)
  <2>1. i \in 1..Len(s)
    BY <1>1
  <2> QED BY <1>1, <2>1 DEF Kinds
<1>4. ASSUME NEW i \in 1..Len(q) PROVE q[i].fn \in Kinds(s)
  <2> DEFINE j == Len(p) + i
  <2>1. j \in 1..Len(s) /\ s[j] = q[i]
    BY <1>1
  <2> HIDE DEF j
  <2> QED BY <2>1 DEF Kinds
<1>5. Kinds(s) \subseteq Kinds(p) \cup Kinds(q)
  BY <1>2 DEF Kinds
<1>6. Kinds(p) \subseteq Kinds(s) /\ Kinds(q) \subseteq Kinds(s)
  <2> DEFINE K == Kinds(s)
  <2> HIDE DEF K
  <2>1. \A i \in 1..Len(p) : p[i].fn \in K
    BY <1>3 DEF K
  <2>2. \A i \in 1..Len(q) : q[i].fn \in K
    BY <1>4 DEF K
  <2>3. Kinds(p) \subseteq K /\ Kinds(q) \subseteq K
    BY <2>1, <2>2 DEF Kinds
  <2> QED BY <2>3 DEF K
<1> QED BY <1>5, <1>6 DEF s

\* What has not been done on the chain c is still to be sent.
Covers(todo, list, c) ==
    /\ c.genesis \/ "genesis" \in Kinds(todo)
    /\ c.distributed \/ "distribute" \in Kinds(todo)
    /\ \A l \in VaultLabels :
           list[l] \in c.triggered \/ \E i \in 1..Len(todo) : todo[i].fn = "triggerTGE" /\ todo[i].at = list[l]

\* A snapshot leaves to do what it has not seen done, and registers nothing.
LEMMA PhaseACovers ==
  ASSUME NEW r, Checked(r.list), r.triggered \subseteq chain.triggered,
         r.genesisDone \in BOOLEAN, r.distributedDone \in BOOLEAN,
         r.genesisDone => chain.genesis, r.distributedDone => chain.distributed
  PROVE  Covers(PhaseA(r), r.list, chain) /\ "notify" \notin Kinds(PhaseA(r))
<1> DEFINE A == Allocate(r)
           G == Genesis(r)
           D == Distribute(r)
           T == Trigger(r)
<1>1. r.list \in Lists
  BY DEF Checked
<1>2. Starts(PhaseA(r), r.list)
  BY PhaseACalls
<1>3. T \in Seq(Calls) /\ Kinds(T) \subseteq {"triggerTGE"}
  BY <1>1, TriggerCalls DEF Kinds
<1>4. G \in Seq(Calls) /\ Kinds(G) = IF r.genesisDone THEN {} ELSE {"genesis"}
  <2> DEFINE call == [fn |-> "genesis"]
  <2>1. call \in Calls /\ call.fn = "genesis"
    BY DEF Calls
  <2>2. G = IF r.genesisDone THEN <<>> ELSE <<call>>
    BY DEF Genesis
  <2> HIDE DEF call, G
  <2> QED BY <2>1, <2>2 DEF Kinds
<1>5. D \in Seq(Calls) /\ Kinds(D) = IF r.distributedDone THEN {} ELSE {"distribute"}
  <2> DEFINE call == [fn |-> "distribute"]
  <2>1. call \in Calls /\ call.fn = "distribute"
    BY DEF Calls
  <2>2. D = IF r.distributedDone THEN <<>> ELSE <<call>>
    BY DEF Distribute
  <2> HIDE DEF call, D
  <2> QED BY <2>1, <2>2 DEF Kinds
<1>6. A \in Seq(Calls) /\ Kinds(A) \subseteq {"setAllocations"}
  <2> DEFINE call == [fn |-> "setAllocations", list |-> r.list]
  <2>1. call \in Calls /\ call.fn = "setAllocations"
    BY <1>1 DEF Calls
  <2>2. A = IF r.distributedDone THEN <<>> ELSE <<call>>
    BY DEF Allocate
  <2> HIDE DEF call, A
  <2> QED BY <2>1, <2>2 DEF Kinds
<1>7. PhaseA(r) = ((A \o G) \o D) \o T
  BY DEF PhaseA
<1> HIDE DEF A, G, D, T
<1>8. A \o G \in Seq(Calls) /\ (A \o G) \o D \in Seq(Calls)
  BY <1>4, <1>5, <1>6
<1>9. Kinds(PhaseA(r)) = Kinds(A) \cup Kinds(G) \cup Kinds(D) \cup Kinds(T)
  <2>1. Kinds(A \o G) = Kinds(A) \cup Kinds(G)
    BY <1>4, <1>6, KindsJoin
  <2> DEFINE s == A \o G
  <2> HIDE DEF s
  <2>2. s \in Seq(Calls) /\ Kinds(s) = Kinds(A) \cup Kinds(G)
    BY <1>8, <2>1 DEF s
  <2>3. Kinds(s \o D) = Kinds(s) \cup Kinds(D)
    BY <1>5, <2>2, KindsJoin
  <2> DEFINE u == s \o D
  <2>4. u \in Seq(Calls) /\ Kinds(u) = Kinds(s) \cup Kinds(D)
    BY <1>8, <2>3 DEF s
  <2>5. PhaseA(r) = u \o T
    BY <1>7 DEF s
  <2> HIDE DEF u
  <2>6. Kinds(u \o T) = Kinds(u) \cup Kinds(T)
    BY <1>3, <2>4, KindsJoin
  <2> QED BY <2>2, <2>4, <2>5, <2>6
<1>10. "notify" \notin Kinds(PhaseA(r))
  BY <1>3, <1>4, <1>5, <1>6, <1>9
<1>11. /\ chain.genesis \/ "genesis" \in Kinds(PhaseA(r))
       /\ chain.distributed \/ "distribute" \in Kinds(PhaseA(r))
  BY <1>4, <1>5, <1>9
<1> QED BY <1>2, <1>10, <1>11 DEF Covers, Starts

\* Every balance, and the pool, while no user has moved a token.
Ledger(c) ==
    /\ ~c.genesis => ~c.distributed /\ \A a \in Address : c.bal[a] = 0
    /\ c.genesis /\ ~c.distributed => \A a \in Address : c.bal[a] = IF a = Distributor THEN MAX_SUPPLY ELSE 0
    /\ c.distributed => c.genesis /\ \A a \in Address : c.bal[a] = Sent(manifest.dest, a)
    /\ c.rewardPool \in {0, Amount["Staking"]}

\* The pool is registered with the amount that the list sends to the contract.
Registers(call, c) ==
    call.fn = "notify" => /\ call.amount = Amount["Staking"] /\ c.distributed
                          /\ manifest.dest \in Lists /\ manifest.dest["Staking"] = StakingPool
                          /\ \A l, k \in Labels : manifest.dest[l] = manifest.dest[k] => l = k

\* What one call does to the balances and the pool.
LEMMA CallLedger ==
  ASSUME NEW c \in Chains, NEW call \in Calls, ~Reverts(c, call), c.locked = 0, Ledger(c),
         call.fn = "distribute" => c.allocations = manifest.dest,
         Registers(call, c)
  PROVE  Ledger(Effect(c, call)) /\ (c.rewardPool = Amount["Staking"] => Effect(c, call).rewardPool = Amount["Staking"])
<1> DEFINE d == Effect(c, call)
<1>1. /\ d \in Chains
      /\ d.genesis = (c.genesis \/ call.fn = "genesis")
      /\ d.distributed = (c.distributed \/ call.fn = "distribute")
      /\ call.fn \notin {"genesis", "distribute"} => d.bal = c.bal
      /\ call.fn # "notify" => d.rewardPool = c.rewardPool
  BY EffectFields
<1>2. /\ c.bal \in [Address -> Int] /\ c.genesis \in BOOLEAN /\ c.distributed \in BOOLEAN /\ c.rewardPool \in Int
      /\ MAX_SUPPLY \in Nat /\ Distributor \in Address /\ Amount["Staking"] \in Nat \ {0} /\ "Staking" \in Labels
  BY Sums, AddressAssumption, PlanAssumption DEF Chains
<1>3. ASSUME call.fn \in {"declare", "setAllocations", "triggerTGE"} PROVE Ledger(d) /\ d.rewardPool = c.rewardPool
  <2> HIDE DEF d
  <2>1. d.genesis = c.genesis /\ d.distributed = c.distributed /\ d.bal = c.bal /\ d.rewardPool = c.rewardPool
    BY <1>1, <1>2, <1>3
  <2> QED BY <2>1 DEF Ledger
<1>4. ASSUME call.fn = "genesis" PROVE Ledger(d) /\ d.rewardPool = c.rewardPool
  <2>1. ~c.genesis
    BY <1>4 DEF Reverts
  <2>2. d = [c EXCEPT !.genesis = TRUE, !.bal[Distributor] = @ + MAX_SUPPLY]
    BY <1>4, CallEffects
  <2>3. \A a \in Address : d.bal[a] = IF a = Distributor THEN c.bal[a] + MAX_SUPPLY ELSE c.bal[a]
    BY <1>2, <2>2 DEF Chains
  <2>4. \A a \in Address : c.bal[a] = 0
    BY <2>1 DEF Ledger
  <2> HIDE DEF d
  <2>5. d.genesis /\ ~d.distributed /\ d.rewardPool = c.rewardPool
    BY <1>1, <1>2, <1>4, <2>1 DEF Ledger
  <2>6. \A a \in Address : d.bal[a] = IF a = Distributor THEN MAX_SUPPLY ELSE 0
    BY <1>2, <2>3, <2>4
  <2> QED BY <2>5, <2>6 DEF Ledger
<1>5. ASSUME call.fn = "distribute" PROVE Ledger(d) /\ d.rewardPool = c.rewardPool
  <2>1. ~c.distributed /\ ~(c.bal[Distributor] < MAX_SUPPLY)
    BY <1>5 DEF Reverts
  <2>2. MAX_SUPPLY > 0
    <3>1. Amount \in [Labels -> Nat]
      BY Sums
    <3>2. IsFiniteSet(Labels)
      BY PlanRows
    <3>3. Amount["Staking"] <= MAX_SUPPLY
      BY <1>2, <3>1, <3>2, TotalBound DEF MAX_SUPPLY
    <3> QED BY <1>2, <3>3
  <2>3. c.genesis
    BY <1>2, <2>1, <2>2 DEF Ledger
  <2>4. d = [c EXCEPT !.distributed = TRUE,
                      !.bal = [a \in Address |-> @[a] + Sent(c.allocations, a)
                                                 - IF a = Distributor THEN MAX_SUPPLY ELSE 0]]
    BY <1>5, CallEffects
  <2>5. \A a \in Address : d.bal[a] = c.bal[a] + Sent(c.allocations, a) - IF a = Distributor THEN MAX_SUPPLY ELSE 0
    BY <2>4 DEF Chains
  <2> HIDE DEF d
  <2>6. \A a \in Address : c.bal[a] = IF a = Distributor THEN MAX_SUPPLY ELSE 0
    BY <2>1, <2>3 DEF Ledger
  <2>7. \A a \in Address : d.bal[a] = Sent(manifest.dest, a)
    <3> SUFFICES ASSUME NEW a \in Address PROVE d.bal[a] = Sent(manifest.dest, a)
      OBVIOUS
    <3> DEFINE paid == Sent(manifest.dest, a)
    <3>1. paid \in Nat /\ c.allocations = manifest.dest
      BY <1>5, Sums
    <3>2. d.bal[a] = c.bal[a] + paid - IF a = Distributor THEN MAX_SUPPLY ELSE 0
      BY <2>5, <3>1
    <3> HIDE DEF paid
    <3> QED BY <1>2, <2>6, <3>1, <3>2 DEF paid
  <2>8. d.genesis /\ d.distributed /\ d.rewardPool = c.rewardPool
    BY <1>1, <1>2, <1>5, <2>3
  <2> QED BY <2>7, <2>8 DEF Ledger
<1>6. ASSUME call.fn = "notify" PROVE Ledger(d) /\ d.rewardPool = Amount["Staking"]
  <2> DEFINE A == Amount["Staking"]
  <2>1. /\ call.amount = A /\ c.distributed /\ manifest.dest["Staking"] = StakingPool
        /\ manifest.dest \in Lists /\ \A l, k \in Labels : manifest.dest[l] = manifest.dest[k] => l = k
    BY <1>6 DEF Registers
  <2>2. Sent(manifest.dest, manifest.dest["Staking"]) = A
    <3> DEFINE list == manifest.dest
               l == "Staking"
    <3>1. list \in Lists /\ (\A i, k \in Labels : list[i] = list[k] => i = k) /\ l \in Labels
      BY <1>2, <2>1
    <3> HIDE DEF list, l
    <3>2. Sent(list, list[l]) = Amount[l]
      BY <3>1, SentExact
    <3> QED BY <3>2 DEF list, l
  <2>3. c.bal[StakingPool] = A /\ c.genesis
    <3>1. StakingPool \in Address
      BY AddressAssumption
    <3> QED BY <2>1, <2>2, <3>1 DEF Ledger
  <2>4. ~(call.amount > c.bal[StakingPool] - (c.locked + c.rewardPool))
    BY <1>6 DEF Reverts
  <2>5. c.rewardPool \in {0, A} /\ A \in Nat \ {0}
    BY <1>2 DEF Ledger
  <2> HIDE DEF A
  <2>6. c.rewardPool = 0
    BY <1>2, <2>1, <2>3, <2>4, <2>5
  <2>7. d = [c EXCEPT !.rewardPool = @ + call.amount]
    BY <1>6, CallEffects
  <2>8. d.rewardPool = A
    BY <1>2, <2>1, <2>5, <2>6, <2>7 DEF Chains
  <2> HIDE DEF d
  <2>9. d.genesis = c.genesis /\ d.distributed = c.distributed /\ d.bal = c.bal
    BY <1>1, <1>2, <1>6
  <2> QED BY <2>8, <2>9 DEF Ledger, A
<1> HIDE DEF d
<1>7. Ledger(d) /\ (c.rewardPool = Amount["Staking"] => d.rewardPool = Amount["Staking"])
  BY <1>3, <1>4, <1>5, <1>6, CallKinds
<1> QED BY <1>7 DEF d

\* What has been done stays done.
Grows(c, d) ==
    (c.genesis => d.genesis) /\ (c.distributed => d.distributed) /\ c.triggered \subseteq d.triggered

\* One call does not undo another, and starts no stake.
LEMMA CallGrows ==
  ASSUME NEW c \in Chains, NEW call \in Calls
  PROVE  Grows(c, Effect(c, call)) /\ Effect(c, call).locked = c.locked
<1> DEFINE d == Effect(c, call)
<1>1. /\ d.genesis = (c.genesis \/ call.fn = "genesis")
      /\ d.distributed = (c.distributed \/ call.fn = "distribute")
      /\ d.triggered = IF call.fn = "triggerTGE" THEN c.triggered \cup {call.at} ELSE c.triggered
      /\ d.locked = c.locked
  BY EffectFields
<1> HIDE DEF d
<1>2. Grows(c, d) /\ d.locked = c.locked
  BY <1>1 DEF Grows
<1> QED BY <1>2 DEF d

\* Nor does a batch.
LEMMA BatchLedger ==
  ASSUME chain \in Chains, NEW b \in Seq(Calls), NEW d \in Chains, Lawful(b, chain, d)
  PROVE  /\ Grows(chain, d) /\ d.locked = chain.locked
         /\ manifest # NoManifest /\ chain.locked = 0 /\ Ledger(chain) /\ (\A i \in 1..Len(b) : Registers(b[i], chain))
                => Ledger(d) /\ (chain.rewardPool = Amount["Staking"] => d.rewardPool = Amount["Staking"])
<1> DEFINE n == Len(b)
           A == Amount["Staking"]
           Ready == manifest # NoManifest /\ chain.locked = 0 /\ Ledger(chain) /\ \A i \in 1..Len(b) : Registers(b[i], chain)
<1>1. n \in Nat /\ \A i \in 1..n : b[i] \in Calls
  OBVIOUS
<1>2. PICK t : /\ Trace(t, b, chain, d)
               /\ \A i \in 1..n : b[i].fn = "distribute" => Checked(t[i - 1].allocations)
  BY DEF Lawful
<1>3. /\ t \in [0..n -> Chains] /\ t[0] = chain /\ t[n] = d
      /\ \A i \in 1..n : ~Reverts(t[i - 1], b[i]) /\ t[i] = Effect(t[i - 1], b[i])
  BY <1>2 DEF Trace
<1> DEFINE Goes(c) == Grows(chain, c) /\ c.locked = chain.locked
           Fine(c) == Ready => Ledger(c) /\ (chain.rewardPool = A => c.rewardPool = A)
           T == {i \in 0..n : Goes(t[i]) /\ Fine(t[i])}
<1>4. 0 \in T
  <2> HIDE DEF n
  <2>1. Goes(chain) /\ Fine(chain)
    BY DEF Grows
  <2> HIDE DEF Goes, Fine
  <2> QED BY <1>1, <1>3, <2>1
<1>5. ASSUME NEW i \in 1..n, i - 1 \in T PROVE i \in T
  <2> DEFINE c == t[i - 1]
             e == t[i]
             call == b[i]
  <2>1. Goes(c) /\ Fine(c)
    <3> HIDE DEF Goes, Fine, n
    <3> QED BY <1>5
  <2>2. /\ c \in Chains /\ call \in Calls /\ ~Reverts(c, call) /\ e = Effect(c, call) /\ i \in 0..n
    BY <1>1, <1>3
  <2>3. call.fn = "distribute" => Checked(c.allocations)
    BY <1>2
  <2>4. Ready => Registers(call, chain)
    OBVIOUS
  <2> HIDE DEF c, e, call, Ready
  <2>5. Grows(c, e) /\ e.locked = c.locked
    BY <2>2, CallGrows
  <2>6. Goes(e)
    BY <2>1, <2>5 DEF Grows
  <2>7. ASSUME Ready PROVE Ledger(e) /\ (chain.rewardPool = A => e.rewardPool = A)
    <3>1. manifest # NoManifest /\ c.locked = 0 /\ Ledger(c)
      BY <2>1, <2>7 DEF Ready
    <3>2. Registers(call, c)
      BY <2>1, <2>4, <2>7 DEF Registers, Grows
    <3>3. call.fn = "distribute" => c.allocations = manifest.dest
      BY <2>3, <3>1 DEF Checked
    <3>4. Ledger(e) /\ (c.rewardPool = Amount["Staking"] => e.rewardPool = Amount["Staking"])
      BY <2>2, <3>1, <3>2, <3>3, CallLedger
    <3> QED BY <2>1, <2>7, <3>4
  <2>8. Fine(e)
    BY <2>7
  <2> HIDE DEF Goes, Fine, n
  <2> QED BY <2>2, <2>6, <2>8 DEF e
<1>6. n \in T
  <2>1. 0..n \subseteq T
    <3> HIDE DEF T, n
    <3> QED BY <1>1, <1>4, <1>5, Steps
  <2>2. n \in 0..n
    BY <1>1
  <2> HIDE DEF T, n
  <2> QED BY <2>1, <2>2
<1>7. Goes(d) /\ Fine(d)
  <2> HIDE DEF Goes, Fine, n
  <2> QED BY <1>3, <1>6
<1> QED BY <1>7

\* What is left to send after more has been done.
LEMMA CoversOn ==
  ASSUME NEW todo, NEW list, NEW c, NEW d, Covers(todo, list, c), Grows(c, d)
  PROVE  Covers(todo, list, d)
BY DEF Covers, Grows

\* What is left to send after the first call was sent.
LEMMA CoversNext ==
  ASSUME NEW todo \in Seq(Calls), todo # <<>>, NEW list, NEW c \in Chains, Covers(todo, list, c)
  PROVE  /\ Covers(Tail(todo), list, Effect(c, todo[1]))
         /\ Kinds(Tail(todo)) \subseteq Kinds(todo)
<1> DEFINE n == Len(todo)
           u == Tail(todo)
           call == todo[1]
           d == Effect(c, call)
<1>1. /\ n \in Nat /\ n >= 1 /\ u \in Seq(Calls) /\ Len(u) = n - 1 /\ \A i \in 1..(n - 1) : u[i] = todo[i + 1]
      /\ call \in Calls
  OBVIOUS
<1>2. /\ Grows(c, d)
      /\ d.genesis = (c.genesis \/ call.fn = "genesis")
      /\ d.distributed = (c.distributed \/ call.fn = "distribute")
      /\ d.triggered = IF call.fn = "triggerTGE" THEN c.triggered \cup {call.at} ELSE c.triggered
  <2> HIDE DEF call
  <2> QED BY <1>1, CallGrows, EffectFields
<1> HIDE DEF d, u, n
<1>3. ASSUME NEW i \in 1..n PROVE i = 1 \/ \E j \in 1..Len(u) : u[j] = todo[i]
  <2>1. CASE i # 1
    <3> DEFINE j == i - 1
    <3>1. j \in 1..(n - 1) /\ j + 1 = i
      BY <1>1, <2>1
    <3> HIDE DEF j
    <3> QED BY <1>1, <3>1
  <2> QED BY <2>1
<1>4. Kinds(todo) \subseteq Kinds(u) \cup {call.fn}
  BY <1>3 DEF Kinds, n
<1>5. Kinds(u) \subseteq Kinds(todo)
  <2>1. ASSUME NEW i \in 1..Len(u) PROVE u[i].fn \in Kinds(todo)
    <3> DEFINE j == i + 1
    <3>1. j \in 1..n /\ u[i] = todo[j]
      BY <1>1
    <3> HIDE DEF j
    <3> QED BY <3>1 DEF Kinds, n
  <2> QED BY <2>1 DEF Kinds
<1>6. /\ d.genesis \/ "genesis" \in Kinds(u)
      /\ d.distributed \/ "distribute" \in Kinds(u)
  BY <1>2, <1>4 DEF Covers
<1>7. ASSUME NEW l \in VaultLabels
      PROVE  list[l] \in d.triggered \/ \E i \in 1..Len(u) : u[i].fn = "triggerTGE" /\ u[i].at = list[l]
  <2>1. CASE list[l] \in c.triggered
    BY <1>2, <2>1 DEF Grows
  <2>2. CASE list[l] \notin c.triggered
    <3>1. PICK i \in 1..n : todo[i].fn = "triggerTGE" /\ todo[i].at = list[l]
      BY <2>2 DEF Covers, n
    <3>2. CASE i = 1
      BY <1>2, <3>1, <3>2
    <3>3. CASE i # 1
      BY <1>3, <3>1, <3>3
    <3> QED BY <3>2, <3>3
  <2> QED BY <2>1, <2>2
<1>8. Covers(u, list, d)
  BY <1>6, <1>7 DEF Covers
<1> QED BY <1>5, <1>8 DEF u, d

\* No user has moved a token, and there is a signed manifest.
Quiet == manifest # NoManifest /\ donations = 0 /\ chain.locked = 0

LedgerInv == Quiet => Ledger(chain)
NotifyInv == Quiet => \A b \in batches : \A i \in 1..Len(b) : Registers(b[i], chain)
DoneInv ==
    /\ run.at \in {"confirm", "send"} => /\ "notify" \notin Kinds(run.todo)
                                         /\ signerIsAdmin => Covers(run.todo, run.list, chain)
    /\ run.at \in {"balanceOf", "rewardPool", "success"} => Covers(<<>>, run.list, chain)
PoolInv ==
    /\ Quiet /\ run.at = "rewardPool" => run.amount = Amount["Staking"]
    /\ Quiet /\ run.at = "success" => chain.rewardPool = Amount["Staking"]
QuietInv == LedgerInv /\ NotifyInv /\ DoneInv /\ PoolInv

\* Nothing is done, and nothing is left to do.
LEMMA QuietInit == Init => QuietInv
<1> SUFFICES ASSUME Init PROVE QuietInv
  OBVIOUS
<1>1. Ledger(chain)
  BY DEF Init, Ledger
<1>2. batches = {} /\ run.at = "none"
  BY DEF Init, NoRun
<1> QED BY <1>1, <1>2 DEF QuietInv, LedgerInv, NotifyInv, DoneInv, PoolInv

\* The chain moves on while the run waits.
LEMMA WaitQuiet ==
  ASSUME QuietInv, UNCHANGED <<network, manifest, signerIsAdmin, run, batches>>, Grows(chain, chain'),
         Quiet' => Quiet /\ Ledger(chain')
                   /\ (chain.rewardPool = Amount["Staking"] => chain'.rewardPool = Amount["Staking"])
  PROVE  QuietInv'
<1>1. LedgerInv'
  BY DEF LedgerInv, Ledger
<1>2. NotifyInv'
  BY DEF QuietInv, NotifyInv, Registers, Grows
<1>3. DoneInv'
  BY DEF QuietInv, DoneInv, Covers, Grows
<1>4. PoolInv'
  BY DEF QuietInv, PoolInv
<1> QED BY <1>1, <1>2, <1>3, <1>4 DEF QuietInv

\* The run moves on while the chain waits.
LEMMA RunQuiet ==
  ASSUME QuietInv, UNCHANGED <<network, manifest, signerIsAdmin, chain, donations>>, NotifyInv',
         DoneInv', PoolInv'
  PROVE  QuietInv'
<1>1. LedgerInv'
  BY DEF QuietInv, LedgerInv, Ledger, Quiet
<1> QED BY <1>1 DEF QuietInv

\* Batches that stay as they are.
LEMMA NotifyKept ==
  ASSUME NotifyInv, UNCHANGED <<manifest, chain, donations, batches>>
  PROVE  NotifyInv'
BY DEF NotifyInv, Quiet, Registers

\* A run at a step at which nothing is said of it.
LEMMA RunFree ==
  ASSUME run'.at \notin {"confirm", "send", "balanceOf", "rewardPool", "success"}
  PROVE  DoneInv' /\ PoolInv'
BY DEF DoneInv, PoolInv

\* A step that leaves the chain, and the batches, alone and takes the run where
\* nothing is said of it.
LEMMA FreeStep ==
  ASSUME QuietInv, UNCHANGED <<network, manifest, signerIsAdmin, chain, donations, batches>>,
         run'.at \notin {"confirm", "send", "balanceOf", "rewardPool", "success"}
  PROVE  QuietInv'
BY NotifyKept, RunFree, RunQuiet DEF QuietInv

\* 03.
LEMMA DeployQuiet ==
  ASSUME LaunchInv, QuietInv, DeployVesting
  PROVE  QuietInv' /\ Grows(chain, chain')
<1>1. UNCHANGED <<network, manifest, signerIsAdmin, run, donations>>
  BY DEF DeployVesting
<1> DEFINE v == VestingBatch(DeployedVaults)
<1>2. v \in Seq(Calls) /\ Well(v) /\ \A i \in 1..Len(v) : v[i].fn \in {"declare", "setAllocations"}
  BY VestingCalls, VestingWell
<1>3. \A i \in 1..Len(v) : v[i].fn # "notify"
  BY <1>2
<1>4. PICK b : b = v
  OBVIOUS
<1> HIDE DEF v
<1>5. b \in Seq(Calls) /\ Well(b) /\ \A i \in 1..Len(b) : b[i].fn # "notify"
  BY <1>2, <1>3, <1>4
<1>6. CASE signerIsAdmin
  <2>1. chain' \in Execute(b, chain) /\ batches' = batches
    BY <1>4, <1>6 DEF DeployVesting, v
  <2> DEFINE d == chain'
             m == donations
  <2>2. m \in Nat /\ Paid(chain) /\ Grants(chain, m) /\ chain \in Chains /\ d \in Execute(b, chain)
    BY <2>1 DEF LaunchInv, FilesInv, ChainInv
  <2> HIDE DEF d, m
  <2>3. d \in Chains /\ Lawful(b, chain, d)
    BY <1>5, <2>2, BatchKeeps
  <2>4. \A i \in 1..Len(b) : Registers(b[i], chain)
    BY <1>5 DEF Registers
  <2>5. /\ Grows(chain, d) /\ d.locked = chain.locked
        /\ manifest # NoManifest /\ chain.locked = 0 /\ Ledger(chain)
                => Ledger(d) /\ (chain.rewardPool = Amount["Staking"] => d.rewardPool = Amount["Staking"])
    BY <1>5, <2>2, <2>3, <2>4, BatchLedger
  <2>6. Quiet' => Quiet
    BY <1>1, <2>5 DEF Quiet, d
  <2>7. Quiet => Ledger(chain) /\ manifest # NoManifest /\ chain.locked = 0
    BY DEF QuietInv, LedgerInv, Quiet
  <2>8. Quiet' => Quiet /\ Ledger(d)
                   /\ (chain.rewardPool = Amount["Staking"] => d.rewardPool = Amount["Staking"])
    BY <2>5, <2>6, <2>7
  <2> QED BY <1>1, <2>1, <2>5, <2>8, WaitQuiet DEF d
<1>7. CASE ~signerIsAdmin
  <2>1. batches' = batches \cup {b} /\ chain' = chain
    BY <1>4, <1>7 DEF DeployVesting, Flush, v
  <2>2. NotifyInv'
    <3>1. \A i \in 1..Len(b) : Registers(b[i], chain)'
      BY <1>5 DEF Registers
    <3>2. Quiet' => Quiet
      BY <1>1, <2>1 DEF Quiet
    <3>3. \A x \in batches : Quiet => \A i \in 1..Len(x) : Registers(x[i], chain)'
      BY <1>1, <2>1 DEF QuietInv, NotifyInv, Registers
    <3> QED BY <2>1, <3>1, <3>2, <3>3 DEF NotifyInv
  <2>3. DoneInv' /\ PoolInv'
    BY <1>1, <2>1 DEF QuietInv, DoneInv, PoolInv, Quiet, Covers
  <2>4. Grows(chain, chain')
    BY <2>1 DEF Grows
  <2> QED BY <1>1, <2>1, <2>2, <2>3, <2>4, RunQuiet
<1> QED BY <1>6, <1>7

\* .env, the stop and the start of a run.
LEMMA StartQuiet ==
  ASSUME QuietInv, EditEnv \/ StopRun \/ StartRun
  PROVE  QuietInv'
<1>1. UNCHANGED <<network, manifest, signerIsAdmin, chain, donations, batches>>
  BY DEF EditEnv, StopRun, StartRun
<1>2. run'.at \in {"none", "genesisComplete"}
  BY DEF EditEnv, StopRun, StartRun, NoRun
<1> QED BY <1>1, <1>2, FreeStep

\* What the run knows of the chain is still true when it has read it all.
SeenInv ==
    /\ run.at \in {"distributed", "tgeTriggered"} => (run.genesisDone => chain.genesis)
    /\ run.at = "tgeTriggered" => (run.distributedDone => chain.distributed)

\* What has been seen done stays done.
LEMMA SeenKept ==
  ASSUME LaunchInv, SeenInv, [Next]_vars, Grows(chain, chain')
  PROVE  SeenInv'
<1>1. CASE run' = run
  BY <1>1 DEF SeenInv, Grows
<1>2. CASE run'.at \notin {"distributed", "tgeTriggered"}
  BY <1>2 DEF SeenInv
<1>3. CASE ReadGenesis /\ chain' = chain
  <2>1. run' = [at |-> "distributed", list |-> run.list, genesisDone |-> chain.genesis]
    BY <1>3 DEF ReadGenesis
  <2> QED BY <1>3, <2>1 DEF SeenInv
<1>4. CASE ReadDistributed /\ chain' = chain
  <2>1. /\ run' = [at |-> "tgeTriggered", list |-> run.list, genesisDone |-> run.genesisDone,
                   distributedDone |-> chain.distributed]
        /\ run.at = "distributed"
    BY <1>4 DEF ReadDistributed
  <2> QED BY <1>4, <2>1 DEF SeenInv
<1>5. run' = run \/ run'.at \notin {"distributed", "tgeTriggered"}
      \/ (ReadGenesis /\ chain' = chain) \/ (ReadDistributed /\ chain' = chain)
  <2>1. CASE DeployVesting \/ ExecuteBatch \/ Donate \/ Stake \/ UNCHANGED vars
    BY <2>1 DEF DeployVesting, ExecuteBatch, Donate, Stake, vars
  <2>2. CASE EditEnv \/ StartRun \/ QueuePhaseA \/ StopRun \/ ReadStakingBalance
    BY <2>2 DEF EditEnv, StartRun, QueuePhaseA, StopRun, ReadStakingBalance, NoRun
  <2>3. CASE Register
    BY <2>3 DEF Register, NoRun, Success
  <2>4. CASE SendDirect
    <3>1. run \in [at : {"balanceOf", "confirm", "send"}, list : Lists, todo : Seq(Calls)] /\ run.at = "send"
      BY <2>4, RunKinds DEF SendDirect, LaunchInv, RunInv
    <3>2. \/ run' = NoRun
          \/ run' = [run EXCEPT !.todo = Tail(@), !.at = IF Len(run.todo) = 1 THEN "balanceOf" ELSE @]
      BY <2>4 DEF SendDirect
    <3>3. CASE run' = NoRun
      BY <3>3 DEF NoRun
    <3>4. CASE run' = [run EXCEPT !.todo = Tail(@), !.at = IF Len(run.todo) = 1 THEN "balanceOf" ELSE @]
      <4>1. run'.at \in {"balanceOf", "send"}
        BY <3>1, <3>4
      <4> QED BY <4>1
    <3> QED BY <3>2, <3>3, <3>4
  <2>5. CASE Preflight
    <3>1. chain' = chain
      BY <2>5 DEF Preflight
    <3>2. CASE ReadTriggered
      BY <3>2 DEF ReadTriggered, NoRun
    <3>3. CASE Confirm
      <4>1. run \in [at : {"balanceOf", "confirm", "send"}, list : Lists, todo : Seq(Calls)]
            /\ run' = [run EXCEPT !.at = "send"]
        BY <3>3, RunKinds DEF Confirm, LaunchInv, RunInv
      <4> QED BY <4>1
    <3> QED BY <2>5, <3>1, <3>2, <3>3 DEF Preflight
  <2> QED BY <2>1, <2>2, <2>3, <2>4, <2>5 DEF Next
<1> QED BY <1>1, <1>2, <1>3, <1>4, <1>5

\* The pre-flight.
LEMMA PreflightQuiet ==
  ASSUME LaunchInv, SeenInv, QuietInv, Preflight
  PROVE  QuietInv'
<1>1. UNCHANGED <<network, manifest, signerIsAdmin, chain, donations, batches>>
  BY DEF Preflight
<1>2. NotifyInv'
  BY <1>1, NotifyKept DEF QuietInv
<1>3. CASE ReadGenesis \/ ReadDistributed
  <2>1. run'.at \in {"distributed", "tgeTriggered"}
    BY <1>3 DEF ReadGenesis, ReadDistributed
  <2> QED BY <1>1, <2>1, FreeStep
<1>4. CASE ReadTriggered
  <2> DEFINE r == [list |-> run.list, genesisDone |-> run.genesisDone,
                   distributedDone |-> run.distributedDone, triggered |-> chain.triggered]
             todo == PhaseA(r)
             at == IF todo = <<>> THEN "balanceOf" ELSE IF network = "local" THEN "send" ELSE "confirm"
  <2>1. run.at = "tgeTriggered" /\ (run' = NoRun \/ run' = [at |-> at, list |-> run.list, todo |-> todo])
    BY <1>4 DEF ReadTriggered
  <2>2. r.list = run.list /\ r.genesisDone = run.genesisDone /\ r.distributedDone = run.distributedDone
        /\ r.triggered = chain.triggered
    OBVIOUS
  <2> HIDE DEF r
  <2>3. /\ run.genesisDone \in BOOLEAN /\ run.distributedDone \in BOOLEAN /\ Checked(run.list)
        /\ run.genesisDone => chain.genesis
        /\ run.distributedDone => chain.distributed
    BY <2>1, RunKinds DEF LaunchInv, RunInv, SeenInv
  <2>4. Covers(todo, run.list, chain) /\ "notify" \notin Kinds(todo)
    BY <2>2, <2>3, PhaseACovers
  <2>5. CASE run' = NoRun
    BY <1>1, <2>5, FreeStep DEF NoRun
  <2>6. CASE run' = [at |-> at, list |-> run.list, todo |-> todo]
    <3> DEFINE list == run.list
    <3> HIDE DEF todo
    <3>1. at \in {"balanceOf", "confirm", "send"} /\ (at = "balanceOf" => todo = <<>>)
      OBVIOUS
    <3> HIDE DEF at, list
    <3>2. run' = [at |-> at, list |-> list, todo |-> todo] /\ Covers(todo, list, chain)
      BY <2>4, <2>6 DEF list
    <3>3. run'.at = at /\ run'.list = list /\ run'.todo = todo
      BY <3>2
    <3>4. DoneInv'
      BY <1>1, <2>4, <3>1, <3>2, <3>3 DEF DoneInv, Covers, Kinds
    <3>5. PoolInv'
      BY <3>1, <3>3 DEF PoolInv
    <3> QED BY <1>1, <1>2, <3>4, <3>5, RunQuiet
  <2> QED BY <2>1, <2>5, <2>6
<1>5. CASE Confirm
  <2>1. run' = [run EXCEPT !.at = "send"] /\ run.at = "confirm"
        /\ run \in [at : {"balanceOf", "confirm", "send"}, list : Lists, todo : Seq(Calls)]
    BY <1>5, RunKinds DEF Confirm, LaunchInv, RunInv
  <2>2. run'.list = run.list /\ run'.at = "send" /\ run'.todo = run.todo
    BY <2>1
  <2>3. DoneInv'
    BY <1>1, <2>1, <2>2 DEF QuietInv, DoneInv, Covers, Kinds
  <2>4. PoolInv'
    BY <2>2 DEF PoolInv
  <2> QED BY <1>1, <1>2, <2>3, <2>4, RunQuiet
<1> QED BY <1>3, <1>4, <1>5 DEF Preflight

\* The batch of the launch.
LEMMA QueueQuiet ==
  ASSUME LaunchInv, QuietInv, QueuePhaseA
  PROVE  QuietInv'
<1>1. /\ UNCHANGED <<network, manifest, signerIsAdmin, chain, donations>> /\ run' = NoRun
      /\ batches' = batches \cup {run.todo} /\ run.at = "send"
  BY DEF QueuePhaseA, Flush
<1>2. PICK b : b = run.todo
  OBVIOUS
<1>3. \A i \in 1..Len(b) : b[i].fn # "notify"
  BY <1>1, <1>2 DEF QuietInv, DoneInv, Kinds
<1>4. NotifyInv'
  <2>1. \A i \in 1..Len(b) : Registers(b[i], chain)'
    BY <1>3 DEF Registers
  <2>2. Quiet' => Quiet
    BY <1>1 DEF Quiet
  <2>3. \A x \in batches : Quiet => \A i \in 1..Len(x) : Registers(x[i], chain)'
    BY <1>1 DEF QuietInv, NotifyInv, Registers
  <2> QED BY <1>1, <1>2, <2>1, <2>2, <2>3 DEF NotifyInv
<1>5. DoneInv' /\ PoolInv'
  BY <1>1, RunFree DEF NoRun
<1> QED BY <1>1, <1>4, <1>5, RunQuiet

\* One call of the launch sent by the admin.
LEMMA SendQuiet ==
  ASSUME LaunchInv, QuietInv, SendDirect
  PROVE  QuietInv' /\ Grows(chain, chain')
<1>1. /\ UNCHANGED <<network, manifest, signerIsAdmin, batches, donations>>
      /\ signerIsAdmin /\ run.at = "send"
  BY DEF SendDirect
<1> DEFINE call == Head(run.todo)
           d == Effect(chain, call)
           todo == run.todo
<1>2. /\ run \in [at : {"balanceOf", "confirm", "send"}, list : Lists, todo : Seq(Calls)]
      /\ Checked(run.list) /\ todo \in Seq(Calls) /\ todo # <<>> /\ Going(todo, run.list, chain)
      /\ chain \in Chains
  BY <1>1, RunKinds DEF LaunchInv, RunInv, ChainInv
<1>3. Len(todo) >= 1 /\ call = todo[1] /\ call \in Calls /\ 1 \in 1..Len(todo)
  BY <1>2
<1>4. "notify" \notin Kinds(todo) /\ Covers(todo, run.list, chain)
  BY <1>1 DEF QuietInv, DoneInv
<1>5. call.fn # "notify"
  BY <1>3, <1>4 DEF Kinds
<1>6. call.fn = "distribute" => Checked(chain.allocations)
  <2> SUFFICES ASSUME call.fn = "distribute" PROVE Checked(chain.allocations)
    OBVIOUS
  <2>1. Pays(todo)
    BY <1>3 DEF Pays
  <2>2. chain.allocations = run.list
    BY <1>2, <1>3, <2>1 DEF Going
  <2> QED BY <1>2, <2>2
<1>7. CASE Reverts(chain, call)
  <2>1. run' = NoRun /\ chain' = chain
    BY <1>7 DEF SendDirect
  <2>2. QuietInv'
    BY <1>1, <2>1, FreeStep DEF NoRun
  <2> QED BY <2>1, <2>2 DEF Grows
<1>8. CASE ~Reverts(chain, call)
  <2>1. /\ chain' = d
        /\ \/ run' = NoRun
           \/ run' = [run EXCEPT !.todo = Tail(@), !.at = IF Len(run.todo) = 1 THEN "balanceOf" ELSE @]
    BY <1>8 DEF SendDirect
  <2>2. Grows(chain, d) /\ d.locked = chain.locked
    <3> HIDE DEF call
    <3> QED BY <1>2, <1>3, CallGrows
  <2>3. Quiet' => Quiet
    BY <1>1, <2>1, <2>2 DEF Quiet
  <2>4. Quiet => Ledger(d)
    <3> HIDE DEF call
    <3> SUFFICES ASSUME Quiet PROVE Ledger(d)
      OBVIOUS
    <3>1. manifest # NoManifest /\ chain.locked = 0 /\ Ledger(chain)
      BY DEF Quiet, QuietInv, LedgerInv
    <3>2. call.fn = "distribute" => chain.allocations = manifest.dest
      BY <1>6, <3>1 DEF Checked
    <3>3. Registers(call, chain)
      BY <1>5 DEF Registers
    <3> QED BY <1>2, <1>3, <1>8, <3>1, <3>2, <3>3, CallLedger
  <2> HIDE DEF d
  <2>5. LedgerInv'
    BY <1>1, <2>1, <2>3, <2>4 DEF LedgerInv, Ledger
  <2>6. NotifyInv'
    BY <1>1, <2>1, <2>2, <2>3 DEF QuietInv, NotifyInv, Registers, Grows
  <2>7. CASE run' = NoRun
    <3>1. run'.at = "none"
      BY <2>7 DEF NoRun
    <3>2. DoneInv' /\ PoolInv'
      BY <3>1, RunFree
    <3> QED BY <2>1, <2>2, <2>5, <2>6, <3>2 DEF QuietInv
  <2>8. CASE run' = [run EXCEPT !.todo = Tail(@), !.at = IF Len(run.todo) = 1 THEN "balanceOf" ELSE @]
    <3>1. /\ run'.list = run.list /\ run'.todo = Tail(todo)
          /\ run'.at = IF Len(todo) = 1 THEN "balanceOf" ELSE "send"
      BY <1>1, <1>2, <2>8
    <3>2. PICK t, list, c, e : t = todo /\ list = run.list /\ c = chain /\ e = chain'
      OBVIOUS
    <3>3. t \in Seq(Calls) /\ t # <<>> /\ c \in Chains /\ e = Effect(c, t[1])
      BY <1>2, <1>3, <2>1, <3>2 DEF d
    <3> HIDE DEF todo
    <3>4. Covers(t, list, c) /\ "notify" \notin Kinds(t)
      BY <1>4, <3>2
    <3>5. Covers(Tail(t), list, e) /\ "notify" \notin Kinds(Tail(t))
      BY <3>3, <3>4, CoversNext
    <3>6. run'.todo = Tail(t) /\ run'.list = list
      BY <3>1, <3>2
    <3>7. CASE Len(t) = 1
      <4>1. Tail(t) \in Seq(Calls) /\ Len(Tail(t)) = 0
        BY <3>3, <3>7
      <4> DEFINE u == Tail(t)
      <4> HIDE DEF u
      <4>8. u \in Seq(Calls) /\ Len(u) = 0
        BY <4>1 DEF u
      <4>9. u = <<>>
        BY <4>8
      <4>2. run'.at = "balanceOf"
        BY <3>1, <3>2, <3>7
      <4>3. DoneInv'
        BY <3>2, <3>5, <3>6, <4>9, <4>2 DEF DoneInv, u
      <4>4. PoolInv'
        BY <4>2 DEF PoolInv
      <4> QED BY <2>1, <2>2, <2>5, <2>6, <4>3, <4>4 DEF QuietInv
    <3>8. CASE Len(t) # 1
      <4>1. run'.at = "send"
        BY <3>1, <3>2, <3>8
      <4>2. DoneInv'
        BY <3>2, <3>5, <3>6, <4>1 DEF DoneInv, Covers, Kinds
      <4>3. PoolInv'
        BY <4>1 DEF PoolInv
      <4> QED BY <2>1, <2>2, <2>5, <2>6, <4>2, <4>3 DEF QuietInv
    <3> QED BY <3>7, <3>8
  <2> QED BY <2>1, <2>7, <2>8
<1> QED BY <1>7, <1>8

\* What the staking contract holds after the distribution.
LEMMA StakingHolds ==
  ASSUME LaunchInv, Quiet, Ledger(chain), chain.distributed, NEW list, Checked(list)
  PROVE  chain.bal[list["Staking"]] = Amount["Staking"] /\ Amount["Staking"] \in Nat \ {0}
<1> DEFINE l == "Staking"
<1>1. l \in Labels
  BY PlanAssumption
<1>2. /\ list \in Lists /\ list = manifest.dest /\ \A i, k \in Labels : list[i] = list[k] => i = k
  BY DEF Quiet, Checked
<1> HIDE DEF l
<1>3. Sent(list, list[l]) = Amount[l] /\ list[l] \in Address
  BY <1>1, <1>2, SentExact DEF Lists
<1>4. chain.bal[list[l]] = Sent(manifest.dest, list[l])
  BY <1>3 DEF Ledger
<1>5. Amount[l] \in Nat \ {0}
  BY <1>1, Sums
<1> QED BY <1>2, <1>3, <1>4, <1>5 DEF l

\* Step 4 reads the balance.
LEMMA ReadStakingQuiet ==
  ASSUME LaunchInv, QuietInv, ReadStakingBalance
  PROVE  QuietInv'
<1>1. UNCHANGED <<network, manifest, signerIsAdmin, chain, batches, donations>> /\ run.at = "balanceOf"
  BY DEF ReadStakingBalance
<1> DEFINE list == run.list
           held == chain.bal[run.list["Staking"]]
<1>2. Checked(list) /\ Covers(<<>>, list, chain)
  BY <1>1, RunKinds DEF LaunchInv, RunInv, QuietInv, DoneInv
<1>3. chain.distributed
  BY <1>2 DEF Covers, Kinds
<1>4. Quiet => held = Amount["Staking"]
  BY <1>2, <1>3, StakingHolds DEF QuietInv, LedgerInv
<1>5. run' = [at |-> "rewardPool", list |-> list, amount |-> held]
  BY DEF ReadStakingBalance
<1> HIDE DEF list, held
<1>6. run'.list = list /\ run'.at = "rewardPool" /\ run'.amount = held
  BY <1>5
<1>7. DoneInv'
  BY <1>1, <1>2, <1>6 DEF DoneInv, Covers, Kinds
<1>8. PoolInv'
  BY <1>1, <1>4, <1>6 DEF PoolInv, Quiet
<1>9. NotifyInv'
  BY <1>1, NotifyKept DEF QuietInv
<1> QED BY <1>1, <1>7, <1>8, <1>9, RunQuiet

\* Step 4 registers the pool.
LEMMA RegisterQuiet ==
  ASSUME LaunchInv, QuietInv, Register
  PROVE  QuietInv' /\ Grows(chain, chain')
<1>1. /\ UNCHANGED <<network, manifest, signerIsAdmin, donations>> /\ run.at = "rewardPool"
  BY DEF Register
<1> DEFINE call == [fn |-> "notify", amount |-> run.amount]
           d == Effect(chain, call)
           A == Amount["Staking"]
           list == run.list
           amount == run.amount
<1>2. /\ Checked(list) /\ list \in Lists /\ amount \in Int /\ chain \in Chains
  BY <1>1, RunKinds DEF LaunchInv, RunInv, ChainInv, Checked
<1>3. call \in Calls /\ call.fn = "notify" /\ call.amount = amount
  BY <1>2 DEF Calls
<1>4. Covers(<<>>, list, chain)
  BY <1>1 DEF QuietInv, DoneInv
<1>5. chain.distributed
  BY <1>4 DEF Covers, Kinds
<1>6. Quiet => /\ Ledger(chain) /\ amount = A /\ A \in Nat \ {0} /\ chain.rewardPool \in {0, A}
  BY <1>1, <1>2, <1>5, StakingHolds DEF QuietInv, LedgerInv, PoolInv, Ledger
<1>7. ASSUME Quiet, list["Staking"] = StakingPool PROVE Registers(call, chain)
  <2>1. /\ list = manifest.dest /\ \A i, k \in Labels : list[i] = list[k] => i = k
    BY <1>2, <1>7 DEF Quiet, Checked
  <2> HIDE DEF call, list
  <2> QED BY <1>2, <1>3, <1>5, <1>6, <1>7, <2>1 DEF Registers
<1>8. \/ run' = NoRun /\ chain' = chain /\ batches' = batches
      \/ run' = Success /\ chain' = chain /\ batches' = batches /\ (chain.rewardPool > 0 \/ amount = 0)
      \/ run' = Success /\ chain' = d /\ batches' = batches /\ ~Reverts(chain, call) /\ list["Staking"] = StakingPool
         /\ ~(chain.rewardPool > 0)
      \/ run' = NoRun /\ chain' = chain /\ batches' = batches \cup {<<call>>} /\ list["Staking"] = StakingPool
  <2> HIDE DEF call
  <2> QED BY DEF Register, Flush, call
<1>9. CASE run' = NoRun /\ chain' = chain /\ batches' = batches
  <2>1. QuietInv'
    BY <1>1, <1>9, FreeStep DEF NoRun
  <2> QED BY <1>9, <2>1 DEF Grows
<1>10. ASSUME run' = Success, Grows(chain, chain')
       PROVE  run'.at = "success" /\ DoneInv'
  <2> HIDE DEF list
  <2>1. run' = [at |-> "success", list |-> list]
    BY <1>10 DEF Success, list
  <2>2. run'.at = "success" /\ run'.list = list
    BY <2>1
  <2>3. DoneInv'
    BY <1>4, <1>10, <2>2 DEF DoneInv, Covers, Grows
  <2> QED BY <2>2, <2>3
<1>11. CASE run' = Success /\ chain' = chain /\ batches' = batches /\ (chain.rewardPool > 0 \/ amount = 0)
  <2>1. Grows(chain, chain')
    BY <1>11 DEF Grows
  <2>2. run'.at = "success" /\ DoneInv'
    BY <1>10, <1>11, <2>1
  <2>3. Quiet => chain.rewardPool = A
    <3> HIDE DEF A, amount
    <3> QED BY <1>6, <1>11
  <2>4. PoolInv'
    BY <1>1, <1>11, <2>2, <2>3 DEF PoolInv, Quiet
  <2>5. NotifyInv'
    BY <1>1, <1>11, NotifyKept DEF QuietInv
  <2> QED BY <1>1, <1>11, <2>1, <2>2, <2>4, <2>5, RunQuiet
<1>12. CASE run' = Success /\ chain' = d /\ batches' = batches /\ ~Reverts(chain, call) /\ list["Staking"] = StakingPool
            /\ ~(chain.rewardPool > 0)
  <2>1. Grows(chain, d) /\ d.locked = chain.locked
    <3> HIDE DEF call
    <3> QED BY <1>2, <1>3, CallGrows
  <2>2. run'.at = "success" /\ DoneInv'
    BY <1>10, <1>12, <2>1
  <2>3. Quiet' => Quiet
    BY <1>1, <1>12, <2>1 DEF Quiet
  <2>4. Quiet => Ledger(d)
    <3> SUFFICES ASSUME Quiet PROVE Ledger(d)
      OBVIOUS
    <3> HIDE DEF call
    <3> QED BY <1>2, <1>3, <1>6, <1>7, <1>12, CallLedger DEF Quiet
  <2>5. Quiet => d.rewardPool = A
    <3> SUFFICES ASSUME Quiet PROVE d.rewardPool = A
      OBVIOUS
    <3>1. d = [chain EXCEPT !.rewardPool = @ + call.amount]
      <4> HIDE DEF call
      <4> QED BY <1>3, CallEffects
    <3>2. d.rewardPool = chain.rewardPool + amount
      BY <1>2, <1>3, <3>1 DEF Chains
    <3> HIDE DEF d, A, amount
    <3>3. chain.rewardPool = 0 /\ amount = A /\ A \in Nat
      BY <1>6, <1>12
    <3> QED BY <3>2, <3>3
  <2> HIDE DEF d
  <2>6. LedgerInv'
    BY <1>1, <1>12, <2>3, <2>4 DEF LedgerInv, Ledger
  <2>7. NotifyInv'
    BY <1>1, <1>12, <2>1, <2>3 DEF QuietInv, NotifyInv, Registers, Grows
  <2>8. PoolInv'
    BY <1>12, <2>2, <2>3, <2>5 DEF PoolInv
  <2> QED BY <1>12, <2>1, <2>2, <2>6, <2>7, <2>8 DEF QuietInv
<1>13. CASE run' = NoRun /\ chain' = chain /\ batches' = batches \cup {<<call>>} /\ list["Staking"] = StakingPool
  <2>1. PICK x : x = call
    OBVIOUS
  <2> DEFINE b == <<x>>
  <2>2. batches' = batches \cup {b} /\ Len(b) = 1 /\ b[1] = x
    BY <1>13, <2>1
  <2> HIDE DEF b
  <2>3. Quiet => Registers(x, chain)
    <3> HIDE DEF call
    <3> QED BY <1>7, <1>13, <2>1
  <2>4. Quiet' => Quiet
    BY <1>1, <1>13 DEF Quiet
  <2>5. Quiet => \A i \in 1..Len(b) : Registers(b[i], chain)'
    BY <1>1, <1>13, <2>2, <2>3 DEF Registers
  <2>6. \A y \in batches : Quiet => \A i \in 1..Len(y) : Registers(y[i], chain)'
    BY <1>1, <1>13 DEF QuietInv, NotifyInv, Registers
  <2>7. NotifyInv'
    BY <2>2, <2>4, <2>5, <2>6 DEF NotifyInv
  <2>8. DoneInv' /\ PoolInv'
    BY <1>13, RunFree DEF NoRun
  <2>9. Grows(chain, chain')
    BY <1>13 DEF Grows
  <2> QED BY <1>1, <1>13, <2>7, <2>8, <2>9, RunQuiet
<1> QED BY <1>8, <1>9, <1>11, <1>12, <1>13

\* The Safe executes a batch.
LEMMA ExecuteQuiet ==
  ASSUME LaunchInv, QuietInv, ExecuteBatch
  PROVE  QuietInv' /\ Grows(chain, chain')
<1>1. UNCHANGED <<network, manifest, signerIsAdmin, run, batches, donations>>
  BY DEF ExecuteBatch
<1>2. PICK b \in batches : chain' \in Execute(b, chain)
  BY DEF ExecuteBatch
<1> DEFINE d == chain'
           m == donations
<1>3. Well(b) /\ b \in Seq(Calls)
  BY <1>2 DEF LaunchInv, BatchesInv, Well
<1>4. m \in Nat /\ Paid(chain) /\ Grants(chain, m) /\ chain \in Chains /\ d \in Execute(b, chain)
  BY <1>2 DEF LaunchInv, FilesInv, ChainInv
<1> HIDE DEF d, m
<1>5. d \in Chains /\ Lawful(b, chain, d)
  BY <1>3, <1>4, BatchKeeps
<1>6. Quiet => \A i \in 1..Len(b) : Registers(b[i], chain)
  BY <1>2 DEF QuietInv, NotifyInv
<1>7. /\ Grows(chain, d) /\ d.locked = chain.locked
      /\ manifest # NoManifest /\ chain.locked = 0 /\ Ledger(chain) /\ (\A i \in 1..Len(b) : Registers(b[i], chain))
             => Ledger(d) /\ (chain.rewardPool = Amount["Staking"] => d.rewardPool = Amount["Staking"])
  BY <1>3, <1>4, <1>5, BatchLedger
<1>8. Quiet' => Quiet
  BY <1>1, <1>7 DEF Quiet, d
<1>9. Quiet => Ledger(chain) /\ manifest # NoManifest /\ chain.locked = 0
  BY DEF QuietInv, LedgerInv, Quiet
<1>10. Quiet' => Quiet /\ Ledger(d)
                 /\ (chain.rewardPool = Amount["Staking"] => d.rewardPool = Amount["Staking"])
  BY <1>6, <1>7, <1>8, <1>9
<1> QED BY <1>1, <1>7, <1>10, WaitQuiet DEF d

\* A user moves a token: nothing is claimed of the balances any more.
LEMMA UserQuiet ==
  ASSUME LaunchInv, QuietInv, Donate \/ Stake
  PROVE  QuietInv' /\ Grows(chain, chain')
<1>1. UNCHANGED <<network, manifest, signerIsAdmin, run, batches>>
  BY DEF Donate, Stake
<1>2. chain \in Chains /\ donations \in Nat
  BY DEF LaunchInv, ChainInv, FilesInv
<1>3. CASE Donate
  <2>1. PICK a \in Holders, v \in DOMAIN Vaults : chain' = Transfer(chain, a, v)
    BY <1>3 DEF Donate
  <2>2. a \in Address /\ v \in Address
    BY HolderApart, DeployedTypes
  <2>3. Grows(chain, chain')
    BY <1>2, <2>1, <2>2, TransferMoves DEF Grows, Moves
  <2>4. ~Quiet'
    BY <1>2, <1>3 DEF Donate, Quiet
  <2> QED BY <1>1, <2>3, <2>4, WaitQuiet
<1>4. CASE Stake
  <2>1. PICK a \in Holders : chain' = [Transfer(chain, a, StakingPool) EXCEPT !.locked = @ + 1]
    BY <1>4 DEF Stake
  <2>2. a \in Address /\ StakingPool \in Address
    BY HolderApart, AddressAssumption
  <2> DEFINE moved == Transfer(chain, a, StakingPool)
  <2>3. /\ moved \in Chains /\ moved.locked = 0
        /\ moved.distributed = chain.distributed /\ moved.triggered = chain.triggered /\ moved.genesis = chain.genesis
    BY <1>2, <1>4, <2>2, TransferMoves DEF Stake, Moves
  <2> HIDE DEF moved
  <2>4. chain' = [moved EXCEPT !.locked = @ + 1]
    BY <2>1 DEF moved
  <2>5. /\ chain'.locked = 1
        /\ chain'.distributed = moved.distributed /\ chain'.triggered = moved.triggered
        /\ chain'.genesis = moved.genesis
    BY <2>3, <2>4 DEF Chains
  <2>6. Grows(chain, chain')
    BY <2>3, <2>5 DEF Grows
  <2>7. ~Quiet'
    BY <2>5 DEF Quiet
  <2> QED BY <1>1, <2>6, <2>7, WaitQuiet
<1> QED BY <1>3, <1>4

\* Every step.
LEMMA QuietNext ==
  ASSUME LaunchInv, SeenInv, QuietInv, [Next]_vars
  PROVE  QuietInv' /\ Grows(chain, chain')
<1>1. CASE EditEnv \/ StopRun \/ StartRun \/ Preflight \/ QueuePhaseA \/ ReadStakingBalance
  <2>1. QuietInv'
    BY <1>1, StartQuiet, PreflightQuiet, QueueQuiet, ReadStakingQuiet
  <2>2. chain' = chain
    BY <1>1 DEF EditEnv, StopRun, StartRun, Preflight, QueuePhaseA, ReadStakingBalance
  <2> QED BY <2>1, <2>2 DEF Grows
<1>2. CASE UNCHANGED vars
  <2>1. UNCHANGED <<network, manifest, signerIsAdmin, chain, donations, batches, run>>
    BY <1>2 DEF vars
  <2>2. NotifyInv' /\ DoneInv' /\ PoolInv'
    BY <2>1 DEF QuietInv, NotifyInv, DoneInv, PoolInv, Quiet, Registers, Covers, Kinds
  <2> QED BY <2>1, <2>2, RunQuiet DEF Grows
<1> QED BY <1>1, <1>2, DeployQuiet, SendQuiet, RegisterQuiet, ExecuteQuiet, UserQuiet DEF Next

-----------------------------------------------------------------------------
\* A ledger carried to other holders, each to one of its own, keeps its sum.
LEMMA TotalCarried ==
  ASSUME NEW S, IsFiniteSet(S), NEW f \in [S -> Nat], NEW T, NEW h \in [S -> T], NEW g \in [T -> Nat],
         \A x, y \in S : h[x] = h[y] => x = y,
         \A x \in S : g[h[x]] = f[x],
         \A y \in T : (\A x \in S : h[x] # y) => g[y] = 0
  PROVE  Total(g) = Total(f)
<1> DEFINE U == Units(f)
           V == Units(g)
           move == [u \in U |-> <<h[u[1]], u[2]>>]
<1>1. \A u \in U : u = <<u[1], u[2]>> /\ u[1] \in S /\ u[2] \in 1..f[u[1]]
  BY DEF Units, UnitsOf
<1>2. \A x \in S : \A i \in 1..f[x] : <<x, i>> \in U
  BY DEF Units, UnitsOf
<1>3. \A u \in V : u = <<u[1], u[2]>> /\ u[1] \in T /\ u[2] \in 1..g[u[1]]
  BY DEF Units, UnitsOf
<1>4. \A y \in T : \A i \in 1..g[y] : <<y, i>> \in V
  BY DEF Units, UnitsOf
<1> HIDE DEF U, V
<1>5. ASSUME NEW u \in U PROVE move[u] \in V /\ move[u][1] = h[u[1]] /\ move[u][2] = u[2]
  <2>1. u[1] \in S /\ u[2] \in 1..f[u[1]] /\ h[u[1]] \in T /\ g[h[u[1]]] = f[u[1]]
    BY <1>1
  <2>2. <<h[u[1]], u[2]>> \in V
    BY <1>4, <2>1
  <2> QED BY <2>2
<1>6. move \in [U -> V]
  BY <1>5
<1>7. ASSUME NEW u \in U, NEW v \in U, move[u] = move[v] PROVE u = v
  <2> DEFINE w == move[u]
             z == move[v]
  <2>1. w[1] = h[u[1]] /\ w[2] = u[2] /\ z[1] = h[v[1]] /\ z[2] = v[2]
    BY <1>5
  <2>2. w = z
    BY <1>7
  <2> HIDE DEF w, z, move
  <2>3. h[u[1]] = h[v[1]] /\ u[2] = v[2]
    BY <2>1, <2>2
  <2>4. u[1] = v[1]
    BY <1>1, <2>3
  <2> QED BY <1>1, <2>3, <2>4
<1>8. ASSUME NEW v \in V PROVE \E u \in U : move[u] = v
  <2>1. v = <<v[1], v[2]>> /\ v[1] \in T /\ v[2] \in 1..g[v[1]]
    BY <1>3
  <2>2. g[v[1]] # 0
    BY <2>1
  <2>3. PICK x \in S : h[x] = v[1]
    BY <2>1, <2>2
  <2> DEFINE u == <<x, v[2]>>
  <2>4. u \in U /\ u[1] = x /\ u[2] = v[2]
    BY <1>2, <2>1, <2>3
  <2> HIDE DEF u
  <2>5. move[u] = v
    BY <2>1, <2>3, <2>4
  <2> QED BY <2>4, <2>5
<1>9. IsFiniteSet(U)
  BY UnitsFinite DEF U
<1> HIDE DEF move
<1>10. move \in Bijection(U, V)
  BY <1>6, <1>7, <1>8 DEF Bijection, Injection, Surjection, IsInjective
<1>11. Cardinality(U) = Cardinality(V)
  BY <1>9, <1>10, FS_Bijection DEF ExistsBijection
<1> QED BY <1>11 DEF Total, U, V

\* The whole supply is paid out, and nothing stays with the distributor.
LEMMA SupplyPaid ==
  ASSUME LaunchInv, Quiet, Ledger(chain), chain.distributed, NEW list, Checked(list), DistributorUnpaid
  PROVE  /\ Total(chain.bal) = MAX_SUPPLY /\ chain.bal[Distributor] = 0
         /\ \A l \in Labels : chain.bal[list[l]] = Amount[l]
<1> DEFINE bal == chain.bal
<1>1. /\ list \in Lists /\ list = manifest.dest /\ \A i, k \in Labels : list[i] = list[k] => i = k
      /\ manifest \in Manifests
  BY DEF Quiet, Checked, LaunchInv, FilesInv
<1>2. /\ bal \in [Address -> Int] /\ Distributor \in Address /\ IsFiniteSet(Labels) /\ Amount \in [Labels -> Nat]
      /\ list \in [Labels -> Address]
  BY <1>1, AddressAssumption, PlanRows, Sums DEF LaunchInv, ChainInv, Chains, Lists
<1>3. \A a \in Address : bal[a] = Sent(list, a)
  BY <1>1 DEF Ledger
<1> HIDE DEF bal
<1>4. \A l \in Labels : bal[list[l]] = Amount[l]
  BY <1>1, <1>2, <1>3, SentExact
<1>5. ASSUME NEW a \in Address, \A l \in Labels : list[l] # a PROVE bal[a] = 0
  <2> DEFINE f == [l \in {k \in Labels : list[k] = a} |-> Amount[l]]
  <2>1. \A x \in DOMAIN f : f[x] = 0
    BY <1>5
  <2>2. Sent(list, a) = Total(f)
    BY DEF Sent
  <2> HIDE DEF f
  <2>3. Total(f) = 0
    BY <2>1, TotalZero
  <2> QED BY <1>3, <2>2, <2>3
<1>6. bal \in [Address -> Nat]
  <2>1. \A a \in Address : bal[a] \in Nat
    BY <1>3, Sums
  <2> QED BY <1>2, <2>1
<1>7. Total(bal) = Total(Amount)
  BY <1>1, <1>2, <1>4, <1>5, <1>6, TotalCarried
<1>8. bal[Distributor] = 0
  BY <1>1, <1>2, <1>5 DEF DistributorUnpaid
<1> QED BY <1>4, <1>7, <1>8 DEF MAX_SUPPLY, bal

\* A run that has reported success leaves a chain that verify_tge passes.
LEMMA QuietSuccess ==
  ASSUME LaunchInv, QuietInv, DistributorUnpaid
  PROVE  SuccessVerified
<1> SUFFICES ASSUME run.at = "success", Quiet PROVE VerifyTge(run.list)
  BY DEF SuccessVerified, Quiet
<1> DEFINE list == run.list
<1>1. Checked(list) /\ Covers(<<>>, list, chain) /\ Ledger(chain) /\ PoolRegistered
  BY RunKinds DEF LaunchInv, RunInv, QuietInv, DoneInv, LedgerInv, PoolInv, PoolRegistered
<1> HIDE DEF list
<1>2. chain.genesis /\ chain.distributed /\ \A l \in VaultLabels : list[l] \in chain.triggered
  BY <1>1 DEF Covers, Kinds
<1>3. /\ Total(chain.bal) = MAX_SUPPLY /\ chain.bal[Distributor] = 0
      /\ \A l \in Labels : chain.bal[list[l]] = Amount[l]
  BY <1>1, <1>2, SupplyPaid
<1> QED BY <1>1, <1>2, <1>3 DEF VerifyTge, list

\* A run reports success only when everything verify_tge.js looks at is in
\* place, whatever the run was told by the snapshot it took, and neither another
\* run nor a batch that the Safe executes late or twice undoes it, until users
\* move tokens.  The manifest may not pay a row to the distributor: the gate
\* does not look for that.
THEOREM SuccessesVerified ==
  ASSUME DistributorUnpaid
  PROVE  Spec => []SuccessVerified
<1> DEFINE Inv == LaunchInv /\ SeenInv /\ QuietInv
<1>1. Init => Inv
  <2>1. Init => SeenInv
    BY DEF Init, SeenInv, NoRun
  <2> QED BY <2>1, LaunchInit, QuietInit
<1>2. Inv /\ [Next]_vars => Inv'
  BY LaunchStep, QuietNext, SeenKept
<1>3. Inv => SuccessVerified
  BY QuietSuccess
<1> HIDE DEF Inv
<1> QED BY <1>1, <1>2, <1>3, PTL DEF Spec
=============================================================================
