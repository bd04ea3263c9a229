--------------------------- MODULE HandoverProofs ---------------------------
(***************************************************************************)
(* Proofs about RoleHandover, for every choice of modes and every number of *)
(* failures: wherever the hand-over stops every contract has an            *)
(* administrator, no role that moves is without a holder, the Safe never   *)
(* governs the guardian between its transactions, what the older script    *)
(* reports stays so, and what the gate has passed changes by the Timelock only. *)
(*                                                                         *)
(* A list of calls is Covered when each call that takes something from the *)
(* Safe or the deployer finds what replaces it already in place or earlier in *)
(* the list. Nothing that counts as Kept is ever taken back, so that a batch *)
(* remains covered however late it is executed and whatever ran before it. *)
(***************************************************************************)
EXTENDS RoleHandover, CommonProofs

-----------------------------------------------------------------------------
(***************************************************************************)
(* Chains and calls.                                                       *)
(***************************************************************************)
Places  == Gated \cup {"Guardian", "Migrator"}
Names   == {"DEFAULT_ADMIN", "GOVERNANCE", "PAUSER", "UPGRADER", "SPENDER", "BURN", "PROPOSER", "CANCELLER", "GUARDIAN",
            "DEPLOYER", "CIRCUIT_BREAKER", "ORACLE", "none",
            "TOKEN", "BRIDGE", "STAKING", "FEE", "TREASURY", "STABILISATION_FUND"}
Parties == {"Safe", "Deployer", "Timelock", "Guardian", "Governor", "Treasury", "Migrator", "Monitor", "Oracle",
            "Treasurer", "GuardianMultisig"}
Triples == Places \X Names \X Parties
Chains == [holds : SUBSET Triples, owner : {"Safe", "Timelock"}, pending : {"nobody", "Timelock"},
           delegate : {"Safe", "Timelock"}, operation : {"unset", "waiting", "ready", "done"},
           modules : SUBSET Names, exempt : BOOLEAN]
Functions == {"grantRole", "revokeRole", "setDelegate", "transferOwnership", "schedule", "execute",
              "registerModule", "setExempt"}
Calls == [fn : Functions, to : Places, role : Names, who : Parties]
Triple(call) == <<call.to, call.role, call.who>>

\* What the calls of the scripts may do: they give the deployer nothing and the
\* Safe no more than the guardian's governance and the Timelock's two roles, and
\* take only from the Safe and the deployer.
LawfulCalls ==
    {call \in Calls :
        /\ call.fn = "grantRole" =>
               /\ call.who # "Deployer"
               /\ call.who = "Safe" => \/ call.to = "Guardian" /\ call.role = "GOVERNANCE"
                                       \/ call.to = "Timelock" /\ call.role \in {"PROPOSER", "CANCELLER"}
        /\ call.fn = "revokeRole" => call.who \in {"Safe", "Deployer"}
        /\ call.fn \in {"setDelegate", "transferOwnership"} => call.who = "Timelock"}

\* The effect of a call, field by field.
LEMMA EffectFields ==
  ASSUME NEW c \in Chains, NEW call \in LawfulCalls
  PROVE  /\ Effect(c, call) \in Chains
         /\ Effect(c, call).holds = IF call.fn = "grantRole" THEN c.holds \cup {Triple(call)}
                                    ELSE IF call.fn = "revokeRole" THEN c.holds \ {Triple(call)} ELSE c.holds
         /\ Effect(c, call).owner = IF call.fn = "execute" THEN "Timelock" ELSE c.owner
         /\ Effect(c, call).pending = IF call.fn = "transferOwnership" THEN call.who
                                      ELSE IF call.fn = "execute" THEN "nobody" ELSE c.pending
         /\ Effect(c, call).delegate = IF call.fn = "setDelegate" THEN call.who ELSE c.delegate
         /\ Effect(c, call).operation = IF call.fn = "schedule" THEN "waiting"
                                        ELSE IF call.fn = "execute" THEN "done" ELSE c.operation
<1> DEFINE d == Effect(c, call)
           Fields == /\ d \in Chains
                     /\ d.holds = IF call.fn = "grantRole" THEN c.holds \cup {Triple(call)}
                                    ELSE IF call.fn = "revokeRole" THEN c.holds \ {Triple(call)} ELSE c.holds
                     /\ d.owner = IF call.fn = "execute" THEN "Timelock" ELSE c.owner
                     /\ d.pending = IF call.fn = "transferOwnership" THEN call.who
                                      ELSE IF call.fn = "execute" THEN "nobody" ELSE c.pending
                     /\ d.delegate = IF call.fn = "setDelegate" THEN call.who ELSE c.delegate
                     /\ d.operation = IF call.fn = "schedule" THEN "waiting"
                                        ELSE IF call.fn = "execute" THEN "done" ELSE c.operation
<1>0. /\ Triple(call) \in Triples /\ call.role \in Names
      /\ call.fn \in {"setDelegate", "transferOwnership"} => call.who = "Timelock"
      /\ call.fn \in Functions
  BY DEF LawfulCalls, Calls, Triple, Triples
<1>1. ASSUME call.fn = "grantRole" PROVE Fields
  <2>1. d = [c EXCEPT !.holds = c.holds \cup {Triple(call)}]
    BY <1>1 DEF Effect, Triple
  <2> HIDE DEF d
  <2> QED BY <1>0, <1>1, <2>1 DEF Chains
<1>2. ASSUME call.fn = "revokeRole" PROVE Fields
  <2>1. d = [c EXCEPT !.holds = c.holds \ {Triple(call)}]
    BY <1>2 DEF Effect, Triple
  <2> HIDE DEF d
  <2> QED BY <1>0, <1>2, <2>1 DEF Chains
<1>3. ASSUME call.fn = "setDelegate" PROVE Fields
  <2>1. d = [c EXCEPT !.delegate = call.who]
    BY <1>3 DEF Effect
  <2> HIDE DEF d
  <2> QED BY <1>0, <1>3, <2>1 DEF Chains
<1>4. ASSUME call.fn = "transferOwnership" PROVE Fields
  <2>1. d = [c EXCEPT !.pending = call.who]
    BY <1>4 DEF Effect
  <2> HIDE DEF d
  <2> QED BY <1>0, <1>4, <2>1 DEF Chains
<1>5. ASSUME call.fn = "schedule" PROVE Fields
  <2>1. d = [c EXCEPT !.operation = "waiting"]
    BY <1>5 DEF Effect
  <2> HIDE DEF d
  <2> QED BY <1>0, <1>5, <2>1 DEF Chains
<1>6. ASSUME call.fn = "execute" PROVE Fields
  <2>1. d = [c EXCEPT !.operation = "done", !.owner = "Timelock", !.pending = "nobody"]
    BY <1>6 DEF Effect
  <2> HIDE DEF d
  <2> QED BY <1>0, <1>6, <2>1 DEF Chains
<1>7. ASSUME call.fn = "registerModule" PROVE Fields
  <2>1. d = [c EXCEPT !.modules = c.modules \cup {call.role}]
    BY <1>7 DEF Effect
  <2> HIDE DEF d
  <2> QED BY <1>0, <1>7, <2>1 DEF Chains
<1>8. ASSUME call.fn = "setExempt" PROVE Fields
  <2>1. d = [c EXCEPT !.exempt = TRUE]
    BY <1>8 DEF Effect
  <2> HIDE DEF d
  <2> QED BY <1>0, <1>8, <2>1 DEF Chains
<1>9. Fields
  <2> HIDE DEF Fields
  <2> QED BY <1>1, <1>2, <1>3, <1>4, <1>5, <1>6, <1>7, <1>8, <1>0 DEF Functions
<1> HIDE DEF d
<1> QED BY <1>9 DEF d

\* What is left as it is while such calls take the chain from c to d.
Moves(c, d) ==
    /\ d \in Chains
    /\ \A t \in d.holds \ c.holds : /\ t[3] # "Deployer"
                                    /\ t[3] = "Safe" => t[1] \in {"Guardian", "Timelock"} /\ t[2] # "DEFAULT_ADMIN"
    /\ \A t \in c.holds \ d.holds : t[3] \in {"Safe", "Deployer"}
    /\ c.owner = "Timelock" /\ c.pending = "nobody" /\ c.delegate = "Timelock"
           => d.owner = "Timelock" /\ d.pending = "nobody" /\ d.delegate = "Timelock"

\* The roles that nothing takes back, and those that a call adds to them.
Kept(c) == {t \in c.holds : t[3] \in {"Timelock", "Guardian"}}
Gives(call) == IF call.fn = "grantRole" /\ call.who \in {"Timelock", "Guardian"} THEN {Triple(call)} ELSE {}

\* Moves one after another.
LEMMA MovesOn ==
  ASSUME NEW c, NEW d, NEW e, Moves(c, d), Moves(d, e)
  PROVE  Moves(c, e)
BY DEF Moves

\* What is kept stays.
LEMMA MovesKeep ==
  ASSUME NEW c, NEW d, Moves(c, d)
  PROVE  Kept(c) \subseteq Kept(d)
BY DEF Moves, Kept

\* One call.
LEMMA CallMoves ==
  ASSUME NEW c \in Chains, NEW call \in LawfulCalls, ~Reverts(c, call)
  PROVE  /\ Moves(c, Effect(c, call)) /\ Gives(call) \subseteq Kept(Effect(c, call))
<1> DEFINE d == Effect(c, call)
           own == Triple(call)
<1>1. /\ d \in Chains
      /\ d.holds = IF call.fn = "grantRole" THEN c.holds \cup {own}
                   ELSE IF call.fn = "revokeRole" THEN c.holds \ {own} ELSE c.holds
      /\ d.owner = IF call.fn = "execute" THEN "Timelock" ELSE c.owner
      /\ d.pending = IF call.fn = "transferOwnership" THEN call.who ELSE IF call.fn = "execute" THEN "nobody" ELSE c.pending
      /\ d.delegate = IF call.fn = "setDelegate" THEN call.who ELSE c.delegate
  BY EffectFields DEF LawfulCalls
<1>2. own[1] = call.to /\ own[2] = call.role /\ own[3] = call.who
  BY DEF Triple
<1>3. /\ call.fn \in {"setDelegate", "transferOwnership"} => c.owner = "Safe"
      /\ call.fn = "execute" => c.pending = "Timelock"
  BY DEF Reverts
<1> HIDE DEF d, own
<1>4. \A u \in d.holds \ c.holds : /\ u[3] # "Deployer"
                                   /\ u[3] = "Safe" => u[1] \in {"Guardian", "Timelock"} /\ u[2] # "DEFAULT_ADMIN"
  BY <1>1, <1>2 DEF LawfulCalls
<1>5. \A u \in c.holds \ d.holds : u[3] \in {"Safe", "Deployer"}
  BY <1>1, <1>2 DEF LawfulCalls
<1>6. Moves(c, d)
  <2>1. d \in Chains
    BY <1>1
  <2>2. c.owner = "Timelock" /\ c.pending = "nobody" /\ c.delegate = "Timelock"
            => d.owner = "Timelock" /\ d.pending = "nobody" /\ d.delegate = "Timelock"
    BY <1>1, <1>3
  <2> QED BY <1>4, <1>5, <2>1, <2>2 DEF Moves
<1>7. Gives(call) \subseteq Kept(d)
  BY <1>1, <1>2 DEF Gives, Kept, own
<1> QED BY <1>6, <1>7 DEF d

-----------------------------------------------------------------------------
(***************************************************************************)
(* Lists of calls: what each call needs to be in place, so that nobody is  *)
(* left without an administrator or a role without a holder.               *)
(***************************************************************************)
AdminNeeds(call) ==
    IF call.fn = "schedule" THEN {<<x, "DEFAULT_ADMIN", "Timelock">> : x \in Targets}
    ELSE IF call.fn = "revokeRole" /\ call.role = "DEFAULT_ADMIN" THEN {<<call.to, "DEFAULT_ADMIN", "Timelock">>}
    ELSE {}
RoleNeeds(call) ==
    IF call.fn = "revokeRole" /\ call.who = "Safe" /\ call.to \in Targets /\ call.role \in DOMAIN Holder
    THEN {<<call.to, call.role, Holder[call.role]>>}
    ELSE {}
Needs(call) == AdminNeeds(call) \cup RoleNeeds(call)

\* What the calls of a list give, and every need given before or in G.
Granted(s) == UNION {Gives(s[j]) : j \in 1..Len(s)}
Covered(s, G) ==
    \A i \in 1..Len(s) : \A t \in Needs(s[i]) : t \in G \/ \E j \in 1..(i - 1) : t \in Gives(s[j])

\* More in place covers as much.
LEMMA CoveredOn ==
  ASSUME NEW s, NEW G, NEW H, G \subseteq H, Covered(s, G)
  PROVE  Covered(s, H)
BY DEF Covered

\* A list that needs nothing but what is in place.
LEMMA CoveredPlain ==
  ASSUME NEW s, NEW G, \A i \in 1..Len(s) : Needs(s[i]) \subseteq G
  PROVE  Covered(s, G)
BY DEF Covered

\* One list after another.
LEMMA CoveredJoin ==
  ASSUME NEW S, NEW p \in Seq(S), NEW q \in Seq(S), NEW G, Covered(p, G), Covered(q, G \cup Granted(p))
  PROVE  Covered(p \o q, G)
<1> DEFINE s == p \o q
           l == Len(p)
           m == Len(q)
<1>1. /\ l \in Nat /\ m \in Nat /\ Len(s) = l + m
      /\ \A i \in 1..l : s[i] = p[i]
      /\ \A i \in 1..m : s[l + i] = q[i]
  OBVIOUS
<1> HIDE DEF s
<1>2. ASSUME NEW i \in 1..l, NEW t \in Needs(s[i])
      PROVE  t \in G \/ \E j \in 1..(i - 1) : t \in Gives(s[j])
  <2>1. t \in Needs(p[i])
    BY <1>1, <1>2
  <2>2. t \in G \/ \E j \in 1..(i - 1) : t \in Gives(p[j])
    BY <2>1 DEF Covered
  <2>3. \A j \in 1..(i - 1) : j \in 1..l
    BY <1>1
  <2> QED BY <1>1, <2>2, <2>3
<1>3. ASSUME NEW k \in 1..m, NEW t \in Needs(s[l + k])
      PROVE  t \in G \/ \E j \in 1..(l + k - 1) : t \in Gives(s[j])
  <2>1. t \in Needs(q[k])
    BY <1>1, <1>3
  <2>2. t \in G \/ t \in Granted(p) \/ \E j \in 1..(k - 1) : t \in Gives(q[j])
    BY <2>1 DEF Covered
  <2>3. CASE t \in Granted(p)
    <3>1. PICK j \in 1..l : t \in Gives(p[j])
      BY <2>3 DEF Granted
    <3>2. j \in 1..(l + k - 1)
      BY <1>1
    <3>3. s[j] = p[j]
      BY <1>1
    <3> QED BY <3>1, <3>2, <3>3
  <2>4. CASE \E j \in 1..(k - 1) : t \in Gives(q[j])
    <3>1. PICK j \in 1..(k - 1) : t \in Gives(q[j])
      BY <2>4
    <3>2. l + j \in 1..(l + k - 1) /\ j \in 1..m
      BY <1>1
    <3>3. s[l + j] = q[j]
      BY <1>1, <3>2
    <3> QED BY <3>1, <3>2, <3>3
  <2> QED BY <2>2, <2>3, <2>4
<1>4. ASSUME NEW i \in 1..Len(s), NEW t \in Needs(s[i])
      PROVE  t \in G \/ \E j \in 1..(i - 1) : t \in Gives(s[j])
  <2>1. CASE i \in 1..l
    BY <1>2, <1>4, <2>1
  <2>2. CASE i \notin 1..l
    <3> DEFINE k == i - l
    <3>1. k \in 1..m /\ l + k = i
      BY <1>1, <2>2
    <3> HIDE DEF k
    <3>2. t \in Needs(s[l + k])
      BY <1>4, <3>1
    <3>3. t \in G \/ \E j \in 1..(l + k - 1) : t \in Gives(s[j])
      BY <1>3, <3>1, <3>2
    <3> QED BY <3>1, <3>3
  <2> QED BY <2>1, <2>2
<1>5. Covered(s, G)
  BY <1>4 DEF Covered
<1> QED BY <1>5 DEF s

\* What one of two lists gives, both give.
LEMMA GrantedJoin ==
  ASSUME NEW S, NEW p \in Seq(S), NEW q \in Seq(S)
  PROVE  Granted(p) \subseteq Granted(p \o q) /\ Granted(q) \subseteq Granted(p \o q)
<1> DEFINE s == p \o q
           l == Len(p)
           m == Len(q)
<1>1. /\ l \in Nat /\ m \in Nat /\ Len(s) = l + m
      /\ \A i \in 1..l : s[i] = p[i]
      /\ \A i \in 1..m : s[l + i] = q[i]
  OBVIOUS
<1> HIDE DEF s
<1>2. ASSUME NEW t \in Granted(p) PROVE t \in Granted(s)
  <2>1. PICK j \in 1..l : t \in Gives(p[j])
    BY <1>2 DEF Granted
  <2>2. j \in 1..Len(s) /\ s[j] = p[j]
    BY <1>1
  <2> QED BY <2>1, <2>2 DEF Granted
<1>3. ASSUME NEW t \in Granted(q) PROVE t \in Granted(s)
  <2>1. PICK j \in 1..m : t \in Gives(q[j])
    BY <1>3 DEF Granted
  <2>2. l + j \in 1..Len(s) /\ s[l + j] = q[j]
    BY <1>1
  <2> QED BY <2>1, <2>2 DEF Granted
<1> QED BY <1>2, <1>3 DEF s

\* Calls that are left out because they are done.
LEMMA CoveredSkip ==
  ASSUME NEW S, NEW s \in Seq(S), NEW keep \in [1..Len(s) -> BOOLEAN], NEW G, Covered(s, G),
         \A i \in 1..Len(s) : keep[i] \/ Gives(s[i]) \subseteq G
  PROVE  Covered(Picked(s, keep), G)
<1> DEFINE q == Picked(s, keep)
<1>1. q \in Seq(S) /\ \E at : Picks(q, s, keep, at)
  BY PickedEntries
<1> HIDE DEF q
<1>2. PICK at : Picks(q, s, keep, at)
  BY <1>1
<1> DEFINE l == Len(q)
<1>3. l \in Nat /\ Len(s) \in Nat
  BY <1>1
<1> HIDE DEF l
<1>4. /\ at \in [1..l -> 1..Len(s)]
      /\ \A k \in 1..l : q[k] = s[at[k]]
      /\ \A k, m \in 1..l : k < m => at[k] < at[m]
      /\ \A i \in 1..Len(s) : keep[i] => \E k \in 1..l : at[k] = i
  BY <1>2 DEF Picks, l
<1>5. ASSUME NEW k \in 1..l, NEW t \in Needs(q[k]), t \notin G
      PROVE  \E j \in 1..(k - 1) : t \in Gives(q[j])
  <2>1. at[k] \in 1..Len(s) /\ t \in Needs(s[at[k]])
    BY <1>4, <1>5
  <2>2. PICK j \in 1..(at[k] - 1) : t \in Gives(s[j])
    BY <1>5, <2>1 DEF Covered
  <2>3. j \in 1..Len(s) /\ j < at[k]
    BY <1>3, <2>1
  <2>4. keep[j]
    BY <1>5, <2>2, <2>3
  <2>5. PICK m \in 1..l : at[m] = j
    BY <1>4, <2>3, <2>4
  <2>6. ~(k < m) /\ m # k
    BY <1>4, <2>1, <2>3, <2>5
  <2>7. m \in 1..(k - 1)
    BY <1>3, <2>6
  <2>8. t \in Gives(q[m])
    BY <1>4, <2>2, <2>5
  <2> QED BY <2>7, <2>8
<1>6. Covered(q, G)
  BY <1>5 DEF Covered, l
<1> QED BY <1>6 DEF q

\* What remains when the first call is made.
LEMMA CoveredTail ==
  ASSUME NEW S, NEW s \in Seq(S), s # <<>>, NEW G, NEW H, Covered(s, G), G \cup Gives(s[1]) \subseteq H
  PROVE  Needs(s[1]) \subseteq G /\ Covered(Tail(s), H)
<1> DEFINE u == Tail(s)
           l == Len(s)
<1>1. /\ l \in Nat /\ l >= 1 /\ Len(u) = l - 1
      /\ \A k \in 1..(l - 1) : u[k] = s[k + 1]
  OBVIOUS
<1> HIDE DEF u, l
<1>2. Needs(s[1]) \subseteq G
  <2>1. 1 \in 1..l /\ 1..(1 - 1) = {}
    BY <1>1
  <2> QED BY <2>1 DEF Covered, l
<1>3. ASSUME NEW k \in 1..(l - 1), NEW t \in Needs(u[k])
      PROVE  t \in H \/ \E j \in 1..(k - 1) : t \in Gives(u[j])
  <2>1. t \in Needs(s[k + 1]) /\ k + 1 \in 1..l
    BY <1>1, <1>3
  <2>2. t \in G \/ \E j \in 1..(k + 1 - 1) : t \in Gives(s[j])
    BY <2>1 DEF Covered, l
  <2>3. CASE t \in G
    BY <2>3
  <2>4. CASE \E j \in 1..(k + 1 - 1) : t \in Gives(s[j])
    <3>1. PICK j \in 1..k : t \in Gives(s[j])
      BY <2>4
    <3>2. CASE j = 1
      BY <3>1, <3>2
    <3>3. CASE j # 1
      <4> DEFINE i == j - 1
      <4>1. i \in 1..(k - 1) /\ i \in 1..(l - 1) /\ i + 1 = j
        BY <1>1, <3>3
      <4> HIDE DEF i
      <4>2. u[i] = s[j]
        BY <1>1, <4>1
      <4> QED BY <3>1, <4>1, <4>2
    <3> QED BY <3>2, <3>3
  <2> QED BY <2>2, <2>3, <2>4
<1>4. Covered(u, H)
  BY <1>1, <1>3 DEF Covered
<1> QED BY <1>2, <1>4 DEF u

-----------------------------------------------------------------------------
(***************************************************************************)
(* What a call, and a list of calls, leaves in place.                      *)
(***************************************************************************)
\* Each contract of D has an administrator; the Timelock administers all targets
\* from the moment the acceptance is scheduled.
Administered(c, D) ==
    /\ \A x \in D : <<x, "DEFAULT_ADMIN", "Safe">> \in c.holds \/ <<x, "DEFAULT_ADMIN", "Timelock">> \in c.holds
    /\ c.operation # "unset" => \A x \in Targets : <<x, "DEFAULT_ADMIN", "Timelock">> \in c.holds

\* Each role of a target in D that moves has a holder.
MovedRoles(x) == {RolesOf(x)[i] : i \in DOMAIN RolesOf(x)} \cap DOMAIN Holder
Filled(c, D) ==
    \A x \in Targets \cap D : \A r \in MovedRoles(x) : <<x, r, "Safe">> \in c.holds \/ <<x, r, Holder[r]>> \in c.holds

\* The holders in the end.
LEMMA HolderOf == \A r \in DOMAIN Holder : Holder[r] \in {"Timelock", "Guardian"}
BY DEF Holder

\* A call whose needs are met leaves every contract administered.
LEMMA CallAdministered ==
  ASSUME NEW c \in Chains, NEW call \in LawfulCalls, ~Reverts(c, call), NEW D,
         Administered(c, D), AdminNeeds(call) \subseteq c.holds
  PROVE  Administered(Effect(c, call), D)
<1> DEFINE d == Effect(c, call)
<1>1. /\ d.holds = IF call.fn = "grantRole" THEN c.holds \cup {Triple(call)}
                   ELSE IF call.fn = "revokeRole" THEN c.holds \ {Triple(call)} ELSE c.holds
      /\ d.operation = IF call.fn = "schedule" THEN "waiting" ELSE IF call.fn = "execute" THEN "done" ELSE c.operation
  BY EffectFields
<1>2. call.fn = "execute" => c.operation = "ready"
  BY DEF Reverts
<1>3. call.fn = "revokeRole" => call.who \in {"Safe", "Deployer"}
  BY DEF LawfulCalls
<1> HIDE DEF d
<1>4. ASSUME NEW x, <<x, "DEFAULT_ADMIN", "Timelock">> \in c.holds
      PROVE  <<x, "DEFAULT_ADMIN", "Timelock">> \in d.holds
  BY <1>1, <1>3, <1>4 DEF Triple
<1>5. ASSUME NEW x \in D
      PROVE  <<x, "DEFAULT_ADMIN", "Safe">> \in d.holds \/ <<x, "DEFAULT_ADMIN", "Timelock">> \in d.holds
  <2>1. CASE <<x, "DEFAULT_ADMIN", "Timelock">> \in c.holds
    BY <1>4, <2>1
  <2>2. CASE <<x, "DEFAULT_ADMIN", "Timelock">> \notin c.holds
    <3>1. <<x, "DEFAULT_ADMIN", "Safe">> \in c.holds
      BY <2>2 DEF Administered
    <3>2. CASE call.fn = "revokeRole" /\ call.role = "DEFAULT_ADMIN"
      <4>1. <<call.to, "DEFAULT_ADMIN", "Timelock">> \in c.holds
        BY <3>2 DEF AdminNeeds
      <4>2. x # call.to
        BY <2>2, <4>1
      <4> QED BY <1>1, <3>1, <3>2, <4>2 DEF Triple
    <3>3. CASE ~(call.fn = "revokeRole" /\ call.role = "DEFAULT_ADMIN")
      BY <1>1, <3>1, <3>3 DEF Triple
    <3> QED BY <3>2, <3>3
  <2> QED BY <2>1, <2>2
<1>6. ASSUME d.operation # "unset", NEW x \in Targets PROVE <<x, "DEFAULT_ADMIN", "Timelock">> \in c.holds
  <2>1. CASE call.fn = "schedule"
    BY <2>1 DEF AdminNeeds
  <2>2. CASE call.fn # "schedule"
    BY <1>1, <1>2, <1>6, <2>2 DEF Administered
  <2> QED BY <2>1, <2>2
<1>7. Administered(d, D)
  BY <1>4, <1>5, <1>6 DEF Administered
<1> QED BY <1>7 DEF d

\* And every role with a holder.
LEMMA CallFilled ==
  ASSUME NEW c \in Chains, NEW call \in LawfulCalls, ~Reverts(c, call), NEW D,
         Filled(c, D), RoleNeeds(call) \subseteq c.holds
  PROVE  Filled(Effect(c, call), D)
<1> DEFINE d == Effect(c, call)
<1>1. d.holds = IF call.fn = "grantRole" THEN c.holds \cup {Triple(call)}
                ELSE IF call.fn = "revokeRole" THEN c.holds \ {Triple(call)} ELSE c.holds
  BY EffectFields
<1>2. call.fn = "revokeRole" => call.who \in {"Safe", "Deployer"}
  BY DEF LawfulCalls
<1> HIDE DEF d
<1>3. ASSUME NEW x \in Targets \cap D, NEW r \in MovedRoles(x)
      PROVE  <<x, r, "Safe">> \in d.holds \/ <<x, r, Holder[r]>> \in d.holds
  <2>1. r \in DOMAIN Holder /\ Holder[r] \in {"Timelock", "Guardian"}
    BY HolderOf DEF MovedRoles
  <2>2. CASE <<x, r, Holder[r]>> \in c.holds
    BY <1>1, <1>2, <2>1, <2>2 DEF Triple
  <2>3. CASE <<x, r, Holder[r]>> \notin c.holds
    <3>1. <<x, r, "Safe">> \in c.holds
      BY <2>3 DEF Filled
    <3>2. ~(call.fn = "revokeRole" /\ call.who = "Safe" /\ call.to = x /\ call.role = r)
      BY <2>1, <2>3 DEF RoleNeeds
    <3> QED BY <1>1, <3>1, <3>2 DEF Triple
  <2> QED BY <2>2, <2>3
<1>4. Filled(d, D)
  BY <1>3 DEF Filled
<1> QED BY <1>4 DEF d


\* The chains t that a batch passes through, from c to d.
Trace(t, calls, c, d) ==
    /\ t \in [0..Len(calls) -> Chains]
    /\ t[0] = c /\ t[Len(calls)] = d
    /\ \A i \in 1..Len(calls) : ~Reverts(t[i - 1], calls[i]) /\ t[i] = Effect(t[i - 1], calls[i])

\* A batch that the Safe executes passes through the effects of its calls, none of which reverts.
LEMMA BatchTrace ==
  ASSUME NEW calls \in Seq(LawfulCalls), NEW c \in Chains, NEW d \in Execute(calls, c)
  PROVE  \E t : Trace(t, calls, c, d)
<1> DEFINE n == Len(calls)
           After(A, i) == {Effect(before, calls[i]) : before \in {b \in A : ~Reverts(b, calls[i])}}
           F(f) == [i \in 0..n |-> IF i = 0 THEN {c} ELSE After(f[i - 1], i)]
           after == CHOOSE f : f = F(f)
           Sets == SUBSET Chains
           start == {c}
           step == [i \in 1..n |-> [A \in Sets |-> After(A, i)]]
<1>1. Execute(calls, c) = after[n]
  BY DEF Execute
<1>2. n \in Nat /\ \A i \in 1..n : calls[i] \in LawfulCalls
  OBVIOUS
<1>3. \A i \in 1..n : \A A \in Sets : After(A, i) \in Sets
  <2>1. \A call \in LawfulCalls : \A b \in Chains : Effect(b, call) \in Chains
    BY EffectFields
  <2> QED BY <1>2, <2>1
<1> HIDE DEF After
<1>4. step \in [1..n -> [Sets -> Sets]] /\ start \in Sets
  BY <1>3
<1>5. PICK f : Stepwise(f, n, Sets, start, step)
  <2> HIDE DEF step, n, Sets, start
  <2> QED BY <1>2, <1>4, StepwiseFunction
<1>6. f = F(f)
  <2>0. f \in [0..n -> Sets] /\ f[0] = {c} /\ \A i \in 1..n : f[i] = step[i][f[i - 1]]
    BY <1>5 DEF Stepwise
  <2>1. ASSUME NEW i \in 0..n PROVE f[i] = F(f)[i]
    <3>1. CASE i = 0
      BY <2>0, <3>1
    <3>2. CASE i # 0
      <4>1. i \in 1..n /\ i - 1 \in 0..n
        BY <1>2, <3>2
      <4>2. f[i] = After(f[i - 1], i)
        BY <2>0, <4>1
      <4> QED BY <3>2, <4>2
    <3> QED BY <3>1, <3>2
  <2> QED BY <2>0, <2>1
<1>7. after = F(after)
  <2> HIDE DEF F
  <2> QED BY <1>6
<1> HIDE DEF after
<1>8. after[0] = {c} /\ \A i \in 1..n : after[i] = After(after[i - 1], i)
  <2> HIDE DEF n
  <2>1. 0 \in 0..n /\ \A i \in 1..n : i \in 0..n /\ i # 0
    BY <1>2
  <2> QED BY <1>7, <2>1
<1> DEFINE Passes(t, i, e) ==
               /\ t \in [0..i -> Chains] /\ t[0] = c /\ t[i] = e
               /\ \A j \in 1..i : ~Reverts(t[j - 1], calls[j]) /\ t[j] = Effect(t[j - 1], calls[j])
           Reached(i) == \A e \in after[i] : \E t : Passes(t, i, e)
           T == {i \in 0..n : after[i] \in Sets /\ Reached(i)}
<1>9. 0 \in T
  <2>1. after[0] \in Sets /\ 0 \in 0..n
    BY <1>2, <1>8
  <2>2. ASSUME NEW e \in after[0] PROVE \E t : Passes(t, 0, e)
    <3> DEFINE t == [i \in 0..0 |-> c]
    <3>1. t \in [0..0 -> Chains] /\ t[0] = c /\ c = e
      BY <1>8, <2>2
    <3> HIDE DEF t
    <3>2. Passes(t, 0, e)
      BY <3>1
    <3> QED BY <3>2
  <2> HIDE DEF Passes, n
  <2> QED BY <2>1, <2>2
<1>10. ASSUME NEW i \in 1..n, i - 1 \in T PROVE i \in T
  <2>1. i \in Nat /\ i - 1 \in Nat /\ i \in 0..n /\ after[i - 1] \in Sets /\ after[i] = After(after[i - 1], i)
    BY <1>2, <1>8, <1>10
  <2>2. after[i] \in Sets
    BY <1>3, <2>1
  <2>3. ASSUME NEW e \in after[i] PROVE \E t : Passes(t, i, e)
    <3>1. PICK b \in after[i - 1] : ~Reverts(b, calls[i]) /\ e = Effect(b, calls[i])
      BY <2>1, <2>3 DEF After
    <3>2. PICK t : Passes(t, i - 1, b)
      <4> HIDE DEF Passes
      <4> QED BY <1>10
    <3>3. e \in Chains
      BY <2>2, <2>3
    <3> DEFINE u == [j \in 0..i |-> IF j = i THEN e ELSE t[j]]
    <3>4. u \in [0..i -> Chains] /\ u[i] = e /\ \A j \in 0..(i - 1) : u[j] = t[j]
      BY <2>1, <3>2, <3>3
    <3> HIDE DEF u
    <3>5. u[0] = c /\ u[i - 1] = b
      BY <2>1, <3>2, <3>4
    <3>6. ASSUME NEW j \in 1..i PROVE ~Reverts(u[j - 1], calls[j]) /\ u[j] = Effect(u[j - 1], calls[j])
      <4>1. CASE j = i
        BY <3>1, <3>4, <3>5, <4>1
      <4>2. CASE j # i
        <5>1. j \in 1..(i - 1) /\ j \in 0..(i - 1) /\ j - 1 \in 0..(i - 1)
          BY <2>1, <4>2
        <5> QED BY <3>2, <3>4, <5>1
      <4> QED BY <4>1, <4>2
    <3>7. Passes(u, i, e)
      BY <3>4, <3>5, <3>6
    <3> HIDE DEF Passes
    <3> QED BY <3>7
  <2> HIDE DEF Passes, n
  <2> QED BY <2>1, <2>2, <2>3
<1>11. n \in T
  <2>1. 0..n \subseteq T
    <3> HIDE DEF T, n
    <3> QED BY <1>2, <1>9, <1>10, Steps
  <2>2. n \in 0..n
    BY <1>2
  <2> HIDE DEF T, n
  <2> QED BY <2>1, <2>2
<1>12. PICK t : Passes(t, n, d)
  <2> HIDE DEF Passes
  <2> QED BY <1>1, <1>11
<1>13. Trace(t, calls, c, d)
  BY <1>12 DEF Trace
<1> QED BY <1>13

\* The Safe as governance of the guardian: the calls that begin and end it, and
\* the batches that end what they begin.
Governing(c) == <<"Guardian", "GOVERNANCE", "Safe">> \in c.holds
Opens(call)  == call.fn = "grantRole" /\ Triple(call) = <<"Guardian", "GOVERNANCE", "Safe">>
Closes(call) == call.fn = "revokeRole" /\ Triple(call) = <<"Guardian", "GOVERNANCE", "Safe">>
Passing(calls) == \A i \in 1..Len(calls) : Opens(calls[i]) => \E j \in (i + 1)..Len(calls) : Closes(calls[j])

\* Calls that the chain takes one after another: what holds after each of them.
LEMMA NextCall ==
  ASSUME NEW c \in Chains, NEW call \in LawfulCalls, ~Reverts(c, call), NEW D,
         Administered(c, D), NEW H, H \subseteq Kept(c), Needs(call) \subseteq H
  PROVE  /\ Moves(c, Effect(c, call))
         /\ H \cup Gives(call) \subseteq Kept(Effect(c, call))
         /\ Administered(Effect(c, call), D)
         /\ Filled(c, D) => Filled(Effect(c, call), D)
         /\ Governing(Effect(c, call)) => Opens(call) \/ (Governing(c) /\ ~Closes(call))
<1> DEFINE d == Effect(c, call)
<1>1. AdminNeeds(call) \subseteq c.holds /\ RoleNeeds(call) \subseteq c.holds
  BY DEF Needs, Kept
<1>2. Moves(c, d) /\ Gives(call) \subseteq Kept(d)
  BY CallMoves
<1>3. Administered(d, D)
  BY <1>1, CallAdministered
<1>4. Filled(c, D) => Filled(d, D)
  BY <1>1, CallFilled
<1>5. d.holds = IF call.fn = "grantRole" THEN c.holds \cup {Triple(call)}
                ELSE IF call.fn = "revokeRole" THEN c.holds \ {Triple(call)} ELSE c.holds
  BY EffectFields
<1> HIDE DEF d
<1>6. Kept(c) \subseteq Kept(d)
  BY <1>2, MovesKeep
<1>7. Governing(d) => Opens(call) \/ (Governing(c) /\ ~Closes(call))
  BY <1>5 DEF Governing, Opens, Closes
<1> QED BY <1>2, <1>3, <1>4, <1>6, <1>7 DEF d

\* A batch whose needs are met keeps what a call keeps, and ends what it begins.
LEMMA BatchKeeps ==
  ASSUME NEW c \in Chains, NEW calls \in Seq(LawfulCalls), NEW d \in Execute(calls, c), NEW D,
         Administered(c, D), Covered(calls, Kept(c))
  PROVE  /\ Moves(c, d)
         /\ Administered(d, D)
         /\ Filled(c, D) => Filled(d, D)
         /\ Passing(calls) /\ ~Governing(c) => ~Governing(d)
<1>1. PICK t : Trace(t, calls, c, d)
  BY BatchTrace
<1> DEFINE n == Len(calls)
           Good(i) == /\ Moves(c, t[i])
                      /\ \A k \in 1..i : Gives(calls[k]) \subseteq Kept(t[i])
                      /\ Administered(t[i], D)
                      /\ Filled(c, D) => Filled(t[i], D)
                      /\ Passing(calls) /\ ~Governing(c) /\ Governing(t[i])
                             => \E j \in (i + 1)..n : Closes(calls[j])
           T == {i \in 0..n : Good(i)}
<1>2. n \in Nat /\ \A i \in 1..n : calls[i] \in LawfulCalls
  OBVIOUS
<1>3. /\ t \in [0..n -> Chains] /\ t[0] = c /\ t[n] = d
      /\ \A i \in 1..n : ~Reverts(t[i - 1], calls[i]) /\ t[i] = Effect(t[i - 1], calls[i])
  BY <1>1 DEF Trace
<1> HIDE DEF n
<1>4. 0 \in T
  <2>1. Moves(c, c)
    BY DEF Moves
  <2>2. Good(0)
    BY <1>3, <2>1
  <2> HIDE DEF Good
  <2> QED BY <1>2, <2>2
<1>5. ASSUME NEW i \in 1..n, i - 1 \in T PROVE i \in T
  <2> DEFINE b == t[i - 1]
             e == t[i]
             call == calls[i]
             H == Kept(c) \cup UNION {Gives(calls[k]) : k \in 1..(i - 1)}
  <2>1. /\ i \in 0..n /\ i - 1 \in 0..n /\ b \in Chains /\ e \in Chains /\ call \in LawfulCalls
        /\ ~Reverts(b, call) /\ e = Effect(b, call)
    BY <1>2, <1>3
  <2>2. /\ Moves(c, b) /\ Administered(b, D)
        /\ Filled(c, D) => Filled(b, D)
        /\ \A k \in 1..(i - 1) : Gives(calls[k]) \subseteq Kept(b)
        /\ Passing(calls) /\ ~Governing(c) /\ Governing(b) => \E j \in (i - 1 + 1)..n : Closes(calls[j])
    BY <1>5
  <2>3. Needs(call) \subseteq H
    BY DEF Covered, n
  <2>4. Kept(c) \subseteq Kept(b)
    BY <2>2, MovesKeep
  <2>5. H \subseteq Kept(b)
    BY <2>2, <2>4
  <2>6. \A k \in 1..(i - 1) : Gives(calls[k]) \subseteq H
    OBVIOUS
  <2> HIDE DEF H, b, e, call
  <2>7. /\ Moves(b, e) /\ H \cup Gives(call) \subseteq Kept(e) /\ Administered(e, D)
        /\ Filled(b, D) => Filled(e, D)
        /\ Governing(e) => Opens(call) \/ (Governing(b) /\ ~Closes(call))
    <3>1. /\ Moves(b, Effect(b, call)) /\ H \cup Gives(call) \subseteq Kept(Effect(b, call))
          /\ Administered(Effect(b, call), D)
          /\ Filled(b, D) => Filled(Effect(b, call), D)
          /\ Governing(Effect(b, call)) => Opens(call) \/ (Governing(b) /\ ~Closes(call))
      BY <2>1, <2>2, <2>3, <2>5, NextCall
    <3> QED BY <2>1, <3>1
  <2>8. Moves(c, e)
    BY <2>2, <2>7, MovesOn
  <2>9. ASSUME NEW k \in 1..i PROVE Gives(calls[k]) \subseteq Kept(e)
    <3>1. CASE k = i
      BY <2>7, <3>1 DEF call
    <3>2. CASE k # i
      <4>1. k \in 1..(i - 1)
        BY <3>2
      <4> QED BY <2>6, <2>7, <4>1
    <3> QED BY <3>1, <3>2
  <2>10. ASSUME Passing(calls), ~Governing(c), Governing(e) PROVE \E j \in (i + 1)..n : Closes(calls[j])
    <3>1. CASE Opens(call)
      BY <2>10, <3>1 DEF Passing, call, n
    <3>2. CASE Governing(b) /\ ~Closes(call)
      <4>1. PICK j \in (i - 1 + 1)..n : Closes(calls[j])
        BY <2>2, <2>10, <3>2
      <4>2. j # i
        BY <3>2, <4>1 DEF call
      <4>3. j \in (i + 1)..n
        BY <1>2, <4>2
      <4> QED BY <4>1, <4>3
    <3> QED BY <2>7, <2>10, <3>1, <3>2
  <2>11. Filled(c, D) => Filled(e, D)
    BY <2>2, <2>7
  <2>12. Good(i)
    BY <2>7, <2>8, <2>9, <2>10, <2>11 DEF e
  <2> HIDE DEF Good
  <2> QED BY <2>1, <2>12
<1>6. n \in T
  <2>1. 0..n \subseteq T
    <3> HIDE DEF T
    <3> QED BY <1>2, <1>4, <1>5, Steps
  <2>2. n \in 0..n
    BY <1>2
  <2> HIDE DEF T
  <2> QED BY <2>1, <2>2
<1>7. Good(n)
  <2> HIDE DEF Good
  <2> QED BY <1>6
<1>8. (n + 1)..n = {}
  BY <1>2
<1> QED BY <1>3, <1>7, <1>8

-----------------------------------------------------------------------------
(***************************************************************************)
(* The two phases of migrate_roles.js.                                     *)
(***************************************************************************)
\* Calls that never make the Safe governance of the guardian, and those of them
\* that need no more than G.
MoveCalls  == {call \in LawfulCalls : call.fn \notin {"registerModule", "setExempt"} /\ ~Opens(call)}
Settled(G) == {call \in MoveCalls : Needs(call) \subseteq G}

\* Lists of such calls.
LEMMA SettledCovered ==
  ASSUME NEW G, NEW s \in Seq(Settled(G))
  PROVE  s \in Seq(MoveCalls) /\ Covered(s, G)
<1>1. \A i \in 1..Len(s) : s[i] \in Settled(G)
  OBVIOUS
<1>2. \A i \in 1..Len(s) : Needs(s[i]) \subseteq G
  BY <1>1 DEF Settled
<1>3. Settled(G) \subseteq MoveCalls
  BY DEF Settled
<1> QED BY <1>2, <1>3, CoveredPlain

\* The targets one after another.
LEMMA FiveJoined ==
  ASSUME NEW S, NEW p \in Seq(S), NEW q \in Seq(S), NEW r \in Seq(S), NEW u \in Seq(S), NEW v \in Seq(S)
  PROVE  /\ p \o q \o r \o u \o v \in Seq(S)
         /\ Granted(p) \cup Granted(q) \cup Granted(r) \cup Granted(u) \cup Granted(v)
                \subseteq Granted(p \o q \o r \o u \o v)
<1>1. /\ p \o q \in Seq(S) /\ p \o q \o r \in Seq(S) /\ p \o q \o r \o u \in Seq(S)
      /\ p \o q \o r \o u \o v \in Seq(S)
  OBVIOUS
<1>2. Granted(p) \subseteq Granted(p \o q) /\ Granted(q) \subseteq Granted(p \o q)
  BY GrantedJoin
<1>3. Granted(p \o q) \subseteq Granted(p \o q \o r) /\ Granted(r) \subseteq Granted(p \o q \o r)
  BY <1>1, GrantedJoin
<1>4. Granted(p \o q \o r) \subseteq Granted(p \o q \o r \o u) /\ Granted(u) \subseteq Granted(p \o q \o r \o u)
  BY <1>1, GrantedJoin
<1>5. /\ Granted(p \o q \o r \o u) \subseteq Granted(p \o q \o r \o u \o v)
      /\ Granted(v) \subseteq Granted(p \o q \o r \o u \o v)
  BY <1>1, GrantedJoin
<1> QED BY <1>1, <1>2, <1>3, <1>4, <1>5

\* The roles of a target are names of roles, and no administration.
LEMMA RolesNamed ==
  ASSUME NEW x \in Targets
  PROVE  /\ RolesOf(x) \in Seq(Names) /\ DOMAIN RolesOf(x) = 1..Len(RolesOf(x))
         /\ \A i \in 1..Len(RolesOf(x)) : RolesOf(x)[i] # "DEFAULT_ADMIN"
<1> DEFINE s == RolesOf(x)
<1>1. CASE x = "SRXToken"
  <2>1. s = <<"GOVERNANCE", "PAUSER", "BURN">>
    BY <1>1 DEF RolesOf
  <2> QED BY <2>1 DEF Names
<1>2. CASE x = "Treasury"
  <2>1. s = <<"GOVERNANCE", "UPGRADER", "PAUSER", "SPENDER">>
    BY <1>2 DEF RolesOf
  <2> QED BY <2>1 DEF Names
<1>3. CASE x \notin {"SRXToken", "Treasury"}
  <2>1. s = <<"GOVERNANCE", "UPGRADER", "PAUSER">>
    BY <1>3 DEF RolesOf
  <2> QED BY <2>1 DEF Names
<1> QED BY <1>1, <1>2, <1>3

\* The grants on a target: its administration and every role that moves.
LEMMA GrantsOnTarget ==
  ASSUME NEW x \in Targets
  PROVE  /\ GrantsOn(x) \in Seq(Settled({}))
         /\ <<x, "DEFAULT_ADMIN", "Timelock">> \in Granted(GrantsOn(x))
         /\ \A r \in MovedRoles(x) : <<x, r, Holder[r]>> \in Granted(GrantsOn(x))
<1> DEFINE roles == RolesOf(x)
           keep  == [i \in DOMAIN roles |-> roles[i] \in DOMAIN Holder]
           given == Picked(roles, keep)
           first == <<Grant(x, "DEFAULT_ADMIN", "Timelock")>>
           rest  == [i \in DOMAIN given |-> Grant(x, given[i], Holder[given[i]])]
<1>1. GrantsOn(x) = first \o rest
  BY DEF GrantsOn
<1>2. roles \in Seq(Names) /\ DOMAIN roles = 1..Len(roles)
  BY RolesNamed
<1>3. keep \in [1..Len(roles) -> BOOLEAN]
  BY <1>2
<1>4. given \in Seq(Names) /\ \E at : Picks(given, roles, keep, at)
  <2> HIDE DEF roles, keep
  <2> QED BY <1>2, <1>3, PickedEntries
<1>5. PICK at : Picks(given, roles, keep, at)
  BY <1>4
<1> HIDE DEF given
<1>6. DOMAIN given = 1..Len(given) /\ Len(given) \in Nat
  BY <1>4
<1>7. \A k \in 1..Len(given) : given[k] \in DOMAIN Holder
  BY <1>2, <1>5 DEF Picks
<1>8. ASSUME NEW r \in MovedRoles(x) PROVE \E k \in 1..Len(given) : given[k] = r
  <2>1. PICK i \in 1..Len(roles) : roles[i] = r /\ r \in DOMAIN Holder
    BY <1>2 DEF MovedRoles
  <2>2. keep[i]
    BY <1>2, <2>1
  <2> HIDE DEF keep, roles
  <2>3. PICK k \in 1..Len(given) : at[k] = i
    BY <1>5, <2>2 DEF Picks
  <2> QED BY <1>5, <2>1, <2>3 DEF Picks
<1>9. ASSUME NEW r, r \in DOMAIN Holder \cup {"DEFAULT_ADMIN"}, NEW a \in {"Timelock", "Guardian"}
      PROVE  Grant(x, r, a) \in Settled({}) /\ Gives(Grant(x, r, a)) = {<<x, r, a>>}
  <2> DEFINE call == Grant(x, r, a)
  <2>1. call.fn = "grantRole" /\ call.to = x /\ call.role = r /\ call.who = a
    BY DEF Grant
  <2>2. call \in Calls
    BY <1>9 DEF Grant, Calls, Functions, Places, Names, Parties, Gated, Holder
  <2> HIDE DEF call
  <2>3. call \in LawfulCalls
    BY <2>1, <2>2 DEF LawfulCalls
  <2>4. Needs(call) = {} /\ ~Opens(call) /\ Gives(call) = {<<x, r, a>>}
    BY <2>1 DEF Needs, AdminNeeds, RoleNeeds, Opens, Gives, Triple
  <2>5. call \in Settled({})
    BY <2>1, <2>3, <2>4 DEF MoveCalls, Settled
  <2> QED BY <2>4, <2>5 DEF call
<1> HIDE DEF roles, keep
<1>10. ASSUME NEW k \in 1..Len(given)
       PROVE  rest[k] \in Settled({}) /\ Gives(rest[k]) = {<<x, given[k], Holder[given[k]]>>}
  <2>1. given[k] \in DOMAIN Holder /\ Holder[given[k]] \in {"Timelock", "Guardian"}
    BY <1>7, HolderOf
  <2> QED BY <1>6, <1>9, <2>1
<1>11. rest \in Seq(Settled({})) /\ Len(rest) = Len(given)
  <2>1. DOMAIN rest = 1..Len(given)
    BY <1>6
  <2>2. rest \in [1..Len(given) -> Settled({})]
    BY <1>6, <1>10
  <2> HIDE DEF rest
  <2> QED BY <1>6, <2>2
<1>12. first \in Seq(Settled({})) /\ Len(first) = 1 /\ first[1] = Grant(x, "DEFAULT_ADMIN", "Timelock")
  BY <1>9
<1> HIDE DEF rest, first
<1>13. first \o rest \in Seq(Settled({}))
  BY <1>11, <1>12
<1>14. Granted(first) \subseteq Granted(first \o rest) /\ Granted(rest) \subseteq Granted(first \o rest)
  BY <1>11, <1>12, GrantedJoin
<1>15. <<x, "DEFAULT_ADMIN", "Timelock">> \in Granted(first)
  <2>1. Gives(first[1]) = {<<x, "DEFAULT_ADMIN", "Timelock">>}
    BY <1>9, <1>12
  <2>2. 1 \in 1..Len(first)
    BY <1>12
  <2> QED BY <2>1, <2>2 DEF Granted
<1>16. ASSUME NEW r \in MovedRoles(x) PROVE <<x, r, Holder[r]>> \in Granted(rest)
  <2>1. PICK k \in 1..Len(given) : given[k] = r
    BY <1>8
  <2>2. <<x, r, Holder[r]>> \in Gives(rest[k])
    BY <1>10, <2>1
  <2> QED BY <1>11, <2>2 DEF Granted
<1> QED BY <1>1, <1>13, <1>14, <1>15, <1>16

\* The revocations on a target need what the grants on it give.
LEMMA RevokesOnTarget ==
  ASSUME NEW x \in Targets, NEW G, \A r \in MovedRoles(x) : <<x, r, Holder[r]>> \in G
  PROVE  RevokesOn(x) \in Seq(Settled(G))
<1> DEFINE roles == RolesOf(x)
           s == RevokesOn(x)
<1>1. /\ roles \in Seq(Names) /\ DOMAIN roles = 1..Len(roles)
      /\ \A i \in 1..Len(roles) : roles[i] # "DEFAULT_ADMIN"
  BY RolesNamed
<1>2. s = [i \in 1..Len(roles) |-> Revoke(x, roles[i], "Safe")]
  BY <1>1 DEF RevokesOn
<1>3. ASSUME NEW i \in 1..Len(roles) PROVE Revoke(x, roles[i], "Safe") \in Settled(G)
  <2> DEFINE r == roles[i]
             call == Revoke(x, r, "Safe")
  <2>1. r \in Names /\ r # "DEFAULT_ADMIN" /\ (r \in DOMAIN Holder => r \in MovedRoles(x))
    BY <1>1 DEF MovedRoles
  <2> HIDE DEF r
  <2>2. call.fn = "revokeRole" /\ call.to = x /\ call.role = r /\ call.who = "Safe"
    BY DEF Revoke
  <2>3. call \in Calls
    BY <2>1 DEF Revoke, Calls, Functions, Places, Parties, Gated
  <2> HIDE DEF call
  <2>4. call \in LawfulCalls
    BY <2>2, <2>3 DEF LawfulCalls
  <2>5. Needs(call) \subseteq G /\ ~Opens(call)
    BY <2>1, <2>2 DEF Needs, AdminNeeds, RoleNeeds, Opens
  <2>6. call \in Settled(G)
    BY <2>2, <2>4, <2>5 DEF MoveCalls, Settled
  <2> QED BY <2>6 DEF call, r
<1> HIDE DEF s
<1>4. Len(roles) \in Nat /\ s \in [1..Len(roles) -> Settled(G)]
  BY <1>1, <1>2, <1>3
<1> HIDE DEF roles
<1>5. s \in Seq(Settled(G))
  BY <1>4
<1> QED BY <1>5 DEF s

\* The calls with the Timelock as their object.
LEMMA TimelockCalls ==
  /\ \A r \in {"PROPOSER", "CANCELLER"} : \A a \in {"Governor", "Safe"} : Grant("Timelock", r, a) \in Settled({})
  /\ Call("setDelegate", "SRXToken") \in Settled({}) /\ Call("transferOwnership", "SRXToken") \in Settled({})
  /\ Call("execute", "Timelock") \in Settled({})
  /\ Revoke("Timelock", "PROPOSER", "Safe") \in Settled({})
<1>1. ASSUME NEW r \in {"PROPOSER", "CANCELLER"}, NEW a \in {"Governor", "Safe"}
      PROVE  Grant("Timelock", r, a) \in Settled({})
  <2> DEFINE call == Grant("Timelock", r, a)
  <2>1. call.fn = "grantRole" /\ call.to = "Timelock" /\ call.role = r /\ call.who = a
    BY DEF Grant
  <2>2. call \in Calls
    BY DEF Grant, Calls, Functions, Places, Names, Parties, Gated
  <2> HIDE DEF call
  <2>3. call \in LawfulCalls
    BY <2>1, <2>2 DEF LawfulCalls
  <2>4. Needs(call) = {} /\ ~Opens(call)
    BY <2>1 DEF Needs, AdminNeeds, RoleNeeds, Opens, Triple
  <2>5. call \in Settled({})
    BY <2>1, <2>3, <2>4 DEF MoveCalls, Settled
  <2> QED BY <2>5 DEF call
<1>2. ASSUME NEW f \in {"setDelegate", "transferOwnership", "execute"}, NEW x \in {"SRXToken", "Timelock"}
      PROVE  Call(f, x) \in Settled({})
  <2> DEFINE call == Call(f, x)
  <2>1. call.fn = f /\ call.who = "Timelock"
    BY DEF Call
  <2>2. call \in Calls
    BY DEF Call, Calls, Functions, Places, Names, Parties, Gated, Targets
  <2> HIDE DEF call
  <2>3. call \in LawfulCalls
    BY <2>1, <2>2 DEF LawfulCalls
  <2>4. Needs(call) = {} /\ ~Opens(call)
    BY <2>1 DEF Needs, AdminNeeds, RoleNeeds, Opens
  <2>5. call \in Settled({})
    BY <2>1, <2>3, <2>4 DEF MoveCalls, Settled
  <2> QED BY <2>5 DEF call
<1>3. Revoke("Timelock", "PROPOSER", "Safe") \in Settled({})
  <2> DEFINE call == Revoke("Timelock", "PROPOSER", "Safe")
  <2>1. call.fn = "revokeRole" /\ call.to = "Timelock" /\ call.role = "PROPOSER" /\ call.who = "Safe"
    BY DEF Revoke
  <2>2. call \in Calls
    BY DEF Revoke, Calls, Functions, Places, Names, Parties, Gated
  <2> HIDE DEF call
  <2>3. call \in LawfulCalls
    BY <2>1, <2>2 DEF LawfulCalls
  <2>4. Needs(call) = {} /\ ~Opens(call)
    BY <2>1 DEF Needs, AdminNeeds, RoleNeeds, Opens, Targets, Managed
  <2>5. call \in Settled({})
    BY <2>1, <2>3, <2>4 DEF MoveCalls, Settled
  <2> QED BY <2>5 DEF call
<1> QED BY <1>1, <1>2, <1>3

\* Phase 1 gives whatever it takes from the Safe before, and schedules last.
LEMMA PhaseOne == Phase1 \in Seq(MoveCalls) /\ Covered(Phase1, {})
<1> DEFINE three == << Grant("Timelock", "PROPOSER", "Governor"), Grant("Timelock", "CANCELLER", "Governor"),
                       Grant("Timelock", "CANCELLER", "Safe") >>
           last == << Call("setDelegate", "SRXToken"), Call("transferOwnership", "SRXToken"),
                      Grant("Timelock", "PROPOSER", "Safe"), Call("schedule", "Timelock") >>
           G == Granted(AllGrants)
           g == AllGrants
           r == AllRevokes
<1>1. Phase1 = g \o three \o r \o last
  BY DEF Phase1
<1>2. \A x \in {"SRXToken", "Treasury", "Staking", "FeeController", "StabilisationFund"} : x \in Targets
  BY DEF Targets, Managed
<1>3. \A x \in Targets : x \in {"SRXToken", "Treasury", "Staking", "FeeController", "StabilisationFund"}
  BY DEF Targets, Managed
<1>4. g = GrantsOn("SRXToken") \o GrantsOn("Treasury") \o GrantsOn("Staking") \o GrantsOn("FeeController")
              \o GrantsOn("StabilisationFund")
  BY DEF AllGrants, OnTargets
<1>5. r = RevokesOn("SRXToken") \o RevokesOn("Treasury") \o RevokesOn("Staking") \o RevokesOn("FeeController")
              \o RevokesOn("StabilisationFund")
  BY DEF AllRevokes, OnTargets
<1>6. /\ g \in Seq(Settled({}))
      /\ \A x \in Targets : Granted(GrantsOn(x)) \subseteq G
  <2> DEFINE a == GrantsOn("SRXToken")
             b == GrantsOn("Treasury")
             c == GrantsOn("Staking")
             d == GrantsOn("FeeController")
             e == GrantsOn("StabilisationFund")
             S == Settled({})
  <2>1. a \in Seq(S) /\ b \in Seq(S) /\ c \in Seq(S) /\ d \in Seq(S) /\ e \in Seq(S)
    BY <1>2, GrantsOnTarget
  <2>2. g = a \o b \o c \o d \o e
    BY <1>4
  <2> HIDE DEF a, b, c, d, e, S, g
  <2>3. g \in Seq(S) /\ Granted(a) \cup Granted(b) \cup Granted(c) \cup Granted(d) \cup Granted(e) \subseteq Granted(g)
    BY <2>1, <2>2, FiveJoined
  <2> QED BY <1>3, <2>3 DEF a, b, c, d, e, S, g
<1>7. r \in Seq(Settled(G))
  <2> DEFINE a == RevokesOn("SRXToken")
             b == RevokesOn("Treasury")
             c == RevokesOn("Staking")
             d == RevokesOn("FeeController")
             e == RevokesOn("StabilisationFund")
             S == Settled(G)
  <2>1. ASSUME NEW x \in Targets PROVE RevokesOn(x) \in Seq(S)
    <3>1. \A q \in MovedRoles(x) : <<x, q, Holder[q]>> \in G
      BY <1>6, GrantsOnTarget
    <3> HIDE DEF G
    <3> QED BY <3>1, RevokesOnTarget
  <2>2. a \in Seq(S) /\ b \in Seq(S) /\ c \in Seq(S) /\ d \in Seq(S) /\ e \in Seq(S)
    BY <1>2, <2>1
  <2>3. r = a \o b \o c \o d \o e
    BY <1>5
  <2> HIDE DEF a, b, c, d, e, S, r
  <2>4. r \in Seq(S)
    BY <2>2, <2>3, FiveJoined
  <2> QED BY <2>4 DEF S
<1>8. Call("schedule", "Timelock") \in Settled(G)
  <2> DEFINE call == Call("schedule", "Timelock")
  <2>1. call.fn = "schedule"
    BY DEF Call
  <2>2. call \in Calls
    BY DEF Call, Calls, Functions, Places, Names, Parties, Gated
  <2> HIDE DEF call
  <2>3. call \in LawfulCalls
    BY <2>1, <2>2 DEF LawfulCalls
  <2>4. AdminNeeds(call) \subseteq G
    BY <1>6, <2>1, GrantsOnTarget DEF AdminNeeds
  <2>5. RoleNeeds(call) = {} /\ ~Opens(call)
    BY <2>1 DEF RoleNeeds, Opens
  <2>6. call \in Settled(G)
    BY <2>1, <2>3, <2>4, <2>5 DEF MoveCalls, Settled, Needs
  <2> QED BY <2>6 DEF call
<1>9. Settled({}) \subseteq Settled(G) /\ Settled(G) \subseteq MoveCalls
  BY DEF Settled
<1>10. three \in Seq(Settled({})) /\ last \in Seq(Settled(G))
  <2>1. three \in Seq(Settled({}))
    BY TimelockCalls
  <2>2. last \in Seq(Settled(G))
    BY <1>8, <1>9, TimelockCalls
  <2> QED BY <2>1, <2>2
<1> HIDE DEF g, r, three, last
<1>11. /\ g \in Seq(MoveCalls) /\ three \in Seq(MoveCalls) /\ r \in Seq(MoveCalls) /\ last \in Seq(MoveCalls)
       /\ Covered(g, {}) /\ Covered(three, {}) /\ Covered(r, G) /\ Covered(last, G)
  BY <1>6, <1>7, <1>10, SettledCovered
<1>12. G = Granted(g)
  BY DEF g
<1> HIDE DEF G
<1>13. g \o three \in Seq(MoveCalls) /\ Covered(g \o three, {}) /\ G \subseteq Granted(g \o three)
  <2>1. Covered(three, {} \cup Granted(g))
    BY <1>11, CoveredOn
  <2> QED BY <1>11, <1>12, <2>1, CoveredJoin, GrantedJoin
<1>14. /\ g \o three \o r \in Seq(MoveCalls) /\ Covered(g \o three \o r, {})
       /\ G \subseteq Granted(g \o three \o r)
  <2> DEFINE p == g \o three
             all == {} \cup Granted(p)
  <2>1. p \in Seq(MoveCalls) /\ Covered(p, {}) /\ G \subseteq all
    BY <1>13
  <2> HIDE DEF p
  <2>2. Covered(r, all)
    <3> HIDE DEF all
    <3> QED BY <1>11, <2>1, CoveredOn
  <2>3. Covered(p \o r, {})
    BY <1>11, <2>1, <2>2, CoveredJoin
  <2>4. Granted(p) \subseteq Granted(p \o r) /\ p \o r \in Seq(MoveCalls)
    BY <1>11, <2>1, GrantedJoin
  <2> QED BY <2>1, <2>3, <2>4 DEF p
<1>15. g \o three \o r \o last \in Seq(MoveCalls) /\ Covered(g \o three \o r \o last, {})
  <2> DEFINE p == g \o three \o r
             all == {} \cup Granted(p)
  <2>1. p \in Seq(MoveCalls) /\ Covered(p, {}) /\ G \subseteq all
    BY <1>14
  <2> HIDE DEF p
  <2>2. Covered(last, all)
    <3> HIDE DEF all
    <3> QED BY <1>11, <2>1, CoveredOn
  <2>3. Covered(p \o last, {})
    BY <1>11, <2>1, <2>2, CoveredJoin
  <2>4. p \o last \in Seq(MoveCalls)
    BY <1>11, <2>1
  <2> QED BY <2>3, <2>4 DEF p
<1> QED BY <1>1, <1>15

\* Phase 2 takes the Safe's administration, where the Timelock has it.
LEMMA PhaseTwo ==
  ASSUME NEW G, \A x \in Gated : <<x, "DEFAULT_ADMIN", "Timelock">> \in G
  PROVE  Phase2 \in Seq(MoveCalls) /\ Covered(Phase2, G)
<1> DEFINE S == Settled(G)
           first == << Call("execute", "Timelock"), Revoke("Timelock", "PROPOSER", "Safe") >>
           a == RevokeAdmin("SRXToken")
           b == RevokeAdmin("Treasury")
           c == RevokeAdmin("Staking")
           d == RevokeAdmin("FeeController")
           e == RevokeAdmin("StabilisationFund")
           r == a \o b \o c \o d \o e
           last == << Revoke("Timelock", "DEFAULT_ADMIN", "Safe") >>
<1>1. Phase2 = first \o r \o last
  BY DEF Phase2, OnTargets
<1>2. ASSUME NEW x \in Gated PROVE Revoke(x, "DEFAULT_ADMIN", "Safe") \in S
  <2> DEFINE call == Revoke(x, "DEFAULT_ADMIN", "Safe")
  <2>1. call.fn = "revokeRole" /\ call.to = x /\ call.role = "DEFAULT_ADMIN" /\ call.who = "Safe"
    BY DEF Revoke
  <2>2. call \in Calls
    BY DEF Revoke, Calls, Functions, Places, Names, Parties
  <2> HIDE DEF call
  <2>3. call \in LawfulCalls
    BY <2>1, <2>2 DEF LawfulCalls
  <2>4. AdminNeeds(call) \subseteq G /\ ~Opens(call)
    BY <2>1 DEF AdminNeeds, Opens
  <2>5. RoleNeeds(call) = {}
    BY <2>1 DEF RoleNeeds, Holder
  <2>6. call \in S
    BY <2>1, <2>3, <2>4, <2>5 DEF MoveCalls, Settled, Needs
  <2> QED BY <2>6 DEF call
<1>3. a \in Seq(S) /\ b \in Seq(S) /\ c \in Seq(S) /\ d \in Seq(S) /\ e \in Seq(S) /\ last \in Seq(S)
  <2>1. ASSUME NEW x \in Gated PROVE RevokeAdmin(x) \in Seq(S)
    <3>1. Revoke(x, "DEFAULT_ADMIN", "Safe") \in S
      BY <1>2
    <3> HIDE DEF S
    <3> QED BY <3>1 DEF RevokeAdmin
  <2>2. \A x \in {"SRXToken", "Treasury", "Staking", "FeeController", "StabilisationFund", "Timelock"} : x \in Gated
    BY DEF Gated, Targets, Managed
  <2>3. last = RevokeAdmin("Timelock")
    BY DEF RevokeAdmin
  <2> HIDE DEF S, last
  <2> QED BY <2>1, <2>2, <2>3
<1>4. first \in Seq(S)
  <2>1. Settled({}) \subseteq S
    BY DEF Settled
  <2> HIDE DEF S
  <2> QED BY <2>1, TimelockCalls
<1> HIDE DEF a, b, c, d, e, first, last, S
<1>5. first \o r \o last \in Seq(S)
  BY <1>3, <1>4
<1>6. Phase2 \in Seq(S)
  BY <1>1, <1>5
<1> QED BY <1>6, SettledCovered DEF S

\* What migrate_roles.js leaves out is in place.
LEMMA TodoCovered ==
  ASSUME NEW steps \in Seq(MoveCalls), Covered(steps, Kept(chain))
  PROVE  Todo(steps) \in Seq(MoveCalls) /\ Covered(Todo(steps), Kept(chain))
<1> DEFINE keep == [i \in DOMAIN steps |-> ~Done(steps[i])]
           G == Kept(chain)
<1>1. DOMAIN steps = 1..Len(steps) /\ \A i \in 1..Len(steps) : steps[i] \in MoveCalls
  OBVIOUS
<1>2. keep \in [1..Len(steps) -> BOOLEAN]
  BY <1>1
<1>3. ASSUME NEW i \in 1..Len(steps) PROVE keep[i] \/ Gives(steps[i]) \subseteq G
  <2> DEFINE call == steps[i]
  <2>1. keep[i] = ~Done(call)
    BY <1>1
  <2> HIDE DEF call
  <2>2. CASE call.fn = "grantRole" /\ call.who \in {"Timelock", "Guardian"}
    <3>1. call # Grant("Timelock", "PROPOSER", "Safe")
      BY <2>2 DEF Grant
    <3>2. Done(call) => Holds(call.to, call.role, call.who)
      BY <2>2, <3>1 DEF Done
    <3>3. Done(call) => Triple(call) \in G
      BY <2>2, <3>2 DEF Holds, Triple, Kept
    <3>4. Gives(call) = {Triple(call)}
      BY <2>2 DEF Gives
    <3>5. CASE Done(call)
      BY <3>3, <3>4, <3>5 DEF call
    <3>6. CASE ~Done(call)
      BY <2>1, <3>6
    <3> QED BY <3>5, <3>6
  <2>3. CASE ~(call.fn = "grantRole" /\ call.who \in {"Timelock", "Guardian"})
    BY <2>3 DEF Gives, call
  <2> QED BY <2>2, <2>3
<1>4. Todo(steps) = Picked(steps, keep)
  BY DEF Todo
<1> HIDE DEF keep, G
<1>5. Covered(steps, G)
  BY DEF G
<1>6. Picked(steps, keep) \in Seq(MoveCalls)
  BY <1>2, PickedEntries
<1>7. Covered(Picked(steps, keep), G)
  BY <1>2, <1>3, <1>5, CoveredSkip
<1> QED BY <1>4, <1>6, <1>7 DEF G

-----------------------------------------------------------------------------
(***************************************************************************)
(* The wiring of the deploy scripts, and the older hand-over.              *)
(***************************************************************************)
Ready(G) == {call \in LawfulCalls : Needs(call) \subseteq G}

\* A list whose needs a first part gives.
LEMMA CoveredOnward ==
  ASSUME NEW H, NEW p \in Seq(LawfulCalls), NEW q \in Seq(Ready(H)), Covered(p, {}), H \subseteq Granted(p)
  PROVE  p \o q \in Seq(LawfulCalls) /\ Covered(p \o q, {}) /\ H \subseteq Granted(p \o q)
<1> DEFINE all == {} \cup Granted(p)
<1>1. \A i \in 1..Len(q) : q[i] \in Ready(H)
  OBVIOUS
<1>2. \A i \in 1..Len(q) : Needs(q[i]) \subseteq all
  BY <1>1 DEF Ready
<1>3. q \in Seq(LawfulCalls)
  <2>1. Ready(H) \subseteq LawfulCalls
    BY DEF Ready
  <2> QED BY <2>1
<1>4. Covered(q, all)
  <2> HIDE DEF all
  <2> QED BY <1>2, CoveredPlain
<1>5. Covered(p \o q, {})
  BY <1>3, <1>4, CoveredJoin
<1>6. Granted(p) \subseteq Granted(p \o q)
  BY <1>3, GrantedJoin
<1> QED BY <1>3, <1>5, <1>6

\* Lists that do not make the Safe governance of the guardian.
LEMMA PlainPassing ==
  ASSUME NEW s, \A i \in 1..Len(s) : ~Opens(s[i])
  PROVE  Passing(s)
BY DEF Passing

\* And one that does for as long as its first part.
LEMMA PassingAround ==
  ASSUME NEW p \in Seq(LawfulCalls), NEW call \in LawfulCalls, Closes(call), NEW q \in Seq(MoveCalls)
  PROVE  Passing(p \o <<call>> \o q)
<1> DEFINE s == p \o <<call>> \o q
           l == Len(p)
           m == Len(q)
<1>1. /\ l \in Nat /\ m \in Nat /\ Len(s) = l + 1 + m
      /\ s[l + 1] = call
      /\ \A i \in 1..m : s[l + 1 + i] = q[i] /\ q[i] \in MoveCalls
  OBVIOUS
<1> HIDE DEF s, l, m
<1>2. ASSUME NEW i \in 1..Len(s), Opens(s[i]) PROVE \E j \in (i + 1)..Len(s) : Closes(s[j])
  <2>1. i # l + 1
    BY <1>1, <1>2 DEF Opens, Closes
  <2>2. ASSUME i > l + 1 PROVE FALSE
    <3> DEFINE k == i - (l + 1)
    <3>1. k \in 1..m /\ l + 1 + k = i
      BY <1>1, <2>2
    <3> HIDE DEF k
    <3>2. s[i] \in MoveCalls
      BY <1>1, <3>1
    <3> QED BY <1>2, <3>2 DEF MoveCalls
  <2>3. l + 1 \in (i + 1)..Len(s)
    BY <1>1, <2>1, <2>2
  <2> QED BY <1>1, <2>3
<1>3. Passing(s)
  BY <1>2 DEF Passing
<1> QED BY <1>3 DEF s

\* A grant that is lawful needs nothing.
LEMMA GrantReady ==
  ASSUME NEW x \in Places, NEW r \in Names, NEW a \in Parties \ {"Deployer"},
         a = "Safe" => x = "Guardian" /\ r = "GOVERNANCE"
  PROVE  /\ Grant(x, r, a) \in Ready({})
         /\ a # "Safe" => Grant(x, r, a) \in Settled({})
         /\ a \in {"Timelock", "Guardian"} => Gives(Grant(x, r, a)) = {<<x, r, a>>}
<1> DEFINE call == Grant(x, r, a)
<1>1. call.fn = "grantRole" /\ call.to = x /\ call.role = r /\ call.who = a
  BY DEF Grant
<1>2. call \in Calls
  BY DEF Grant, Calls, Functions
<1> HIDE DEF call
<1>3. call \in LawfulCalls
  BY <1>1, <1>2 DEF LawfulCalls
<1>4. Needs(call) = {} /\ (a # "Safe" => ~Opens(call))
  BY <1>1 DEF Needs, AdminNeeds, RoleNeeds, Opens, Triple
<1>5. a \in {"Timelock", "Guardian"} => Gives(call) = {<<x, r, a>>}
  BY <1>1 DEF Gives, Triple
<1> QED BY <1>1, <1>3, <1>4, <1>5 DEF Ready, Settled, MoveCalls, call

\* A role is taken from the admin or from the deployer where its holder has it.
LEMMA RevokeSettled ==
  ASSUME NEW x \in Places, NEW r \in Names \ {"DEFAULT_ADMIN"}, NEW a \in {"Safe", "Deployer"}, NEW G,
         x \in Targets /\ r \in DOMAIN Holder => <<x, r, Holder[r]>> \in G
  PROVE  Revoke(x, r, a) \in Settled(G) /\ Revoke(x, r, a) \in Ready(G)
<1> DEFINE call == Revoke(x, r, a)
<1>1. call.fn = "revokeRole" /\ call.to = x /\ call.role = r /\ call.who = a
  BY DEF Revoke
<1>2. call \in Calls
  BY DEF Revoke, Calls, Functions, Parties
<1> HIDE DEF call
<1>3. call \in LawfulCalls
  BY <1>1, <1>2 DEF LawfulCalls
<1>4. Needs(call) \subseteq G /\ ~Opens(call)
  BY <1>1 DEF Needs, AdminNeeds, RoleNeeds, Opens
<1> QED BY <1>1, <1>3, <1>4 DEF Ready, Settled, MoveCalls, call

\* Lists as functions.
LEMMA ListFunction ==
  ASSUME NEW S, NEW n \in Nat, NEW f
  PROVE  /\ f \in [1..n -> S] => f \in Seq(S) /\ Len(f) = n
         /\ f \in Seq(S) /\ Len(f) = n => f \in [1..n -> S]
OBVIOUS

\* The targets, the pausable ones and those of the older script.
LEMMA Orders ==
  /\ PausableOrder \in Seq(Targets) /\ Len(PausableOrder) = 5 /\ DOMAIN PausableOrder = 1..5
  /\ HardenOrder \in Seq(Targets) /\ Len(HardenOrder) = 4 /\ DOMAIN HardenOrder = 1..4
  /\ ModuleIds \in Seq(Names) /\ Len(ModuleIds) = 6 /\ DOMAIN ModuleIds = 1..6
  /\ Targets \subseteq Places /\ Targets \subseteq Gated /\ "Timelock" \in Gated \ Targets
  /\ "Guardian" \in Places \ Gated /\ "Migrator" \in Places \ Gated
  /\ Deployer \in {"Safe", "Deployer"}
<1>1. PausableOrder \in Seq(Targets) /\ Len(PausableOrder) = 5 /\ DOMAIN PausableOrder = 1..5
  BY DEF PausableOrder, Targets, Managed
<1>2. HardenOrder \in Seq(Targets) /\ Len(HardenOrder) = 4 /\ DOMAIN HardenOrder = 1..4
  BY DEF HardenOrder, Targets, Managed
<1>3. ModuleIds \in Seq(Names) /\ Len(ModuleIds) = 6 /\ DOMAIN ModuleIds = 1..6
  BY DEF ModuleIds, Names
<1>4. /\ Targets \subseteq Places /\ Targets \subseteq Gated /\ "Timelock" \in Gated \ Targets
      /\ "Guardian" \in Places \ Gated /\ "Migrator" \in Places \ Gated
      /\ Deployer \in {"Safe", "Deployer"}
  BY DEF Places, Gated, Targets, Managed, Deployer
<1> QED BY <1>1, <1>2, <1>3, <1>4

\* A grant on each of a few targets, and what it gives.
LEMMA GrantEach ==
  ASSUME NEW n \in Nat, NEW order \in [1..n -> Targets], NEW r \in DOMAIN Holder, NEW s,
         s = [i \in 1..n |-> Grant(order[i], r, Holder[r])]
  PROVE  s \in Seq(Settled({})) /\ \A i \in 1..n : <<order[i], r, Holder[r]>> \in Granted(s)
<1>1. r \in Names /\ Holder[r] \in {"Timelock", "Guardian"}
  BY HolderOf DEF Holder, Names
<1>2. Holder[r] \in Parties \ {"Deployer"} /\ Holder[r] # "Safe"
  BY <1>1 DEF Parties
<1>3. ASSUME NEW i \in 1..n
      PROVE  s[i] \in Settled({}) /\ Gives(s[i]) = {<<order[i], r, Holder[r]>>}
  <2>1. order[i] \in Places
    BY Orders
  <2>2. s[i] = Grant(order[i], r, Holder[r])
    OBVIOUS
  <2> QED BY <1>1, <1>2, <2>1, <2>2, GrantReady
<1>4. s \in [1..n -> Settled({})]
  BY <1>3
<1>5. s \in Seq(Settled({})) /\ Len(s) = n
  BY <1>4
<1> QED BY <1>3, <1>5 DEF Granted

\* The wiring of the guardian pauses for nobody what nobody else can pause, and
\* ends the governance that it begins.
LEMMA GuardianWired ==
  GuardianWiring \in Seq(LawfulCalls) /\ Covered(GuardianWiring, {}) /\ Passing(GuardianWiring)
<1> DEFINE grants  == [i \in DOMAIN PausableOrder |-> Grant(PausableOrder[i], "PAUSER", "Guardian")]
           two     == <<Grant("Guardian", "CIRCUIT_BREAKER", "Monitor"), Grant("Guardian", "GOVERNANCE", "Safe")>>
           regs    == RegisterAll
           close   == Revoke("Guardian", "GOVERNANCE", "Safe")
           revokes == [i \in DOMAIN PausableOrder |-> Revoke(PausableOrder[i], "PAUSER", Deployer)]
           able    == [i \in DOMAIN PausableOrder |-> Holds(PausableOrder[i], "PAUSER", Deployer)]
           rest    == Picked(revokes, able)
           H       == Granted(grants)
<1>1. GuardianWiring = grants \o two \o regs \o <<close>> \o rest
  BY DEF GuardianWiring
<1>2. PausableOrder \in [1..5 -> Targets] /\ DOMAIN PausableOrder = 1..5
  BY Orders, ListFunction, 5 \in Nat
<1>0. ModuleIds \in [1..6 -> Names]
  BY Orders, ListFunction, 6 \in Nat
<1>3. grants \in Seq(Settled({})) /\ \A i \in 1..5 : <<PausableOrder[i], "PAUSER", "Guardian">> \in H
  <2>1. "PAUSER" \in DOMAIN Holder /\ Holder["PAUSER"] = "Guardian" /\ 5 \in Nat
    BY DEF Holder
  <2>2. grants = [i \in 1..5 |-> Grant(PausableOrder[i], "PAUSER", Holder["PAUSER"])]
    BY <1>2, <2>1
  <2> HIDE DEF grants
  <2> QED BY <1>2, <2>1, <2>2, GrantEach
<1>4. two \in Seq(Ready(H))
  <2>1. /\ "Guardian" \in Places /\ "CIRCUIT_BREAKER" \in Names /\ "GOVERNANCE" \in Names
        /\ "Monitor" \in Parties \ {"Deployer"} /\ "Safe" \in Parties \ {"Deployer"}
    BY Orders DEF Names, Parties
  <2>2. /\ Grant("Guardian", "CIRCUIT_BREAKER", "Monitor") \in Ready({})
        /\ Grant("Guardian", "GOVERNANCE", "Safe") \in Ready({})
    BY <2>1, GrantReady
  <2>3. Ready({}) \subseteq Ready(H)
    BY DEF Ready
  <2> HIDE DEF H
  <2> QED BY <2>2, <2>3
<1>5. regs \in Seq(Ready(H))
  <2>1. ASSUME NEW i \in 1..6 PROVE Register(ModuleIds[i]) \in Ready(H)
    <3> DEFINE call == Register(ModuleIds[i])
    <3>1. call.fn = "registerModule"
      BY DEF Register
    <3>2. ModuleIds[i] \in Names
      BY <1>0
    <3>3. call \in Calls
      BY <3>2, Orders DEF Register, Calls, Functions, Parties
    <3> HIDE DEF call
    <3>4. Needs(call) = {} /\ call \in LawfulCalls
      BY <3>1, <3>3 DEF Needs, AdminNeeds, RoleNeeds, LawfulCalls
    <3> QED BY <3>4 DEF Ready, call
  <2>2. regs = [i \in 1..6 |-> Register(ModuleIds[i])]
    BY Orders DEF RegisterAll
  <2> HIDE DEF H, regs
  <2>3. regs \in [1..6 -> Ready(H)]
    BY <2>1, <2>2
  <2> QED BY <2>3, ListFunction, 6 \in Nat
<1>6. close \in Ready(H) /\ close \in LawfulCalls /\ Closes(close)
  <2>1. /\ "Guardian" \in Places /\ "GOVERNANCE" \in Names \ {"DEFAULT_ADMIN"} /\ "Safe" \in {"Safe", "Deployer"}
        /\ "Guardian" \notin Targets
    BY Orders DEF Names
  <2>2. close \in Ready(H)
    <3> HIDE DEF H
    <3> QED BY <2>1, RevokeSettled
  <2>3. Closes(close)
    BY DEF Closes, Revoke, Triple
  <2> QED BY <2>2, <2>3 DEF Ready
<1>7. rest \in Seq(Settled(H))
  <2>1. ASSUME NEW i \in 1..5 PROVE Revoke(PausableOrder[i], "PAUSER", Deployer) \in Settled(H)
    <3> DEFINE x == PausableOrder[i]
    <3>1. /\ x \in Places /\ "PAUSER" \in Names \ {"DEFAULT_ADMIN"} /\ Deployer \in {"Safe", "Deployer"}
          /\ Holder["PAUSER"] = "Guardian" /\ <<x, "PAUSER", "Guardian">> \in H
      BY <1>2, <1>3, Orders DEF Names, Holder
    <3> HIDE DEF H, x
    <3>2. Revoke(x, "PAUSER", Deployer) \in Settled(H)
      BY <3>1, RevokeSettled
    <3> QED BY <3>2 DEF x
  <2>2. revokes \in Seq(Settled(H)) /\ Len(revokes) = 5
    <3>1. revokes = [i \in 1..5 |-> Revoke(PausableOrder[i], "PAUSER", Deployer)]
      BY <1>2
    <3> HIDE DEF H, revokes
    <3>2. revokes \in [1..5 -> Settled(H)]
      BY <2>1, <3>1
    <3> QED BY <3>2, ListFunction, 5 \in Nat
  <2>3. able \in [1..5 -> BOOLEAN]
    BY <1>2 DEF Holds
  <2> HIDE DEF H, revokes, able
  <2> QED BY <2>2, <2>3, PickedEntries
<1>8. grants \in Seq(LawfulCalls) /\ Covered(grants, {}) /\ H \subseteq Granted(grants)
  <2>1. grants \in Seq(MoveCalls) /\ Covered(grants, {})
    <3> HIDE DEF grants
    <3> QED BY <1>3, SettledCovered
  <2>2. MoveCalls \subseteq LawfulCalls
    BY DEF MoveCalls
  <2> HIDE DEF grants
  <2> QED BY <2>1, <2>2
<1>9. rest \in Seq(Ready(H)) /\ rest \in Seq(MoveCalls)
  <2>1. Settled(H) \subseteq Ready(H) /\ Settled(H) \subseteq MoveCalls
    BY DEF Settled, Ready, MoveCalls
  <2> HIDE DEF rest, H
  <2> QED BY <1>7, <2>1
<1> HIDE DEF grants, two, regs, close, rest, H
<1>10. <<close>> \in Seq(Ready(H))
  BY <1>6
<1> DEFINE p1 == grants \o two
           p2 == p1 \o regs
           p3 == p2 \o <<close>>
           p4 == p3 \o rest
<1>11. p1 \in Seq(LawfulCalls) /\ Covered(p1, {}) /\ H \subseteq Granted(p1)
  BY <1>4, <1>8, CoveredOnward
<1>12. p2 \in Seq(LawfulCalls) /\ Covered(p2, {}) /\ H \subseteq Granted(p2)
  <2> HIDE DEF p1
  <2> QED BY <1>5, <1>11, CoveredOnward
<1>13. p3 \in Seq(LawfulCalls) /\ Covered(p3, {}) /\ H \subseteq Granted(p3)
  <2> HIDE DEF p2
  <2> DEFINE one == <<close>>
  <2> HIDE DEF one
  <2>1. p2 \o one \in Seq(LawfulCalls) /\ Covered(p2 \o one, {}) /\ H \subseteq Granted(p2 \o one)
    BY <1>10, <1>12, CoveredOnward DEF one
  <2> QED BY <2>1 DEF one
<1>14. p4 \in Seq(LawfulCalls) /\ Covered(p4, {})
  <2> HIDE DEF p3
  <2> QED BY <1>9, <1>13, CoveredOnward
<1>15. Passing(p4)
  <2> HIDE DEF p2
  <2> QED BY <1>6, <1>9, <1>12, PassingAround
<1> QED BY <1>1, <1>14, <1>15

\* The other deploy scripts submit nothing but grants, and one revocation.
LEMMA OthersWired ==
  /\ <<Grant("SRXToken", "BURN", "Treasury")>> \in Seq(MoveCalls)
  /\ Covered(<<Grant("SRXToken", "BURN", "Treasury")>>, {})
  /\ <<Grant("StabilisationFund", "GOVERNANCE", "Timelock")>> \in Seq(MoveCalls)
  /\ Covered(<<Grant("StabilisationFund", "GOVERNANCE", "Timelock")>>, {})
  /\ MigratorWiring \in Seq(LawfulCalls) /\ Covered(MigratorWiring, {}) /\ Passing(MigratorWiring)
<1>1. /\ "SRXToken" \in Places \cap Targets /\ "StabilisationFund" \in Places /\ "Migrator" \in Places
      /\ "Migrator" \notin Targets
      /\ {"BURN", "GOVERNANCE", "ORACLE", "none"} \subseteq Names \ {"DEFAULT_ADMIN"}
      /\ {"Treasury", "Timelock", "Oracle", "Migrator"} \subseteq Parties \ {"Deployer", "Safe"}
  BY Orders DEF Targets, Managed, Names, Parties
<1>2. /\ Grant("SRXToken", "BURN", "Treasury") \in Settled({})
      /\ Grant("StabilisationFund", "GOVERNANCE", "Timelock") \in Settled({})
      /\ Grant("Migrator", "GOVERNANCE", "Timelock") \in Settled({})
      /\ Grant("Migrator", "ORACLE", "Oracle") \in Settled({})
      /\ Grant("SRXToken", "BURN", "Migrator") \in Settled({})
  BY <1>1, GrantReady
<1>3. Revoke("Migrator", "GOVERNANCE", "Safe") \in Settled({})
  BY <1>1, RevokeSettled
<1>4. Call("setExempt", "SRXToken") \in Ready({}) /\ ~Opens(Call("setExempt", "SRXToken"))
  <2> DEFINE call == Call("setExempt", "SRXToken")
  <2>1. call.fn = "setExempt"
    BY DEF Call
  <2>2. call \in Calls
    BY <1>1 DEF Call, Calls, Functions
  <2> HIDE DEF call
  <2>3. Needs(call) = {} /\ call \in LawfulCalls /\ ~Opens(call)
    BY <2>1, <2>2 DEF Needs, AdminNeeds, RoleNeeds, LawfulCalls, Opens
  <2> QED BY <2>3 DEF Ready, call
<1>5. Settled({}) \subseteq Ready({}) /\ \A call \in Settled({}) : ~Opens(call)
  BY DEF Settled, Ready, MoveCalls
<1>6. ASSUME NEW call \in Settled({}) PROVE <<call>> \in Seq(MoveCalls) /\ Covered(<<call>>, {})
  <2> DEFINE s == <<call>>
  <2>1. s \in Seq(Settled({}))
    OBVIOUS
  <2> HIDE DEF s
  <2>2. s \in Seq(MoveCalls) /\ Covered(s, {})
    BY <2>1, SettledCovered
  <2> QED BY <2>2 DEF s
<1> DEFINE s == MigratorWiring
           Quiet == {call \in Ready({}) : ~Opens(call)}
<1>7. s \in Seq(Quiet)
  <2>1. /\ Grant("Migrator", "GOVERNANCE", "Timelock") \in Quiet
        /\ Grant("Migrator", "ORACLE", "Oracle") \in Quiet
        /\ Grant("SRXToken", "BURN", "Migrator") \in Quiet
        /\ Call("setExempt", "SRXToken") \in Quiet
        /\ Revoke("Migrator", "GOVERNANCE", "Safe") \in Quiet
    BY <1>2, <1>3, <1>4, <1>5
  <2> HIDE DEF Quiet
  <2> QED BY <2>1 DEF MigratorWiring
<1> HIDE DEF s
<1>8. \A i \in 1..Len(s) : s[i] \in Quiet
  <2> HIDE DEF Quiet
  <2> QED BY <1>7
<1>9. s \in Seq(LawfulCalls)
  <2>1. Quiet \subseteq LawfulCalls
    BY DEF Ready
  <2> HIDE DEF Quiet
  <2> QED BY <1>7, <2>1
<1>10. Covered(s, {}) /\ Passing(s)
  <2>1. \A i \in 1..Len(s) : Needs(s[i]) \subseteq {} /\ ~Opens(s[i])
    BY <1>8 DEF Ready
  <2> QED BY <2>1, CoveredPlain, PlainPassing
<1> QED BY <1>2, <1>6, <1>9, <1>10 DEF s

\* The calls of pre_mainnet_roles.js: no administration, and on the test stack
\* nothing is taken that was not given.
HardenCalls == {call \in MoveCalls : call.fn \in {"grantRole", "revokeRole"} /\ call.role # "DEFAULT_ADMIN"}

\* The calls of pre_mainnet_roles.js give the Timelock what they take from the deployer.
LEMMA HardenWired == HardenSteps \in Seq(HardenCalls) /\ Covered(HardenSteps, {})
<1> DEFINE grants  == [i \in DOMAIN HardenOrder |-> Grant(HardenOrder[i], "GOVERNANCE", "Timelock")]
           revokes == [i \in DOMAIN HardenOrder |-> Revoke(HardenOrder[i], "GOVERNANCE", Deployer)]
           last    == <<Revoke("Timelock", "PROPOSER", Deployer)>>
           H       == Granted(grants)
<1>1. HardenSteps = grants \o revokes \o last
  BY DEF HardenSteps
<1>2. HardenOrder \in [1..4 -> Targets] /\ DOMAIN HardenOrder = 1..4
  BY Orders, ListFunction, 4 \in Nat
<1>3. grants \in Seq(Settled({})) /\ \A i \in 1..4 : <<HardenOrder[i], "GOVERNANCE", "Timelock">> \in H
  <2>1. "GOVERNANCE" \in DOMAIN Holder /\ Holder["GOVERNANCE"] = "Timelock" /\ 4 \in Nat
    BY DEF Holder
  <2>2. grants = [i \in 1..4 |-> Grant(HardenOrder[i], "GOVERNANCE", Holder["GOVERNANCE"])]
    BY <1>2, <2>1
  <2> HIDE DEF grants
  <2> QED BY <1>2, <2>1, <2>2, GrantEach
<1>4. ASSUME NEW i \in 1..4 PROVE Revoke(HardenOrder[i], "GOVERNANCE", Deployer) \in Ready(H)
  <2> DEFINE x == HardenOrder[i]
  <2>1. /\ x \in Places /\ "GOVERNANCE" \in Names \ {"DEFAULT_ADMIN"} /\ Deployer \in {"Safe", "Deployer"}
        /\ Holder["GOVERNANCE"] = "Timelock" /\ <<x, "GOVERNANCE", "Timelock">> \in H
    BY <1>2, <1>3, Orders DEF Names, Holder
  <2> HIDE DEF H, x
  <2>2. Revoke(x, "GOVERNANCE", Deployer) \in Ready(H)
    BY <2>1, RevokeSettled
  <2> QED BY <2>2 DEF x
<1>5. revokes \in Seq(Ready(H))
  <2>1. revokes = [i \in 1..4 |-> Revoke(HardenOrder[i], "GOVERNANCE", Deployer)]
    BY <1>2
  <2> HIDE DEF H, revokes
  <2>2. revokes \in [1..4 -> Ready(H)]
    BY <1>4, <2>1
  <2> QED BY <2>2
<1>6. last \in Seq(Ready(H))
  <2>1. /\ "Timelock" \in Places /\ "Timelock" \notin Targets /\ "PROPOSER" \in Names \ {"DEFAULT_ADMIN"}
        /\ Deployer \in {"Safe", "Deployer"}
    BY Orders DEF Names, Places
  <2> HIDE DEF H
  <2>2. Revoke("Timelock", "PROPOSER", Deployer) \in Ready(H)
    BY <2>1, RevokeSettled
  <2> QED BY <2>2
<1>7. grants \in Seq(LawfulCalls) /\ Covered(grants, {}) /\ H \subseteq Granted(grants)
  <2>1. grants \in Seq(MoveCalls) /\ Covered(grants, {})
    <3> HIDE DEF grants
    <3> QED BY <1>3, SettledCovered
  <2>2. MoveCalls \subseteq LawfulCalls
    BY DEF MoveCalls
  <2> HIDE DEF grants
  <2> QED BY <2>1, <2>2
<1>8. grants \in Seq(HardenCalls) /\ revokes \in Seq(HardenCalls) /\ last \in Seq(HardenCalls)
  <2>1. ASSUME NEW x \in Places, NEW r \in {"GOVERNANCE", "PROPOSER"}, NEW a \in {"Safe", "Deployer"}
        PROVE  Revoke(x, r, a) \in HardenCalls
    <3>1. r \in Names \ {"DEFAULT_ADMIN"}
      BY DEF Names
    <3>2. Revoke(x, r, a) \in Settled({<<x, r, Holder[r]>>})
      BY <3>1, RevokeSettled
    <3> QED BY <3>2 DEF HardenCalls, Settled, Revoke
  <2>2. ASSUME NEW i \in 1..4
        PROVE  grants[i] \in HardenCalls /\ revokes[i] \in HardenCalls
    <3>1. grants[i] = Grant(HardenOrder[i], "GOVERNANCE", "Timelock") /\ revokes[i] = Revoke(HardenOrder[i], "GOVERNANCE", Deployer)
      BY <1>2
    <3>2. grants[i] \in MoveCalls
      <4> DEFINE S == Settled({})
      <4>1. Len(grants) = 4
        BY <1>2, <1>3
      <4> HIDE DEF grants, S
      <4>2. grants \in [1..4 -> S]
        BY <1>3, <4>1, ListFunction, 4 \in Nat DEF S
      <4>3. grants[i] \in S
        BY <4>2
      <4> QED BY <4>3 DEF S, Settled
    <3>3. grants[i].fn = "grantRole" /\ grants[i].role = "GOVERNANCE"
      BY <3>1 DEF Grant
    <3>4. HardenOrder[i] \in Places /\ Deployer \in {"Safe", "Deployer"}
      BY <1>2, Orders
    <3>5. revokes[i] \in HardenCalls
      BY <2>1, <3>1, <3>4
    <3> HIDE DEF grants, revokes
    <3> QED BY <3>2, <3>3, <3>5 DEF HardenCalls
  <2>3. grants \in [1..4 -> HardenCalls] /\ revokes \in [1..4 -> HardenCalls]
    BY <1>2, <2>2
  <2>4. Revoke("Timelock", "PROPOSER", Deployer) \in HardenCalls
    BY <2>1, Orders DEF Places
  <2> HIDE DEF grants, revokes
  <2>5. grants \in Seq(HardenCalls) /\ revokes \in Seq(HardenCalls)
    BY <2>3, ListFunction, 4 \in Nat
  <2> QED BY <2>4, <2>5
<1> HIDE DEF grants, revokes, last, H
<1>9. grants \o revokes \in Seq(LawfulCalls) /\ Covered(grants \o revokes, {}) /\ H \subseteq Granted(grants \o revokes)
  BY <1>5, <1>7, CoveredOnward
<1>10. Covered(grants \o revokes \o last, {})
  <2> DEFINE p == grants \o revokes
  <2> HIDE DEF p
  <2>1. Covered(p \o last, {})
    BY <1>6, <1>9, CoveredOnward DEF p
  <2> QED BY <2>1 DEF p
<1> QED BY <1>1, <1>8, <1>10

-----------------------------------------------------------------------------
(***************************************************************************)
(* What constructors leave: each contract with the Safe as administrator,  *)
(* its roles with a holder, nothing with the deployer.                     *)
(***************************************************************************)
\* The deployer holds nothing, and the Safe of the roles that move only those of
\* the contract.
Fine(t) ==
    /\ t \in Triples /\ t[3] # "Deployer"
    /\ t[3] = "Safe" /\ t[1] \in Targets /\ t[2] \in DOMAIN Holder => t[2] \in MovedRoles(t[1])

Founds(cs, G) ==
    /\ \A t \in G : Fine(t) /\ t[1] \in cs
    /\ \A x \in cs : <<x, "DEFAULT_ADMIN", "Safe">> \in G
    /\ \A x \in cs \cap Targets : \A r \in MovedRoles(x) : <<x, r, "Safe">> \in G \/ <<x, r, Holder[r]>> \in G
    /\ "Timelock" \in cs => <<"Timelock", "DEFAULT_ADMIN", "Timelock">> \in G
    /\ <<"Guardian", "GOVERNANCE", "Safe">> \notin G

\* Two deployments, and a deployment with grants that follow it.
LEMMA FoundsBoth ==
  ASSUME NEW A, NEW B, NEW G, NEW H, Founds(A, G), Founds(B, H)
  PROVE  Founds(A \cup B, G \cup H)
BY DEF Founds

\* Grants by hand after a deployment.
LEMMA FoundsMore ==
  ASSUME NEW A, NEW G, NEW H, Founds(A, G), \A t \in H : Fine(t) /\ t[1] \in A, <<"Guardian", "GOVERNANCE", "Safe">> \notin H
  PROVE  Founds(A, G \cup H)
BY DEF Founds

\* The roles that move, contract by contract.
LEMMA MovedRolesAre ==
  ASSUME NEW x \in Targets
  PROVE  MovedRoles(x) = IF x = "SRXToken" THEN {"GOVERNANCE", "PAUSER"}
                         ELSE IF x = "Treasury" THEN {"GOVERNANCE", "UPGRADER", "PAUSER", "SPENDER"}
                         ELSE {"GOVERNANCE", "UPGRADER", "PAUSER"}
<1> DEFINE s == RolesOf(x)
           H == {"GOVERNANCE", "UPGRADER", "SPENDER", "PAUSER"}
           M == {s[i] : i \in DOMAIN s} \cap H
<1>1. MovedRoles(x) = M
  BY DEF MovedRoles, Holder
<1>2. CASE x = "SRXToken"
  <2>1. s = <<"GOVERNANCE", "PAUSER", "BURN">>
    BY <1>2 DEF RolesOf
  <2> QED BY <1>1, <1>2, <2>1
<1>3. CASE x = "Treasury"
  <2>1. s = <<"GOVERNANCE", "UPGRADER", "PAUSER", "SPENDER">>
    BY <1>3 DEF RolesOf
  <2> QED BY <1>1, <1>3, <2>1
<1>4. CASE x \notin {"SRXToken", "Treasury"}
  <2>1. s = <<"GOVERNANCE", "UPGRADER", "PAUSER">>
    BY <1>4 DEF RolesOf
  <2> QED BY <1>1, <1>4, <2>1
<1> QED BY <1>2, <1>3, <1>4

\* The triples of one grantee on one contract.
LEMMA AllFine ==
  ASSUME NEW x \in Places, NEW R, R \subseteq Names, NEW a \in Parties \ {"Deployer"},
         a = "Safe" /\ x \in Targets => \A r \in R : r \in DOMAIN Holder => r \in MovedRoles(x)
  PROVE  \A t \in All(x, R, a) : Fine(t) /\ t[1] = x
BY DEF All, Fine, Triples

\* A contract of the managed set, or the treasury, in the hands of the Safe.
LEMMA ManagedFounds ==
  ASSUME NEW x \in Managed \cup {"Treasury"}
  PROVE  /\ \A t \in BornManaged(x) : Fine(t) /\ t[1] = x
         /\ <<x, "DEFAULT_ADMIN", "Safe">> \in BornManaged(x)
         /\ \A r \in {"GOVERNANCE", "UPGRADER", "PAUSER"} : <<x, r, "Safe">> \in BornManaged(x)
<1> DEFINE R == {"DEFAULT_ADMIN", "GOVERNANCE", "PAUSER", "UPGRADER"}
<1>1. x \in Targets /\ x \in Places /\ x # "SRXToken"
  BY Orders DEF Targets, Managed
<1>2. \A r \in R : r \in DOMAIN Holder => r \in MovedRoles(x)
  <2>1. "DEFAULT_ADMIN" \notin DOMAIN Holder
    BY DEF Holder
  <2> QED BY <1>1, <2>1, MovedRolesAre
<1>3. R \subseteq Names /\ "Safe" \in Parties \ {"Deployer"}
  BY DEF Names, Parties
<1>4. \A t \in All(x, R, "Safe") : Fine(t) /\ t[1] = x
  <2> HIDE DEF R
  <2> QED BY <1>1, <1>2, <1>3, AllFine
<1>5. \A r \in R : <<x, r, "Safe">> \in All(x, R, "Safe")
  BY DEF All
<1>6. BornManaged(x) = All(x, R, "Safe")
  BY DEF BornManaged
<1> QED BY <1>4, <1>5, <1>6

\* A managed contract as 04 and 05b leave it.
LEMMA ManagedFoundsOne ==
  ASSUME NEW x \in Managed
  PROVE  Founds({x}, BornManaged(x))
<1>1. x \notin {"SRXToken", "Treasury", "Timelock", "Guardian"} /\ x \in Targets
  BY DEF Managed, Targets
<1>2. MovedRoles(x) = {"GOVERNANCE", "UPGRADER", "PAUSER"}
  BY <1>1, MovedRolesAre
<1>3. <<"Guardian", "GOVERNANCE", "Safe">> \notin BornManaged(x)
  <2>1. \A t \in BornManaged(x) : t[1] = x
    BY <1>1, ManagedFounds
  <2> QED BY <1>1, <2>1
<1> QED BY <1>1, <1>2, <1>3, ManagedFounds DEF Founds

\* The treasury as 05 leaves it.
LEMMA TreasuryFounds == Founds({"Treasury"}, BornTreasury)
<1> DEFINE R == {"SPENDER", "UPGRADER"}
           G == BornManaged("Treasury")
           H == All("Treasury", R, "Timelock")
<1>1. BornTreasury = G \cup H
  BY DEF BornTreasury
<1>2. /\ "Treasury" \in Targets /\ "Treasury" \in Places /\ "Treasury" \notin {"SRXToken", "Timelock", "Guardian"}
  BY Orders DEF Targets
<1>3. \A t \in H : Fine(t) /\ t[1] = "Treasury"
  <2>1. R \subseteq Names /\ "Timelock" \in Parties \ {"Deployer"} /\ "Timelock" # "Safe"
    BY DEF Names, Parties
  <2> HIDE DEF R
  <2> QED BY <1>2, <2>1, AllFine
<1>4. MovedRoles("Treasury") = {"GOVERNANCE", "UPGRADER", "PAUSER", "SPENDER"}
  BY <1>2, MovedRolesAre
<1>5. <<"Treasury", "SPENDER", Holder["SPENDER"]>> \in H
  BY DEF All, Holder
<1>6. /\ \A t \in G : Fine(t) /\ t[1] = "Treasury"
      /\ <<"Treasury", "DEFAULT_ADMIN", "Safe">> \in G
      /\ \A r \in {"GOVERNANCE", "UPGRADER", "PAUSER"} : <<"Treasury", r, "Safe">> \in G
  BY ManagedFounds
<1> HIDE DEF G, H
<1>7. <<"Guardian", "GOVERNANCE", "Safe">> \notin G \cup H
  BY <1>2, <1>3, <1>6
<1> QED BY <1>1, <1>2, <1>3, <1>4, <1>5, <1>6, <1>7 DEF Founds

\* The token as 01 leaves it.
LEMMA TokenFounds == Founds({"SRXToken"}, BornToken)
<1> DEFINE R == {"DEFAULT_ADMIN", "GOVERNANCE", "PAUSER"}
<1>1. "SRXToken" \in Targets /\ "SRXToken" \in Places
  BY Orders DEF Targets
<1>2. MovedRoles("SRXToken") = {"GOVERNANCE", "PAUSER"}
  BY <1>1, MovedRolesAre
<1>3. \A r \in R : r \in DOMAIN Holder => r \in MovedRoles("SRXToken")
  BY <1>2 DEF Holder
<1>4. R \subseteq Names /\ "Safe" \in Parties \ {"Deployer"}
  BY DEF Names, Parties
<1>5. \A r \in R : <<"SRXToken", r, "Safe">> \in BornToken
  BY DEF BornToken, All
<1>6. \A t \in BornToken : Fine(t) /\ t[1] = "SRXToken"
  <2>1. BornToken = All("SRXToken", R, "Safe")
    BY DEF BornToken
  <2> HIDE DEF R
  <2> QED BY <1>1, <1>3, <1>4, <2>1, AllFine
<1>7. <<"Guardian", "GOVERNANCE", "Safe">> \notin BornToken
  BY <1>6
<1> QED BY <1>2, <1>5, <1>6, <1>7 DEF Founds

\* The other contracts.
LEMMA OthersFound ==
  /\ Founds({"Timelock"}, BornTimelock) /\ Founds({"Timelock"}, BornTimelock \cup ProposerByName)
  /\ Founds({"Guardian"}, BornGuardian) /\ Founds({"Migrator"}, BornMigrator)
<1>1. ASSUME NEW x \in Places \ Targets, NEW r \in Names, NEW a \in Parties \ {"Deployer"}
      PROVE  Fine(<<x, r, a>>)
  BY DEF Fine, Triples
<1>2. /\ {"Timelock", "Guardian", "Migrator"} \subseteq Places \ Targets
      /\ {"DEFAULT_ADMIN", "PROPOSER", "CANCELLER", "GUARDIAN", "GOVERNANCE"} \subseteq Names
      /\ {"Safe", "Timelock", "Governor"} \subseteq Parties \ {"Deployer"}
  BY Orders DEF Places, Targets, Managed, Names, Parties
<1>3. Founds({"Timelock"}, BornTimelock)
  <2>1. BornTimelock = {<<"Timelock", "DEFAULT_ADMIN", "Timelock">>, <<"Timelock", "DEFAULT_ADMIN", "Safe">>}
    BY DEF BornTimelock, All
  <2> QED BY <1>1, <1>2, <2>1 DEF Founds
<1>4. Founds({"Timelock"}, BornTimelock \cup ProposerByName)
  <2>1. ProposerByName = {<<"Timelock", "PROPOSER", "Governor">>, <<"Timelock", "CANCELLER", "Governor">>}
    BY DEF ProposerByName, All
  <2>2. \A t \in ProposerByName : Fine(t) /\ t[1] \in {"Timelock"}
    BY <1>1, <1>2, <2>1
  <2>3. <<"Guardian", "GOVERNANCE", "Safe">> \notin ProposerByName
    BY <2>1
  <2> QED BY <1>3, <2>2, <2>3, FoundsMore
<1>5. Founds({"Guardian"}, BornGuardian)
  <2>1. BornGuardian = {<<"Guardian", "DEFAULT_ADMIN", "Safe">>, <<"Guardian", "GUARDIAN", "Safe">>,
                        <<"Guardian", "GOVERNANCE", "Timelock">>}
    BY DEF BornGuardian, All
  <2> QED BY <1>1, <1>2, <2>1 DEF Founds
<1>6. Founds({"Migrator"}, BornMigrator)
  <2>1. BornMigrator = {<<"Migrator", "DEFAULT_ADMIN", "Safe">>, <<"Migrator", "GOVERNANCE", "Safe">>}
    BY DEF BornMigrator, All
  <2> QED BY <1>1, <1>2, <2>1 DEF Founds
<1> QED BY <1>3, <1>4, <1>5, <1>6

\* The governed set as a whole, on the test stack and in a rehearsal.
LEMMA StacksFound == Founds(Gated, Teststack) /\ Founds(Gated \cup {"Guardian"}, Rehearsal)
<1> DEFINE M == UNION {BornManaged(c) : c \in Managed}
           a == {"SRXToken"}
           b == {"Timelock"}
           d == {"Treasury"}
           e == {"Guardian"}
<1>1. Founds(Managed, M)
  <2>1. \A x \in Managed : Founds({x}, BornManaged(x))
    BY ManagedFoundsOne
  <2>2. "Timelock" \notin Managed /\ \A x \in Managed : BornManaged(x) \subseteq M
    BY DEF Managed
  <2>3. \A t \in M : \E x \in Managed : t \in BornManaged(x)
    OBVIOUS
  <2> HIDE DEF M
  <2>4. ASSUME NEW t \in M PROVE Fine(t) /\ t[1] \in Managed
    <3>1. PICK x \in Managed : t \in BornManaged(x)
      BY <2>3
    <3>2. Founds({x}, BornManaged(x))
      BY <2>1
    <3>3. Fine(t) /\ t[1] \in {x}
      BY <3>1, <3>2 DEF Founds
    <3> QED BY <3>3
  <2>5. \A x \in Managed : <<x, "DEFAULT_ADMIN", "Safe">> \in M
    BY <2>1, <2>2 DEF Founds
  <2>6. ASSUME NEW x \in Managed, x \in Targets, NEW r \in MovedRoles(x)
        PROVE  <<x, r, "Safe">> \in M \/ <<x, r, Holder[r]>> \in M
    <3>1. Founds({x}, BornManaged(x)) /\ BornManaged(x) \subseteq M /\ x \in {x} \cap Targets
      BY <2>1, <2>2, <2>6
    <3> QED BY <2>6, <3>1 DEF Founds
  <2>7. <<"Guardian", "GOVERNANCE", "Safe">> \notin M
    BY <2>1, <2>3 DEF Founds
  <2> QED BY <2>2, <2>4, <2>5, <2>6, <2>7 DEF Founds
<1>2. Gated = a \cup b \cup d \cup Managed
  BY DEF Gated, Targets
<1> HIDE DEF M
<1>3. Founds(a \cup b, BornToken \cup BornTimelock)
  BY TokenFounds, OthersFound, FoundsBoth
<1>4. Founds((a \cup b) \cup d, (BornToken \cup BornTimelock) \cup BornTreasury)
  <2> DEFINE A == a \cup b
             G == BornToken \cup BornTimelock
  <2>1. Founds(A, G)
    BY <1>3
  <2> HIDE DEF A, G
  <2>2. Founds(A \cup d, G \cup BornTreasury)
    BY <2>1, TreasuryFounds, FoundsBoth
  <2> QED BY <2>2 DEF A, G
<1>5. Founds(Gated, BornToken \cup BornTimelock \cup BornTreasury \cup M)
  <2> DEFINE A == a \cup b \cup d
             G == BornToken \cup BornTimelock \cup BornTreasury
  <2>1. Founds(A, G)
    BY <1>4
  <2> HIDE DEF A, G
  <2>2. Founds(A \cup Managed, G \cup M)
    BY <1>1, <2>1, FoundsBoth
  <2> QED BY <1>2, <2>2 DEF A, G
<1> DEFINE G == BornToken \cup BornTimelock \cup BornTreasury \cup M
           H == {<<"Timelock", "PROPOSER", "Governor">>, <<"Timelock", "CANCELLER", "Safe">>,
                 <<"Staking", "GOVERNANCE", "Timelock">>, <<"SRXToken", "BURN", "Treasury">>,
                 <<"StabilisationFund", "GOVERNANCE", "Timelock">>}
<1>6. Founds(Gated, Teststack)
  <2>1. ASSUME NEW x \in Gated, NEW r \in Names, NEW p \in Parties \ {"Deployer"}, p = "Safe" => x \notin Targets
        PROVE  Fine(<<x, r, p>>)
    BY <2>1 DEF Fine, Triples, Places
  <2>2. /\ {"Timelock", "Staking", "SRXToken", "StabilisationFund"} \subseteq Gated /\ "Timelock" \notin Targets
        /\ {"PROPOSER", "CANCELLER", "GOVERNANCE", "BURN"} \subseteq Names
        /\ {"Governor", "Safe", "Timelock", "Treasury"} \subseteq Parties \ {"Deployer"}
    BY DEF Gated, Targets, Managed, Names, Parties
  <2>3. \A t \in H : Fine(t) /\ t[1] \in Gated
    BY <2>1, <2>2
  <2>4. <<"Guardian", "GOVERNANCE", "Safe">> \notin H
    OBVIOUS
  <2>5. Teststack = G \cup H
    BY DEF Teststack, M
  <2> HIDE DEF G, H
  <2> QED BY <1>5, <2>3, <2>4, <2>5, FoundsMore DEF G
<1>7. Founds(Gated \cup e, Rehearsal)
  <2>1. Founds(b, BornTimelock \cup ProposerByName)
    BY OthersFound
  <2>2. Founds(Gated \cup b, G \cup (BornTimelock \cup ProposerByName))
    <3> HIDE DEF G, b
    <3> QED BY <1>5, <2>1, FoundsBoth DEF G
  <2> DEFINE K == G \cup (BornTimelock \cup ProposerByName)
  <2>3. Gated \cup b = Gated
    BY <1>2
  <2>4. Founds(Gated, K)
    BY <2>2, <2>3
  <2> HIDE DEF K
  <2>5. Founds(Gated \cup e, K \cup BornGuardian)
    BY <2>4, OthersFound, FoundsBoth
  <2>6. Rehearsal = K \cup BornGuardian
    BY DEF Rehearsal, M, K
  <2> QED BY <2>5, <2>6
<1> QED BY <1>6, <1>7

-----------------------------------------------------------------------------
(***************************************************************************)
(* The invariant.                                                          *)
(***************************************************************************)
\* What every deployment and every call leaves.
BornInv ==
    /\ mode \in AllModes /\ deployed \subseteq Places /\ chain \in Chains
    /\ mode # "safe" => Gated \subseteq deployed
    /\ "Timelock" \in deployed => <<"Timelock", "DEFAULT_ADMIN", "Timelock">> \in chain.holds
    /\ \A t \in chain.holds : Fine(t)

AdminInv == Administered(chain, deployed)

\* Only a failed run of the older script may leave a role without its holder.
Failing == run.script = "pre_mainnet_roles" /\ run.failed
FillInv == gaps \/ Failing \/ Filled(chain, deployed)

\* Whatever was written for the Safe may be executed at any time: what it needs
\* is in place, and it ends the governance that it begins.
BatchInv == \A b \in batches : b \in Seq(LawfulCalls) /\ Covered(b, Kept(chain)) /\ Passing(b)

\* What is being sent.
Scripts == {"05_treasury", "05b_stabilisation", "08_guardian", "09_migrator", "migrate_roles", "pre_mainnet_roles"}
RunInv ==
    run # NoRun =>
        /\ mode # "safe"
        /\ run \in [script : Scripts, todo : Seq(LawfulCalls), failed : BOOLEAN]
        /\ run.script = "pre_mainnet_roles" =>
               /\ mode = "teststack" /\ run.todo \in Seq(HardenCalls)
               /\ ~run.failed => Covered(run.todo, Kept(chain))
        /\ run.script # "pre_mainnet_roles" => run.todo # <<>> /\ Covered(run.todo, Kept(chain))

LateInv == late \subseteq HardenCalls /\ (late = {} \/ gaps \/ Failing)

GovInv == mode = "safe" => ~Governing(chain)

HardInv ==
    hardened =>
        /\ mode = "teststack"
        /\ \A i \in 1..4 : /\ <<HardenOrder[i], "GOVERNANCE", "Timelock">> \in chain.holds
                           /\ <<HardenOrder[i], "GOVERNANCE", "Safe">> \notin chain.holds

\* What the gate has looked at is out of the Safe's hands.
Clean(c, x) ==
    IF x = "bridge" THEN c.owner = "Timelock" /\ c.pending = "nobody" /\ c.delegate = "Timelock"
    ELSE /\ <<x, "DEFAULT_ADMIN", "Timelock">> \in c.holds
         /\ <<x, "DEFAULT_ADMIN", "Safe">> \notin c.holds
         /\ x \in Targets => \A r \in DOMAIN Holder : <<x, r, "Safe">> \notin c.holds
GateInv ==
    /\ gate # "idle" => Gated \cup {"Guardian"} \subseteq deployed
    /\ \A i \in 1..7 : gate = GateOrder[i] => \A j \in 1..(i - 1) : Clean(chain, GateOrder[j])
    /\ gate = "passed" => \A j \in 1..7 : Clean(chain, GateOrder[j])

HandoverInv ==
    /\ BornInv /\ AdminInv /\ FillInv /\ BatchInv /\ RunInv /\ LateInv
    /\ GovInv /\ HardInv /\ GateInv

\* Moves as far as the governed set is concerned: deployments of others too.
Onward(c, d) ==
    /\ d \in Chains
    /\ \A t \in d.holds \ c.holds : t[1] \in Gated =>
           t[3] # "Deployer" /\ (t[3] = "Safe" => t[1] = "Timelock" /\ t[2] # "DEFAULT_ADMIN")
    /\ \A t \in c.holds \ d.holds : t[3] \in {"Safe", "Deployer"}
    /\ c.owner = "Timelock" /\ c.pending = "nobody" /\ c.delegate = "Timelock"
           => d.owner = "Timelock" /\ d.pending = "nobody" /\ d.delegate = "Timelock"

\* So do calls.
LEMMA MovesOnward ==
  ASSUME NEW c, NEW d, Moves(c, d)
  PROVE  Onward(c, d)
<1>1. "Guardian" \notin Gated
  BY Orders
<1> QED BY <1>1 DEF Moves, Onward

\* What is clean stays clean.
LEMMA CleanOnward ==
  ASSUME NEW c, NEW d, Onward(c, d), NEW x \in Gated \cup {"bridge"}, Clean(c, x)
  PROVE  Clean(d, x)
<1>1. "bridge" \notin Gated /\ "Timelock" \notin Targets /\ "DEFAULT_ADMIN" \notin DOMAIN Holder
  BY DEF Gated, Targets, Managed, Holder
<1>2. CASE x = "bridge"
  BY <1>2 DEF Clean, Onward
<1>3. CASE x # "bridge"
  <2>1. <<x, "DEFAULT_ADMIN", "Timelock">> \in d.holds
    BY <1>3 DEF Clean, Onward
  <2>2. ASSUME NEW r, <<x, r, "Safe">> \in d.holds, <<x, r, "Safe">> \notin c.holds
        PROVE  x = "Timelock" /\ r # "DEFAULT_ADMIN"
    BY <1>3, <2>2 DEF Onward
  <2> QED BY <1>1, <1>3, <2>1, <2>2 DEF Clean
<1> QED BY <1>2, <1>3

\* The order in which the gate looks.
LEMMA GateOrders ==
  /\ DOMAIN GateOrder = 1..7 /\ Len(GateOrder) = 7
  /\ \A i \in 1..7 : GateOrder[i] \in Gated \cup {"bridge"} /\ GateOrder[i] \notin {"idle", "passed"}
  /\ \A i, j \in 1..7 : GateOrder[i] = GateOrder[j] => i = j
  /\ \A x \in Gated \cup {"bridge"} : \E i \in 1..7 : GateOrder[i] = x
<1>1. DOMAIN GateOrder = 1..7 /\ Len(GateOrder) = 7
  BY DEF GateOrder
<1>2. /\ GateOrder[1] = "SRXToken" /\ GateOrder[2] = "Timelock" /\ GateOrder[3] = "Treasury"
      /\ GateOrder[4] = "Staking" /\ GateOrder[5] = "FeeController" /\ GateOrder[6] = "StabilisationFund"
      /\ GateOrder[7] = "bridge"
  BY DEF GateOrder
<1>3. \A i \in 1..7 : i = 1 \/ i = 2 \/ i = 3 \/ i = 4 \/ i = 5 \/ i = 6 \/ i = 7
  OBVIOUS
<1>4. \A i \in 1..7 : GateOrder[i] \in Gated \cup {"bridge"} /\ GateOrder[i] \notin {"idle", "passed"}
  BY <1>2, <1>3 DEF Gated, Targets, Managed
<1>5. \A i, j \in 1..7 : GateOrder[i] = GateOrder[j] => i = j
  BY <1>2, <1>3
<1>6. \A x \in Gated \cup {"bridge"} : \E i \in 1..7 : GateOrder[i] = x
  BY <1>2 DEF Gated, Targets, Managed
<1> QED BY <1>1, <1>4, <1>5, <1>6

\* What holds of the governed set holds after such a step.
LEMMA FirmStays ==
  ASSUME HardInv, GateInv, Onward(chain, chain'), deployed \subseteq deployed',
         UNCHANGED <<mode, gate, hardened>>
  PROVE  HardInv' /\ GateInv'
<1>1. ASSUME NEW x \in Gated \cup {"bridge"}, Clean(chain, x) PROVE Clean(chain', x)
  BY <1>1, CleanOnward
<1>2. GateInv'
  <2>1. gate # "idle" => Gated \cup {"Guardian"} \subseteq deployed'
    BY DEF GateInv
  <2>2. \A i \in 1..7 : gate = GateOrder[i] => \A j \in 1..(i - 1) : Clean(chain', GateOrder[j])
    <3>1. \A i \in 1..7 : \A j \in 1..(i - 1) : j \in 1..7
      OBVIOUS
    <3> QED BY <1>1, <3>1, GateOrders DEF GateInv
  <2>3. gate = "passed" => \A j \in 1..7 : Clean(chain', GateOrder[j])
    BY <1>1, GateOrders DEF GateInv
  <2> QED BY <2>1, <2>2, <2>3 DEF GateInv
<1>3. HardInv'
  <2>1. ASSUME hardened, NEW i \in 1..4
        PROVE  /\ <<HardenOrder[i], "GOVERNANCE", "Timelock">> \in chain'.holds
               /\ <<HardenOrder[i], "GOVERNANCE", "Safe">> \notin chain'.holds
    <3> DEFINE x == HardenOrder[i]
    <3>1. x \in Gated /\ x # "Timelock"
      <4>1. HardenOrder \in [1..4 -> Targets] /\ Targets \subseteq Gated /\ "Timelock" \notin Targets
        BY Orders, ListFunction, 4 \in Nat
      <4>2. x \in Targets
        BY <4>1
      <4> QED BY <4>1, <4>2
    <3>2. /\ <<x, "GOVERNANCE", "Timelock">> \in chain.holds
          /\ <<x, "GOVERNANCE", "Safe">> \notin chain.holds
      BY <2>1 DEF HardInv
    <3> HIDE DEF x
    <3>3. <<x, "GOVERNANCE", "Timelock">> \in chain'.holds /\ <<x, "GOVERNANCE", "Safe">> \notin chain'.holds
      BY <3>1, <3>2 DEF Onward
    <3> QED BY <3>3 DEF x
  <2> QED BY <2>1 DEF HardInv
<1> QED BY <1>2, <1>3

\* Calls keep what deployments leave.
LEMMA MovesBorn ==
  ASSUME BornInv, Moves(chain, chain'), UNCHANGED <<mode, deployed>>
  PROVE  BornInv'
<1>1. /\ chain' \in Chains
      /\ <<"Timelock", "DEFAULT_ADMIN", "Timelock">> \in chain.holds
             => <<"Timelock", "DEFAULT_ADMIN", "Timelock">> \in chain'.holds
  BY DEF Moves
<1>2. ASSUME NEW t \in chain'.holds PROVE Fine(t)
  <2>1. CASE t \in chain.holds
    BY <2>1 DEF BornInv
  <2>2. CASE t \notin chain.holds
    <3>1. t \in Triples
      BY <1>1, <1>2 DEF Chains
    <3>2. "Guardian" \notin Targets /\ "Timelock" \notin Targets
      BY Orders
    <3>3. t[3] # "Deployer" /\ (t[3] = "Safe" => t[1] \notin Targets)
      BY <1>2, <2>2, <3>2 DEF Moves
    <3> QED BY <3>1, <3>3 DEF Fine
  <2> QED BY <2>1, <2>2
<1> QED BY <1>1, <1>2 DEF BornInv

\* What the batches and the running script need stays in place.
LEMMA PlansStay ==
  ASSUME Kept(chain) \subseteq Kept(chain')
  PROVE  /\ BatchInv /\ batches' = batches => BatchInv'
         /\ RunInv /\ UNCHANGED <<mode, run>> => RunInv'
<1>1. \A s : Covered(s, Kept(chain)) => Covered(s, Kept(chain'))
  BY CoveredOn
<1> QED BY <1>1 DEF BatchInv, RunInv

\* A step that changes nothing but the chain, within what a call may do.
LEMMA QuietStep ==
  ASSUME HandoverInv, UNCHANGED <<mode, deployed, batches, run, gate, hardened, gaps>>, late' \subseteq late,
         Moves(chain, chain'), Administered(chain', deployed),
         gaps \/ Failing \/ (Filled(chain, deployed) => Filled(chain', deployed)),
         mode = "safe" /\ ~Governing(chain) => ~Governing(chain')
  PROVE  HandoverInv'
<1>1. BornInv'
  BY MovesBorn DEF HandoverInv
<1>2. AdminInv'
  BY DEF AdminInv
<1>3. Failing' <=> Failing
  BY DEF Failing
<1>4. FillInv'
  BY <1>3 DEF HandoverInv, FillInv
<1>5. LateInv'
  BY <1>3 DEF HandoverInv, LateInv
<1>6. GovInv'
  BY DEF HandoverInv, GovInv
<1>7. BatchInv' /\ RunInv'
  BY MovesKeep, PlansStay DEF HandoverInv
<1>8. HardInv' /\ GateInv'
  BY MovesOnward, FirmStays DEF HandoverInv
<1> QED BY <1>1, <1>2, <1>4, <1>5, <1>6, <1>7, <1>8 DEF HandoverInv

\* A step that leaves the chain as it is keeps what holds of it alone.
LEMMA SameChain ==
  ASSUME HandoverInv, UNCHANGED <<mode, deployed, chain>>
  PROVE  /\ BornInv' /\ AdminInv' /\ GovInv'
         /\ batches' = batches => BatchInv'
         /\ run' = run => RunInv'
         /\ hardened' = hardened => HardInv'
         /\ gate' = gate => GateInv'
BY DEF HandoverInv, BornInv, AdminInv, GovInv, BatchInv, RunInv, HardInv, GateInv

\* The Safe executes a batch.
LEMMA ExecuteBatchKeeps ==
  ASSUME HandoverInv, NEW calls \in batches, ExecuteBatch(calls)
  PROVE  HandoverInv'
<1>1. /\ chain \in Chains /\ calls \in Seq(LawfulCalls) /\ Covered(calls, Kept(chain)) /\ Passing(calls)
      /\ Administered(chain, deployed)
  BY DEF HandoverInv, BornInv, BatchInv, AdminInv
<1>2. /\ chain' \in Execute(calls, chain)
      /\ UNCHANGED <<mode, deployed, batches, run, late, gate, hardened, gaps>>
  BY DEF ExecuteBatch
<1>3. /\ Moves(chain, chain') /\ Administered(chain', deployed)
      /\ Filled(chain, deployed) => Filled(chain', deployed)
      /\ Passing(calls) /\ ~Governing(chain) => ~Governing(chain')
  BY <1>1, <1>2, BatchKeeps
<1> QED BY <1>1, <1>2, <1>3, QuietStep

\* Anybody executes the acceptance.
LEMMA AnyoneKeeps ==
  ASSUME HandoverInv, ExecuteByAnyone
  PROVE  HandoverInv'
<1> DEFINE call == Call("execute", "Timelock")
<1>1. chain \in Chains /\ Administered(chain, deployed)
  BY DEF HandoverInv, BornInv, AdminInv
<1>2. ~Reverts(chain, call) /\ chain' = Effect(chain, call)
      /\ UNCHANGED <<mode, deployed, batches, run, late, gate, hardened, gaps>>
  BY DEF ExecuteByAnyone
<1>3. call \in LawfulCalls /\ Needs(call) \subseteq {} /\ ~Opens(call)
  BY TimelockCalls DEF Settled, MoveCalls
<1> HIDE DEF call
<1>4. /\ Moves(chain, chain') /\ Administered(chain', deployed)
      /\ Filled(chain, deployed) => Filled(chain', deployed)
      /\ Governing(chain') => Opens(call) \/ (Governing(chain) /\ ~Closes(call))
  BY <1>1, <1>2, <1>3, NextCall
<1> QED BY <1>2, <1>3, <1>4, QuietStep

\* The operation's clock, and a veto.
LEMMA OperationKeeps ==
  ASSUME HandoverInv, TimelockDelay \/ Cancel
  PROVE  HandoverInv'
<1>1. chain \in Chains /\ Administered(chain, deployed)
  BY DEF HandoverInv, BornInv, AdminInv
<1>2. /\ UNCHANGED <<mode, deployed, batches, run, late, gate, hardened, gaps>>
      /\ \E o \in {"ready", "unset"} : /\ chain' = [chain EXCEPT !.operation = o]
                                       /\ chain.operation # "unset"
  BY DEF TimelockDelay, Cancel
<1>3. PICK o \in {"ready", "unset"} : chain' = [chain EXCEPT !.operation = o] /\ chain.operation # "unset"
  BY <1>2
<1>4. /\ chain' \in Chains /\ chain'.holds = chain.holds /\ chain'.owner = chain.owner
      /\ chain'.pending = chain.pending /\ chain'.delegate = chain.delegate /\ chain'.operation = o
  BY <1>1, <1>3 DEF Chains
<1>5. Moves(chain, chain')
  BY <1>4 DEF Moves
<1>6. Administered(chain', deployed)
  BY <1>1, <1>3, <1>4 DEF Administered
<1>7. Filled(chain, deployed) => Filled(chain', deployed)
  BY <1>4 DEF Filled
<1>8. ~Governing(chain) => ~Governing(chain')
  BY <1>4 DEF Governing
<1> QED BY <1>2, <1>5, <1>6, <1>7, <1>8, QuietStep

\* The tiers of the fund.
LEMMA FundTiersKeep ==
  ASSUME HandoverInv, GrantFundTiers
  PROVE  HandoverInv'
<1>1. chain \in Chains /\ Administered(chain, deployed)
  BY DEF HandoverInv, BornInv, AdminInv
<1> DEFINE H == {<<"StabilisationFund", "DEPLOYER", "Treasurer">>, <<"StabilisationFund", "GUARDIAN", "GuardianMultisig">>}
<1>2. /\ chain' = [chain EXCEPT !.holds = @ \cup H]
      /\ UNCHANGED <<mode, deployed, batches, run, late, gate, hardened, gaps>>
  BY DEF GrantFundTiers
<1>3. /\ H \subseteq Triples
      /\ \A t \in H : t[3] \notin {"Deployer", "Safe"}
  <2>1. /\ "StabilisationFund" \in Places /\ {"DEPLOYER", "GUARDIAN"} \subseteq Names
        /\ {"Treasurer", "GuardianMultisig"} \subseteq Parties
    BY DEF Places, Gated, Targets, Managed, Names, Parties
  <2> QED BY <2>1 DEF Triples
<1>4. <<"Guardian", "GOVERNANCE", "Safe">> \notin H
  BY <1>3
<1> HIDE DEF H
<1>5. /\ chain' \in Chains /\ chain'.holds = chain.holds \cup H /\ chain'.owner = chain.owner
      /\ chain'.pending = chain.pending /\ chain'.delegate = chain.delegate
      /\ chain'.operation = chain.operation
  BY <1>1, <1>2, <1>3 DEF Chains
<1>6. Moves(chain, chain')
  BY <1>3, <1>5 DEF Moves
<1>7. Administered(chain', deployed)
  BY <1>1, <1>5 DEF Administered
<1>8. Filled(chain, deployed) => Filled(chain', deployed)
  BY <1>5 DEF Filled
<1>9. ~Governing(chain) => ~Governing(chain')
  BY <1>4, <1>5 DEF Governing
<1> QED BY <1>2, <1>6, <1>7, <1>8, <1>9, QuietStep

\* A call of the older script, or of the repair: it takes no administration.
LEMMA HardenCallKeeps ==
  ASSUME NEW c \in Chains, NEW call \in HardenCalls, ~Reverts(c, call), NEW D, Administered(c, D)
  PROVE  Moves(c, Effect(c, call)) /\ Administered(Effect(c, call), D) /\ Gives(call) \subseteq Kept(Effect(c, call))
<1>1. call \in LawfulCalls /\ AdminNeeds(call) = {}
  BY DEF HardenCalls, MoveCalls, AdminNeeds
<1> QED BY <1>1, CallMoves, CallAdministered

\* A call of the older script that arrives late.
LEMMA LateCallKeeps ==
  ASSUME HandoverInv, LateCall
  PROVE  HandoverInv'
<1>1. chain \in Chains /\ Administered(chain, deployed)
  BY DEF HandoverInv, BornInv, AdminInv
<1>2. PICK call \in late : /\ chain' = IF Reverts(chain, call) THEN chain ELSE Effect(chain, call)
                           /\ late' = late \ {call}
  BY DEF LateCall
<1>3. UNCHANGED <<mode, deployed, batches, run, gate, hardened, gaps>>
  BY DEF LateCall
<1>4. call \in HardenCalls /\ (gaps \/ Failing)
  BY DEF HandoverInv, LateInv
<1>5. mode # "safe" \/ gaps \/ Failing
  BY <1>4
<1>6. CASE Reverts(chain, call)
  <2>1. chain' = chain
    BY <1>2, <1>6
  <2>2. Moves(chain, chain') /\ Administered(chain', deployed) /\ (~Governing(chain) => ~Governing(chain'))
    BY <1>1, <2>1 DEF Moves
  <2> QED BY <1>2, <1>3, <1>4, <2>2, QuietStep
<1>7. CASE ~Reverts(chain, call)
  <2>1. chain' = Effect(chain, call)
    BY <1>2, <1>7
  <2>2. Moves(chain, chain') /\ Administered(chain', deployed)
    BY <1>1, <1>4, <1>7, <2>1, HardenCallKeeps
  <2>3. ~Governing(chain) => ~Governing(chain')
    <3>1. call \in LawfulCalls /\ ~Opens(call)
      BY <1>4 DEF HardenCalls, MoveCalls
    <3>2. chain'.holds = IF call.fn = "grantRole" THEN chain.holds \cup {Triple(call)}
                         ELSE IF call.fn = "revokeRole" THEN chain.holds \ {Triple(call)} ELSE chain.holds
      BY <1>1, <2>1, <3>1, EffectFields
    <3> QED BY <3>1, <3>2 DEF Governing, Opens
  <2> QED BY <1>2, <1>3, <1>4, <2>2, <2>3, QuietStep
<1> QED BY <1>6, <1>7

\* The repair of the treasury's governance, on the test stack.
LEMMA FixTreasuryKeeps ==
  ASSUME HandoverInv, FixTreasury
  PROVE  HandoverInv'
<1> DEFINE call == Grant("Treasury", "GOVERNANCE", "Timelock")
<1>1. chain \in Chains /\ Administered(chain, deployed)
  BY DEF HandoverInv, BornInv, AdminInv
<1>2. /\ UNCHANGED <<mode, deployed, batches, run, late, gate, hardened, gaps>>
      /\ chain' = Effect(chain, call)
      /\ <<"Treasury", "DEFAULT_ADMIN", "Safe">> \in chain.holds
  BY DEF FixTreasury, Holds, Deployer
<1>3. call \in LawfulCalls /\ Needs(call) \subseteq {} /\ ~Opens(call)
  <2>1. "Treasury" \in Places /\ "GOVERNANCE" \in Names /\ "Timelock" \in Parties \ {"Deployer"} /\ "Timelock" # "Safe"
    BY Orders DEF Targets, Names, Parties
  <2>2. call \in Settled({})
    BY <2>1, GrantReady
  <2> QED BY <2>2 DEF Settled, MoveCalls
<1>4. ~Reverts(chain, call)
  BY <1>2 DEF Reverts, Grant
<1> HIDE DEF call
<1>5. /\ Moves(chain, chain') /\ Administered(chain', deployed)
      /\ Filled(chain, deployed) => Filled(chain', deployed)
      /\ Governing(chain') => Opens(call) \/ (Governing(chain) /\ ~Closes(call))
  BY <1>1, <1>2, <1>3, <1>4, NextCall
<1> QED BY <1>2, <1>3, <1>5, QuietStep

\* Between two scripts.
LEMMA Resting == NoRun.script = "none" /\ (run = NoRun => ~Failing)
BY DEF NoRun, Failing

\* A script that runs.
LEMMA Running ==
  ASSUME RunInv, run # NoRun \/ run.script # "none"
  PROVE  /\ run # NoRun /\ mode # "safe"
         /\ run \in [script : Scripts, todo : Seq(LawfulCalls), failed : BOOLEAN]
         /\ run.script = "pre_mainnet_roles" =>
                /\ mode = "teststack" /\ run.todo \in Seq(HardenCalls)
                /\ ~run.failed => Covered(run.todo, Kept(chain))
         /\ run.script # "pre_mainnet_roles" => run.todo # <<>> /\ Covered(run.todo, Kept(chain))
BY Resting DEF RunInv

\* What a script hands over, to the Safe or to itself.
LEMMA SubmitKeeps ==
  ASSUME HandoverInv, run = NoRun, UNCHANGED <<mode, late, gaps>>, Kept(chain) \subseteq Kept(chain'),
         NEW script \in Scripts \ {"pre_mainnet_roles"}, NEW calls \in Seq(LawfulCalls), calls # <<>>,
         Covered(calls, Kept(chain')), Passing(calls), Submit(script, calls)
  PROVE  BatchInv' /\ RunInv' /\ LateInv' /\ ~Failing'
<1>1. CASE mode = "safe"
  <2>1. batches' = batches \cup {calls} /\ run' = run
    BY <1>1 DEF Submit
  <2>2. RunInv'
    BY <2>1, PlansStay DEF HandoverInv
  <2>3. \A b \in batches : b \in Seq(LawfulCalls) /\ Covered(b, Kept(chain')) /\ Passing(b)
    <3>1. \A s : Covered(s, Kept(chain)) => Covered(s, Kept(chain'))
      BY CoveredOn
    <3> QED BY <3>1 DEF HandoverInv, BatchInv
  <2>4. BatchInv'
    BY <2>1, <2>3 DEF BatchInv
  <2>5. ~Failing /\ ~Failing'
    BY <2>1, Resting DEF Failing
  <2>6. LateInv'
    BY <2>5 DEF HandoverInv, LateInv
  <2> QED BY <2>2, <2>4, <2>5, <2>6
<1>2. CASE mode # "safe"
  <2> DEFINE r == [script |-> script, todo |-> calls, failed |-> FALSE]
  <2>1. batches' = batches /\ run' = r
    BY <1>2 DEF Submit
  <2>2. /\ r \in [script : Scripts, todo : Seq(LawfulCalls), failed : BOOLEAN]
        /\ r.script # "pre_mainnet_roles" /\ r.todo = calls
    OBVIOUS
  <2> HIDE DEF r
  <2>3. RunInv'
    BY <1>2, <2>1, <2>2 DEF RunInv
  <2>4. BatchInv'
    BY <2>1, PlansStay DEF HandoverInv
  <2>5. ~Failing /\ ~Failing'
    BY <2>1, <2>2, Resting DEF Failing
  <2>6. LateInv'
    BY <2>5 DEF HandoverInv, LateInv
  <2> QED BY <2>3, <2>4, <2>5, <2>6
<1> QED BY <1>1, <1>2

\* A deployment.
LEMMA DeployKeeps ==
  ASSUME HandoverInv, NEW cs, cs \subseteq Places, NEW grants, Founds(cs, grants), Deploy(cs, grants)
  PROVE  /\ BornInv' /\ AdminInv' /\ GovInv' /\ HardInv' /\ GateInv'
         /\ Filled(chain', deployed') \/ gaps'
         /\ Kept(chain) \subseteq Kept(chain')
         /\ run = NoRun /\ UNCHANGED <<mode, late, gaps>>
<1>1. /\ run = NoRun /\ cs \cap deployed = {} /\ deployed' = deployed \cup cs
      /\ chain' = [chain EXCEPT !.holds = @ \cup grants]
      /\ UNCHANGED <<mode, late, gate, hardened, gaps>>
  BY DEF Deploy
<1>2. BornInv /\ AdminInv /\ FillInv /\ GovInv /\ HardInv /\ GateInv
  BY DEF HandoverInv
<1>3. chain \in Chains /\ grants \subseteq Triples
  BY <1>2 DEF BornInv, Founds, Fine
<1>4. /\ chain' \in Chains /\ chain'.holds = chain.holds \cup grants /\ chain'.owner = chain.owner
      /\ chain'.pending = chain.pending /\ chain'.delegate = chain.delegate
      /\ chain'.operation = chain.operation
  BY <1>1, <1>3 DEF Chains
<1>5. BornInv'
  <2>1. \A t \in chain'.holds : Fine(t)
    BY <1>2, <1>4 DEF BornInv, Founds
  <2>2. "Timelock" \in deployed' => <<"Timelock", "DEFAULT_ADMIN", "Timelock">> \in chain'.holds
    BY <1>1, <1>2, <1>4 DEF BornInv, Founds
  <2>3. /\ mode' \in AllModes /\ deployed' \subseteq Places
        /\ mode' # "safe" => Gated \subseteq deployed'
    BY <1>1, <1>2 DEF BornInv
  <2> QED BY <1>4, <2>1, <2>2, <2>3 DEF BornInv
<1>6. AdminInv'
  <2>1. Administered(chain', deployed')
    BY <1>1, <1>2, <1>4 DEF AdminInv, Administered, Founds
  <2> QED BY <2>1 DEF AdminInv
<1>7. GovInv'
  BY <1>1, <1>2, <1>4 DEF GovInv, Governing, Founds
<1>8. HardInv' /\ GateInv'
  <2>1. CASE cs \cap Gated = {}
    <3>1. \A t \in grants : t[1] \notin Gated
      BY <2>1 DEF Founds
    <3>2. Onward(chain, chain')
      BY <1>4, <3>1 DEF Onward
    <3> QED BY <1>1, <1>2, <3>2, FirmStays
  <2>2. CASE cs \cap Gated # {}
    <3>1. ~(Gated \subseteq deployed)
      BY <1>1, <2>2
    <3>2. gate = "idle" /\ ~hardened
      BY <1>2, <3>1 DEF GateInv, HardInv, BornInv
    <3> QED BY <1>1, <3>2, GateOrders DEF GateInv, HardInv
  <2> QED BY <2>1, <2>2
<1>9. Filled(chain', deployed') \/ gaps'
  <2>1. gaps \/ Filled(chain, deployed)
    BY <1>1, <1>2, Resting DEF FillInv
  <2>2. Filled(chain, deployed) => Filled(chain', deployed')
    BY <1>1, <1>4 DEF Filled, Founds
  <2> QED BY <1>1, <2>1, <2>2
<1>10. Kept(chain) \subseteq Kept(chain')
  BY <1>4 DEF Kept
<1> QED BY <1>1, <1>5, <1>6, <1>7, <1>8, <1>9, <1>10

\* With what the script submits,
LEMMA DeploySubmits ==
  ASSUME HandoverInv, NEW cs, cs \subseteq Places, NEW grants, Founds(cs, grants), Deploy(cs, grants),
         NEW script \in Scripts \ {"pre_mainnet_roles"}, NEW calls \in Seq(LawfulCalls), calls # <<>>,
         Covered(calls, {}), Passing(calls), Submit(script, calls)
  PROVE  HandoverInv'
<1>1. /\ BornInv' /\ AdminInv' /\ GovInv' /\ HardInv' /\ GateInv'
      /\ Filled(chain', deployed') \/ gaps'
      /\ Kept(chain) \subseteq Kept(chain')
      /\ run = NoRun /\ UNCHANGED <<mode, late, gaps>>
  BY DeployKeeps
<1>2. Covered(calls, Kept(chain'))
  BY CoveredOn
<1>3. BatchInv' /\ RunInv' /\ LateInv' /\ ~Failing'
  BY <1>1, <1>2, SubmitKeeps
<1>4. FillInv'
  BY <1>1 DEF FillInv
<1> QED BY <1>1, <1>3, <1>4 DEF HandoverInv

\* or with nothing.
LEMMA DeployAlone ==
  ASSUME HandoverInv, NEW cs, cs \subseteq Places, NEW grants, Founds(cs, grants), Deploy(cs, grants),
         UNCHANGED <<batches, run>>
  PROVE  HandoverInv'
<1>1. /\ BornInv' /\ AdminInv' /\ GovInv' /\ HardInv' /\ GateInv'
      /\ Filled(chain', deployed') \/ gaps'
      /\ Kept(chain) \subseteq Kept(chain')
      /\ run = NoRun /\ UNCHANGED <<mode, late, gaps>>
  BY DeployKeeps
<1>2. BatchInv' /\ RunInv'
  BY <1>1, PlansStay DEF HandoverInv
<1>3. FillInv' /\ LateInv'
  <2>1. Failing' <=> Failing
    BY DEF Failing
  <2> QED BY <1>1, <2>1 DEF HandoverInv, FillInv, LateInv
<1> QED BY <1>1, <1>2, <1>3 DEF HandoverInv

\* A list of calls of migrate_roles.js begins nothing that it does not end.
LEMMA MovePasses ==
  ASSUME NEW s \in Seq(MoveCalls)
  PROVE  s \in Seq(LawfulCalls) /\ Passing(s)
<1>1. MoveCalls \subseteq LawfulCalls
  BY DEF MoveCalls
<1>2. \A i \in 1..Len(s) : ~Opens(s[i])
  <2>1. \A i \in 1..Len(s) : s[i] \in MoveCalls
    OBVIOUS
  <2> QED BY <2>1 DEF MoveCalls
<1> QED BY <1>1, <1>2, PlainPassing

\* The deploy scripts.
LEMMA DeploysKeep ==
  ASSUME HandoverInv, DeployStep \/ Deploy09
  PROVE  HandoverInv'
<1>1. {"SRXToken", "Timelock", "Staking", "FeeController", "Treasury", "StabilisationFund", "Guardian", "Migrator"} \subseteq Places
  BY DEF Places, Gated, Targets, Managed
<1>2. CASE Deploy01
  BY <1>1, <1>2, TokenFounds, DeployAlone DEF Deploy01
<1>3. CASE Deploy02
  BY <1>1, <1>3, OthersFound, DeployAlone DEF Deploy02
<1>4. CASE Deploy04
  <2> DEFINE cs == {"Staking", "FeeController"}
             grants == BornManaged("Staking") \cup BornManaged("FeeController")
  <2>1. "Staking" \in Managed /\ "FeeController" \in Managed
    BY DEF Managed
  <2>2. Founds({"Staking"} \cup {"FeeController"}, grants)
    BY <2>1, ManagedFoundsOne, FoundsBoth
  <2>3. Founds(cs, grants)
    <3>1. cs = {"Staking"} \cup {"FeeController"}
      OBVIOUS
    <3> HIDE DEF cs, grants
    <3> QED BY <2>2, <3>1
  <2>4. Deploy(cs, grants) /\ UNCHANGED <<batches, run>> /\ cs \subseteq Places
    BY <1>1, <1>4 DEF Deploy04
  <2> HIDE DEF cs, grants
  <2> QED BY <2>3, <2>4, DeployAlone
<1>5. \A calls \in Seq(MoveCalls) : calls \in Seq(LawfulCalls) /\ Passing(calls)
  BY MovePasses
<1>6. CASE Deploy05
  <2> DEFINE calls == <<Grant("SRXToken", "BURN", "Treasury")>>
  <2>1. calls \in Seq(LawfulCalls) /\ calls # <<>> /\ Covered(calls, {}) /\ Passing(calls)
    BY <1>5, OthersWired
  <2>2. Deploy({"Treasury"}, BornTreasury) /\ Submit("05_treasury", calls)
    BY <1>6 DEF Deploy05
  <2> HIDE DEF calls
  <2> QED BY <1>1, <2>1, <2>2, TreasuryFounds, DeploySubmits DEF Scripts
<1>7. CASE Deploy05b
  <2> DEFINE calls == <<Grant("StabilisationFund", "GOVERNANCE", "Timelock")>>
  <2>1. calls \in Seq(LawfulCalls) /\ calls # <<>> /\ Covered(calls, {}) /\ Passing(calls)
    BY <1>5, OthersWired
  <2>2. Deploy({"StabilisationFund"}, BornManaged("StabilisationFund")) /\ Submit("05b_stabilisation", calls)
    BY <1>7 DEF Deploy05b
  <2>3. Founds({"StabilisationFund"}, BornManaged("StabilisationFund"))
    BY ManagedFoundsOne DEF Managed
  <2> HIDE DEF calls
  <2> QED BY <1>1, <2>1, <2>2, <2>3, DeploySubmits DEF Scripts
<1>8. CASE Deploy08
  <2>1. GuardianWiring # <<>>
    BY GuardianWired DEF GuardianWiring, Passing
  <2>2. Deploy({"Guardian"}, BornGuardian) /\ Submit("08_guardian", GuardianWiring)
    BY <1>8 DEF Deploy08
  <2> QED BY <1>1, <2>1, <2>2, OthersFound, GuardianWired, DeploySubmits DEF Scripts
<1>9. CASE Deploy09
  <2>1. MigratorWiring # <<>>
    BY DEF MigratorWiring
  <2>2. Deploy({"Migrator"}, BornMigrator) /\ Submit("09_migrator", MigratorWiring)
    BY <1>9 DEF Deploy09
  <2> QED BY <1>1, <2>1, <2>2, OthersFound, OthersWired, DeploySubmits DEF Scripts
<1> QED BY <1>2, <1>3, <1>4, <1>6, <1>7, <1>8, <1>9 DEF DeployStep

\* migrate_roles.js hands over what is not done.
LEMMA MigrateKeeps ==
  ASSUME HandoverInv, NEW phase \in {1, 2}, MigrateRoles(phase)
  PROVE  HandoverInv'
<1> DEFINE steps == IF phase = 1 THEN Phase1 ELSE Phase2
           todo  == Todo(steps)
<1>1. /\ run = NoRun /\ Gated \cup {"Guardian"} \subseteq deployed
      /\ phase = 2 => chain.operation \in {"ready", "done"}
      /\ todo # <<>> /\ Submit("migrate_roles", todo)
      /\ UNCHANGED <<mode, deployed, chain, late, gate, hardened, gaps>>
  BY DEF MigrateRoles
<1>2. steps \in Seq(MoveCalls) /\ Covered(steps, Kept(chain))
  <2>1. CASE phase = 1
    BY <2>1, PhaseOne, CoveredOn
  <2>2. CASE phase = 2
    <3> DEFINE G == Kept(chain)
    <3>1. ASSUME NEW x \in Gated PROVE <<x, "DEFAULT_ADMIN", "Timelock">> \in G
      <4>1. x \in Targets \/ x = "Timelock"
        BY DEF Gated
      <4>2. chain.operation # "unset" /\ "Timelock" \in deployed
        BY <1>1, <2>2 DEF Gated
      <4>3. <<x, "DEFAULT_ADMIN", "Timelock">> \in chain.holds
        BY <4>1, <4>2 DEF HandoverInv, AdminInv, Administered, BornInv
      <4> QED BY <4>3 DEF Kept
    <3> HIDE DEF G
    <3>2. Phase2 \in Seq(MoveCalls) /\ Covered(Phase2, G)
      BY <3>1, PhaseTwo
    <3> QED BY <2>2, <3>2 DEF G
  <2> QED BY <2>1, <2>2
<1> HIDE DEF steps
<1>3. todo \in Seq(MoveCalls) /\ Covered(todo, Kept(chain))
  BY <1>2, TodoCovered
<1>4. todo \in Seq(LawfulCalls) /\ Passing(todo)
  BY <1>3, MovePasses
<1> HIDE DEF todo
<1>5. BatchInv' /\ RunInv' /\ LateInv' /\ ~Failing'
  BY <1>1, <1>3, <1>4, SubmitKeeps DEF Scripts
<1>6. FillInv'
  <2>1. gaps \/ Filled(chain, deployed)
    BY <1>1, Resting DEF HandoverInv, FillInv
  <2> QED BY <1>1, <2>1 DEF FillInv
<1> QED BY <1>1, <1>5, <1>6, SameChain DEF HandoverInv

\* The first call of a list.
LEMMA FirstCall ==
  ASSUME NEW S, NEW s \in Seq(S), s # <<>>
  PROVE  Head(s) = s[1] /\ Head(s) \in S /\ Tail(s) \in Seq(S) /\ (Len(s) # 1 => Tail(s) # <<>>)
<1>1. Head(s) = s[1] /\ Len(s) \in Nat /\ Len(s) >= 1
  OBVIOUS
<1>2. Head(s) \in S
  BY <1>1
<1>3. Tail(s) \in Seq(S) /\ Len(Tail(s)) = Len(s) - 1
  OBVIOUS
<1>4. Len(s) # 1 => Tail(s) # <<>>
  BY <1>1, <1>3
<1> QED BY <1>1, <1>2, <1>3, <1>4

\* What is taken for done is in place.
LEMMA DoneGives ==
  ASSUME NEW call \in LawfulCalls, Done(call)
  PROVE  Gives(call) \subseteq Kept(chain)
<1>1. CASE call.fn = "grantRole" /\ call.who \in {"Timelock", "Guardian"}
  <2>1. call # Grant("Timelock", "PROPOSER", "Safe")
    BY <1>1 DEF Grant
  <2>2. Holds(call.to, call.role, call.who)
    BY <1>1, <2>1 DEF Done
  <2> QED BY <1>1, <2>2 DEF Gives, Holds, Triple, Kept
<1>2. CASE ~(call.fn = "grantRole" /\ call.who \in {"Timelock", "Guardian"})
  BY <1>2 DEF Gives
<1> QED BY <1>1, <1>2

\* A script sends its next call.
LEMMA SendKeeps ==
  ASSUME HandoverInv, SendCall
  PROVE  HandoverInv'
<1> DEFINE call == Head(run.todo)
           todo == run.todo
<1>1. /\ run # NoRun /\ run.script # "pre_mainnet_roles"
      /\ IF Reverts(chain, call) THEN run' = NoRun /\ UNCHANGED chain
         ELSE /\ chain' = Effect(chain, call)
              /\ run' = IF Len(todo) = 1 THEN NoRun ELSE [run EXCEPT !.todo = Tail(todo)]
      /\ UNCHANGED <<mode, deployed, batches, late, gate, hardened, gaps>>
  BY DEF SendCall
<1>2. /\ mode # "safe" /\ run \in [script : Scripts, todo : Seq(LawfulCalls), failed : BOOLEAN]
      /\ todo \in Seq(LawfulCalls) /\ todo # <<>> /\ Covered(todo, Kept(chain))
  BY <1>1, Running DEF HandoverInv
<1>3. ~Failing /\ chain \in Chains /\ Administered(chain, deployed) /\ (gaps \/ Filled(chain, deployed))
  BY <1>1 DEF HandoverInv, FillInv, BornInv, AdminInv, Failing
<1>4. call = todo[1] /\ call \in LawfulCalls /\ Tail(todo) \in Seq(LawfulCalls) /\ (Len(todo) # 1 => Tail(todo) # <<>>)
  BY <1>2, FirstCall
<1>5. CASE Reverts(chain, call)
  <2>1. run' = NoRun /\ chain' = chain
    BY <1>1, <1>5
  <2>2. ~Failing' /\ RunInv'
    BY <2>1, Resting DEF Failing, RunInv
  <2>3. FillInv' /\ LateInv'
    BY <1>1, <1>3, <2>1, <2>2 DEF HandoverInv, FillInv, LateInv
  <2> QED BY <1>1, <2>1, <2>2, <2>3, SameChain DEF HandoverInv
<1>6. CASE ~Reverts(chain, call)
  <2>1. /\ chain' = Effect(chain, call)
        /\ run' = IF Len(todo) = 1 THEN NoRun ELSE [run EXCEPT !.todo = Tail(todo)]
    BY <1>1, <1>6
  <2> DEFINE G == Kept(chain)
  <2>2. Needs(call) \subseteq G
    BY <1>2, <1>4, CoveredTail
  <2>3. /\ Moves(chain, chain') /\ G \cup Gives(call) \subseteq Kept(chain')
        /\ Administered(chain', deployed)
        /\ Filled(chain, deployed) => Filled(chain', deployed)
    BY <1>3, <1>4, <1>6, <2>1, <2>2, NextCall
  <2>4. Covered(Tail(todo), Kept(chain'))
    BY <1>2, <1>4, <2>3, CoveredTail
  <2>5. BornInv' /\ BatchInv' /\ HardInv' /\ GateInv'
    BY <1>1, <2>3, MovesBorn, MovesOnward, FirmStays, PlansStay DEF HandoverInv
  <2> HIDE DEF todo, call
  <2>6. RunInv' /\ ~Failing'
    <3>1. CASE Len(todo) = 1
      <4>1. run' = NoRun
        BY <2>1, <3>1
      <4> QED BY <4>1, Resting DEF Failing, RunInv
    <3>2. CASE Len(todo) # 1
      <4>1. run' = [run EXCEPT !.todo = Tail(todo)]
        BY <2>1, <3>2
      <4>2. /\ run' \in [script : Scripts, todo : Seq(LawfulCalls), failed : BOOLEAN]
            /\ run'.todo = Tail(todo) /\ run'.script = run.script
        BY <1>2, <1>4, <4>1
      <4> QED BY <1>1, <1>2, <1>4, <2>4, <3>2, <4>2 DEF Failing, RunInv
    <3> QED BY <3>1, <3>2
  <2>7. FillInv' /\ LateInv' /\ AdminInv' /\ GovInv'
    BY <1>1, <1>2, <1>3, <2>3, <2>6 DEF HandoverInv, FillInv, LateInv, AdminInv, GovInv
  <2> QED BY <2>5, <2>6, <2>7 DEF HandoverInv
<1> QED BY <1>5, <1>6

\* The older script goes on to its next step.
LEMMA HardenGoesOn ==
  ASSUME HandoverInv, run.script = "pre_mainnet_roles", run.todo # <<>>, mode' = mode,
         NEW r, r = [run EXCEPT !.todo = Tail(@)] \/ r = [run EXCEPT !.todo = Tail(@), !.failed = TRUE],
         run' = r, r.failed \/ Covered(Tail(run.todo), Kept(chain'))
  PROVE  RunInv' /\ run'.script = "pre_mainnet_roles" /\ (run.failed => run'.failed)
<1>1. /\ run \in [script : Scripts, todo : Seq(LawfulCalls), failed : BOOLEAN]
      /\ mode = "teststack" /\ run.todo \in Seq(HardenCalls)
  BY Running, Resting DEF HandoverInv
<1>2. Tail(run.todo) \in Seq(HardenCalls) /\ Tail(run.todo) \in Seq(LawfulCalls)
  BY <1>1, FirstCall
<1>3. /\ r \in [script : Scripts, todo : Seq(LawfulCalls), failed : BOOLEAN]
      /\ r.script = "pre_mainnet_roles" /\ r.todo = Tail(run.todo) /\ (run.failed => r.failed)
  BY <1>1, <1>2
<1> QED BY <1>1, <1>2, <1>3 DEF RunInv

\* One call of the older script, done, failed or late.
LEMMA HardenStepKeeps ==
  ASSUME HandoverInv, HardenStep
  PROVE  HandoverInv'
<1> DEFINE call == Head(run.todo)
           todo == run.todo
           goes == [run EXCEPT !.todo = Tail(@)]
           fails == [run EXCEPT !.todo = Tail(@), !.failed = TRUE]
<1>1. /\ run.script = "pre_mainnet_roles" /\ todo # <<>>
      /\ \/ /\ Done(call) \/ ~Reverts(chain, call)
            /\ chain' = IF Done(call) THEN chain ELSE Effect(chain, call)
            /\ run' = goes /\ late' = late
         \/ run' = fails /\ chain' = chain /\ late' \in {late, late \cup {call}}
      /\ UNCHANGED <<mode, deployed, batches, gate, hardened, gaps>>
  BY DEF HardenStep
<1>2. /\ mode = "teststack" /\ run \in [script : Scripts, todo : Seq(LawfulCalls), failed : BOOLEAN]
      /\ todo \in Seq(HardenCalls) /\ (run.failed \/ Covered(todo, Kept(chain)))
  BY <1>1, Running, Resting DEF HandoverInv
<1>3. call = todo[1] /\ call \in HardenCalls
  BY <1>1, <1>2, FirstCall
<1>4. call \in LawfulCalls
  BY <1>3 DEF HardenCalls, MoveCalls
<1>5. chain \in Chains /\ Administered(chain, deployed)
  BY DEF HandoverInv, BornInv, AdminInv
<1>6. CASE run' = fails /\ chain' = chain /\ late' \in {late, late \cup {call}}
  <2>1. fails.failed
    BY <1>2
  <2>2. RunInv' /\ run'.script = "pre_mainnet_roles" /\ run'.failed
    BY <1>1, <1>6, <2>1, HardenGoesOn
  <2>3. Failing'
    BY <2>2 DEF Failing
  <2>4. FillInv' /\ LateInv'
    BY <1>3, <1>6, <2>3 DEF HandoverInv, FillInv, LateInv
  <2> QED BY <1>1, <1>6, <2>2, <2>4, SameChain DEF HandoverInv
<1>7. CASE /\ Done(call) \/ ~Reverts(chain, call)
           /\ chain' = IF Done(call) THEN chain ELSE Effect(chain, call)
           /\ run' = goes /\ late' = late
  <2>1. Moves(chain, chain') /\ Administered(chain', deployed) /\ Kept(chain) \cup Gives(call) \subseteq Kept(chain')
    <3>1. CASE Done(call)
      <4>1. chain' = chain
        BY <1>7, <3>1
      <4>2. Gives(call) \subseteq Kept(chain)
        BY <1>4, <3>1, DoneGives
      <4> QED BY <1>5, <4>1, <4>2 DEF Moves
    <3>2. CASE ~Done(call)
      <4>1. ~Reverts(chain, call) /\ chain' = Effect(chain, call)
        BY <1>7, <3>2
      <4>2. Moves(chain, chain') /\ Administered(chain', deployed) /\ Gives(call) \subseteq Kept(chain')
        BY <1>3, <1>5, <4>1, HardenCallKeeps
      <4> QED BY <4>2, MovesKeep
    <3> QED BY <3>1, <3>2
  <2>2. ASSUME ~run.failed
        PROVE  Covered(Tail(todo), Kept(chain')) /\ (Filled(chain, deployed) => Filled(chain', deployed))
    <3>1. Covered(todo, Kept(chain))
      BY <1>2, <2>2
    <3>2. Needs(call) \subseteq Kept(chain) /\ Covered(Tail(todo), Kept(chain'))
      BY <1>1, <1>2, <1>3, <2>1, <3>1, CoveredTail
    <3>3. CASE Done(call)
      BY <1>7, <3>2, <3>3
    <3>4. CASE ~Done(call)
      <4>1. ~Reverts(chain, call) /\ chain' = Effect(chain, call) /\ RoleNeeds(call) \subseteq chain.holds
        BY <1>7, <3>2, <3>4 DEF Needs, Kept
      <4> QED BY <1>4, <1>5, <3>2, <4>1, CallFilled
    <3> QED BY <3>3, <3>4
  <2>3. goes.failed = run.failed
    BY <1>2
  <2>4. goes.failed \/ Covered(Tail(run.todo), Kept(chain'))
    BY <2>2, <2>3
  <2>5. RunInv' /\ run'.script = "pre_mainnet_roles"
    BY <1>1, <1>7, <2>4, HardenGoesOn
  <2>6. Failing' <=> Failing
    BY <1>1, <1>7, <2>3, <2>5 DEF Failing
  <2>7. BornInv' /\ BatchInv' /\ HardInv' /\ GateInv'
    BY <1>1, <2>1, MovesBorn, MovesOnward, FirmStays, PlansStay DEF HandoverInv
  <2>8. FillInv'
    BY <1>1, <2>2, <2>6 DEF HandoverInv, FillInv, Failing
  <2>9. LateInv' /\ AdminInv' /\ GovInv'
    BY <1>1, <1>2, <1>7, <2>1, <2>6 DEF HandoverInv, LateInv, AdminInv, GovInv
  <2> QED BY <2>5, <2>7, <2>8, <2>9 DEF HandoverInv
<1> QED BY <1>1, <1>6, <1>7

\* The older script begins,
LEMMA StartKeeps ==
  ASSUME HandoverInv, StartHardening
  PROVE  HandoverInv'
<1> DEFINE r == [script |-> "pre_mainnet_roles", todo |-> HardenSteps, failed |-> FALSE]
<1>1. /\ mode = "teststack" /\ run = NoRun /\ run' = r
      /\ UNCHANGED <<mode, deployed, chain, batches, late, gate, hardened, gaps>>
  BY DEF StartHardening
<1>2. HardenSteps \in Seq(HardenCalls) /\ HardenSteps \in Seq(LawfulCalls) /\ Covered(HardenSteps, Kept(chain))
  <2>1. HardenCalls \subseteq LawfulCalls
    BY DEF HardenCalls, MoveCalls
  <2> QED BY <2>1, HardenWired, CoveredOn
<1>3. /\ r \in [script : Scripts, todo : Seq(LawfulCalls), failed : BOOLEAN]
      /\ r.script = "pre_mainnet_roles" /\ r.todo = HardenSteps /\ ~r.failed
  BY <1>2 DEF Scripts
<1> HIDE DEF r
<1>4. RunInv'
  BY <1>1, <1>2, <1>3 DEF RunInv
<1>5. ~Failing' /\ ~Failing
  BY <1>1, <1>3, Resting DEF Failing
<1>6. FillInv' /\ LateInv'
  BY <1>1, <1>5 DEF HandoverInv, FillInv, LateInv
<1> QED BY <1>1, <1>4, <1>6, SameChain DEF HandoverInv

\* and ends, well or badly; or its process dies.
LEMMA EndKeeps ==
  ASSUME HandoverInv, HardenEnd \/ StopRun
  PROVE  HandoverInv'
<1>1. /\ run' = NoRun /\ UNCHANGED <<mode, deployed, chain, batches, late, gate>>
      /\ run.script \in {"migrate_roles", "pre_mainnet_roles"}
  BY DEF HardenEnd, StopRun
<1>2. ~Failing' /\ RunInv'
  BY <1>1, Resting DEF Failing, RunInv
<1>3. /\ gaps => gaps'
      /\ Failing => gaps'
  BY DEF HardenEnd, StopRun, Failing
<1>4. FillInv' /\ LateInv'
  BY <1>1, <1>3 DEF HandoverInv, FillInv, LateInv
<1>5. HardInv'
  <2>1. CASE hardened' => hardened
    BY <1>1, <2>1, Orders DEF HandoverInv, HardInv
  <2>2. CASE hardened' /\ ~hardened
    <3>1. run.script = "pre_mainnet_roles" /\ Hardened
      BY <2>2 DEF HardenEnd, StopRun
    <3>2. mode = "teststack"
      BY <3>1, Running, Resting DEF HandoverInv
    <3>3. ASSUME NEW i \in 1..4
          PROVE  /\ <<HardenOrder[i], "GOVERNANCE", "Timelock">> \in chain.holds
                 /\ <<HardenOrder[i], "GOVERNANCE", "Safe">> \notin chain.holds
      <4>1. i \in DOMAIN HardenOrder /\ Deployer = "Safe"
        BY <3>2, Orders DEF Deployer
      <4> QED BY <3>1, <4>1 DEF Hardened, Holds
    <3> QED BY <1>1, <3>2, <3>3 DEF HardInv
  <2> QED BY <2>1, <2>2
<1> QED BY <1>1, <1>2, <1>4, <1>5, SameChain DEF HandoverInv

\* What the gate checks is out of the Safe's hands.
LEMMA CheckedClean ==
  ASSUME BornInv, NEW x \in Gated \cup {"bridge"}, Checked(x)
  PROVE  Clean(chain, x)
<1>1. CASE x = "bridge"
  BY <1>1 DEF Checked, BridgeAuthority, Clean
<1>2. CASE x # "bridge"
  <2>1. x \in Gated /\ \A row \in Expectations[x] : RowHolds(x, row)
    BY <1>2 DEF Checked
  <2> DEFINE E == Expectations[x]
  <2>2. /\ Admins \in E
        /\ x \in Targets => Governs \in E /\ Pauses \in E
        /\ x \in Targets \ {"SRXToken"} => Upgrades \in E
        /\ x = "Treasury" => Row("SPENDER", {"Timelock"}, NoSafe) \in E
    BY <2>1 DEF Expectations, Gated, Targets, Managed
  <2> HIDE DEF E
  <2>3. ASSUME NEW r, NEW must, Row(r, must, NoSafe) \in E
        PROVE  <<x, r, "Safe">> \notin chain.holds /\ \A a \in must : <<x, r, a>> \in chain.holds
    <3> DEFINE row == Row(r, must, NoSafe)
    <3>1. row.role = r /\ row.must = must /\ "Safe" \in row.mustNot
      BY DEF Row, NoSafe
    <3> HIDE DEF row
    <3>2. RowHolds(x, row)
      BY <2>1, <2>3 DEF row, E
    <3> QED BY <3>1, <3>2 DEF RowHolds, Holds
  <2>4. <<x, "DEFAULT_ADMIN", "Timelock">> \in chain.holds /\ <<x, "DEFAULT_ADMIN", "Safe">> \notin chain.holds
    BY <2>2, <2>3 DEF Admins
  <2>5. ASSUME x \in Targets, NEW r \in DOMAIN Holder PROVE <<x, r, "Safe">> \notin chain.holds
    <3>1. CASE r \in MovedRoles(x)
      <4>1. /\ r = "GOVERNANCE" \/ r = "PAUSER" \/ (r = "UPGRADER" /\ x # "SRXToken") \/ (r = "SPENDER" /\ x = "Treasury")
        BY <2>5, <3>1, MovedRolesAre
      <4>2. r = "GOVERNANCE" => Row(r, {"Timelock"}, NoSafe) \in E
        BY <2>2, <2>5 DEF Governs
      <4>3. r = "PAUSER" => Row(r, {"Guardian"}, NoSafe) \in E
        BY <2>2, <2>5 DEF Pauses
      <4>4. r = "UPGRADER" /\ x # "SRXToken" => Row(r, {"Timelock"}, NoSafe) \in E
        BY <2>2, <2>5 DEF Upgrades
      <4> QED BY <2>2, <2>3, <4>1, <4>2, <4>3, <4>4
    <3>2. CASE r \notin MovedRoles(x)
      <4>1. \A t \in chain.holds : Fine(t)
        BY DEF BornInv
      <4>2. ~Fine(<<x, r, "Safe">>)
        BY <2>5, <3>2 DEF Fine
      <4> QED BY <4>1, <4>2
    <3> QED BY <3>1, <3>2
  <2> QED BY <1>2, <2>4, <2>5 DEF Clean
<1> QED BY <1>1, <1>2

\* The gate.
LEMMA GateKeeps ==
  ASSUME HandoverInv, Gate
  PROVE  HandoverInv'
<1>1. /\ Gated \cup {"Guardian"} \subseteq deployed
      /\ \/ gate = "idle" /\ gate' = GateOrder[1]
         \/ \E i \in 1..7 :
               /\ gate = GateOrder[i]
               /\ gate' = IF ~Checked(gate) THEN "idle" ELSE IF i = 7 THEN "passed" ELSE GateOrder[i + 1]
      /\ UNCHANGED <<mode, deployed, chain, batches, run, late, hardened, gaps>>
  BY GateOrders DEF Gate
<1>2. GateInv'
  <2>1. ASSUME NEW k \in 1..7, gate' = GateOrder[k], NEW j \in 1..(k - 1)
        PROVE  Clean(chain, GateOrder[j])
    <3>1. gate' \notin {"idle", "passed"}
      BY <2>1, GateOrders
    <3>2. CASE gate = "idle" /\ gate' = GateOrder[1]
      <4>1. k = 1
        BY <2>1, <3>2, GateOrders, 1 \in 1..7
      <4> QED BY <2>1, <4>1
    <3>3. CASE \E i \in 1..7 : /\ gate = GateOrder[i]
                               /\ gate' = IF ~Checked(gate) THEN "idle" ELSE IF i = 7 THEN "passed" ELSE GateOrder[i + 1]
      <4>1. PICK i \in 1..7 : /\ gate = GateOrder[i] /\ Checked(gate) /\ i # 7 /\ gate' = GateOrder[i + 1]
        BY <3>1, <3>3
      <4>2. i + 1 \in 1..7
        BY <4>1
      <4>3. k = i + 1
        BY <2>1, <4>1, <4>2, GateOrders
      <4>4. CASE j = i
        <5>1. Clean(chain, GateOrder[i])
          BY <4>1, GateOrders, CheckedClean DEF HandoverInv
        <5> QED BY <4>4, <5>1
      <4>5. CASE j # i
        <5>1. j \in 1..(i - 1)
          BY <2>1, <4>3, <4>5
        <5> QED BY <4>1, <5>1 DEF HandoverInv, GateInv
      <4> QED BY <4>4, <4>5
    <3> QED BY <1>1, <3>2, <3>3
  <2>2. ASSUME gate' = "passed", NEW j \in 1..7
        PROVE  Clean(chain, GateOrder[j])
    <3>1. \A i \in 1..7 : GateOrder[i] # "passed" /\ 1 \in 1..7
      BY GateOrders
    <3>2. \/ gate = "idle" /\ gate' = GateOrder[1]
          \/ \E i \in 1..7 :
               /\ gate = GateOrder[i]
               /\ gate' = IF ~Checked(gate) THEN "idle" ELSE IF i = 7 THEN "passed" ELSE GateOrder[i + 1]
      BY <1>1
    <3>3. PICK i \in 1..7 :
               /\ gate = GateOrder[i]
               /\ gate' = IF ~Checked(gate) THEN "idle" ELSE IF i = 7 THEN "passed" ELSE GateOrder[i + 1]
      BY <2>2, <3>1, <3>2
    <3>4. i = 7 /\ Checked(gate)
      <4>1. i # 7 => i + 1 \in 1..7
        OBVIOUS
      <4> QED BY <2>2, <3>1, <3>3, <4>1
    <3>5. CASE j = 7
      <4>1. Clean(chain, GateOrder[7])
        BY <3>3, <3>4, GateOrders, CheckedClean DEF HandoverInv
      <4> QED BY <3>5, <4>1
    <3>6. CASE j # 7
      <4>1. j \in 1..(i - 1)
        BY <2>2, <3>4, <3>6
      <4> QED BY <3>3, <4>1 DEF HandoverInv, GateInv
    <3> QED BY <3>5, <3>6
  <2> QED BY <1>1, <2>1, <2>2 DEF GateInv
<1>3. FillInv' /\ LateInv'
  BY <1>1 DEF HandoverInv, FillInv, LateInv, Failing
<1> QED BY <1>1, <1>2, <1>3, SameChain DEF HandoverInv

\* The first state.
LEMMA InitHandover == Init => HandoverInv
<1> SUFFICES ASSUME Init PROVE HandoverInv
  OBVIOUS
<1>1. /\ mode \in AllModes
      /\ deployed = CASE mode = "safe" -> {} [] mode = "rehearsal" -> Gated \cup {"Guardian"} [] OTHER -> Gated
      /\ batches = {} /\ run = NoRun /\ late = {}
      /\ gate = "idle" /\ hardened = FALSE
  BY ModesAssumption DEF Init
<1> DEFINE H == CASE mode = "safe" -> {} [] mode = "rehearsal" -> Rehearsal [] OTHER -> Teststack
<1>2. chain = [holds |-> H, owner |-> "Safe", pending |-> "nobody", delegate |-> "Safe",
               operation |-> "unset", modules |-> {}, exempt |-> FALSE]
  BY DEF Init
<1>3. Founds(deployed, H)
  <2>1. CASE mode = "safe"
    BY <1>1, <2>1 DEF Founds
  <2>2. CASE mode # "safe"
    BY <1>1, <2>2, StacksFound DEF AllModes
  <2> QED BY <2>1, <2>2
<1>4. \A t \in H : Fine(t)
  BY <1>3 DEF Founds
<1> HIDE DEF H
<1>5. /\ chain \in Chains /\ chain.holds = H /\ chain.operation = "unset"
  <2>1. H \subseteq Triples
    BY <1>4 DEF Fine
  <2> QED BY <1>2, <2>1 DEF Chains
<1>6. BornInv
  <2>1. /\ deployed \subseteq Places
        /\ mode # "safe" => Gated \subseteq deployed
    BY <1>1 DEF Places, AllModes
  <2>2. "Timelock" \in deployed => <<"Timelock", "DEFAULT_ADMIN", "Timelock">> \in chain.holds
    BY <1>3, <1>5 DEF Founds
  <2> QED BY <1>1, <1>4, <1>5, <2>1, <2>2 DEF BornInv
<1>7. AdminInv /\ FillInv
  BY <1>3, <1>5 DEF AdminInv, Administered, FillInv, Filled, Founds
<1>8. GovInv
  BY <1>3, <1>5 DEF GovInv, Governing, Founds
<1>9. BatchInv /\ RunInv /\ LateInv /\ HardInv /\ GateInv
  BY <1>1, GateOrders DEF BatchInv, RunInv, LateInv, HardInv, GateInv
<1> QED BY <1>6, <1>7, <1>8, <1>9 DEF HandoverInv

\* Every step.
LEMMA NextHandover == HandoverInv /\ [Next]_vars => HandoverInv'
<1> SUFFICES ASSUME HandoverInv, [Next]_vars PROVE HandoverInv'
  OBVIOUS
<1>1. CASE DeployStep \/ Deploy09
  BY <1>1, DeploysKeep
<1>2. CASE \E phase \in {1, 2} : MigrateRoles(phase)
  BY <1>2, MigrateKeeps
<1>3. CASE StartHardening
  BY <1>3, StartKeeps
<1>4. CASE HardenStep
  BY <1>4, HardenStepKeeps
<1>5. CASE HardenEnd \/ StopRun
  BY <1>5, EndKeeps
<1>6. CASE LateCall
  BY <1>6, LateCallKeeps
<1>7. CASE FixTreasury
  BY <1>7, FixTreasuryKeeps
<1>8. CASE SendCall
  BY <1>8, SendKeeps
<1>9. CASE \E calls \in batches : ExecuteBatch(calls)
  BY <1>9, ExecuteBatchKeeps
<1>10. CASE TimelockDelay \/ Cancel
  BY <1>10, OperationKeeps
<1>11. CASE ExecuteByAnyone
  BY <1>11, AnyoneKeeps
<1>12. CASE GrantFundTiers
  BY <1>12, FundTiersKeep
<1>13. CASE Gate
  BY <1>13, GateKeeps
<1>14. CASE UNCHANGED vars
  <2>1. /\ UNCHANGED <<mode, deployed, chain, batches, run, late, gate, hardened, gaps>>
    BY <1>14 DEF vars
  <2>2. FillInv' /\ LateInv'
    BY <2>1 DEF HandoverInv, FillInv, LateInv, Failing
  <2> QED BY <2>1, <2>2, SameChain DEF HandoverInv
<1> QED BY <1>1, <1>2, <1>3, <1>4, <1>5, <1>6, <1>7, <1>8, <1>9, <1>10, <1>11, <1>12, <1>13, <1>14 DEF Next

-----------------------------------------------------------------------------
(***************************************************************************)
(* The properties.                                                         *)
(***************************************************************************)
\* Every contract has an administrator, and the bridge an owner, wherever the
\* hand-over stops.
THEOREM HandoverAdministered == Spec => []AlwaysAdministered
<1>1. HandoverInv => AlwaysAdministered
  <2> SUFFICES ASSUME HandoverInv PROVE AlwaysAdministered
    OBVIOUS
  <2>1. Administered(chain, deployed) /\ chain \in Chains
    BY DEF HandoverInv, AdminInv, BornInv
  <2>2. chain.owner \in {"Safe", "Timelock"}
    BY <2>1 DEF Chains
  <2> QED BY <2>1, <2>2 DEF AlwaysAdministered, Administered, Holds
<1> QED BY <1>1, InitHandover, NextHandover, PTL DEF Spec

\* The Safe is governance of the guardian only inside one of its transactions.
THEOREM HandoverNeverGoverns == Spec => []SafeNeverGoverns
<1>1. HandoverInv => SafeNeverGoverns
  BY DEF HandoverInv, GovInv, Governing, SafeNeverGoverns, Holds
<1> QED BY <1>1, InitHandover, NextHandover, PTL DEF Spec

\* No role is without a holder while roles move.
THEOREM HandoverNoGap == Spec => []NoGap
<1>1. HandoverInv => NoGap
  <2> SUFFICES ASSUME HandoverInv, ~gaps, ~Failing, NEW c \in Targets \cap deployed,
                      NEW i \in DOMAIN RolesOf(c), RolesOf(c)[i] \in DOMAIN Holder
               PROVE  Holds(c, RolesOf(c)[i], "Safe") \/ Holds(c, RolesOf(c)[i], Holder[RolesOf(c)[i]])
    BY DEF NoGap, Failing
  <2>1. Filled(chain, deployed)
    BY DEF HandoverInv, FillInv
  <2>2. RolesOf(c)[i] \in MovedRoles(c)
    BY DEF MovedRoles
  <2> QED BY <2>1, <2>2 DEF Filled, Holds
<1> QED BY <1>1, InitHandover, NextHandover, PTL DEF Spec

\* What the older script reports as done stays done.
THEOREM HandoverTruthful == Spec => []HardenedTruthful
<1>1. HandoverInv => HardenedTruthful
  BY Orders DEF HandoverInv, HardInv, HardenedTruthful, Holds, Deployer
<1> QED BY <1>1, InitHandover, NextHandover, PTL DEF Spec

\* Once the gate has passed, every change of a governed contract waits for the
\* Timelock's delay, for good.
THEOREM HandoverDelayOnly == Spec => []DelayOnlyOnceGated
<1>1. HandoverInv => DelayOnlyOnceGated
  <2> SUFFICES ASSUME HandoverInv, gate = "passed" PROVE DelayOnly
    BY DEF DelayOnlyOnceGated
  <2>1. \A x \in Gated \cup {"bridge"} : Clean(chain, x)
    BY GateOrders DEF HandoverInv, GateInv
  <2>2. "bridge" \notin Gated /\ Targets \subseteq Gated
    BY DEF Gated, Targets, Managed
  <2>3. \A t \in chain.holds : t[3] # "Deployer"
    BY DEF HandoverInv, BornInv, Fine
  <2>4. ASSUME NEW c \in Gated
        PROVE  {a \in {"Safe", "Deployer", "Timelock"} : Holds(c, "DEFAULT_ADMIN", a)} = {"Timelock"}
    <3>1. Holds(c, "DEFAULT_ADMIN", "Timelock") /\ ~Holds(c, "DEFAULT_ADMIN", "Safe") /\ ~Holds(c, "DEFAULT_ADMIN", "Deployer")
      BY <2>1, <2>2, <2>3 DEF Clean, Holds
    <3> QED BY <3>1
  <2>5. ASSUME NEW c \in Targets, NEW r \in DOMAIN Holder
        PROVE  ~Holds(c, r, "Safe") /\ ~Holds(c, r, "Deployer")
    BY <2>1, <2>2, <2>3 DEF Clean, Holds
  <2>6. BridgeAuthority
    BY <2>1 DEF Clean, BridgeAuthority
  <2> QED BY <2>4, <2>5, <2>6 DEF DelayOnly
<1> QED BY <1>1, InitHandover, NextHandover, PTL DEF Spec
=============================================================================
