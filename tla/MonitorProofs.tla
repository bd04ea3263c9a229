---------------------------- MODULE MonitorProofs ----------------------------
(***************************************************************************)
(* Proofs about Guardian and BridgeMonitor.  The guardian alone: what the   *)
(* loop of its batch calls leaves behind and when its flags are right, for  *)
(* every set of modules and of targets, shared ones included, whatever the  *)
(* admin Safe does to the targets and whichever of them refuse.  With the   *)
(* monitor, for every number of blocks, chunk size and number of failures:  *)
(* no transfer is skipped, and recounts are bounded by the failures.        *)
(***************************************************************************)
EXTENDS BridgeMonitor, CommonProofs

-----------------------------------------------------------------------------
(***************************************************************************)
(* The guardian alone (module Guardian).                                   *)
(***************************************************************************)
GuardianConfigs == [target : Targets \cup {NoTarget}, registered : BOOLEAN, paused : BOOLEAN, lastPauseTime : Nat]

\* A registered module has a target that exists, so that a batch reaches it.
GuardianInv ==
    /\ now \in Nat
    /\ modules \in [Modules -> GuardianConfigs]
    /\ targetPaused \in [Targets -> BOOLEAN]
    /\ \A id \in Registered : modules[id].target \in Targets

\* The fields of a configuration have their types.
LEMMA GuardianFields ==
  ASSUME NEW r \in GuardianConfigs
  PROVE  /\ r.target \in Targets \cup {NoTarget} /\ r.registered \in BOOLEAN
         /\ r.paused \in BOOLEAN /\ r.lastPauseTime \in Nat
BY DEF GuardianConfigs

\* What setting the flag of a configuration, with or without its time, changes.
LEMMA GuardianExcept ==
  ASSUME NEW r \in GuardianConfigs, NEW p \in BOOLEAN, NEW t \in Nat
  PROVE  /\ [r EXCEPT !.paused = p] \in GuardianConfigs
         /\ [r EXCEPT !.paused = p].target = r.target
         /\ [r EXCEPT !.paused = p].registered = r.registered
         /\ [r EXCEPT !.paused = p].paused = p
         /\ [r EXCEPT !.paused = p, !.lastPauseTime = t] \in GuardianConfigs
         /\ [r EXCEPT !.paused = p, !.lastPauseTime = t].target = r.target
         /\ [r EXCEPT !.paused = p, !.lastPauseTime = t].registered = r.registered
         /\ [r EXCEPT !.paused = p, !.lastPauseTime = t].paused = p
BY DEF GuardianConfigs

\* What reading a flag back from the target changes.
LEMMA ReadBackConfig ==
  ASSUME NEW r \in GuardianConfigs, NEW p \in BOOLEAN
  PROVE  /\ [r EXCEPT !.paused = p] \in GuardianConfigs
         /\ [r EXCEPT !.paused = p].target = r.target
         /\ [r EXCEPT !.paused = p].registered = r.registered
         /\ [r EXCEPT !.paused = p].paused = p
BY DEF GuardianConfigs

\* What flagging a configuration in a batch changes.
LEMMA FlaggedConfig ==
  ASSUME now \in Nat, NEW r \in GuardianConfigs, NEW p \in BOOLEAN
  PROVE  /\ Flagged(r, p) \in GuardianConfigs /\ Flagged(r, p).target = r.target
         /\ Flagged(r, p).registered = r.registered /\ Flagged(r, p).paused = p
<1> DEFINE l == IF p THEN now ELSE r.lastPauseTime
<1>1. l \in Nat
  BY GuardianFields
<1>2. Flagged(r, p) = [r EXCEPT !.paused = p, !.lastPauseTime = l]
  BY DEF Flagged, GuardianConfigs
<1> HIDE DEF l
<1> QED BY <1>1, <1>2 DEF GuardianConfigs

\* What pointing a configuration at a target changes.
LEMMA ConfigTarget ==
  ASSUME NEW r \in GuardianConfigs, NEW t \in Targets
  PROVE  /\ [r EXCEPT !.target = t] \in GuardianConfigs
         /\ [r EXCEPT !.target = t].target = t
BY DEF GuardianConfigs

\* A call on one module.
LEMMA OneConfig ==
  ASSUME GuardianInv, NEW id \in Modules, now' \in Nat, targetPaused' \in [Targets -> BOOLEAN],
         NEW c \in GuardianConfigs, c.registered => c.target \in Targets,
         modules' = [modules EXCEPT ![id] = c]
  PROVE  GuardianInv'
<1>1. modules' \in [Modules -> GuardianConfigs]
  BY DEF GuardianInv
<1>2. ASSUME NEW i \in Modules, modules'[i].registered PROVE modules'[i].target \in Targets
  <2>1. CASE i = id
    BY <2>1, <1>2 DEF GuardianInv
  <2>2. CASE i # id
    BY <2>2, <1>2 DEF GuardianInv, Registered
  <2> QED BY <2>1, <2>2
<1> QED BY <1>1, <1>2 DEF GuardianInv, Registered

-----------------------------------------------------------------------------
(***************************************************************************)
(* The loop of the batch calls.                                            *)
(***************************************************************************)
\* What the loop works on.
BatchStates ==
    {b \in [modules : [Modules -> GuardianConfigs], targetPaused : [Targets -> BOOLEAN]] :
        \A id \in Modules : b.modules[id].registered => b.modules[id].target \in Targets}

BatchStart == [modules |-> modules, targetPaused |-> targetPaused]

\* In b, a batch call to p has something to do for id.
Visits(p, b, id) == b.modules[id].registered /\ b.modules[id].paused # p

\* What a batch call owes a module that it visits, with flag and targets as in c:
\* a target it may pause is at p, one whose paused() is readable has the flag at its
\* state, and so has a flag that moved.
Served(p, b, c, id) ==
    LET t == b.modules[id].target IN
    /\ t \in pauser => c.targetPaused[t] = p
    /\ t \notin Opaque => c.modules[id].paused = c.targetPaused[t]
    /\ c.modules[id].paused # b.modules[id].paused => c.modules[id].paused = c.targetPaused[t]

\* No registration changes from b to c.
SameModules(b, c) ==
    \A id \in Modules : /\ c.modules[id].target = b.modules[id].target
                        /\ c.modules[id].registered = b.modules[id].registered

\* id moved target u, and its flag with it, to p.
MovedBy(p, b, c, u, id) ==
    Visits(p, b, id) /\ b.modules[id].target = u /\ c.modules[id].paused = p

\* What the loop has done when it has been through the modules of D.
Done(p, b, c, D) ==
    /\ c \in BatchStates
    /\ SameModules(b, c)
    /\ \A id \in Modules \ D : c.modules[id] = b.modules[id]
    /\ \A id \in D : ~Visits(p, b, id) => c.modules[id] = b.modules[id]
    /\ \A id \in D : Visits(p, b, id) => Served(p, b, c, id)
    /\ \A u \in Targets : c.targetPaused[u] # b.targetPaused[u] =>
          u \in pauser /\ c.targetPaused[u] = p /\ \E id \in D : MovedBy(p, b, c, u, id)

\* The configurations of a loop state have their types.
LEMMA BatchFields ==
  ASSUME NEW b \in BatchStates, NEW id \in Modules
  PROVE  /\ b.modules \in [Modules -> GuardianConfigs] /\ b.targetPaused \in [Targets -> BOOLEAN]
         /\ b.modules[id] \in GuardianConfigs /\ b.modules[id].paused \in BOOLEAN
         /\ b.modules[id].registered \in BOOLEAN
         /\ b.modules[id].lastPauseTime \in Nat
         /\ b.modules[id].registered => b.modules[id].target \in Targets
<1>1. b.modules \in [Modules -> GuardianConfigs] /\ b.targetPaused \in [Targets -> BOOLEAN]
  BY DEF BatchStates
<1>2. b.modules[id] \in GuardianConfigs
  BY <1>1
<1> QED BY <1>1, <1>2, GuardianFields DEF BatchStates

\* In r, module id has configuration c and the targets are as in tp.
Replaced(b, id, c, tp, r) ==
    /\ r \in BatchStates /\ SameModules(b, r)
    /\ r.modules[id] = c /\ r.targetPaused = tp
    /\ \A other \in Modules \ {id} : r.modules[other] = b.modules[other]

\* A loop state with the configuration of one module and the targets replaced.
LEMMA BatchStep ==
  ASSUME NEW b \in BatchStates, NEW id \in Modules, NEW c \in GuardianConfigs,
         c.target = b.modules[id].target, c.registered = b.modules[id].registered,
         NEW tp \in [Targets -> BOOLEAN],
         NEW r, r = [modules |-> [b.modules EXCEPT ![id] = c], targetPaused |-> tp]
  PROVE  Replaced(b, id, c, tp, r)
<1>1. b.modules \in [Modules -> GuardianConfigs]
  BY DEF BatchStates
<1>2. /\ r.modules = [b.modules EXCEPT ![id] = c] /\ r.targetPaused = tp
      /\ r.modules \in [Modules -> GuardianConfigs]
      /\ r \in [modules : [Modules -> GuardianConfigs], targetPaused : [Targets -> BOOLEAN]]
  BY <1>1
<1>3. r.modules[id] = c /\ \A other \in Modules \ {id} : r.modules[other] = b.modules[other]
  BY <1>1, <1>2
<1>4. SameModules(b, r)
  BY <1>3 DEF SameModules
<1>5. \A i \in Modules : r.modules[i].registered => r.modules[i].target \in Targets
  BY <1>4 DEF SameModules, BatchStates
<1> QED BY <1>2, <1>3, <1>4, <1>5 DEF BatchStates, Replaced

\* One pass of the loop, from any state of it.
LEMMA TryServes ==
  ASSUME now \in Nat, NEW p \in BOOLEAN, NEW b \in BatchStates, NEW id \in Modules
  PROVE  Done(p, b, Try(p, b, id), {id})
<1> DEFINE m == b.modules[id]
           t == m.target
           tp == b.targetPaused
           c == Try(p, b, id)
<1> SUFFICES Done(p, b, c, {id})
  OBVIOUS
<1>a. /\ m \in GuardianConfigs /\ m.paused \in BOOLEAN /\ m.registered \in BOOLEAN
      /\ m.lastPauseTime \in Nat /\ (m.registered => t \in Targets)
      /\ tp \in [Targets -> BOOLEAN]
  BY BatchFields
<1>1. CASE ~Visits(p, b, id)
  <2>1. c = b
    BY <1>1 DEF Try, Visits
  <2> HIDE DEF c
  <2> QED BY <1>1, <2>1 DEF Done, SameModules
<1>2. CASE Visits(p, b, id) /\ t \in pauser /\ tp[t] # p
  <2> DEFINE f == Flagged(m, p)
             q == [tp EXCEPT ![t] = p]
  <2>1. t \in Targets /\ m.paused # p
    BY <1>a, <1>2 DEF Visits
  <2>2. f \in GuardianConfigs /\ f.target = t /\ f.registered = m.registered /\ f.paused = p
    BY <1>a, FlaggedConfig
  <2>3. q[t] = p /\ \A u \in Targets \ {t} : q[u] = tp[u]
    BY <1>a, <2>1
  <2>8. q \in [Targets -> BOOLEAN]
    BY <1>a, <2>1
  <2>4. c = [modules |-> [b.modules EXCEPT ![id] = f], targetPaused |-> q]
    BY <1>2 DEF Try, Visits
  <2> HIDE DEF f, q, c
  <2>5. /\ c \in BatchStates /\ SameModules(b, c) /\ c.modules[id] = f /\ c.targetPaused = q
        /\ \A other \in Modules \ {id} : c.modules[other] = b.modules[other]
    <3>1. Replaced(b, id, f, q, c)
      BY <2>2, <2>4, <2>8, BatchStep
    <3> QED BY <3>1 DEF Replaced
  <2>6. Served(p, b, c, id) /\ MovedBy(p, b, c, t, id)
    BY <1>2, <2>2, <2>3, <2>5 DEF Served, MovedBy
  <2>7. \A u \in Targets : c.targetPaused[u] # tp[u] => u = t
    BY <2>3, <2>5
  <2> QED BY <1>2, <2>3, <2>5, <2>6, <2>7 DEF Done
<1>3. CASE Visits(p, b, id) /\ ~(t \in pauser /\ tp[t] # p) /\ t \in Opaque
  <2>1. c = b
    BY <1>3 DEF Try, Visits
  <2>2. t \in pauser => tp[t] = p
    BY <1>3
  <2> HIDE DEF c
  <2> QED BY <1>3, <2>1, <2>2 DEF Done, SameModules, Served
<1>4. CASE Visits(p, b, id) /\ ~(t \in pauser /\ tp[t] # p) /\ t \notin Opaque
  <2> DEFINE state == tp[t]
             f == [m EXCEPT !.paused = state]
  <2>1. t \in Targets /\ state \in BOOLEAN
    BY <1>a, <1>4 DEF Visits
  <2>2. f \in GuardianConfigs /\ f.target = t /\ f.registered = m.registered /\ f.paused = tp[t]
    <3>1. m \in GuardianConfigs
      BY <1>a
    <3> HIDE DEF m, state
    <3>2. /\ f \in GuardianConfigs /\ f.target = m.target
          /\ f.registered = m.registered /\ f.paused = state
      BY <2>1, <3>1, ReadBackConfig
    <3> QED BY <3>2 DEF m, state
  <2>3. c = [modules |-> [b.modules EXCEPT ![id] = f], targetPaused |-> tp]
    BY <1>4 DEF Try, Visits
  <2> HIDE DEF f, c
  <2>4. /\ c \in BatchStates /\ SameModules(b, c) /\ c.modules[id] = f /\ c.targetPaused = tp
        /\ \A other \in Modules \ {id} : c.modules[other] = b.modules[other]
    <3>1. Replaced(b, id, f, tp, c)
      BY <1>a, <2>2, <2>3, BatchStep
    <3> QED BY <3>1 DEF Replaced
  <2>5. Served(p, b, c, id)
    BY <1>4, <2>2, <2>4 DEF Served
  <2> QED BY <1>4, <2>4, <2>5 DEF Done
<1> HIDE DEF c
<1> QED BY <1>1, <1>2, <1>3, <1>4

\* One more pass after those through the modules of D.
LEMMA DoneMore ==
  ASSUME NEW p \in BOOLEAN, NEW b \in BatchStates, NEW c, NEW e,
         NEW D \in SUBSET Modules, NEW id \in Modules, id \notin D,
         Done(p, b, c, D), Done(p, c, e, {id})
  PROVE  Done(p, b, e, D \cup {id})
<1>1. /\ c \in BatchStates /\ SameModules(b, c)
      /\ \A i \in Modules \ D : c.modules[i] = b.modules[i]
      /\ \A i \in D : ~Visits(p, b, i) => c.modules[i] = b.modules[i]
      /\ \A i \in D : Visits(p, b, i) => Served(p, b, c, i)
      /\ \A u \in Targets : c.targetPaused[u] # b.targetPaused[u] =>
            u \in pauser /\ c.targetPaused[u] = p /\ \E i \in D : MovedBy(p, b, c, u, i)
  BY DEF Done
<1>2. /\ e \in BatchStates /\ SameModules(c, e)
      /\ \A i \in Modules \ {id} : e.modules[i] = c.modules[i]
      /\ ~Visits(p, c, id) => e.modules[id] = c.modules[id]
      /\ Visits(p, c, id) => Served(p, c, e, id)
      /\ \A u \in Targets : e.targetPaused[u] # c.targetPaused[u] =>
            u \in pauser /\ e.targetPaused[u] = p /\ MovedBy(p, c, e, u, id)
  BY DEF Done
<1>3. c.modules[id] = b.modules[id] /\ (Visits(p, c, id) <=> Visits(p, b, id))
  BY <1>1 DEF Visits
<1>4. SameModules(b, e)
  BY <1>1, <1>2 DEF SameModules
<1>5. \A i \in Modules \ (D \cup {id}) : e.modules[i] = b.modules[i]
  BY <1>1, <1>2
<1>6. \A i \in D \cup {id} : ~Visits(p, b, i) => e.modules[i] = b.modules[i]
  BY <1>1, <1>2, <1>3
<1>7. ASSUME NEW i \in D \cup {id}, Visits(p, b, i) PROVE Served(p, b, e, i)
  <2>1. CASE i = id
    BY <1>2, <1>3, <1>7, <2>1 DEF Served
  <2>2. CASE i # id
    <3> DEFINE t == b.modules[i].target
    <3>1. i \in D /\ i \in Modules /\ e.modules[i] = c.modules[i] /\ Served(p, b, c, i)
      BY <1>1, <1>2, <1>7, <2>2
    <3>2. t \in Targets
      BY <1>7, <3>1, BatchFields DEF Visits
    <3>3. e.targetPaused[t] = c.targetPaused[t]
      BY <1>2, <3>1, <3>2 DEF Served
    <3> QED BY <3>1, <3>3 DEF Served
  <2> QED BY <2>1, <2>2
<1>8. ASSUME NEW u \in Targets, e.targetPaused[u] # b.targetPaused[u]
      PROVE  u \in pauser /\ e.targetPaused[u] = p /\ \E i \in D \cup {id} : MovedBy(p, b, e, u, i)
  <2>1. CASE e.targetPaused[u] # c.targetPaused[u]
    BY <1>2, <1>3, <2>1 DEF MovedBy
  <2>2. CASE e.targetPaused[u] = c.targetPaused[u]
    <3>1. PICK i \in D : MovedBy(p, b, c, u, i)
      BY <1>1, <1>8, <2>2
    <3>2. e.modules[i] = c.modules[i]
      BY <1>2
    <3>3. MovedBy(p, b, e, u, i)
      BY <3>1, <3>2 DEF MovedBy
    <3> QED BY <1>1, <1>8, <2>2, <3>3
  <2> QED BY <2>1, <2>2
<1> QED BY <1>2, <1>4, <1>5, <1>6, <1>7, <1>8 DEF Done

\* Before the first pass nothing has changed.
LEMMA DoneNothing ==
  ASSUME NEW p \in BOOLEAN, NEW b \in BatchStates
  PROVE  Done(p, b, b, {})
BY DEF Done, SameModules

\* The loop goes through every module, from the state in which the call finds them.
LEMMA BatchServes ==
  ASSUME GuardianInv, NEW p \in BOOLEAN
  PROVE  BatchStart \in BatchStates /\ Done(p, BatchStart, Batch(p), Modules)
<1> DEFINE n == Len(Order)
           b == BatchStart
           F(f) == [i \in 0..n |-> IF i = 0 THEN [modules |-> modules, targetPaused |-> targetPaused]
                                   ELSE Try(p, f[i - 1], Order[i])]
           loop == CHOOSE f : f = F(f)
           step == [i \in 1..n |-> [c \in BatchStates |-> Try(p, c, Order[i])]]
           Before(i) == {Order[j] : j \in 1..i}
<1>1. Batch(p) = loop[n]
  BY DEF Batch
<1>2. /\ n \in Nat /\ now \in Nat /\ \A i \in 1..n : Order[i] \in Modules
      /\ \A i, j \in 1..n : Order[i] = Order[j] => i = j
  BY OrderAssumption DEF Modules, GuardianInv
<1>3. b \in BatchStates
  BY DEF BatchStart, BatchStates, GuardianInv, Registered
<1>4. ASSUME NEW c \in BatchStates, NEW id \in Modules
      PROVE  Done(p, c, Try(p, c, id), {id}) /\ Try(p, c, id) \in BatchStates
  <2>1. Done(p, c, Try(p, c, id), {id})
    BY <1>2, TryServes
  <2> QED BY <2>1 DEF Done
<1>5. step \in [1..n -> [BatchStates -> BatchStates]]
  BY <1>2, <1>4
<1>6. PICK f : Stepwise(f, n, BatchStates, b, step)
  <2> HIDE DEF step, n, b
  <2> QED BY <1>2, <1>3, <1>5, StepwiseFunction
<1>7. f \in [0..n -> BatchStates] /\ f[0] = b /\ \A i \in 1..n : f[i] = Try(p, f[i - 1], Order[i])
  <2>1. f \in [0..n -> BatchStates] /\ f[0] = b /\ \A i \in 1..n : f[i] = step[i][f[i - 1]]
    <3> HIDE DEF step, n, b
    <3> QED BY <1>6 DEF Stepwise
  <2>2. ASSUME NEW i \in 1..n PROVE f[i] = Try(p, f[i - 1], Order[i])
    <3>1. i - 1 \in 0..n
      BY <1>2
    <3>2. f[i - 1] \in BatchStates
      BY <2>1, <3>1
    <3> QED BY <2>1, <3>2
  <2> QED BY <2>1, <2>2
<1>8. f = F(f)
  <2> HIDE DEF n
  <2>1. ASSUME NEW i \in 0..n PROVE f[i] = F(f)[i]
    <3>1. CASE i = 0
      BY <1>7, <3>1 DEF BatchStart
    <3>2. CASE i # 0
      <4>1. i \in 1..n
        BY <1>2, <3>2
      <4> QED BY <1>7, <3>2, <4>1
    <3> QED BY <3>1, <3>2
  <2> QED BY <1>7, <2>1
<1>9. loop = F(loop)
  <2> HIDE DEF F
  <2> QED BY <1>8
<1> HIDE DEF loop
<1>10. loop[0] = b /\ \A i \in 1..n : loop[i] = Try(p, loop[i - 1], Order[i])
  <2> HIDE DEF n
  <2>1. 0 \in 0..n /\ \A i \in 1..n : i \in 0..n /\ i # 0
    BY <1>2
  <2> QED BY <1>9, <2>1 DEF BatchStart
<1> DEFINE T == {i \in 0..n : Done(p, b, loop[i], Before(i))}
<1>11. 0 \in T
  <2>1. Before(0) = {} /\ 0 \in 0..n
    BY <1>2
  <2>2. Done(p, b, loop[0], Before(0))
    BY <1>3, <1>10, <2>1, DoneNothing
  <2> QED BY <2>1, <2>2
<1>12. ASSUME NEW i \in 1..n, i - 1 \in T PROVE i \in T
  <2> DEFINE c == loop[i - 1]
             D == Before(i - 1)
             id == Order[i]
  <2>1. i \in 0..n /\ i - 1 \in 0..n /\ id \in Modules /\ D \in SUBSET Modules
    BY <1>2
  <2>2. Before(i) = D \cup {id}
    <3>1. 1..i = 1..(i - 1) \cup {i}
      OBVIOUS
    <3> QED BY <3>1
  <2>3. id \notin D
    <3>1. ASSUME NEW j \in 1..(i - 1) PROVE Order[j] # id
      <4>1. j \in 1..n /\ j # i
        BY <1>2
      <4> QED BY <1>2, <4>1
    <3> QED BY <3>1
  <2>4. Done(p, b, c, D)
    BY <1>12
  <2>5. loop[i] = Try(p, c, id)
    BY <1>10
  <2> HIDE DEF Before, D, c, id, b
  <2>6. c \in BatchStates
    BY <2>4 DEF Done
  <2>7. Done(p, c, loop[i], {id})
    BY <1>4, <2>1, <2>5, <2>6
  <2>8. Done(p, b, loop[i], D \cup {id})
    BY <1>3, <2>1, <2>3, <2>4, <2>7, DoneMore
  <2> QED BY <2>1, <2>2, <2>8
<1>13. n \in T
  <2>1. 0..n \subseteq T
    <3> HIDE DEF T, n
    <3> QED BY <1>2, <1>11, <1>12, Steps
  <2> HIDE DEF T
  <2> QED BY <1>2, <2>1
<1>14. Before(n) = Modules
  BY DEF Modules
<1>15. Done(p, b, loop[n], Before(n))
  <2> HIDE DEF Before, n, b
  <2> QED BY <1>13
<1> QED BY <1>1, <1>3, <1>14, <1>15

\* What a batch call to p does, in terms of the state it leaves.
BatchEffect(p) ==
    /\ GuardianInv'
    /\ \A id \in Modules : /\ modules'[id].target = modules[id].target
                           /\ modules'[id].registered = modules[id].registered
    /\ \A id \in Registered : modules[id].paused = p => modules'[id] = modules[id]
    /\ \A id \in Registered : modules[id].paused # p => Served(p, BatchStart, BatchStart', id)
    /\ \A u \in Targets : targetPaused'[u] # targetPaused[u] =>
          /\ u \in pauser /\ targetPaused'[u] = p
          /\ \E id \in Registered : /\ modules[id].target = u /\ modules[id].paused # p
                                    /\ modules'[id].paused = p

\* A batch call has that effect.
LEMMA BatchHasEffect ==
  ASSUME GuardianInv, NEW p \in BOOLEAN, now' \in Nat,
         modules' = Batch(p).modules, targetPaused' = Batch(p).targetPaused
  PROVE  BatchEffect(p)
<1> DEFINE b == BatchStart
           c == Batch(p)
<1>1. b \in BatchStates /\ Done(p, b, c, Modules)
  BY BatchServes
<1>2. b.modules = modules /\ b.targetPaused = targetPaused
  BY DEF BatchStart
<1>3. BatchStart'.modules = c.modules /\ BatchStart'.targetPaused = c.targetPaused
  BY DEF BatchStart
<1> HIDE DEF b, c
<1>4. c \in BatchStates /\ SameModules(b, c)
  BY <1>1 DEF Done
<1>5. modules' = c.modules /\ targetPaused' = c.targetPaused
  BY DEF c
<1>6. GuardianInv'
  <2>1. c.modules \in [Modules -> GuardianConfigs] /\ c.targetPaused \in [Targets -> BOOLEAN]
    BY <1>4 DEF BatchStates
  <2>2. \A id \in Modules : c.modules[id].registered => c.modules[id].target \in Targets
    BY <1>4 DEF BatchStates
  <2> QED BY <1>5, <2>1, <2>2 DEF GuardianInv, Registered
<1>7. ASSUME NEW id \in Modules
      PROVE  modules'[id].target = modules[id].target /\ modules'[id].registered = modules[id].registered
  BY <1>2, <1>4, <1>5 DEF SameModules
<1>8. ASSUME NEW id \in Registered, modules[id].paused = p PROVE modules'[id] = modules[id]
  BY <1>1, <1>2, <1>5, <1>8 DEF Done, Visits, Registered
<1>9. ASSUME NEW id \in Registered, modules[id].paused # p PROVE Served(p, BatchStart, BatchStart', id)
  <2>1. Served(p, b, c, id)
    BY <1>1, <1>2, <1>9 DEF Done, Visits, Registered
  <2> QED BY <1>2, <1>3, <2>1 DEF Served, b
<1>10. ASSUME NEW u \in Targets, targetPaused'[u] # targetPaused[u]
       PROVE  /\ u \in pauser /\ targetPaused'[u] = p
              /\ \E id \in Registered : /\ modules[id].target = u /\ modules[id].paused # p
                                        /\ modules'[id].paused = p
  <2>1. u \in pauser /\ c.targetPaused[u] = p /\ \E id \in Modules : MovedBy(p, b, c, u, id)
    BY <1>1, <1>2, <1>5, <1>10 DEF Done
  <2> QED BY <1>2, <1>5, <2>1 DEF MovedBy, Visits, Registered
<1> QED BY <1>6, <1>7, <1>8, <1>9, <1>10 DEF BatchEffect

\* pauseAll and emergencyUnpauseAll are batch calls.
LEMMA BatchCalls ==
  ASSUME GuardianInv
  PROVE  /\ PauseAll => BatchEffect(TRUE)
         /\ EmergencyUnpauseAll => BatchEffect(FALSE)
<1>1. ASSUME PauseAll PROVE BatchEffect(TRUE)
  <2>1. now' \in Nat /\ modules' = Batch(TRUE).modules /\ targetPaused' = Batch(TRUE).targetPaused
    BY <1>1 DEF PauseAll, GuardianInv
  <2> QED BY <2>1, BatchHasEffect
<1>2. ASSUME EmergencyUnpauseAll PROVE BatchEffect(FALSE)
  <2>1. now' \in Nat /\ modules' = Batch(FALSE).modules /\ targetPaused' = Batch(FALSE).targetPaused
    BY <1>2 DEF EmergencyUnpauseAll, GuardianInv
  <2> QED BY <2>1, BatchHasEffect
<1> QED BY <1>1, <1>2

\* The invariant holds before the first registration.
LEMMA GuardianInvInit == Init => GuardianInv
<1> SUFFICES ASSUME Init PROVE GuardianInv
  OBVIOUS
<1>1. now \in Nat /\ targetPaused \in [Targets -> BOOLEAN] /\ modules = [id \in Modules |-> Unregistered]
  BY TimeAssumption DEF Init
<1>2. Unregistered \in GuardianConfigs /\ Unregistered.registered = FALSE
  BY DEF Unregistered, GuardianConfigs
<1> HIDE DEF Unregistered
<1> QED BY <1>1, <1>2 DEF GuardianInv, Registered

\* Every step keeps the invariant.
LEMMA GuardianInvStep ==
  ASSUME GuardianInv, [Next]_guardianVars
  PROVE  GuardianInv'
<1>a. /\ now \in Nat /\ modules \in [Modules -> GuardianConfigs] /\ targetPaused \in [Targets -> BOOLEAN]
      /\ \A id \in Registered : modules[id].target \in Targets
  BY DEF GuardianInv
<1>b. \A id \in Modules : modules[id] \in GuardianConfigs /\ (modules[id].registered => modules[id].target \in Targets)
  BY <1>a DEF Registered
<1>1. ASSUME UNCHANGED modules, now' \in Nat, targetPaused' \in [Targets -> BOOLEAN] PROVE GuardianInv'
  BY <1>a, <1>1 DEF GuardianInv, Registered
<1>2. ASSUME NEW t, TargetPause(t) \/ TargetUnpause(t) PROVE targetPaused' \in [Targets -> BOOLEAN]
  BY <1>a, <1>2 DEF TargetPause, TargetUnpause
<1>3. ASSUME NEW id \in Modules, now' = now, targetPaused' \in [Targets -> BOOLEAN],
             \/ modules' = [modules EXCEPT ![id].paused = FALSE]
             \/ modules' = [modules EXCEPT ![id].paused = TRUE, ![id].lastPauseTime = now]
      PROVE  GuardianInv'
  <2>1. CASE modules' = [modules EXCEPT ![id].paused = FALSE]
    <3> DEFINE c == [modules[id] EXCEPT !.paused = FALSE]
    <3>1. c \in GuardianConfigs /\ c.target = modules[id].target /\ c.registered = modules[id].registered
      BY <1>a, GuardianExcept
    <3>2. modules' = [modules EXCEPT ![id] = c]
      BY <2>1
    <3> HIDE DEF c
    <3> QED BY <1>a, <1>b, <1>3, <3>1, <3>2, OneConfig
  <2>2. CASE modules' = [modules EXCEPT ![id].paused = TRUE, ![id].lastPauseTime = now]
    <3> DEFINE c == [modules[id] EXCEPT !.paused = TRUE, !.lastPauseTime = now]
    <3>1. c \in GuardianConfigs /\ c.target = modules[id].target /\ c.registered = modules[id].registered
      BY <1>a, GuardianExcept
    <3>2. modules' = [modules EXCEPT ![id] = c]
      BY <2>2
    <3> HIDE DEF c
    <3> QED BY <1>a, <1>b, <1>3, <3>1, <3>2, OneConfig
  <2> QED BY <1>3, <2>1, <2>2
<1>4. ASSUME NEW id \in Modules, NEW t \in Targets, RegisterModule(id, t) \/ UpdateModuleTarget(id, t)
      PROVE  GuardianInv'
  <2>1. CASE RegisterModule(id, t)
    <3> DEFINE c == [Unregistered EXCEPT !.target = t, !.registered = TRUE]
    <3>1. modules' = [modules EXCEPT ![id] = c] /\ now' = now /\ targetPaused' = targetPaused
      BY <2>1 DEF RegisterModule
    <3>2. c \in GuardianConfigs
      BY DEF Unregistered, GuardianConfigs
    <3>3. c.target = t
      BY DEF Unregistered
    <3> HIDE DEF c
    <3> QED BY <1>a, <3>1, <3>2, <3>3, OneConfig
  <2>2. CASE UpdateModuleTarget(id, t)
    <3> DEFINE c == [modules[id] EXCEPT !.target = t]
    <3>1. modules' = [modules EXCEPT ![id] = c] /\ now' = now /\ targetPaused' = targetPaused
      BY <2>2 DEF UpdateModuleTarget
    <3>2. c \in GuardianConfigs /\ c.target = t
      BY <1>a, ConfigTarget
    <3> HIDE DEF c
    <3> QED BY <1>a, <3>1, <3>2, OneConfig
  <2> QED BY <1>4, <2>1, <2>2
<1>5. ASSUME NEW id \in Modules, PauseModule(id) PROVE GuardianInv'
  BY <1>2, <1>3, <1>5 DEF PauseModule, CallPause
<1>6. ASSUME NEW id \in Modules, UnpauseModule(id) \/ GovernanceUnpause(id) PROVE GuardianInv'
  BY <1>2, <1>3, <1>6 DEF UnpauseModule, GovernanceUnpause, CallUnpause
<1>7. ASSUME NEW id \in Modules, NEW amount, RecordBridgeActivity(id, amount) PROVE GuardianInv'
  <2>1. now' = now
    BY <1>7 DEF RecordBridgeActivity
  <2>2. CASE UNCHANGED <<modules, targetPaused>>
    BY <1>a, <1>1, <2>1, <2>2
  <2>3. CASE TripPause(id)
    <3>1. CASE modules[id].paused
      BY <1>a, <1>1, <2>1, <2>3, <3>1 DEF TripPause
    <3>2. CASE ~modules[id].paused
      BY <1>2, <1>3, <2>1, <2>3, <3>2 DEF TripPause, CallPause
    <3> QED BY <3>1, <3>2
  <2> QED BY <1>7, <2>2, <2>3 DEF RecordBridgeActivity
<1>13. ASSUME NEW t \in Targets, RevokePauser(t) \/ GrantPauser(t) PROVE GuardianInv'
  BY <1>a, <1>1, <1>13 DEF RevokePauser, GrantPauser
<1>8. ASSUME NEW t \in Targets, DirectPause(t) \/ DirectUnpause(t) PROVE GuardianInv'
  <2>1. UNCHANGED <<now, modules>> /\ (TargetPause(t) \/ TargetUnpause(t))
    BY <1>8 DEF DirectPause, DirectUnpause
  <2> QED BY <1>a, <1>1, <1>2, <2>1
<1>9. CASE Tick
  <2>1. now' = now + 1 /\ UNCHANGED <<modules, targetPaused>>
    BY <1>9 DEF Tick
  <2> QED BY <1>a, <1>1, <2>1
<1>10. CASE UNCHANGED guardianVars
  BY <1>a, <1>1, <1>10 DEF guardianVars
<1>11. CASE GuardianActs
  <2>1. ASSUME NEW e \in Eids, NEW id \in Modules, NEW pause \in BOOLEAN, SignalCrossChainPause(e, id, pause)
        PROVE  GuardianInv'
    BY <1>a, <1>1, <2>1 DEF SignalCrossChainPause
  <2>2. CASE PauseAll
    BY <2>2, BatchCalls DEF BatchEffect
  <2> QED BY <1>5, <1>6, <1>11, <2>1, <2>2 DEF GuardianActs
<1>12. CASE GovernanceActs
  <2>1. ASSUME NEW newSunset, ReduceSunset(newSunset) PROVE GuardianInv'
    BY <1>a, <1>1, <2>1 DEF ReduceSunset
  <2>2. ASSUME NEW id \in Modules, ResetCircuitBreaker(id) PROVE GuardianInv'
    BY <1>a, <1>1, <2>2 DEF ResetCircuitBreaker
  <2>3. ASSUME NEW id \in Modules, NEW th, NEW w, ConfigureCircuitBreaker(id, th, w) PROVE GuardianInv'
    BY <1>a, <1>1, <2>3 DEF ConfigureCircuitBreaker
  <2>4. ASSUME NEW id \in Modules, NEW t \in TargetChoices[id] PROVE t \in Targets
    BY ChoiceAssumption, <2>4
  <2>5. CASE EmergencyUnpauseAll
    BY <2>5, BatchCalls DEF BatchEffect
  <2> QED BY <1>4, <1>6, <1>12, <2>1, <2>2, <2>3, <2>4, <2>5 DEF GovernanceActs
<1> QED BY <1>7, <1>8, <1>9, <1>10, <1>11, <1>12, <1>13 DEF Next, MonitorActs, AdminActs

\* pauseAll stops the target of every module that it can, for every set of modules
\* and targets, shared ones included, whoever paused, took a role or moved a module.
THEOREM StopAlwaysReaches == Spec => StopReachesAll
<1> DEFINE Reaches == PauseAll => \A id \in Registered :
              \/ targetPaused'[modules[id].target]
              \/ modules[id].paused
              \/ modules[id].target \notin pauser
<1>1. Init => GuardianInv
  BY GuardianInvInit
<1>2. GuardianInv /\ [Next]_guardianVars => GuardianInv'
  BY GuardianInvStep
<1>3. GuardianInv => Reaches
  <2> SUFFICES ASSUME GuardianInv, PauseAll, NEW id \in Registered,
                      ~modules[id].paused, modules[id].target \in pauser
               PROVE  targetPaused'[modules[id].target]
    OBVIOUS
  <2>1. Served(TRUE, BatchStart, BatchStart', id)
    BY BatchCalls DEF BatchEffect
  <2>2. BatchStart.modules = modules /\ BatchStart'.targetPaused = targetPaused'
    BY DEF BatchStart
  <2> QED BY <2>1, <2>2 DEF Served
<1>4. StopReachesAll <=> [][Reaches]_guardianVars
  BY DEF StopReachesAll
<1> HIDE DEF Reaches
<1> QED BY <1>1, <1>2, <1>3, <1>4, PTL DEF Spec

\* A batch call leaves the flag of every module that it visits at the state of the
\* module's target, if the target can be asked.
THEOREM BatchesAlwaysReconcile == Spec => BatchesReconcile
<1> DEFINE Reconciles == \A id \in Registered :
              /\ modules[id].target \notin Opaque
              /\ IF modules[id].paused THEN EmergencyUnpauseAll ELSE PauseAll
              => modules'[id].paused = targetPaused'[modules[id].target]
<1>1. Init => GuardianInv
  BY GuardianInvInit
<1>2. GuardianInv /\ [Next]_guardianVars => GuardianInv'
  BY GuardianInvStep
<1>3. GuardianInv => Reconciles
  <2> SUFFICES ASSUME GuardianInv, NEW id \in Registered, modules[id].target \notin Opaque,
                      IF modules[id].paused THEN EmergencyUnpauseAll ELSE PauseAll
               PROVE  modules'[id].paused = targetPaused'[modules[id].target]
    OBVIOUS
  <2>1. PICK p \in BOOLEAN : BatchEffect(p) /\ modules[id].paused # p
    <3>1. CASE modules[id].paused
      BY <3>1, BatchCalls
    <3>2. CASE ~modules[id].paused
      BY <3>2, BatchCalls
    <3> QED BY <3>1, <3>2
  <2>2. Served(p, BatchStart, BatchStart', id)
    BY <2>1 DEF BatchEffect
  <2>3. /\ BatchStart.modules = modules /\ BatchStart'.modules = modules'
        /\ BatchStart'.targetPaused = targetPaused'
    BY DEF BatchStart
  <2> QED BY <2>2, <2>3 DEF Served
<1>4. BatchesReconcile <=> [][Reconciles]_guardianVars
  BY DEF BatchesReconcile
<1> HIDE DEF Reconciles
<1> QED BY <1>1, <1>2, <1>3, <1>4, PTL DEF Spec

-----------------------------------------------------------------------------
(***************************************************************************)
(* FlagsFollowTargets.                                                     *)
(***************************************************************************)
\* What the property asks of a step for module id.
Follows(id) ==
    /\ modules'[id].paused # modules[id].paused => Agrees(id)'
    /\ Agrees(id) /\ ~Agrees(id)' => Bypassed(id)

\* A step that leaves the flag of id and what it follows.
LEMMA FollowsUnmoved ==
  ASSUME NEW id, modules'[id] = modules[id],
         targetPaused'[modules[id].target] = targetPaused[modules[id].target]
  PROVE  Follows(id)
BY DEF Follows, Agrees

\* A batch call goes behind no readable target's flag.
LEMMA FollowsBatch ==
  ASSUME GuardianInv, NEW p \in BOOLEAN, BatchEffect(p), NEW id \in Registered
  PROVE  Follows(id)
<1> DEFINE t == modules[id].target
<1>1. /\ id \in Modules /\ t \in Targets /\ modules[id].paused \in BOOLEAN
      /\ modules'[id].target = t /\ modules'[id].paused \in BOOLEAN
      /\ targetPaused[t] \in BOOLEAN /\ targetPaused'[t] \in BOOLEAN
  <2>1. /\ modules[id] \in GuardianConfigs /\ modules'[id] \in GuardianConfigs
        /\ id \in Modules /\ t \in Targets /\ modules'[id].target = t
        /\ targetPaused[t] \in BOOLEAN /\ targetPaused'[t] \in BOOLEAN
    BY DEF GuardianInv, BatchEffect, Registered
  <2> QED BY <2>1, GuardianFields
<1>2. targetPaused'[t] # targetPaused[t] =>
         /\ targetPaused'[t] = p
         /\ \E other \in Registered : /\ modules[other].target = t /\ modules[other].paused # p
                                      /\ modules'[other].paused = p
  BY <1>1 DEF BatchEffect
<1>3. CASE modules[id].paused = p
  <2>1. modules'[id] = modules[id]
    BY <1>3 DEF BatchEffect
  <2>2. CASE targetPaused'[t] = targetPaused[t]
    BY <2>1, <2>2, FollowsUnmoved
  <2>3. CASE targetPaused'[t] # targetPaused[t]
    <3>1. targetPaused'[t] = p /\ targetPaused[t] # p
      BY <1>2, <2>3
    <3> QED BY <1>3, <2>1, <3>1 DEF Follows, Agrees
  <2> QED BY <2>2, <2>3
<1>4. CASE modules[id].paused # p
  <2>1. Served(p, BatchStart, BatchStart', id)
    BY <1>4 DEF BatchEffect
  <2>2. /\ BatchStart.modules = modules /\ BatchStart'.modules = modules'
        /\ BatchStart'.targetPaused = targetPaused'
    BY DEF BatchStart
  <2>3. /\ t \notin Opaque => Agrees(id)'
        /\ modules'[id].paused # modules[id].paused => Agrees(id)'
    BY <1>1, <2>1, <2>2 DEF Served, Agrees
  <2>4. ASSUME Agrees(id), ~Agrees(id)' PROVE Bypassed(id)
    <3>1. t \in Opaque /\ modules'[id].paused = modules[id].paused
      BY <2>3, <2>4
    <3>2. targetPaused'[t] # targetPaused[t]
      BY <1>1, <2>4, <3>1 DEF Agrees
    <3>3. PICK other \in Registered : /\ modules[other].target = t /\ modules[other].paused # p
                                      /\ modules'[other].paused = p
      BY <1>2, <3>2
    <3>4. other # id
      BY <1>4, <3>1, <3>3
    <3> QED BY <3>1, <3>3, <3>4 DEF Bypassed
  <2> QED BY <2>3, <2>4 DEF Follows
<1> QED BY <1>3, <1>4

\* A call on one module k moves its flag and its target together, to q.
OneCall(k, q) ==
    /\ k \in Registered /\ modules[k].paused # q
    /\ \E c \in GuardianConfigs : /\ modules' = [modules EXCEPT ![k] = c]
                                  /\ c.target = modules[k].target /\ c.paused = q
    /\ targetPaused' = [targetPaused EXCEPT ![modules[k].target] = q]

\* Such a call goes behind the flags of the modules that share the target only.
LEMMA FollowsOneCall ==
  ASSUME GuardianInv, NEW k, NEW q \in BOOLEAN, OneCall(k, q), ~PauseAll, ~EmergencyUnpauseAll,
         NEW id \in Registered
  PROVE  Follows(id)
<1>1. PICK c \in GuardianConfigs : /\ modules' = [modules EXCEPT ![k] = c]
                                   /\ c.target = modules[k].target /\ c.paused = q
  BY DEF OneCall
<1>2. /\ modules \in [Modules -> GuardianConfigs] /\ targetPaused \in [Targets -> BOOLEAN]
      /\ id \in Modules /\ k \in Registered /\ k \in Modules
      /\ modules[id].target \in Targets /\ modules[k].target \in Targets
      /\ modules[k].paused # q
      /\ targetPaused' = [targetPaused EXCEPT ![modules[k].target] = q]
  BY DEF GuardianInv, Registered, OneCall
<1>3. CASE id = k
  <2>1. modules'[id] = c /\ targetPaused'[c.target] = q
    BY <1>1, <1>2, <1>3
  <2>2. Agrees(id)'
    BY <1>1, <2>1 DEF Agrees
  <2> QED BY <2>2 DEF Follows
<1>4. CASE id # k /\ modules[id].target # modules[k].target
  <2>1. modules'[id] = modules[id]
    BY <1>1, <1>2, <1>4
  <2>2. targetPaused'[modules[id].target] = targetPaused[modules[id].target]
    BY <1>2, <1>4
  <2> QED BY <2>1, <2>2, FollowsUnmoved
<1>5. CASE id # k /\ modules[id].target = modules[k].target
  <2>1. modules'[id] = modules[id] /\ modules'[k] = c
    BY <1>1, <1>2, <1>5
  <2>2. modules'[k].paused # modules[k].paused
    BY <1>1, <1>2, <2>1
  <2>3. Bypassed(id)
    BY <1>2, <1>5, <2>2 DEF Bypassed
  <2> QED BY <2>1, <2>3 DEF Follows
<1> QED BY <1>3, <1>4, <1>5

\* The flags of every step follow its targets.
LEMMA FollowsStep ==
  ASSUME GuardianInv, [Next]_guardianVars, NEW id \in Registered
  PROVE  Follows(id)
<1>a. /\ now \in Nat /\ modules \in [Modules -> GuardianConfigs] /\ targetPaused \in [Targets -> BOOLEAN]
      /\ id \in Modules /\ modules[id].target \in Targets
  BY DEF GuardianInv, Registered
<1>1. CASE PauseAll \/ EmergencyUnpauseAll
  BY <1>1, BatchCalls, FollowsBatch
<1>2. ASSUME ~PauseAll, ~EmergencyUnpauseAll PROVE Follows(id)
  <2>1. ASSUME UNCHANGED <<modules, targetPaused>> PROVE Follows(id)
    BY <2>1, FollowsUnmoved
  <2>2. ASSUME NEW k \in Registered, ~modules[k].paused, CallPause(modules[k].target),
               modules' = [modules EXCEPT ![k].paused = TRUE, ![k].lastPauseTime = now]
        PROVE  Follows(id)
    <3> DEFINE c == [modules[k] EXCEPT !.paused = TRUE, !.lastPauseTime = now]
    <3>1. modules[k] \in GuardianConfigs
      BY <1>a DEF Registered
    <3>2. c \in GuardianConfigs /\ c.target = modules[k].target /\ c.paused = TRUE
      BY <1>a, <3>1, GuardianExcept
    <3>3. modules' = [modules EXCEPT ![k] = c]
      BY <2>2
    <3> HIDE DEF c
    <3>4. OneCall(k, TRUE)
      BY <2>2, <3>2, <3>3 DEF OneCall, CallPause, TargetPause
    <3> QED BY <1>2, <3>4, FollowsOneCall
  <2>3. ASSUME NEW k \in Registered, modules[k].paused, CallUnpause(modules[k].target),
               modules' = [modules EXCEPT ![k].paused = FALSE]
        PROVE  Follows(id)
    <3> DEFINE c == [modules[k] EXCEPT !.paused = FALSE]
    <3>1. modules[k] \in GuardianConfigs
      BY <1>a DEF Registered
    <3>2. c \in GuardianConfigs /\ c.target = modules[k].target /\ c.paused = FALSE
      BY <1>a, <3>1, GuardianExcept
    <3>3. modules' = [modules EXCEPT ![k] = c]
      BY <2>3
    <3> HIDE DEF c
    <3>4. OneCall(k, FALSE)
      BY <2>3, <3>2, <3>3 DEF OneCall, CallUnpause, TargetUnpause
    <3> QED BY <1>2, <3>4, FollowsOneCall
  <2>4. ASSUME NEW k \in Modules, PauseModule(k) PROVE Follows(id)
    BY <2>2, <2>4 DEF PauseModule
  <2>5. ASSUME NEW k \in Modules, UnpauseModule(k) \/ GovernanceUnpause(k) PROVE Follows(id)
    BY <2>3, <2>5 DEF UnpauseModule, GovernanceUnpause
  <2>6. ASSUME NEW k \in Modules, NEW n, RecordBridgeActivity(k, n) PROVE Follows(id)
    <3>1. k \in Registered /\ (TripPause(k) \/ UNCHANGED <<modules, targetPaused>>)
      BY <2>6 DEF RecordBridgeActivity
    <3> QED BY <2>1, <2>2, <3>1 DEF TripPause
  <2>7. ASSUME NEW k \in Modules, NEW t \in Targets, RegisterModule(k, t) PROVE Follows(id)
    <3>1. modules'[id] = modules[id] /\ targetPaused' = targetPaused
      BY <1>a, <2>7 DEF RegisterModule
    <3> QED BY <3>1, FollowsUnmoved
  <2>8. ASSUME NEW k \in Modules, NEW t \in Targets, UpdateModuleTarget(k, t) PROVE Follows(id)
    <3>1. modules' = [modules EXCEPT ![k].target = t] /\ targetPaused' = targetPaused
      BY <2>8 DEF UpdateModuleTarget
    <3>2. CASE k # id
      BY <1>a, <3>1, <3>2, FollowsUnmoved
    <3>3. CASE k = id
      <4>1. modules'[id] = [modules[id] EXCEPT !.target = t] /\ modules[id] \in GuardianConfigs
        BY <1>a, <3>1, <3>3
      <4>2. modules'[id].paused = modules[id].paused
        BY <4>1 DEF GuardianConfigs
      <4> QED BY <3>1, <4>2 DEF Follows, Agrees, Bypassed
    <3> QED BY <3>2, <3>3
  <2>9. ASSUME NEW t \in Targets, DirectPause(t) \/ DirectUnpause(t) PROVE Follows(id)
    <3>1. modules' = modules /\ (TargetPause(t) \/ TargetUnpause(t))
      BY <2>9 DEF DirectPause, DirectUnpause
    <3>2. CASE t = modules[id].target
      BY <2>9, <3>1, <3>2 DEF Follows, Bypassed
    <3>3. CASE t # modules[id].target
      <4>1. targetPaused'[modules[id].target] = targetPaused[modules[id].target]
        BY <1>a, <3>1, <3>3 DEF TargetPause, TargetUnpause
      <4> QED BY <3>1, <4>1, FollowsUnmoved
    <3> QED BY <3>2, <3>3
  <2>10. ASSUME NEW t \in Targets, RevokePauser(t) \/ GrantPauser(t) PROVE Follows(id)
    BY <2>1, <2>10 DEF RevokePauser, GrantPauser
  <2>11. CASE Tick \/ UNCHANGED guardianVars
    BY <2>1, <2>11 DEF Tick, guardianVars
  <2>12. CASE GuardianActs
    <3>1. ASSUME NEW e \in Eids, NEW k \in Modules, NEW pause \in BOOLEAN, SignalCrossChainPause(e, k, pause)
          PROVE  Follows(id)
      BY <2>1, <3>1 DEF SignalCrossChainPause
    <3> QED BY <1>2, <2>4, <2>5, <2>12, <3>1 DEF GuardianActs
  <2>13. CASE GovernanceActs
    <3>1. ASSUME NEW newSunset, ReduceSunset(newSunset) PROVE Follows(id)
      BY <2>1, <3>1 DEF ReduceSunset
    <3>2. ASSUME NEW k \in Modules, ResetCircuitBreaker(k) PROVE Follows(id)
      BY <2>1, <3>2 DEF ResetCircuitBreaker
    <3>3. ASSUME NEW k \in Modules, NEW th, NEW w, ConfigureCircuitBreaker(k, th, w) PROVE Follows(id)
      BY <2>1, <3>3 DEF ConfigureCircuitBreaker
    <3>4. ASSUME NEW k \in Modules, NEW t \in TargetChoices[k] PROVE t \in Targets
      BY ChoiceAssumption, <3>4
    <3> QED BY <1>2, <2>5, <2>7, <2>8, <2>13, <3>1, <3>2, <3>3, <3>4 DEF GovernanceActs
  <2> QED BY <2>6, <2>9, <2>10, <2>11, <2>12, <2>13 DEF Next, MonitorActs, AdminActs
<1> QED BY <1>1, <1>2

\* With targets shared between modules and a second pauser, as deployed: no call of
\* the guardian, of governance or of the breaker moves a flag away from its target,
\* and a right flag goes wrong only behind the module's back.
THEOREM FlagsAlwaysFollow == Spec => FlagsFollowTargets
<1> DEFINE AllFollow == \A id \in Registered :
              /\ modules'[id].paused # modules[id].paused => Agrees(id)'
              /\ Agrees(id) /\ ~Agrees(id)' => Bypassed(id)
<1>1. Init => GuardianInv
  BY GuardianInvInit
<1>2. GuardianInv /\ [Next]_guardianVars => GuardianInv'
  BY GuardianInvStep
<1>3. GuardianInv /\ [Next]_guardianVars => AllFollow
  BY FollowsStep DEF Follows
<1>4. FlagsFollowTargets <=> [][AllFollow]_guardianVars
  BY DEF FlagsFollowTargets
<1> HIDE DEF AllFollow
<1> QED BY <1>1, <1>2, <1>3, <1>4, PTL DEF Spec

-----------------------------------------------------------------------------
(***************************************************************************)
(* The monitor and the guardian.                                           *)
(***************************************************************************)
USE MonitorAssumption, BreakerAssumption

\* A set of naturals that is not empty holds its least element.
LEMMA LeastNatural ==
  ASSUME NEW T \in SUBSET Nat, T # {}
  PROVE  Min(T) \in T
<1>1. PICK x \in T : \A y \in T : <<y, x>> \notin OpToRel(<, Nat)
  BY NatLessThanWellFounded, WFMin
<1>2. ASSUME NEW y \in T PROVE x <= y
  <2>1. <<y, x>> \notin {ss \in Nat \X Nat : ss[1] < ss[2]}
    BY <1>1 DEF OpToRel
  <2>2. y \in Nat /\ x \in Nat /\ <<y, x>> \in Nat \X Nat /\ <<y, x>>[1] = y /\ <<y, x>>[2] = x
    OBVIOUS
  <2>3. ~(y < x)
    BY <2>1, <2>2
  <2> QED BY <2>2, <2>3
<1> QED BY <1>2 DEF Min

(***************************************************************************)
(* The scan: what the process holds in memory and on disk.                 *)
(***************************************************************************)
ScanTypeOK ==
    /\ chain \in Seq(Nat)
    /\ pc \in {"idle", "scan"}
    /\ latestBlock \in Nat /\ latestBlock <= Len(chain)
    /\ from \in Nat \ {0}
    /\ lastBlock \in Nat /\ lastBlock <= Len(chain)
    /\ stateFile \in Nat /\ stateFile <= lastBlock
    /\ logs \in SUBSET Nat
    /\ counted \in [1..MaxBlock -> Nat]
    /\ faults \in Nat

\* A block that the current scan is done with.
Scanned(b) == pc = "scan" /\ b < from /\ b <= latestBlock /\ b \notin logs

\* A scan goes forward from the recorded progress, and what it holds lies in
\* the part it has fetched.
ScanForward ==
    /\ pc = "idle" => logs = {}
    /\ pc = "scan" => lastBlock < from /\ lastBlock <= latestBlock
    /\ \A b \in logs : lastBlock < b /\ b < from /\ b <= latestBlock

\* What a scan is done with was put to the contract or given up.
ScanReported == \A b \in 1..Len(chain) : Scanned(b) /\ chain[b] # 0 => b \in answered \cup dropped

\* A failure pays for every count but one, and the one is behind the progress or the scan.
CountsPaid == \A b \in 1..MaxBlock : counted[b] <= faults + (IF b <= lastBlock \/ Scanned(b) THEN 1 ELSE 0)

ScanInv == ScanTypeOK /\ ScanForward /\ NeverSkips /\ ScanReported
CountInv == ScanTypeOK /\ ScanForward /\ CountsPaid

\* The process starts with nothing scanned, counted or held.
LEMMA ScanInit == MonitorInit => ScanInv /\ CountInv
<1> SUFFICES ASSUME MonitorInit PROVE ScanInv /\ CountInv
  OBVIOUS
<1>1. /\ chain = <<>> /\ Len(chain) = 0 /\ pc = "idle" /\ logs = {}
      /\ latestBlock = 0 /\ from = 1 /\ lastBlock = 0 /\ stateFile = 0
      /\ counted = [b \in 1..MaxBlock |-> 0] /\ faults = 0
  BY DEF MonitorInit
<1>2. ScanTypeOK /\ ScanForward
  BY <1>1 DEF ScanTypeOK, ScanForward
<1>3. NeverSkips /\ ScanReported
  BY <1>1 DEF NeverSkips, ScanReported
<1>4. CountsPaid
  <2> SUFFICES ASSUME NEW b \in 1..MaxBlock
               PROVE  counted[b] <= faults + (IF b <= lastBlock \/ Scanned(b) THEN 1 ELSE 0)
    BY DEF CountsPaid
  <2>1. counted[b] = 0 /\ ~(b <= lastBlock) /\ ~Scanned(b)
    BY <1>1 DEF Scanned
  <2> QED BY <1>1, <2>1
<1> QED BY <1>2, <1>3, <1>4 DEF ScanInv, CountInv

-----------------------------------------------------------------------------
(***************************************************************************)
(* Types and the shape of a scan.                                          *)
(***************************************************************************)
LEMMA ScanShape ==
  ASSUME ScanTypeOK, ScanForward, [MonitorNext]_vars
  PROVE  ScanTypeOK' /\ ScanForward'
<1> USE DEF ScanTypeOK, ScanForward, historyVars, scanVars
<1>1. ASSUME NEW amount \in Amounts \cup {0}, MineBlock(amount)
      PROVE  ScanTypeOK' /\ ScanForward'
  <2>1. amount \in Nat /\ chain' = Append(chain, amount)
    BY <1>1 DEF MineBlock
  <2>2. chain' \in Seq(Nat) /\ Len(chain') = Len(chain) + 1 /\ Len(chain) \in Nat
    BY <2>1
  <2> QED BY <1>1, <2>2 DEF MineBlock
<1>2. CASE Poll
  BY <1>2 DEF Poll
<1>3. CASE Fetch
  BY <1>3 DEF Fetch, EventBlocks, ChunkEnd
<1>4. CASE Report
  <2>1. Min(logs) \in logs /\ logs' = logs \ {Min(logs)}
    BY <1>4, LeastNatural DEF Report
  <2>2. counted' = counted \/ counted' = [counted EXCEPT ![Min(logs)] = @ + 1]
    BY <1>4 DEF Report
  <2>3. \A b \in 1..MaxBlock : counted[b] \in Nat /\ counted[b] + 1 \in Nat
    OBVIOUS
  <2>4. counted' \in [1..MaxBlock -> Nat]
    BY <2>2, <2>3
  <2> QED BY <1>4, <2>1, <2>4 DEF Report
<1>5. CASE Save
  BY <1>5 DEF Save
<1>a. CASE SaveFails
  BY <1>a DEF SaveFails, Fails
<1>b. CASE FetchFails
  BY <1>b DEF FetchFails, Fails
<1>6. CASE ReportFails
  <2>1. /\ logs' \subseteq logs /\ faults' = faults + 1 /\ pc = "scan"
        /\ UNCHANGED <<chain, pc, latestBlock, from, lastBlock, stateFile, counted>>
    BY <1>6 DEF ReportFails, Fails
  <2> QED BY <2>1
<1>7. CASE Restart
  BY <1>7 DEF Restart, Fails
<1>8. CASE GuardianStep \/ UNCHANGED vars
  BY <1>8 DEF GuardianStep, vars
<1> QED BY <1>1, <1>2, <1>3, <1>4, <1>5, <1>a, <1>b, <1>6, <1>7, <1>8 DEF MonitorNext, MonitorStep

(***************************************************************************)
(* NeverSkips.                                                             *)
(***************************************************************************)
LEMMA ScanStep ==
  ASSUME ScanInv, [MonitorNext]_vars
  PROVE  ScanInv'
<1>0. ScanTypeOK /\ ScanForward /\ NeverSkips /\ ScanReported /\ ScanTypeOK' /\ ScanForward'
  BY ScanShape DEF ScanInv
<1> SUFFICES NeverSkips' /\ ScanReported'
  BY <1>0 DEF ScanInv
<1> USE DEF ScanTypeOK, ScanForward, NeverSkips, ScanReported, Scanned, historyVars, scanVars
<1>1. ASSUME NEW amount \in Amounts \cup {0}, MineBlock(amount)
      PROVE  NeverSkips' /\ ScanReported'
  <2>1. amount \in Nat /\ chain' = Append(chain, amount)
    BY <1>1 DEF MineBlock
  <2>2. \A b \in 1..Len(chain) : chain'[b] = chain[b]
    BY <1>0, <2>1
  <2>3. /\ pc' = pc /\ lastBlock' = lastBlock /\ from' = from /\ latestBlock' = latestBlock
        /\ logs' = logs /\ answered' = answered /\ dropped' = dropped
        /\ lastBlock <= Len(chain) /\ latestBlock <= Len(chain)
        /\ lastBlock \in Nat /\ latestBlock \in Nat /\ Len(chain) \in Nat /\ Len(chain') = Len(chain) + 1
    BY <1>0, <1>1, <2>1 DEF MineBlock
  <2>4. NeverSkips'
    <3>1. \A b \in 1..lastBlock : chain[b] # 0 => b \in answered \cup dropped
      BY <1>0
    <3>2. \A b \in 1..lastBlock : chain'[b] = chain[b]
      BY <2>2, <2>3
    <3> QED BY <2>3, <3>1, <3>2
  <2>5. ASSUME NEW b \in 1..Len(chain'), Scanned(b)' PROVE b \in 1..Len(chain) /\ Scanned(b)
    BY <2>3, <2>5
  <2>6. ScanReported'
    <3>1. \A b \in 1..Len(chain) : Scanned(b) /\ chain[b] # 0 => b \in answered \cup dropped
      BY <1>0
    <3> QED BY <2>2, <2>3, <2>5, <3>1
  <2> QED BY <2>4, <2>6
<1>2. CASE Poll
  <2>1. /\ pc = "idle" /\ lastBlock' = lastBlock /\ chain' = chain /\ from' = lastBlock + 1
        /\ answered' = answered /\ dropped' = dropped /\ lastBlock \in Nat
    BY <1>0, <1>2 DEF Poll
  <2>2. NeverSkips'
    BY <1>0, <2>1
  <2>3. ASSUME NEW b \in 1..Len(chain), Scanned(b)' PROVE b \in 1..lastBlock
    BY <2>1, <2>3
  <2>4. ScanReported'
    BY <1>0, <2>1, <2>3
  <2> QED BY <2>2, <2>4
<1>3. CASE Fetch
  <2>1. \A b \in 1..Len(chain) : b < from' /\ b <= latestBlock /\ b \notin logs' /\ chain[b] # 0 => b < from
    BY <1>0, <1>3 DEF Fetch, EventBlocks, ChunkEnd
  <2> QED BY <1>0, <1>3, <2>1 DEF Fetch
<1>4. CASE Report
  BY <1>0, <1>4 DEF Report
<1>5. CASE Save \/ SaveFails
  BY <1>0, <1>5 DEF Save, SaveFails, Fails
<1>6. CASE FetchFails
  BY <1>0, <1>6 DEF FetchFails, Fails
<1>7. CASE ReportFails
  BY <1>0, <1>7 DEF ReportFails, Fails
<1>8. CASE Restart
  BY <1>0, <1>8 DEF Restart, Fails
<1>9. CASE GuardianStep \/ UNCHANGED vars
  BY <1>0, <1>9 DEF GuardianStep, vars
<1> QED BY <1>1, <1>2, <1>3, <1>4, <1>5, <1>6, <1>7, <1>8, <1>9 DEF MonitorNext, MonitorStep

\* The recorded progress never passes a transfer that was neither put to the
\* contract nor given up, for every chain, chunk size and number of failures.
THEOREM MonitorNeverSkips == MonitorSpec => []NeverSkips
<1>1. MonitorInit => ScanInv
  BY ScanInit
<1>2. ScanInv /\ [MonitorNext]_vars => ScanInv'
  BY ScanStep
<1>3. ScanInv => NeverSkips
  BY DEF ScanInv
<1> QED BY <1>1, <1>2, <1>3, PTL DEF MonitorSpec
-----------------------------------------------------------------------------
(***************************************************************************)
(* RecountsBounded.                                                        *)
(***************************************************************************)
LEMMA CountStep ==
  ASSUME CountInv, [MonitorNext]_vars
  PROVE  CountInv'
<1>0. ScanTypeOK /\ ScanForward /\ CountsPaid /\ ScanTypeOK' /\ ScanForward'
  BY ScanShape DEF CountInv
<1> SUFFICES ASSUME NEW b \in 1..MaxBlock
             PROVE  counted'[b] <= faults' + (IF b <= lastBlock' \/ Scanned(b)' THEN 1 ELSE 0)
  BY <1>0 DEF CountInv, CountsPaid
<1>a. /\ counted[b] \in Nat /\ counted'[b] \in Nat /\ faults \in Nat /\ b \in Nat
      /\ counted[b] <= faults + (IF b <= lastBlock \/ Scanned(b) THEN 1 ELSE 0)
  BY <1>0 DEF CountsPaid, ScanTypeOK
<1>b. CASE counted' = counted /\ faults' = faults + 1
  <2> DEFINE y == IF b <= lastBlock' \/ Scanned(b)' THEN 1 ELSE 0
  <2>1. y \in {0, 1}
    OBVIOUS
  <2>2. counted'[b] <= faults + 1
    BY <1>a, <1>b
  <2> HIDE DEF y
  <2>3. counted'[b] <= faults' + y
    BY <1>a, <1>b, <2>1, <2>2
  <2> QED BY <2>3 DEF y
<1>c. ASSUME counted' = counted, faults' = faults, b <= lastBlock \/ Scanned(b) => b <= lastBlock' \/ Scanned(b)'
      PROVE  counted'[b] <= faults' + (IF b <= lastBlock' \/ Scanned(b)' THEN 1 ELSE 0)
  BY <1>0, <1>a, <1>c DEF ScanTypeOK
<1> USE DEF ScanTypeOK, ScanForward, Scanned, historyVars, scanVars
<1>1. ASSUME NEW amount \in Amounts \cup {0}, MineBlock(amount)
      PROVE  counted'[b] <= faults' + (IF b <= lastBlock' \/ Scanned(b)' THEN 1 ELSE 0)
  BY <1>c, <1>1 DEF MineBlock
<1>2. CASE Poll
  BY <1>0, <1>c, <1>2 DEF Poll
<1>3. CASE Fetch
  BY <1>0, <1>c, <1>3 DEF Fetch, EventBlocks, ChunkEnd
<1>4. CASE Report
  <2>1. Min(logs) \in logs /\ logs' = logs \ {Min(logs)}
    BY <1>0, <1>4, LeastNatural DEF Report
  <2>2. faults' = faults /\ pc' = pc /\ pc = "scan" /\ from' = from /\ latestBlock' = latestBlock /\ lastBlock' = lastBlock
    BY <1>4 DEF Report
  <2>3. counted' = counted \/ counted' = [counted EXCEPT ![Min(logs)] = @ + 1]
    BY <1>4 DEF Report
  <2>4. Scanned(b) => Scanned(b)'
    BY <2>1, <2>2
  <2>5. CASE b = Min(logs)
    <3>1. b \in logs /\ b \notin logs'
      BY <2>1, <2>5
    <3>2. lastBlock < b /\ b < from /\ b <= latestBlock
      BY <1>0, <3>1
    <3>3. ~(b <= lastBlock) /\ ~Scanned(b) /\ Scanned(b)'
      BY <1>0, <1>a, <2>2, <3>1, <3>2
    <3>4. counted'[b] = counted[b] \/ counted'[b] = counted[b] + 1
      BY <1>0, <2>3, <2>5
    <3> HIDE DEF Scanned
    <3> QED BY <1>0, <1>a, <2>2, <3>3, <3>4
  <2>6. CASE b # Min(logs)
    <3>1. counted'[b] = counted[b]
      BY <1>0, <2>3, <2>6
    <3> HIDE DEF Scanned
    <3> QED BY <1>0, <1>a, <2>2, <2>4, <3>1
  <2> QED BY <2>5, <2>6
<1>5. CASE Save
  BY <1>0, <1>c, <1>5 DEF Save
<1>6. CASE SaveFails \/ FetchFails \/ ReportFails \/ Restart
  BY <1>b, <1>6 DEF SaveFails, FetchFails, ReportFails, Restart, Fails
<1>7. CASE GuardianStep \/ UNCHANGED vars
  BY <1>c, <1>7 DEF GuardianStep, vars
<1> QED BY <1>1, <1>2, <1>3, <1>4, <1>5, <1>6, <1>7 DEF MonitorNext, MonitorStep

\* A transfer is counted at most once more than there were failures.
THEOREM MonitorRecountsBounded == MonitorSpec => []RecountsBounded
<1>1. MonitorInit => CountInv
  BY ScanInit
<1>2. CountInv /\ [MonitorNext]_vars => CountInv'
  BY CountStep
<1>3. CountInv => RecountsBounded
  BY DEF CountInv, ScanTypeOK, CountsPaid, RecountsBounded
<1> QED BY <1>1, <1>2, <1>3, PTL DEF MonitorSpec
=============================================================================
