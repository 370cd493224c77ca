-------------------------- MODULE ServicesProofs --------------------------
(***************************************************************************)
(* Proofs about the components of module Services that share no state: the *)
(* safety gate, the API server, the registries, the cloned repositories,   *)
(* the tools that run commands, the credentials file, the observer and the *)
(* files.                                                                  *)
(* Each has an inductive invariant of its own variables; a behaviour of    *)
(* Services makes or skips a step of each.                                 *)
(*                                                                         *)
(* The first part holds what the proofs share: induction and recursion over*)
(* the naturals, stated with sets and functions where the library's own    *)
(* take an operator as a parameter, and facts about sequences.             *)
(***************************************************************************)
EXTENDS Services, FiniteSetTheorems, SequenceTheorems, WellFoundedInduction, TLAPS

-----------------------------------------------------------------------------
(* A behaviour of all parts is one of each.                                 *)

LEMMA PartsBegin ==
  Init => /\ Store!Init /\ Trace!Init /\ Gate!Init /\ Server!Init /\ Page!Init /\ Plugins!Init
          /\ Clones!Init /\ Auth!Init /\ Shell!Init
BY DEF Init

\* Each part makes a step of its own or rests.
LEMMA PartsStep ==
  [Next]_vars => /\ Store!Next \/ UNCHANGED storeVars
                 /\ Trace!Next \/ UNCHANGED traceVars
                 /\ Gate!Next \/ UNCHANGED gateVars
                 /\ Server!Next \/ UNCHANGED serverVars
                 /\ Page!Next \/ UNCHANGED pageVars
                 /\ Plugins!Next \/ UNCHANGED registryVars
                 /\ Clones!Next \/ UNCHANGED cloneVars
                 /\ Auth!Next \/ UNCHANGED authVars
                 /\ Shell!Next \/ UNCHANGED commandVars
BY DEF Next, vars, StoreStep, TraceStep, GateStep, ServerStep, PageStep, RegistryStep,
       CloneStep, AuthStep, CommandStep, FileStep

-----------------------------------------------------------------------------
(* Induction over the naturals for properties that are given as sets, and    *)
(* recursive definitions whose step is given as a function.                  *)

\* A set of naturals has a least one.
LEMMA Least ==
  ASSUME NEW T, T \subseteq Nat, T # {}
  PROVE  \E x \in T : \A y \in T : x <= y
<1>1. PICK x \in T : \A y \in T : ~(<<y, x>> \in OpToRel(<, Nat))
  BY NatLessThanWellFounded, WFMin
<1>2. \A y \in T : ~(y < x)
  BY <1>1 DEF OpToRel
<1> QED BY <1>2

\* A set of numbers none of which is above N has a greatest one, whose distance
\* from N is the least.
LEMMA Greatest ==
  ASSUME NEW N \in Nat, NEW T, T \subseteq 0..N, T # {}
  PROVE  \E x \in T : \A y \in T : y <= x
<1> DEFINE U == {n \in 0..N : N - n \in T}
<1>1. U \subseteq Nat /\ U # {}
  <2>1. PICK t \in T : TRUE
    OBVIOUS
  <2>2. N - t \in U
    BY <2>1
  <2> QED BY <2>2
<1>2. PICK n \in U : \A m \in U : n <= m
  <2> HIDE DEF U
  <2> QED BY <1>1, Least
<1>3. ASSUME NEW y \in T PROVE y <= N - n
  <2>1. N - y \in U
    OBVIOUS
  <2> QED BY <1>2, <2>1
<1> QED BY <1>2, <1>3

\* A set that has 0 and with each number the next has all of them: the number
\* before the least it has not would contradict.
THEOREM Induction ==
  ASSUME NEW S, 0 \in S, \A x \in S : x + 1 \in S
  PROVE  Nat \subseteq S
<1> SUFFICES ASSUME Nat \ S # {} PROVE FALSE
  OBVIOUS
<1>1. PICK n \in Nat \ S : \A y \in Nat \ S : n <= y
  BY Least
<1>2. n - 1 \in S
  BY <1>1
<1> QED BY <1>1, <1>2

\* The same up to a bound.
THEOREM BoundedInduction ==
  ASSUME NEW N \in Nat, NEW S, 0 \in S, \A x \in 0..N - 1 : x \in S => x + 1 \in S
  PROVE  0..N \subseteq S
<1> DEFINE T == {n \in Nat : n <= N => n \in S}
<1>1. 0 \in T
  OBVIOUS
<1>2. \A x \in T : x + 1 \in T
  OBVIOUS
<1>3. Nat \subseteq T
  <2> HIDE DEF T
  <2> QED BY <1>1, <1>2, Induction
<1> QED BY <1>3

(* There is a function whose value at 0 is a and whose value at n is made    *)
(* from n and the value before by G.                                         *)
Steps(N, V, G) == \A n \in 1..N : \A v \in V : G[n][v] \in V
Follows(f, N, a, G) == f[0] = a /\ \A n \in 1..N : f[n] = G[n][f[n - 1]]

THEOREM Recursion ==
  ASSUME NEW N \in Nat, NEW V, NEW a \in V,
         NEW G, Steps(N, V, G)
  PROVE  \E f \in [0..N -> V] : Follows(f, N, a, G)
<1> DEFINE Good(m, f) == Follows(f, m, a, G)
           S == {m \in 0..N : \E f \in [0..m -> V] : Good(m, f)}
<1> USE DEF Steps, Follows
<1>1. 0 \in S
  <2> DEFINE f == [n \in 0..0 |-> a]
  <2>1. f \in [0..0 -> V] /\ Good(0, f)
    OBVIOUS
  <2>2. 0 \in 0..N
    OBVIOUS
  <2> HIDE DEF f, Good
  <2> QED BY <2>1, <2>2
<1>2. ASSUME NEW m \in 0..N - 1, m \in S PROVE m + 1 \in S
  <2>1. PICK f \in [0..m -> V] : Good(m, f)
    BY <1>2
  <2> DEFINE g == [n \in 0..m + 1 |-> IF n <= m THEN f[n] ELSE G[m + 1][f[m]]]
  <2>2. G[m + 1][f[m]] \in V
    OBVIOUS
  <2>3. g \in [0..m + 1 -> V]
    BY <2>2
  <2>4. \A n \in 0..m : g[n] = f[n]
    OBVIOUS
  <2>5. g[m + 1] = G[m + 1][f[m]]
    OBVIOUS
  <2> HIDE DEF g
  <2>6. g[0] = a
    BY <2>1, <2>4
  <2>7. ASSUME NEW n \in 1..m + 1 PROVE g[n] = G[n][g[n - 1]]
    <3>1. CASE n = m + 1
      BY <2>4, <2>5, <3>1
    <3>2. CASE n \in 1..m
      BY <2>1, <2>4, <3>2
    <3> QED BY <3>1, <3>2
  <2> QED BY <2>3, <2>6, <2>7
<1>3. 0..N \subseteq S
  <2> HIDE DEF S
  <2> QED BY <1>1, <1>2, BoundedInduction
<1> QED BY <1>3

-----------------------------------------------------------------------------
(* Cardinalities                                                            *)

LEMMA SameCardinality ==
  ASSUME NEW S
  PROVE  Gate!Cardinality(S) = Cardinality(S) /\ (Gate!IsFiniteSet(S) <=> IsFiniteSet(S))
BY DEF Gate!Cardinality, Gate!IsFiniteSet, Cardinality, IsFiniteSet

\* A finite set and what it can gain or lose by one element.
LEMMA OneMore ==
  ASSUME NEW S, IsFiniteSet(S), NEW x, NEW T, T \subseteq S \cup {x}
  PROVE  /\ IsFiniteSet(T) /\ Cardinality(S) \in Nat /\ Cardinality(T) \in Nat
         /\ Cardinality(T) <= Cardinality(S) + 1
<1>1. /\ IsFiniteSet(S \cup {x}) /\ Cardinality(S) \in Nat
      /\ Cardinality(S \cup {x}) <= Cardinality(S) + 1
  <2>1. Cardinality(S) \in Nat
    BY FS_CardinalityType
  <2>2. /\ IsFiniteSet(S \cup {x})
        /\ Cardinality(S \cup {x}) = IF x \in S THEN Cardinality(S) ELSE Cardinality(S) + 1
    BY FS_AddElement
  <2> QED BY <2>1, <2>2
<1>2. /\ IsFiniteSet(T) /\ Cardinality(T) <= Cardinality(S \cup {x})
      /\ Cardinality(T) \in Nat /\ Cardinality(S \cup {x}) \in Nat
  BY <1>1, FS_Subset, FS_CardinalityType
<1> QED BY <1>1, <1>2

LEMMA OneLess ==
  ASSUME NEW S, IsFiniteSet(S), NEW x \in S, NEW T, T \subseteq S \ {x}
  PROVE  /\ IsFiniteSet(T) /\ Cardinality(S) \in Nat /\ Cardinality(T) \in Nat
         /\ Cardinality(T) + 1 <= Cardinality(S)
<1>1. /\ IsFiniteSet(S \ {x}) /\ Cardinality(S) \in Nat /\ Cardinality(S \ {x}) \in Nat
      /\ Cardinality(S \ {x}) = Cardinality(S) - 1
  BY FS_RemoveElement, FS_CardinalityType
<1>2. /\ IsFiniteSet(T) /\ Cardinality(T) <= Cardinality(S \ {x}) /\ Cardinality(T) \in Nat
  BY <1>1, FS_Subset, FS_CardinalityType
<1> QED BY <1>1, <1>2

-----------------------------------------------------------------------------
(* Sequences                                                                *)

\* Where the elements of a concatenation come from.
LEMMA Joined ==
  ASSUME NEW S, NEW u \in Seq(S), NEW v \in Seq(S)
  PROVE  /\ u \o v \in Seq(S) /\ Len(u \o v) = Len(u) + Len(v)
         /\ \A i \in 1..Len(u) : (u \o v)[i] = u[i]
         /\ \A i \in 1..Len(v) : (u \o v)[Len(u) + i] = v[i]
<1>1. Len(u) \in Nat /\ Len(v) \in Nat
  OBVIOUS
<1>2. u \o v \in Seq(S) /\ Len(u \o v) = Len(u) + Len(v)
  OBVIOUS
<1>3. \A i \in 1..Len(u) : (u \o v)[i] = u[i]
  OBVIOUS
<1>4. ASSUME NEW i \in 1..Len(v) PROVE (u \o v)[Len(u) + i] = v[i]
  OBVIOUS
<1> QED BY <1>2, <1>3, <1>4

\* What is behind the first n elements.
LEMMA Behind ==
  ASSUME NEW S, NEW u \in Seq(S), NEW n \in 0..Len(u)
  PROVE  LET v == SubSeq(u, n + 1, Len(u))
         IN  /\ v \in Seq(S) /\ Len(v) = Len(u) - n
             /\ \A i \in 1..Len(v) : n + i \in 1..Len(u) /\ v[i] = u[n + i]
<1> DEFINE size == Len(u)
           first == n + 1
           v == SubSeq(u, first, size)
<1>1. size \in Nat /\ first \in Nat /\ n \in Nat /\ n <= size
  OBVIOUS
<1>2. \A i \in 1..size : u[i] \in S
  OBVIOUS
<1>3. \A i \in first..size : i \in 1..size
  BY <1>1
<1> HIDE DEF size
<1>4. \A i \in first..size : u[i] \in S
  BY <1>2, <1>3
<1> HIDE DEF first
<1>5. /\ v \in Seq(S)
      /\ Len(v) = IF first <= size THEN size - first + 1 ELSE 0
      /\ \A i \in 1..size - first + 1 : v[i] = u[first + i - 1]
  BY <1>1, <1>4, SubSeqProperties
<1> HIDE DEF v
<1>6. Len(v) = size - n
  BY <1>1, <1>5 DEF first
<1>7. ASSUME NEW i \in 1..size - n PROVE n + i \in 1..size /\ v[i] = u[n + i]
  <2>1. first + i - 1 = n + i /\ i \in 1..size - first + 1 /\ n + i \in 1..size
    BY <1>1 DEF first
  <2> QED BY <1>5, <2>1
<1> QED BY <1>5, <1>6, <1>7 DEF v, first, size

\* An element is replaced.
LEMMA Replaced ==
  ASSUME NEW S, NEW u \in Seq(S), NEW n \in 1..Len(u), NEW e \in S, NEW v,
         v = [u EXCEPT ![n] = e]
  PROVE  /\ v \in Seq(S) /\ Len(v) = Len(u) /\ v[n] = e
         /\ \A i \in 1..Len(u) : i # n => v[i] = u[i]
OBVIOUS

-----------------------------------------------------------------------------
(* The safety gate                                                          *)

Waiting(t) == {a \in GateAgents : gateCall[a] = Gate!At("confirming", t)}
Waits(a) == IF \E t \in GateTools : gateCall[a] = Gate!At("confirming", t) THEN 1 ELSE 0

\* What QuotaHolds counts.
PassedTo(t) == {x \in GateAgents \X (1..AgentLimit + ToolLimit) : x[2] <= ran[x[1]][t]}
PassedBy(a) == {x \in GateTools \X (1..AgentLimit + ToolLimit) : x[2] <= ran[a][x[1]]}

GateTyped ==
  /\ errors \in [GateTools -> Nat]
  /\ breaker \in [GateTools -> {"closed", "open", "lapsed"}]
  /\ perTool \in [GateTools -> Nat] /\ perAgent \in [GateAgents -> Nat]
  /\ DOMAIN gateCall = GateAgents
  /\ ran \in [GateAgents -> [GateTools -> Nat]]

\* A counter of the quota has counted each call that passed, and each that
\* waits for the operator: that one may still pass without being counted again.
ToolCounted(t) ==
  /\ Cardinality(PassedTo(t)) + Cardinality(Waiting(t)) <= perTool[t]
  /\ perTool[t] <= ToolLimit
AgentCounted(a) ==
  /\ Cardinality(PassedBy(a)) + Waits(a) <= perAgent[a]
  /\ perAgent[a] <= AgentLimit

GateInv ==
  /\ GateTyped
  /\ \A t \in GateTools : ToolCounted(t)
  /\ \A a \in GateAgents : AgentCounted(a)
  /\ \A t \in GateTools : breaker[t] = "closed" <=> errors[t] < Threshold

\* Before and after a step, there are finitely many of what is counted.
LEMMA GateFinite ==
  /\ \A t : IsFiniteSet(PassedTo(t)) /\ IsFiniteSet(Waiting(t))
  /\ \A a : IsFiniteSet(PassedBy(a))
  /\ \A t : IsFiniteSet(PassedTo(t)') /\ IsFiniteSet(Waiting(t)')
  /\ \A a : IsFiniteSet(PassedBy(a)')
  /\ ToolLimit \in Nat /\ AgentLimit \in Nat /\ Threshold \in Nat \ {0}
  /\ Confirmed \subseteq GateTools
<1>1. /\ IsFiniteSet(GateTools) /\ IsFiniteSet(GateAgents)
      /\ ToolLimit \in Nat /\ AgentLimit \in Nat /\ Threshold \in Nat \ {0}
      /\ Confirmed \subseteq GateTools
  BY ServicesAssumption, SameCardinality DEF Gate!GateAssumption
<1>2. IsFiniteSet(1..AgentLimit + ToolLimit)
  BY <1>1, FS_Interval
<1>3. /\ IsFiniteSet(GateAgents \X (1..AgentLimit + ToolLimit))
      /\ IsFiniteSet(GateTools \X (1..AgentLimit + ToolLimit))
  BY <1>1, <1>2, FS_Product
<1>4. /\ \A t : /\ PassedTo(t) \subseteq GateAgents \X (1..AgentLimit + ToolLimit)
                /\ Waiting(t) \subseteq GateAgents
      /\ \A a : PassedBy(a) \subseteq GateTools \X (1..AgentLimit + ToolLimit)
      /\ \A t : /\ PassedTo(t)' \subseteq GateAgents \X (1..AgentLimit + ToolLimit)
                /\ Waiting(t)' \subseteq GateAgents
      /\ \A a : PassedBy(a)' \subseteq GateTools \X (1..AgentLimit + ToolLimit)
  BY DEF PassedTo, PassedBy, Waiting
<1>5. /\ \A t : IsFiniteSet(PassedTo(t)) /\ IsFiniteSet(Waiting(t))
      /\ \A a : IsFiniteSet(PassedBy(a))
      /\ \A t : IsFiniteSet(PassedTo(t)') /\ IsFiniteSet(Waiting(t)')
      /\ \A a : IsFiniteSet(PassedBy(a)')
  BY <1>1, <1>3, <1>4, FS_Subset
<1> QED BY <1>1, <1>5

LEMMA GateBegins == Gate!Init => GateInv
<1> SUFFICES ASSUME Gate!Init PROVE GateInv
  OBVIOUS
<1>1. GateTyped
  BY DEF Gate!Init, GateTyped
<1> DEFINE N == 1..AgentLimit + ToolLimit
<1>0. \A a \in GateAgents, t \in GateTools :
        /\ \A n \in N : ~(n <= ran[a][t])
        /\ gateCall[a] # Gate!At("confirming", t)
  BY GateFinite DEF Gate!Init, Gate!At, Gate!NoCall
<1>2. \A t \in GateTools : PassedTo(t) = {} /\ Waiting(t) = {}
  BY <1>0 DEF PassedTo, Waiting
<1>3. \A a \in GateAgents : PassedBy(a) = {} /\ Waits(a) = 0
  BY <1>0 DEF PassedBy, Waits
<1>4. Cardinality({}) = 0
  BY FS_EmptySet
<1>5. \A t \in GateTools : ToolCounted(t)
  <2>1. \A t \in GateTools : perTool[t] = 0
    BY DEF Gate!Init
  <2> QED BY <1>2, <1>4, <2>1, GateFinite DEF ToolCounted
<1>6. \A a \in GateAgents : AgentCounted(a)
  <2>1. \A a \in GateAgents : perAgent[a] = 0
    BY DEF Gate!Init
  <2> QED BY <1>3, <1>4, <2>1, GateFinite DEF AgentCounted
<1>7. \A t \in GateTools : breaker[t] = "closed" <=> errors[t] < Threshold
  BY GateFinite DEF Gate!Init
<1> QED BY <1>1, <1>5, <1>6, <1>7 DEF GateInv

\* An agent's call does not change what the gate has counted for others.
LEMMA GateOthers ==
  ASSUME NEW a \in GateAgents, NEW t \in GateTools, GateTyped, GateTyped',
         \A b \in GateAgents \ {a} : ran'[b] = ran[b] /\ gateCall'[b] = gateCall[b],
         \A u \in GateTools \ {t} : ran'[a][u] = ran[a][u],
         \A u \in GateTools \ {t} : gateCall[a] # Gate!At("confirming", u),
         \A u \in GateTools \ {t} : gateCall'[a] # Gate!At("confirming", u)
  PROVE  /\ \A u \in GateTools \ {t} : PassedTo(u)' = PassedTo(u) /\ Waiting(u)' = Waiting(u)
         /\ \A b \in GateAgents \ {a} : PassedBy(b)' = PassedBy(b) /\ Waits(b)' = Waits(b)
         /\ Waits(a) = IF gateCall[a] = Gate!At("confirming", t) THEN 1 ELSE 0
         /\ Waits(a)' = IF gateCall'[a] = Gate!At("confirming", t) THEN 1 ELSE 0
<1>1. ASSUME NEW u \in GateTools \ {t} PROVE PassedTo(u)' = PassedTo(u) /\ Waiting(u)' = Waiting(u)
  <2>1. \A b \in GateAgents : ran'[b][u] = ran[b][u]
    OBVIOUS
  <2>2. \A b \in GateAgents : gateCall'[b] = Gate!At("confirming", u)
                               <=> gateCall[b] = Gate!At("confirming", u)
    OBVIOUS
  <2>3. PassedTo(u)' = PassedTo(u)
    BY <2>1 DEF PassedTo
  <2>4. Waiting(u)' = Waiting(u)
    BY <2>2 DEF Waiting
  <2> QED BY <2>3, <2>4
<1>2. ASSUME NEW b \in GateAgents \ {a} PROVE PassedBy(b)' = PassedBy(b) /\ Waits(b)' = Waits(b)
  BY DEF PassedBy, Waits
<1>3. /\ Waits(a) = IF gateCall[a] = Gate!At("confirming", t) THEN 1 ELSE 0
      /\ Waits(a)' = IF gateCall'[a] = Gate!At("confirming", t) THEN 1 ELSE 0
  BY DEF Waits
<1> QED BY <1>1, <1>2, <1>3

\* A call that passes is one more for its tool and for its agent.
LEMMA GatePass ==
  ASSUME NEW a \in GateAgents, NEW t \in GateTools, GateTyped,
         ran' = [ran EXCEPT ![a][t] = @ + 1]
  PROVE  /\ Cardinality(PassedTo(t)') <= Cardinality(PassedTo(t)) + 1
         /\ Cardinality(PassedBy(a)') <= Cardinality(PassedBy(a)) + 1
<1>1. \A b \in GateAgents, u \in GateTools :
        /\ ran[b][u] \in Nat
        /\ ran'[b][u] = IF b = a /\ u = t THEN ran[a][t] + 1 ELSE ran[b][u]
  BY DEF GateTyped
<1>2. PassedTo(t)' \subseteq PassedTo(t) \cup {<<a, ran[a][t] + 1>>}
  BY <1>1 DEF PassedTo
<1>3. PassedBy(a)' \subseteq PassedBy(a) \cup {<<t, ran[a][t] + 1>>}
  BY <1>1 DEF PassedBy
<1> QED BY <1>2, <1>3, OneMore, GateFinite

LEMMA GateMoves ==
  ASSUME NEW a \in GateAgents, NEW t \in GateTools, GateInv, GateTyped',
         \A b \in GateAgents \ {a} : ran'[b] = ran[b] /\ gateCall'[b] = gateCall[b],
         \A u \in GateTools \ {t} : ran'[a][u] = ran[a][u],
         \A u \in GateTools \ {t} : gateCall[a] # Gate!At("confirming", u),
         \A u \in GateTools \ {t} : gateCall'[a] # Gate!At("confirming", u),
         \A b \in GateAgents \ {a} : perAgent'[b] = perAgent[b],
         \A u \in GateTools \ {t} : perTool'[u] = perTool[u],
         ToolCounted(t)', AgentCounted(a)',
         \A u \in GateTools : breaker'[u] = "closed" <=> errors'[u] < Threshold
  PROVE  GateInv'
<1>1. /\ \A u \in GateTools \ {t} : PassedTo(u)' = PassedTo(u) /\ Waiting(u)' = Waiting(u)
      /\ \A b \in GateAgents \ {a} : PassedBy(b)' = PassedBy(b) /\ Waits(b)' = Waits(b)
  BY GateOthers DEF GateInv
<1>2. ASSUME NEW u \in GateTools PROVE ToolCounted(u)'
  <2>1. CASE u = t
    BY <2>1
  <2>2. CASE u # t
    BY <1>1, <2>2 DEF GateInv, ToolCounted
  <2> QED BY <2>1, <2>2
<1>3. ASSUME NEW b \in GateAgents PROVE AgentCounted(b)'
  <2>1. CASE b = a
    BY <2>1
  <2>2. CASE b # a
    BY <1>1, <2>2 DEF GateInv, AgentCounted
  <2> QED BY <2>1, <2>2
<1> QED BY <1>2, <1>3 DEF GateInv

LEMMA GateChecks ==
  ASSUME NEW a \in GateAgents, NEW t \in GateTools, GateInv, Gate!Check(a, t)
  PROVE  GateInv'
<1>0. GateTyped /\ ToolCounted(t) /\ AgentCounted(a)
  BY DEF GateInv
<1>1. /\ gateCall[a] = Gate!NoCall
      /\ perTool[t] < ToolLimit /\ perTool' = [perTool EXCEPT ![t] = @ + 1]
      /\ perAgent[a] < AgentLimit /\ perAgent' = [perAgent EXCEPT ![a] = @ + 1]
      /\ UNCHANGED <<errors, breaker>>
  BY DEF Gate!Check, Gate!check_and_increment
<1>2. \A p, u : Gate!At(p, u) # Gate!NoCall
  BY DEF Gate!At, Gate!NoCall
<1>3. /\ perTool[t] \in Nat /\ perAgent[a] \in Nat
      /\ perTool'[t] = perTool[t] + 1 /\ perAgent'[a] = perAgent[a] + 1
      /\ perTool'[t] <= ToolLimit /\ perAgent'[a] <= AgentLimit
      /\ perTool' \in [GateTools -> Nat] /\ perAgent' \in [GateAgents -> Nat]
  BY <1>0, <1>1, GateFinite DEF GateTyped
<1>4. /\ Cardinality(PassedTo(t)) \in Nat /\ Cardinality(Waiting(t)) \in Nat
      /\ Cardinality(PassedBy(a)) \in Nat /\ Waits(a) = 0
      /\ Cardinality(PassedTo(t)') \in Nat /\ Cardinality(Waiting(t)') \in Nat
      /\ Cardinality(PassedBy(a)') \in Nat
  <2>1. Waits(a) = 0
    BY <1>1, <1>2 DEF Waits
  <2> QED BY <2>1, GateFinite, FS_CardinalityType
<1>5. CASE Gate!Pass(a, t)
  <2>1. /\ gateCall' = [gateCall EXCEPT ![a] = Gate!At("running", t)]
        /\ ran' = [ran EXCEPT ![a][t] = @ + 1]
    BY <1>5 DEF Gate!Pass
  <2>2. GateTyped'
    BY <1>0, <1>1, <1>3, <2>1 DEF GateTyped
  <2>3. /\ \A b \in GateAgents \ {a} : ran'[b] = ran[b] /\ gateCall'[b] = gateCall[b]
        /\ \A u \in GateTools \ {t} : ran'[a][u] = ran[a][u]
        /\ \A u : gateCall[a] # Gate!At("confirming", u) /\ gateCall'[a] # Gate!At("confirming", u)
    BY <1>0, <1>1, <1>2, <2>1 DEF GateTyped, Gate!At
  <2>4. Waiting(t)' = Waiting(t) /\ Waits(a)' = 0
    BY <2>3 DEF Waiting, Waits
  <2>5. ToolCounted(t)' /\ AgentCounted(a)'
    <3>1. /\ Cardinality(PassedTo(t)') <= Cardinality(PassedTo(t)) + 1
          /\ Cardinality(PassedBy(a)') <= Cardinality(PassedBy(a)) + 1
      BY <1>0, <2>1, GatePass
    <3> QED BY <1>0, <1>3, <1>4, <2>4, <3>1 DEF ToolCounted, AgentCounted
  <2> QED BY <1>1, <2>2, <2>3, <2>5, GateMoves DEF GateInv, GateTyped
<1>6. CASE gateCall' = [gateCall EXCEPT ![a] = Gate!At("confirming", t)] /\ UNCHANGED ran
  <2>2. GateTyped'
    BY <1>0, <1>1, <1>3, <1>6 DEF GateTyped
  <2>3. /\ \A b \in GateAgents \ {a} : ran'[b] = ran[b] /\ gateCall'[b] = gateCall[b]
        /\ \A u : gateCall[a] # Gate!At("confirming", u)
        /\ \A u \in GateTools \ {t} : gateCall'[a] # Gate!At("confirming", u)
    BY <1>0, <1>1, <1>2, <1>6 DEF GateTyped, Gate!At
  <2>4. /\ Cardinality(Waiting(t)') <= Cardinality(Waiting(t)) + 1 /\ Waits(a)' \in {0, 1}
        /\ PassedTo(t)' = PassedTo(t) /\ PassedBy(a)' = PassedBy(a)
    <3>1. Waiting(t)' \subseteq Waiting(t) \cup {a}
      BY <2>3 DEF Waiting
    <3>2. Waits(a)' \in {0, 1} /\ PassedTo(t)' = PassedTo(t) /\ PassedBy(a)' = PassedBy(a)
      BY <1>6 DEF Waits, PassedTo, PassedBy
    <3> QED BY <3>1, <3>2, OneMore, GateFinite
  <2>5. ToolCounted(t)' /\ AgentCounted(a)'
    BY <1>0, <1>3, <1>4, <2>4 DEF ToolCounted, AgentCounted
  <2> QED BY <1>1, <1>6, <2>2, <2>3, <2>5, GateMoves DEF GateInv, GateTyped
<1> QED BY <1>5, <1>6 DEF Gate!Check

LEMMA GateAnswers ==
  ASSUME NEW a \in GateAgents, NEW t \in GateTools, NEW ok \in BOOLEAN,
         GateInv, Gate!Answer(a, t, ok)
  PROVE  GateInv'
<1>0. GateTyped /\ ToolCounted(t) /\ AgentCounted(a)
  BY DEF GateInv
<1>1. /\ gateCall[a] = Gate!At("confirming", t)
      /\ UNCHANGED <<errors, breaker, perTool, perAgent>>
  BY DEF Gate!Answer
<1>2. /\ \A p, u : Gate!At(p, u) # Gate!NoCall
      /\ \A u, v : Gate!At("running", u) # Gate!At("confirming", v)
      /\ \A u : Gate!At("confirming", t) = Gate!At("confirming", u) => u = t
  <2>1. \A p, u : Gate!At(p, u).at = p /\ Gate!At(p, u).tool = u /\ Gate!NoCall.at = "none"
    BY DEF Gate!At, Gate!NoCall
  <2>2. \A p, u : Gate!At(p, u) # Gate!NoCall
    BY DEF Gate!At, Gate!NoCall
  <2> QED BY <2>1, <2>2
<1>3. /\ perTool[t] \in Nat /\ perAgent[a] \in Nat
      /\ Cardinality(PassedTo(t)) \in Nat /\ Cardinality(Waiting(t)) \in Nat
      /\ Cardinality(PassedBy(a)) \in Nat
      /\ Cardinality(PassedTo(t)') \in Nat /\ Cardinality(Waiting(t)') \in Nat
      /\ Cardinality(PassedBy(a)') \in Nat
  BY <1>0, GateFinite, FS_CardinalityType DEF GateTyped
<1>4. PICK after : /\ gateCall' = [gateCall EXCEPT ![a] = after]
                   /\ after = Gate!At("running", t) \/ after = Gate!NoCall
                   /\ after = Gate!NoCall => UNCHANGED ran
                   /\ after # Gate!NoCall => ran' = [ran EXCEPT ![a][t] = @ + 1]
  BY <1>2 DEF Gate!Answer, Gate!Pass
<1>5. GateTyped'
  <2>1. ran' \in [GateAgents -> [GateTools -> Nat]]
    <3>1. ran \in [GateAgents -> [GateTools -> Nat]]
      BY <1>0 DEF GateTyped
    <3>2. CASE after = Gate!NoCall
      BY <1>4, <3>1, <3>2
    <3>3. CASE after # Gate!NoCall
      BY <1>4, <3>1, <3>3
    <3> QED BY <3>2, <3>3
  <2>2. DOMAIN gateCall' = GateAgents
    BY <1>0, <1>4 DEF GateTyped
  <2> QED BY <1>0, <1>1, <2>1, <2>2 DEF GateTyped
<1>6. /\ \A b \in GateAgents \ {a} : ran'[b] = ran[b] /\ gateCall'[b] = gateCall[b]
      /\ \A u \in GateTools \ {t} : ran'[a][u] = ran[a][u]
      /\ \A u \in GateTools \ {t} : gateCall[a] # Gate!At("confirming", u)
      /\ \A u : gateCall'[a] # Gate!At("confirming", u)
  BY <1>0, <1>1, <1>2, <1>4 DEF GateTyped
<1>7. Waits(a) = 1 /\ Waits(a)' = 0 /\ Cardinality(Waiting(t)') + 1 <= Cardinality(Waiting(t))
  <2>1. Waits(a) = 1 /\ Waits(a)' = 0
    BY <1>1, <1>6 DEF Waits
  <2>2. a \in Waiting(t) /\ Waiting(t)' \subseteq Waiting(t) \ {a}
    BY <1>1, <1>6 DEF Waiting
  <2> QED BY <2>1, <2>2, OneLess, GateFinite
<1>8. /\ Cardinality(PassedTo(t)') <= Cardinality(PassedTo(t)) + 1
      /\ Cardinality(PassedBy(a)') <= Cardinality(PassedBy(a)) + 1
  <2>1. CASE after = Gate!NoCall
    <3>1. PassedTo(t)' = PassedTo(t) /\ PassedBy(a)' = PassedBy(a)
      BY <1>4, <2>1 DEF PassedTo, PassedBy
    <3> QED BY <1>3, <3>1
  <2>2. CASE after # Gate!NoCall
    BY <1>0, <1>4, <2>2, GatePass
  <2> QED BY <2>1, <2>2
<1>9. ToolCounted(t)' /\ AgentCounted(a)'
  BY <1>0, <1>1, <1>3, <1>7, <1>8 DEF ToolCounted, AgentCounted
<1> QED BY <1>1, <1>5, <1>6, <1>9, GateMoves DEF GateInv

\* Where no call passes or begins to wait, nothing is counted.
LEMMA GateRests ==
  ASSUME GateInv, GateTyped', UNCHANGED <<perTool, perAgent, ran>>,
         \A a \in GateAgents, t \in GateTools :
           gateCall'[a] = Gate!At("confirming", t) <=> gateCall[a] = Gate!At("confirming", t),
         \A t \in GateTools : breaker'[t] = "closed" <=> errors'[t] < Threshold
  PROVE  GateInv'
<1>1. \A t \in GateTools : Waiting(t)' = Waiting(t) /\ PassedTo(t)' = PassedTo(t)
  BY DEF Waiting, PassedTo
<1>2. \A a \in GateAgents : Waits(a)' = Waits(a) /\ PassedBy(a)' = PassedBy(a)
  BY DEF Waits, PassedBy
<1> QED BY <1>1, <1>2 DEF GateInv, ToolCounted, AgentCounted

LEMMA GateFinishes ==
  ASSUME NEW a \in GateAgents, NEW t \in GateTools, GateInv, Gate!Finish(a, t)
  PROVE  GateInv'
<1>1. /\ gateCall[a] = Gate!At("running", t) /\ gateCall' = [gateCall EXCEPT ![a] = Gate!NoCall]
      /\ Gate!record_success(t) \/ Gate!record_error(t)
      /\ UNCHANGED <<perTool, perAgent, ran>>
  BY DEF Gate!Finish
<1>2. \A b \in GateAgents, u \in GateTools :
        gateCall'[b] = Gate!At("confirming", u) <=> gateCall[b] = Gate!At("confirming", u)
  BY <1>1 DEF GateInv, GateTyped, Gate!At, Gate!NoCall
<1>3. GateTyped'
  <2>1. /\ errors' \in [GateTools -> Nat]
        /\ breaker' \in [GateTools -> {"closed", "open", "lapsed"}]
    <3>1. CASE Gate!record_success(t)
      BY <3>1 DEF GateInv, GateTyped, Gate!record_success
    <3>2. CASE Gate!record_error(t)
      BY <3>2 DEF GateInv, GateTyped, Gate!record_error
    <3> QED BY <1>1, <3>1, <3>2
  <2> QED BY <1>1, <2>1 DEF GateInv, GateTyped
<1>4. \A u \in GateTools : breaker'[u] = "closed" <=> errors'[u] < Threshold
  <2>1. CASE Gate!record_success(t)
    BY <2>1, GateFinite DEF GateInv, GateTyped, Gate!record_success
  <2>2. CASE Gate!record_error(t)
    BY <2>2, GateFinite DEF GateInv, GateTyped, Gate!record_error
  <2> QED BY <1>1, <2>1, <2>2
<1> QED BY <1>1, <1>2, <1>3, <1>4, GateRests

LEMMA GateStepKeeps == GateInv /\ Gate!Next => GateInv'
<1> SUFFICES ASSUME GateInv, Gate!Next PROVE GateInv'
  OBVIOUS
<1>1. ASSUME NEW t \in GateTools, Gate!Lapse(t) PROVE GateInv'
  <2>1. GateTyped' /\ \A u \in GateTools : breaker'[u] = "closed" <=> errors'[u] < Threshold
    BY <1>1 DEF GateInv, GateTyped, Gate!Lapse
  <2> QED BY <1>1, <2>1, GateRests DEF Gate!Lapse
<1> QED BY <1>1, GateChecks, GateAnswers, GateFinishes DEF Gate!Next

LEMMA GateInvHolds == GateInv => GateHolds
<1> SUFFICES ASSUME GateInv PROVE GateHolds
  OBVIOUS
<1>1. \A t \in GateTools : Cardinality(PassedTo(t)) <= ToolLimit
  <2>1. \A t \in GateTools : /\ Cardinality(PassedTo(t)) \in Nat
                             /\ Cardinality(Waiting(t)) \in Nat /\ perTool[t] \in Nat
    BY GateFinite, FS_CardinalityType DEF GateInv, GateTyped
  <2> QED BY <2>1, GateFinite DEF GateInv, ToolCounted
<1>2. \A a \in GateAgents : Cardinality(PassedBy(a)) <= AgentLimit
  <2>1. \A a \in GateAgents : /\ Cardinality(PassedBy(a)) \in Nat
                              /\ Waits(a) \in Nat /\ perAgent[a] \in Nat
    BY GateFinite, FS_CardinalityType DEF GateInv, GateTyped, Waits
  <2> QED BY <2>1, GateFinite DEF GateInv, AgentCounted
<1>3. Gate!QuotaHolds
  BY <1>1, <1>2, SameCardinality DEF Gate!QuotaHolds, PassedTo, PassedBy
<1>4. Gate!BreakerMatchesErrors
  BY DEF GateInv, Gate!BreakerMatchesErrors
<1> QED BY <1>3, <1>4 DEF GateHolds, Gate!GateHolds

(* SafetyGate: whatever the calls of all agents do, and however long the    *)
(* operator takes, no more calls pass than the quotas allow, and the        *)
(* breaker and its counter agree (safety.py:71, 178).                       *)
THEOREM GateKeepsItsLimits == Spec => []GateHolds
<1>1. Init => GateInv
  BY PartsBegin, GateBegins
<1>2. GateInv /\ [Next]_vars => GateInv'
  <2> SUFFICES ASSUME GateInv, UNCHANGED gateVars PROVE GateInv'
    BY PartsStep, GateStepKeeps
  <2>1. GateTyped' /\ \A t \in GateTools : breaker'[t] = "closed" <=> errors'[t] < Threshold
    BY DEF gateVars, GateInv, GateTyped
  <2> QED BY <2>1, GateRests DEF gateVars
<1> QED BY <1>1, <1>2, GateInvHolds, PTL DEF Spec

-----------------------------------------------------------------------------
(* The API server's runs                                                    *)

Underway(r) == runPc[r] \in {"built", "running"}

\* A request that was alone is served by its own runtime throughout: its
\* factory is the injected one while it is under way, and whatever runtime
\* an agent of another request comes from belongs to one that was not alone.
RequestInv(r) ==
  /\ Len(work[r]) <= 2
  /\ work[r] # <<>> => runPc[r] = "running"
  /\ \A i \in DOMAIN work[r] : work[r][i] = r \/ work[r][i] \in together
  /\ Underway(r) => factory = r \/ (r \in together /\ factory \in together)
  /\ r \notin together => /\ \A i \in DOMAIN work[r] : work[r][i] = r
                          /\ ledger[r] = spent[r]
                          /\ runPc[r] = "answered" /\ path[r] = "graph" => answer[r] = spent[r]

ServerTyped ==
  /\ factory \in Requests \cup {Nothing}
  /\ runPc \in [Requests -> {"idle", "refused", "built", "running", "answered", "failed"}]
  /\ path \in [Requests -> {"single", "graph"}]
  /\ work \in [Requests -> Seq(Requests)]
  /\ ledger \in [Requests -> Nat] /\ own \in [Requests -> Nat]
  /\ spent \in [Requests -> Nat] /\ answer \in [Requests -> Nat]
  /\ together \subseteq Requests

ServerInv == ServerTyped /\ \A r \in Requests : RequestInv(r)

LEMMA ServerBegins == Server!Init => ServerInv
BY DEF Server!Init, ServerInv, ServerTyped, RequestInv, Underway

\* One, and a second before it; of two, the second alone.
LEMMA Alone ==
  ASSUME NEW S, NEW x \in S
  PROVE  /\ <<x>> \in Seq(S) /\ Len(<<x>>) = 1 /\ <<x>> # <<>>
         /\ DOMAIN <<x>> = {1} /\ <<x>>[1] = x
OBVIOUS

LEMMA Pushed ==
  ASSUME NEW S, NEW x \in S, NEW s \in Seq(S), Len(s) = 1
  PROVE  /\ <<x>> \o s \in Seq(S) /\ Len(<<x>> \o s) = 2
         /\ DOMAIN (<<x>> \o s) = {1, 2} /\ DOMAIN s = {1}
         /\ (<<x>> \o s)[1] = x /\ (<<x>> \o s)[2] = s[1]
<1> DEFINE h == <<x>>
<1>1. h \in Seq(S) /\ Len(h) = 1 /\ h[1] = x
  BY Alone
<1> HIDE DEF h
<1>2. /\ h \o s \in Seq(S) /\ Len(h \o s) = 2
      /\ \A i \in 1..2 : (h \o s)[i] = IF i <= 1 THEN h[i] ELSE s[i - 1]
  BY <1>1, ConcatProperties
<1>3. DOMAIN (h \o s) = 1..2 /\ DOMAIN s = 1..1
  BY <1>2, LenProperties
<1> QED BY <1>1, <1>2, <1>3 DEF h

LEMMA Popped ==
  ASSUME NEW S, NEW s \in Seq(S), Len(s) = 2
  PROVE  /\ Tail(s) \in Seq(S) /\ Len(Tail(s)) = 1
         /\ DOMAIN Tail(s) = {1} /\ DOMAIN s = {1, 2} /\ Tail(s)[1] = s[2]
<1>1. s # <<>>
  BY EmptySeq
<1>2. /\ Tail(s) \in Seq(S) /\ Len(Tail(s)) = 1
      /\ \A i \in 1..1 : Tail(s)[i] = s[i + 1]
  BY <1>1, HeadTailProperties
<1>3. DOMAIN s = 1..2 /\ DOMAIN Tail(s) = 1..1
  BY <1>2, LenProperties
<1> QED BY <1>2, <1>3

LEMMA ServerStepKeeps == ServerInv /\ Server!Next => ServerInv'
<1> SUFFICES ASSUME ServerInv, Server!Next PROVE ServerInv'
  OBVIOUS
<1>0. ServerTyped
  BY DEF ServerInv
<1>1. CASE Server!set_runtime_factory
  BY <1>1 DEF Server!set_runtime_factory, ServerInv, ServerTyped, RequestInv, Underway
<1>2. ASSUME NEW r \in Requests, Server!Refuse(r) PROVE ServerInv'
  <2>1. ServerTyped'
    BY <1>2 DEF Server!Refuse, ServerInv, ServerTyped, RequestInv, Underway
  <2>2. ASSUME NEW q \in Requests, q # r PROVE RequestInv(q)'
    BY <1>2, <2>2 DEF Server!Refuse, ServerInv, ServerTyped, RequestInv, Underway
  <2>3. RequestInv(r)'
    BY <1>2 DEF Server!Refuse, ServerInv, ServerTyped, RequestInv, Underway
  <2> QED BY <2>1, <2>2, <2>3 DEF ServerInv
<1>3. ASSUME NEW r \in Requests, Server!_build_runtime(r) PROVE ServerInv'
  <2>1. ServerTyped'
    BY <1>3 DEF Server!_build_runtime, Server!_wire_tools, Server!Busy, ServerInv, ServerTyped, RequestInv, Underway
  <2>2. ASSUME NEW q \in Requests, q # r PROVE RequestInv(q)'
    BY <1>3, <2>2 DEF Server!_build_runtime, Server!_wire_tools, Server!Busy, ServerInv, ServerTyped, RequestInv, Underway
  <2>3. RequestInv(r)'
    BY <1>3 DEF Server!_build_runtime, Server!_wire_tools, Server!Busy, ServerInv, ServerTyped, RequestInv, Underway
  <2> QED BY <2>1, <2>2, <2>3 DEF ServerInv
<1>4. ASSUME NEW r \in Requests, Server!RunSingle(r) PROVE ServerInv'
  <2>1. ServerTyped'
    BY <1>4, Alone DEF Server!RunSingle, ServerInv, ServerTyped, RequestInv, Underway
  <2>2. ASSUME NEW q \in Requests, q # r PROVE RequestInv(q)'
    BY <1>4, <2>2, Alone DEF Server!RunSingle, ServerInv, ServerTyped, RequestInv, Underway
  <2>3. RequestInv(r)'
    BY <1>4, Alone DEF Server!RunSingle, ServerInv, ServerTyped, RequestInv, Underway
  <2> QED BY <2>1, <2>2, <2>3 DEF ServerInv
<1>5. ASSUME NEW r \in Requests, NEW plan \in BOOLEAN, Server!Decompose(r, plan) PROVE ServerInv'
  <2>1. PICK new : work' = [work EXCEPT ![r] = new] /\ new = <<r>>
    BY <1>5 DEF Server!Decompose
  <2>2. new \in Seq(Requests) /\ Len(new) = 1 /\ new # <<>> /\ DOMAIN new = {1} /\ new[1] = r
    BY <2>1, Alone
  <2>3. /\ spent' = [spent EXCEPT ![r] = @ + 1] /\ ledger' = [ledger EXCEPT ![r] = @ + 1]
        /\ runPc[r] = "built" /\ runPc' = [runPc EXCEPT ![r] = "running"]
        /\ path' = [path EXCEPT ![r] = IF plan THEN "graph" ELSE "single"]
        /\ UNCHANGED <<factory, own, answer, together>>
    BY <1>5 DEF Server!Decompose, Server!Charge
  <2>4. ServerTyped'
    <3>1. work' \in [Requests -> Seq(Requests)]
      BY <1>0, <2>1, <2>2 DEF ServerTyped
    <3>2. /\ ledger' \in [Requests -> Nat] /\ spent' \in [Requests -> Nat]
          /\ path' \in [Requests -> {"single", "graph"}]
      BY SMTT(30), <1>0, <2>3 DEF ServerTyped
    <3> QED BY <1>0, <2>3, <3>1, <3>2 DEF ServerTyped
  <2>5. ASSUME NEW q \in Requests, q # r PROVE RequestInv(q)'
    <3>1. /\ work'[q] = work[q] /\ ledger'[q] = ledger[q] /\ spent'[q] = spent[q]
          /\ runPc'[q] = runPc[q] /\ path'[q] = path[q] /\ own'[q] = own[q]
          /\ answer'[q] = answer[q] /\ together' = together /\ factory' = factory
      BY <1>0, <2>1, <2>3, <2>5 DEF ServerTyped
    <3>2. Underway(q)' <=> Underway(q)
      BY <3>1 DEF Underway
    <3>3. RequestInv(q)
      BY DEF ServerInv
    <3> QED BY <3>1, <3>2, <3>3 DEF RequestInv
  <2>6. RequestInv(r)'
    BY <2>1, <2>2, <2>3 DEF ServerInv, ServerTyped, RequestInv, Underway
  <2> QED BY <2>4, <2>5, <2>6 DEF ServerInv
<1>6. ASSUME NEW r \in Requests, Server!Reply(r) PROVE ServerInv'
  <2>1. PICK x \in Requests :
          /\ spent' = [spent EXCEPT ![r] = @ + 1] /\ ledger' = [ledger EXCEPT ![x] = @ + 1]
          /\ x = r \/ (r \in together /\ x \in together)
    <3>1. Head(work[r]) = work[r][1] /\ work[r][1] \in Requests /\ 1 \in DOMAIN work[r]
      BY <1>6 DEF Server!Reply, ServerInv, ServerTyped, RequestInv, Underway
    <3> QED BY <1>6, <3>1 DEF Server!Reply, Server!Charge, ServerInv, ServerTyped, RequestInv, Underway
  <2>2. /\ UNCHANGED <<factory, runPc, path, work, answer, together>>
        /\ runPc[r] = "running" /\ own' \in [Requests -> Nat]
    <3>1. own' \in [Requests -> Nat]
      <4>1. own \in [Requests -> Nat]
        BY <1>0 DEF ServerTyped
      <4> QED BY <1>6, <4>1 DEF Server!Reply
    <3>2. runPc[r] = "running"
      BY <1>6 DEF Server!Reply, ServerInv, RequestInv
    <3> QED BY <1>6, <3>1, <3>2 DEF Server!Reply
  <2>3. ServerTyped'
    <3>1. ledger \in [Requests -> Nat] /\ spent \in [Requests -> Nat]
      BY <1>0 DEF ServerTyped
    <3>2. ledger' \in [Requests -> Nat] /\ spent' \in [Requests -> Nat]
      BY <3>1, <2>1
    <3> QED BY <1>0, <2>2, <3>2 DEF ServerTyped
  <2>4. ASSUME NEW q \in Requests PROVE RequestInv(q)'
    BY <2>1, <2>2, <2>4 DEF ServerInv, ServerTyped, RequestInv, Underway
  <2> QED BY <2>3, <2>4 DEF ServerInv
<1>7. ASSUME NEW r \in Requests, Server!spawn_agent(r) PROVE ServerInv'
  <2>1. PICK new : work' = [work EXCEPT ![r] = new] /\ new = <<factory>> \o work[r]
    BY <1>7 DEF Server!spawn_agent
  <2>2. /\ work[r] \in Seq(Requests) /\ Len(work[r]) = 1 /\ runPc[r] = "running"
        /\ factory \in Requests
    BY <1>7 DEF Server!spawn_agent, ServerInv, ServerTyped, RequestInv, Underway
  <2>3. /\ new \in Seq(Requests) /\ Len(new) = 2 /\ DOMAIN new = {1, 2} /\ DOMAIN work[r] = {1}
        /\ new[1] = factory /\ new[2] = work[r][1]
    BY <2>1, <2>2, Pushed
  <2>4. UNCHANGED <<factory, runPc, path, ledger, own, spent, answer, together>>
    BY <1>7 DEF Server!spawn_agent
  <2>5. ServerTyped'
    BY <2>1, <2>2, <2>3, <2>4 DEF ServerInv, ServerTyped, RequestInv, Underway
  <2>6. ASSUME NEW q \in Requests, q # r PROVE RequestInv(q)'
    <3>1. work'[q] = work[q]
      BY <2>1, <2>6 DEF ServerInv, ServerTyped
    <3> QED BY <3>1, <2>4 DEF ServerInv, RequestInv, Underway
  <2>7. RequestInv(r)'
    <3>1. work'[r] = new
      BY <2>1 DEF ServerInv, ServerTyped
    <3> QED BY <3>1, <2>2, <2>3, <2>4 DEF ServerInv, RequestInv, Underway
  <2> QED BY <2>5, <2>6, <2>7 DEF ServerInv
<1>8. ASSUME NEW r \in Requests, Server!SpawnedReturns(r) PROVE ServerInv'
  <2>1. PICK new : work' = [work EXCEPT ![r] = new] /\ new = Tail(work[r])
    BY <1>8 DEF Server!SpawnedReturns
  <2>2. work[r] \in Seq(Requests) /\ Len(work[r]) = 2 /\ runPc[r] = "running"
    <3>1. work[r] \in Seq(Requests) /\ Len(work[r]) = 2
      BY <1>8 DEF Server!SpawnedReturns, ServerInv, ServerTyped
    <3> QED BY <3>1, EmptySeq DEF ServerInv, RequestInv
  <2>3. /\ new \in Seq(Requests) /\ Len(new) = 1 /\ DOMAIN new = {1} /\ DOMAIN work[r] = {1, 2}
        /\ new[1] = work[r][2]
    BY <2>1, <2>2, Popped
  <2>4. UNCHANGED <<factory, runPc, path, ledger, own, spent, answer, together>>
    BY <1>8 DEF Server!SpawnedReturns
  <2>5. ServerTyped'
    BY <2>1, <2>2, <2>3, <2>4 DEF ServerInv, ServerTyped, RequestInv, Underway
  <2>6. ASSUME NEW q \in Requests, q # r PROVE RequestInv(q)'
    <3>1. work'[q] = work[q]
      BY <2>1, <2>6 DEF ServerInv, ServerTyped
    <3> QED BY <3>1, <2>4 DEF ServerInv, RequestInv, Underway
  <2>7. RequestInv(r)'
    <3>1. work'[r] = new
      BY <2>1 DEF ServerInv, ServerTyped
    <3> QED BY <3>1, <2>2, <2>3, <2>4 DEF ServerInv, RequestInv, Underway
  <2> QED BY <2>5, <2>6, <2>7 DEF ServerInv
<1>9. ASSUME NEW r \in Requests, Server!Respond(r) PROVE ServerInv'
  <2>1. ServerTyped'
    BY <1>9 DEF Server!Respond, ServerInv, ServerTyped, RequestInv, Underway
  <2>2. ASSUME NEW q \in Requests, q # r PROVE RequestInv(q)'
    BY <1>9, <2>2 DEF Server!Respond, ServerInv, ServerTyped, RequestInv, Underway
  <2>3. RequestInv(r)'
    BY <1>9 DEF Server!Respond, ServerInv, ServerTyped, RequestInv, Underway
  <2> QED BY <2>1, <2>2, <2>3 DEF ServerInv
<1>10. ASSUME NEW r \in Requests, Server!RunRaises(r) PROVE ServerInv'
  <2>1. ServerTyped'
    BY <1>10 DEF Server!RunRaises, ServerInv, ServerTyped, RequestInv, Underway
  <2>2. ASSUME NEW q \in Requests, q # r PROVE RequestInv(q)'
    BY <1>10, <2>2 DEF Server!RunRaises, ServerInv, ServerTyped, RequestInv, Underway
  <2>3. RequestInv(r)'
    BY <1>10 DEF Server!RunRaises, ServerInv, ServerTyped, RequestInv, Underway
  <2> QED BY <2>1, <2>2, <2>3 DEF ServerInv
<1> QED
  BY <1>1, <1>2, <1>3, <1>4, <1>5, <1>6, <1>7, <1>8, <1>9, <1>10 DEF Server!Next

(* RunService: a request that was alone from its arrival to its answer runs  *)
(* on a runtime of its own: what it registers, what it is answered and what  *)
(* it is billed are its own (api/server.py:33).                              *)
THEOREM ServerIsolates == Spec => []AloneIsIsolated
<1>1. Init => ServerInv
  BY PartsBegin, ServerBegins
<1>2. ServerInv /\ [Next]_vars => ServerInv'
  <2> SUFFICES ASSUME ServerInv, UNCHANGED serverVars PROVE ServerInv'
    BY PartsStep, ServerStepKeeps
  <2> QED BY DEF serverVars, ServerInv, ServerTyped, RequestInv, Underway
<1>3. ServerInv => AloneIsIsolated
  BY DEF ServerInv, RequestInv, AloneIsIsolated, Server!AloneIsIsolated, Server!Isolated
<1> QED BY <1>1, <1>2, <1>3, PTL DEF Spec

-----------------------------------------------------------------------------
(* The registries                                                           *)

\* Bootstrap b loads t.
Loads(b, t) == loading[b] # Nothing /\ loading[b].tool = t

RegistryTyped ==
  /\ objects \in Nat
  /\ DOMAIN module = Tools /\ DOMAIN entry = Tools /\ DOMAIN loading = Bootstraps
  /\ \A b \in Bootstraps : loading[b] # Nothing =>
       loading[b] \in [tool : Tools, object : Nat \cup {Nothing}]

\* A tool that was never loaded by two at once has one module: that of its
\* one loader, before it has a module there is none, and whatever was
\* registered or given to a runtime is from that module.
ToolInv(t) ==
  /\ \A b, c \in Bootstraps : Loads(b, t) /\ Loads(c, t) => b = c
  /\ \A b \in Bootstraps : Loads(b, t) => module[t] = loading[b].object
  /\ entry[t] # Nothing => entry[t] = module[t]
  /\ \A snapshot \in runtimes : snapshot[t] # Nothing => snapshot[t] = module[t]

RegistryInv == RegistryTyped /\ \A t \in Tools \ raced : ToolInv(t)

LEMMA RegistryBegins == Plugins!Init => RegistryInv
BY DEF Plugins!Init, RegistryInv, RegistryTyped, ToolInv, Loads

\* A bootstrap looks at t while another may load it.
LEMMA RegistryDiscovers ==
  ASSUME NEW b \in Bootstraps, NEW t \in Tools, RegistryInv, Plugins!Discover(b, t)
  PROVE  RegistryInv'
<1>1. UNCHANGED <<module, objects, runtimes>>
  BY DEF Plugins!Discover
<1>2. CASE UNCHANGED <<entry, loading, raced>>
  BY <1>1, <1>2 DEF RegistryInv, RegistryTyped, ToolInv, Loads
<1>3. CASE /\ entry' = [entry EXCEPT ![t] = module[t]]
           /\ UNCHANGED <<loading, raced>>
  BY <1>1, <1>3 DEF RegistryInv, RegistryTyped, ToolInv, Loads
<1>4. CASE /\ module[t] = Nothing
           /\ loading[b] = Nothing
           /\ loading' = [loading EXCEPT ![b] = [tool |-> t, object |-> Nothing]]
           /\ raced' = raced \cup {u \in {t} : \E c \in Bootstraps : Loads(c, u)}
           /\ UNCHANGED entry
  <2>1. RegistryTyped'
    BY <1>1, <1>4 DEF RegistryInv, RegistryTyped
  <2>2. ASSUME NEW u \in Tools \ raced' PROVE ToolInv(u)'
    <3>1. ToolInv(u)
      BY <1>4, <2>2 DEF RegistryInv
    <3>2. \A c \in Bootstraps : c # b => (Loads(c, u)' <=> Loads(c, u)) /\ loading'[c] = loading[c]
      BY <1>4 DEF Loads, RegistryInv, RegistryTyped
    <3>3. loading'[b] = [tool |-> t, object |-> Nothing] /\ ~Loads(b, u)
      BY <1>4 DEF Loads, RegistryInv, RegistryTyped
    <3>4. CASE u = t
      <4>1. \A c \in Bootstraps : ~Loads(c, t)
        BY <1>4, <2>2, <3>4
      <4> QED BY <1>1, <1>4, <3>1, <3>2, <3>3, <3>4, <4>1 DEF ToolInv, Loads
    <3>5. CASE u # t
      <4>1. ~Loads(b, u)'
        BY <3>3, <3>5 DEF Loads
      <4> QED BY <1>1, <1>4, <3>1, <3>2, <4>1 DEF ToolInv
    <3> QED BY <3>4, <3>5
  <2> QED BY <2>1, <2>2 DEF RegistryInv
<1> QED
  BY <1>2, <1>3, <1>4 DEF Plugins!Discover, Plugins!IsLoaded, Plugins!Loads, Loads

LEMMA RegistryStepKeeps == RegistryInv /\ Plugins!Next => RegistryInv'
<1> SUFFICES ASSUME RegistryInv, Plugins!Next PROVE RegistryInv'
  OBVIOUS
<1>0. RegistryTyped /\ Nothing \notin Nat
  BY ServicesAssumption DEF RegistryInv, Plugins!RegistryAssumption
<1>1. ASSUME NEW t \in Tools, Plugins!Edit(t) PROVE RegistryInv'
  BY <1>1 DEF Plugins!Edit, RegistryInv, RegistryTyped, ToolInv, Loads
<1>2. ASSUME NEW b \in Bootstraps, NEW t \in Tools, Plugins!NewModule(b, t) PROVE RegistryInv'
  <2>1. /\ Loads(b, t) /\ loading[b].object = Nothing
        /\ objects' = objects + 1 /\ module' = [module EXCEPT ![t] = objects + 1]
        /\ loading' = [loading EXCEPT ![b].object = objects + 1]
        /\ UNCHANGED <<entry, raced, runtimes>>
    BY <1>2 DEF Plugins!NewModule, Plugins!Loads, Loads
  <2>2. /\ loading'[b] = [tool |-> t, object |-> objects + 1]
        /\ \A c \in Bootstraps \ {b} : loading'[c] = loading[c]
    BY <1>0, <2>1 DEF RegistryTyped, Loads
  <2>3. RegistryTyped'
    BY <1>0, <2>1, <2>2 DEF RegistryTyped
  <2>4. ASSUME NEW u \in Tools \ raced PROVE ToolInv(u)'
    <3>1. ToolInv(u)
      BY <2>4 DEF RegistryInv
    <3>2. CASE u = t
      <4>1. module[t] = Nothing /\ \A c \in Bootstraps \ {b} : ~Loads(c, t)
        BY <2>1, <3>1, <3>2 DEF ToolInv
      <4>2. \A c \in Bootstraps \ {b} : ~Loads(c, t)'
        BY <2>2, <4>1 DEF Loads
      <4>3. module'[t] = objects + 1 /\ loading'[b].object = objects + 1
        BY <1>0, <2>1, <2>2 DEF RegistryTyped
      <4> QED BY <2>1, <3>1, <3>2, <4>1, <4>2, <4>3 DEF ToolInv
    <3>3. CASE u # t
      <4>1. ~Loads(b, u)' /\ module'[u] = module[u]
        BY <2>1, <2>2, <3>3 DEF Loads
      <4>2. \A c \in Bootstraps \ {b} : Loads(c, u)' <=> Loads(c, u)
        BY <2>2 DEF Loads
      <4> QED BY <2>1, <2>2, <3>1, <4>1, <4>2 DEF ToolInv
    <3> QED BY <3>2, <3>3
  <2> QED BY <2>1, <2>3, <2>4 DEF RegistryInv
<1>3. ASSUME NEW b \in Bootstraps, NEW t \in Tools, Plugins!Load(b, t) PROVE RegistryInv'
  <2>1. /\ Loads(b, t) /\ loading[b].object # Nothing
        /\ loading' = [loading EXCEPT ![b] = Nothing]
        /\ entry' = entry \/ entry' = [entry EXCEPT ![t] = loading[b].object]
        /\ UNCHANGED <<module, objects, raced, runtimes>>
    BY <1>3 DEF Plugins!Load, Plugins!Loads, Loads
  <2>2. loading'[b] = Nothing /\ \A c \in Bootstraps \ {b} : loading'[c] = loading[c]
    BY <1>0, <2>1 DEF RegistryTyped
  <2>3. RegistryTyped'
    BY <1>0, <2>1, <2>2 DEF RegistryTyped
  <2>4. ASSUME NEW u \in Tools \ raced PROVE ToolInv(u)'
    <3>1. ToolInv(u)
      BY <2>4 DEF RegistryInv
    <3>2. /\ ~Loads(b, u)'
          /\ \A c \in Bootstraps \ {b} : Loads(c, u)' <=> Loads(c, u)
      BY <2>2 DEF Loads
    <3>3. entry'[u] # Nothing => entry'[u] = module[u]
      BY <1>0, <2>1, <3>1 DEF ToolInv, RegistryTyped
    <3> QED BY <2>1, <2>2, <3>1, <3>2, <3>3 DEF ToolInv
  <2> QED BY <2>1, <2>3, <2>4 DEF RegistryInv
<1>4. ASSUME NEW b \in Bootstraps, Plugins!RegisterProviders(b) PROVE RegistryInv'
  BY <1>4 DEF Plugins!RegisterProviders, RegistryInv, RegistryTyped, ToolInv, Loads
<1>5. ASSUME NEW b \in Bootstraps, Plugins!BuildRuntime(b) PROVE RegistryInv'
  <2>1. /\ runtimes' \subseteq runtimes \cup {entry}
        /\ UNCHANGED <<module, objects, entry, loading, raced>>
    BY <1>5 DEF Plugins!BuildRuntime
  <2> QED BY <2>1 DEF RegistryInv, RegistryTyped, ToolInv, Loads
<1> QED BY <1>1, <1>2, <1>3, <1>4, <1>5, RegistryDiscovers DEF Plugins!Next

(* Registry: over any overlap of bootstraps, edits on disk and handlers     *)
(* that raise, what a runtime injects reaches the tools it has              *)
(* (core/registry.py).                                                      *)
THEOREM InjectionReaches == Spec => []InjectionReachesTools
<1>1. Init => RegistryInv
  BY PartsBegin, RegistryBegins
<1>2. RegistryInv /\ [Next]_vars => RegistryInv'
  <2> SUFFICES ASSUME RegistryInv, UNCHANGED registryVars PROVE RegistryInv'
    BY PartsStep, RegistryStepKeeps
  <2> QED BY DEF registryVars, RegistryInv, RegistryTyped, ToolInv, Loads
<1>3. RegistryInv => InjectionReachesTools
  BY DEF RegistryInv, ToolInv, InjectionReachesTools, Plugins!InjectionReachesTools,
         Plugins!IsLoaded
<1> QED BY <1>1, <1>2, <1>3, PTL DEF Spec

-----------------------------------------------------------------------------
(* The cloned repositories                                                  *)

\* The target is the clone of a call that has returned: its manifest and the
\* hashes of the call's answer are the same, and its file is what the call
\* made of it, or was edited or removed since.
TargetInv ==
  LET c == target.owner
  IN  /\ target \in Clones!Targets
      /\ c \in TemplateCalls /\ clonePc[c] = "returned"
      /\ target.manifest = Clones!Prepared(c, spec[c]).manifest
      /\ target.manifest = hashes[c]
      /\ target.file \in {Clones!Prepared(c, spec[c]).file, Clones!Edited, Nothing}

CloneInv ==
  /\ DOMAIN clonePc = Clones!Calls /\ DOMAIN result = Clones!Calls
  /\ DOMAIN spec = TemplateCalls /\ DOMAIN hashes = TemplateCalls
  /\ target # Nothing => TargetInv
  /\ target = Nothing => \A c \in TemplateCalls : result[c] # "success"

LEMMA CloneBegins == Clones!Init => CloneInv
BY DEF Clones!Init, CloneInv, Clones!Calls

LEMMA CloneFacts ==
  /\ TemplateCalls \cap GithubCalls = {}
  /\ Nothing \notin Clones!Targets
  /\ \A c \in TemplateCalls : Nothing \notin {Clones!Bytes(c), Clones!Replaced(c)}
BY ServicesAssumption DEF Clones!WorkspaceAssumption

LEMMA PreparedIsATarget ==
  ASSUME NEW c \in TemplateCalls, NEW items
  PROVE  Clones!Prepared(c, items) \in Clones!Targets
<1>1. Clones!Prepared(c, items) \in
        [owner : {c}, file : {Clones!Bytes(c), Clones!Replaced(c), Clones!Edited, Nothing},
         manifest : {Clones!Bytes(c), Nothing}]
  BY DEF Clones!Prepared
<1> QED BY <1>1 DEF Clones!Targets

\* A call that is not the target's owner returns or goes on.
LEMMA CloneOthers ==
  ASSUME CloneInv, NEW c \in Clones!Calls, clonePc[c] # "returned",
         UNCHANGED <<spec, hashes, target>>,
         NEW where, clonePc' = [clonePc EXCEPT ![c] = where],
         NEW what, result' = [result EXCEPT ![c] = what],
         target = Nothing => c \notin TemplateCalls \/ what # "success"
  PROVE  CloneInv'
BY DEF CloneInv, TargetInv

LEMMA CloneMoves ==
  ASSUME CloneInv, NEW c \in TemplateCalls, Clones!Move(c)
  PROVE  CloneInv'
<1>1. PICK items \in Specs :
        /\ spec' = [spec EXCEPT ![c] = items]
        /\ hashes' = [hashes EXCEPT ![c] = Clones!Prepared(c, items).manifest]
        /\ \/ target = Nothing /\ target' = Clones!Prepared(c, items)
           \/ target # Nothing /\ target' = target
  BY DEF Clones!Move
<1>2. /\ clonePc[c] = "cloning" /\ clonePc' = [clonePc EXCEPT ![c] = "returned"]
      /\ result' = [result EXCEPT ![c] = "success"]
  BY DEF Clones!Move, Clones!Told
<1>3. c \in Clones!Calls
  BY DEF Clones!Calls
<1>4. /\ DOMAIN clonePc' = Clones!Calls /\ DOMAIN result' = Clones!Calls
      /\ DOMAIN spec' = TemplateCalls /\ DOMAIN hashes' = TemplateCalls
      /\ spec'[c] = items /\ hashes'[c] = Clones!Prepared(c, items).manifest
      /\ clonePc'[c] = "returned"
  BY <1>1, <1>2, <1>3 DEF CloneInv
<1>5. CASE target = Nothing /\ target' = Clones!Prepared(c, items)
  <2>1. target'.owner = c /\ target' \in Clones!Targets
    BY <1>5, PreparedIsATarget DEF Clones!Prepared
  <2>2. TargetInv'
    BY <1>4, <1>5, <2>1 DEF TargetInv
  <2> QED BY <1>4, <2>1, <2>2, CloneFacts DEF CloneInv
<1>6. CASE target # Nothing /\ target' = target
  <2>1. TargetInv /\ target.owner # c
    BY <1>2, <1>6 DEF CloneInv, TargetInv
  <2>2. LET o == target.owner
        IN  /\ spec'[o] = spec[o] /\ hashes'[o] = hashes[o] /\ clonePc'[o] = clonePc[o]
    BY <1>1, <1>2, <2>1 DEF CloneInv, TargetInv
  <2>3. TargetInv'
    BY <1>6, <2>1, <2>2 DEF TargetInv
  <2> QED BY <1>4, <1>6, <2>3 DEF CloneInv
<1> QED BY <1>1, <1>5, <1>6

LEMMA CloneEdits ==
  ASSUME CloneInv, Clones!EditFile
  PROVE  CloneInv'
<1>1. /\ target # Nothing /\ TargetInv
      /\ UNCHANGED <<clonePc, result, spec, hashes>>
  BY DEF Clones!EditFile, CloneInv
<1>2. PICK c \in TemplateCalls :
        target \in [owner : {c},
                    file : {Clones!Bytes(c), Clones!Replaced(c), Clones!Edited, Nothing},
                    manifest : {Clones!Bytes(c), Nothing}]
  BY <1>1 DEF TargetInv, Clones!Targets
<1>3. PICK new \in {Clones!Edited, Nothing} : target' = [target EXCEPT !.file = new]
  BY DEF Clones!EditFile
<1>4. /\ target' \in [owner : {c},
                      file : {Clones!Bytes(c), Clones!Replaced(c), Clones!Edited, Nothing},
                      manifest : {Clones!Bytes(c), Nothing}]
      /\ target'.owner = target.owner /\ target'.manifest = target.manifest
      /\ target'.file = new
  BY <1>2, <1>3
<1>5. target' \in Clones!Targets
  BY <1>4 DEF Clones!Targets
<1>6. TargetInv'
  BY <1>1, <1>3, <1>4, <1>5 DEF TargetInv
<1> QED BY <1>1, <1>5, <1>6, CloneFacts DEF CloneInv

LEMMA CloneStepKeeps == CloneInv /\ Clones!Next => CloneInv'
<1> SUFFICES ASSUME CloneInv, Clones!Next PROVE CloneInv'
  OBVIOUS
<1>1. ASSUME NEW c \in TemplateCalls,
             Clones!BeginTemplate(c) \/ Clones!FailTemplate(c) \/ Clones!MoveRaises(c)
      PROVE  CloneInv'
  <2>1. PICK where : clonePc' = [clonePc EXCEPT ![c] = where]
    BY <1>1 DEF Clones!BeginTemplate, Clones!FailTemplate, Clones!MoveRaises, Clones!Told
  <2>2. /\ c \in Clones!Calls /\ clonePc[c] # "returned" /\ UNCHANGED <<spec, hashes, target>>
        /\ result' = [result EXCEPT ![c] = "error"] \/ result' = result
    BY <1>1 DEF Clones!Calls, Clones!BeginTemplate, Clones!FailTemplate, Clones!MoveRaises,
                Clones!Told
  <2>3. CASE result' = [result EXCEPT ![c] = "error"]
    BY <2>1, <2>2, <2>3, CloneOthers
  <2>4. CASE result' = result
    BY <2>1, <2>2, <2>4 DEF CloneInv, TargetInv
  <2> QED BY <2>2, <2>3, <2>4
<1>2. ASSUME NEW c \in GithubCalls,
             Clones!BeginGithub(c) \/ Clones!MakeDirectory(c) \/ Clones!GitEnds(c)
      PROVE  CloneInv'
  <2>1. PICK where : clonePc' = [clonePc EXCEPT ![c] = where]
    BY <1>2 DEF Clones!BeginGithub, Clones!MakeDirectory, Clones!GitEnds, Clones!Told
  <2>2. /\ c \in Clones!Calls /\ clonePc[c] # "returned" /\ UNCHANGED <<spec, hashes, target>>
        /\ c \notin TemplateCalls
        /\ result' = result \/ \E what : result' = [result EXCEPT ![c] = what]
    BY <1>2, CloneFacts DEF Clones!Calls, Clones!BeginGithub, Clones!MakeDirectory,
                            Clones!GitEnds, Clones!Told
  <2>3. ASSUME NEW what, result' = [result EXCEPT ![c] = what] PROVE CloneInv'
    BY <2>1, <2>2, <2>3, CloneOthers
  <2>4. CASE result' = result
    BY <2>1, <2>2, <2>4 DEF CloneInv, TargetInv
  <2> QED BY <2>2, <2>3, <2>4
<1> QED BY <1>1, <1>2, CloneMoves, CloneEdits DEF Clones!Next

LEMMA CloneInvVerifies == CloneInv => VerificationIsExact
<1> SUFFICES ASSUME CloneInv, NEW c \in TemplateCalls, result[c] = "success", target.owner = c
    PROVE  LET untouched == target.file \in {Clones!Bytes(c), Clones!Replaced(c)}
               locked    == Clones!_resolve_file_mode(spec[c]) = "locked"
           IN  /\ Clones!template_verify_given(c) = (untouched \/ ~locked)
               /\ Clones!template_verify = Clones!template_verify_given(c)
  BY DEF VerificationIsExact, Clones!VerificationIsExact
<1> DEFINE mode == Clones!_resolve_file_mode(spec[c])
           untouched == target.file \in {Clones!Bytes(c), Clones!Replaced(c)}
<1>1. /\ target # Nothing /\ TargetInv
  BY DEF CloneInv
<1>2. /\ target.manifest = IF mode = "locked" THEN Clones!Bytes(c) ELSE Nothing
      /\ hashes[c] = target.manifest
      /\ mode = "locked" => target.file \in {Clones!Bytes(c), Clones!Edited, Nothing}
  BY <1>1 DEF TargetInv, Clones!Prepared, Clones!Substituted
<1>3. /\ Clones!template_verify_given(c) <=> (hashes[c] = Nothing \/ target.file = hashes[c])
      /\ Clones!template_verify <=> (target.manifest = Nothing \/ target.file = target.manifest)
  BY <1>1 DEF Clones!template_verify_given, Clones!template_verify, Clones!Unchanged
<1>4. Clones!template_verify_given(c) <=> (untouched \/ mode # "locked")
  <2>1. Clones!Bytes(c) # Nothing /\ Clones!Edited \notin {Clones!Bytes(c), Clones!Replaced(c)}
    BY CloneFacts DEF Clones!Edited, Clones!Bytes, Clones!Replaced
  <2>2. Nothing \notin {Clones!Bytes(c), Clones!Replaced(c)}
    BY CloneFacts
  <2>3. CASE mode = "locked"
    BY <1>2, <1>3, <2>1, <2>2, <2>3
  <2>4. CASE mode # "locked"
    BY <1>2, <1>3, <2>4
  <2> QED BY <2>3, <2>4
<1>5. Clones!template_verify <=> Clones!template_verify_given(c)
  BY <1>2, <1>3
<1> QED
  BY <1>4, <1>5, Zenon DEF Clones!template_verify_given, Clones!template_verify

(* Workspace: in whatever order the calls of concurrent agents meet in the  *)
(* target, and whatever files list a template has, both verifications       *)
(* accept a clone nobody edited and reject an edited locked file            *)
(* (template_clone, template_verify).                                       *)
THEOREM VerificationHolds == Spec => []VerificationIsExact
<1>1. Init => CloneInv
  BY PartsBegin, CloneBegins
<1>2. CloneInv /\ [Next]_vars => CloneInv'
  <2> SUFFICES ASSUME CloneInv, UNCHANGED cloneVars PROVE CloneInv'
    BY PartsStep, CloneStepKeeps
  <2> QED BY DEF cloneVars, CloneInv, TargetInv
<1> QED BY <1>1, <1>2, CloneInvVerifies, PTL DEF Spec

-----------------------------------------------------------------------------
(* The tools that run commands                                              *)

Changing == {<<"change">>, <<"look", "change">>}
Answers == {"none", "ok", "failed", "timeout", "asks", "skipped", "error", "raises"}

\* What a call has still to run and what it was answered: a change is still
\* to come or was made only if its inputs have one and are no dry run's, and
\* kubectl's comes after a look that succeeded; a call that is being run and
\* has only to look has no change to make; an answer that ends the matter
\* leaves nothing running.
CallFits(c) ==
  /\ c.commands \in Changing \/ c.changed =>
       Shell!Promises(c.inputs) /\ ~Shell!DryRun(c.inputs)
  /\ c.inputs.tool = "kubernetes_apply" /\ (c.commands = <<"change">> \/ c.changed) =>
       c.previewed
  /\ c.answer = "none" => c.commands # <<>>
  /\ c.answer = "none" /\ c.commands = <<"look">> => ~Shell!Promises(c.inputs)
  /\ c.answer \in {"ok", "failed", "asks", "skipped", "error"} => c.commands = <<>>
  /\ c.answer = "ok" => (c.changed <=> Shell!Promises(c.inputs))
  /\ c.answer \in {"asks", "skipped", "error"} => ~c.changed

CallRecords ==
  [inputs : [tool : Shell!Handlers, action : STRING, target : STRING, via : STRING,
             flag : STRING \cup Shell!Plain],
   commands : {<<>>, <<"look">>} \cup Changing, previewed : BOOLEAN, changed : BOOLEAN,
   answer : Answers]

CommandInv == calls \in Seq({c \in CallRecords : CallFits(c)})

FitCalls ==
  {c \in [tool : Shell!Handlers, action : STRING, target : STRING, via : STRING,
          flag : Shell!Plain] :
     c.tool = "db_migrate" =>
       c.action \in {"upgrade", "downgrade", "current", "history", "dry_run"}}

\* What a handler makes of a valid call: commands or an answer, no change in a
\* dry run, and kubectl never without looking first.
Sound(does, c) ==
  /\ does.commands \in {<<>>, <<"look">>, <<"write">>} \cup Changing
  /\ does.commands \in Changing \cup {<<"write">>} => ~Shell!DryRun(c)
  /\ does.commands \in {<<"change">>, <<"write">>} => c.tool # "kubernetes_apply"
  /\ does.answer \in Answers \ {"failed", "timeout"}
  /\ does.answer = "none" <=> does.commands # <<>>

\* Whichever way it comes by its command.
LEMMA SaysIsSound ==
  ASSUME NEW c, NEW text \in {"ok", "asks", "skipped", "error", "raises"}
  PROVE  Sound(Shell!Says(text), c)
BY DEF Sound, Shell!Says, Changing, Answers

LEMMA ChangesAreSound ==
  ASSUME NEW c, NEW yes \in BOOLEAN, yes => ~Shell!DryRun(c) /\ c.tool # "kubernetes_apply"
  PROVE  Sound(Shell!Plan(<<Shell!Change(yes)>>), c)
<1>1. CASE yes
  BY <1>1 DEF Sound, Shell!Plan, Shell!Change, Changing, Answers
<1>2. CASE ~yes
  BY <1>2 DEF Sound, Shell!Plan, Shell!Change, Changing, Answers
<1> QED BY <1>1, <1>2

LEMMA HandlersAreSound ==
  ASSUME NEW c \in FitCalls
  PROVE  Sound(Shell!_run(c), c)
<1> USE DEF FitCalls, Shell!Plain, Shell!Default
<1>0. ASSUME c.tool \notin {"db_migrate", "kubernetes_apply", "cloud_run_deploy"}
      PROVE  ~Shell!DryRun(c) /\ c.tool # "kubernetes_apply"
  BY <1>0 DEF Shell!DryRun
<1>1. CASE c.tool = "db_migrate"
  <2> DEFINE dry == Shell!Default(c.flag, FALSE)
  <2>1. /\ Shell!_run(c) = IF c.via = "prisma" THEN Shell!_prisma(c, dry)
                           ELSE Shell!_alembic(c, dry)
        /\ dry \in BOOLEAN /\ (~dry => c.flag # "true")
    BY <1>1 DEF Shell!_run, Shell!db_migrate
  <2>2. ~dry => ~Shell!DryRun(c) /\ c.tool # "kubernetes_apply"
    BY <1>1, <2>1 DEF Shell!DryRun
  <2> HIDE DEF dry
  <2>3. /\ Sound(Shell!Plan(<<Shell!Change(~dry)>>), c)
        /\ Sound(Shell!Plan(<<"look">>), c) /\ Sound(Shell!Says("error"), c)
    <3>1. Sound(Shell!Plan(<<Shell!Change(~dry)>>), c)
      <4> DEFINE yes == ~dry
      <4>1. yes \in BOOLEAN /\ (yes => ~Shell!DryRun(c) /\ c.tool # "kubernetes_apply")
        BY <2>2
      <4> HIDE DEF yes
      <4>2. Sound(Shell!Plan(<<Shell!Change(yes)>>), c)
        BY <4>1, ChangesAreSound
      <4> QED BY <4>2 DEF yes
    <3>2. Sound(Shell!Plan(<<"look">>), c)
      BY DEF Sound, Shell!Plan, Changing, Answers
    <3> QED BY <3>1, <3>2, SaysIsSound
  <2>4. Sound(Shell!_prisma(c, dry), c)
    BY <2>3 DEF Shell!_prisma
  <2>5. Sound(Shell!_alembic(c, dry), c)
    BY <1>1, <2>3 DEF Shell!_alembic
  <2> QED BY <2>1, <2>4, <2>5
<1>2. CASE c.tool = "git_ops"
  <2> DEFINE yes == /\ c.action \notin {"status", "log", "diff", "pr_create"}
                    /\ c.action = "branch" => c.target # "unset"
  <2>1. Shell!_run(c) = IF c.action = "push" /\ c.target = "main" THEN Shell!Says("asks")
                        ELSE Shell!Plan(<<Shell!Change(yes)>>)
    BY <1>2 DEF Shell!_run, Shell!git_ops
  <2>2. yes \in BOOLEAN /\ ~Shell!DryRun(c) /\ c.tool # "kubernetes_apply"
    BY <1>0, <1>2
  <2> HIDE DEF yes
  <2>3. Sound(Shell!Plan(<<Shell!Change(yes)>>), c)
    BY <2>2, ChangesAreSound
  <2> QED BY <2>1, <2>3, SaysIsSound
<1>3. CASE c.tool = "env_manager"
  <2>1. Shell!_run(c) = Shell!env_manager(c)
    BY <1>3 DEF Shell!_run
  <2>2. ~Shell!DryRun(c) /\ c.tool # "kubernetes_apply"
    BY <1>0, <1>3
  <2>3. Sound(Shell!_dotenv(c), c)
    <3>1. Sound(Shell!Plan(<<"write">>), c)
      BY <2>2 DEF Sound, Shell!Plan, Changing, Answers
    <3> QED BY <3>1, SaysIsSound DEF Shell!_dotenv
  <2>4. Sound(Shell!Plan(<<Shell!Change(c.action = "set")>>), c)
    <3> DEFINE yes == c.action = "set"
    <3>1. yes \in BOOLEAN
      OBVIOUS
    <3> HIDE DEF yes
    <3>2. Sound(Shell!Plan(<<Shell!Change(yes)>>), c)
      BY <2>2, <3>1, ChangesAreSound
    <3> QED BY <3>2 DEF yes
  <2>5. Sound(Shell!env_manager(c), c)
    BY <2>3, <2>4, SaysIsSound DEF Shell!env_manager
  <2> QED BY <2>1, <2>5
<1>4. CASE c.tool = "kubernetes_apply"
  <2> DEFINE dry == Shell!Default(c.flag, TRUE)
  <2>1. /\ Shell!_run(c) = IF c.target = "production" /\ ~dry THEN Shell!Says("asks")
                           ELSE Shell!Plan(IF dry THEN <<"look">> ELSE <<"look", "change">>)
        /\ dry \in BOOLEAN /\ (~dry => c.flag \notin {"unset", "true"})
    BY <1>4 DEF Shell!_run, Shell!kubernetes_apply
  <2>2. ~dry => ~Shell!DryRun(c)
    BY <2>1 DEF Shell!DryRun
  <2> HIDE DEF dry
  <2>3. dry => Sound(Shell!Plan(<<"look">>), c)
    BY DEF Sound, Shell!Plan, Changing, Answers
  <2>4. ~dry => Sound(Shell!Plan(<<"look", "change">>), c)
    BY <2>2 DEF Sound, Shell!Plan, Changing, Answers
  <2> QED BY <2>1, <2>3, <2>4, SaysIsSound
<1>5. CASE c.tool = "cloud_run_deploy"
  <2> DEFINE yes == ~Shell!Default(c.flag, TRUE)
  <2>1. /\ Shell!_run(c) = IF c.action \in {"missing", "tampered", "malformed"}
                           THEN Shell!Says("raises") ELSE Shell!Plan(<<Shell!Change(yes)>>)
        /\ yes \in BOOLEAN /\ (yes => c.flag \notin {"unset", "true"})
    BY <1>5 DEF Shell!_run, Shell!cloud_run_deploy
  <2>2. yes => ~Shell!DryRun(c) /\ c.tool # "kubernetes_apply"
    BY <1>5, <2>1 DEF Shell!DryRun
  <2> HIDE DEF yes
  <2>3. Sound(Shell!Plan(<<Shell!Change(yes)>>), c)
    BY <2>1, <2>2, ChangesAreSound
  <2> QED BY <2>1, <2>3, SaysIsSound
<1>6. ASSUME c.tool \notin {"db_migrate", "git_ops", "env_manager", "kubernetes_apply",
                            "cloud_run_deploy"}
      PROVE  Sound(Shell!_run(c), c)
  <2>1. ~Shell!DryRun(c) /\ c.tool # "kubernetes_apply"
    BY <1>0, <1>6
  <2>2. \A yes \in BOOLEAN : Sound(Shell!Plan(<<Shell!Change(yes)>>), c)
    BY <2>1, ChangesAreSound
  <2>3. Sound(Shell!Plan(<<"change">>), c) /\ Sound(Shell!Plan(<<"look">>), c)
    BY <2>1 DEF Sound, Shell!Plan, Changing, Answers
  <2>4. CASE c.tool = "gcloud_cli"
    <3> DEFINE yes == c.action = "update"
    <3>1. Shell!_run(c) = IF c.action \in {"shell_operator", "not_gcloud", "other_group",
                                          "delete"}
                          THEN Shell!Says("raises") ELSE Shell!Plan(<<Shell!Change(yes)>>)
      BY <2>4 DEF Shell!_run, Shell!gcloud_cli
    <3>2. yes \in BOOLEAN
      OBVIOUS
    <3> HIDE DEF yes
    <3> QED BY <2>2, <3>1, <3>2, SaysIsSound
  <2>5. CASE c.tool = "shell_exec"
    <3>1. Shell!_run(c) = IF Shell!_check_command(c) THEN Shell!Plan(<<"change">>)
                          ELSE Shell!Says("raises")
      BY <2>5 DEF Shell!_run, Shell!shell_exec
    <3> QED BY <2>3, <3>1, SaysIsSound
  <2>6. CASE c.tool = "code_sandbox"
    <3>1. Shell!_run(c) = Shell!code_sandbox(c)
      BY <2>6 DEF Shell!_run
    <3> QED BY <2>3, <3>1, SaysIsSound DEF Shell!code_sandbox
  <2>7. CASE c.tool = "linter_run"
    <3> DEFINE yes == Shell!Default(c.flag, FALSE) /\ c.via # "go"
    <3>1. Shell!_run(c) = Shell!Plan(<<Shell!Change(yes)>>) /\ yes \in BOOLEAN
      BY <2>7 DEF Shell!_run, Shell!linter_run
    <3> HIDE DEF yes
    <3> QED BY <2>2, <3>1
  <2>8. CASE c.tool \in {"test_runner", "dependency_audit"}
    <3>1. Shell!_run(c) \in {Shell!Plan(<<"change">>), Shell!Plan(<<"look">>)}
      BY <2>8 DEF Shell!_run, Shell!test_runner, Shell!dependency_audit
    <3> QED BY <2>3, <3>1
  <2>9. CASE c.tool = "docker_build"
    <3>1. Shell!_run(c) \in {Shell!Says("asks"), Shell!Plan(<<"change">>)}
      BY <2>9 DEF Shell!_run, Shell!docker_build
    <3> QED BY <2>3, <3>1, SaysIsSound
  <2>10. CASE c.tool = "docker_compose_deploy"
    <3> DEFINE yes == c.action \notin {"ps", "logs"}
    <3>1. Shell!_run(c) = Shell!Plan(<<Shell!Change(yes)>>) /\ yes \in BOOLEAN
      BY <2>10 DEF Shell!_run, Shell!docker_compose_deploy
    <3> HIDE DEF yes
    <3> QED BY <2>2, <3>1
  <2> QED BY <1>6, <2>4, <2>5, <2>6, <2>7, <2>8, <2>9, <2>10 DEF Shell!Handlers
<1> QED BY <1>1, <1>2, <1>3, <1>4, <1>5, <1>6

\* An audit has no change to make.
LEMMA AuditsOnlyLook ==
  ASSUME NEW c, Shell!Unnoticed(c)
  PROVE  ~Shell!Promises(c)
<1>1. Shell!_run(c).commands = <<"look">>
  BY DEF Shell!Unnoticed, Shell!_run, Shell!dependency_audit, Shell!Plan
<1> QED BY <1>1 DEF Shell!Promises

LEMMA CommandBegins == Shell!Init => CommandInv
BY DEF Shell!Init, CommandInv

LEMMA CommandRuns ==
  ASSUME CommandInv, NEW c \in ToolCalls, Shell!run(c)
  PROVE  CommandInv'
<1> DEFINE fit == [c EXCEPT !.flag = Shell!_coerce_inputs(c.flag)]
           does == IF fit.flag \in Shell!Plain THEN Shell!_run(fit) ELSE Shell!Says("raises")
           writes == does.commands = <<"write">>
           call == [inputs |-> fit,
                    commands |-> IF writes THEN <<>> ELSE does.commands,
                    previewed |-> FALSE,
                    changed |-> writes,
                    answer |-> IF writes THEN "ok" ELSE does.answer]
<1>1. /\ c \in [tool : Shell!Handlers, action : STRING, target : STRING, via : STRING,
                flag : STRING]
      /\ c.tool = "db_migrate" =>
           c.action \in {"upgrade", "downgrade", "current", "history", "dry_run"}
  BY ServicesAssumption DEF Shell!CommandAssumption
<1>2. /\ fit \in [tool : Shell!Handlers, action : STRING, target : STRING, via : STRING,
                  flag : STRING \cup Shell!Plain]
      /\ fit.flag \in Shell!Plain => fit \in FitCalls
  <2>1. Shell!_coerce_inputs(c.flag) \in STRING \cup Shell!Plain
    BY <1>1 DEF Shell!_coerce_inputs, Shell!Plain
  <2>2. /\ fit.tool = c.tool /\ fit.action = c.action
        /\ fit \in [tool : Shell!Handlers, action : STRING, target : STRING, via : STRING,
                    flag : STRING \cup Shell!Plain]
    BY <1>1, <2>1
  <2> HIDE DEF fit
  <2> QED BY <1>1, <2>2 DEF FitCalls
<1>3. Sound(does, fit)
  BY <1>2, HandlersAreSound, SaysIsSound
<1>4. does.commands \in Changing \cup {<<"write">>} <=> Shell!Promises(fit)
  BY DEF Shell!Promises, Changing, Shell!Says
<1>5. calls' = Append(calls, call)
  BY DEF Shell!run
<1> HIDE DEF fit, does
<1>6. call \in CallRecords
  BY <1>2, <1>3 DEF CallRecords, Sound, Answers
<1>7. CallFits(call)
  <2>1. CASE writes
    BY <1>3, <1>4, <2>1 DEF Sound, CallFits, Changing
  <2>2. CASE ~writes
    <3>1. /\ call.inputs = fit /\ call.commands = does.commands /\ call.changed = FALSE
          /\ call.answer = does.answer
      BY <2>2
    <3>2. /\ does.commands \in Changing <=> Shell!Promises(fit)
          /\ does.commands \in Changing => ~Shell!DryRun(fit)
          /\ does.commands = <<"change">> => fit.tool # "kubernetes_apply"
          /\ does.answer = "none" <=> does.commands # <<>>
      BY <1>3, <1>4, <2>2 DEF Sound
    <3> HIDE DEF call
    <3> QED BY <3>1, <3>2 DEF CallFits, Changing
  <2> QED BY <2>1, <2>2
<1> HIDE DEF call
<1> QED BY <1>5, <1>6, <1>7 DEF CommandInv

\* A call is replaced by one that fits.
LEMMA CallReplaced ==
  ASSUME CommandInv, NEW i \in DOMAIN calls, NEW call \in CallRecords, CallFits(call),
         calls' = [calls EXCEPT ![i] = call]
  PROVE  CommandInv'
BY DEF CommandInv

LEMMA CallIsFit ==
  ASSUME CommandInv, NEW i \in DOMAIN calls
  PROVE  calls[i] \in CallRecords /\ CallFits(calls[i])
BY DEF CommandInv

LEMMA CurrentIsFit ==
  ASSUME CommandInv, Shell!Busy
  PROVE  /\ Len(calls) \in DOMAIN calls /\ Shell!Current = calls[Len(calls)]
         /\ Shell!Current \in CallRecords /\ CallFits(Shell!Current)
         /\ Shell!Current.answer = "none" /\ Shell!Current.commands # <<>>
<1>1. Len(calls) \in DOMAIN calls
  BY EmptySeq DEF CommandInv, Shell!Busy
<1> QED BY <1>1, CallIsFit DEF Shell!Busy, Shell!Current, CallFits

LEMMA CommandStepKeeps == CommandInv /\ Shell!Next => CommandInv'
<1> SUFFICES ASSUME CommandInv, Shell!Next PROVE CommandInv'
  OBVIOUS
<1>1. ASSUME NEW c \in ToolCalls, Shell!run(c) PROVE CommandInv'
  BY <1>1, CommandRuns
<1>2. ASSUME NEW call \in CallRecords, CallFits(call), Shell!Busy, Shell!Becomes(call)
      PROVE  CommandInv'
  BY <1>2, CurrentIsFit, CallReplaced DEF Shell!Becomes
<1>3. ASSUME Shell!Busy, NEW told \in Answers \ {"none", "asks", "skipped"},
             told = "error" => ~Shell!Current.changed,
             told = "ok" => Shell!Unnoticed(Shell!Current.inputs),
             Shell!Becomes([Shell!Current EXCEPT !.commands = <<>>, !.answer = told])
      PROVE  CommandInv'
  <2> DEFINE call == [Shell!Current EXCEPT !.commands = <<>>, !.answer = told]
  <2>1. Shell!Current \in CallRecords /\ CallFits(Shell!Current)
    BY <1>3, CurrentIsFit
  <2>2. told = "ok" => ~Shell!Promises(Shell!Current.inputs)
    BY <1>3, AuditsOnlyLook
  <2>3. call \in CallRecords /\ CallFits(call)
    BY <1>3, <2>1, <2>2 DEF CallRecords, CallFits, Changing
  <2> QED BY <1>2, <1>3, <2>3
<1>4. CASE Shell!NotFound
  <2> DEFINE c == Shell!Current.inputs
             told == CASE c.tool \in {"cloud_run_deploy", "gcloud_cli"} -> "raises"
                       [] c.tool \in {"db_migrate", "env_manager", "shell_exec",
                                      "linter_run"} -> "failed"
                       [] Shell!Unnoticed(c) -> "ok"
                       [] OTHER -> "error"
  <2>1. /\ Shell!Busy /\ ~Shell!Current.changed
        /\ Shell!Becomes([Shell!Current EXCEPT !.commands = <<>>, !.answer = told])
    BY <1>4 DEF Shell!NotFound
  <2>2. /\ told \in Answers \ {"none", "asks", "skipped"}
        /\ told = "ok" => Shell!Unnoticed(Shell!Current.inputs)
    BY DEF Answers, Shell!Unnoticed
  <2> HIDE DEF told
  <2> QED BY <1>3, <2>1, <2>2
<1>5. CASE Shell!Fails
  <2> DEFINE told == IF Shell!Unnoticed(Shell!Current.inputs) THEN "ok" ELSE "failed"
  <2>1. /\ Shell!Busy
        /\ Shell!Becomes([Shell!Current EXCEPT !.commands = <<>>, !.answer = told])
    BY <1>5 DEF Shell!Fails
  <2>2. /\ told \in Answers \ {"none", "asks", "skipped", "error"}
        /\ told = "ok" => Shell!Unnoticed(Shell!Current.inputs)
    BY DEF Answers
  <2> HIDE DEF told
  <2> QED BY <1>3, <2>1, <2>2
<1>6. CASE Shell!Overruns
  <2> DEFINE told == IF Shell!Tells(Shell!Current.inputs) THEN "timeout" ELSE "raises"
  <2>1. PICK goesOn \in Shell!GoesOn(Shell!Current.inputs) :
          Shell!Becomes([Shell!Current EXCEPT
                           !.commands = IF goesOn THEN <<Head(Shell!Current.commands)>>
                                        ELSE <<>>,
                           !.answer = told])
    BY <1>6 DEF Shell!Overruns
  <2> DEFINE rest == IF goesOn THEN <<Head(Shell!Current.commands)>> ELSE <<>>
             call == [Shell!Current EXCEPT !.commands = rest, !.answer = told]
  <2>2. Shell!Busy /\ told \in {"timeout", "raises"}
    BY <1>6 DEF Shell!Overruns
  <2>3. Shell!Current \in CallRecords /\ CallFits(Shell!Current)
        /\ Shell!Current.answer = "none" /\ Shell!Current.commands # <<>>
    BY <2>2, CurrentIsFit
  <2>4. /\ rest \in {<<>>, <<"look">>, <<"change">>}
        /\ rest = <<"change">> => Shell!Current.commands = <<"change">>
    <3>1. Shell!Current.commands \in {<<"look">>} \cup Changing
      BY <2>3 DEF CallRecords
    <3> QED BY <3>1 DEF Changing
  <2>5. Shell!Becomes(call)
    BY <2>1
  <2> HIDE DEF rest, told
  <2>6. call \in CallRecords
    BY <2>2, <2>3, <2>4 DEF CallRecords, Changing, Answers
  <2>7. CallFits(call)
    <3>1. /\ call.inputs = Shell!Current.inputs /\ call.changed = Shell!Current.changed
          /\ call.previewed = Shell!Current.previewed
          /\ call.commands = rest /\ call.answer = told
      BY <2>3 DEF CallRecords
    <3>2. rest \in Changing => rest = <<"change">> /\ Shell!Current.commands = <<"change">>
      BY <2>4 DEF Changing
    <3>3. told \notin {"none", "ok", "failed", "asks", "skipped", "error"}
      BY <2>2
    <3> HIDE DEF call
    <3>4. /\ rest \in Changing \/ call.changed =>
               Shell!Promises(call.inputs) /\ ~Shell!DryRun(call.inputs)
          /\ call.inputs.tool = "kubernetes_apply" /\ (rest = <<"change">> \/ call.changed)
               => call.previewed
      BY <2>3, <2>4, <3>1, <3>2 DEF CallFits, Changing
    <3> QED BY <3>1, <3>3, <3>4 DEF CallFits
  <2> HIDE DEF call
  <2> QED BY <1>2, <2>2, <2>5, <2>6, <2>7
<1>7. CASE Shell!Succeeds
  <2> DEFINE commands == Shell!Current.commands
             previewed == Shell!Current.previewed \/ Head(commands) = "look"
             told == IF Len(commands) = 1 THEN "ok" ELSE "none"
             call == [Shell!Current EXCEPT !.commands = Tail(commands),
                                           !.previewed = previewed, !.answer = told]
  <2>1. /\ Shell!Busy /\ Shell!Becomes(call)
        /\ Head(commands) = "change" => Shell!Current.changed
    BY <1>7 DEF Shell!Succeeds
  <2>2. Shell!Current \in CallRecords /\ CallFits(Shell!Current)
        /\ Shell!Current.answer = "none" /\ commands # <<>>
    BY <2>1, CurrentIsFit
  <2>3. commands = <<"look">> \/ commands = <<"change">> \/ commands = <<"look", "change">>
    BY <2>2 DEF CallRecords, Changing
  <2>4. ASSUME commands = <<"look">> \/ commands = <<"change">>
        PROVE  Tail(commands) = <<>> /\ told = "ok"
    <3>1. PICK x \in {"look", "change"} : commands = <<x>>
      BY <2>4
    <3>2. commands \in Seq({"look", "change"}) /\ Len(commands) = 1
      BY <3>1
    <3>3. Tail(commands) \in Seq({"look", "change"}) /\ Len(Tail(commands)) = 0
      BY <3>2, HeadTailProperties, EmptySeq
    <3> QED BY <3>2, <3>3, EmptySeq
  <2>5. ASSUME commands = <<"look", "change">>
        PROVE  Tail(commands) = <<"change">> /\ told = "none" /\ previewed = TRUE
    BY <2>5
  <2>6. previewed \in BOOLEAN /\ (Shell!Current.previewed => previewed)
    BY <2>2 DEF CallRecords
  <2>7. commands = <<"change">> => Head(commands) = "change"
    OBVIOUS
  <2> HIDE DEF previewed, told
  <2>8. CASE commands = <<"look">> \/ commands = <<"change">>
    <3>1. call \in CallRecords
      BY <2>2, <2>4, <2>6, <2>8 DEF CallRecords, Answers
    <3>2. CallFits(call)
      <4>1. Shell!Current.changed <=> Shell!Promises(Shell!Current.inputs)
        BY <2>1, <2>2, <2>7, <2>8 DEF CallFits, Changing
      <4>2. /\ call.inputs = Shell!Current.inputs /\ call.changed = Shell!Current.changed
            /\ call.commands = <<>> /\ call.previewed = previewed /\ call.answer = "ok"
        BY <2>2, <2>4, <2>8 DEF CallRecords
      <4> HIDE DEF call
      <4> QED BY <2>2, <2>6, <4>1, <4>2 DEF CallFits, Changing
    <3> HIDE DEF call
    <3> QED BY <1>2, <2>1, <3>1, <3>2
  <2>9. CASE commands = <<"look", "change">>
    <3>1. call \in CallRecords
      BY <2>2, <2>5, <2>6, <2>9 DEF CallRecords, Answers, Changing
    <3>2. CallFits(call)
      <4>1. /\ call.inputs = Shell!Current.inputs /\ call.changed = Shell!Current.changed
            /\ call.commands = <<"change">> /\ call.previewed = TRUE /\ call.answer = "none"
        BY <2>2, <2>5, <2>9 DEF CallRecords
      <4> HIDE DEF call
      <4> QED BY <2>2, <2>9, <4>1 DEF CallFits, Changing
    <3> HIDE DEF call
    <3> QED BY <1>2, <2>1, <3>1, <3>2
  <2> QED BY <2>3, <2>8, <2>9
<1>8. CASE Shell!Works
  <2>1. PICK i \in DOMAIN calls : /\ calls[i].commands # <<>>
                                  /\ Head(calls[i].commands) = "change"
                                  /\ calls' = [calls EXCEPT ![i].changed = TRUE]
    BY <1>8 DEF Shell!Works
  <2> DEFINE call == [calls[i] EXCEPT !.changed = TRUE]
  <2>2. calls[i] \in CallRecords /\ CallFits(calls[i])
    BY CallIsFit
  <2>3. calls[i].commands = <<"change">>
    BY <2>1, <2>2 DEF CallRecords, Changing
  <2>4. call \in CallRecords
    BY <2>2 DEF CallRecords
  <2>5. CallFits(call)
    <3>1. /\ call.inputs = calls[i].inputs /\ call.changed = TRUE
          /\ call.previewed = calls[i].previewed
          /\ call.commands = <<"change">> /\ call.answer = calls[i].answer
      BY <2>2, <2>3 DEF CallRecords
    <3> HIDE DEF call
    <3> QED BY <2>2, <2>3, <3>1 DEF CallFits, Changing
  <2> QED BY <2>1, <2>4, <2>5, CallReplaced
<1>9. CASE Shell!LeftEnds
  <2>1. PICK i \in DOMAIN calls : /\ calls[i].answer # "none"
                                  /\ calls' = [calls EXCEPT ![i].commands = <<>>]
    BY <1>9 DEF Shell!LeftEnds
  <2> DEFINE call == [calls[i] EXCEPT !.commands = <<>>]
  <2>2. calls[i] \in CallRecords /\ CallFits(calls[i])
    BY CallIsFit
  <2>3. call \in CallRecords /\ CallFits(call)
    BY <2>1, <2>2 DEF CallRecords, CallFits, Changing
  <2> QED BY <2>1, <2>3, CallReplaced
<1> QED BY <1>1, <1>4, <1>5, <1>6, <1>7, <1>8, <1>9 DEF Shell!Next

(* CommandTools: what a call was answered stays true while commands that     *)
(* overran their time go on: a change is made or not as the answer says, no  *)
(* dry run ever changes anything, and kubectl applies only what its dry run  *)
(* has accepted in the same call (ToolHandler.run and the _run of thirteen   *)
(* handlers).                                                                *)
THEOREM AnswersStayedTrue == Spec => []AnswersStayTrue
<1>1. Init => CommandInv
  BY PartsBegin, CommandBegins
<1>2. CommandInv /\ [Next]_vars => CommandInv'
  <2>1. CommandInv /\ UNCHANGED commandVars => CommandInv'
    BY DEF commandVars, CommandInv
  <2> QED BY <2>1, PartsStep, CommandStepKeeps
<1>3. CommandInv => AnswersStayTrue
  <2> SUFFICES ASSUME CommandInv, NEW i \in DOMAIN calls
               PROVE  LET call == calls[i]
                      IN /\ call.answer \in {"ok", "failed", "asks", "skipped", "error"} =>
                              call.commands = <<>>
                         /\ call.answer = "ok" => (call.changed <=> Shell!Promises(call.inputs))
                         /\ call.answer \in {"asks", "skipped", "error"} => ~call.changed
                         /\ Shell!DryRun(call.inputs) => ~call.changed
                         /\ call.inputs.tool = "kubernetes_apply" /\ call.changed =>
                              call.previewed
    BY DEF AnswersStayTrue, Shell!AnswersStayTrue
  <2> QED BY CallIsFit DEF CallFits
<1> QED BY <1>1, <1>2, <1>3, PTL DEF Spec

-----------------------------------------------------------------------------
(* The credentials file                                                     *)

Busy(c) == pc[c] \notin {"idle", "ended"}

Where == {"idle", "walking", "loaded", "truncated", "written", "checked", "ended"}
Verdict == {"ok", "failed", "missing", "skipped"}

\* A command under way that changes the file will write what is there and the
\* service it has come to, or (clear) a part of what is there; and a service
\* that setup has not given up has its credential.
CommandKnows(c) ==
  /\ pc[c] \in {"loaded", "truncated", "written"} =>
       IF at[c] \in DOMAIN AuthServices THEN data[c] = file \cup {AuthServices[at[c]]}
                                        ELSE data[c] \subseteq file
  /\ pc[c] = "written" => tmp = data[c]
  /\ pc[c] # "checked" =>
       \A s \in Auth!Names \ Adc :
          summary[c][s] \notin {"failed", "missing"} => Auth!credential_exists(s)

AuthTyped ==
  /\ pc \in [Commands -> Where] /\ DOMAIN data = Commands /\ DOMAIN at = Commands
  /\ summary \in [Commands -> [Auth!Names -> Verdict]]
  /\ concurrent \in BOOLEAN
  /\ \A c \in Commands : pc[c] = "idle" => \A s \in Auth!Names : summary[c][s] = "missing"

\* As long as no two commands overlap, the one that is under way is alone.
AuthInv ==
  /\ AuthTyped
  /\ ~concurrent => /\ file = stored
                    /\ \A c, d \in Commands : Busy(c) /\ Busy(d) => c = d
                    /\ \A c \in Commands : Busy(c) => CommandKnows(c)

LEMMA AuthBegins == Auth!Init => AuthInv
<1> SUFFICES ASSUME Auth!Init PROVE AuthInv
  OBVIOUS
<1>1. /\ pc = [c \in Commands |-> "idle"] /\ file = stored
      /\ DOMAIN data = Commands /\ DOMAIN at = Commands /\ concurrent = FALSE
      /\ summary = [c \in Commands |-> [s \in Auth!Names |-> "missing"]]
  BY DEF Auth!Init
<1>2. AuthTyped
  BY <1>1 DEF AuthTyped, Verdict, Where
<1> QED BY <1>1, <1>2 DEF AuthInv, Busy

\* A command alone stays alone, whichever of its steps it makes.
LEMMA AloneGoesOn ==
  ASSUME AuthInv, AuthTyped', NEW c \in Commands,
         NEW where \in Where, pc' = [pc EXCEPT ![c] = where],
         \/ Busy(c) /\ concurrent' = concurrent
         \/ concurrent' = (concurrent \/ Auth!UnderWay # {}),
         ~concurrent => /\ file' = stored'
                        /\ where \notin {"idle", "ended"} => CommandKnows(c)'
  PROVE  AuthInv'
<1> SUFFICES ASSUME ~concurrent'
             PROVE  /\ file' = stored'
                    /\ \A d, e \in Commands : Busy(d)' /\ Busy(e)' => d = e
                    /\ \A d \in Commands : Busy(d)' => CommandKnows(d)'
  BY DEF AuthInv
<1>1. ~concurrent /\ (Busy(c) \/ Auth!UnderWay = {})
  BY DEF AuthInv, AuthTyped
<1>2. \A d \in Commands : Busy(d) => d = c
  BY <1>1 DEF AuthInv, Auth!UnderWay, Busy
<1>3. \A d \in Commands : Busy(d)' => d = c
  BY <1>2 DEF AuthInv, AuthTyped, Busy
<1>4. ASSUME NEW d \in Commands, Busy(d)' PROVE CommandKnows(d)'
  <2>1. d = c
    BY <1>3, <1>4
  <2>2. where \notin {"idle", "ended"}
    BY <1>4, <2>1 DEF AuthInv, AuthTyped, Busy
  <2>3. CommandKnows(c)'
    BY <1>1, <2>2
  <2> QED BY <2>1, <2>3 DEF CommandKnows, Auth!credential_exists
<1> QED BY <1>1, <1>3, <1>4

\* One verdict more.
LEMMA VerdictAdded ==
  ASSUME AuthTyped, NEW c \in Commands, NEW s \in Auth!Names, NEW v \in Verdict,
         summary' = [summary EXCEPT ![c][s] = v]
  PROVE  /\ summary' \in [Commands -> [Auth!Names -> Verdict]]
         /\ summary'[c][s] = v
         /\ \A t \in Auth!Names : t # s => summary'[c][t] = summary[c][t]
         /\ \A d \in Commands : d # c => summary'[d] = summary[d]
BY DEF AuthTyped, Where

LEMMA SetupGoesOn ==
  ASSUME AuthInv, NEW c \in Commands, Auth!SkipExisting(c) \/ Auth!run_adc_flow(c)
  PROVE  AuthInv'
<1> DEFINE s == AuthServices[at[c]]
<1>1. /\ pc[c] = "walking" /\ s \in Auth!Names /\ AuthTyped
      /\ UNCHANGED <<file, tmp, pc, data, stored, concurrent>>
      /\ at' = [at EXCEPT ![c] = @ + 1]
  BY DEF Auth!SkipExisting, Auth!run_adc_flow, Auth!Walks, Auth!Names, Auth!Next_service,
         AuthInv
<1>2. PICK v \in Verdict : /\ summary' = [summary EXCEPT ![c][s] = v]
                           /\ s \in Adc \/ Auth!credential_exists(s)
  BY DEF Auth!SkipExisting, Auth!run_adc_flow, Auth!Next_service, Auth!Verdicts, Verdict
<1> HIDE DEF s
<1>3. /\ summary' \in [Commands -> [Auth!Names -> Verdict]]
      /\ \A t \in Auth!Names : t # s => summary'[c][t] = summary[c][t]
      /\ \A d \in Commands : d # c => summary'[d] = summary[d]
  BY <1>1, <1>2, VerdictAdded
<1>4. AuthTyped'
  <2>1. /\ DOMAIN at' = Commands
        /\ \A d \in Commands : pc'[d] = "idle" => d # c /\ pc[d] = "idle"
    BY <1>1 DEF AuthTyped
  <2> QED BY <1>1, <1>3, <2>1 DEF AuthTyped
<1>5. Busy(c) /\ pc' = [pc EXCEPT ![c] = "walking"]
  BY <1>1 DEF Busy, AuthTyped
<1>6. ASSUME ~concurrent PROVE file' = stored' /\ CommandKnows(c)'
  BY <1>1, <1>2, <1>3, <1>5, <1>6 DEF AuthInv, CommandKnows, Auth!credential_exists
<1> QED BY <1>1, <1>4, <1>5, <1>6, AloneGoesOn DEF Where

LEMMA SetupPasses ==
  ASSUME AuthInv, NEW c \in Commands, Auth!NotSelected(c)
  PROVE  AuthInv'
<1>1. /\ pc[c] = "walking" /\ AuthTyped /\ Busy(c)
      /\ UNCHANGED <<file, tmp, pc, data, summary, stored, concurrent>>
      /\ at' = [at EXCEPT ![c] = @ + 1]
  BY DEF Auth!NotSelected, AuthInv, Busy
<1>2. AuthTyped' /\ pc' = [pc EXCEPT ![c] = "walking"]
  BY <1>1 DEF AuthTyped, Where
<1>3. ASSUME ~concurrent PROVE file' = stored' /\ CommandKnows(c)'
  BY <1>1, <1>2, <1>3 DEF AuthInv, CommandKnows, Auth!credential_exists
<1> QED BY <1>1, <1>2, <1>3, AloneGoesOn DEF Where

LEMMA SetupStores ==
  ASSUME AuthInv, NEW c \in Commands, Auth!run_apikey_flow(c)
  PROVE  AuthInv'
<1> DEFINE s == AuthServices[at[c]]
<1>1. /\ pc[c] = "walking" /\ s \in Auth!Names /\ AuthTyped /\ Busy(c)
      /\ at[c] \in DOMAIN AuthServices
      /\ UNCHANGED <<file, tmp, stored, concurrent>>
  BY DEF Auth!run_apikey_flow, Auth!Walks, Auth!Names, AuthInv, Busy
<1>2. CASE Auth!Next_service(c, "failed") /\ UNCHANGED <<pc, data>>
  <2>1. /\ summary' = [summary EXCEPT ![c][s] = "failed"]
        /\ at' = [at EXCEPT ![c] = @ + 1]
    BY <1>2 DEF Auth!Next_service
  <2> HIDE DEF s
  <2>2. /\ summary' \in [Commands -> [Auth!Names -> Verdict]]
        /\ summary'[c][s] = "failed"
        /\ \A t \in Auth!Names : t # s => summary'[c][t] = summary[c][t]
        /\ \A d \in Commands : d # c => summary'[d] = summary[d]
    BY <1>1, <2>1, VerdictAdded DEF Verdict
  <2>3. AuthTyped'
    BY <1>1, <1>2, <2>1, <2>2 DEF AuthTyped, Where
  <2>4. pc' = [pc EXCEPT ![c] = "walking"]
    BY <1>1, <1>2 DEF AuthTyped, Where
  <2>5. ASSUME ~concurrent PROVE file' = stored' /\ CommandKnows(c)'
    BY <1>1, <1>2, <2>2, <2>4, <2>5 DEF AuthInv, CommandKnows, Auth!credential_exists
  <2> QED BY <1>1, <2>3, <2>4, <2>5, AloneGoesOn DEF Where
<1>3. CASE /\ data' = [data EXCEPT ![c] = file \cup {s}]
           /\ pc' = [pc EXCEPT ![c] = "loaded"] /\ UNCHANGED <<summary, at>>
  <2> HIDE DEF s
  <2>1. AuthTyped'
    BY <1>1, <1>3 DEF AuthTyped, Where
  <2>2. ASSUME ~concurrent PROVE file' = stored' /\ CommandKnows(c)'
    BY <1>1, <1>3, <2>2 DEF AuthInv, AuthTyped, CommandKnows, Auth!credential_exists, s
  <2> QED BY <1>1, <1>3, <2>1, <2>2, AloneGoesOn DEF Where
<1> QED BY <1>2, <1>3 DEF Auth!run_apikey_flow, Auth!Goto

\* A command begins, with the verdicts it was born with or those of a check.
LEMMA CommandStarts ==
  ASSUME AuthInv, NEW c \in Commands,
         \/ Auth!auth_setup(c) \/ Auth!run_auth_check(c)
         \/ \E s \in Auth!Names : Auth!auth_clear(c, s)
  PROVE  AuthInv'
<1>1. PICK where \in {"walking", "checked", "loaded", "ended"} :
        /\ pc[c] = "idle" /\ pc' = [pc EXCEPT ![c] = where]
        /\ concurrent' = (concurrent \/ Auth!UnderWay # {})
        /\ where = "walking" => UNCHANGED <<at, data, summary>>
        /\ where = "loaded" => UNCHANGED summary
        /\ where = "checked" => UNCHANGED data
  BY DEF Auth!auth_setup, Auth!run_auth_check, Auth!auth_clear, Auth!Start, Auth!Goto
<1>2. /\ UNCHANGED <<file, tmp, stored>> /\ AuthTyped
      /\ DOMAIN at' = Commands /\ DOMAIN data' = Commands
  BY DEF Auth!auth_setup, Auth!run_auth_check, Auth!auth_clear, AuthInv, AuthTyped
<1>3. \/ summary' = summary
      \/ \E v \in [Auth!Names -> {"ok", "failed", "missing"}] :
            summary' = [summary EXCEPT ![c] = v]
  BY DEF Auth!auth_setup, Auth!run_auth_check, Auth!auth_clear
<1>4. /\ summary' \in [Commands -> [Auth!Names -> Verdict]]
      /\ \A d \in Commands \ {c} : summary'[d] = summary[d]
  BY <1>2, <1>3 DEF AuthTyped, Verdict, Where
<1>5. AuthTyped'
  BY <1>1, <1>2, <1>4 DEF AuthTyped, Where
<1>6. where = "loaded" => /\ at'[c] \notin DOMAIN AuthServices
                          /\ data'[c] \subseteq file
  <2>1. SUFFICES ASSUME where = "loaded"
                 PROVE  /\ at'[c] \notin DOMAIN AuthServices
                        /\ data'[c] \subseteq file
    OBVIOUS
  <2>2. pc'[c] = "loaded"
    BY <1>1, <1>2, <2>1 DEF AuthTyped, Where
  <2>3. PICK s \in Auth!Names : Auth!auth_clear(c, s)
    BY <2>2, <1>2 DEF Auth!auth_setup, Auth!run_auth_check, Auth!Start, Auth!Goto, AuthTyped
  <2>4. /\ at' = [at EXCEPT ![c] = Len(AuthServices) + 1]
        /\ data' = [data EXCEPT ![c] = file \ {s}]
    BY <2>3 DEF Auth!auth_clear
  <2>5. AuthServices \in Seq(Auth!Names)
    BY ServicesAssumption DEF Auth!CredentialsAssumption, Auth!Names
  <2>6. DOMAIN AuthServices = 1..Len(AuthServices) /\ Len(AuthServices) \in Nat
    BY <2>5, LenProperties
  <2> QED BY <1>2, <2>4, <2>6 DEF AuthTyped, Where
<1>7. where # "checked" /\ where # "ended" => \A s \in Auth!Names : summary'[c][s] = "missing"
  BY <1>1, <1>2 DEF AuthTyped, Where
<1>8. ASSUME ~concurrent, where # "ended" PROVE CommandKnows(c)'
  BY <1>1, <1>2, <1>6, <1>7, <1>8 DEF CommandKnows, AuthTyped
<1>9. ~concurrent => file' = stored'
  BY <1>2 DEF AuthInv
<1> QED BY <1>1, <1>5, <1>8, <1>9, AloneGoesOn DEF Where

LEMMA FileIsWritten ==
  ASSUME AuthInv, NEW c \in Commands, Auth!Truncate(c) \/ Auth!WriteLines(c)
  PROVE  AuthInv'
<1>1. /\ \/ pc[c] = "loaded" /\ pc' = [pc EXCEPT ![c] = "truncated"]
         \/ /\ pc[c] = "truncated" /\ pc' = [pc EXCEPT ![c] = "written"]
            /\ tmp' = data[c]
      /\ UNCHANGED <<file, at, data, summary, stored, concurrent>> /\ AuthTyped
  BY DEF Auth!Truncate, Auth!WriteLines, Auth!Goto, AuthInv
<1>2. AuthTyped' /\ Busy(c)
  BY <1>1 DEF AuthTyped, Busy, Where
<1>3. ASSUME ~concurrent PROVE file' = stored' /\ CommandKnows(c)'
  BY <1>1, <1>2, <1>3 DEF AuthInv, AuthTyped, CommandKnows, Auth!credential_exists
<1> QED BY <1>1, <1>2, <1>3, AloneGoesOn DEF Where

LEMMA FileIsReplaced ==
  ASSUME AuthInv, NEW c \in Commands, Auth!Replace(c)
  PROVE  AuthInv'
<1> DEFINE s == AuthServices[at[c]]
<1>1. /\ pc[c] = "written" /\ UNCHANGED <<data, concurrent>> /\ AuthTyped /\ Busy(c)
  BY DEF Auth!Replace, AuthInv, Busy
<1>2. ASSUME ~concurrent
      PROVE  /\ file = stored /\ tmp = data[c] /\ CommandKnows(c)
  BY <1>1, <1>2 DEF AuthInv, CommandKnows
<1>3. CASE tmp = Nothing
  <2>1. /\ pc' = [pc EXCEPT ![c] = "ended"] /\ UNCHANGED <<file, tmp, at, summary, stored>>
    BY <1>3 DEF Auth!Replace, Auth!Goto
  <2>2. AuthTyped'
    BY <1>1, <2>1 DEF AuthTyped, Where
  <2> QED BY <1>1, <1>2, <2>1, <2>2, AloneGoesOn DEF Where
<1>4. CASE tmp # Nothing /\ at[c] \in DOMAIN AuthServices
  <2>1. /\ file' = tmp /\ stored' = stored \cup {s} /\ s \in Auth!Names
        /\ pc' = [pc EXCEPT ![c] = "walking"]
        /\ at' = [at EXCEPT ![c] = @ + 1]
    BY <1>4 DEF Auth!Replace, Auth!Goto, Auth!Next_service, Auth!Names
  <2>2. PICK v \in Verdict : summary' = [summary EXCEPT ![c][s] = v]
    BY <1>4 DEF Auth!Replace, Auth!Next_service, Auth!Verdicts, Verdict
  <2> HIDE DEF s
  <2>3. /\ summary' \in [Commands -> [Auth!Names -> Verdict]]
        /\ \A t \in Auth!Names : t # s => summary'[c][t] = summary[c][t]
        /\ \A d \in Commands : d # c => summary'[d] = summary[d]
    BY <1>1, <2>1, <2>2, VerdictAdded
  <2>4. AuthTyped'
    <3>1. /\ pc' \in [Commands -> Where] /\ DOMAIN at' = Commands
          /\ \A d \in Commands : pc'[d] = "idle" => d # c /\ pc[d] = "idle"
      BY <1>1, <2>1 DEF AuthTyped, Where
    <3> QED BY <1>1, <2>3, <3>1 DEF AuthTyped, Where
  <2>5. ASSUME ~concurrent PROVE file' = stored' /\ CommandKnows(c)'
    <3>1. file' = file \cup {s} /\ file' = stored'
      BY <1>1, <1>2, <1>4, <2>1, <2>5 DEF CommandKnows, s
    <3>2. pc'[c] = "walking"
      BY <1>1, <2>1 DEF AuthTyped, Where
    <3> QED BY <1>1, <1>2, <2>3, <2>5, <3>1, <3>2 DEF CommandKnows, Auth!credential_exists
  <2> QED BY <1>1, <2>1, <2>4, <2>5, AloneGoesOn DEF Where
<1>5. CASE tmp # Nothing /\ at[c] \notin DOMAIN AuthServices
  <2>1. /\ file' = tmp /\ stored' = stored \cap data[c]
        /\ pc' = [pc EXCEPT ![c] = "ended"] /\ UNCHANGED <<at, summary>>
    BY <1>5 DEF Auth!Replace, Auth!Goto
  <2>2. AuthTyped'
    BY <1>1, <2>1 DEF AuthTyped, Where
  <2>3. ~concurrent => file' = stored'
    BY <1>1, <1>2, <1>5, <2>1 DEF CommandKnows
  <2> QED BY <1>1, <2>1, <2>2, <2>3, AloneGoesOn DEF Where
<1> QED BY <1>3, <1>4, <1>5

LEMMA CommandEnds ==
  ASSUME AuthInv, NEW c \in Commands, Auth!Exit(c) \/ Auth!Kill(c)
  PROVE  AuthInv'
<1>1. /\ pc' = [pc EXCEPT ![c] = "ended"] /\ Busy(c)
      /\ UNCHANGED <<file, tmp, at, data, summary, stored, concurrent>> /\ AuthTyped
  BY DEF Auth!Exit, Auth!Kill, Auth!Goto, Auth!UnderWay, AuthInv, Busy
<1>2. AuthTyped'
  BY <1>1 DEF AuthTyped, Where
<1>3. ~concurrent => file' = stored'
  BY <1>1 DEF AuthInv
<1> QED BY <1>1, <1>2, <1>3, AloneGoesOn DEF Where

LEMMA AuthStepKeeps == AuthInv /\ Auth!Next => AuthInv'
BY SetupPasses, SetupGoesOn, SetupStores, CommandStarts, FileIsWritten, FileIsReplaced, CommandEnds
   DEF Auth!Next

(* Credentials: while commands run one after another, and wherever one is    *)
(* killed, the credentials file holds what was reported as stored and not    *)
(* removed, and a setup that ends as complete leaves no required key missing *)
(* of those it was asked for (save_credential, auth_setup and auth_clear of  *)
(* cli/auth.py).                                                             *)
THEOREM StoredStays == Spec => []StoredIsKept
<1>1. Init => AuthInv
  BY PartsBegin, AuthBegins
<1>2. AuthInv /\ [Next]_vars => AuthInv'
  <2>1. AuthInv /\ UNCHANGED authVars => AuthInv'
    BY DEF authVars, AuthInv, AuthTyped, CommandKnows, Busy, Auth!credential_exists
  <2> QED BY <2>1, PartsStep, AuthStepKeeps
<1>3. AuthInv => StoredIsKept
  <2>1. Required \subseteq Auth!Names
    BY ServicesAssumption DEF Auth!CredentialsAssumption, Auth!Names
  <2> QED
    BY <2>1 DEF AuthInv, CommandKnows, Busy, StoredIsKept, Auth!StoredIsKept, Auth!Complete
<1> QED BY <1>1, <1>2, <1>3, PTL DEF Spec

-----------------------------------------------------------------------------
(* The observer                                                             *)

Places == {"started", "configuring", "patching", "running", "finishing", "cleared", "ended"}
Early == {"started", "configuring", "patching"}
Serving == {"configuring", "patching", "running", "finishing"}
Leaving == {"finishing", "cleared", "ended"}

Items == {Page!End} \cup (Nat \X Nat)
RunSet == [pc : Places, queue : Seq(Items), writes : Nat, result : {"none", "done", "error"}]
PageSet == [running : BOOLEAN, event_queue : Nat, spans : Seq(Items)]

\* A run by itself: its result, its writes, its place among the served; its
\* end is the last item of its queue.
RunFits(r, x) ==
  /\ x.pc \in Leaving => x.result # "none"
  /\ x.pc \in Early => x.writes = 0
  /\ r \in active <=> x.pc \in Serving
  /\ \A i \in 1..Len(x.queue) : x.queue[i] = Page!End => x.pc = "ended" /\ i = Len(x.queue)

\* Two runs at once are both known as overlapped.
Apart(q, r) == run[q].pc # "ended" /\ run[r].pc # "ended" => r \in overlapped

RunsInv ==
  /\ run \in Seq(RunSet)
  /\ active \subseteq 1..Len(run) /\ patched \subseteq 1..Len(run)
  /\ overlapped \subseteq 1..Len(run)
  /\ \A r \in 1..Len(run) : RunFits(r, run[r])
  /\ \A q, r \in 1..Len(run) : q # r => Apart(q, r)

PagesInv ==
  /\ page \in [Sessions -> PageSet]
  /\ \A s \in Sessions :
       /\ page[s].event_queue \in 0..Len(run)
       /\ page[s].running => page[s].event_queue # 0
       /\ \A t \in Sessions : page[s].event_queue = page[t].event_queue /\ s # t
                                => page[s].event_queue = 0

\* A page waits for the end of its run or has taken everything up to it.
Announced(p, x) ==
  /\ ~p.running => x.pc = "ended" /\ x.queue = <<>>
  /\ p.running /\ x.pc = "ended" => \E i \in 1..Len(x.queue) : x.queue[i] = Page!End

\* A span that can be on the queue or the page of run r.
Known(x, r) ==
  /\ x \in Nat \X Nat /\ x[1] \in 1..Len(run) /\ x[2] \in 1..run[x[1]].writes
  /\ x[1] = r \/ {x[1], r} \subseteq overlapped

\* The same after a step.
KnownThen(x, r) ==
  /\ x \in Nat \X Nat /\ x[1] \in 1..Len(run') /\ x[2] \in 1..run'[x[1]].writes
  /\ x[1] = r \/ {x[1], r} \subseteq overlapped'

Later(x, y) == x # Page!End /\ y # Page!End /\ x[1] = y[1] => x[2] < y[2]

Ordered(u) == \A i, j \in 1..Len(u) : i < j => Later(u[i], u[j])

Has(u, r, n) == \E i \in 1..Len(u) : u[i] = <<r, n>>

QueueFits(q, r) ==
  /\ \A i \in 1..Len(q) : q[i] # Page!End => Known(q[i], r)
  /\ Ordered(q)

\* The spans u of the page of run r, whose queue is q.
PageFits(u, q, r) ==
  /\ \A i \in 1..Len(u) : u[i] # Page!End /\ Known(u[i], r)
  /\ Ordered(u)
  /\ \A i \in 1..Len(u), j \in 1..Len(q) : Later(u[i], q[j])
  /\ r \in patched => \A n \in 1..run[r].writes : Has(u, r, n) \/ Has(q, r, n)

ShownInv ==
  /\ \A r \in 1..Len(run) : QueueFits(run[r].queue, r)
  /\ \A s \in Sessions : \A r \in 1..Len(run) :
       page[s].event_queue = r =>
         Announced(page[s], run[r]) /\ PageFits(page[s].spans, run[r].queue, r)

PageInv == RunsInv /\ PagesInv /\ ShownInv

LEMMA EndIsNoSpan == \A r, n \in Nat : <<r, n>> # Page!End
<1> SUFFICES ASSUME NEW r \in Nat, NEW n \in Nat, <<r, n>> = <<>> PROVE FALSE
  BY DEF Page!End
<1>1. Len(<<r, n>>) = 2 /\ Len(<<>>) = 0
  OBVIOUS
<1> QED BY <1>1

LEMMA PageBegins == Init => PageInv
<1> SUFFICES ASSUME Page!Init PROVE PageInv
  BY PartsBegin
<1>1. run = <<>> /\ run \in Seq(RunSet) /\ Len(run) = 0
  BY DEF Page!Init
<1>2. RunsInv
  BY <1>1 DEF Page!Init, RunsInv
<1>3. PagesInv
  BY <1>1 DEF Page!Init, PagesInv, PageSet, Page!NoPage, Page!NoRun
<1>4. ShownInv
  BY <1>1 DEF ShownInv
<1> QED BY <1>2, <1>3, <1>4 DEF PageInv

LEMMA RunOf ==
  ASSUME PageInv, NEW r \in 1..Len(run)
  PROVE  /\ run \in Seq(RunSet) /\ DOMAIN run = 1..Len(run) /\ run[r] \in RunSet
         /\ RunFits(r, run[r]) /\ r \in Nat
         /\ run[r].queue \in Seq(Items) /\ Len(run[r].queue) \in Nat /\ run[r].writes \in Nat
<1>1. /\ run \in Seq(RunSet) /\ DOMAIN run = 1..Len(run) /\ run[r] \in RunSet
      /\ RunFits(r, run[r]) /\ r \in Nat
  BY DEF PageInv, RunsInv
<1>2. run[r].queue \in Seq(Items) /\ run[r].writes \in Nat
  BY <1>1 DEF RunSet
<1> QED BY <1>1, <1>2

LEMMA PageOf ==
  ASSUME PageInv, NEW s \in Sessions
  PROVE  /\ page[s] \in PageSet /\ page[s].spans \in Seq(Items) /\ Len(page[s].spans) \in Nat
         /\ page[s].running \in BOOLEAN
         /\ page[s].event_queue \in 0..Len(run) /\ Len(run) \in Nat
         /\ page[s].event_queue # 0 => page[s].event_queue \in 1..Len(run)
<1>1. page[s] \in PageSet /\ page[s].event_queue \in 0..Len(run) /\ Len(run) \in Nat
  BY DEF PageInv, PagesInv, RunsInv
<1>2. page[s].spans \in Seq(Items) /\ page[s].running \in BOOLEAN
  BY <1>1 DEF PageSet
<1> QED BY <1>1, <1>2

\* z is u with one more item at its end.
Grown(u, z, e) ==
  /\ Len(z) = Len(u) + 1 /\ z[Len(u) + 1] = e
  /\ \A i \in 1..Len(u) : z[i] = u[i]

LEMMA AppendGrows ==
  ASSUME NEW S, NEW u \in Seq(S), NEW e \in S
  PROVE  Append(u, e) \in Seq(S) /\ Grown(u, Append(u, e), e)
BY DEF Grown

LEMMA GrownItem ==
  ASSUME NEW u, NEW z, NEW e, Len(u) \in Nat, Grown(u, z, e), NEW i \in 1..Len(z)
  PROVE  (i \in 1..Len(u) /\ z[i] = u[i]) \/ (i = Len(u) + 1 /\ z[i] = e)
<1>1. i \in 1..Len(u) + 1
  BY DEF Grown
<1>2. i \in 1..Len(u) \/ i = Len(u) + 1
  BY <1>1
<1> QED BY <1>2 DEF Grown

LEMMA GrownOrder ==
  ASSUME NEW u, NEW z, NEW e, Len(u) \in Nat, Grown(u, z, e), Ordered(u),
         \A i \in 1..Len(u) : Later(u[i], e)
  PROVE  Ordered(z)
<1> SUFFICES ASSUME NEW i \in 1..Len(z), NEW j \in 1..Len(z), i < j PROVE Later(z[i], z[j])
  BY DEF Ordered
<1>1. j \in 1..Len(u) + 1 /\ i \in 1..Len(u)
  <2>1. Len(z) = Len(u) + 1
    BY DEF Grown
  <2> QED BY <2>1
<1>2. z[i] = u[i]
  BY <1>1 DEF Grown
<1>3. CASE j \in 1..Len(u)
  BY <1>1, <1>2, <1>3 DEF Grown, Ordered
<1>4. CASE j = Len(u) + 1
  BY <1>1, <1>2, <1>4 DEF Grown
<1> QED BY <1>1, <1>3, <1>4

LEMMA GrownHas ==
  ASSUME NEW u, NEW z, NEW e, Len(u) \in Nat, Grown(u, z, e), NEW r, NEW n
  PROVE  (Has(u, r, n) => Has(z, r, n)) /\ (e = <<r, n>> => Has(z, r, n))
<1>1. Len(z) = Len(u) + 1 /\ z[Len(u) + 1] = e /\ \A i \in 1..Len(u) : z[i] = u[i]
  BY DEF Grown
<1>2. Len(u) + 1 \in 1..Len(z) /\ \A i \in 1..Len(u) : i \in 1..Len(z)
  BY <1>1
<1> QED BY <1>1, <1>2 DEF Has

\* What is known stays so while runs only come and write.
LEMMA KnownStays ==
  ASSUME PageInv, NEW r, NEW x, Known(x, r), overlapped \subseteq overlapped',
         Len(run') \in Nat, Len(run) <= Len(run'),
         \A i \in 1..Len(run) : run'[i].writes \in Nat /\ run[i].writes <= run'[i].writes
  PROVE  KnownThen(x, r)
<1> DEFINE i == x[1]
<1>1. i \in 1..Len(run) /\ x[2] \in 1..run[i].writes /\ run[i].writes \in Nat
      /\ run[i].writes <= run'[i].writes /\ run'[i].writes \in Nat /\ Len(run) \in Nat
  <2>1. i \in 1..Len(run) /\ x[2] \in 1..run[i].writes
    BY DEF Known
  <2>2. run[i].writes \in Nat /\ Len(run) \in Nat
    BY <2>1, RunOf DEF PageInv, RunsInv
  <2> QED BY <2>1, <2>2
<1>2. i \in 1..Len(run') /\ x[2] \in 1..run'[i].writes
  BY <1>1
<1>3. x \in Nat \X Nat /\ (i = r \/ {i, r} \subseteq overlapped')
  BY DEF Known
<1> QED BY <1>2, <1>3 DEF KnownThen

\* A step of the thread of run r, which is alive: what it may do to the queues.
LEMMA ThreadMoves ==
  ASSUME PageInv, UNCHANGED <<page, overlapped>>, NEW r \in 1..Len(run), run[r].pc # "ended",
         run' \in Seq(RunSet), Len(run') = Len(run),
         active' \subseteq 1..Len(run), patched' \subseteq 1..Len(run),
         \A i \in 1..Len(run) : RunFits(i, run[i])',
         \A i \in 1..Len(run) : i # r => run'[i].pc = run[i].pc /\ run'[i].writes = run[i].writes,
         run'[r].writes \in {run[r].writes, run[r].writes + 1},
         \A i \in 1..Len(run) : run[i].pc = "ended" => run'[i].queue = run[i].queue,
         run'[r].pc = "ended" => Grown(run[r].queue, run'[r].queue, Page!End),
         \A i \in 1..Len(run) :
            \/ run'[i].queue = run[i].queue
            \/ \E e : /\ Grown(run[i].queue, run'[i].queue, e)
                      /\ \/ e = Page!End
                         \/ /\ run'[r].writes = run[r].writes + 1 /\ e = <<r, run'[r].writes>>
                            /\ r = i \/ {r, i} \subseteq overlapped,
         \A i \in patched' \ patched : run'[i].writes = 0,
         r \in patched /\ run'[r].writes # run[r].writes
           => Has(run'[r].queue, r, run'[r].writes)
  PROVE  PageInv'
<1>1. RunsInv'
  <2>1. ASSUME NEW q \in 1..Len(run), NEW i \in 1..Len(run), q # i PROVE Apart(q, i)'
    <3>1. Apart(q, i)
      BY <2>1 DEF PageInv, RunsInv
    <3>2. (run'[q].pc # "ended" => run[q].pc # "ended") /\ (run'[i].pc # "ended" => run[i].pc # "ended")
      OBVIOUS
    <3> QED BY <3>1, <3>2 DEF Apart
  <2>2. overlapped' \subseteq 1..Len(run)
    BY DEF PageInv, RunsInv
  <2> QED BY <2>1, <2>2 DEF RunsInv
<1>2. PagesInv'
  BY DEF PageInv, PagesInv
<1> DEFINE w == run[r].writes
           m == run'[r].writes
<1>3. /\ w \in Nat /\ m \in Nat /\ w <= m /\ (m = w \/ m = w + 1)
      /\ Len(run) \in Nat /\ r \in Nat
  <2>1. w \in Nat /\ r \in Nat
    BY RunOf
  <2> QED BY <2>1 DEF PageInv, RunsInv
<1>4. ASSUME NEW i \in 1..Len(run)
      PROVE  run[i].writes \in Nat /\ run'[i].writes \in Nat /\ run[i].writes <= run'[i].writes
             /\ Len(run[i].queue) \in Nat
  BY <1>3, RunOf
<1>5. ASSUME NEW x, NEW i, Known(x, i) PROVE KnownThen(x, i)
  BY <1>3, <1>4, <1>5, KnownStays
<1>6. ASSUME NEW i \in 1..Len(run), NEW x, Known(x, i), x # Page!End, m = w + 1
      PROVE  Later(x, <<r, m>>)
  <2>1. ASSUME x[1] = r PROVE x[2] < m
    <3>1. x[2] \in 1..w
      BY <1>6, <2>1 DEF Known
    <3> QED BY <1>3, <1>6, <3>1
  <2> QED BY <2>1 DEF Later
<1>7. ASSUME m = w + 1, NEW i \in 1..Len(run), r = i \/ {r, i} \subseteq overlapped
      PROVE  KnownThen(<<r, m>>, i)
  <2>1. <<r, m>> \in Nat \X Nat /\ m \in 1..m /\ r \in 1..Len(run')
    BY <1>3, <1>7
  <2> QED BY <1>7, <2>1 DEF KnownThen
<1>8. ASSUME NEW i \in 1..Len(run) PROVE QueueFits(run[i].queue, i)'
  <2>1. QueueFits(run[i].queue, i) /\ Len(run[i].queue) \in Nat
    BY <1>4 DEF PageInv, ShownInv
  <2>2. CASE run'[i].queue = run[i].queue
    <3> DEFINE q == run[i].queue
    <3>1. \A k \in 1..Len(q) : q[k] # Page!End => KnownThen(q[k], i)
      BY <1>5, <2>1 DEF QueueFits
    <3>2. Ordered(q)
      BY <2>1 DEF QueueFits
    <3> QED BY <2>2, <3>1, <3>2 DEF QueueFits, Ordered, Known, KnownThen, Later
  <2>3. ASSUME NEW e, Grown(run[i].queue, run'[i].queue, e),
               e = Page!End \/ (m = w + 1 /\ e = <<r, m>> /\ (r = i \/ {r, i} \subseteq overlapped))
        PROVE  QueueFits(run[i].queue, i)'
    <3> DEFINE q == run[i].queue
               z == run'[i].queue
    <3>1. \A k \in 1..Len(q) : Later(q[k], e)
      <4> SUFFICES ASSUME NEW k \in 1..Len(q), q[k] # Page!End, e # Page!End
                   PROVE  Later(q[k], e)
        BY DEF Later
      <4>1. Known(q[k], i)
        BY <2>1 DEF QueueFits
      <4> QED BY <1>6, <2>3, <4>1
    <3>2. Ordered(z)
      <4>1. Ordered(q)
        BY <2>1 DEF QueueFits
      <4> QED BY <2>1, <2>3, <3>1, <4>1, GrownOrder
    <3>3. ASSUME NEW k \in 1..Len(z), z[k] # Page!End PROVE KnownThen(z[k], i)
      <4>1. CASE k \in 1..Len(q) /\ z[k] = q[k]
        <5>1. Known(q[k], i)
          BY <2>1, <3>3, <4>1 DEF QueueFits
        <5> HIDE DEF q, z
        <5>2. Known(z[k], i)
          BY <4>1, <5>1
        <5> QED BY <1>5, <5>2
      <4>2. CASE z[k] = e
        <5>1. KnownThen(<<r, m>>, i) /\ e = <<r, m>>
          BY <1>7, <2>3, <3>3, <4>2
        <5> HIDE DEF z
        <5>2. z[k] = <<r, m>>
          BY <4>2, <5>1
        <5> QED BY <5>1, <5>2
      <4>3. (k \in 1..Len(q) /\ z[k] = q[k]) \/ (k = Len(q) + 1 /\ z[k] = e)
        <5>1. Grown(q, z, e) /\ Len(q) \in Nat
          BY <2>1, <2>3
        <5> HIDE DEF q, z
        <5> QED BY <5>1, GrownItem
      <4> QED BY <4>1, <4>2, <4>3
    <3> QED BY <3>2, <3>3 DEF QueueFits, Ordered, Known, KnownThen, Later
  <2> QED BY <2>2, <2>3
<1>9. ASSUME NEW s \in Sessions, NEW i \in 1..Len(run), page[s].event_queue = i
      PROVE  (Announced(page[s], run[i]) /\ PageFits(page[s].spans, run[i].queue, i))'
  <2> DEFINE u == page[s].spans
             q == run[i].queue
             z == run'[i].queue
  <2>1. Announced(page[s], run[i]) /\ PageFits(u, q, i)
    BY <1>9 DEF PageInv, ShownInv
  <2>2. Len(q) \in Nat
    BY <1>4
  <2>3. Announced(page[s], run'[i])
    <3>1. CASE run[i].pc = "ended"
      <4>1. run'[i].queue = run[i].queue /\ run'[i].pc = "ended"
        BY <3>1
      <4>2. Announced(page[s], run[i])
        BY <2>1
      <4> HIDE DEF u, q, z
      <4> QED BY <3>1, <4>1, <4>2, Zenon DEF Announced
    <3>2. CASE run[i].pc # "ended" /\ i # r
      BY <2>1, <3>2 DEF Announced
    <3>3. CASE i = r
      <4>1. page[s].running
        BY <2>1, <3>3 DEF Announced
      <4>2. run'[r].pc = "ended" => \E k \in 1..Len(run'[r].queue) : run'[r].queue[k] = Page!End
        <5> SUFFICES ASSUME run'[r].pc = "ended"
                     PROVE  \E k \in 1..Len(run'[r].queue) : run'[r].queue[k] = Page!End
          OBVIOUS
        <5>1. Len(run'[r].queue) = Len(q) + 1 /\ run'[r].queue[Len(q) + 1] = Page!End
          BY <3>3 DEF Grown
        <5> QED BY <2>2, <5>1
      <4> QED BY <3>3, <4>1, <4>2 DEF Announced
    <3> QED BY <3>1, <3>2, <3>3
  <2>4. \A k \in 1..Len(u) : u[k] # Page!End /\ KnownThen(u[k], i)
    BY <1>5, <2>1 DEF PageFits
  <2>5. \A n : Has(q, i, n) => Has(z, i, n)
    <3>1. CASE z = q
      BY <3>1
    <3>2. ASSUME NEW e, Grown(q, z, e) PROVE \A n : Has(q, i, n) => Has(z, i, n)
      <4> HIDE DEF q, z
      <4> QED BY <2>2, <3>2, GrownHas
    <3> QED BY <3>1, <3>2
  <2>6. ASSUME NEW k \in 1..Len(u), NEW j \in 1..Len(z) PROVE Later(u[k], z[j])
    <3>1. u[k] # Page!End /\ Known(u[k], i) /\ \A l \in 1..Len(q) : Later(u[k], q[l])
      BY <2>1 DEF PageFits
    <3>2. CASE z = q
      BY <3>1, <3>2
    <3>3. ASSUME NEW e, Grown(q, z, e), e = Page!End \/ (m = w + 1 /\ e = <<r, m>>)
          PROVE  Later(u[k], z[j])
      <4>1. Later(u[k], e)
        <5>1. CASE e = Page!End
          BY <5>1 DEF Later
        <5>2. CASE m = w + 1 /\ e = <<r, m>>
          <6> HIDE DEF u
          <6> QED BY <1>6, <3>1, <5>2
        <5> QED BY <3>3, <5>1, <5>2
      <4> HIDE DEF q, z
      <4>2. (j \in 1..Len(q) /\ z[j] = q[j]) \/ (j = Len(q) + 1 /\ z[j] = e)
        BY <2>2, <3>3, GrownItem
      <4> QED BY <3>1, <4>1, <4>2
    <3> QED BY <3>2, <3>3
  <2>7. ASSUME i \in patched', NEW n \in 1..run'[i].writes PROVE Has(u, i, n) \/ Has(z, i, n)
    <3>1. i \in patched
      BY <1>4, <2>7
    <3>2. CASE n \in 1..run[i].writes
      BY <2>1, <2>5, <3>1, <3>2 DEF PageFits
    <3>3. CASE n \notin 1..run[i].writes
      <4>1. i = r
        BY <2>7, <3>3
      <4>2. m = w + 1 /\ n = m
        BY <1>3, <2>7, <3>3, <4>1
      <4>3. Has(z, r, m)
        BY <1>3, <3>1, <4>1, <4>2
      <4> QED BY <4>1, <4>2, <4>3
    <3> QED BY <3>2, <3>3
  <2>8. Ordered(u)
    BY <2>1 DEF PageFits
  <2> HIDE DEF u, q
  <2>9. PageFits(page[s].spans, run[i].queue, i)'
    BY <2>4, <2>6, <2>7, <2>8 DEF u, PageFits, Ordered, Later, Known, KnownThen, Has
  <2> QED BY <2>3, <2>9 DEF Announced
<1> QED BY <1>1, <1>2, <1>8, <1>9 DEF PageInv, ShownInv

\* A step that changes the place and the result of run r alone.
LEMMA PlaceMoves ==
  ASSUME PageInv, UNCHANGED <<page, overlapped>>, NEW r \in 1..Len(run), run[r].pc # "ended",
         NEW x \in RunSet, run' = [run EXCEPT ![r] = x],
         x.queue = run[r].queue, x.writes = run[r].writes, x.pc # "ended",
         active' \subseteq 1..Len(run), patched' \subseteq 1..Len(run),
         \A i \in 1..Len(run) : i # r => (i \in active' <=> i \in active),
         r \in active' <=> x.pc \in Serving,
         x.pc \in Leaving => x.result # "none",
         x.pc \in Early => run[r].pc \in Early,
         \A i \in patched' \ patched : run[i].writes = 0
  PROVE  PageInv'
<1>1. run \in Seq(RunSet) /\ DOMAIN run = 1..Len(run) /\ RunFits(r, run[r])
  BY RunOf
<1>2. /\ run' \in Seq(RunSet) /\ Len(run') = Len(run) /\ run'[r] = x
      /\ \A i \in 1..Len(run) : i # r => run'[i] = run[i]
  BY <1>1
<1>3. ASSUME NEW i \in 1..Len(run)
      PROVE  run'[i].queue = run[i].queue /\ run'[i].writes = run[i].writes
  BY <1>2
<1>4. ASSUME NEW i \in 1..Len(run) PROVE RunFits(i, run[i])'
  <2>1. CASE i = r
    BY <1>1, <1>2, <2>1 DEF RunFits
  <2>2. CASE i # r
    <3>1. run'[i] = run[i] /\ RunFits(i, run[i])
      BY <1>2, <2>2, RunOf
    <3> QED BY <2>2, <3>1 DEF RunFits
  <2> QED BY <2>1, <2>2
<1>5. \A i \in patched' \ patched : run'[i].writes = 0
  BY <1>3
<1>6. /\ run'[r].pc # "ended" /\ run'[r].writes = run[r].writes
      /\ \A i \in 1..Len(run) : i # r => run'[i].pc = run[i].pc /\ run'[i].writes = run[i].writes
  BY <1>2
<1> QED BY <1>2, <1>3, <1>4, <1>5, <1>6, ThreadMoves

LEMMA PlainMoves ==
  ASSUME PageInv, NEW r \in 1..Len(run),
         Page!TakeQueue(r) \/ Page!CheckPatch(r) \/ Page!ClearActive(r) \/ Page!Patch(r)
           \/ \E result_ \in {"done", "error"} : Page!Finish(r, result_)
  PROVE  PageInv'
<1>1. /\ run \in Seq(RunSet) /\ run[r] \in RunSet /\ RunFits(r, run[r]) /\ r \in Nat
      /\ active \subseteq 1..Len(run) /\ UNCHANGED <<page, overlapped>>
      /\ patched \subseteq 1..Len(run)
  BY RunOf DEF PageInv, RunsInv, Page!TakeQueue, Page!CheckPatch, Page!ClearActive,
               Page!Finish, Page!Patch
<1>3. CASE Page!TakeQueue(r)
  <2> DEFINE x == [run[r] EXCEPT !.pc = "configuring"]
  <2>1. /\ run' = [run EXCEPT ![r] = x] /\ run[r].pc = "started" /\ active' = active \cup {r}
        /\ patched' = patched
    BY <1>3 DEF Page!TakeQueue, Page!Move
  <2>2. /\ x \in RunSet /\ x.queue = run[r].queue /\ x.writes = run[r].writes
        /\ x.pc = "configuring"
    BY <1>1 DEF RunSet, Places
  <2> QED BY <1>1, <2>1, <2>2, PlaceMoves DEF Serving, Leaving, Early
<1>4. CASE Page!CheckPatch(r)
  <2> DEFINE x == [run[r] EXCEPT !.pc = IF patched = {} THEN "patching" ELSE "running"]
  <2>1. /\ run' = [run EXCEPT ![r] = x] /\ run[r].pc = "configuring" /\ active' = active
        /\ patched' = patched
    BY <1>4 DEF Page!CheckPatch, Page!Move
  <2>2. /\ x \in RunSet /\ x.queue = run[r].queue /\ x.writes = run[r].writes
        /\ x.pc = IF patched = {} THEN "patching" ELSE "running"
    BY <1>1 DEF RunSet, Places
  <2>3. r \in active
    BY <1>1, <2>1 DEF RunFits, Serving
  <2>4. x.pc \in Serving /\ x.pc \notin Leaving /\ run[r].pc \in Early
    BY <2>1, <2>2 DEF Serving, Leaving, Early
  <2>5. x.pc # "ended" /\ run[r].pc # "ended"
    BY <2>1, <2>2
  <2> HIDE DEF x
  <2> QED BY <1>1, <2>1, <2>2, <2>3, <2>4, <2>5, PlaceMoves
<1>5. CASE Page!ClearActive(r)
  <2> DEFINE x == [run[r] EXCEPT !.pc = "cleared"]
  <2>1. /\ run' = [run EXCEPT ![r] = x] /\ run[r].pc = "finishing" /\ active' = active \ {r}
        /\ patched' = patched
    BY <1>5 DEF Page!ClearActive, Page!Move
  <2>2. /\ x \in RunSet /\ x.queue = run[r].queue /\ x.writes = run[r].writes
        /\ x.pc = "cleared" /\ x.result = run[r].result
    BY <1>1 DEF RunSet, Places
  <2>3. run[r].result # "none"
    BY <1>1, <2>1 DEF RunFits, Leaving
  <2> QED BY <1>1, <2>1, <2>2, <2>3, PlaceMoves DEF Serving, Leaving, Early
<1>6. ASSUME NEW result_ \in {"done", "error"}, Page!Finish(r, result_) PROVE PageInv'
  <2> DEFINE x == [run[r] EXCEPT !.pc = "finishing", !.result = result_]
  <2>1. /\ run' = [run EXCEPT ![r] = x] /\ run[r].pc \in {"configuring", "running"}
        /\ active' = active /\ patched' = patched
    BY <1>1, <1>6 DEF Page!Finish, RunSet
  <2>2. /\ x \in RunSet /\ x.queue = run[r].queue /\ x.writes = run[r].writes
        /\ x.pc = "finishing" /\ x.result = result_
    BY <1>1 DEF RunSet, Places
  <2>3. r \in active
    BY <1>1, <2>1 DEF RunFits, Serving
  <2> QED BY <1>1, <2>1, <2>2, <2>3, PlaceMoves DEF Serving, Leaving, Early
<1>7. CASE Page!Patch(r)
  <2> DEFINE x == [run[r] EXCEPT !.pc = "running"]
  <2>1. /\ run' = [run EXCEPT ![r] = x] /\ run[r].pc = "patching" /\ active' = active
        /\ patched' \subseteq patched \cup {r}
    BY <1>7 DEF Page!Patch, Page!Move
  <2>2. /\ x \in RunSet /\ x.queue = run[r].queue /\ x.writes = run[r].writes
        /\ x.pc = "running"
    BY <1>1 DEF RunSet, Places
  <2>3. r \in active /\ run[r].writes = 0
    BY <1>1, <2>1 DEF RunFits, Serving, Early
  <2> QED BY <1>1, <2>1, <2>2, <2>3, PlaceMoves DEF Serving, Leaving, Early
<1> QED BY <1>3, <1>4, <1>5, <1>6, <1>7

\* The end goes behind the last span.
LEMMA PutNoneMoves ==
  ASSUME PageInv, NEW r \in 1..Len(run), Page!PutNone(r)
  PROVE  PageInv'
<1> DEFINE q == run[r].queue
           longer == Append(q, Page!End)
           x == [run[r] EXCEPT !.pc = "ended", !.queue = longer]
<1>1. /\ run \in Seq(RunSet) /\ run[r] \in RunSet /\ RunFits(r, run[r]) /\ r \in Nat
      /\ active \subseteq 1..Len(run) /\ patched \subseteq 1..Len(run) /\ DOMAIN run = 1..Len(run)
      /\ q \in Seq(Items) /\ Len(q) \in Nat
  BY RunOf DEF PageInv, RunsInv
<1>2. /\ run' = [run EXCEPT ![r] = x] /\ run[r].pc = "cleared"
      /\ UNCHANGED <<page, active, overlapped, patched>>
  BY <1>1 DEF Page!PutNone, RunSet
<1>3. longer \in Seq(Items) /\ Grown(q, longer, Page!End)
  <2>1. Page!End \in Items
    BY DEF Items
  <2> HIDE DEF q
  <2> QED BY <1>1, <2>1, AppendGrows
<1> HIDE DEF longer, q
<1>4. /\ x \in RunSet /\ x.queue = longer /\ x.writes = run[r].writes
      /\ x.pc = "ended" /\ x.result = run[r].result
  BY <1>1, <1>3 DEF RunSet, Places
<1>5. run[r].result # "none" /\ r \notin active
  <2>1. run[r].pc \in Leaving /\ run[r].pc \notin Serving
    BY <1>2 DEF Leaving, Serving
  <2> QED BY <1>1, <2>1 DEF RunFits
<1> HIDE DEF x
<1>6. /\ run' \in Seq(RunSet) /\ Len(run') = Len(run) /\ run'[r] = x
      /\ \A i \in 1..Len(run) : i # r => run'[i] = run[i]
  BY <1>1, <1>2, <1>4
<1>7. \A i \in 1..Len(q) : q[i] # Page!End
  BY <1>1, <1>2 DEF RunFits, q
<1>8. ASSUME NEW i \in 1..Len(run) PROVE RunFits(i, run[i])'
  <2>1. CASE i = r
    <3>1. \A k \in 1..Len(longer) : longer[k] = Page!End => k = Len(longer)
      <4> SUFFICES ASSUME NEW k \in 1..Len(longer), longer[k] = Page!End PROVE k = Len(longer)
        OBVIOUS
      <4>1. (k \in 1..Len(q) /\ longer[k] = q[k]) \/ k = Len(q) + 1
        BY <1>1, <1>3, GrownItem
      <4> QED BY <1>3, <1>7, <4>1 DEF Grown
    <3> QED BY <1>2, <1>4, <1>5, <1>6, <2>1, <3>1 DEF RunFits, Leaving, Early, Serving
  <2>2. CASE i # r
    <3>1. run'[i] = run[i] /\ RunFits(i, run[i])
      BY <1>6, <2>2, RunOf
    <3> QED BY <1>2, <3>1 DEF RunFits
  <2> QED BY <2>1, <2>2
<1>9. Grown(run[r].queue, run'[r].queue, Page!End)
  BY <1>3, <1>4, <1>6 DEF q
<1>10. \A i \in 1..Len(run) : i # r => run'[i].pc = run[i].pc /\ run'[i].writes = run[i].writes
                                        /\ run'[i].queue = run[i].queue
  BY <1>6
<1>11. run'[r].writes = run[r].writes /\ run[r].pc # "ended"
  BY <1>2, <1>4, <1>6
<1> QED BY <1>1, <1>2, <1>6, <1>8, <1>9, <1>10, <1>11, ThreadMoves

LEMMA SpanMoves ==
  ASSUME PageInv, NEW r \in 1..Len(run), Page!Span(r)
  PROVE  PageInv'
<1> DEFINE n == run[r].writes + 1
           hears(i) == i \in patched \cap active
<1>1. /\ run \in Seq(RunSet) /\ run[r] \in RunSet /\ RunFits(r, run[r]) /\ r \in Nat
      /\ active \subseteq 1..Len(run) /\ patched \subseteq 1..Len(run)
      /\ DOMAIN run = 1..Len(run)
  BY RunOf DEF PageInv, RunsInv
<1>2. /\ run[r].pc = "running" /\ UNCHANGED <<page, active, overlapped, patched>>
      /\ run' = [i \in 1..Len(run) |->
                   [run[i] EXCEPT !.writes = IF i = r THEN n ELSE @,
                                  !.queue = IF hears(i) THEN Append(@, <<r, n>>) ELSE @]]
  BY <1>1 DEF Page!Span
<1>3. r \in active /\ run[r].writes \in Nat /\ n \in Nat /\ <<r, n>> \in Items
      /\ <<r, n>> # Page!End
  <2>1. r \in active
    <3>1. run[r].pc \in Serving
      BY <1>2 DEF Serving
    <3> QED BY <1>1, <3>1 DEF RunFits
  <2>2. run[r].writes \in Nat
    BY <1>1 DEF RunSet
  <2>3. n \in Nat
    BY <2>2
  <2> HIDE DEF n
  <2>4. <<r, n>> \in Items /\ <<r, n>> # Page!End
    BY <1>1, <2>3, EndIsNoSpan DEF Items
  <2> QED BY <2>1, <2>2, <2>3, <2>4
<1> HIDE DEF n
<1>4. ASSUME NEW i \in 1..Len(run)
      PROVE  /\ run'[i] \in RunSet
             /\ run'[i].pc = run[i].pc /\ run'[i].result = run[i].result
             /\ run'[i].writes = (IF i = r THEN n ELSE run[i].writes)
             /\ ~hears(i) => run'[i].queue = run[i].queue
             /\ hears(i) => Grown(run[i].queue, run'[i].queue, <<r, n>>)
  <2> DEFINE q == run[i].queue
             longer == IF hears(i) THEN Append(q, <<r, n>>) ELSE q
             more == IF i = r THEN n ELSE run[i].writes
  <2>1. run[i] \in RunSet /\ q \in Seq(Items) /\ run[i].writes \in Nat
    BY RunOf
  <2>2. /\ longer \in Seq(Items)
        /\ ~hears(i) => longer = q
        /\ hears(i) => Grown(q, longer, <<r, n>>)
    <3> HIDE DEF q, hears
    <3>1. Append(q, <<r, n>>) \in Seq(Items) /\ Grown(q, Append(q, <<r, n>>), <<r, n>>)
      BY <1>3, <2>1, AppendGrows
    <3> QED BY <2>1, <3>1
  <2>3. more \in Nat
    BY <1>3, <2>1
  <2>4. run'[i] = [run[i] EXCEPT !.writes = more, !.queue = longer]
    BY <1>2
  <2> HIDE DEF longer, more, hears
  <2>5. /\ run'[i] \in RunSet /\ run'[i].pc = run[i].pc /\ run'[i].result = run[i].result
        /\ run'[i].writes = more /\ run'[i].queue = longer
    BY <2>1, <2>2, <2>3, <2>4 DEF RunSet
  <2> QED BY <2>2, <2>5 DEF more
<1>5. run' \in Seq(RunSet) /\ Len(run') = Len(run)
  <2>1. DOMAIN run' = 1..Len(run) /\ Len(run) \in Nat
    <3>1. Len(run) \in Nat
      BY <1>1
    <3> HIDE DEF hears
    <3>2. DOMAIN run' = 1..Len(run)
      BY <1>2, Zenon
    <3> QED BY <3>1, <3>2
  <2>2. run' = [i \in 1..Len(run) |-> run'[i]]
    BY <1>2
  <2> QED BY <1>4, <2>1, <2>2
<1> HIDE DEF hears
<1>6. ASSUME NEW i \in 1..Len(run), hears(i)
      PROVE  run[i].pc # "ended" /\ (r = i \/ {r, i} \subseteq overlapped)
  <2>1. RunFits(i, run[i]) /\ i \in active
    BY <1>6, RunOf DEF hears
  <2>2. run[i].pc # "ended"
    BY <2>1 DEF RunFits, Serving
  <2>3. ASSUME i # r PROVE {r, i} \subseteq overlapped
    <3>1. Apart(r, i) /\ Apart(i, r)
      BY <2>3 DEF PageInv, RunsInv
    <3> QED BY <1>2, <2>2, <3>1 DEF Apart
  <2> QED BY <2>2, <2>3
<1>7. ASSUME NEW i \in 1..Len(run) PROVE RunFits(i, run[i])'
  <2>1. RunFits(i, run[i]) /\ Len(run[i].queue) \in Nat
    BY RunOf
  <2>2. run[r].pc \notin Early /\ run'[i].writes = IF i = r THEN n ELSE run[i].writes
    BY <1>2, <1>4 DEF Early
  <2>3. ASSUME NEW k \in 1..Len(run'[i].queue), run'[i].queue[k] = Page!End
        PROVE  run'[i].pc = "ended" /\ k = Len(run'[i].queue)
    <3>1. CASE ~hears(i)
      BY <1>4, <2>1, <2>3, <3>1 DEF RunFits
    <3>2. CASE hears(i)
      <4>1. k \in 1..Len(run[i].queue) /\ run[i].queue[k] = Page!End
        <5> DEFINE q == run[i].queue
                   z == run'[i].queue
                   e == <<r, n>>
        <5>1. Grown(q, z, e) /\ Len(q) \in Nat /\ k \in 1..Len(z) /\ z[k] = Page!End /\ e # Page!End
          BY <1>3, <1>4, <2>1, <2>3, <3>2
        <5> HIDE DEF q, z, e
        <5>2. k \in 1..Len(q) /\ q[k] = Page!End
          BY <5>1, GrownItem
        <5> QED BY <5>2 DEF q
      <4> QED BY <1>6, <2>1, <3>2, <4>1 DEF RunFits
    <3> QED BY <3>1, <3>2
  <2> QED BY <1>2, <1>4, <2>1, <2>2, <2>3 DEF RunFits
<1>8. /\ run[r].pc # "ended" /\ run'[r].pc # "ended" /\ run'[r].writes = n
      /\ n = run[r].writes + 1
  BY <1>2, <1>4 DEF n
<1>9. r \in patched => Has(run'[r].queue, r, n)
  <2> SUFFICES ASSUME r \in patched PROVE Has(run'[r].queue, r, n)
    OBVIOUS
  <2> DEFINE q == run[r].queue
             z == run'[r].queue
             e == <<r, n>>
  <2>1. hears(r) /\ Len(q) \in Nat
    BY <1>3, RunOf DEF hears
  <2>2. Grown(q, z, e)
    BY <1>4, <2>1
  <2> HIDE DEF q, z
  <2>3. Has(z, r, n)
    BY <2>1, <2>2, GrownHas
  <2> QED BY <2>3 DEF z
<1>10. ASSUME NEW i \in 1..Len(run)
       PROVE  \/ run'[i].queue = run[i].queue
              \/ \E e : /\ Grown(run[i].queue, run'[i].queue, e)
                        /\ \/ e = Page!End
                           \/ /\ run'[r].writes = run[r].writes + 1 /\ e = <<r, run'[r].writes>>
                              /\ r = i \/ {r, i} \subseteq overlapped
  <2>1. CASE ~hears(i)
    BY <1>4, <2>1
  <2>2. CASE hears(i)
    <3>1. Grown(run[i].queue, run'[i].queue, <<r, n>>) /\ (r = i \/ {r, i} \subseteq overlapped)
      BY <1>4, <1>6, <2>2
    <3> QED BY <1>8, <3>1
  <2> QED BY <2>1, <2>2
<1>11. \A i \in 1..Len(run) : /\ run[i].pc = "ended" => run'[i].queue = run[i].queue
                              /\ i # r => run'[i].pc = run[i].pc /\ run'[i].writes = run[i].writes
  BY <1>4, <1>6
<1>12. r \in patched => Has(run'[r].queue, r, run'[r].writes)
  BY <1>8, <1>9
<1>13. run'[r].writes \in {run[r].writes, run[r].writes + 1}
  BY <1>8
<1>14. UNCHANGED <<page, overlapped>> /\ active' \subseteq 1..Len(run)
       /\ patched' \subseteq 1..Len(run) /\ \A i \in patched' \ patched : run'[i].writes = 0
  BY <1>1, <1>2
<1> HIDE DEF n
<1>15. run'[r].pc = "ended" => Grown(run[r].queue, run'[r].queue, Page!End)
  BY <1>8
<1> QED BY <1>5, <1>7, <1>8, <1>10, <1>11, <1>12, <1>13, <1>14, <1>15, ThreadMoves

LEMMA ClickMoves ==
  ASSUME PageInv, NEW s \in Sessions, Page!RunClicked(s)
  PROVE  PageInv'
<1> DEFINE new == Len(run) + 1
<1>1. /\ run \in Seq(RunSet) /\ Len(run) \in Nat /\ DOMAIN run = 1..Len(run)
      /\ active \subseteq 1..Len(run) /\ patched \subseteq 1..Len(run)
      /\ overlapped \subseteq 1..Len(run)
      /\ page \in [Sessions -> PageSet]
  BY DEF PageInv, RunsInv, PagesInv
<1>2. /\ run' = Append(run, Page!NewRun) /\ UNCHANGED <<active, patched>>
      /\ page' = [page EXCEPT ![s] = [running |-> TRUE, event_queue |-> new, spans |-> <<>>]]
      /\ overlapped' = overlapped \cup (IF Page!Alive = {} THEN {} ELSE Page!Alive \cup {new})
  BY DEF Page!RunClicked
<1>3. /\ Page!NewRun \in RunSet /\ Page!NewRun.pc = "started" /\ Page!NewRun.writes = 0
      /\ Page!NewRun.queue = <<>>
  BY DEF Page!NewRun, RunSet, Places
<1>4. /\ run' \in Seq(RunSet) /\ Len(run') = new /\ run'[new] = Page!NewRun
      /\ \A i \in 1..Len(run) : run'[i] = run[i]
  <2> HIDE DEF new
  <2>1. \A e \in RunSet : LET l == Append(run, e)
                         IN  /\ l \in Seq(RunSet) /\ Len(l) = Len(run) + 1
                             /\ l[Len(run) + 1] = e
                             /\ \A i \in 1..Len(run) : l[i] = run[i]
    BY <1>1
  <2> QED BY <1>2, <1>3, <2>1, Zenon DEF new
<1>5. overlapped \subseteq overlapped' /\ overlapped' \subseteq 1..new
  <2>1. Page!Alive \subseteq 1..Len(run)
    BY <1>1 DEF Page!Alive
  <2>2. 1..Len(run) \subseteq 1..new /\ new \in 1..new
    BY <1>1
  <2> HIDE DEF new
  <2> QED BY <1>1, <1>2, <2>1, <2>2
<1>6. RunsInv'
  <2>1. ASSUME NEW r \in 1..new PROVE RunFits(r, run[r])'
    <3>1. CASE r = new
      BY <1>1, <1>2, <1>3, <1>4, <3>1 DEF RunFits, Leaving, Early, Serving
    <3>2. CASE r \in 1..Len(run)
      <4>1. RunFits(r, run[r]) /\ run'[r] = run[r]
        BY <1>4, <3>2 DEF PageInv, RunsInv
      <4> QED BY <1>2, <4>1 DEF RunFits
    <3> QED BY <1>1, <3>1, <3>2
  <2>2. ASSUME NEW q \in 1..new, NEW r \in 1..new, q # r PROVE Apart(q, r)'
    <3>1. CASE q \in 1..Len(run) /\ r \in 1..Len(run)
      <4>1. Apart(q, r) /\ run'[r] = run[r] /\ run'[q] = run[q]
        BY <1>4, <2>2, <3>1 DEF PageInv, RunsInv
      <4> QED BY <1>2, <1>5, <4>1 DEF Apart
    <3>2. CASE q = new
      <4>1. r \in 1..Len(run) /\ run'[r] = run[r]
        BY <1>1, <1>4, <2>2, <3>2
      <4>2. run[r].pc # "ended" => r \in Page!Alive
        BY <1>1, <4>1 DEF Page!Alive
      <4> QED BY <1>2, <4>1, <4>2 DEF Apart
    <3>3. CASE r = new
      <4>1. q \in 1..Len(run) /\ run'[q] = run[q]
        BY <1>1, <1>4, <2>2, <3>3
      <4>2. run[q].pc # "ended" => q \in Page!Alive
        BY <1>1, <4>1 DEF Page!Alive
      <4> QED BY <1>2, <3>3, <4>1, <4>2 DEF Apart
    <3> QED BY <1>1, <3>1, <3>2, <3>3
  <2>3. active' \subseteq 1..new /\ patched' \subseteq 1..new
    BY <1>1, <1>2
  <2> QED BY <1>4, <1>5, <2>1, <2>2, <2>3 DEF RunsInv
<1>7. PagesInv'
  <2>1. page' \in [Sessions -> PageSet]
    BY <1>1, <1>2 DEF PageSet
  <2>2. page'[s].event_queue = new /\ \A t \in Sessions : t # s => page'[t] = page[t]
    BY <1>1, <1>2
  <2>3. \A t \in Sessions : page[t].event_queue \in 0..Len(run)
    BY DEF PageInv, PagesInv
  <2>4. new # 0 /\ new \notin 0..Len(run) /\ new \in 0..new /\ 0..Len(run) \subseteq 0..new
    BY <1>1
  <2> HIDE DEF new
  <2>5. ASSUME NEW t \in Sessions
        PROVE  /\ page'[t].event_queue \in 0..new
               /\ page'[t].running => page'[t].event_queue # 0
               /\ \A u \in Sessions : page'[t].event_queue = page'[u].event_queue /\ t # u
                                        => page'[t].event_queue = 0
    BY <2>2, <2>3, <2>4 DEF PageInv, PagesInv
  <2> QED BY <1>4, <2>1, <2>5 DEF PagesInv
<1>8. ASSUME NEW x, NEW i, Known(x, i) PROVE KnownThen(x, i)
  <2>1. Len(run') \in Nat /\ Len(run) <= Len(run')
    BY <1>1, <1>4
  <2>2. \A j \in 1..Len(run) : run'[j].writes \in Nat /\ run[j].writes <= run'[j].writes
    BY <1>4, RunOf
  <2> QED BY <1>5, <1>8, <2>1, <2>2, KnownStays
<1>9. ASSUME NEW r \in 1..new PROVE QueueFits(run[r].queue, r)'
  <2>1. CASE r = new
    <3>1. run'[r].queue = <<>> /\ Len(<<>>) = 0
      BY <1>3, <1>4, <2>1
    <3> QED BY <3>1 DEF QueueFits, Ordered
  <2>2. CASE r \in 1..Len(run)
    <3> DEFINE q == run[r].queue
    <3>1. run'[r] = run[r] /\ QueueFits(q, r)
      BY <1>4, <2>2 DEF PageInv, ShownInv
    <3>2. Ordered(q) /\ \A k \in 1..Len(q) : q[k] # Page!End => KnownThen(q[k], r)
      BY <1>8, <3>1 DEF QueueFits
    <3> QED BY <3>1, <3>2 DEF QueueFits, Ordered, Known, KnownThen, Later
  <2> QED BY <1>1, <2>1, <2>2
<1>10. ASSUME NEW t \in Sessions, NEW r \in 1..new, page'[t].event_queue = r
       PROVE  (Announced(page[t], run[r]) /\ PageFits(page[t].spans, run[r].queue, r))'
  <2>1. CASE t = s
    <3>1. /\ page'[t] = [running |-> TRUE, event_queue |-> new, spans |-> <<>>]
          /\ r = new /\ run'[r] = Page!NewRun
      BY <1>1, <1>2, <1>4, <1>10, <2>1
    <3>2. /\ page'[t].running /\ page'[t].spans = <<>> /\ run'[r].writes = 0
          /\ run'[r].pc # "ended" /\ Len(<<>>) = 0
      BY <1>3, <3>1
    <3> QED BY <3>2 DEF Announced, PageFits, Ordered
  <2>2. CASE t # s
    <3>1. page'[t] = page[t] /\ r \in 1..Len(run)
      <4>1. page'[t] = page[t] /\ page[t].event_queue \in 0..Len(run)
        BY <1>1, <1>2, <2>2 DEF PageInv, PagesInv
      <4> QED BY <1>1, <1>10, <4>1
    <3> DEFINE u == page[t].spans
               q == run[r].queue
    <3>2. run'[r] = run[r] /\ Announced(page[t], run[r]) /\ PageFits(u, q, r)
      BY <1>4, <1>10, <3>1 DEF PageInv, ShownInv
    <3>3. /\ \A k \in 1..Len(u) : u[k] # Page!End /\ KnownThen(u[k], r)
          /\ Ordered(u) /\ \A i \in 1..Len(u), j \in 1..Len(q) : Later(u[i], q[j])
          /\ r \in patched => \A n \in 1..run[r].writes : Has(u, r, n) \/ Has(q, r, n)
      BY <1>8, <3>2 DEF PageFits
    <3>4. Announced(page[t], run[r])'
      BY <3>1, <3>2 DEF Announced
    <3>5. PageFits(page[t].spans, run[r].queue, r)'
      <4>1. /\ page'[t].spans = u /\ run'[r].queue = q /\ run'[r].writes = run[r].writes
            /\ patched' = patched
        BY <1>2, <3>1, <3>2
      <4> HIDE DEF u, q
      <4> QED BY <3>3, <4>1 DEF PageFits, Ordered, Known, KnownThen, Later, Has
    <3> QED BY <3>4, <3>5
  <2> QED BY <2>1, <2>2
<1> QED BY <1>4, <1>6, <1>7, <1>9, <1>10 DEF PageInv, ShownInv

LEMMA ClearMoves ==
  ASSUME PageInv, NEW s \in Sessions, Page!ClearClicked(s)
  PROVE  PageInv'
<1>1. /\ page' = [page EXCEPT ![s] = Page!NoPage] /\ UNCHANGED <<run, active, patched, overlapped>>
      /\ page \in [Sessions -> PageSet]
  BY DEF Page!ClearClicked, PageInv, PagesInv
<1>2. Page!NoPage \in PageSet /\ Page!NoPage.event_queue = 0 /\ Page!NoPage.running = FALSE
  BY DEF Page!NoPage, Page!NoRun, PageSet
<1>3. page' \in [Sessions -> PageSet] /\ page'[s] = Page!NoPage
      /\ \A t \in Sessions : t # s => page'[t] = page[t]
  BY <1>1, <1>2
<1>4. RunsInv'
  BY <1>1 DEF PageInv, RunsInv, RunFits, Apart
<1>5. PagesInv'
  <2>1. Len(run) \in Nat
    BY DEF PageInv, RunsInv
  <2> QED BY <1>1, <1>2, <1>3, <2>1 DEF PageInv, PagesInv
<1>6. \A r \in 1..Len(run) : QueueFits(run[r].queue, r)'
  BY <1>1 DEF PageInv, ShownInv, QueueFits, Ordered, Known, KnownThen, Later
<1>7. ASSUME NEW t \in Sessions, NEW r \in 1..Len(run), page'[t].event_queue = r
      PROVE  (Announced(page[t], run[r]) /\ PageFits(page[t].spans, run[r].queue, r))'
  <2>1. t # s
    BY <1>2, <1>3, <1>7
  <2>2. page'[t] = page[t]
    BY <1>3, <2>1
  <2>3. Announced(page[t], run[r]) /\ PageFits(page[t].spans, run[r].queue, r)
    BY <1>7, <2>2 DEF PageInv, ShownInv
  <2> DEFINE u == page[t].spans
             q == run[r].queue
  <2>4. /\ page'[t].spans = u /\ page'[t].running = page[t].running /\ run' = run
        /\ patched' = patched /\ overlapped' = overlapped
    BY <1>1, <2>2
  <2>5. Announced(page[t], run[r])'
    BY <2>3, <2>4 DEF Announced
  <2>6. PageFits(page[t].spans, run[r].queue, r)'
    <3>1. /\ \A k \in 1..Len(u) : u[k] # Page!End /\ KnownThen(u[k], r)
          /\ Ordered(u) /\ \A i \in 1..Len(u), j \in 1..Len(q) : Later(u[i], q[j])
          /\ r \in patched => \A n \in 1..run[r].writes : Has(u, r, n) \/ Has(q, r, n)
      BY <2>3, <2>4 DEF PageFits, Known, KnownThen
    <3>2. run'[r].queue = q /\ run'[r].writes = run[r].writes
      BY <2>4
    <3> HIDE DEF u, q
    <3> QED BY <2>4, <3>1, <3>2 DEF PageFits, Ordered, Known, KnownThen, Later, Has
  <2> QED BY <2>5, <2>6
<1> QED BY <1>1, <1>4, <1>5, <1>6, <1>7 DEF PageInv, ShownInv

\* What is taken from a queue, and what is left in it.
LEMMA TakenAndLeft ==
  ASSUME PageInv, NEW s \in Sessions, Page!Drain(s)
  PROVE  LET r == page[s].event_queue
             q == run[r].queue
         IN  \E k \in 0..Len(q) :
               /\ page' = [page EXCEPT ![s] = page'[s]]
               /\ page'[s] \in PageSet
               /\ page'[s].event_queue = r
               /\ Len(page'[s].spans) = Len(page[s].spans) + k
               /\ \A i \in 1..Len(page[s].spans) : page'[s].spans[i] = page[s].spans[i]
               /\ \A i \in 1..k : page'[s].spans[Len(page[s].spans) + i] = q[i]
               /\ \A i \in 1..k : q[i] # Page!End
               /\ run'[r] \in RunSet /\ run' = [run EXCEPT ![r] = run'[r]]
               /\ run'[r].pc = run[r].pc /\ run'[r].result = run[r].result
               /\ run'[r].writes = run[r].writes
               /\ page'[s].running => k = Len(q) /\ run'[r].queue = <<>>
               /\ ~page'[s].running => k < Len(q) /\ q[k + 1] = Page!End
               /\ ~page'[s].running /\ k + 1 = Len(q) => run'[r].queue = <<>>
<1> DEFINE r == page[s].event_queue
           q == run[r].queue
           ends == {i \in DOMAIN q : q[i] = Page!End}
           first == CHOOSE i \in ends : \A j \in ends : i <= j
           upto == IF ends = {} THEN Len(q) ELSE first - 1
           shown == page[s].spans
           taken == SubSeq(q, 1, upto)
           kept == IF ends = {} THEN <<>>
                   ELSE SubSeq(q, 2 + Len(shown \o taken) - Len(shown), Len(q))
<1>1. /\ page \in [Sessions -> PageSet] /\ run \in Seq(RunSet) /\ page[s] \in PageSet
      /\ page[s].running /\ Len(run) \in Nat /\ r \in 1..Len(run)
      /\ DOMAIN run = 1..Len(run)
  BY DEF PageInv, PagesInv, RunsInv, Page!Drain
<1>2. run[r] \in RunSet /\ q \in Seq(Items) /\ shown \in Seq(Items) /\ r \in Nat
  <2>1. run[r] \in RunSet /\ r \in Nat
    BY <1>1
  <2>2. q \in Seq(Items)
    BY <2>1 DEF RunSet
  <2>3. shown \in Seq(Items)
    BY <1>1 DEF PageSet
  <2> QED BY <2>1, <2>2, <2>3
<1>3. Len(q) \in Nat /\ DOMAIN q = 1..Len(q) /\ Len(shown) \in Nat
  BY <1>2
<1>4. /\ upto \in 0..Len(q)
      /\ \A i \in 1..upto : q[i] # Page!End
      /\ ends # {} => upto < Len(q) /\ q[upto + 1] = Page!End
  <2>1. CASE ends = {}
    BY <1>3, <2>1
  <2>2. CASE ends # {}
    <3>1. ends \subseteq Nat
      BY <1>3
    <3>2. \E i \in ends : \A j \in ends : i <= j
      <4> HIDE DEF ends
      <4> QED BY <2>2, <3>1, Least
    <3>3. first \in ends /\ \A j \in ends : first <= j
      <4> HIDE DEF ends
      <4> QED BY <3>2
    <3>4. first \in 1..Len(q) /\ q[first] = Page!End
      BY <1>3, <3>3
    <3>5. \A i \in 1..Len(q) : i < first => q[i] # Page!End
      <4> SUFFICES ASSUME NEW i \in 1..Len(q), i < first, q[i] = Page!End PROVE FALSE
        OBVIOUS
      <4>1. i \in ends
        BY <1>3
      <4> HIDE DEF ends, first
      <4> QED BY <1>3, <3>3, <3>4, <4>1
    <3>6. upto = first - 1
      BY <2>2
    <3> HIDE DEF first, upto, q, ends
    <3> QED BY <1>3, <3>4, <3>5, <3>6
  <2> QED BY <2>1, <2>2
<1> HIDE DEF first, upto
<1>5. /\ taken \in Seq(Items) /\ Len(taken) = upto
      /\ \A i \in 1..upto : taken[i] = q[i]
  <2>1. \A i \in 1..upto : q[i] \in Items
    BY <1>2, <1>3, <1>4
  <2>2. /\ SubSeq(q, 1, upto) \in Seq(Items)
        /\ Len(SubSeq(q, 1, upto)) = IF 1 <= upto THEN upto - 1 + 1 ELSE 0
        /\ \A i \in 1..upto - 1 + 1 : SubSeq(q, 1, upto)[i] = q[1 + i - 1]
    <3>1. 1 \in Int /\ upto \in Int
      BY <1>3, <1>4
    <3> HIDE DEF q
    <3> QED BY <2>1, <3>1, SubSeqProperties
  <2> HIDE DEF q
  <2> QED BY <1>3, <1>4, <2>2
<1> HIDE DEF taken
<1>6. /\ shown \o taken \in Seq(Items) /\ Len(shown \o taken) = Len(shown) + upto
      /\ \A i \in 1..Len(shown) : (shown \o taken)[i] = shown[i]
      /\ \A i \in 1..upto : (shown \o taken)[Len(shown) + i] = q[i]
  <2> HIDE DEF shown, q
  <2>1. /\ shown \o taken \in Seq(Items) /\ Len(shown \o taken) = Len(shown) + Len(taken)
        /\ \A i \in 1..Len(shown) : (shown \o taken)[i] = shown[i]
        /\ \A i \in 1..Len(taken) : (shown \o taken)[Len(shown) + i] = taken[i]
    <3>1. shown \in Seq(Items) /\ taken \in Seq(Items)
      BY <1>2, <1>5
    <3> QED BY <3>1, Joined
  <2>2. Len(taken) = upto /\ \A i \in 1..upto : taken[i] = q[i]
    BY <1>5
  <2> DEFINE both == shown \o taken
             a == Len(shown)
  <2>3. \A i \in 1..Len(taken) : both[a + i] = taken[i]
    BY <2>1, Zenon
  <2> HIDE DEF both, a
  <2>4. \A i \in 1..upto : both[a + i] = q[i]
    BY <2>2, <2>3
  <2> QED BY <2>1, <2>2, <2>4, Zenon DEF both, a
<1>7. kept \in Seq(Items)
  <2>1. CASE ends = {}
    BY <2>1
  <2>2. CASE ends # {}
    <3> DEFINE m == 2 + Len(shown \o taken) - Len(shown)
    <3>1. m = 2 + upto /\ m \in 1..Len(q) + 1
      <4> DEFINE a == Len(shown)
                 b == Len(q)
      <4>1. a \in Nat /\ b \in Nat /\ m = 2 + (a + upto) - a
        BY <1>2, <1>3, <1>6, LenProperties
      <4>2. upto \in Nat /\ 2 + upto \in 1..b + 1
        BY <1>3, <1>4, <2>2
      <4> HIDE DEF a, b, m
      <4> QED BY <4>1, <4>2 DEF b
    <3> HIDE DEF m
    <3>2. \A i \in m..Len(q) : q[i] \in Items
      BY <1>2, <1>3, <3>1
    <3>3. SubSeq(q, m, Len(q)) \in Seq(Items)
      <4>1. m \in Int /\ Len(q) \in Int
        BY <1>3, <3>1
      <4> HIDE DEF q
      <4> QED BY <3>2, <4>1, SubSeqProperties
    <3> QED BY <2>2, <3>3 DEF m
  <2> QED BY <2>1, <2>2
<1>13. ends # {} /\ upto + 1 = Len(q) => kept = <<>>
  <2> SUFFICES ASSUME ends # {}, upto + 1 = Len(q) PROVE kept = <<>>
    OBVIOUS
  <2> DEFINE a == Len(shown)
             b == Len(q)
             m == 2 + Len(shown \o taken) - a
  <2>1. m = b + 1 /\ b \in Nat
    <3>1. m = 2 + (a + upto) - a /\ a \in Nat /\ b \in Nat
      BY <1>2, <1>3, <1>6, LenProperties
    <3>2. upto \in Nat /\ upto + 1 = b
      BY <1>3, <1>4
    <3> HIDE DEF a, b, m
    <3> QED BY <3>1, <3>2
  <2>2. kept = SubSeq(q, m, b)
    OBVIOUS
  <2> HIDE DEF a, b, m, kept
  <2>3. SubSeq(q, m, b) \in Seq(Items) /\ Len(SubSeq(q, m, b)) = 0
    <3>1. m \in Int /\ b \in Int /\ ~(m <= b) /\ \A i \in m..b : q[i] \in Items
      BY <2>1
    <3> HIDE DEF q
    <3> QED BY <3>1, SubSeqProperties
  <2> QED BY <2>2, <2>3, EmptySeq
<1>8. /\ page' = [page EXCEPT ![s] = [page[s] EXCEPT !.spans = shown \o taken,
                                                    !.running = ends = {}]]
      /\ run' = [run EXCEPT ![r] = [run[r] EXCEPT !.queue =
                   IF page'[s].running THEN <<>>
                   ELSE SubSeq(q, 2 + Len(page'[s].spans) - Len(shown), Len(q))]]
  BY <1>1 DEF Page!Drain, Page!Drained, upto, first, taken
<1>9. /\ page'[s] \in PageSet /\ page'[s].event_queue = r
      /\ page'[s].spans = shown \o taken /\ page'[s].running = (ends = {})
      /\ page' = [page EXCEPT ![s] = page'[s]]
  <2> DEFINE both == shown \o taken
             on == (ends = {})
  <2>1. both \in Seq(Items) /\ on \in BOOLEAN
    BY <1>6
  <2>2. page' = [page EXCEPT ![s] = [page[s] EXCEPT !.spans = both, !.running = on]]
    BY <1>8
  <2> HIDE DEF both, on
  <2>3. page'[s] = [page[s] EXCEPT !.spans = both, !.running = on]
    BY <1>1, <2>2
  <2>4. page'[s] \in PageSet /\ page'[s].event_queue = r /\ page'[s].spans = both
        /\ page'[s].running = on
    BY <1>1, <2>1, <2>3 DEF PageSet
  <2> QED BY <2>2, <2>3, <2>4 DEF both, on
<1>10. /\ run'[r] \in RunSet /\ run' = [run EXCEPT ![r] = run'[r]]
       /\ run'[r].pc = run[r].pc /\ run'[r].result = run[r].result
       /\ run'[r].writes = run[r].writes /\ run'[r].queue = kept
  <2>1. run' = [run EXCEPT ![r] = [run[r] EXCEPT !.queue = kept]]
    <3>1. page'[s].running = (ends = {}) /\ page'[s].spans = shown \o taken
      BY <1>9
    <3> DEFINE rest == IF page'[s].running THEN <<>>
                       ELSE SubSeq(q, 2 + Len(page'[s].spans) - Len(shown), Len(q))
    <3>2. run' = [run EXCEPT ![r] = [run[r] EXCEPT !.queue = rest]]
      BY <1>8
    <3>3. rest = kept
      <4> HIDE DEF ends, q
      <4>1. page'[s].spans = shown \o taken
        BY <3>1
      <4> HIDE DEF shown
      <4>2. CASE ends = {}
        BY <3>1, <4>2
      <4>3. CASE ends # {}
        BY <3>1, <4>1, <4>3
      <4> QED BY <4>2, <4>3
    <3> HIDE DEF rest, kept
    <3> QED BY <3>2, <3>3
  <2> HIDE DEF kept
  <2>2. run'[r] = [run[r] EXCEPT !.queue = kept]
    BY <1>1, <2>1
  <2>3. /\ run'[r] \in RunSet
        /\ run'[r].pc = run[r].pc /\ run'[r].result = run[r].result
        /\ run'[r].writes = run[r].writes /\ run'[r].queue = kept
    BY <1>2, <1>7, <2>2 DEF RunSet
  <2> QED BY <2>1, <2>2, <2>3
<1>11. /\ page'[s].running => upto = Len(q) /\ run'[r].queue = <<>>
       /\ ~page'[s].running => upto < Len(q) /\ q[upto + 1] = Page!End
       /\ ~page'[s].running /\ upto + 1 = Len(q) => run'[r].queue = <<>>
  <2>1. CASE ends = {}
    BY <1>9, <1>10, <2>1 DEF upto
  <2>2. CASE ends # {}
    BY <1>4, <1>9, <1>10, <1>13, <2>2
  <2> QED BY <2>1, <2>2
<1> HIDE DEF q, r, ends, shown, kept
<1>12. \E k \in 0..Len(q) :
         /\ page' = [page EXCEPT ![s] = page'[s]]
         /\ page'[s] \in PageSet
         /\ page'[s].event_queue = r
         /\ Len(page'[s].spans) = Len(shown) + k
         /\ \A i \in 1..Len(shown) : page'[s].spans[i] = shown[i]
         /\ \A i \in 1..k : page'[s].spans[Len(shown) + i] = q[i]
         /\ \A i \in 1..k : q[i] # Page!End
         /\ run'[r] \in RunSet /\ run' = [run EXCEPT ![r] = run'[r]]
         /\ run'[r].pc = run[r].pc /\ run'[r].result = run[r].result
         /\ run'[r].writes = run[r].writes
         /\ page'[s].running => k = Len(q) /\ run'[r].queue = <<>>
         /\ ~page'[s].running => k < Len(q) /\ q[k + 1] = Page!End
         /\ ~page'[s].running /\ k + 1 = Len(q) => run'[r].queue = <<>>
  <2>1. upto \in 0..Len(q)
    BY <1>4
  <2>2. Len(page'[s].spans) = Len(shown) + upto
    BY <1>6, <1>9
  <2>3. /\ \A i \in 1..Len(shown) : page'[s].spans[i] = shown[i]
        /\ \A i \in 1..upto : page'[s].spans[Len(shown) + i] = q[i]
    BY <1>6, <1>9
  <2> QED BY <1>4, <1>9, <1>10, <1>11, <2>1, <2>2, <2>3, Zenon
<1> QED BY <1>12 DEF q, r, shown


\* v is u with the first k items of q behind it, of which the rest is an end.
Taken(v, u, q, k) ==
  /\ Len(v) = Len(u) + k
  /\ \A i \in 1..Len(u) : v[i] = u[i]
  /\ \A i \in 1..k : v[Len(u) + i] = q[i] /\ q[i] # Page!End
  /\ \A i \in 1..Len(q) : i \in 1..k \/ q[i] = Page!End

\* A page takes all that is in its queue: an end is the last item.
LEMMA DrainTakes ==
  ASSUME PageInv, NEW s \in Sessions, Page!Drain(s)
  PROVE  LET r == page[s].event_queue
             q == run[r].queue
             u == page[s].spans
         IN  /\ r \in 1..Len(run) /\ page[s].running
             /\ UNCHANGED <<active, patched, overlapped>>
             /\ page' = [page EXCEPT ![s] = page'[s]] /\ page'[s] \in PageSet
             /\ page'[s].event_queue = r
             /\ run' = [run EXCEPT ![r] = run'[r]] /\ run'[r] \in RunSet
             /\ run'[r].pc = run[r].pc /\ run'[r].result = run[r].result
             /\ run'[r].writes = run[r].writes /\ run'[r].queue = <<>>
             /\ ~page'[s].running <=> run[r].pc = "ended"
             /\ \E k \in 0..Len(q) : Taken(page'[s].spans, u, q, k)
<1> DEFINE r == page[s].event_queue
           q == run[r].queue
           u == page[s].spans
<1>1. PICK k \in 0..Len(q) :
        /\ page' = [page EXCEPT ![s] = page'[s]]
        /\ page'[s] \in PageSet
        /\ page'[s].event_queue = r
        /\ Len(page'[s].spans) = Len(u) + k
        /\ \A i \in 1..Len(u) : page'[s].spans[i] = u[i]
        /\ \A i \in 1..k : page'[s].spans[Len(u) + i] = q[i]
        /\ \A i \in 1..k : q[i] # Page!End
        /\ run'[r] \in RunSet /\ run' = [run EXCEPT ![r] = run'[r]]
        /\ run'[r].pc = run[r].pc /\ run'[r].result = run[r].result
        /\ run'[r].writes = run[r].writes
        /\ page'[s].running => k = Len(q) /\ run'[r].queue = <<>>
        /\ ~page'[s].running => k < Len(q) /\ q[k + 1] = Page!End
        /\ ~page'[s].running /\ k + 1 = Len(q) => run'[r].queue = <<>>
  BY TakenAndLeft
<1>2. r \in 1..Len(run) /\ page[s].running /\ UNCHANGED <<active, patched, overlapped>>
  BY PageOf DEF PageInv, PagesInv, Page!Drain
<1>3. RunFits(r, run[r]) /\ Announced(page[s], run[r]) /\ Len(q) \in Nat
  <2>1. RunFits(r, run[r]) /\ Len(run[r].queue) \in Nat
    BY <1>2, RunOf
  <2> QED BY <1>2, <2>1 DEF PageInv, ShownInv
<1>4. ASSUME ~page'[s].running PROVE k + 1 = Len(q) /\ run[r].pc = "ended"
  <2>1. k + 1 \in 1..Len(q) /\ q[k + 1] = Page!End
    BY <1>1, <1>3, <1>4
  <2> QED BY <1>3, <2>1 DEF RunFits
<1>5. ASSUME page'[s].running, run[r].pc = "ended" PROVE FALSE
  <2>1. PICK i \in 1..Len(q) : q[i] = Page!End
    BY <1>2, <1>3, <1>5 DEF Announced
  <2>2. k = Len(q)
    BY <1>1, <1>5
  <2> QED BY <1>1, <2>1, <2>2
<1>6. ~page'[s].running <=> run[r].pc = "ended"
  BY <1>4, <1>5
<1>7. run'[r].queue = <<>>
  BY <1>1, <1>4
<1>8. \A i \in 1..Len(q) : i \in 1..k \/ q[i] = Page!End
  <2>1. CASE page'[s].running
    BY <1>1, <2>1
  <2>2. CASE ~page'[s].running
    <3>1. k + 1 = Len(q) /\ q[Len(q)] = Page!End
      BY <1>1, <1>4, <2>2
    <3>2. \A i \in 1..Len(q) : i \in 1..k \/ i = Len(q)
      BY <1>3, <3>1
    <3> QED BY <3>1, <3>2
  <2> QED BY <2>1, <2>2
<1>9. \A i \in 1..k : page'[s].spans[Len(u) + i] = q[i] /\ q[i] # Page!End
  BY <1>1
<1>10. \E l \in 0..Len(q) : Taken(page'[s].spans, u, q, l)
  <2> HIDE DEF q, u, r
  <2> QED BY <1>1, <1>8, <1>9 DEF Taken
<1> QED BY <1>1, <1>2, <1>6, <1>7, <1>10, Zenon

\* The items of a queue behind those that were shown.
LEMMA ShownAndTaken ==
  ASSUME NEW r, NEW u, NEW q, NEW v, NEW k \in 0..Len(q), Len(u) \in Nat, Len(q) \in Nat,
         Taken(v, u, q, k), QueueFits(q, r), PageFits(u, q, r)
  PROVE  /\ \A i \in 1..Len(v) : v[i] # Page!End /\ Known(v[i], r)
         /\ Ordered(v)
         /\ \A x \in Nat, n \in Nat : Has(u, x, n) \/ Has(q, x, n) => Has(v, x, n)
<1> DEFINE a == Len(u)
           b == Len(q)
<1>0. /\ k \in Nat /\ k <= b /\ a \in Nat /\ b \in Nat /\ Len(v) = a + k
      /\ \A i \in 1..a : v[i] = u[i]
      /\ \A i \in 1..k : v[a + i] = q[i] /\ q[i] # Page!End
      /\ \A i \in 1..b : i \in 1..k \/ q[i] = Page!End
      /\ \A i \in 1..a : u[i] # Page!End /\ Known(u[i], r)
      /\ \A i \in 1..b : q[i] # Page!End => Known(q[i], r)
      /\ Ordered(u) /\ Ordered(q) /\ \A i \in 1..a, j \in 1..b : Later(u[i], q[j])
  BY DEF Taken, QueueFits, PageFits
<1>1. ASSUME NEW i \in 1..Len(v)
      PROVE  (i \in 1..a /\ v[i] = u[i]) \/ (i - a \in 1..k /\ i - a \in 1..b /\ v[i] = q[i - a])
  <2>1. i \in 1..a \/ (i - a \in 1..k /\ i - a \in 1..b /\ a + (i - a) = i)
    BY <1>0
  <2> QED BY <1>0, <2>1
<1>2. ASSUME NEW i \in 1..Len(v) PROVE v[i] # Page!End /\ Known(v[i], r)
  <2>1. CASE i \in 1..a /\ v[i] = u[i]
    <3>1. u[i] # Page!End /\ Known(u[i], r)
      BY <1>0, <2>1
    <3> QED BY <2>1, <3>1
  <2>2. CASE i - a \in 1..k /\ i - a \in 1..b /\ v[i] = q[i - a]
    <3> DEFINE j == i - a
    <3>1. j \in 1..k /\ j \in 1..b /\ v[i] = q[j]
      BY <2>2
    <3> HIDE DEF j
    <3>2. q[j] # Page!End
      BY <1>0, <3>1
    <3>3. Known(q[j], r)
      BY <1>0, <3>1, <3>2
    <3> QED BY <3>1, <3>2, <3>3
  <2> QED BY <1>1, <2>1, <2>2
<1>3. ASSUME NEW i \in 1..Len(v), NEW j \in 1..Len(v), i < j PROVE Later(v[i], v[j])
  <2>1. CASE j \in 1..a
    <3>1. i \in 1..a
      BY <1>0, <1>3, <2>1
    <3> QED BY <1>0, <1>3, <2>1, <3>1 DEF Ordered
  <2>2. CASE i \in 1..a /\ j \notin 1..a
    <3> DEFINE m == j - a
    <3>1. m \in 1..b /\ v[j] = q[m] /\ v[i] = u[i]
      BY <1>1, <2>2
    <3> HIDE DEF m
    <3> QED BY <1>0, <2>2, <3>1
  <2>3. CASE i \notin 1..a /\ j \notin 1..a
    <3> DEFINE m == j - a
               n == i - a
    <3>1. m \in 1..b /\ v[j] = q[m] /\ n \in 1..b /\ v[i] = q[n] /\ n < m
      BY <1>1, <1>3, <2>3
    <3> HIDE DEF m, n
    <3> QED BY <1>0, <3>1 DEF Ordered
  <2> QED BY <2>1, <2>2, <2>3
<1>4. ASSUME NEW x \in Nat, NEW n \in Nat, Has(u, x, n) PROVE Has(v, x, n)
  <2>1. PICK i \in 1..Len(u) : u[i] = <<x, n>>
    BY <1>4 DEF Has
  <2>2. i \in 1..Len(v) /\ v[i] = <<x, n>>
    BY <1>0, <2>1
  <2> QED BY <2>2 DEF Has
<1>5. ASSUME NEW x \in Nat, NEW n \in Nat, Has(q, x, n) PROVE Has(v, x, n)
  <2>1. PICK i \in 1..Len(q) : q[i] = <<x, n>>
    BY <1>5 DEF Has
  <2>2. i \in 1..k
    BY <1>0, <2>1, EndIsNoSpan
  <2>3. a + i \in 1..Len(v) /\ v[a + i] = <<x, n>>
    BY <1>0, <2>1, <2>2
  <2> QED BY <2>3 DEF Has
<1> QED BY <1>2, <1>3, <1>4, <1>5 DEF Ordered

LEMMA DrainMoves ==
  ASSUME PageInv, NEW s \in Sessions, Page!Drain(s)
  PROVE  PageInv'
<1> DEFINE r == page[s].event_queue
           q == run[r].queue
           u == page[s].spans
           v == page'[s].spans
<1>1. /\ r \in 1..Len(run) /\ page[s].running
      /\ UNCHANGED <<active, patched, overlapped>>
      /\ page' = [page EXCEPT ![s] = page'[s]] /\ page'[s] \in PageSet
      /\ page'[s].event_queue = r
      /\ run' = [run EXCEPT ![r] = run'[r]] /\ run'[r] \in RunSet
      /\ run'[r].pc = run[r].pc /\ run'[r].result = run[r].result
      /\ run'[r].writes = run[r].writes /\ run'[r].queue = <<>>
      /\ ~page'[s].running <=> run[r].pc = "ended"
      /\ \E k \in 0..Len(q) : Taken(v, u, q, k)
  BY DrainTakes, Zenon
<1>2. /\ page \in [Sessions -> PageSet] /\ run \in Seq(RunSet) /\ Len(run) \in Nat
      /\ DOMAIN run = 1..Len(run) /\ r \in Nat /\ run[r].writes \in Nat
      /\ Len(q) \in Nat /\ Len(u) \in Nat
  BY <1>1, RunOf, PageOf DEF PageInv, PagesInv, RunsInv
<1>3. QueueFits(q, r) /\ PageFits(u, q, r)
  BY <1>1 DEF PageInv, ShownInv
<1>4. /\ \A i \in 1..Len(v) : v[i] # Page!End /\ Known(v[i], r)
      /\ Ordered(v)
      /\ \A x \in Nat, n \in Nat : Has(u, x, n) \/ Has(q, x, n) => Has(v, x, n)
  <2>1. PICK k \in 0..Len(q) : Taken(v, u, q, k)
    BY <1>1
  <2> HIDE DEF q, u, v, r
  <2> QED BY <1>2, <1>3, <2>1, ShownAndTaken
<1> HIDE DEF q, u
<1>5. /\ run' \in Seq(RunSet) /\ Len(run') = Len(run)
      /\ \A i \in 1..Len(run) : i # r => run'[i] = run[i]
  <2> HIDE DEF r
  <2> DEFINE x == run'[r]
  <2>1. x \in RunSet /\ run' = [run EXCEPT ![r] = x]
    BY <1>1
  <2>2. run \in Seq(RunSet) /\ DOMAIN run = 1..Len(run) /\ r \in 1..Len(run)
    BY <1>1, <1>2
  <2> HIDE DEF x
  <2> QED BY <2>1, <2>2
<1>6. /\ page' \in [Sessions -> PageSet]
      /\ \A t \in Sessions : t # s => page'[t] = page[t]
  <2> DEFINE p == page'[s]
  <2>1. p \in PageSet /\ page' = [page EXCEPT ![s] = p]
    BY <1>1
  <2> HIDE DEF p
  <2> QED BY <1>2, <2>1
<1>7. Len(<<>>) = 0
  OBVIOUS
<1>8. RunsInv'
  <2>1. ASSUME NEW i \in 1..Len(run) PROVE RunFits(i, run[i])'
    <3>0. RunFits(i, run[i])
      BY RunOf
    <3>1. CASE i # r
      BY <1>1, <1>5, <3>0, <3>1 DEF RunFits
    <3>2. CASE i = r
      <4>1. Len(run'[i].queue) = 0
        BY <1>1, <1>7, <3>2
      <4> QED BY <1>1, <3>0, <3>2, <4>1 DEF RunFits
    <3> QED BY <3>1, <3>2
  <2>2. \A i \in 1..Len(run) : run'[i].pc = run[i].pc
    BY <1>1, <1>5
  <2>3. ASSUME NEW i \in 1..Len(run), NEW j \in 1..Len(run), i # j PROVE Apart(i, j)'
    <3>1. Apart(i, j)
      BY <2>3 DEF PageInv, RunsInv
    <3> QED BY <1>1, <2>2, <3>1 DEF Apart
  <2> QED BY <1>1, <1>5, <2>1, <2>3 DEF PageInv, RunsInv
<1>9. \A t \in Sessions : /\ page'[t].event_queue = page[t].event_queue
                          /\ page'[t].running => page[t].running
  BY <1>1, <1>6
<1>10. PagesInv'
  BY <1>5, <1>6, <1>9 DEF PageInv, PagesInv
<1>11. ASSUME NEW x, NEW i, Known(x, i) PROVE KnownThen(x, i)
  <2>1. \A j \in 1..Len(run) : run'[j].writes \in Nat /\ run[j].writes <= run'[j].writes
    <3>1. \A j \in 1..Len(run) : run'[j].writes = run[j].writes /\ run[j].writes \in Nat
      BY <1>1, <1>5, RunOf
    <3> QED BY <3>1
  <2> QED BY <1>1, <1>2, <1>5, <1>11, <2>1, KnownStays
<1>12. ASSUME NEW i \in 1..Len(run) PROVE QueueFits(run[i].queue, i)'
  <2>1. CASE i = r
    <3>1. run'[i].queue = <<>> /\ Len(<<>>) = 0
      BY <1>1, <1>7, <2>1
    <3> QED BY <3>1 DEF QueueFits, Ordered
  <2>2. CASE i # r
    <3> DEFINE z == run[i].queue
    <3>1. run'[i] = run[i] /\ QueueFits(z, i)
      BY <1>5, <2>2 DEF PageInv, ShownInv
    <3>2. Ordered(z) /\ \A k \in 1..Len(z) : z[k] # Page!End => KnownThen(z[k], i)
      BY <1>11, <3>1 DEF QueueFits
    <3> QED BY <3>1, <3>2 DEF QueueFits, Ordered, Known, KnownThen, Later
  <2> QED BY <2>1, <2>2
<1>13. ASSUME NEW t \in Sessions, NEW i \in 1..Len(run), page'[t].event_queue = i
       PROVE  (Announced(page[t], run[i]) /\ PageFits(page[t].spans, run[i].queue, i))'
  <2>1. CASE t = s
    <3>1. i = r
      BY <1>1, <1>13, <2>1
    <3>2. Announced(page[t], run[i])'
      BY <1>1, <2>1, <3>1 DEF Announced
    <3>3. /\ \A k \in 1..Len(v) : v[k] # Page!End /\ KnownThen(v[k], r)
          /\ Ordered(v) /\ Len(run'[r].queue) = 0
          /\ r \in patched => \A n \in 1..run[r].writes : Has(v, r, n)
      <4> HIDE DEF v, r
      <4>1. \A k \in 1..Len(v) : v[k] # Page!End /\ KnownThen(v[k], r)
        BY <1>4, <1>11
      <4>2. r \in patched => \A n \in 1..run[r].writes : Has(u, r, n) \/ Has(q, r, n)
        BY <1>3 DEF PageFits
      <4>3. Len(run'[r].queue) = 0
        BY <1>1, <1>7
      <4> QED BY <1>2, <1>4, <4>1, <4>2, <4>3
    <3>4. PageFits(page[t].spans, run[i].queue, i)'
      <4>1. /\ page'[t].spans = v /\ run'[i].queue = run'[r].queue
            /\ run'[i].writes = run[r].writes /\ patched' = patched /\ i = r
        BY <1>1, <2>1, <3>1
      <4>2. \A j : j \notin 1..Len(run'[i].queue)
        BY <3>3, <4>1
      <4> HIDE DEF v, r
      <4>3. /\ \A k \in 1..Len(v) : v[k] # Page!End /\ KnownThen(v[k], i)
            /\ i \in patched => \A n \in 1..run'[i].writes : Has(v, i, n)
        BY <3>3, <4>1
      <4>4. /\ \A k \in 1..Len(v), j \in 1..Len(run'[i].queue) : Later(v[k], run'[i].queue[j])
            /\ i \in patched =>
                 \A n \in 1..run'[i].writes : Has(v, i, n) \/ Has(run'[i].queue, i, n)
        BY <4>2, <4>3
      <4>5. page'[t].spans = v /\ patched' = patched /\ Ordered(v)
        BY <3>3, <4>1
      <4> QED BY <4>3, <4>4, <4>5 DEF PageFits, Ordered, Known, KnownThen, Later, Has
    <3> QED BY <3>2, <3>4
  <2>2. CASE t # s
    <3> DEFINE z == run[i].queue
               y == page[t].spans
    <3>1. page'[t] = page[t] /\ page[t].event_queue = i /\ i # r /\ run'[i] = run[i]
      <4>1. page'[t] = page[t]
        BY <1>6, <2>2
      <4>2. page[t].event_queue = i /\ i # 0
        BY <1>13, <4>1
      <4>3. i # r
        BY <2>2, <4>2 DEF PageInv, PagesInv
      <4> QED BY <1>5, <4>1, <4>2, <4>3
    <3>2. Announced(page[t], run[i]) /\ PageFits(y, z, i)
      BY <3>1 DEF PageInv, ShownInv
    <3>3. /\ \A k \in 1..Len(y) : y[k] # Page!End /\ KnownThen(y[k], i)
          /\ Ordered(y) /\ \A k \in 1..Len(y), j \in 1..Len(z) : Later(y[k], z[j])
          /\ i \in patched => \A n \in 1..run[i].writes : Has(y, i, n) \/ Has(z, i, n)
      BY <1>11, <3>2 DEF PageFits
    <3>4. Announced(page[t], run[i])'
      BY <3>1, <3>2 DEF Announced
    <3>5. PageFits(page[t].spans, run[i].queue, i)'
      <4>1. /\ page'[t].spans = y /\ run'[i].queue = z
            /\ run'[i].writes = run[i].writes /\ patched' = patched
        BY <1>1, <3>1
      <4> HIDE DEF y, z
      <4> QED BY <3>3, <4>1 DEF PageFits, Ordered, Known, KnownThen, Later, Has
    <3> QED BY <3>4, <3>5
  <2> QED BY <2>1, <2>2
<1> QED BY <1>5, <1>8, <1>10, <1>12, <1>13 DEF PageInv, ShownInv

LEMMA PageIsShown == PageInv => RunIsShown
<1> SUFFICES ASSUME PageInv, NEW s \in Sessions, page[s].event_queue # Page!NoRun
    PROVE  LET r == page[s].event_queue
               spans_ == page[s].spans
           IN  /\ IF page[s].running
                  THEN r \in Page!Alive \/ \E i \in DOMAIN run[r].queue : run[r].queue[i] = Page!End
                  ELSE run[r].result # "none"
               /\ \A i \in DOMAIN spans_ : spans_[i][1] = r \/ {spans_[i][1], r} \subseteq overlapped
               /\ \A i, j \in DOMAIN spans_ :
                    i < j /\ spans_[i][1] = spans_[j][1] => spans_[i][2] < spans_[j][2]
               /\ ~page[s].running /\ r \in patched =>
                    \A n \in 1..run[r].writes : \E i \in DOMAIN spans_ : spans_[i] = <<r, n>>
  BY DEF RunIsShown, Page!RunIsShown, Page!EndIsAnnounced, Page!SpansAreItsOwn
<1> DEFINE r == page[s].event_queue
           q == run[r].queue
           u == page[s].spans
<1>1. /\ r \in 1..Len(run) /\ DOMAIN run = 1..Len(run) /\ RunFits(r, run[r])
      /\ DOMAIN q = 1..Len(q) /\ DOMAIN u = 1..Len(u)
  <2>1. r \in 1..Len(run) /\ u \in Seq(Items)
    BY PageOf DEF Page!NoRun
  <2>2. DOMAIN run = 1..Len(run) /\ RunFits(r, run[r]) /\ q \in Seq(Items)
    BY <2>1, RunOf
  <2> QED BY <2>1, <2>2
<1>2. Announced(page[s], run[r]) /\ PageFits(u, q, r)
  BY <1>1 DEF PageInv, ShownInv
<1>3. ASSUME page[s].running, r \notin Page!Alive
      PROVE  \E i \in DOMAIN q : q[i] = Page!End
  <2>1. run[r].pc = "ended"
    BY <1>1, <1>3 DEF Page!Alive
  <2> QED BY <1>1, <1>2, <1>3, <2>1 DEF Announced
<1>4. ASSUME ~page[s].running PROVE run[r].result # "none" /\ q = <<>>
  <2>1. run[r].pc \in Leaving /\ q = <<>>
    BY <1>2, <1>4 DEF Announced, Leaving
  <2> QED BY <1>1, <2>1 DEF RunFits
<1> HIDE DEF u
<1>5. \A i \in DOMAIN u : u[i][1] = r \/ {u[i][1], r} \subseteq overlapped
  BY <1>1, <1>2 DEF PageFits, Known
<1>6. \A i, j \in DOMAIN u : i < j /\ u[i][1] = u[j][1] => u[i][2] < u[j][2]
  BY <1>1, <1>2 DEF PageFits, Ordered, Later
<1>7. ASSUME ~page[s].running, r \in patched
      PROVE  \A n \in 1..run[r].writes : \E i \in DOMAIN u : u[i] = <<r, n>>
  <2>1. Len(q) = 0
    BY <1>4, <1>7
  <2>2. \A n \in 1..run[r].writes : Has(u, r, n) \/ Has(q, r, n)
    BY <1>2, <1>7 DEF PageFits
  <2> HIDE DEF q, r
  <2>3. \A n : ~Has(q, r, n)
    BY <2>1 DEF Has
  <2> QED BY <1>1, <2>2, <2>3 DEF Has
<1> HIDE DEF q
<1> QED BY <1>3, <1>4, <1>5, <1>6, <1>7 DEF u, q

(* Dashboard: however the runs of several pages overlap, a page that shows    *)
(* its run as running will be told of its end; it shows spans of another run  *)
(* only if both overlapped some run, those of each run in the order they were *)
(* written and none twice, and all of its own if its run's wrapper stands     *)
(* (_run_swarm, _patch_tracer_once and the drain of obs/app.py).              *)
THEOREM PagesShowTheirRuns == Spec => []RunIsShown
<1>1. PageInv /\ [Next]_vars => PageInv'
  <2> SUFFICES ASSUME PageInv, [Next]_vars PROVE PageInv'
    OBVIOUS
  <2>1. Page!Next \/ UNCHANGED pageVars
    BY PartsStep
  <2>2. CASE UNCHANGED pageVars
    <3>1. UNCHANGED <<page, run, active, patched, overlapped>>
      BY <2>2 DEF pageVars
    <3>2. RunsInv'
      BY <3>1 DEF PageInv, RunsInv, RunFits, Apart
    <3>3. PagesInv'
      BY <3>1 DEF PageInv, PagesInv
    <3>4. ShownInv'
      <4>1. run' = run /\ page' = page /\ patched' = patched /\ overlapped' = overlapped
        BY <3>1
      <4>2. \A r \in 1..Len(run) : QueueFits(run[r].queue, r)'
        BY <4>1, ZenonT(30) DEF PageInv, ShownInv, QueueFits, Known
      <4>3. \A s \in Sessions, r \in 1..Len(run) :
              page[s].event_queue = r => PageFits(page[s].spans, run[r].queue, r)'
        <5>1. \A r, x : Known(x, r)' <=> Known(x, r)
          BY <4>1, ZenonT(30) DEF Known
        <5> SUFFICES ASSUME NEW s \in Sessions, NEW r \in 1..Len(run),
                            page[s].event_queue = r
                     PROVE  PageFits(page[s].spans, run[r].queue, r)'
          OBVIOUS
        <5>2. PageFits(page[s].spans, run[r].queue, r)
          BY DEF PageInv, ShownInv
        <5>3. page[s].spans' = page[s].spans /\ run[r].queue' = run[r].queue
              /\ run[r].writes' = run[r].writes
          BY <4>1
        <5> QED BY <4>1, <5>1, <5>2, <5>3, ZenonT(30) DEF PageFits
      <4>4. \A s \in Sessions, r \in 1..Len(run) :
              page[s].event_queue = r => Announced(page[s], run[r])'
        BY <4>1, ZenonT(30) DEF PageInv, ShownInv, Announced
      <4> QED BY <4>1, <4>2, <4>3, <4>4, ZenonT(30) DEF ShownInv
    <3> QED BY <3>2, <3>3, <3>4 DEF PageInv
  <2>3. ASSUME NEW s \in Sessions, Page!RunClicked(s) \/ Page!ClearClicked(s) \/ Page!Drain(s)
        PROVE  PageInv'
    BY <2>3, ClickMoves, ClearMoves, DrainMoves
  <2>4. ASSUME NEW r \in DOMAIN run, Page!_run_swarm(r) PROVE PageInv'
    <3>1. r \in 1..Len(run)
      BY DEF PageInv, RunsInv
    <3> QED BY <2>4, <3>1, PlainMoves, SpanMoves, PutNoneMoves DEF Page!_run_swarm
  <2> QED BY <2>1, <2>2, <2>3, <2>4 DEF Page!Next
<1> QED BY PageBegins, <1>1, PageIsShown, PTL DEF Spec

-----------------------------------------------------------------------------
(* The files.  A path that is resolved has no "..", and resolving it again  *)
(* changes nothing: this is what makes a reported path lead back.           *)

\* The provers have to be told that these two are strings.
Words == (STRING \ {"/"}) \cup {"swarm", "built"}
Names == Words \ {".."}
CleanPaths == Seq(Names)

\* The paths that Resolved makes on the way, one part of the given path after
\* the other
Way(given, up) ==
  /\ up \in [0..Len(given) -> CleanPaths] /\ up[0] = <<>>
  /\ \A n \in 1..Len(given) :
       up[n] = IF given[n] # ".." THEN Append(up[n - 1], given[n])
               ELSE IF up[n - 1] = <<>> THEN <<>> ELSE Tree!Front(up[n - 1])

LEMMA ResolvedHasWay ==
  ASSUME NEW given \in Seq(Words)
  PROVE  \E up : Way(given, up) /\ up[Len(given)] = Tree!Resolved(given)
<1> DEFINE N == Len(given)
           next(n, v) == IF given[n] # ".." THEN Append(v, given[n])
                         ELSE IF v = <<>> THEN <<>> ELSE Tree!Front(v)
           Body(u) == [n \in 0..N |-> IF n = 0 THEN <<>> ELSE next(n, u[n - 1])]
           up == CHOOSE u : u = Body(u)
           G == [n \in 1..N |-> [v \in CleanPaths |-> next(n, v)]]
<1>1. Tree!Resolved(given) = up[N]
  BY DEF Tree!Resolved
<1>2. N \in Nat
  BY LenProperties
<1>3. ASSUME NEW n \in 1..N, NEW v \in CleanPaths PROVE next(n, v) \in CleanPaths
  <2>1. given[n] \in Words
    BY ElementOfSeq
  <2>2. CASE given[n] # ".."
    BY <2>1, <2>2, AppendProperties DEF CleanPaths, Names
  <2>3. CASE given[n] = ".." /\ v = <<>>
    BY <2>3 DEF CleanPaths
  <2>4. CASE given[n] = ".." /\ v # <<>>
    <3>1. Len(v) \in Nat /\ \A i \in 1..Len(v) : v[i] \in Names
      BY <1>3 DEF CleanPaths
    <3>2. SubSeq(v, 1, Len(v) - 1) \in Seq(Names)
      BY <3>1, SubSeqProperties, <1>3 DEF CleanPaths
    <3> QED BY <2>4, <3>2 DEF Tree!Front, CleanPaths
  <2> QED BY <2>2, <2>3, <2>4
<1> HIDE DEF next
<1>4. Steps(N, CleanPaths, G)
  BY <1>3 DEF Steps
<1>5. PICK f \in [0..N -> CleanPaths] : Follows(f, N, <<>>, G)
  <2>1. <<>> \in CleanPaths
    BY DEF CleanPaths
  <2> HIDE DEF G, N
  <2> QED BY <1>2, <1>4, <2>1, Recursion
<1> HIDE DEF N
<1>6. f = Body(f)
  <2>1. \A n \in 0..N : f[n] = IF n = 0 THEN <<>> ELSE next(n, f[n - 1])
    <3> SUFFICES ASSUME NEW n \in 0..N, n # 0 PROVE f[n] = next(n, f[n - 1])
      BY <1>5 DEF Follows
    <3>1. n \in 1..N /\ n - 1 \in 0..N
      BY <1>2
    <3>2. f[n] = G[n][f[n - 1]] /\ f[n - 1] \in CleanPaths
      BY <1>5, <3>1 DEF Follows
    <3> QED BY <3>1, <3>2
  <2> QED BY <2>1
<1>7. up = Body(up)
  <2> HIDE DEF Body
  <2> QED BY <1>6
<1> HIDE DEF up
<1> DEFINE S == {n \in 0..N : up[n] \in CleanPaths}
<1>8. 0 \in S
  BY <1>2, <1>7 DEF CleanPaths
<1>9. ASSUME NEW n \in 0..N - 1, n \in S PROVE n + 1 \in S
  <2>1. n + 1 \in 1..N /\ n + 1 \in 0..N /\ n + 1 # 0 /\ (n + 1) - 1 = n
    BY <1>2
  <2>2. up[n + 1] = next(n + 1, up[n])
    BY <1>7, <2>1
  <2>3. up[n] \in CleanPaths
    BY <1>9
  <2> QED BY <1>3, <2>1, <2>2, <2>3
<1>10. 0..N \subseteq S
  <2> HIDE DEF S
  <2> QED BY <1>2, <1>8, <1>9, BoundedInduction
<1>11. Way(given, up)
  <2>1. up \in [0..N -> CleanPaths]
    <3>1. up = [n \in 0..N |-> IF n = 0 THEN <<>> ELSE next(n, up[n - 1])]
      BY <1>7
    <3>2. \A n \in 0..N : up[n] \in CleanPaths
      BY <1>10
    <3>3. up = [n \in 0..N |-> up[n]]
      BY <3>1
    <3> QED BY <3>2, <3>3
  <2>2. up[0] = <<>>
    BY <1>2, <1>7
  <2>3. \A n \in 1..N : up[n] = next(n, up[n - 1])
    BY <1>2, <1>7
  <2> QED BY <2>1, <2>2, <2>3 DEF Way, N, next
<1> QED BY <1>1, <1>11 DEF N

LEMMA ResolvedIsPath ==
  ASSUME NEW given \in Seq(Words)
  PROVE  Tree!Resolved(given) \in CleanPaths
<1>1. PICK up : Way(given, up) /\ up[Len(given)] = Tree!Resolved(given)
  BY ResolvedHasWay
<1>2. Len(given) \in 0..Len(given)
  BY LenProperties
<1> QED BY <1>1, <1>2 DEF Way

LEMMA PathIsResolved ==
  ASSUME NEW given \in CleanPaths
  PROVE  Tree!Resolved(given) = given
<1>1. given \in Seq(Words) /\ Len(given) \in Nat /\ \A n \in 1..Len(given) : given[n] \in Names
  <2>1. Names \subseteq Words
    BY DEF Names
  <2> QED BY <2>1, SeqMonotonic, ElementOfSeq, LenProperties DEF CleanPaths
<1>2. PICK up : Way(given, up) /\ up[Len(given)] = Tree!Resolved(given)
  BY <1>1, ResolvedHasWay
<1> DEFINE N == Len(given)
           S == {n \in 0..N : up[n] = SubSeq(given, 1, n)}
<1>3. 0 \in S
  <2>1. SubSeq(given, 1, 0) = <<>>
    BY <1>1, SubSeqEmpty DEF CleanPaths
  <2>2. up[0] = <<>>
    BY <1>2 DEF Way
  <2>3. 0 \in 0..N
    BY <1>1
  <2> QED BY <2>1, <2>2, <2>3
<1>4. ASSUME NEW n \in 0..N - 1, n \in S PROVE n + 1 \in S
  <2>1. n + 1 \in 1..N /\ n + 1 \in 0..N /\ (n + 1) - 1 = n /\ n \in Nat
    BY <1>1
  <2>2. given[n + 1] # ".."
    BY <1>1, <2>1 DEF Names
  <2>3. up[n + 1] = Append(SubSeq(given, 1, n), given[n + 1])
    BY <1>2, <1>4, <2>1, <2>2 DEF Way
  <2>4. SubSeq(given, 1, n + 1) = Append(SubSeq(given, 1, n), given[n + 1])
    <3> HIDE DEF S
    <3> QED BY <1>1, <2>1, SubSeqRecursiveSecond DEF CleanPaths
  <2> QED BY <2>1, <2>3, <2>4
<1>5. N \in S
  <2>1. 0..N \subseteq S
    <3> HIDE DEF S
    <3> QED BY <1>1, <1>3, <1>4, BoundedInduction
  <2> QED BY <1>1, <2>1
<1>6. SubSeq(given, 1, Len(given)) = given
  BY SubSeqFull DEF CleanPaths
<1> QED BY <1>2, <1>5, <1>6

\* A path as an agent may give it
Given(rel) == \/ rel \in Seq(Words)
              \/ rel # <<>> /\ rel[1] = "/" /\ Tail(rel) \in Seq(Words)

LEMMA FilesAssumed ==
  /\ \A rel \in Rels : Given(rel)
  /\ \A rel \in Rels : Tree!_build_path(rel) # Tree!_CWD
  /\ \A dir \in Scaffolds : dir \in CleanPaths
  /\ \A template \in Templates :
       /\ template \in Seq(CleanPaths)
       /\ \A i, j \in DOMAIN template : ~Tree!IsStrictPrefix(template[i], template[j])
<1>1. Seq(STRING \ {"/"}) \subseteq Seq(Words) /\ Seq(STRING \ {"/", ".."}) \subseteq CleanPaths
  <2>1. STRING \ {"/"} \subseteq Words /\ STRING \ {"/", ".."} \subseteq Names
    BY DEF Words, Names
  <2> QED BY <2>1, SeqMonotonic DEF CleanPaths
<1>2. Seq(Seq(STRING \ {"/", ".."})) \subseteq Seq(CleanPaths)
  BY <1>1, SeqMonotonic
<1>3. Tree!FilesystemAssumption
  BY ServicesAssumption
<1>4. \A rel \in Rels : Given(rel)
  BY <1>1, <1>3 DEF Tree!FilesystemAssumption, Given
<1> QED BY <1>1, <1>2, <1>3, <1>4 DEF Tree!FilesystemAssumption

LEMMA PathsAreGiven == CleanPaths \subseteq Seq(Words)
<1>1. Names \subseteq Words
  BY DEF Names
<1> QED BY <1>1, SeqMonotonic DEF CleanPaths

LEMMA PathParts ==
  ASSUME NEW p \in CleanPaths
  PROVE  Len(p) \in Nat /\ \A i \in 1..Len(p) : p[i] \in Names
BY ElementOfSeq, LenProperties DEF CleanPaths

\* No part of a relative path is a "/".
LEMMA RelativePath ==
  ASSUME NEW rel \in Seq(Words)
  PROVE  ~(rel # <<>> /\ rel[1] = "/")
<1> SUFFICES ASSUME rel # <<>>, rel[1] = "/" PROVE FALSE
  OBVIOUS
<1>1. Len(rel) \in Nat /\ Len(rel) # 0
  BY EmptySeq, LenProperties
<1>2. rel[1] \in Words
  BY <1>1, ElementOfSeq
<1> QED BY <1>2 DEF Words

LEMMA GivenIsPath ==
  ASSUME NEW rel, Given(rel)
  PROVE  Tree!_safe_path(rel) \in CleanPaths /\ Tree!_build_path(rel) \in CleanPaths
<1>1. CASE rel \in Seq(Words)
  <2>1. Tree!_CWD \in Seq(Words) /\ <<"built">> \in Seq(Words)
    BY DEF Tree!_CWD, Words
  <2>2. Tree!_CWD \o rel \in Seq(Words)
    BY <1>1, <2>1, ConcatProperties
  <2>3. <<"built">> \o rel \in Seq(Words) /\ Tree!_CWD \o (<<"built">> \o rel) \in Seq(Words)
    BY <1>1, <2>1, ConcatProperties
  <2>4. Tree!_safe_path(rel) \in CleanPaths /\ Tree!_safe_path(<<"built">> \o rel) \in CleanPaths
    BY <1>1, <2>2, <2>3, RelativePath, ResolvedIsPath DEF Tree!_safe_path
  <2> QED BY <2>4 DEF Tree!_build_path
<1>2. CASE rel # <<>> /\ rel[1] = "/" /\ Tail(rel) \in Seq(Words)
  <2>1. Tree!_safe_path(rel) \in CleanPaths
    BY <1>2, ResolvedIsPath DEF Tree!_safe_path
  <2> QED BY <1>2, <2>1 DEF Tree!_build_path
<1> QED BY <1>1, <1>2 DEF Given

\* What is in the working directory, and where it leads when it is reported.
Inside(p) == p \in CleanPaths /\ Tree!Reportable(p) /\ Len(p) > 1

LEMMA ReportedLeadsBack ==
  ASSUME NEW p, Inside(p)
  PROVE  /\ Tree!Reported(p) \in Seq(Words)
         /\ Tree!_safe_path(Tree!Reported(p)) = p
<1>1. p \in CleanPaths /\ Len(p) \in Nat /\ Len(p) > 1 /\ p \in Seq(Names)
  BY LenProperties DEF Inside, CleanPaths
<1>2. p[1] = "swarm"
  <2>1. SubSeq(<<"swarm">>, 1, 1) = SubSeq(p, 1, 1)
    BY DEF Inside, Tree!Reportable, Tree!IsPrefix, Tree!_CWD
  <2>2. SubSeq(p, 1, 1)[1] = p[1]
    BY <1>1
  <2>3. SubSeq(<<"swarm">>, 1, 1)[1] = "swarm"
    OBVIOUS
  <2> QED BY <2>1, <2>2, <2>3
<1>3. ASSUME NEW n \in 1..Len(p)
      PROVE  /\ SubSeq(p, 2, n) \in Seq(Names)
             /\ <<"swarm">> \o SubSeq(p, 2, n) = SubSeq(p, 1, n)
  <2>1. SubSeq(p, 1, n) = <<p[1]>> \o SubSeq(p, 2, n)
    BY <1>1, <1>3, SubSeqRecursiveFirst
  <2>2. \A i \in 2..n : p[i] \in Names
    BY <1>1, <1>3, PathParts
  <2>3. SubSeq(p, 2, n) \in Seq(Names)
    BY <1>1, <1>3, <2>2, SubSeqProperties
  <2> QED BY <1>2, <2>1, <2>3
<1>4. ASSUME NEW n \in 1..Len(p)
      PROVE  Tree!_safe_path(SubSeq(p, 2, n)) = SubSeq(p, 1, n)
  <2>1. \A i \in 1..n : p[i] \in Names
    BY <1>1, <1>4, PathParts
  <2>2. SubSeq(p, 1, n) \in CleanPaths
    BY <1>1, <1>4, <2>1, SubSeqProperties DEF CleanPaths
  <2>3. SubSeq(p, 2, n) \in Seq(Words)
    BY <1>3, PathsAreGiven DEF CleanPaths
  <2> QED BY <1>3, <2>2, <2>3, RelativePath, PathIsResolved DEF Tree!_safe_path, Tree!_CWD
<1>5. Tree!Reported(p) = SubSeq(p, 2, Len(p))
  BY DEF Tree!Reported, Tree!_CWD
<1>6. SubSeq(p, 1, Len(p)) = p
  BY <1>1, SubSeqFull
<1>7. Tree!Reported(p) \in Seq(Words) /\ Tree!_safe_path(Tree!Reported(p)) = p
  <2>1. Tree!Reported(p) \in CleanPaths
    BY <1>1, <1>3, <1>5 DEF CleanPaths
  <2> QED BY <1>1, <1>4, <1>5, <1>6, <2>1, PathsAreGiven
<1> QED BY <1>7

\* What is in built/ or in a directory of the swarm is built where it is.
LEMMA BuiltStays ==
  ASSUME NEW p, Inside(p), p[2] = "built"
  PROVE  Tree!_build_path(Tree!Reported(p)) = p
<1>1. Len(p) \in Nat /\ Len(p) > 1 /\ p \in Seq(Names)
  BY LenProperties DEF Inside, CleanPaths
<1>2. Tree!Reported(p) = SubSeq(p, 2, Len(p))
  BY DEF Tree!Reported, Tree!_CWD
<1>3. \A i \in 2..Len(p) : p[i] \in Names
  BY <1>1, PathParts DEF Inside
<1>4. Tree!Reported(p)[1] = p[2] /\ Len(Tree!Reported(p)) = Len(p) - 1
  BY <1>1, <1>2, <1>3, SubSeqProperties
<1>5. Tree!Reported(p) # <<>>
  BY <1>1, <1>4
<1>6. "built" \in Tree!_INTERNAL_PREFIXES
  BY DEF Tree!_INTERNAL_PREFIXES
<1> QED BY <1>4, <1>5, <1>6, ReportedLeadsBack DEF Tree!_build_path

FileTexts == Seq(Texts \cup {"template", "elsewhere"})

\* A file is at path p, with this text, and the directories it is in are there.
FileIsAt(tree, made, p, text) ==
  /\ Inside(p) /\ p \in DOMAIN tree /\ p \notin made
  /\ tree[p] = text /\ text # <<>>
  /\ Tree!Above(p) \subseteq made

\* What should be at a given path is.
FilesInv ==
  /\ files \in [DOMAIN files -> FileTexts]
  /\ \A rel \in DOMAIN last : FileIsAt(files, dirs, Tree!_build_path(rel), last[rel])

LEMMA FilesBegin == Tree!Init => FilesInv
<1> SUFFICES ASSUME Tree!Init PROVE FilesInv
  OBVIOUS
<1>1. files = [p \in {Tree!_CWD \o k : k \in Kept} |-> <<>>]
  BY DEF Tree!Init
<1>2. \A p \in DOMAIN files : files[p] \in FileTexts
  BY <1>1 DEF FileTexts
<1>3. DOMAIN last = {}
  BY DEF Tree!Init
<1> QED BY <1>1, <1>2, <1>3 DEF FilesInv

\* Files are put where no directory is and none has to be made of a file.
LEMMA PutsKeep ==
  ASSUME FilesInv, NEW done \in SUBSET CleanPaths, NEW text \in FileTexts, text # <<>>,
         \A p \in done : Tree!Openable(p),
         \A p, q \in done : p \notin Tree!Above(q),
         files' = Tree!With(files, done, text),
         dirs' = dirs \cup UNION {Tree!Above(p) : p \in done}
  PROVE  /\ files' \in [DOMAIN files' -> FileTexts]
         /\ \A p, x : FileIsAt(files, dirs, p, x) /\ p \notin done => FileIsAt(files', dirs', p, x)
         /\ \A p \in done : Inside(p) => FileIsAt(files', dirs', p, text)
<1>1. DOMAIN files' = done \cup DOMAIN files
  BY DEF Tree!With
<1>2. \A p \in done : files'[p] = text
  BY DEF Tree!With
<1>3. \A p \in DOMAIN files \ done : files'[p] = files[p]
  BY DEF Tree!With
<1>4. files' \in [DOMAIN files' -> FileTexts]
  <2>1. \A p \in DOMAIN files' : files'[p] \in FileTexts
    BY <1>1, <1>2, <1>3 DEF FilesInv
  <2>2. files' = [p \in DOMAIN files' |-> files'[p]]
    BY DEF Tree!With
  <2> QED BY <2>1, <2>2
<1>5. ASSUME NEW p, NEW x, FileIsAt(files, dirs, p, x), p \notin done PROVE FileIsAt(files', dirs', p, x)
  <2>1. p \notin dirs'
    BY <1>5 DEF FileIsAt, Tree!Openable
  <2>2. Tree!Above(p) \subseteq dirs'
    BY <1>5 DEF FileIsAt
  <2> QED BY <1>1, <1>3, <1>5, <2>1, <2>2 DEF FileIsAt, Tree!Above
<1>6. ASSUME NEW p \in done, Inside(p) PROVE FileIsAt(files', dirs', p, text)
  <2>1. p \notin dirs'
    BY <1>6 DEF Tree!Openable
  <2>2. Tree!Above(p) \subseteq dirs'
    BY <1>6
  <2> QED BY <1>1, <1>2, <1>6, <2>1, <2>2 DEF FileIsAt, Tree!Above
<1> QED BY <1>4, <1>5, <1>6

\* No path is above itself, or above one it is not a prefix of.
LEMMA AboveIsPrefix ==
  ASSUME NEW p \in CleanPaths, NEW q \in CleanPaths, p \in Tree!Above(q)
  PROVE  Tree!IsStrictPrefix(p, q)
<1>1. PICK n \in 1..Len(q) - 1 : p = SubSeq(q, 1, n)
  BY DEF Tree!Above
<1>2. Len(q) \in Nat /\ \A i \in 1..Len(q) : q[i] \in Names
  BY PathParts
<1>3. Len(p) = n /\ n < Len(q)
  <2>1. \A i \in 1..n : q[i] \in Names
    BY <1>2
  <2> QED BY <1>1, <1>2, <2>1, SubSeqProperties
<1>4. SubSeq(p, 1, Len(p)) = p
  BY SubSeqFull DEF CleanPaths
<1> QED BY <1>1, <1>2, <1>3, <1>4 DEF Tree!IsStrictPrefix, Tree!IsPrefix

LEMMA PutKeeps ==
  ASSUME FilesInv, NEW p \in CleanPaths, NEW text \in FileTexts, text # <<>>,
         Tree!Openable(p), Tree!Put(p, text)
  PROVE  /\ files' \in [DOMAIN files' -> FileTexts]
         /\ \A q, x : FileIsAt(files, dirs, q, x) /\ q # p => FileIsAt(files', dirs', q, x)
         /\ Inside(p) => FileIsAt(files', dirs', p, text)
<1>1. p \notin Tree!Above(p)
  BY AboveIsPrefix DEF Tree!IsStrictPrefix
<1>2. \A q, r \in {p} : q \notin Tree!Above(r)
  BY <1>1
<1>3. dirs' = dirs \cup UNION {Tree!Above(q) : q \in {p}} /\ files' = Tree!With(files, {p}, text)
  BY DEF Tree!Put
<1>4. \A q \in {p} : Tree!Openable(q)
  OBVIOUS
<1>5. {p} \in SUBSET CleanPaths
  OBVIOUS
<1>6. /\ files' \in [DOMAIN files' -> FileTexts]
      /\ \A q, x : FileIsAt(files, dirs, q, x) /\ q \notin {p} => FileIsAt(files', dirs', q, x)
      /\ \A q \in {p} : Inside(q) => FileIsAt(files', dirs', q, text)
  BY <1>2, <1>3, <1>4, <1>5, PutsKeep
<1> QED BY <1>6

\* Where an agent builds is inside the working directory.
LEMMA BuiltIsInside ==
  ASSUME NEW rel \in Rels, Tree!Reportable(Tree!_build_path(rel))
  PROVE  Inside(Tree!_build_path(rel))
<1> DEFINE p == Tree!_build_path(rel)
<1>1. p \in CleanPaths
  BY FilesAssumed, GivenIsPath
<1>2. p # <<"swarm">> /\ Tree!IsPrefix(<<"swarm">>, p)
  BY FilesAssumed DEF Tree!Reportable, Tree!_CWD
<1> HIDE DEF p
<1>3. Len(p) \in Nat /\ Len(p) >= 1
  BY <1>1, <1>2, PathParts DEF Tree!IsPrefix
<1>4. ASSUME Len(p) = 1 PROVE FALSE
  <2>1. SubSeq(<<"swarm">>, 1, 1) = SubSeq(p, 1, Len(p))
    BY <1>2, <1>4 DEF Tree!IsPrefix
  <2>2. SubSeq(p, 1, Len(p)) = p
    BY <1>1, SubSeqFull DEF CleanPaths
  <2>3. SubSeq(<<"swarm">>, 1, 1) = <<"swarm">>
    <3>1. <<"swarm">> \in Seq({"swarm"}) /\ Len(<<"swarm">>) = 1
      OBVIOUS
    <3> QED BY <3>1, SubSeqFull
  <2> QED BY <1>2, <2>1, <2>2, <2>3
<1>5. Len(p) > 1
  <2>1. \A n \in Nat : n >= 1 /\ n # 1 => n > 1
    OBVIOUS
  <2> QED BY <1>3, <1>4, <2>1
<1> QED BY <1>1, <1>5 DEF Inside, p

\* What holds of what should be at the given paths, once the files are right.
LEMMA FilesRest ==
  ASSUME files' \in [DOMAIN files' -> FileTexts],
         \A rel \in DOMAIN last' : FileIsAt(files', dirs', Tree!_build_path(rel), last'[rel])
  PROVE  FilesInv'
BY DEF FilesInv

LEMMA WriteKeepsFiles ==
  ASSUME FilesInv, NEW rel \in Rels, NEW text \in Texts, Tree!write(rel, text)
  PROVE  FilesInv'
<1> DEFINE p == Tree!_build_path(rel)
           new == <<text>>
<1>1. /\ Tree!Openable(p) /\ Tree!Put(p, new)
      /\ last' = IF Tree!Reportable(p) THEN Tree!With(Tree!Holds(p, new), {rel}, new) ELSE last
  BY DEF Tree!write
<1>2. p \in CleanPaths /\ new \in FileTexts /\ new # <<>>
  BY FilesAssumed, GivenIsPath DEF FileTexts
<1>3. /\ files' \in [DOMAIN files' -> FileTexts]
      /\ \A q, x : FileIsAt(files, dirs, q, x) /\ q # p => FileIsAt(files', dirs', q, x)
      /\ Inside(p) => FileIsAt(files', dirs', p, new)
  <2> HIDE DEF p, new
  <2> QED BY <1>1, <1>2, PutKeeps
\* A file outside is none of those that were reported.
<1>9. CASE ~Tree!Reportable(p)
  <2>1. last' = last
    BY <1>1, <1>9
  <2>2. ASSUME NEW r \in DOMAIN last PROVE FileIsAt(files', dirs', Tree!_build_path(r), last[r])
    <3>1. FileIsAt(files, dirs, Tree!_build_path(r), last[r])
      BY DEF FilesInv
    <3>2. Tree!_build_path(r) # p
      BY <1>9, <3>1 DEF FileIsAt, Inside
    <3> HIDE DEF p
    <3> QED BY <1>3, <3>1, <3>2
  <2> QED BY <1>3, <2>1, <2>2, FilesRest
<1> SUFFICES ASSUME Tree!Reportable(p) PROVE FilesInv'
  BY <1>9
<1>10. FileIsAt(files', dirs', p, new)
  BY <1>3, BuiltIsInside
<1>4. DOMAIN last' = {rel} \cup DOMAIN last
  <2>1. last' = Tree!With(Tree!Holds(p, new), {rel}, new)
    BY <1>1
  <2> QED BY <2>1 DEF Tree!With, Tree!Holds
<1>5. \A r \in DOMAIN last' :
        last'[r] = IF r = rel THEN new
                   ELSE IF Tree!_build_path(r) = p THEN new ELSE last[r]
  <2>1. last' = Tree!With(Tree!Holds(p, new), {rel}, new)
    BY <1>1
  <2> QED BY <2>1 DEF Tree!With, Tree!Holds
<1>6. ASSUME NEW r \in DOMAIN last'
      PROVE  FileIsAt(files', dirs', Tree!_build_path(r), last'[r])
  <2>2. CASE Tree!_build_path(r) = p
    <3>1. last'[r] = new
      BY <1>5, <2>2
    <3> QED BY <1>10, <2>2, <3>1
  <2>3. CASE Tree!_build_path(r) # p
    <3>1. r \in DOMAIN last /\ last'[r] = last[r]
      BY <1>4, <1>5, <2>3
    <3>2. FileIsAt(files, dirs, Tree!_build_path(r), last[r])
      BY <3>1 DEF FilesInv
    <3> HIDE DEF p
    <3> QED BY <1>3, <2>3, <3>1, <3>2
  <2> QED BY <2>2, <2>3
<1> QED BY <1>3, <1>6, FilesRest

LEMMA AppendKeepsFiles ==
  ASSUME FilesInv, NEW rel \in Rels, NEW text \in Texts, Tree!append(rel, text)
  PROVE  FilesInv'
<1> DEFINE p == Tree!_build_path(rel)
           old == IF p \in DOMAIN files THEN files[p] ELSE <<>>
           new == Append(old, text)
<1>1. /\ Tree!Openable(p) /\ Tree!Put(p, new)
      /\ last' = Tree!Holds(p, new)
  BY DEF Tree!append
<1>2. p \in CleanPaths
  BY FilesAssumed, GivenIsPath
<1>3. new \in FileTexts /\ new # <<>>
  <2>1. old \in FileTexts
    BY DEF FilesInv, FileTexts
  <2> HIDE DEF old
  <2> QED BY <2>1, AppendProperties DEF FileTexts
<1>4. /\ files' \in [DOMAIN files' -> FileTexts]
      /\ \A q, x : FileIsAt(files, dirs, q, x) /\ q # p => FileIsAt(files', dirs', q, x)
      /\ Inside(p) => FileIsAt(files', dirs', p, new)
  <2> HIDE DEF p, new
  <2> QED BY <1>1, <1>2, <1>3, PutKeeps
<1> HIDE DEF new
<1>5. DOMAIN last' = DOMAIN last
  BY <1>1 DEF Tree!Holds
<1>6. \A r \in DOMAIN last' :
        last'[r] = IF Tree!_build_path(r) = p THEN new ELSE last[r]
  BY <1>1 DEF Tree!Holds
<1>7. ASSUME NEW r \in DOMAIN last'
      PROVE  FileIsAt(files', dirs', Tree!_build_path(r), last'[r])
  <2>1. FileIsAt(files, dirs, Tree!_build_path(r), last[r])
    BY <1>5 DEF FilesInv
  <2>2. CASE Tree!_build_path(r) = p
    <3>1. Inside(p)
      BY <2>1, <2>2 DEF FileIsAt
    <3> QED BY <1>4, <1>6, <2>2, <3>1
  <2>3. CASE Tree!_build_path(r) # p
    BY <1>4, <1>6, <2>1, <2>3
  <2> QED BY <2>2, <2>3
<1> QED BY <1>4, <1>7, FilesRest

\* Another tool's file takes the place of what was there, and no other's.
LEMMA ElsewhereKeepsFiles ==
  ASSUME FilesInv, NEW rel \in Rels, Tree!Elsewhere(rel)
  PROVE  FilesInv'
<1> DEFINE p == Tree!_safe_path(rel)
           new == <<"elsewhere">>
<1>1. /\ Tree!Openable(p) /\ Tree!Put(p, new) /\ last' = Tree!Outlast({p})
  BY DEF Tree!Elsewhere
<1>2. p \in CleanPaths /\ new \in FileTexts /\ new # <<>>
  BY FilesAssumed, GivenIsPath DEF FileTexts
<1>3. /\ files' \in [DOMAIN files' -> FileTexts]
      /\ \A q, x : FileIsAt(files, dirs, q, x) /\ q # p => FileIsAt(files', dirs', q, x)
  <2> HIDE DEF p, new
  <2> QED BY <1>1, <1>2, PutKeeps
<1>4. /\ DOMAIN last' = {r \in DOMAIN last : Tree!_build_path(r) # p}
      /\ \A r \in DOMAIN last' : last'[r] = last[r]
  BY <1>1 DEF Tree!Outlast, Tree!Restrict
<1> HIDE DEF p
<1>5. ASSUME NEW r \in DOMAIN last'
      PROVE  FileIsAt(files', dirs', Tree!_build_path(r), last'[r])
  <2>1. r \in DOMAIN last /\ Tree!_build_path(r) # p /\ last'[r] = last[r]
    BY <1>4
  <2>2. FileIsAt(files, dirs, Tree!_build_path(r), last[r])
    BY <2>1 DEF FilesInv
  <2> QED BY <1>3, <2>1, <2>2
<1> QED BY <1>3, <1>5, FilesRest

LEMMA PrefixIsTransitive ==
  ASSUME NEW p \in CleanPaths, NEW q \in CleanPaths, NEW r \in CleanPaths,
         Tree!IsPrefix(p, q), Tree!IsPrefix(q, r)
  PROVE  Tree!IsPrefix(p, r)
<1>1. Len(p) \in Nat /\ Len(q) \in Nat /\ Len(r) \in Nat
  BY PathParts
<1>2. Len(p) <= Len(q) /\ Len(q) <= Len(r)
  BY DEF Tree!IsPrefix
<1>3. \A i \in 1..Len(p) : p[i] = q[i]
  <2>1. SubSeq(p, 1, Len(p)) = SubSeq(q, 1, Len(p))
    BY DEF Tree!IsPrefix
  <2>2. \A i \in 1..Len(p) : SubSeq(p, 1, Len(p))[i] = p[i] /\ SubSeq(q, 1, Len(p))[i] = q[i]
    BY <1>1
  <2> QED BY <2>1, <2>2
<1>4. \A i \in 1..Len(q) : q[i] = r[i]
  <2>1. SubSeq(q, 1, Len(q)) = SubSeq(r, 1, Len(q))
    BY DEF Tree!IsPrefix
  <2>2. \A i \in 1..Len(q) : SubSeq(q, 1, Len(q))[i] = q[i] /\ SubSeq(r, 1, Len(q))[i] = r[i]
    BY <1>1
  <2> QED BY <2>1, <2>2
<1>5. \A i \in 1..Len(p) : p[i] = r[i]
  BY <1>1, <1>2, <1>3, <1>4
<1>6. SubSeq(p, 1, Len(p)) = SubSeq(r, 1, Len(p))
  <2>1. /\ SubSeq(p, 1, Len(p)) = [i \in 1..Len(p) |-> p[i]]
        /\ SubSeq(r, 1, Len(p)) = [i \in 1..Len(p) |-> r[i]]
    BY <1>1
  <2> QED BY <1>5, <2>1
<1> QED BY <1>1, <1>2, <1>6 DEF Tree!IsPrefix

LEMMA DeleteKeepsFiles ==
  ASSUME FilesInv, NEW rel \in Rels, Tree!delete(rel)
  PROVE  FilesInv'
<1> DEFINE p == Tree!_build_path(rel)
           gone == Tree!Within(p)
<1>1. /\ files' = Tree!Restrict(files, DOMAIN files \ gone)
      /\ dirs' = dirs \ gone /\ last' = Tree!Outlast(gone)
  BY DEF Tree!delete
<1>2. p \in CleanPaths
  BY FilesAssumed, GivenIsPath
<1> HIDE DEF p
<1>3. /\ DOMAIN files' = DOMAIN files \ gone
      /\ \A q \in DOMAIN files' : files'[q] = files[q]
      /\ files' = [q \in DOMAIN files' |-> files'[q]]
  BY <1>1 DEF Tree!Restrict
<1>4. files' \in [DOMAIN files' -> FileTexts]
  <2>1. \A q \in DOMAIN files' : files'[q] \in FileTexts
    BY <1>3 DEF FilesInv
  <2> QED BY <1>3, <2>1
<1>5. /\ DOMAIN last' = {r \in DOMAIN last : Tree!_build_path(r) \notin gone}
      /\ \A r \in DOMAIN last' : last'[r] = last[r]
  BY <1>1 DEF Tree!Outlast, Tree!Restrict
<1>6. ASSUME NEW q, NEW x, FileIsAt(files, dirs, q, x), q \notin gone PROVE FileIsAt(files', dirs', q, x)
  <2>1. q \in DOMAIN files' /\ files'[q] = x /\ q \notin dirs'
    BY <1>1, <1>3, <1>6 DEF FileIsAt
  <2>2. ASSUME NEW a \in Tree!Above(q) PROVE a \in dirs'
    <3>1. a \in dirs
      BY <1>6 DEF FileIsAt
    <3>2. a \notin gone
      <4> SUFFICES ASSUME a \in gone PROVE FALSE
        OBVIOUS
      <4>1. Tree!IsPrefix(p, a)
        BY DEF Tree!Within
      <4>2. q \in CleanPaths /\ q \in DOMAIN files
        BY <1>6 DEF FileIsAt, Inside
      <4>3. a \in CleanPaths
        <5>1. PICK n \in 1..Len(q) - 1 : a = SubSeq(q, 1, n)
          BY DEF Tree!Above
        <5>2. n \in Int /\ \A i \in 1..n : q[i] \in Names
          BY <4>2, PathParts
        <5> QED BY <5>1, <5>2, SubSeqProperties DEF CleanPaths
      <4>4. Tree!IsPrefix(a, q)
        BY <4>2, <4>3, AboveIsPrefix DEF Tree!IsStrictPrefix
      <4>5. Tree!IsPrefix(p, q)
        BY <1>2, <4>1, <4>2, <4>3, <4>4, PrefixIsTransitive
      <4> QED BY <1>6, <4>2, <4>5 DEF Tree!Within
    <3> QED BY <1>1, <3>1, <3>2
  <2> QED BY <1>6, <2>1, <2>2 DEF FileIsAt, Tree!Above
<1> HIDE DEF gone
<1>7. ASSUME NEW r \in DOMAIN last'
      PROVE  FileIsAt(files', dirs', Tree!_build_path(r), last'[r])
  <2>1. r \in DOMAIN last /\ Tree!_build_path(r) \notin gone /\ last'[r] = last[r]
    BY <1>5
  <2>2. FileIsAt(files, dirs, Tree!_build_path(r), last[r])
    BY <2>1 DEF FilesInv
  <2> QED BY <1>6, <2>1, <2>2
<1> QED BY <1>4, <1>7, FilesRest

\* Where a scaffold's files go is below built/.
LEMMA OutIsBuilt ==
  ASSUME NEW dir \in CleanPaths, NEW t \in CleanPaths
  PROVE  /\ Tree!out(dir) \in CleanPaths
         /\ Inside(Tree!out(dir) \o t) /\ (Tree!out(dir) \o t)[2] = "built"
<1>1. "swarm" \in Names /\ "built" \in Names
  BY DEF Names, Words
<1>2. <<"swarm">> \in CleanPaths /\ <<"built">> \in CleanPaths
  BY <1>1 DEF CleanPaths
<1> DEFINE o == Tree!out(dir)
           below == IF Len(dir) > 1 /\ dir[1] = "built" THEN dir ELSE <<"built">> \o dir
<1>3. below \in CleanPaths /\ Len(below) \in Nat /\ Len(below) >= 1 /\ below[1] = "built"
  <2>1. CASE Len(dir) > 1 /\ dir[1] = "built"
    BY <2>1, PathParts
  <2>2. CASE ~(Len(dir) > 1 /\ dir[1] = "built")
    <3>1. Len(<<"built">>) = 1 /\ <<"built">>[1] = "built"
      OBVIOUS
    <3>2. /\ <<"built">> \o dir \in CleanPaths /\ Len(<<"built">> \o dir) = 1 + Len(dir)
          /\ (<<"built">> \o dir)[1] = "built"
      BY <1>2, <3>1, ConcatProperties, PathParts DEF CleanPaths
    <3> QED BY <2>2, <3>2, PathParts
  <2> QED BY <2>1, <2>2
<1>4. o = <<"swarm">> \o below
  <2>1. CASE Len(dir) > 1 /\ dir[1] = "built"
    BY <2>1 DEF Tree!out, Tree!_CWD
  <2>2. CASE ~(Len(dir) > 1 /\ dir[1] = "built")
    BY <1>2, <2>2, ConcatAssociative DEF Tree!out, Tree!_CWD, CleanPaths
  <2> QED BY <2>1, <2>2
<1> HIDE DEF below, o
<1>5. o \in CleanPaths /\ Len(o) = 1 + Len(below) /\ o[1] = "swarm" /\ o[2] = "built"
  <2>1. Len(<<"swarm">>) = 1 /\ <<"swarm">>[1] = "swarm"
    OBVIOUS
  <2>2. /\ o \in Seq(Names) /\ Len(o) = Len(<<"swarm">>) + Len(below)
        /\ \A i \in 1..Len(<<"swarm">>) + Len(below) :
             o[i] = IF i <= Len(<<"swarm">>) THEN <<"swarm">>[i]
                    ELSE below[i - Len(<<"swarm">>)]
    BY <1>2, <1>3, <1>4, ConcatProperties DEF CleanPaths
  <2> QED BY <1>3, <2>1, <2>2 DEF CleanPaths
<1> DEFINE c == o \o t
<1>6. c \in CleanPaths /\ Len(c) \in Nat /\ Len(c) > 1 /\ c[1] = "swarm" /\ c[2] = "built"
  <2>1. /\ c \in Seq(Names) /\ Len(c) = Len(o) + Len(t)
        /\ \A i \in 1..Len(o) + Len(t) : c[i] = IF i <= Len(o) THEN o[i] ELSE t[i - Len(o)]
    <3>1. o \in Seq(Names) /\ t \in Seq(Names)
      BY <1>5 DEF CleanPaths
    <3> QED BY <3>1, ConcatProperties
  <2>2. Len(t) \in Nat
    BY PathParts
  <2> HIDE DEF c
  <2> QED BY <1>3, <1>5, <2>1, <2>2 DEF CleanPaths
<1> HIDE DEF c
<1>7. Tree!Reportable(c)
  <2>1. SubSeq(c, 1, 1) = [i \in 1..1 |-> c[i]]
    BY <1>6
  <2>2. SubSeq(<<"swarm">>, 1, 1) = [i \in 1..1 |-> "swarm"]
    OBVIOUS
  <2>3. SubSeq(c, 1, 1) = SubSeq(<<"swarm">>, 1, 1)
    BY <1>6, <2>1, <2>2
  <2>4. Len(<<"swarm">>) = 1
    OBVIOUS
  <2> QED BY <1>6, <2>3, <2>4 DEF Tree!Reportable, Tree!IsPrefix, Tree!_CWD
<1> QED BY <1>5, <1>6, <1>7 DEF Inside, c, o

\* What is a prefix below a directory is one of itself.
LEMMA PrefixBelow ==
  ASSUME NEW o \in CleanPaths, NEW s \in CleanPaths, NEW t \in CleanPaths,
         Tree!IsStrictPrefix(o \o s, o \o t)
  PROVE  Tree!IsStrictPrefix(s, t)
<1> DEFINE p == o \o s
           q == o \o t
<1>1. Len(o) \in Nat /\ Len(s) \in Nat /\ Len(t) \in Nat
  BY PathParts
<1>2. /\ p \in CleanPaths /\ Len(p) = Len(o) + Len(s)
      /\ \A i \in 1..Len(o) + Len(s) : p[i] = IF i <= Len(o) THEN o[i] ELSE s[i - Len(o)]
  BY ConcatProperties DEF CleanPaths
<1>3. /\ q \in CleanPaths /\ Len(q) = Len(o) + Len(t)
      /\ \A i \in 1..Len(o) + Len(t) : q[i] = IF i <= Len(o) THEN o[i] ELSE t[i - Len(o)]
  BY ConcatProperties DEF CleanPaths
<1>4. s # t
  BY DEF Tree!IsStrictPrefix
<1> HIDE DEF p, q
<1>5. Len(p) <= Len(q) /\ SubSeq(p, 1, Len(p)) = SubSeq(q, 1, Len(p))
  BY DEF Tree!IsStrictPrefix, Tree!IsPrefix, p, q
<1>6. \A i \in 1..Len(p) : p[i] = q[i]
  <2>1. \A i \in 1..Len(p) : SubSeq(p, 1, Len(p))[i] = p[i] /\ SubSeq(q, 1, Len(p))[i] = q[i]
    BY <1>1, <1>2
  <2> QED BY <1>5, <2>1
<1>7. Len(s) <= Len(t)
  BY <1>1, <1>2, <1>3, <1>5
<1>8. ASSUME NEW i \in 1..Len(s) PROVE s[i] = t[i]
  <2> DEFINE k == Len(o) + i
  <2>1. k \in 1..Len(o) + Len(s) /\ k \in 1..Len(o) + Len(t) /\ ~(k <= Len(o))
        /\ k - Len(o) = i
    BY <1>1, <1>7
  <2> HIDE DEF k
  <2>2. p[k] = s[i] /\ q[k] = t[i] /\ k \in 1..Len(p)
    BY <1>2, <1>3, <2>1
  <2> QED BY <1>6, <2>2
<1>9. SubSeq(s, 1, Len(s)) = SubSeq(t, 1, Len(s))
  <2>1. /\ SubSeq(s, 1, Len(s)) = [i \in 1..Len(s) |-> s[i]]
        /\ SubSeq(t, 1, Len(s)) = [i \in 1..Len(s) |-> t[i]]
    BY <1>1
  <2> QED BY <1>8, <2>1
<1> QED BY <1>4, <1>7, <1>9 DEF Tree!IsStrictPrefix, Tree!IsPrefix

LEMMA ScaffoldKeepsFiles ==
  ASSUME FilesInv, NEW dir \in Scaffolds, NEW template \in Templates, NEW overwrite \in BOOLEAN,
         Tree!project_scaffold(dir, template, overwrite)
  PROVE  FilesInv'
<1> DEFINE to(i) == Tree!out(dir) \o template[i]
           wanted == {i \in DOMAIN template : Tree!Wanted(to(i), overwrite)}
           raising == {i \in wanted : ~Tree!Openable(to(i))}
           chosen == {j \in wanted : \A k \in raising : j < k}
           done == {to(i) : i \in chosen}
           asked == {to(i) : i \in {j \in DOMAIN template : overwrite \/ ~Tree!Exists(to(j))}}
           text == <<"template">>
           held == [r \in DOMAIN last |-> IF Tree!_build_path(r) \in done \cap asked
                                          THEN text ELSE last[r]]
           new == {Tree!Reported(p) : p \in done \cap asked}
<1>1. /\ files' = Tree!With(files, done, text)
      /\ dirs' = dirs \cup UNION {Tree!Above(p) : p \in done}
      /\ last' = Tree!With(held, new, text)
  BY DEF Tree!project_scaffold
<1>2. /\ dir \in CleanPaths /\ template \in Seq(CleanPaths)
      /\ \A i, j \in DOMAIN template : ~Tree!IsStrictPrefix(template[i], template[j])
  BY FilesAssumed
<1>3. DOMAIN template = 1..Len(template) /\ Len(template) \in Nat
      /\ \A i \in DOMAIN template : template[i] \in CleanPaths
  <2>1. DOMAIN template = 1..Len(template) /\ Len(template) \in Nat
    BY <1>2, LenProperties
  <2> QED BY <1>2, <2>1, ElementOfSeq
<1>4. ASSUME NEW i \in DOMAIN template
      PROVE  /\ Inside(to(i)) /\ to(i) \in CleanPaths /\ to(i)[2] = "built"
             /\ Tree!out(dir) \in CleanPaths
  BY <1>2, <1>3, OutIsBuilt DEF Inside
<1>5. done \subseteq asked
  BY DEF Tree!Wanted
<1>6. \A p \in done : Inside(p) /\ p \in CleanPaths /\ p[2] = "built"
  <2> SUFFICES ASSUME NEW i \in chosen PROVE Inside(to(i)) /\ to(i) \in CleanPaths /\ to(i)[2] = "built"
    OBVIOUS
  <2> QED BY <1>4
<1>7. \A p \in done : Tree!Openable(p)
  <2> SUFFICES ASSUME NEW i \in chosen PROVE Tree!Openable(to(i))
    OBVIOUS
  <2>1. i \notin raising
    <3>1. i \in Nat
      BY <1>3
    <3>2. ~(i < i)
      BY <3>1
    <3> QED BY <3>2
  <2> QED BY <2>1
<1>8. \A p, q \in done : p \notin Tree!Above(q)
  <2> SUFFICES ASSUME NEW i \in chosen, NEW j \in chosen, to(i) \in Tree!Above(to(j)) PROVE FALSE
    OBVIOUS
  <2>1. i \in DOMAIN template /\ j \in DOMAIN template
    OBVIOUS
  <2>2. to(i) \in CleanPaths /\ to(j) \in CleanPaths /\ Tree!out(dir) \in CleanPaths
    BY <1>4, <2>1
  <2>3. Tree!IsStrictPrefix(to(i), to(j))
    <3> HIDE DEF to
    <3> QED BY <2>2, AboveIsPrefix
  <2>4. template[i] \in CleanPaths /\ template[j] \in CleanPaths
    BY <1>3, <2>1
  <2>5. Tree!IsStrictPrefix(template[i], template[j])
    BY <2>2, <2>3, <2>4, PrefixBelow
  <2> QED BY <1>2, <2>1, <2>5
<1> HIDE DEF done, asked
<1>9. text \in FileTexts /\ text # <<>>
  BY DEF FileTexts
<1>10. /\ files' \in [DOMAIN files' -> FileTexts]
       /\ \A p, x : FileIsAt(files, dirs, p, x) /\ p \notin done => FileIsAt(files', dirs', p, x)
       /\ \A p \in done : FileIsAt(files', dirs', p, text)
  <2> HIDE DEF text
  <2> QED BY <1>1, <1>6, <1>7, <1>8, <1>9, PutsKeep
<1> HIDE DEF text
<1>11. DOMAIN last' = new \cup DOMAIN last
  BY <1>1 DEF Tree!With
<1>12. \A r \in DOMAIN last' : last'[r] = IF r \in new THEN text ELSE held[r]
  BY <1>1 DEF Tree!With
<1>13. ASSUME NEW r \in DOMAIN last'
       PROVE  FileIsAt(files', dirs', Tree!_build_path(r), last'[r])
  <2>1. CASE r \in new
    <3>1. PICK p \in done : r = Tree!Reported(p)
      BY <2>1
    <3>2. Tree!_build_path(r) = p
      BY <1>6, <3>1, BuiltStays
    <3>3. last'[r] = text
      BY <1>12, <2>1
    <3> QED BY <1>10, <3>2, <3>3
  <2>2. CASE r \notin new
    <3>1. r \in DOMAIN last /\ last'[r] = held[r]
      BY <1>11, <1>12, <2>2
    <3>2. FileIsAt(files, dirs, Tree!_build_path(r), last[r])
      BY <3>1 DEF FilesInv
    <3>3. CASE Tree!_build_path(r) \in done
      BY <1>5, <1>10, <3>1, <3>2, <3>3
    <3>4. CASE Tree!_build_path(r) \notin done
      BY <1>10, <3>1, <3>2, <3>4
    <3> QED BY <3>3, <3>4
  <2> QED BY <2>1, <2>2
<1> QED BY <1>10, <1>13, FilesRest

LEMMA FilesStep == FilesInv /\ (Tree!Next \/ UNCHANGED fileVars) => FilesInv'
<1> SUFFICES ASSUME FilesInv, Tree!Next \/ UNCHANGED fileVars PROVE FilesInv'
  OBVIOUS
<1>1. CASE Tree!Next
  BY <1>1, WriteKeepsFiles, AppendKeepsFiles, DeleteKeepsFiles, ElsewhereKeepsFiles,
     ScaffoldKeepsFiles DEF Tree!Next
<1>2. CASE UNCHANGED fileVars
  BY <1>2 DEF fileVars, FilesInv
<1> QED BY <1>1, <1>2

(***************************************************************************)
(* What was written is read again under the path that was reported, for    *)
(* any paths, texts, templates and users of the tree: a path that was      *)
(* resolved once leads to itself (_build_path, _safe_path).                *)
(***************************************************************************)
THEOREM ReportedStaysReadable == Spec => []ReportedIsRead
<1>1. Init => FilesInv
  BY FilesBegin DEF Init
<1>2. FilesInv /\ [Next]_vars => FilesInv'
  <2>1. [Next]_vars => Tree!Next \/ UNCHANGED fileVars
    BY DEF Next, vars, StoreStep, TraceStep, GateStep, ServerStep, PageStep, RegistryStep,
           CloneStep, AuthStep, CommandStep, FileStep
  <2> QED BY <2>1, FilesStep
<1>3. FilesInv => ReportedIsRead
  <2> SUFFICES ASSUME FilesInv, NEW rel \in DOMAIN last
               PROVE  Tree!read(Tree!Reported(Tree!_build_path(rel))) = last[rel]
    BY DEF ReportedIsRead, Tree!ReportedIsRead
  <2> DEFINE p == Tree!_build_path(rel)
  <2>1. FileIsAt(files, dirs, p, last[rel])
    BY DEF FilesInv
  <2> HIDE DEF p
  <2>2. Inside(p) /\ p \in DOMAIN files /\ files[p] = last[rel]
    BY <2>1 DEF FileIsAt
  <2>3. Tree!_safe_path(Tree!Reported(p)) = p
    BY <2>2, ReportedLeadsBack
  <2>4. Tree!read(Tree!Reported(p)) = last[rel]
    BY <2>2, <2>3 DEF Tree!read, Tree!ReadPath
  <2> QED BY <2>4 DEF p
<1> QED BY <1>1, <1>2, <1>3, PTL DEF Spec

=============================================================================
