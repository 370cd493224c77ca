----------------------------- MODULE AgentProofs -----------------------------
(***************************************************************************)
(* How far agents that share a ledger overshoot a budget, for any number   *)
(* of agents, any budget and any bound on the cost of a completion.        *)
(***************************************************************************)
EXTENDS Agent, FiniteSetTheorems, SequenceTheorems, TLAPS

\* The agents whose completion is under way, not charged yet.
Completing == {a \in Agents : pc[a] = "completing"}

(***************************************************************************)
(* OvershootBounded is not inductive: the ledger says nothing of what is   *)
(* still to be charged.  Each completion under way is counted at its most. *)
(***************************************************************************)
Committed == ledger + MaxCost * Cardinality(Completing)

AgentInv == /\ TypeOK
            /\ Budget # 0 /\ before < Budget
                 => Committed < Budget + MaxCost * Cardinality(Agents)

-----------------------------------------------------------------------------
(* One completion less is MaxCost less, and fewer of them are not more.    *)
LEMMA OneLess == ASSUME NEW m \in Nat, NEW n \in Nat, n > 0
                 PROVE  m * (n - 1) + m = m * n
BY SMT

LEMMA NotMore == ASSUME NEW m \in Nat, NEW k \in Nat, NEW n \in Nat, k <= n
                 PROVE  m * k <= m * n
BY SMT

(* The agents under way are counted, and are at most all of them.          *)
LEMMA Counted == /\ IsFiniteSet(Completing)
                 /\ Cardinality(Completing) \in 0..Cardinality(Agents)
                 /\ Cardinality(Agents) \in Nat
<1>1. IsFiniteSet(Agents) /\ Completing \subseteq Agents
  BY AgentAssumption DEF Completing
<1>2. /\ IsFiniteSet(Completing)
      /\ Cardinality(Completing) <= Cardinality(Agents)
  BY <1>1, FS_Subset
<1> QED BY <1>1, <1>2, FS_CardinalityType
-----------------------------------------------------------------------------
(* The initial states: nothing is under way.                               *)
LEMMA InitInv == Init => AgentInv
<1> SUFFICES ASSUME Init PROVE AgentInv
  OBVIOUS
<1>1. TypeOK
  BY AgentAssumption, ProviderAssumption DEF Init, TypeOK
<1>2. Completing = {}
  BY DEF Init, Completing
<1>3. Cardinality(Completing) = 0
  BY <1>2, FS_EmptySet
<1>4. MaxCost * Cardinality(Completing) = 0
  BY <1>3, AgentAssumption
<1>5. Committed = ledger
  BY <1>1, <1>4 DEF Committed, TypeOK
<1>6. MaxCost * 0 <= MaxCost * Cardinality(Agents)
  BY Counted, NotMore, AgentAssumption
<1>7. MaxCost * 0 = 0 /\ MaxCost * Cardinality(Agents) \in Nat
  BY Counted, AgentAssumption
<1>8. before = ledger
  BY DEF Init
<1>9. ASSUME before < Budget PROVE Committed < Budget + MaxCost * Cardinality(Agents)
  <2> DEFINE M == MaxCost * Cardinality(Agents)
  <2>1. M \in Nat
    BY <1>7
  <2> HIDE DEF M
  <2>2. ledger < Budget + M
    BY <2>1, <1>1, <1>8, <1>9, AgentAssumption DEF TypeOK
  <2> QED BY <1>5, <2>2 DEF M
<1> QED BY <1>1, <1>9 DEF AgentInv

(* What every step keeps the types of.                                     *)
LEMMA TypeStep == ASSUME TypeOK, [Next]_vars PROVE TypeOK'
<1> USE AgentAssumption, ProviderAssumption
<1>0. CASE UNCHANGED vars
  BY <1>0 DEF TypeOK, vars
<1>1. ASSUME NEW a \in Agents, NextTurn(a),
             UNCHANGED <<ledger, before, spent>>,
             calls' \in [Agents -> Nat], \A b \in Agents : calls'[b] \in 0..MaxCalls[b]
      PROVE  TypeOK'
  BY <1>1 DEF TypeOK, NextTurn, Goto, Awaiting, Ended, Exhausted
<1>2. ASSUME NEW a \in Agents, Assign(a) PROVE TypeOK'
  BY <1>2 DEF TypeOK, Assign, Goto, Awaiting
<1>3. ASSUME NEW a \in Agents, Begin(a) PROVE TypeOK'
  <2>1. CASE NextTurn(a)
    BY <1>3, <2>1, <1>1 DEF Begin, TypeOK
  <2>2. CASE ~NextTurn(a)
    BY <1>3, <2>2 DEF TypeOK, Begin, Goto, Awaiting
  <2> QED BY <2>1, <2>2
<1>4. ASSUME NEW a \in Agents, Seed(a) PROVE TypeOK'
  BY <1>4, <1>1 DEF Seed, TypeOK
<1>5. ASSUME NEW a \in Agents, NEW reply \in Replies, NEW cost \in 0..MaxCost,
             FinalAnswer(a, reply, cost)
      PROVE  TypeOK'
  BY <1>5 DEF TypeOK, FinalAnswer, Answered, Charge, Goto, Awaiting
<1>6. ASSUME NEW a \in Agents, NEW reply \in Replies, NEW cost \in 0..MaxCost,
             NEW n \in 1..MaxCalls[a], CallTools(a, reply, cost, n)
      PROVE  TypeOK'
  BY <1>6 DEF TypeOK, CallTools, Answered, Charge, Goto, Awaiting
<1>7. ASSUME NEW a \in Agents, Retry(a) PROVE TypeOK'
  BY <1>7 DEF TypeOK, Retry, Retries
<1>8. ASSUME NEW a \in Agents, NEW outcome \in {"result", "error"}, ToolAnswers(a, outcome)
      PROVE  TypeOK'
  <2>1. calls' \in [Agents -> Nat] /\ \A b \in Agents : calls'[b] \in 0..MaxCalls[b]
    BY <1>8 DEF TypeOK, ToolAnswers
  <2>2. CASE NextTurn(a)
    BY <1>8, <2>1, <2>2, <1>1 DEF ToolAnswers
  <2>3. CASE ~NextTurn(a)
    BY <1>8, <2>1, <2>3 DEF TypeOK, ToolAnswers
  <2> QED BY <2>2, <2>3
<1>9. ASSUME NEW a \in Agents, Remember(a) \/ Report(a) \/ Raise(a) PROVE TypeOK'
  BY <1>9 DEF TypeOK, Remember, Report, Raise, Goto, Awaiting, Ended
<1> QED BY <1>0, <1>2, <1>3, <1>4, <1>5, <1>6, <1>7, <1>8, <1>9 DEF Next, Step

-----------------------------------------------------------------------------
(* A completion that ends is charged at most what it counted for.          *)
LEMMA Charged ==
  ASSUME TypeOK, NEW a \in Agents, NEW reply \in Replies, NEW cost \in 0..MaxCost,
         Answered(a, reply, cost), Completing' = Completing \ {a}
  PROVE  Committed' <= Committed
<1> USE AgentAssumption
<1> DEFINE n == Cardinality(Completing)
<1>1. a \in Completing
  BY DEF Completing, Answered
<1>2. Cardinality(Completing') = n - 1
  BY <1>1, Counted, FS_RemoveElement
<1>3. n \in Nat /\ n > 0
  BY <1>1, Counted, FS_EmptySet
<1>4. MaxCost * (n - 1) + MaxCost = MaxCost * n
  BY <1>3, OneLess
<1>5. MaxCost * (n - 1) \in Nat /\ MaxCost * n \in Nat
  BY <1>3
<1>6. ledger' = ledger + cost
  BY DEF Answered, Charge
<1> HIDE DEF n
<1>7. Committed' = ledger + cost + MaxCost * (n - 1)
  BY <1>2, <1>6 DEF Committed
<1>8. Committed = ledger + MaxCost * n
  BY DEF Committed, n
<1> DEFINE p == MaxCost * (n - 1)
           q == MaxCost * n
<1> HIDE DEF p, q
<1>9. p + MaxCost = q /\ p \in Nat /\ q \in Nat
  BY <1>4, <1>5 DEF p, q
<1>10. ledger + cost + p <= ledger + q
  BY <1>9 DEF TypeOK
<1> QED BY <1>7, <1>8, <1>10 DEF p, q

(* Nothing begins and nothing is charged.                                  *)
LEMMA Quiet ==
  ASSUME TypeOK, ledger' = ledger, Completing' \subseteq Completing
  PROVE  Committed' <= Committed
<1> USE AgentAssumption
<1>1. /\ Cardinality(Completing') \in Nat /\ Cardinality(Completing) \in Nat
      /\ Cardinality(Completing') <= Cardinality(Completing)
  BY Counted, FS_Subset, FS_CardinalityType
<1> DEFINE p == MaxCost * Cardinality(Completing')
           q == MaxCost * Cardinality(Completing)
<1>2. p <= q /\ p \in Nat /\ q \in Nat
  BY <1>1, NotMore
<1> HIDE DEF p, q
<1>3. ledger + p <= ledger + q
  BY <1>2 DEF TypeOK
<1> QED BY <1>3 DEF Committed, p, q

(* What commits no more stays below the bound.                             *)
LEMMA LessIsBounded ==
  ASSUME AgentInv, TypeOK', before' = before, Committed' <= Committed
  PROVE  AgentInv'
<1> USE AgentAssumption
<1> DEFINE M == MaxCost * Cardinality(Agents)
<1>1. IsFiniteSet(Agents) /\ Completing' \subseteq Agents
  BY DEF Completing
<1>2. Cardinality(Completing') \in Nat /\ Cardinality(Completing) \in Nat
  BY <1>1, Counted, FS_Subset, FS_CardinalityType
<1>3. Committed \in Nat /\ Committed' \in Nat /\ M \in Nat
  BY <1>2, Counted DEF Committed, AgentInv, TypeOK
<1>4. ASSUME Budget # 0, before < Budget PROVE Committed' < Budget + M
  <2>1. Committed < Budget + M
    BY <1>4 DEF AgentInv
  <2> HIDE DEF M
  <2> QED BY <1>3, <2>1
<1> QED BY <1>4 DEF AgentInv

(* A turn begins a completion only while the ledger is below the budget.   *)
LEMMA TurnIsBounded ==
  ASSUME AgentInv, TypeOK', NEW a \in Agents, NextTurn(a),
         ledger' = ledger, before' = before
  PROVE  AgentInv'
<1> USE AgentAssumption
<1> DEFINE M == MaxCost * Cardinality(Agents)
<1> SUFFICES ASSUME Budget # 0, before < Budget PROVE Committed' < Budget + M
  BY DEF AgentInv
<1>0. /\ Cardinality(Completing') \in Nat
      /\ Cardinality(Completing') <= Cardinality(Agents)
      /\ Cardinality(Agents) \in Nat
  <2>1. IsFiniteSet(Agents) /\ Completing' \subseteq Agents
    BY DEF Completing
  <2> QED BY <2>1, FS_Subset, FS_CardinalityType
<1>1. CASE Exhausted \/ iteration[a] = MaxIterations
  <2>1. Completing' \subseteq Completing
    BY <1>1 DEF NextTurn, Goto, Completing, AgentInv, TypeOK
  <2>2. AgentInv'
    BY <2>1, Quiet, LessIsBounded DEF AgentInv
  <2> QED BY <2>2 DEF AgentInv
<1>2. CASE ~Exhausted
  <2> DEFINE p == MaxCost * Cardinality(Completing')
  <2>2. p <= M /\ p \in Nat /\ M \in Nat
    BY <1>0, NotMore
  <2>3. Committed' = ledger + p /\ ledger < Budget /\ ledger \in Nat
    BY <1>2 DEF Committed, Exhausted, AgentInv, TypeOK
  <2> HIDE DEF M, p
  <2> QED BY <2>2, <2>3
<1> QED BY <1>1, <1>2 DEF NextTurn
(* The invariant is inductive.                                             *)
LEMMA StepInv == AgentInv /\ [Next]_vars => AgentInv'
<1> USE AgentAssumption, ProviderAssumption
<1> SUFFICES ASSUME AgentInv, [Next]_vars PROVE AgentInv'
  OBVIOUS
<1>a. TypeOK /\ TypeOK'
  BY TypeStep DEF AgentInv
<1>b. ASSUME ledger' = ledger, before' = before, Completing' \subseteq Completing
      PROVE  AgentInv'
  BY <1>a, <1>b, Quiet, LessIsBounded
<1>c. ASSUME NEW a \in Agents, NextTurn(a), ledger' = ledger, before' = before
      PROVE  AgentInv'
  BY <1>a, <1>c, TurnIsBounded
<1>0. CASE UNCHANGED vars
  BY <1>0, <1>b DEF vars, Completing
<1>1. ASSUME NEW a \in Agents, Assign(a) PROVE AgentInv'
  BY <1>1, <1>a, <1>b DEF Assign, Goto, Completing, TypeOK
<1>2. ASSUME NEW a \in Agents, Begin(a) PROVE AgentInv'
  <2>1. CASE NextTurn(a)
    BY <1>2, <2>1, <1>c DEF Begin
  <2>2. CASE ~NextTurn(a)
    BY <1>2, <2>2, <1>a, <1>b DEF Begin, Goto, Completing, TypeOK
  <2> QED BY <2>1, <2>2
<1>3. ASSUME NEW a \in Agents, Seed(a) PROVE AgentInv'
  BY <1>3, <1>c DEF Seed
<1>4. ASSUME NEW a \in Agents, NEW reply \in Replies, NEW cost \in 0..MaxCost,
             Answered(a, reply, cost), pc'[a] # "completing",
             \E place \in Awaiting \cup Ended : Goto(a, place)
      PROVE  AgentInv'
  <2>1. Completing' = Completing \ {a}
    BY <1>4, <1>a DEF Goto, Completing, TypeOK
  <2>2. Committed' <= Committed
    BY <1>4, <1>a, <2>1, Charged
  <2>3. before' = before
    BY <1>4 DEF Answered
  <2> QED BY <1>a, <2>2, <2>3, LessIsBounded
<1>5. ASSUME NEW a \in Agents, NEW reply \in Replies, NEW cost \in 0..MaxCost,
             FinalAnswer(a, reply, cost)
      PROVE  AgentInv'
  <2>1. \E place \in Awaiting \cup Ended : Goto(a, place) /\ place # "completing"
    BY <1>5 DEF FinalAnswer, Awaiting
  <2>2. pc'[a] # "completing"
    BY <2>1, <1>a DEF Goto, TypeOK
  <2> QED BY <1>4, <1>5, <2>1, <2>2 DEF FinalAnswer
<1>6. ASSUME NEW a \in Agents, NEW reply \in Replies, NEW cost \in 0..MaxCost,
             NEW n \in 1..MaxCalls[a], CallTools(a, reply, cost, n)
      PROVE  AgentInv'
  <2>1. Goto(a, "acting") /\ "acting" \in Awaiting
    BY <1>6 DEF CallTools, Awaiting
  <2>2. pc'[a] # "completing"
    BY <2>1, <1>a DEF Goto, TypeOK
  <2> QED BY <1>4, <1>6, <2>1, <2>2 DEF CallTools
<1>7. ASSUME NEW a \in Agents, Retry(a) PROVE AgentInv'
  BY <1>7, <1>b DEF Retry, Completing
<1>8. ASSUME NEW a \in Agents, NEW outcome \in {"result", "error"}, ToolAnswers(a, outcome)
      PROVE  AgentInv'
  <2>1. CASE NextTurn(a)
    BY <1>8, <2>1, <1>c DEF ToolAnswers
  <2>2. CASE ~NextTurn(a)
    BY <1>8, <2>2, <1>b DEF ToolAnswers, Completing
  <2> QED BY <2>1, <2>2
<1>9. ASSUME NEW a \in Agents, Remember(a) \/ Report(a) \/ Raise(a) PROVE AgentInv'
  BY <1>9, <1>a, <1>b DEF Remember, Report, Raise, Goto, Completing, TypeOK
<1> QED BY <1>0, <1>1, <1>2, <1>3, <1>5, <1>6, <1>7, <1>8, <1>9 DEF Next, Step

-----------------------------------------------------------------------------
(* AgentInv holds in every reachable state.                                *)
THEOREM Invariance == Spec => []AgentInv
BY InitInv, StepInv, PTL DEF Spec

(* The states of run_task of core/agent.py have their types.               *)
THEOREM TypeCorrect == Spec => []TypeOK
<1>1. AgentInv => TypeOK
  BY DEF AgentInv
<1> QED BY Invariance, <1>1, PTL

(* However many agents share the ledger, they overshoot a budget by less   *)
(* than one completion each (agent.py:107 and 129).                        *)
THEOREM OvershootIsBounded == Spec => []OvershootBounded
<1>1. AgentInv => OvershootBounded
  <2> SUFFICES ASSUME AgentInv, Budget # 0, before < Budget
               PROVE  ledger < Budget + MaxCost * Cardinality(Agents)
    BY DEF OvershootBounded
  <2> DEFINE p == MaxCost * Cardinality(Completing)
             q == MaxCost * Cardinality(Agents)
  <2>1. p \in Nat /\ q \in Nat
    BY Counted, AgentAssumption
  <2>2. ledger + p < Budget + q /\ ledger \in Nat
    BY DEF AgentInv, Committed, TypeOK
  <2> HIDE DEF p, q
  <2>3. ledger < Budget + q
    BY <2>1, <2>2, AgentAssumption
  <2> QED BY <2>3 DEF q
<1> QED BY Invariance, <1>1, PTL

-----------------------------------------------------------------------------
(* The conversation and the scratchpad                                     *)

Roles == {"system", "user", "assistant", "result", "error"}
Said == [role : Roles, id : Nat, size : Nat]
Kept == [role : (Roles \ {"system"}) \cup {"notice"}, id : Nat, size : Nat]

Answer(m) == m.role \in {"result", "error"}

\* The calls of the messages up to n are answered among these messages.
Sound(msgs, n) ==
  \A i \in 1..n : msgs[i].role = "assistant" =>
    /\ i + msgs[i].id <= n
    /\ \A k \in 1..msgs[i].id : Answer(msgs[i + k])
    /\ i + msgs[i].id + 1 <= Len(msgs) => msgs[i + msgs[i].id + 1].role = "assistant"

\* The last assistant's message is at m and waits for some more answers.
Open(msgs, more, m) ==
  /\ msgs[m].role = "assistant" /\ Sound(msgs, m - 1)
  /\ m + msgs[m].id = Len(msgs) + more
  /\ \A i \in m + 1..Len(msgs) : Answer(msgs[i])

\* After n notices the scratchpad has the last messages of the conversation.
Follows(kept, msgs, n) ==
  LET more == Len(msgs) - (Len(kept) - n)
  IN /\ n <= Len(kept) /\ Len(kept) - n <= Len(msgs)
     /\ \A i \in 1..n : kept[i].role = "notice"
     /\ \A i \in 1..Len(kept) : i > n => kept[i].role # "notice" /\ kept[i] = msgs[more + (i - n)]
     /\ Len(msgs) > 2 => Len(kept) > n

TalkInv(a) ==
  /\ conv[a] \in Seq(Said) /\ pad[a] \in Seq(Kept)
  /\ pc[a] \in {"idle", "assigning"} => conv[a] = <<>> /\ pad[a] = <<>>
  /\ pc[a] \in {"seeding", "completing"} => Sound(conv[a], Len(conv[a]))
  /\ pc[a] = "acting" =>
       calls[a] > 0 /\ \E m \in 1..Len(conv[a]) : Open(conv[a], calls[a], m)
  /\ \E n \in {0, 1} : Follows(pad[a], conv[a], n)

ConversationInv == /\ TypeOK
                   /\ DOMAIN conv = Agents /\ DOMAIN pad = Agents
                   /\ \A a \in Agents : TalkInv(a)

\* What appending does to a sequence.
LEMMA Appended ==
  ASSUME NEW S, NEW u \in Seq(S), NEW e \in S
  PROVE  /\ Append(u, e) \in Seq(S) /\ Len(Append(u, e)) = Len(u) + 1
         /\ Append(u, e)[Len(u) + 1] = e
         /\ \A i \in 1..Len(u) : Append(u, e)[i] = u[i]
BY AppendProperties

\* The last elements of a sequence, from the one after n on.
LEMMA LastOnes ==
  ASSUME NEW S, NEW u \in Seq(S), NEW n \in 0..Len(u)
  PROVE  LET v == SubSeq(u, n + 1, Len(u))
         IN  /\ v \in Seq(S) /\ Len(v) = Len(u) - n
             /\ \A i \in 1..Len(u) - n : n + i \in 1..Len(u) /\ v[i] = u[n + i]
<1> DEFINE size == Len(u)
           first == n + 1
           v == SubSeq(u, first, size)
<1>1. size \in Nat /\ first \in Nat /\ n \in Nat /\ n <= size
  OBVIOUS
<1>2. \A i \in 1..size : u[i] \in S
  OBVIOUS
<1>3. \A i \in first..size : i \in 1..size
  BY <1>1
<1> HIDE DEF size
<1>4. \A i \in first..size : u[i] \in S
  BY <1>2, <1>3
<1> HIDE DEF first
<1>5. /\ v \in Seq(S)
      /\ Len(v) = IF first <= size THEN size - first + 1 ELSE 0
      /\ \A i \in 1..size - first + 1 : v[i] = u[first + i - 1]
  BY <1>1, <1>4, SubSeqProperties
<1> HIDE DEF v
<1>6. Len(v) = size - n
  BY <1>1, <1>5 DEF first
<1>7. ASSUME NEW i \in 1..size - n PROVE n + i \in 1..size /\ v[i] = u[n + i]
  <2>1. first + i - 1 = n + i /\ i \in 1..size - first + 1 /\ n + i \in 1..size
    BY <1>1 DEF first
  <2> QED BY <1>5, <2>1
<1> QED BY <1>5, <1>6, <1>7 DEF v, first, size

\* The places after n, counted up to i.
LEMMA PlacesAfter ==
  ASSUME NEW k \in Nat, NEW n \in 0..k
  PROVE  /\ Cardinality(n + 1..k) = k - n
         /\ \A i \in n + 1..k : Cardinality({j \in n + 1..k : j <= i}) = i - n
<1>1. ASSUME NEW i \in n..k PROVE Cardinality(n + 1..i) = i - n
  <2>1. i \in Int /\ n + 1 \in Int /\ (n + 1 > i => i = n) /\ i - (n + 1) + 1 = i - n
    OBVIOUS
  <2>2. Cardinality(n + 1..i) = IF n + 1 > i THEN 0 ELSE i - (n + 1) + 1
    BY <2>1, FS_Interval
  <2> QED BY <2>1, <2>2
<1>2. \A i \in n + 1..k : {j \in n + 1..k : j <= i} = n + 1..i
  OBVIOUS
<1>3. k \in n..k /\ \A i \in n + 1..k : i \in n..k
  OBVIOUS
<1> QED BY <1>1, <1>2, <1>3

(* What is left of a scratchpad without its notices is what comes after    *)
(* them (scratchpad.py:83).                                                *)
LEMMA RestIsAfter ==
  ASSUME NEW u \in Seq(Kept), NEW n \in 0..Len(u),
         \A i \in 1..n : u[i].role = "notice",
         \A i \in 1..Len(u) : i > n => u[i].role # "notice"
  PROVE  Rest(u) = SubSeq(u, n + 1, Len(u))
<1> DEFINE size == Len(u)
           places == {i \in DOMAIN u : ~IsSystem(u[i])}
           v == SubSeq(u, n + 1, size)
<1>1. size \in Nat /\ DOMAIN u = 1..size /\ n \in 0..size
  OBVIOUS
<1>2. \A i \in 1..size : u[i].role # "system"
  <2>1. \A i \in 1..size : u[i] \in Kept
    OBVIOUS
  <2>2. \A m \in Kept : m.role # "system"
    BY DEF Kept, Roles
  <2> QED BY <2>1, <2>2
<1>3. places = n + 1..size
  BY <1>1, <1>2 DEF IsSystem
<1>. HIDE DEF places
<1>4. Cardinality(places) = size - n
  BY <1>1, <1>3, PlacesAfter
<1>5. ASSUME NEW i \in 1..size - n
      PROVE  (CHOOSE p \in places : Cardinality({j \in places : j <= p}) = i) = n + i
  <2>1. \A p \in places : Cardinality({j \in places : j <= p}) = p - n
    <3>1. \A p \in n + 1..size : Cardinality({j \in n + 1..size : j <= p}) = p - n
      BY <1>1, PlacesAfter
    <3> QED BY <1>3, <3>1
  <2>2. n + i \in places /\ \A p \in places : p - n = i <=> p = n + i
    BY <1>1, <1>3
  <2> QED BY <2>1, <2>2
<1>6. /\ v \in Seq(Kept) /\ Len(v) = size - n
      /\ \A i \in 1..size - n : v[i] = u[n + i]
  BY LastOnes
<1>7. Rest(u) = [i \in 1..size - n |-> u[n + i]]
  <2>1. Rest(u) = [i \in 1..Cardinality(places) |->
                     u[CHOOSE p \in places : Cardinality({j \in places : j <= p}) = i]]
    BY DEF Rest, Picked, places
  <2> QED BY <1>4, <1>5, <2>1
<1> HIDE DEF v, size
<1>8. v = [i \in 1..size - n |-> v[i]]
  BY <1>6
<1> QED BY <1>6, <1>7, <1>8 DEF v, size

(* A compacted scratchpad still has the end of the conversation.           *)
LEMMA CompactedFollows ==
  ASSUME NEW u \in Seq(Kept), NEW c \in Seq(Said), NEW n \in {0, 1},
         Follows(u, c, n), Len(u) > n
  PROVE  /\ Compacted(u) \in Seq(Kept)
         /\ \E k \in {0, 1} : Follows(Compacted(u), c, k) /\ Len(Compacted(u)) > k
<1>0. n \in 0..Len(u) /\ Len(u) \in Nat /\ Len(c) \in Nat
  BY DEF Follows
<1>1. OriginalSystem(u) = <<>>
  <2>1. {i \in DOMAIN u : IsOriginal(u[i])} = {}
    <3>1. \A i \in DOMAIN u : u[i] \in Kept
      OBVIOUS
    <3>2. \A m \in Kept : ~IsOriginal(m)
      BY DEF Kept, Roles, IsOriginal
    <3> QED BY <3>1, <3>2
  <2> QED BY <2>1 DEF OriginalSystem
<1> DEFINE rest == Rest(u)
           size == Len(u) - n
<1>2. /\ rest \in Seq(Kept) /\ Len(rest) = size
      /\ \A i \in 1..size : rest[i] = u[n + i]
  <2>1. rest = SubSeq(u, n + 1, Len(u))
    BY <1>0, RestIsAfter DEF Follows
  <2> QED BY <1>0, <2>1, LastOnes
<1>3. PICK k \in 1..size : KeepTail(u) = SubSeq(rest, size - k + 1, size)
  <2> DEFINE k == IF size <= 2 THEN 1
                  ELSE IF size - 1 < TailLength THEN size - 1 ELSE TailLength
  <2>1. size \in Nat /\ size > 0 /\ TailLength \in Nat /\ TailLength > 0
    BY <1>0, ScratchpadAssumption
  <2> HIDE DEF size
  <2>2. k \in 1..size
    BY <2>1
  <2>3. rest # <<>>
    BY <1>2, <2>1
  <2>4. KeepTail(u) = SubSeq(rest, size - k + 1, size)
    BY <1>2, <2>3 DEF KeepTail
  <2> QED BY <2>2, <2>4
<1> DEFINE tail == KeepTail(u)
           back == size - k
<1>4. /\ tail \in Seq(Kept) /\ Len(tail) = k
      /\ \A i \in 1..k : tail[i] = u[n + (back + i)] /\ n + (back + i) \in 1..Len(u)
  <2>1. size \in Nat /\ back \in 0..size /\ size - back = k
    BY <1>0
  <2> HIDE DEF size, back, rest
  <2>2. /\ tail \in Seq(Kept) /\ Len(tail) = k
        /\ \A i \in 1..k : back + i \in 1..size /\ tail[i] = rest[back + i]
    BY <1>2, <1>3, <2>1, LastOnes DEF back
  <2>3. \A i \in 1..size : n + i \in 1..Len(u)
    BY <1>0 DEF size
  <2> QED BY <1>2, <2>2, <2>3
<1> DEFINE w == <<>> \o <<Notice>> \o tail
<1>5. /\ w \in Seq(Kept) /\ Len(w) = 1 + k /\ w[1] = Notice
      /\ \A i \in 1..k : w[1 + i] = tail[i]
  <2>1. Notice \in Kept /\ Notice.role = "notice"
    BY ScratchpadAssumption DEF Notice, Kept
  <2>2. <<>> \o <<Notice>> = <<Notice>>
    BY <2>1
  <2> QED BY <1>4, <2>1, <2>2, ConcatProperties
<1>6. Compacted(u) \in {u, w}
  BY <1>1 DEF Compacted
<1>7. Follows(w, c, 1)
  <2>1. /\ \A i \in 1..Len(u) : i > n => u[i].role # "notice"
                                        /\ u[i] = c[Len(c) - size + (i - n)]
        /\ size <= Len(c)
    BY DEF Follows
  <2>2. ASSUME NEW i \in 1..Len(w), i > 1
        PROVE  w[i].role # "notice" /\ w[i] = c[Len(c) - (Len(w) - 1) + (i - 1)]
    <3>1. i - 1 \in 1..k /\ 1 + (i - 1) = i
      BY <1>5, <2>2
    <3>2. w[i] = u[n + (back + (i - 1))] /\ n + (back + (i - 1)) \in 1..Len(u)
      BY <1>4, <1>5, <3>1
    <3>3. /\ n + (back + (i - 1)) > n
          /\ Len(c) - size + (n + (back + (i - 1)) - n) = Len(c) - (Len(w) - 1) + (i - 1)
      <4>1. size \in Nat /\ k \in Nat /\ k <= size /\ i \in Nat
        BY <1>0, <3>1
      <4> HIDE DEF size
      <4>2. Len(w) - 1 = k
        BY <1>5
      <4> QED BY <1>0, <4>1, <4>2, <3>1
    <3> DEFINE p == n + (back + (i - 1))
    <3>4. p \in 1..Len(u) /\ p > n /\ w[i] = u[p]
      BY <3>2, <3>3
    <3>5. Len(c) - size + (p - n) = Len(c) - (Len(w) - 1) + (i - 1)
      BY <3>3
    <3> HIDE DEF p, w, size
    <3> QED BY <2>1, <3>4, <3>5
  <2>3. Len(w) - 1 <= Len(c) /\ 1 <= Len(w) /\ Len(w) > 1
    BY <1>0, <1>5, <2>1
  <2>4. w[1].role = "notice"
    BY <1>5 DEF Notice
  <2>5. \A i \in 1..1 : w[i].role = "notice"
    BY <2>4
  <2> HIDE DEF w
  <2> QED BY <2>2, <2>3, <2>5 DEF Follows
<1>8. Len(w) > 1
  BY <1>5
<1> QED BY <1>5, <1>6, <1>7, <1>8

(* What is said is appended to both.                                       *)
LEMMA AppendedFollows ==
  ASSUME NEW u \in Seq(Kept), NEW c \in Seq(Said), NEW n \in {0, 1},
         Follows(u, c, n), NEW m \in Said \cap Kept
  PROVE  Follows(Append(u, m), Append(c, m), n) /\ Len(Append(u, m)) > n
<1> DEFINE v == Append(u, m)
           d == Append(c, m)
<1>0. Len(u) \in Nat /\ Len(c) \in Nat /\ n \in Nat /\ n <= Len(u) /\ Len(u) - n <= Len(c)
  BY DEF Follows
<1>1. /\ Len(v) = Len(u) + 1 /\ v[Len(u) + 1] = m
      /\ \A i \in 1..Len(u) : v[i] = u[i]
  BY Appended
<1>2. /\ Len(d) = Len(c) + 1 /\ d[Len(c) + 1] = m
      /\ \A i \in 1..Len(c) : d[i] = c[i]
  BY Appended
<1>3. m.role # "notice"
  BY DEF Said, Roles
<1> HIDE DEF v, d
<1>4. \A i \in 1..n : v[i].role = "notice"
  BY <1>0, <1>1 DEF Follows
<1>5. ASSUME NEW i \in 1..Len(v), i > n
      PROVE  v[i].role # "notice" /\ v[i] = d[Len(d) - (Len(v) - n) + (i - n)]
  <2>1. CASE i = Len(u) + 1
    <3>1. Len(d) - (Len(v) - n) + (i - n) = Len(c) + 1
      BY <1>0, <1>1, <1>2, <2>1
    <3> QED BY <1>1, <1>2, <1>3, <2>1, <3>1
  <2>2. CASE i # Len(u) + 1
    <3>1. i \in 1..Len(u)
      BY <1>0, <1>1, <2>2
    <3> DEFINE p == Len(c) - (Len(u) - n) + (i - n)
    <3>2. Len(d) - (Len(v) - n) + (i - n) = p /\ p \in 1..Len(c)
      BY <1>0, <1>1, <1>2, <1>5, <3>1
    <3>3. u[i].role # "notice" /\ u[i] = c[p]
      BY <1>5, <3>1 DEF Follows
    <3> HIDE DEF p
    <3> QED BY <1>1, <1>2, <3>1, <3>2, <3>3
  <2> QED BY <2>1, <2>2
<1>6. n <= Len(v) /\ Len(v) - n <= Len(d) /\ Len(v) > n
  BY <1>0, <1>1, <1>2
<1>7. Follows(v, d, n)
  BY <1>4, <1>5, <1>6 DEF Follows
<1> QED BY <1>6, <1>7 DEF v, d

(* A message that is said is in the conversation and on the scratchpad.    *)
LEMMA SaidFollows ==
  ASSUME NEW u \in Seq(Kept), NEW c \in Seq(Said), NEW m \in Said \cap Kept,
         \E n \in {0, 1} : Follows(u, c, n)
  PROVE  /\ append_message(u, m) \in Seq(Kept)
         /\ \E n \in {0, 1} : Follows(append_message(u, m), Append(c, m), n)
<1>1. PICK n \in {0, 1} : Follows(u, c, n)
  OBVIOUS
<1>2. Append(u, m) \in Seq(Kept) /\ Append(c, m) \in Seq(Said)
  BY Appended
<1>3. Follows(Append(u, m), Append(c, m), n) /\ Len(Append(u, m)) > n
  BY <1>1, AppendedFollows
<1> QED BY <1>2, <1>3, CompactedFollows DEF append_message

-----------------------------------------------------------------------------
(* A completion with tool calls opens what is to be answered.              *)
LEMMA CallOpens ==
  ASSUME NEW c \in Seq(Said), NEW m \in Said, Sound(c, Len(c)), m.role = "assistant", m.id > 0
  PROVE  Open(Append(c, m), m.id, Len(c) + 1)
<1> DEFINE d == Append(c, m)
<1>1. /\ Len(c) \in Nat /\ Len(d) = Len(c) + 1 /\ d[Len(c) + 1] = m
      /\ \A i \in 1..Len(c) : d[i] = c[i] /\ c[i].id \in Nat
  <2>1. \A i \in 1..Len(c) : c[i] \in Said
    OBVIOUS
  <2>2. \A x \in Said : x.id \in Nat
    BY DEF Said
  <2> QED BY <2>1, <2>2, Appended
<1> HIDE DEF d
<1>2. Sound(d, Len(c))
  <2> SUFFICES ASSUME NEW i \in 1..Len(c), d[i].role = "assistant"
               PROVE  /\ i + d[i].id <= Len(c)
                      /\ \A k \in 1..d[i].id : Answer(d[i + k])
                      /\ i + d[i].id + 1 <= Len(d) => d[i + d[i].id + 1].role = "assistant"
    BY DEF Sound
  <2> DEFINE n == c[i].id
  <2>1. /\ d[i].id = n /\ n \in Nat /\ i + n <= Len(c)
        /\ \A k \in 1..n : Answer(c[i + k])
        /\ i + n + 1 <= Len(c) => c[i + n + 1].role = "assistant"
    BY <1>1 DEF Sound
  <2> HIDE DEF n
  <2>2. \A k \in 1..n : i + k \in 1..Len(c)
    BY <1>1, <2>1
  <2>3. /\ i + n <= Len(c)
        /\ \A k \in 1..n : Answer(d[i + k])
    BY <1>1, <2>1, <2>2
  <2>4. ASSUME i + n + 1 <= Len(d) PROVE d[i + n + 1].role = "assistant"
    <3>1. i + n + 1 \in 1..Len(c) \/ i + n + 1 = Len(c) + 1
      BY <1>1, <2>1, <2>4
    <3>2. CASE i + n + 1 \in 1..Len(c)
      <4>1. i + n + 1 <= Len(c)
        BY <1>1, <3>2
      <4> QED BY <1>1, <2>1, <3>2, <4>1
    <3>3. CASE i + n + 1 = Len(c) + 1
      BY <1>1, <3>3
    <3> QED BY <3>1, <3>2, <3>3
  <2> QED BY <2>1, <2>3, <2>4
<1>3. \A i \in Len(c) + 1 + 1..Len(d) : Answer(d[i])
  BY <1>1
<1>4. Len(c) + 1 + m.id = Len(d) + m.id /\ Len(c) + 1 - 1 = Len(c)
  BY <1>1
<1> QED BY <1>1, <1>2, <1>3, <1>4 DEF Open, d

(* An answer leaves one call less to answer, or nothing.                   *)
LEMMA AnswerCloses ==
  ASSUME NEW c \in Seq(Said), NEW more \in Nat, more > 0, NEW m \in 1..Len(c),
         Open(c, more, m), NEW e \in Said, Answer(e)
  PROVE  /\ m \in 1..Len(Append(c, e)) /\ Open(Append(c, e), more - 1, m)
         /\ more = 1 => Sound(Append(c, e), Len(Append(c, e)))
<1> DEFINE d == Append(c, e)
<1>1. /\ Len(c) \in Nat /\ Len(d) = Len(c) + 1 /\ d[Len(c) + 1] = e
      /\ \A i \in 1..Len(c) : d[i] = c[i] /\ c[i].id \in Nat
  <2>1. \A i \in 1..Len(c) : c[i] \in Said
    OBVIOUS
  <2>2. \A x \in Said : x.id \in Nat
    BY DEF Said
  <2> QED BY <2>1, <2>2, Appended
<1>2. m \in 1..Len(c) /\ m \in 1..Len(d) /\ d[m] = c[m]
  BY <1>1
<1>a. \A x : Answer(x) => x.role # "assistant"
  BY DEF Answer
<1> HIDE DEF d
<1>3. /\ c[m].role = "assistant" /\ Sound(c, m - 1)
      /\ m + c[m].id = Len(c) + more
      /\ \A i \in m + 1..Len(c) : Answer(c[i])
  BY DEF Open
<1>4. Sound(d, m - 1)
  <2> SUFFICES ASSUME NEW i \in 1..m - 1, d[i].role = "assistant"
               PROVE  /\ i + d[i].id <= m - 1
                      /\ \A k \in 1..d[i].id : Answer(d[i + k])
                      /\ i + d[i].id + 1 <= Len(d) => d[i + d[i].id + 1].role = "assistant"
    BY DEF Sound
  <2> DEFINE n == c[i].id
  <2>0. i \in 1..Len(c)
    BY <1>1
  <2>1. /\ d[i].id = n /\ n \in Nat /\ i + n <= m - 1
        /\ \A k \in 1..n : Answer(c[i + k])
        /\ i + n + 1 <= Len(c) => c[i + n + 1].role = "assistant"
    BY <1>1, <1>3, <2>0 DEF Sound
  <2> HIDE DEF n
  <2>2. \A k \in 1..n : i + k \in 1..Len(c)
    BY <1>1, <1>2, <2>1
  <2>3. i + n + 1 \in 1..Len(c) /\ i + n + 1 <= Len(c)
    BY <1>1, <1>2, <2>1
  <2> QED BY <1>1, <2>1, <2>2, <2>3
<1>5. \A i \in m + 1..Len(d) : Answer(d[i])
  <2>1. \A i \in m + 1..Len(d) : i \in m + 1..Len(c) \/ i = Len(c) + 1
    BY <1>1, <1>2
  <2>2. \A i \in m + 1..Len(c) : i \in 1..Len(c)
    BY <1>1, <1>2
  <2> QED BY <1>1, <1>3, <2>1, <2>2
<1>6. m + d[m].id = Len(d) + (more - 1)
  BY <1>1, <1>2, <1>3
<1>7. Open(d, more - 1, m)
  BY <1>2, <1>3, <1>4, <1>5, <1>6 DEF Open
<1>8. ASSUME more = 1 PROVE Sound(d, Len(d))
  <2> SUFFICES ASSUME NEW i \in 1..Len(d), d[i].role = "assistant"
               PROVE  /\ i + d[i].id <= Len(d)
                      /\ \A k \in 1..d[i].id : Answer(d[i + k])
                      /\ i + d[i].id + 1 <= Len(d) => d[i + d[i].id + 1].role = "assistant"
    BY DEF Sound
  <2>1. CASE i \in 1..m - 1
    <3>1. i + d[i].id <= m - 1 /\ d[i].id \in Nat
      <4>1. i \in 1..Len(c)
        BY <1>2, <1>1, <2>1
      <4> QED BY <1>1, <1>4, <2>1, <4>1 DEF Sound
    <3>2. i + d[i].id <= Len(d)
      BY <1>1, <1>2, <3>1
    <3> QED BY <1>4, <2>1, <3>2 DEF Sound
  <2>2. CASE i = m
    <3>1. i + d[i].id = Len(d) /\ d[i].id \in Nat
      BY <1>1, <1>2, <1>6, <1>8, <2>2
    <3>2. \A k \in 1..d[i].id : i + k \in m + 1..Len(d)
      BY <1>1, <1>2, <2>2, <3>1
    <3>3. i + d[i].id <= Len(d) /\ ~(i + d[i].id + 1 <= Len(d))
      BY <1>1, <3>1
    <3> QED BY <1>5, <3>2, <3>3
  <2>3. CASE i \in m + 1..Len(d)
    BY <1>5, <1>a, <2>3
  <2> QED BY <1>1, <1>2, <2>1, <2>2, <2>3
<1> QED BY <1>2, <1>7, <1>8 DEF d

-----------------------------------------------------------------------------
(* The initial states: nothing has been said.                              *)
LEMMA ConversationBegins == Init => ConversationInv
<1> SUFFICES ASSUME Init PROVE ConversationInv
  OBVIOUS
<1>1. TypeOK
  BY InitInv DEF AgentInv
<1>2. Follows(<<>>, <<>>, 0)
  BY DEF Follows
<1>3. <<>> \in Seq(Said) /\ <<>> \in Seq(Kept)
  OBVIOUS
<1>4. \A a \in Agents : conv[a] = <<>> /\ pad[a] = <<>> /\ pc[a] = "idle"
  BY DEF Init
<1>5. DOMAIN conv = Agents /\ DOMAIN pad = Agents
  BY DEF Init
<1> QED BY <1>1, <1>2, <1>3, <1>4, <1>5 DEF ConversationInv, TalkInv

(* Nothing is said, and the agent does not come to where answers are due.  *)
LEMMA SilentTalks ==
  ASSUME NEW a \in Agents, TalkInv(a), conv'[a] = conv[a], pad'[a] = pad[a],
         pc'[a] \in {"idle", "assigning"} => pc[a] \in {"idle", "assigning"},
         pc'[a] \in {"seeding", "completing"} => pc[a] \in {"seeding", "completing"},
         pc'[a] = "acting" => pc[a] = "acting" /\ calls'[a] = calls[a]
  PROVE  TalkInv(a)'
BY DEF TalkInv

(* The head of the loop leads to no place where answers are due.           *)
LEMMA TurnGoes ==
  ASSUME TypeOK, NEW a \in Agents, NextTurn(a)
  PROVE  pc'[a] \in {"completing", "overBudget", "outOfTurns"}
BY DEF NextTurn, Goto, TypeOK

(* The messages with which a task begins.                                  *)
LEMMA BeginTalks ==
  ASSUME ConversationInv, NEW a \in Agents, Begin(a) PROVE TalkInv(a)'
<1> DEFINE c == <<Message("system", 0), Message("user", 0)>>
<1>1. pad'[a] = <<>> /\ conv'[a] = c
  BY DEF Begin, ConversationInv, TalkInv
<1>2. Message("system", 0) \in Said /\ Message("user", 0) \in Said
  BY DEF Message, Said, Roles
<1>3. c \in Seq(Said) /\ Len(c) = 2
  BY <1>2
<1>4. \A i \in 1..2 : c[i].role # "assistant"
  BY DEF Message
<1>5. pc'[a] \in {"seeding", "completing", "overBudget", "outOfTurns"}
  BY TurnGoes DEF ConversationInv, Begin, Goto, TypeOK
<1> HIDE DEF c
<1>6. Sound(c, Len(c))
  BY <1>3, <1>4 DEF Sound
<1>7. Follows(<<>>, c, 0)
  BY <1>3 DEF Follows
<1>8. <<>> \in Seq(Kept)
  OBVIOUS
<1> QED BY <1>1, <1>3, <1>5, <1>6, <1>7, <1>8 DEF TalkInv

(* What is said joins both.                                                *)
LEMMA SayJoins ==
  ASSUME ConversationInv, NEW a \in Agents, NEW m \in Said \cap Kept, Say(a, m)
  PROVE  /\ conv'[a] = Append(conv[a], m) /\ conv'[a] \in Seq(Said)
         /\ pad'[a] \in Seq(Kept)
         /\ \E n \in {0, 1} : Follows(pad'[a], conv'[a], n)
<1>1. conv'[a] = Append(conv[a], m) /\ pad'[a] = append_message(pad[a], m)
  BY DEF Say, ConversationInv
<1>2. /\ conv[a] \in Seq(Said) /\ pad[a] \in Seq(Kept)
      /\ \E n \in {0, 1} : Follows(pad[a], conv[a], n)
  BY DEF ConversationInv, TalkInv
<1>3. Append(conv[a], m) \in Seq(Said)
  BY <1>2, Appended
<1> QED BY <1>1, <1>2, <1>3, SaidFollows

LEMMA CallTalks ==
  ASSUME ConversationInv, NEW a \in Agents, NEW reply \in Replies, NEW cost \in 0..MaxCost,
         NEW n \in 1..MaxCalls[a], CallTools(a, reply, cost, n)
  PROVE  TalkInv(a)'
<1> DEFINE m == Message("assistant", n)
<1>1. n \in Nat /\ n > 0
  BY AgentAssumption
<1>2. m \in Said \cap Kept /\ m.role = "assistant" /\ m.id = n
  BY <1>1 DEF Message, Said, Kept, Roles
<1>3. pc[a] = "completing" /\ pc'[a] = "acting" /\ calls'[a] = n /\ Say(a, m)
  BY DEF CallTools, Answered, Goto, ConversationInv, TypeOK
<1> HIDE DEF m
<1>4. conv[a] \in Seq(Said) /\ Sound(conv[a], Len(conv[a]))
  BY <1>3 DEF ConversationInv, TalkInv
<1>5. Open(Append(conv[a], m), n, Len(conv[a]) + 1)
  BY <1>1, <1>2, <1>4, CallOpens
<1>6. Len(conv[a]) + 1 \in 1..Len(Append(conv[a], m))
  BY <1>2, <1>4, Appended
<1>7. /\ conv'[a] = Append(conv[a], m) /\ conv'[a] \in Seq(Said)
      /\ pad'[a] \in Seq(Kept)
      /\ \E k \in {0, 1} : Follows(pad'[a], conv'[a], k)
  BY <1>2, <1>3, SayJoins
<1> QED BY <1>1, <1>3, <1>5, <1>6, <1>7 DEF TalkInv

LEMMA AnswerTalks ==
  ASSUME ConversationInv, NEW a \in Agents, NEW outcome \in {"result", "error"},
         ToolAnswers(a, outcome)
  PROVE  TalkInv(a)'
<1> DEFINE e == Message(outcome, calls[a])
           more == calls[a]
<1>1. pc[a] = "acting" /\ Say(a, e) /\ more \in Nat /\ more > 0 /\ calls'[a] = more - 1
  BY DEF ToolAnswers, ConversationInv, TypeOK, TalkInv
<1>2. e \in Said \cap Kept /\ Answer(e)
  BY <1>1 DEF Message, Said, Kept, Roles, Answer
<1>3. \/ more > 1 /\ pc'[a] = "acting"
      \/ more = 1 /\ pc'[a] \in {"completing", "overBudget", "outOfTurns"}
  BY <1>1, TurnGoes DEF ToolAnswers, ConversationInv
<1> HIDE DEF e
<1>4. conv[a] \in Seq(Said) /\ \E m \in 1..Len(conv[a]) : Open(conv[a], more, m)
  BY <1>1 DEF ConversationInv, TalkInv
<1>5. PICK m \in 1..Len(conv[a]) : Open(conv[a], more, m)
  BY <1>4
<1> HIDE DEF more
<1>6. /\ m \in 1..Len(Append(conv[a], e)) /\ Open(Append(conv[a], e), more - 1, m)
      /\ more = 1 => Sound(Append(conv[a], e), Len(Append(conv[a], e)))
  BY <1>1, <1>2, <1>4, <1>5, AnswerCloses
<1>7. /\ conv'[a] = Append(conv[a], e) /\ conv'[a] \in Seq(Said)
      /\ pad'[a] \in Seq(Kept)
      /\ \E k \in {0, 1} : Follows(pad'[a], conv'[a], k)
  BY <1>1, <1>2, SayJoins
<1>8. CASE more > 1 /\ pc'[a] = "acting"
  <2>1. more - 1 > 0 /\ calls'[a] = more - 1
    BY <1>1, <1>8
  <2> QED BY <1>6, <1>7, <1>8, <2>1 DEF TalkInv
<1>9. CASE more = 1 /\ pc'[a] \in {"completing", "overBudget", "outOfTurns"}
  BY <1>6, <1>7, <1>9 DEF TalkInv
<1> QED BY <1>3, <1>8, <1>9

(* A step of one agent leaves the others' conversations alone.             *)
LEMMA OneSpeaks ==
  ASSUME ConversationInv, NEW a \in Agents, Step(a)
  PROVE  /\ DOMAIN conv' = Agents /\ DOMAIN pad' = Agents
         /\ \A b \in Agents \ {a} : /\ conv'[b] = conv[b] /\ pad'[b] = pad[b]
                                   /\ calls'[b] = calls[b] /\ pc'[b] = pc[b]
<1> USE DEF Goto
<1>0. /\ DOMAIN conv = Agents /\ DOMAIN pad = Agents
      /\ DOMAIN calls = Agents /\ DOMAIN pc = Agents
  BY DEF ConversationInv, TypeOK
<1> DEFINE Others == /\ DOMAIN conv' = Agents /\ DOMAIN pad' = Agents
                     /\ \A b \in Agents \ {a} : /\ conv'[b] = conv[b] /\ pad'[b] = pad[b]
                                               /\ calls'[b] = calls[b] /\ pc'[b] = pc[b]
<1>1. CASE Assign(a) \/ Retry(a) \/ Remember(a) \/ Report(a) \/ Raise(a)
  BY <1>0, <1>1 DEF Assign, Retry, Remember, Report, Raise
<1>2. CASE Begin(a) \/ Seed(a)
  BY <1>0, <1>2 DEF Begin, Seed, NextTurn
<1>3. ASSUME NEW reply, NEW cost, FinalAnswer(a, reply, cost) PROVE Others
  BY <1>0, <1>3 DEF FinalAnswer
<1>4. ASSUME NEW reply, NEW cost, NEW n, CallTools(a, reply, cost, n) PROVE Others
  BY <1>0, <1>4 DEF CallTools, Say
<1>5. ASSUME NEW outcome, ToolAnswers(a, outcome) PROVE Others
  BY <1>0, <1>5 DEF ToolAnswers, Say, NextTurn
<1> HIDE DEF Others
<1>6. Others
  BY <1>1, <1>2, <1>3, <1>4, <1>5 DEF Step, Others
<1> QED BY <1>6 DEF Others

(* The invariant is inductive: a step is of one agent.                     *)
LEMMA ConversationStep == ConversationInv /\ [Next]_vars => ConversationInv'
<1> SUFFICES ASSUME ConversationInv, [Next]_vars PROVE ConversationInv'
  OBVIOUS
<1>1. TypeOK /\ TypeOK'
  BY TypeStep DEF ConversationInv
<1>2. CASE UNCHANGED vars
  BY <1>1, <1>2 DEF ConversationInv, TalkInv, vars
<1>3. ASSUME NEW a \in Agents, Step(a) PROVE ConversationInv'
  <2>1. /\ DOMAIN conv' = Agents /\ DOMAIN pad' = Agents
        /\ \A b \in Agents \ {a} : /\ conv'[b] = conv[b] /\ pad'[b] = pad[b]
                                  /\ calls'[b] = calls[b] /\ pc'[b] = pc[b]
    BY <1>1, <1>3, OneSpeaks
  <2>2. \A b \in Agents \ {a} : TalkInv(b)'
    BY <2>1, SilentTalks DEF ConversationInv
  <2>3. TalkInv(a)
    BY DEF ConversationInv
  <2>4. ASSUME Assign(a) PROVE TalkInv(a)'
    BY <1>1, <1>3, <2>3, <2>4, SilentTalks DEF Assign, Goto, TypeOK
  <2>5. ASSUME Begin(a) PROVE TalkInv(a)'
    BY <1>3, <2>5, BeginTalks
  <2>6. ASSUME Seed(a) PROVE TalkInv(a)'
    BY <1>1, <1>3, <2>3, <2>6, SilentTalks, TurnGoes DEF Seed
  <2>7. ASSUME NEW reply \in Replies, NEW cost \in 0..MaxCost, FinalAnswer(a, reply, cost)
        PROVE  TalkInv(a)'
    BY <1>1, <1>3, <2>3, <2>7, SilentTalks DEF FinalAnswer, Goto, TypeOK
  <2>8. ASSUME NEW reply \in Replies, NEW cost \in 0..MaxCost, NEW n \in 1..MaxCalls[a],
               CallTools(a, reply, cost, n)
        PROVE  TalkInv(a)'
    BY <1>3, <2>8, CallTalks
  <2>9. ASSUME Retry(a) PROVE TalkInv(a)'
    BY <1>3, <2>3, <2>9, SilentTalks DEF Retry
  <2>10. ASSUME NEW outcome \in {"result", "error"}, ToolAnswers(a, outcome)
         PROVE  TalkInv(a)'
    BY <1>3, <2>10, AnswerTalks
  <2>11. ASSUME Remember(a) \/ Report(a) \/ Raise(a) PROVE TalkInv(a)'
    BY <1>1, <1>3, <2>3, <2>11, SilentTalks DEF Remember, Report, Raise, Goto, TypeOK
  <2>12. TalkInv(a)'
    <3>1. \/ Assign(a) \/ Begin(a) \/ Seed(a) \/ Retry(a)
          \/ \E reply \in Replies, cost \in 0..MaxCost :
               \/ FinalAnswer(a, reply, cost)
               \/ \E n \in 1..MaxCalls[a] : CallTools(a, reply, cost, n)
          \/ \E outcome \in {"result", "error"} : ToolAnswers(a, outcome)
          \/ Remember(a) \/ Report(a) \/ Raise(a)
      BY <1>3 DEF Step
    <3> QED BY <3>1, <2>4, <2>5, <2>6, <2>7, <2>8, <2>9, <2>10, <2>11
  <2> QED BY <1>1, <2>1, <2>2, <2>12 DEF ConversationInv
<1> QED BY <1>2, <1>3 DEF Next

THEOREM ConversationInvariance == Spec => []ConversationInv
BY ConversationBegins, ConversationStep, PTL DEF Spec

(* Whatever tools do, refuse or raise, the model is never sent a           *)
(* conversation in which a tool call is unanswered (agent.py:182), for any *)
(* number of calls.                                                        *)
THEOREM CallsAreAnswered == Spec => []EveryCallIsAnswered
<1>1. ASSUME ConversationInv PROVE EveryCallIsAnswered
  <2> SUFFICES ASSUME NEW a \in Agents, pc[a] = "completing" PROVE WellFormed(conv[a])
    BY DEF EveryCallIsAnswered
  <2>1. conv[a] \in Seq(Said) /\ Sound(conv[a], Len(conv[a]))
    BY <1>1 DEF ConversationInv, TalkInv
  <2> QED BY <2>1 DEF Sound, WellFormed, Answer
<1> QED BY <1>1, ConversationInvariance, PTL

(* The scratchpad stays in step with the conversation through any number   *)
(* of compactions (scratchpad.py:72), whatever the limits are.             *)
THEOREM PadFollows == Spec => []PadFollowsConversation
<1>1. ASSUME ConversationInv PROVE PadFollowsConversation
  <2> SUFFICES ASSUME NEW a \in Agents
               PROVE  /\ Rest(pad[a]) = SubSeq(conv[a], Len(conv[a]) - Len(Rest(pad[a])) + 1,
                                               Len(conv[a]))
                      /\ Len(conv[a]) > 2 => Rest(pad[a]) # <<>>
    BY DEF PadFollowsConversation
  <2> DEFINE u == pad[a]
             c == conv[a]
  <2>1. u \in Seq(Kept) /\ c \in Seq(Said)
    BY <1>1 DEF ConversationInv, TalkInv
  <2>2. PICK n \in {0, 1} : Follows(u, c, n)
    BY <1>1 DEF ConversationInv, TalkInv
  <2> HIDE DEF u, c
  <2>3. Len(u) \in Nat /\ Len(c) \in Nat /\ n \in 0..Len(u) /\ Len(u) - n \in 0..Len(c)
    BY <2>1, <2>2 DEF Follows
  <2> DEFINE size == Len(u) - n
             more == Len(c) - size
             rest == SubSeq(u, n + 1, Len(u))
             tail == SubSeq(c, more + 1, Len(c))
  <2>4. Rest(u) = rest
    BY <2>1, <2>2, <2>3, RestIsAfter DEF Follows
  <2>5. /\ rest \in Seq(Kept) /\ Len(rest) = size
        /\ \A i \in 1..size : n + i \in 1..Len(u) /\ rest[i] = u[n + i]
    BY <2>1, <2>3, LastOnes
  <2>6. more \in 0..Len(c) /\ Len(c) - more = size /\ size \in Nat
    BY <2>3
  <2> HIDE DEF more
  <2>7. /\ tail \in Seq(Said) /\ Len(tail) = size
        /\ \A i \in 1..size : tail[i] = c[more + i]
    BY <2>1, <2>6, LastOnes
  <2>8. ASSUME NEW i \in 1..size PROVE rest[i] = tail[i]
    <3>1. n + i > n /\ n + i - n = i /\ n + i \in 1..Len(u)
      BY <2>3, <2>5
    <3>2. u[n + i] = c[more + (n + i - n)]
      BY <2>2, <3>1 DEF Follows, more
    <3> QED BY <2>5, <2>7, <3>1, <3>2
  <2> HIDE DEF rest, tail, size
  <2>9. rest = tail
    <3>1. rest = [i \in 1..size |-> rest[i]] /\ tail = [i \in 1..size |-> tail[i]]
      BY <2>5, <2>7
    <3> QED BY <2>8, <3>1
  <2>10. Rest(u) = SubSeq(c, Len(c) - Len(Rest(u)) + 1, Len(c))
    BY <2>4, <2>5, <2>9 DEF tail, more
  <2>11. ASSUME Len(c) > 2 PROVE Rest(u) # <<>>
    <3>1. size > 0
      BY <2>2, <2>3, <2>11 DEF Follows, size
    <3> QED BY <2>4, <2>5, <3>1
  <2> QED BY <2>10, <2>11 DEF u, c
<1> QED BY <1>1, ConversationInvariance, PTL

=============================================================================
