-------------------------- MODULE CollaborationProofs --------------------------
(***************************************************************************)
(* The bus keeps and orders, and a debate is heard: for any number of      *)
(* agents, channels, swarms, messages and rounds.                          *)
(***************************************************************************)
EXTENDS Collaboration, FiniteSetTheorems, SequenceTheorems, WellFoundedInduction, TLAPS

-----------------------------------------------------------------------------
(* Numbers                                                                  *)

\* A set of naturals has a least one.
LEMMA Least ==
  ASSUME NEW T, T \subseteq Nat, T # {}
  PROVE  \E x \in T : \A y \in T : x <= y
<1>1. PICK x \in T : \A y \in T : ~(<<y, x>> \in OpToRel(<, Nat))
  BY NatLessThanWellFounded, WFMin
<1>2. \A y \in T : ~(y < x)
  BY <1>1 DEF OpToRel
<1> QED BY <1>2

-----------------------------------------------------------------------------
(* A behaviour of both parts is one of each.                                *)

LEMMA PartsBegin == Init => Bus!Init /\ Sub!Init
BY DEF Init

LEMMA PartsStep ==
  [Next]_vars => /\ Bus!Next \/ UNCHANGED busVars
                 /\ Sub!Next \/ UNCHANGED subVars
BY DEF Next, vars, BusStep, SubswarmStep

-----------------------------------------------------------------------------
(* Sequences                                                                *)

\* What appending does to a sequence.
LEMMA Appended ==
  ASSUME NEW S, NEW u \in Seq(S), NEW e \in S
  PROVE  /\ Append(u, e) \in Seq(S) /\ Len(Append(u, e)) = Len(u) + 1
         /\ Append(u, e)[Len(u) + 1] = e
         /\ \A i \in 1..Len(u) : Append(u, e)[i] = u[i]
BY AppendProperties

\* One sequence behind another.
Joins(w, u, v) ==
  /\ Len(w) = Len(u) + Len(v)
  /\ \A i \in 1..Len(u) : w[i] = u[i]
  /\ \A i \in 1..Len(v) : w[Len(u) + i] = v[i]

LEMMA Joined ==
  ASSUME NEW S, NEW u \in Seq(S), NEW v \in Seq(S)
  PROVE  u \o v \in Seq(S) /\ Joins(u \o v, u, v)
<1> DEFINE a == Len(u)
           b == Len(v)
           w == u \o v
<1>1. /\ w \in Seq(S) /\ Len(w) = a + b /\ a \in Nat /\ b \in Nat
      /\ \A i \in 1..a + b : w[i] = IF i <= a THEN u[i] ELSE v[i - a]
  BY ConcatProperties
<1> HIDE DEF a, b, w
<1>2. \A i \in 1..a : i \in 1..a + b /\ i <= a
  BY <1>1
<1>3. \A i \in 1..b : a + i \in 1..a + b /\ ~(a + i <= a) /\ a + i - a = i
  BY <1>1
<1>4. (\A i \in 1..a : w[i] = u[i]) /\ \A i \in 1..b : w[a + i] = v[i]
  BY <1>1, <1>2, <1>3
<1> QED BY <1>1, <1>4 DEF a, b, w, Joins

\* The first element and what is behind it.
LEMMA HeadAndTail ==
  ASSUME NEW S, NEW u \in Seq(S), u # <<>>
  PROVE  /\ Len(u) \in Nat /\ Len(u) > 0 /\ Head(u) = u[1] /\ Head(u) \in S
         /\ Tail(u) \in Seq(S) /\ Len(Tail(u)) = Len(u) - 1
         /\ \A i \in 1..Len(u) - 1 : Tail(u)[i] = u[i + 1]
BY HeadTailProperties

-----------------------------------------------------------------------------
(* The message bus                                                          *)

Queues == Bus!Queues
Channel == Channels \cup {Bus!None}
Sending == [to : Agents \cup {Bus!None}, channel : Channel, epoch : Nat]
Listening == [queue : Queues, channel : Channel]

BusTyped ==
  /\ transport \in {"in-process", "redis"}
  /\ closes \in Nat /\ closes <= MaxCloses /\ (transport = "redis" => closes = 0)
  /\ sent \in Seq(Sending)
  /\ queues \in [Queues -> Seq(Nat)]
  /\ DOMAIN members = Channels /\ \A c \in Channels : members[c] \in Seq(Queues)
  /\ DOMAIN sub = Agents /\ \A a \in Agents : sub[a] \in Listening \cup {Bus!NoSub}
  /\ got \in [Agents -> Seq(Nat)]

\* The epoch of the queue that a reads, or would if it subscribed now.
Base(a) == IF sub[a] = Bus!NoSub THEN closes ELSE sub[a].queue[1]

\* A message is sent once, and put into a queue of its epoch.
EpochsInv ==
  /\ \A i, j \in 1..Len(sent) : i <= j => sent[i].epoch <= sent[j].epoch
  /\ \A i \in 1..Len(sent) : sent[i].epoch <= closes
  /\ \A q \in Queues : \A i \in 1..Len(queues[q]) :
       queues[q][i] \in 1..Len(sent) /\ sent[queues[q][i]].epoch = q[1]
  /\ \A a \in Agents : \A i \in 1..Len(got[a]) : got[a][i] \in 1..Len(sent)

\* An agent reads a queue of its own, and is in a channel once.
MembersInv ==
  /\ transport = "redis" => \A c \in Channels : members[c] = <<>>
  /\ \A a \in Agents : sub[a] # Bus!NoSub => /\ sub[a].queue = <<Base(a), a>>
                                            /\ Base(a) \in 0..closes
  /\ \A c \in Channels : \A i \in 1..Len(members[c]) :
       /\ members[c][i][1] = closes
       /\ sub[members[c][i][2]] = [queue |-> members[c][i], channel |-> c]
  /\ \A c \in Channels : \A i, j \in 1..Len(members[c]) :
       members[c][i] = members[c][j] => i = j

\* In order, and no message more than twice.
Tidy(u) ==
  \A i, j \in 1..Len(u) : i < j => u[i] <= u[j] /\ (i + 1 < j => u[i] < u[j])

\* What an agent has received and what it may still receive are in order.
OrderInv ==
  \A a \in Agents : \A e \in 0..MaxCloses :
    e >= Base(a) => Tidy(got[a] \o queues[<<e, a>>])

BusInv == BusTyped /\ EpochsInv /\ MembersInv /\ OrderInv /\ Bus!DirectIsKept

\* A queue is an epoch and an agent.
LEMMA QueueFacts ==
  /\ MaxCloses \in Nat /\ MaxMessages \in Nat /\ Bus!None \notin Agents \cup Channels
  /\ \A q \in Queues : q = <<q[1], q[2]>> /\ q[1] \in 0..MaxCloses /\ q[2] \in Agents
  /\ \A e \in 0..MaxCloses, a \in Agents : <<e, a>> \in Queues
  /\ Bus!NoSub \notin Listening
<1>1. /\ MaxCloses \in Nat /\ MaxMessages \in Nat /\ Bus!None \notin Agents \cup Channels
  BY CollaborationAssumption DEF Bus!BusAssumption
<1>2. /\ \A q \in Queues : q = <<q[1], q[2]>> /\ q[1] \in 0..MaxCloses /\ q[2] \in Agents
      /\ \A e \in 0..MaxCloses, a \in Agents : <<e, a>> \in Queues
  BY DEF Queues, Bus!Queues
<1>3. Bus!NoSub \notin Listening
  <2>1. \A x, y : Len(<<x, y>>) = 2 /\ Len(<<>>) = 0
    OBVIOUS
  <2>2. \A q \in Queues : q # <<>>
    BY <1>2, <2>1
  <2> QED BY <2>2 DEF Bus!NoSub, Listening
<1> QED BY <1>1, <1>2, <1>3

LEMMA BusBegins == Bus!Init => BusInv
<1> SUFFICES ASSUME Bus!Init PROVE BusInv
  OBVIOUS
<1>1. /\ sent = <<>> /\ closes = 0 /\ \A q \in Queues : queues[q] = <<>>
      /\ \A c \in Channels : members[c] = <<>>
      /\ \A a \in Agents : sub[a] = Bus!NoSub /\ got[a] = <<>>
  BY DEF Bus!Init, Queues
<1>2. BusTyped
  <2>1. transport \in {"in-process", "redis"}
    BY DEF Bus!Init, Bus!create_bus
  <2>2. queues \in [Queues -> Seq(Nat)] /\ got \in [Agents -> Seq(Nat)] /\ sent \in Seq(Sending)
    BY DEF Bus!Init, Queues
  <2>3. /\ DOMAIN members = Channels /\ DOMAIN sub = Agents
        /\ \A c \in Channels : members[c] \in Seq(Queues)
    BY DEF Bus!Init
  <2> QED BY <1>1, <2>1, <2>2, <2>3, QueueFacts DEF BusTyped
<1>3. EpochsInv
  BY <1>1 DEF EpochsInv
<1>4. MembersInv
  BY <1>1 DEF MembersInv
<1>5. OrderInv
  <2>1. Tidy(<<>> \o <<>>)
    BY DEF Tidy
  <2>2. \A a \in Agents, e \in 0..MaxCloses : got[a] \o queues[<<e, a>>] = <<>> \o <<>>
    BY <1>1, QueueFacts
  <2> QED BY <2>1, <2>2 DEF OrderInv
<1>6. Bus!DirectIsKept
  <2>1. \A a \in Agents : Bus!DirectTo(a, {closes}) = {}
    <3>1. DOMAIN sent = {}
      BY <1>1
    <3> QED BY <3>1 DEF Bus!DirectTo
  <2> QED BY <2>1 DEF Bus!DirectIsKept
<1> QED BY <1>2, <1>3, <1>4, <1>5, <1>6 DEF BusInv

\* A few copies of a new message behind what is in order.
LEMMA TidyMore ==
  ASSUME NEW g \in Seq(Nat), NEW q \in Seq(Nat), Tidy(g \o q),
         NEW m \in Nat, \A i \in 1..Len(g) : g[i] < m, \A i \in 1..Len(q) : q[i] < m,
         NEW k \in 0..2
  PROVE  LET new == q \o [i \in 1..k |-> m]
         IN  new \in Seq(Nat) /\ Tidy(g \o new)
<1> DEFINE copies == [i \in 1..k |-> m]
           new == q \o copies
           u == g \o q
           w == g \o new
           a == Len(g)
           b == Len(q)
<1>1. copies \in Seq(Nat) /\ Len(copies) = k /\ \A i \in 1..k : copies[i] = m
  OBVIOUS
<1>a. a \in Nat /\ b \in Nat
  BY LenProperties
<1> HIDE DEF copies
<1>b. new \in Seq(Nat) /\ Joins(new, q, copies)
  BY <1>1, Joined
<1>c. u \in Seq(Nat) /\ Joins(u, g, q)
  BY Joined
<1> HIDE DEF new, u
<1>d. w \in Seq(Nat) /\ Joins(w, g, new)
  BY <1>b, Joined
<1> HIDE DEF w
<1>2. /\ new \in Seq(Nat) /\ Len(new) = b + k
      /\ \A i \in 1..b : new[i] = q[i]
      /\ \A i \in 1..k : new[b + i] = m
  BY <1>1, <1>b DEF Joins
<1>3. /\ u \in Seq(Nat) /\ Len(u) = a + b /\ a \in Nat /\ b \in Nat
      /\ \A i \in 1..a : u[i] = g[i]
      /\ \A i \in 1..b : u[a + i] = q[i]
  BY <1>a, <1>c DEF Joins
<1>4. /\ w \in Seq(Nat) /\ Len(w) = a + Len(new)
      /\ \A i \in 1..a : w[i] = g[i]
      /\ \A i \in 1..Len(new) : w[a + i] = new[i]
  BY <1>d DEF Joins
<1>e. /\ \A i \in 1..a : g[i] \in Nat /\ g[i] < m
      /\ \A i \in 1..b : q[i] \in Nat /\ q[i] < m
  BY ElementOfSeq
<1> DEFINE n == a + b
<1>f. Tidy(u)
  BY DEF u
<1> HIDE DEF a, b
<1>5. Len(w) = n + k /\ n \in Nat /\ Len(u) = n /\ k \in Nat
  BY <1>2, <1>3, <1>4
<1>6. ASSUME NEW i \in 1..n PROVE w[i] = u[i] /\ u[i] \in Nat /\ u[i] < m
  <2>1. CASE i \in 1..a
    BY <1>3, <1>4, <1>e, <2>1
  <2>2. CASE i \notin 1..a
    <3> DEFINE j == i - a
    <3>1. j \in 1..b /\ i = a + j /\ j \in 1..Len(new)
      BY <1>2, <1>3, <2>2
    <3> HIDE DEF j
    <3>2. w[i] = q[j] /\ u[i] = q[j]
      BY <1>2, <1>3, <1>4, <3>1
    <3> QED BY <1>e, <3>1, <3>2
  <2> QED BY <2>1, <2>2
<1>7. ASSUME NEW i \in 1..n + k, i > n PROVE w[i] = m
  <2> DEFINE j == i - n
  <2>1. j \in 1..k /\ i = a + (b + j) /\ b + j \in 1..Len(new)
    BY <1>2, <1>3, <1>5, <1>7
  <2> HIDE DEF j
  <2> QED BY <1>2, <1>4, <2>1
<1>8. Tidy(w)
  <2> HIDE DEF n
  <2> SUFFICES ASSUME NEW i \in 1..Len(w), NEW j \in 1..Len(w), i < j
               PROVE  w[i] <= w[j] /\ (i + 1 < j => w[i] < w[j])
    BY DEF Tidy
  <2>1. CASE j <= n
    <3>1. i \in 1..n /\ j \in 1..n
      BY <1>5, <2>1
    <3>2. u[i] <= u[j] /\ (i + 1 < j => u[i] < u[j])
      BY <1>5, <1>f, <3>1 DEF Tidy
    <3> QED BY <1>6, <3>1, <3>2
  <2>2. CASE i <= n /\ j > n
    <3>1. i \in 1..n /\ j \in 1..n + k
      BY <1>5, <2>2
    <3> QED BY <1>6, <1>7, <2>2, <3>1
  <2>3. CASE i > n
    <3>1. i \in 1..n + k /\ j \in 1..n + k /\ j > n /\ ~(i + 1 < j)
      BY <1>5, <2>3
    <3> QED BY <1>7, <2>3, <3>1
  <2> QED BY <1>5, <2>1, <2>2, <2>3
<1>9. new \in Seq(Nat) /\ Tidy(g \o new)
  BY <1>2, <1>8 DEF w
<1> QED BY <1>9 DEF new, copies

\* The first message of the queue is received.
LEMMA TidyMoves ==
  ASSUME NEW g \in Seq(Nat), NEW q \in Seq(Nat), q # <<>>
  PROVE  Append(g, Head(q)) \o Tail(q) = g \o q
<1> DEFINE h == Append(g, Head(q))
           t == Tail(q)
           a == Len(g)
           b == Len(q)
<1>1. /\ a \in Nat /\ b \in Nat /\ b > 0 /\ Head(q) = q[1] /\ Head(q) \in Nat
      /\ t \in Seq(Nat) /\ Len(t) = b - 1 /\ \A i \in 1..b - 1 : t[i] = q[i + 1]
  BY HeadAndTail
<1>2. /\ h \in Seq(Nat) /\ Len(h) = a + 1 /\ h[a + 1] = q[1]
      /\ \A i \in 1..a : h[i] = g[i]
  BY <1>1, Appended
<1> HIDE DEF h, t
<1> DEFINE u == h \o t
           w == g \o q
<1>a. u \in Seq(Nat) /\ Joins(u, h, t)
  BY <1>1, <1>2, Joined
<1>b. w \in Seq(Nat) /\ Joins(w, g, q)
  BY Joined
<1> HIDE DEF u, w
<1>3. /\ u \in Seq(Nat) /\ Len(u) = (a + 1) + (b - 1)
      /\ \A i \in 1..a + 1 : u[i] = h[i]
      /\ \A i \in 1..b - 1 : u[(a + 1) + i] = t[i]
  BY <1>1, <1>2, <1>a DEF Joins
<1>4. /\ w \in Seq(Nat) /\ Len(w) = a + b
      /\ \A i \in 1..a : w[i] = g[i]
      /\ \A i \in 1..b : w[a + i] = q[i]
  BY <1>b DEF Joins
<1> HIDE DEF a, b
<1>c. /\ a \in Nat /\ b \in Nat /\ b > 0 /\ Len(u) = a + b /\ Len(w) = a + b
      /\ w[a + 1] = q[1] /\ u[a + 1] = h[a + 1] /\ h[a + 1] = q[1]
  <2>1. a \in Nat /\ b \in Nat /\ b > 0
    BY <1>1
  <2>2. a + 1 \in 1..a + 1 /\ 1 \in 1..b /\ (a + 1) + (b - 1) = a + b
    BY <2>1
  <2>3. Len(u) = a + b /\ u[a + 1] = h[a + 1]
    BY <1>3, <2>2
  <2>4. Len(w) = a + b /\ w[a + 1] = q[1]
    BY <1>4, <2>2
  <2> QED BY <1>2, <2>1, <2>3, <2>4
<1>d. /\ \A i \in 1..a : u[i] = h[i] /\ h[i] = g[i] /\ w[i] = g[i]
  <2>1. \A i \in 1..a : i \in 1..a + 1
    BY <1>1
  <2> QED BY <1>2, <1>3, <1>4, <2>1
<1>e. \A i \in 1..b - 1 : u[(a + 1) + i] = t[i] /\ t[i] = q[i + 1]
  BY <1>1, <1>3
<1>f. \A i \in 1..b : w[a + i] = q[i]
  BY <1>4
<1>5. Len(u) = Len(w)
  BY <1>c
<1>6. ASSUME NEW i \in 1..Len(w) PROVE u[i] = w[i]
  <2>1. CASE i \in 1..a
    BY <1>d, <2>1
  <2>2. CASE i = a + 1
    BY <1>c, <2>2
  <2>3. CASE i \notin 1..a /\ i # a + 1
    <3> DEFINE j == i - (a + 1)
    <3>1. j \in 1..b - 1 /\ i = (a + 1) + j /\ i = a + (j + 1) /\ j + 1 \in 1..b
      BY <1>c, <2>3
    <3> HIDE DEF j
    <3>2. u[i] = q[j + 1]
      BY <1>e, <3>1
    <3>3. w[i] = q[j + 1]
      BY <1>f, <3>1
    <3> QED BY <3>2, <3>3
  <2> QED BY <2>1, <2>2, <2>3
<1>7. u = w
  <2>1. u = [i \in 1..Len(w) |-> u[i]] /\ w = [i \in 1..Len(w) |-> w[i]]
    BY <1>3, <1>4, <1>5
  <2> QED BY <1>6, <2>1
<1> QED BY <1>7 DEF u, w, h, t

\* ... and what comes later in another queue is still in order.
LEMMA TidyLater ==
  ASSUME NEW g \in Seq(Nat), NEW q \in Seq(Nat), NEW r \in Seq(Nat), q # <<>>,
         Tidy(g \o q), Tidy(g \o r), \A i \in 1..Len(r) : Head(q) < r[i]
  PROVE  Tidy(Append(g, Head(q)) \o r)
<1> DEFINE h == Append(g, Head(q))
           a == Len(g)
           b == Len(r)
           c == Len(q)
           u == g \o q
           v == g \o r
           w == h \o r
<1>1. /\ a \in Nat /\ b \in Nat /\ c \in Nat /\ c > 0 /\ Head(q) = q[1] /\ Head(q) \in Nat
  BY HeadAndTail
<1>2. /\ h \in Seq(Nat) /\ Len(h) = a + 1 /\ h[a + 1] = q[1]
      /\ \A i \in 1..a : h[i] = g[i]
  BY <1>1, Appended
<1> HIDE DEF h
<1>c. u \in Seq(Nat) /\ Joins(u, g, q)
  BY Joined
<1>d. v \in Seq(Nat) /\ Joins(v, g, r)
  BY Joined
<1>e. w \in Seq(Nat) /\ Joins(w, h, r)
  BY <1>2, Joined
<1>f. Tidy(u) /\ Tidy(v)
  OBVIOUS
<1> HIDE DEF u, v, w
<1>3. /\ u \in Seq(Nat) /\ Len(u) = a + c
      /\ \A i \in 1..a : u[i] = g[i]
      /\ \A i \in 1..c : u[a + i] = q[i]
  BY <1>c DEF Joins
<1>4. /\ v \in Seq(Nat) /\ Len(v) = a + b
      /\ \A i \in 1..a : v[i] = g[i]
      /\ \A i \in 1..b : v[a + i] = r[i]
  BY <1>d DEF Joins
<1>5. /\ w \in Seq(Nat) /\ Len(w) = (a + 1) + b
      /\ \A i \in 1..a + 1 : w[i] = h[i]
      /\ \A i \in 1..b : w[(a + 1) + i] = r[i]
  BY <1>2, <1>e DEF Joins
<1>a. \A i \in 1..b : r[i] \in Nat /\ q[1] < r[i]
  BY <1>1, ElementOfSeq
<1>b. Tidy(u) /\ Tidy(v)
  BY <1>f
<1> HIDE DEF a, b, c
<1>6. ASSUME NEW i \in 1..a + 1 PROVE w[i] = u[i] /\ u[i] \in Nat /\ u[i] <= q[1]
  <2>1. u[a + 1] = q[1] /\ a + 1 \in 1..Len(u)
    BY <1>1, <1>3
  <2>2. i \in 1..Len(u)
    BY <1>1, <1>3
  <2>3. w[i] = u[i]
    <3>1. CASE i \in 1..a
      BY <1>2, <1>3, <1>5, <3>1
    <3>2. CASE i = a + 1
      BY <1>2, <1>5, <2>1, <3>2
    <3> QED BY <1>1, <3>1, <3>2
  <2>4. u[i] \in Nat
    BY <1>3, <2>2
  <2>5. u[i] <= q[1]
    <3>1. CASE i < a + 1
      BY <1>b, <2>1, <2>2, <3>1 DEF Tidy
    <3>2. CASE i = a + 1
      BY <1>1, <2>1, <3>2
    <3> QED BY <1>1, <3>1, <3>2
  <2> QED BY <2>3, <2>4, <2>5
<1>7. ASSUME NEW i \in 1..Len(w), i > a + 1
      PROVE  i - (a + 1) \in 1..b /\ w[i] = r[i - (a + 1)] /\ i - 1 \in 1..Len(v) /\ w[i] = v[i - 1]
  <2> DEFINE j == i - (a + 1)
  <2>1. j \in 1..b /\ i = (a + 1) + j /\ i - 1 = a + j /\ i - 1 \in 1..Len(v)
    BY <1>1, <1>4, <1>5, <1>7
  <2>2. w[(a + 1) + j] = r[j] /\ v[a + j] = r[j]
    BY <1>4, <1>5, <2>1
  <2> HIDE DEF j
  <2> QED BY <2>1, <2>2 DEF j
<1>8. Tidy(w)
  <2> SUFFICES ASSUME NEW i \in 1..Len(w), NEW j \in 1..Len(w), i < j
               PROVE  w[i] <= w[j] /\ (i + 1 < j => w[i] < w[j])
    BY DEF Tidy
  <2>1. CASE j <= a + 1
    <3>1. i \in 1..a + 1 /\ j \in 1..a + 1 /\ i \in 1..Len(u) /\ j \in 1..Len(u)
      BY <1>1, <1>3, <1>5, <2>1
    <3>2. u[i] <= u[j] /\ (i + 1 < j => u[i] < u[j])
      BY <1>b, <3>1 DEF Tidy
    <3> QED BY <1>6, <3>1, <3>2
  <2>2. CASE i <= a + 1 /\ j > a + 1
    <3>1. i \in 1..a + 1
      BY <1>1, <1>5, <2>2
    <3>2. w[i] \in Nat /\ w[i] <= q[1] /\ w[j] \in Nat /\ q[1] < w[j] /\ q[1] \in Nat
      BY <1>1, <1>6, <1>7, <1>a, <2>2, <3>1
    <3> QED BY <3>2
  <2>3. CASE i > a + 1
    <3>1. /\ i - 1 \in 1..Len(v) /\ j - 1 \in 1..Len(v) /\ i - 1 < j - 1
          /\ w[i] = v[i - 1] /\ w[j] = v[j - 1]
      <4>1. a \in Nat /\ Len(w) \in Nat /\ j > a + 1 /\ i - 1 < j - 1
        BY <1>1, <1>5, <2>3
      <4> QED BY <1>7, <2>3, <4>1
    <3>2. v[i - 1] <= v[j - 1] /\ ((i - 1) + 1 < j - 1 => v[i - 1] < v[j - 1])
      BY <1>b, <3>1 DEF Tidy
    <3> QED BY <3>1, <3>2, <1>5
  <2> QED BY <1>1, <1>5, <2>1, <2>2, <2>3
<1> QED BY <1>8 DEF w, h

\* Nothing behind what is in order, or part of it, is in order.
LEMMA TidyAlone ==
  ASSUME NEW g \in Seq(Nat), NEW q \in Seq(Nat), Tidy(g \o q)
  PROVE  Tidy(g \o <<>>)
<1> DEFINE a == Len(g)
           u == g \o q
           w == g \o <<>>
<1>1. u \in Seq(Nat) /\ Joins(u, g, q)
  BY Joined
<1>2. w \in Seq(Nat) /\ Joins(w, g, <<>>)
  <2>1. <<>> \in Seq(Nat)
    OBVIOUS
  <2> QED BY <2>1, Joined
<1>3. a \in Nat /\ Len(q) \in Nat
  BY LenProperties
<1>4. Tidy(u)
  OBVIOUS
<1> HIDE DEF u, w
<1>5. Len(w) = a /\ (\A i \in 1..a : w[i] = g[i]) /\ (\A i \in 1..a : u[i] = g[i])
  <2>1. Len(<<>>) = 0
    OBVIOUS
  <2>2. (\A i \in 1..a : w[i] = g[i]) /\ (\A i \in 1..a : u[i] = g[i])
    BY <1>1, <1>2 DEF Joins
  <2> QED BY <1>2, <1>3, <2>1, <2>2 DEF Joins
<1>6. \A i \in 1..a : i \in 1..Len(u)
  BY <1>1, <1>3 DEF Joins
<1> HIDE DEF a
<1>7. Tidy(w)
  BY <1>4, <1>5, <1>6 DEF Tidy
<1> QED BY <1>7 DEF w

\* The bus counts as the library does.
LEMMA Counted == \A T : Bus!Cardinality(T) = Cardinality(T)
BY DEF Bus!Cardinality, Cardinality

\* A queue is in a channel once, and of this epoch.
LEMMA InChannelOnce ==
  ASSUME BusInv, NEW q \in Queues, NEW c \in Channel
  PROVE  /\ Bus!InChannel(q, c) \in 0..1
         /\ Bus!InChannel(q, c) # 0 => q[1] = closes
<1> DEFINE T == {i \in DOMAIN members[c] : members[c][i] = q}
<1>1. CASE c \notin Channels
  BY <1>1 DEF Bus!InChannel
<1>2. CASE c \in Channels
  <2>1. DOMAIN members[c] = 1..Len(members[c])
    BY <1>2 DEF BusInv, BusTyped
  <2>a. Bus!InChannel(q, c) = IF c \notin Channels THEN 0 ELSE Cardinality(T)
    BY Counted DEF Bus!InChannel
  <2>b. \A j \in T : j \in 1..Len(members[c]) /\ members[c][j] = q
    BY <2>1
  <2> HIDE DEF T
  <2>2. Bus!InChannel(q, c) = Cardinality(T)
    BY <1>2, <2>a
  <2>3. CASE T = {}
    BY <2>2, <2>3, FS_EmptySet
  <2>4. CASE T # {}
    <3>1. PICK i \in T : TRUE
      BY <2>4
    <3>a. \A j \in T : j = i
      BY <1>2, <2>b, <3>1 DEF BusInv, MembersInv
    <3>2. T = {i}
      BY <3>1, <3>a
    <3>3. Cardinality({i}) = 1
      BY FS_Singleton
    <3>4. q[1] = closes
      <4>1. \A j \in 1..Len(members[c]) : members[c][j][1] = closes
        BY <1>2 DEF BusInv, MembersInv
      <4> QED BY <2>b, <3>1, <4>1
    <3> QED BY <2>2, <3>2, <3>3, <3>4
  <2> QED BY <2>3, <2>4
<1> QED BY <1>1, <1>2

\* What send() of either bus does to the queues.
Puts(m, r) ==
  /\ queues' = [q \in Queues |-> queues'[q]]
  /\ \A q \in Queues : \E k \in 0..2 :
       /\ queues'[q] = queues[q] \o [i \in 1..k |-> m]
       /\ k # 0 => q[1] = closes
       /\ transport = "in-process" /\ r # Bus!None /\ q = <<closes, r>> => k # 0

Sends(r, c) ==
  /\ sent' = Append(sent, [to |-> r, channel |-> c, epoch |-> closes])
  /\ Puts(Len(sent) + 1, r)
  /\ UNCHANGED <<transport, closes, members, sub, got>>

LEMMA SentLast ==
  ASSUME BusInv, NEW r \in Agents \cup {Bus!None}, NEW c \in Channel, Sends(r, c)
  PROVE  /\ sent' \in Seq(Sending) /\ Len(sent') = Len(sent) + 1 /\ Len(sent) \in Nat
         /\ sent'[Len(sent) + 1] = [to |-> r, channel |-> c, epoch |-> closes]
         /\ \A i \in 1..Len(sent) : sent'[i] = sent[i]
<1>1. [to |-> r, channel |-> c, epoch |-> closes] \in Sending /\ sent \in Seq(Sending)
  BY DEF BusInv, BusTyped, Sending
<1> QED BY <1>1, Appended, LenProperties DEF Sends

LEMMA SendsKeeps ==
  ASSUME BusInv, NEW r \in Agents \cup {Bus!None}, NEW c \in Channel, Sends(r, c)
  PROVE  BusInv'
<1> DEFINE m == Len(sent) + 1
<1>1. /\ sent' \in Seq(Sending) /\ Len(sent') = m /\ Len(sent) \in Nat
      /\ sent'[m] = [to |-> r, channel |-> c, epoch |-> closes]
      /\ \A i \in 1..Len(sent) : sent'[i] = sent[i]
  BY SentLast
<1>2. UNCHANGED <<transport, closes, members, sub, got>>
  BY DEF Sends
<1>3. \A a \in Agents : Base(a)' = Base(a)
  BY <1>2 DEF Base
<1>4. ASSUME NEW q \in Queues
      PROVE  /\ queues[q] \in Seq(Nat) /\ Len(queues[q]) \in Nat
             /\ \A i \in 1..Len(queues[q]) : queues[q][i] \in 1..Len(sent)
  <2>1. queues[q] \in Seq(Nat)
    BY DEF BusInv, BusTyped
  <2> QED BY <2>1, LenProperties DEF BusInv, EpochsInv
<1>5. \A q \in Queues : \E k \in 0..2 :
        /\ queues'[q] = queues[q] \o [i \in 1..k |-> m]
        /\ k # 0 => q[1] = closes
        /\ transport = "in-process" /\ r # Bus!None /\ q = <<closes, r>> => k # 0
  BY DEF Sends, Puts
<1>6. ASSUME NEW q \in Queues
      PROVE  \E k \in 0..2 :
               /\ queues'[q] \in Seq(Nat) /\ Len(queues'[q]) = Len(queues[q]) + k
               /\ \A i \in 1..Len(queues[q]) : queues'[q][i] = queues[q][i]
               /\ \A i \in 1..k : queues'[q][Len(queues[q]) + i] = m
               /\ k # 0 => q[1] = closes
               /\ transport = "in-process" /\ r # Bus!None /\ q = <<closes, r>> => k # 0
  <2>1. PICK k \in 0..2 :
           /\ queues'[q] = queues[q] \o [i \in 1..k |-> m]
           /\ k # 0 => q[1] = closes
           /\ transport = "in-process" /\ r # Bus!None /\ q = <<closes, r>> => k # 0
    BY <1>5
  <2> DEFINE copies == [i \in 1..k |-> m]
  <2>2. copies \in Seq(Nat) /\ Len(copies) = k /\ \A i \in 1..k : copies[i] = m
    BY <1>1
  <2> HIDE DEF copies
  <2>3. queues[q] \o copies \in Seq(Nat) /\ Joins(queues[q] \o copies, queues[q], copies)
    BY <1>4, <2>2, Joined
  <2>4. queues'[q] \in Seq(Nat) /\ Joins(queues'[q], queues[q], copies)
    BY <2>1, <2>3 DEF copies
  <2> QED BY <2>1, <2>2, <2>4 DEF Joins
<1>7. BusTyped'
  <2>1. queues' \in [Queues -> Seq(Nat)]
    <3>1. \A q \in Queues : queues'[q] \in Seq(Nat)
      BY <1>6
    <3>2. queues' = [q \in Queues |-> queues'[q]]
      BY DEF Sends, Puts
    <3> QED BY <3>1, <3>2
  <2> QED BY <1>1, <1>2, <2>1 DEF BusInv, BusTyped
<1>8. EpochsInv'
  <2>1. \A i \in 1..m : sent'[i].epoch <= closes
    <3>1. closes \in Nat /\ sent'[m].epoch <= closes
      BY <1>1 DEF BusInv, BusTyped
    <3>2. \A i \in 1..Len(sent) : sent'[i].epoch <= closes
      BY <1>1 DEF BusInv, EpochsInv
    <3>3. \A i \in 1..m : i = m \/ i \in 1..Len(sent)
      BY <1>1
    <3> QED BY <3>1, <3>2, <3>3
  <2>2. ASSUME NEW i \in 1..m, NEW j \in 1..m, i <= j
        PROVE  sent'[i].epoch <= sent'[j].epoch
    <3>1. CASE j = m
      BY <1>1, <2>1, <3>1
    <3>2. CASE j # m
      <4>1. i \in 1..Len(sent) /\ j \in 1..Len(sent)
        BY <1>1, <2>2, <3>2
      <4> QED BY <1>1, <2>2, <4>1 DEF BusInv, EpochsInv
    <3> QED BY <3>1, <3>2
  <2>3. ASSUME NEW q \in Queues, NEW i \in 1..Len(queues'[q])
        PROVE  queues'[q][i] \in 1..m /\ sent'[queues'[q][i]].epoch = q[1]
    <3>1. PICK k \in 0..2 :
               /\ queues'[q] \in Seq(Nat) /\ Len(queues'[q]) = Len(queues[q]) + k
               /\ \A z \in 1..Len(queues[q]) : queues'[q][z] = queues[q][z]
               /\ \A z \in 1..k : queues'[q][Len(queues[q]) + z] = m
               /\ k # 0 => q[1] = closes
      BY <1>6
    <3>2. CASE i \in 1..Len(queues[q])
      <4>1. queues'[q][i] = queues[q][i] /\ queues[q][i] \in 1..Len(sent)
        BY <1>4, <3>1, <3>2
      <4>2. sent[queues[q][i]].epoch = q[1]
        BY <3>2 DEF BusInv, EpochsInv
      <4> QED BY <1>1, <4>1, <4>2
    <3>3. CASE i \notin 1..Len(queues[q])
      <4> DEFINE l == Len(queues[q])
                 z == i - l
      <4>1. l \in Nat /\ z \in 1..k /\ i = l + z /\ k # 0
        BY <1>4, <3>1, <3>3
      <4> HIDE DEF z
      <4>2. queues'[q][i] = m
        BY <3>1, <4>1
      <4> QED BY <1>1, <3>1, <4>1, <4>2
    <3> QED BY <3>2, <3>3
  <2>4. \A a \in Agents : \A i \in 1..Len(got[a]) : got[a][i] \in 1..m
    BY <1>1 DEF BusInv, EpochsInv
  <2> QED BY <1>1, <1>2, <2>1, <2>2, <2>3, <2>4 DEF EpochsInv
<1>9. MembersInv'
  BY <1>2, <1>3 DEF BusInv, MembersInv
<1>10. OrderInv'
  <2> SUFFICES ASSUME NEW a \in Agents, NEW e \in 0..MaxCloses, e >= Base(a)
               PROVE  Tidy(got[a] \o queues'[<<e, a>>])
    BY <1>2, <1>3 DEF OrderInv
  <2> DEFINE q == <<e, a>>
  <2>1. q \in Queues
    BY QueueFacts
  <2>2. PICK k \in 0..2 : queues'[q] = queues[q] \o [i \in 1..k |-> m]
    BY <1>5, <2>1
  <2>3. Tidy(got[a] \o queues[q])
    BY DEF BusInv, OrderInv
  <2> HIDE DEF q
  <2>4. got[a] \in Seq(Nat) /\ \A i \in 1..Len(got[a]) : got[a][i] < m
    BY <1>1 DEF BusInv, BusTyped, EpochsInv
  <2>5. queues[q] \in Seq(Nat) /\ \A i \in 1..Len(queues[q]) : queues[q][i] < m
    BY <1>1, <1>4, <2>1
  <2>6. m \in Nat
    BY <1>1
  <2> HIDE DEF m
  <2>7. Tidy(got[a] \o (queues[q] \o [i \in 1..k |-> m]))
    BY <2>3, <2>4, <2>5, <2>6, TidyMore
  <2> QED BY <2>2, <2>7 DEF q
<1>11. Bus!DirectIsKept'
  <2> SUFFICES ASSUME transport = "in-process", NEW a \in Agents, NEW x \in 1..m,
                      sent'[x].to = a, sent'[x].epoch = closes
               PROVE  \/ \E i \in DOMAIN got[a] : got[a][i] = x
                      \/ \E i \in DOMAIN queues'[<<closes, a>>] : queues'[<<closes, a>>][i] = x
    BY <1>1, <1>2 DEF Bus!DirectIsKept, Bus!DirectTo, Bus!ToSet, Bus!Waiting, Bus!QueueOf
  <2> DEFINE q == <<closes, a>>
  <2>1. q \in Queues
    BY QueueFacts DEF BusInv, BusTyped
  <2> HIDE DEF q
  <2>2. PICK k \in 0..2 :
               /\ queues'[q] \in Seq(Nat) /\ Len(queues'[q]) = Len(queues[q]) + k
               /\ \A z \in 1..Len(queues[q]) : queues'[q][z] = queues[q][z]
               /\ \A z \in 1..k : queues'[q][Len(queues[q]) + z] = m
               /\ transport = "in-process" /\ r # Bus!None /\ q = <<closes, r>> => k # 0
    BY <1>6, <2>1
  <2>3. Len(queues[q]) \in Nat /\ queues[q] \in Seq(Nat)
    BY <1>4, <2>1
  <2>4. CASE x = m
    <3>1. r = a /\ r # Bus!None
      BY <1>1, <2>4, QueueFacts
    <3>2. k # 0
      BY <2>2, <3>1 DEF q
    <3>3. Len(queues[q]) + 1 \in 1..Len(queues'[q]) /\ 1 \in 1..k
      BY <2>2, <2>3, <3>2
    <3>4. queues'[q][Len(queues[q]) + 1] = x /\ Len(queues[q]) + 1 \in DOMAIN queues'[q]
      BY <2>2, <2>4, <3>3
    <3> QED BY <3>4 DEF q
  <2>5. CASE x \in 1..Len(sent)
    <3>1. sent[x].to = a /\ sent[x].epoch = closes
      BY <1>1, <2>5
    <3>2. DOMAIN sent = 1..Len(sent)
      BY DEF BusInv, BusTyped
    <3>3. \/ \E i \in DOMAIN got[a] : got[a][i] = x
          \/ \E i \in DOMAIN queues[q] : queues[q][i] = x
      BY <2>5, <3>1, <3>2
      DEF BusInv, Bus!DirectIsKept, Bus!DirectTo, Bus!ToSet, Bus!Waiting, Bus!QueueOf, q
    <3>4. \A i \in DOMAIN queues[q] : i \in DOMAIN queues'[q] /\ queues'[q][i] = queues[q][i]
      <4>1. DOMAIN queues[q] = 1..Len(queues[q]) /\ DOMAIN queues'[q] = 1..Len(queues'[q])
        BY <2>2, <2>3
      <4>2. \A i \in 1..Len(queues[q]) : i \in 1..Len(queues'[q])
        BY <2>2, <2>3
      <4> QED BY <2>2, <4>1, <4>2
    <3> QED BY <3>3, <3>4 DEF q
  <2>6. x = m \/ x \in 1..Len(sent)
    BY <1>1
  <2> QED BY <2>4, <2>5, <2>6
<1> QED BY <1>7, <1>8, <1>9, <1>10, <1>11 DEF BusInv

LEMMA SendKeeps ==
  ASSUME BusInv, NEW r \in Agents \cup {Bus!None}, NEW c \in Channel,
         Bus!send(r, c) \/ Bus!publish(r, c)
  PROVE  BusInv'
<1>1. Len(sent') = Len(sent) + 1 /\ closes \in Nat
  <2>1. [to |-> r, channel |-> c, epoch |-> closes] \in Sending /\ sent \in Seq(Sending)
    BY DEF BusInv, BusTyped, Sending
  <2>2. sent' = Append(sent, [to |-> r, channel |-> c, epoch |-> closes])
    BY DEF Bus!send, Bus!publish
  <2> QED BY <2>1, <2>2, Appended DEF BusInv, BusTyped
<1> DEFINE m == Len(sent) + 1
<1>2. CASE Bus!send(r, c)
  <2> DEFINE n == [q \in Queues |-> Bus!InChannel(q, c)
                     + (IF r # Bus!None /\ q = Bus!QueueOf(r) THEN 1 ELSE 0)]
  <2>1. queues' = [q \in Queues |-> queues[q] \o [i \in 1..n[q] |-> m]]
    BY <1>1, <1>2 DEF Bus!send, Bus!Put, Queues
  <2>2. ASSUME NEW q \in Queues
        PROVE  /\ n[q] \in 0..2 /\ (n[q] # 0 => q[1] = closes)
               /\ (r # Bus!None /\ q = <<closes, r>> => n[q] # 0)
    <3>1. Bus!InChannel(q, c) \in 0..1 /\ (Bus!InChannel(q, c) # 0 => q[1] = closes)
      BY InChannelOnce
    <3> QED BY <3>1 DEF Bus!QueueOf
  <2> HIDE DEF n, m
  <2>3. Puts(m, r)
    BY <2>1, <2>2 DEF Puts
  <2>4. Sends(r, c)
    BY <1>2, <2>3 DEF Sends, Bus!send, m
  <2> QED BY <2>4, SendsKeeps
<1>3. CASE Bus!publish(r, c)
  <2> DEFINE n == [q \in Queues |->
                     IF sub[q[2]].queue = q
                        /\ (IF r # Bus!None THEN q[2] = r ELSE sub[q[2]].channel = c)
                     THEN 1 ELSE 0]
  <2>1. queues' = [q \in Queues |-> queues[q] \o [i \in 1..n[q] |-> m]]
    BY <1>1, <1>3 DEF Bus!publish, Bus!Put, Queues
  <2>2. transport = "redis" /\ closes = 0
    BY <1>3 DEF Bus!publish, BusInv, BusTyped
  <2>3. ASSUME NEW q \in Queues
        PROVE  n[q] \in 0..2 /\ (n[q] # 0 => q[1] = closes)
    <3>1. CASE sub[q[2]].queue = q
      <4>1. q[2] \in Agents /\ q # <<>> /\ q[1] \in Nat
        <5>1. q = <<q[1], q[2]>>
          BY QueueFacts
        <5>2. \A x, y : <<x, y>> # <<>>
          OBVIOUS
        <5> QED BY <5>1, <5>2, QueueFacts
      <4>2. sub[q[2]] # Bus!NoSub
        BY <3>1, <4>1 DEF Bus!NoSub
      <4>3. q = <<Base(q[2]), q[2]>> /\ Base(q[2]) \in 0..closes
        BY <3>1, <4>1, <4>2 DEF BusInv, MembersInv
      <4> QED BY <2>2, <4>3
    <3>2. CASE sub[q[2]].queue # q
      BY <3>2
    <3> QED BY <3>1, <3>2
  <2> HIDE DEF n, m
  <2>4. Puts(m, r)
    BY <2>1, <2>2, <2>3 DEF Puts
  <2>5. Sends(r, c)
    BY <1>3, <2>4 DEF Sends, Bus!publish, m
  <2> QED BY <2>5, SendsKeeps
<1> QED BY <1>2, <1>3

\* Listening, leaving and closing take messages only out of queues.
LEMMA EmptiedKeeps ==
  ASSUME BusInv, NEW p \in Queues,
         queues' = queues \/ queues' = [queues EXCEPT ![p] = <<>>],
         UNCHANGED <<transport, sent, got>>, closes' \in Nat, closes' >= closes,
         \A a \in Agents : Base(a)' \in Nat /\ Base(a) \in Nat /\ Base(a)' >= Base(a)
  PROVE  queues' \in [Queues -> Seq(Nat)] /\ EpochsInv' /\ OrderInv'
<1>1. queues \in [Queues -> Seq(Nat)] /\ got \in [Agents -> Seq(Nat)] /\ closes \in Nat
  BY DEF BusInv, BusTyped
<1>2. ASSUME NEW q \in Queues PROVE queues'[q] = queues[q] \/ queues'[q] = <<>>
  BY <1>1
<1>3. queues' \in [Queues -> Seq(Nat)]
  <2>1. <<>> \in Seq(Nat)
    OBVIOUS
  <2> QED BY <1>1, <2>1
<1>4. EpochsInv'
  <2>1. \A i \in 1..Len(sent) : sent[i].epoch <= closes'
    <3>1. \A i \in 1..Len(sent) : sent[i].epoch <= closes /\ sent[i].epoch \in Nat
      <4>1. \A i \in 1..Len(sent) : sent[i] \in Sending
        BY ElementOfSeq DEF BusInv, BusTyped
      <4> QED BY <4>1 DEF BusInv, EpochsInv, Sending
    <3> QED BY <1>1, <3>1
  <2>2. ASSUME NEW q \in Queues, NEW i \in 1..Len(queues'[q])
        PROVE  queues'[q][i] \in 1..Len(sent) /\ sent[queues'[q][i]].epoch = q[1]
    <3>1. queues'[q] = queues[q]
      BY <1>2
    <3> QED BY <3>1 DEF BusInv, EpochsInv
  <2> QED BY <2>1, <2>2 DEF BusInv, EpochsInv
<1>5. OrderInv'
  <2> SUFFICES ASSUME NEW a \in Agents, NEW e \in 0..MaxCloses, e >= Base(a)'
               PROVE  Tidy(got[a] \o queues'[<<e, a>>])
    BY DEF OrderInv
  <2>1. e >= Base(a)
    BY QueueFacts
  <2>2. <<e, a>> \in Queues /\ got[a] \in Seq(Nat) /\ queues[<<e, a>>] \in Seq(Nat)
    BY <1>1, QueueFacts
  <2>3. Tidy(got[a] \o queues[<<e, a>>])
    BY <2>1 DEF BusInv, OrderInv
  <2>4. Tidy(got[a] \o <<>>)
    BY <2>2, <2>3, TidyAlone
  <2> QED BY <1>2, <2>2, <2>3, <2>4
<1> QED BY <1>3, <1>4, <1>5

\* The epoch that an agent reads is not a later one.
LEMMA BaseFacts ==
  ASSUME BusInv, NEW a \in Agents
  PROVE  /\ closes \in 0..MaxCloses /\ Base(a) \in 0..closes
         /\ closes \in Nat /\ Base(a) \in Nat /\ Base(a) <= closes
         /\ sub[a] = Bus!NoSub => Base(a) = closes
         /\ sub[a] # Bus!NoSub => sub[a].queue = <<Base(a), a>>
         /\ <<Base(a), a>> \in Queues /\ <<closes, a>> \in Queues
<1>1. closes \in 0..MaxCloses
  BY QueueFacts DEF BusInv, BusTyped
<1>2. (sub[a] # Bus!NoSub => Base(a) \in 0..closes /\ sub[a].queue = <<Base(a), a>>)
  BY DEF BusInv, MembersInv
<1>3. sub[a] = Bus!NoSub => Base(a) = closes
  BY DEF Base
<1>4. Base(a) \in 0..closes
  BY <1>1, <1>2, <1>3
<1>5. Base(a) \in 0..MaxCloses
  BY <1>1, <1>4, QueueFacts
<1>6. closes \in Nat /\ Base(a) \in Nat /\ Base(a) <= closes
  BY <1>1, <1>4
<1> QED BY <1>1, <1>2, <1>3, <1>4, <1>5, <1>6, QueueFacts

\* Whoever has not subscribed is in no channel.
LEMMA AwayFrom ==
  ASSUME BusInv, NEW a \in Agents, sub[a] = Bus!NoSub,
         NEW c \in Channels, NEW i \in 1..Len(members[c])
  PROVE  members[c][i] \in Queues /\ members[c][i][2] # a
<1>1. members[c][i] \in Queues
  BY ElementOfSeq DEF BusInv, BusTyped
<1>2. sub[members[c][i][2]] = [queue |-> members[c][i], channel |-> c]
  BY DEF BusInv, MembersInv
<1>3. [queue |-> members[c][i], channel |-> c] # Bus!NoSub
  <2>1. [queue |-> members[c][i], channel |-> c].channel # Bus!NoSub.channel
    BY QueueFacts DEF Bus!NoSub
  <2> QED BY <2>1
<1> QED BY <1>1, <1>2, <1>3

LEMMA SubscribeKeeps ==
  ASSUME BusInv, NEW a \in Agents, NEW c \in Channel, Bus!subscribe(a, c)
  PROVE  BusInv'
<1> DEFINE q == <<closes, a>>
           new == [queue |-> q, channel |-> c]
<1>1. /\ transport = "in-process" /\ sub[a] = Bus!NoSub
      /\ sub' = [sub EXCEPT ![a] = new]
      /\ members' = IF c = Bus!None THEN members
                    ELSE [members EXCEPT ![c] = Append(@, q)]
      /\ UNCHANGED <<transport, sent, closes, queues, got>>
  BY DEF Bus!subscribe, Bus!QueueOf
<1>2. q \in Queues /\ closes \in 0..MaxCloses
  BY BaseFacts
<1>3. new \in Listening /\ new # Bus!NoSub /\ new.queue = q /\ new.channel = c
  BY <1>2, QueueFacts DEF Listening
<1>a. q[1] = closes /\ q[2] = a
  OBVIOUS
<1> HIDE DEF new
<1>4. DOMAIN sub' = Agents /\ sub'[a] = new /\ \A b \in Agents : b # a => sub'[b] = sub[b]
  BY <1>1 DEF BusInv, BusTyped
<1>5. \A b \in Agents : Base(b)' = Base(b)
  <2>1. Base(a)' = closes /\ Base(a) = closes
    BY <1>1, <1>3, <1>4, <1>a DEF Base
  <2>2. \A b \in Agents : b # a => Base(b)' = Base(b)
    BY <1>1, <1>4 DEF Base
  <2> QED BY <2>1, <2>2
<1> HIDE DEF q
<1>6. ASSUME NEW d \in Channels
      PROVE  /\ members'[d] \in Seq(Queues) /\ Len(members[d]) \in Nat
             /\ \A i \in 1..Len(members[d]) : members'[d][i] = members[d][i]
             /\ \/ Len(members'[d]) = Len(members[d])
                \/ /\ d = c /\ Len(members'[d]) = Len(members[d]) + 1
                   /\ members'[d][Len(members[d]) + 1] = q
  <2>1. members[d] \in Seq(Queues) /\ DOMAIN members = Channels
    BY DEF BusInv, BusTyped
  <2>2. members'[d] = IF d = c THEN Append(members[d], q) ELSE members[d]
    BY <1>1, <2>1, QueueFacts
  <2>3. /\ Append(members[d], q) \in Seq(Queues) /\ Len(members[d]) \in Nat
        /\ Len(Append(members[d], q)) = Len(members[d]) + 1
        /\ Append(members[d], q)[Len(members[d]) + 1] = q
        /\ \A i \in 1..Len(members[d]) : Append(members[d], q)[i] = members[d][i]
    BY <1>2, <2>1, Appended, LenProperties
  <2> QED BY <2>1, <2>2, <2>3
<1>7. queues' \in [Queues -> Seq(Nat)] /\ EpochsInv' /\ OrderInv'
  <2>1. \A b \in Agents : Base(b)' \in Nat /\ Base(b) \in Nat /\ Base(b)' >= Base(b)
    <3>1. \A b \in Agents : Base(b) \in Nat
      BY BaseFacts
    <3> QED BY <1>5, <3>1
  <2>2. closes' \in Nat /\ closes' >= closes
    <3>1. closes \in Nat
      BY BaseFacts
    <3>2. closes' = closes
      BY <1>1
    <3> QED BY <3>1, <3>2
  <2> QED BY <1>1, <1>2, <2>1, <2>2, EmptiedKeeps
<1>8. BusTyped'
  <2>1. DOMAIN members' = Channels
    BY <1>1 DEF BusInv, BusTyped
  <2>2. \A b \in Agents : sub'[b] \in Listening \cup {Bus!NoSub}
    BY <1>3, <1>4 DEF BusInv, BusTyped
  <2> QED BY <1>1, <1>4, <1>6, <1>7, <2>1, <2>2 DEF BusInv, BusTyped
<1>9. MembersInv'
  <2>1. ASSUME NEW b \in Agents, sub'[b] # Bus!NoSub
        PROVE  sub'[b].queue = <<Base(b), b>> /\ Base(b) \in 0..closes
    <3>1. CASE b = a
      BY <1>1, <1>3, <1>4, <3>1, BaseFacts DEF q
    <3>2. CASE b # a
      BY <1>4, <2>1, <3>2, BaseFacts
    <3> QED BY <3>1, <3>2
  <2>2. ASSUME NEW d \in Channels, NEW i \in 1..Len(members'[d])
        PROVE  /\ members'[d][i][1] = closes
               /\ sub'[members'[d][i][2]] = [queue |-> members'[d][i], channel |-> d]
    <3>1. CASE i \in 1..Len(members[d])
      <4>1. members'[d][i] = members[d][i] /\ members[d][i] \in Queues /\ members[d][i][2] # a
        BY <1>1, <1>6, <3>1, AwayFrom
      <4>2. members[d][i][2] \in Agents
        BY <4>1, QueueFacts
      <4> QED BY <1>4, <3>1, <4>1, <4>2 DEF BusInv, MembersInv
    <3>2. CASE i \notin 1..Len(members[d])
      <4>1. members'[d][i] = q /\ d = c
        BY <1>6, <3>2
      <4> QED BY <1>4, <1>a, <4>1 DEF new, q
    <3> QED BY <3>1, <3>2
  <2>3. ASSUME NEW d \in Channels, NEW i \in 1..Len(members'[d]), NEW j \in 1..Len(members'[d]),
               members'[d][i] = members'[d][j]
        PROVE  i = j
    <3>1. \A k \in 1..Len(members[d]) : members'[d][k] = members[d][k] /\ members[d][k] # q
      <4>1. \A k \in 1..Len(members[d]) : members[d][k][2] # a
        BY <1>1, AwayFrom
      <4> QED BY <1>6, <1>a, <4>1
    <3>2. \A k \in 1..Len(members'[d]) :
            k \in 1..Len(members[d]) \/ (k = Len(members[d]) + 1 /\ members'[d][k] = q)
      BY <1>6
    <3>3. \A k, l \in 1..Len(members[d]) : members[d][k] = members[d][l] => k = l
      BY DEF BusInv, MembersInv
    <3>4. \A k \in 1..Len(members'[d]) : k \notin 1..Len(members[d]) <=> members'[d][k] = q
      BY <1>6, <3>1, <3>2
    <3>5. CASE members'[d][i] = q
      BY <2>3, <3>2, <3>4, <3>5
    <3>6. CASE members'[d][i] # q
      <4>1. i \in 1..Len(members[d]) /\ j \in 1..Len(members[d])
        BY <2>3, <3>4, <3>6
      <4>2. members[d][i] = members[d][j]
        BY <2>3, <3>1, <4>1
      <4> QED BY <3>3, <4>1, <4>2
    <3> QED BY <3>5, <3>6
  <2>4. closes' = closes /\ transport' # "redis"
    BY <1>1
  <2> QED BY <1>5, <2>1, <2>2, <2>3, <2>4 DEF MembersInv
<1>10. Bus!DirectIsKept'
  BY <1>1 DEF BusInv, Bus!DirectIsKept, Bus!DirectTo, Bus!Waiting, Bus!QueueOf
<1> QED BY <1>7, <1>8, <1>9, <1>10 DEF BusInv

LEMMA ListenKeeps ==
  ASSUME BusInv, NEW a \in Agents, NEW c \in Channel, Bus!listen(a, c)
  PROVE  BusInv'
<1> DEFINE q == <<closes, a>>
           new == [queue |-> q, channel |-> c]
<1>1. /\ transport = "redis" /\ sub[a] = Bus!NoSub
      /\ sub' = [sub EXCEPT ![a] = new]
      /\ queues' = [queues EXCEPT ![q] = <<>>]
      /\ UNCHANGED <<transport, sent, closes, members, got>>
  BY DEF Bus!listen, Bus!QueueOf
<1>2. q \in Queues /\ closes \in 0..MaxCloses
  BY BaseFacts
<1>3. new \in Listening /\ new # Bus!NoSub /\ new.queue = q /\ new.channel = c
  BY <1>2, QueueFacts DEF Listening
<1>a. q[1] = closes /\ q[2] = a
  OBVIOUS
<1> HIDE DEF new
<1>4. DOMAIN sub' = Agents /\ sub'[a] = new /\ \A b \in Agents : b # a => sub'[b] = sub[b]
  BY <1>1 DEF BusInv, BusTyped
<1>5. \A b \in Agents : Base(b)' = Base(b)
  <2>1. Base(a)' = closes /\ Base(a) = closes
    BY <1>1, <1>3, <1>4, <1>a DEF Base
  <2>2. \A b \in Agents : b # a => Base(b)' = Base(b)
    BY <1>1, <1>4 DEF Base
  <2> QED BY <2>1, <2>2
<1> HIDE DEF q
<1>7. queues' \in [Queues -> Seq(Nat)] /\ EpochsInv' /\ OrderInv'
  <2>1. \A b \in Agents : Base(b)' \in Nat /\ Base(b) \in Nat /\ Base(b)' >= Base(b)
    <3>1. \A b \in Agents : Base(b) \in Nat
      BY BaseFacts
    <3> QED BY <1>5, <3>1
  <2>2. closes' \in Nat /\ closes' >= closes
    <3>1. closes \in Nat
      BY BaseFacts
    <3>2. closes' = closes
      BY <1>1
    <3> QED BY <3>1, <3>2
  <2> QED BY <1>1, <1>2, <2>1, <2>2, EmptiedKeeps
<1>8. BusTyped'
  <2>2. \A b \in Agents : sub'[b] \in Listening \cup {Bus!NoSub}
    BY <1>3, <1>4 DEF BusInv, BusTyped
  <2> QED BY <1>1, <1>4, <1>7, <2>2 DEF BusInv, BusTyped
<1>9. MembersInv'
  <2>1. ASSUME NEW b \in Agents, sub'[b] # Bus!NoSub
        PROVE  sub'[b].queue = <<Base(b), b>> /\ Base(b) \in 0..closes
    <3>1. CASE b = a
      BY <1>1, <1>3, <1>4, <3>1, BaseFacts DEF q
    <3>2. CASE b # a
      BY <1>4, <2>1, <3>2, BaseFacts
    <3> QED BY <3>1, <3>2
  <2>2. \A d \in Channels : members[d] = <<>>
    BY <1>1 DEF BusInv, MembersInv
  <2> QED BY <1>1, <1>5, <2>1, <2>2 DEF MembersInv
<1>10. Bus!DirectIsKept'
  BY <1>1 DEF Bus!DirectIsKept
<1> QED BY <1>7, <1>8, <1>9, <1>10 DEF BusInv

\* What list.remove() leaves of a list whose elements differ.
LEMMA WithoutFacts ==
  ASSUME NEW S, NEW u \in Seq(S), NEW q,
         \A i, j \in 1..Len(u) : u[i] = u[j] => i = j,
         NEW p \in 1..Len(u), u[p] = q
  PROVE  LET w == Bus!Without(u, q)
         IN  /\ w \in Seq(S)
             /\ \A i \in 1..Len(w) : \E k \in 1..Len(u) : k # p /\ w[i] = u[k]
             /\ \A i, j \in 1..Len(w) : w[i] = w[j] => i = j
<1> DEFINE n == Len(u)
           v1 == SubSeq(u, 1, p - 1)
           v2 == SubSeq(u, p + 1, n)
           w == v1 \o v2
           k(i) == IF i < p THEN i ELSE i + 1
<1>1. n \in Nat /\ p \in Nat /\ p > 0 /\ p <= n /\ DOMAIN u = 1..n
  BY LenProperties
<1>2. Bus!Without(u, q) = w
  <2>1. ASSUME NEW x \in DOMAIN u,
               u[x] = q /\ \A j \in DOMAIN u : u[j] = q => x <= j
        PROVE  x = p
    BY <1>1, <2>1
  <2>2. \A j \in DOMAIN u : u[j] = q => p <= j
    BY <1>1
  <2>3. (CHOOSE x \in DOMAIN u : u[x] = q /\ \A j \in DOMAIN u : u[j] = q => x <= j) = p
    BY <1>1, <2>1, <2>2
  <2> QED BY <2>3 DEF Bus!Without, Bus!RemoveAt
<1> HIDE DEF n
<1>3. v1 \in Seq(S) /\ Len(v1) = p - 1 /\ \A i \in 1..p - 1 : v1[i] = u[i]
  <2>1. \A i \in 1..p - 1 : u[i] \in S
    BY <1>1, ElementOfSeq DEF n
  <2>2. /\ v1 \in Seq(S) /\ Len(v1) = IF 1 <= p - 1 THEN (p - 1) - 1 + 1 ELSE 0
        /\ \A i \in 1..(p - 1) - 1 + 1 : v1[i] = u[1 + i - 1]
    BY <1>1, <2>1, SubSeqProperties
  <2> HIDE DEF v1
  <2>3. Len(v1) = p - 1
    BY <1>1, <2>2
  <2>4. ASSUME NEW i \in 1..p - 1 PROVE v1[i] = u[i]
    <3>1. i \in 1..(p - 1) - 1 + 1 /\ 1 + i - 1 = i
      BY <1>1
    <3> QED BY <2>2, <3>1
  <2> QED BY <2>2, <2>3, <2>4
<1>4. v2 \in Seq(S) /\ Len(v2) = n - p /\ \A i \in 1..n - p : v2[i] = u[p + i]
  <2>1. \A i \in p + 1..n : u[i] \in S
    BY <1>1, ElementOfSeq DEF n
  <2>2. /\ v2 \in Seq(S) /\ Len(v2) = IF p + 1 <= n THEN n - (p + 1) + 1 ELSE 0
        /\ \A i \in 1..n - (p + 1) + 1 : v2[i] = u[(p + 1) + i - 1]
    BY <1>1, <2>1, SubSeqProperties
  <2> HIDE DEF v2
  <2>3. Len(v2) = n - p
    BY <1>1, <2>2
  <2>4. ASSUME NEW i \in 1..n - p PROVE v2[i] = u[p + i]
    <3>1. i \in 1..n - (p + 1) + 1 /\ (p + 1) + i - 1 = p + i
      BY <1>1
    <3> QED BY <2>2, <3>1
  <2> QED BY <2>2, <2>3, <2>4
<1> HIDE DEF v1, v2
<1>5. w \in Seq(S) /\ Joins(w, v1, v2)
  BY <1>3, <1>4, Joined
<1> HIDE DEF w
<1>6. Len(w) = n - 1
  BY <1>1, <1>3, <1>4, <1>5 DEF Joins
<1>7. ASSUME NEW i \in 1..Len(w) PROVE k(i) \in 1..n /\ k(i) # p /\ w[i] = u[k(i)]
  <2>1. CASE i < p
    <3>1. i \in 1..p - 1
      BY <1>1, <1>6, <2>1
    <3> QED BY <1>1, <1>3, <1>5, <2>1, <3>1 DEF Joins
  <2>2. CASE ~(i < p)
    <3> DEFINE j == i - (p - 1)
    <3>1. j \in 1..n - p /\ i = (p - 1) + j /\ k(i) = p + j /\ k(i) \in 1..n /\ k(i) # p
      BY <1>1, <1>6, <2>2
    <3> HIDE DEF j, k
    <3>2. w[i] = v2[j]
      BY <1>3, <1>4, <1>5, <3>1 DEF Joins
    <3>3. v2[j] = u[k(i)]
      BY <1>4, <3>1
    <3> QED BY <3>1, <3>2, <3>3
  <2> QED BY <2>1, <2>2
<1>8. \A i, j \in 1..Len(w) : k(i) = k(j) => i = j
  BY <1>1, <1>6
<1> HIDE DEF k
<1>9. \A i, j \in 1..Len(w) : w[i] = w[j] => i = j
  BY <1>7, <1>8 DEF n
<1>10. \A i \in 1..Len(w) : \E z \in 1..Len(u) : z # p /\ w[i] = u[z]
  BY <1>7 DEF n
<1> QED BY <1>2, <1>5, <1>9, <1>10

LEMMA LeaveKeeps ==
  ASSUME BusInv, NEW a \in Agents, Bus!leave(a)
  PROVE  BusInv'
<1> DEFINE q == sub[a].queue
           c == sub[a].channel
<1>1. /\ sub[a] # Bus!NoSub /\ sub' = [sub EXCEPT ![a] = Bus!NoSub]
      /\ members' = IF transport = "redis" \/ c = Bus!None THEN members
                    ELSE IF q \notin Bus!ToSet(members[c]) THEN members
                    ELSE [members EXCEPT ![c] = Bus!Without(@, q)]
      /\ queues' = IF transport = "redis" THEN [queues EXCEPT ![q] = <<>>] ELSE queues
      /\ UNCHANGED <<transport, sent, closes, got>>
  BY DEF Bus!leave
<1>2. /\ q = <<Base(a), a>> /\ q \in Queues /\ q[1] = Base(a) /\ q[2] = a
  <2>1. q = <<Base(a), a>> /\ <<Base(a), a>> \in Queues
    <3>1. sub[a] # Bus!NoSub
      BY <1>1
    <3> QED BY <3>1, BaseFacts
  <2> HIDE DEF q
  <2> QED BY <2>1
<1>3. c \in Channel
  BY <1>1 DEF BusInv, BusTyped, Listening
<1>4. DOMAIN sub' = Agents /\ sub'[a] = Bus!NoSub /\ \A b \in Agents : b # a => sub'[b] = sub[b]
  BY <1>1 DEF BusInv, BusTyped
<1> HIDE DEF q, c
<1>5. UNCHANGED closes /\ Base(a)' = closes /\ \A b \in Agents : b # a => Base(b)' = Base(b)
  BY <1>1, <1>4 DEF Base
<1>6. ASSUME NEW d \in Channels
      PROVE  /\ members'[d] \in Seq(Queues)
             /\ \A i \in 1..Len(members'[d]) :
                  \E z \in 1..Len(members[d]) : members'[d][i] = members[d][z]
             /\ \A i, j \in 1..Len(members'[d]) : members'[d][i] = members'[d][j] => i = j
             /\ \A i \in 1..Len(members'[d]) : ~(d = c /\ members'[d][i] = q)
  <2>1. /\ members[d] \in Seq(Queues) /\ DOMAIN members = Channels
        /\ \A i, j \in 1..Len(members[d]) : members[d][i] = members[d][j] => i = j
    BY DEF BusInv, BusTyped, MembersInv
  <2>2. DOMAIN members[d] = 1..Len(members[d])
    BY <2>1, LenProperties
  <2>3. CASE members'[d] = members[d] /\ ~(d = c /\ q \in Bus!ToSet(members[d]))
    BY <2>1, <2>2, <2>3 DEF Bus!ToSet
  <2>4. CASE members'[d] = Bus!Without(members[d], q) /\ d = c /\ q \in Bus!ToSet(members[d])
    <3>1. PICK p \in 1..Len(members[d]) : members[d][p] = q
      BY <2>2, <2>4 DEF Bus!ToSet
    <3>2. /\ members'[d] \in Seq(Queues)
          /\ \A i \in 1..Len(members'[d]) :
               \E z \in 1..Len(members[d]) : z # p /\ members'[d][i] = members[d][z]
          /\ \A i, j \in 1..Len(members'[d]) : members'[d][i] = members'[d][j] => i = j
      BY <2>1, <2>4, <3>1, WithoutFacts
    <3> QED BY <2>1, <3>1, <3>2
  <2>5. transport = "redis" => members[d] = <<>>
    BY DEF BusInv, MembersInv
  <2>6. transport = "redis" => q \notin Bus!ToSet(members[d])
    <3>1. \A x \in Bus!ToSet(<<>>) : FALSE
      BY DEF Bus!ToSet
    <3> QED BY <2>5, <3>1
  <2>7. c = Bus!None => d # c
    BY QueueFacts
  <2>8. CASE transport = "redis" \/ c = Bus!None \/ q \notin Bus!ToSet(members[c])
    BY <1>1, <2>3, <2>6, <2>7, <2>8
  <2>9. CASE ~(transport = "redis" \/ c = Bus!None \/ q \notin Bus!ToSet(members[c]))
    <3>1. members' = [members EXCEPT ![c] = Bus!Without(@, q)]
      BY <1>1, <2>9
    <3>2. d # c => members'[d] = members[d]
      BY <2>1, <3>1
    <3>3. d = c => members'[d] = Bus!Without(members[d], q)
      BY <2>1, <3>1
    <3> QED BY <2>3, <2>4, <2>9, <3>2, <3>3
  <2> QED BY <2>8, <2>9
<1>7. queues' \in [Queues -> Seq(Nat)] /\ EpochsInv' /\ OrderInv'
  <2>1. \A b \in Agents : Base(b)' \in Nat /\ Base(b) \in Nat /\ Base(b)' >= Base(b)
    <3>1. \A b \in Agents : Base(b) \in Nat /\ Base(b) <= closes
      BY BaseFacts
    <3>2. closes \in Nat
      BY BaseFacts
    <3> QED BY <1>5, <3>1, <3>2
  <2>2. closes' \in Nat /\ closes' >= closes
    <3>1. closes \in Nat
      BY BaseFacts
    <3> QED BY <1>5, <3>1
  <2>3. queues' = queues \/ queues' = [queues EXCEPT ![q] = <<>>]
    BY <1>1
  <2>4. UNCHANGED <<transport, sent, got>>
    BY <1>1
  <2> QED BY <1>2, <2>1, <2>2, <2>3, <2>4, EmptiedKeeps
<1>8. BusTyped'
  <2>1. DOMAIN members' = Channels
    BY <1>1 DEF BusInv, BusTyped
  <2>2. \A b \in Agents : sub'[b] \in Listening \cup {Bus!NoSub}
    BY <1>4 DEF BusInv, BusTyped
  <2>3. \A d \in Channels : members'[d] \in Seq(Queues)
    BY <1>6
  <2> QED BY <1>1, <1>4, <1>7, <2>1, <2>2, <2>3 DEF BusInv, BusTyped
<1>9. MembersInv'
  <2>1. ASSUME NEW b \in Agents, sub'[b] # Bus!NoSub
        PROVE  sub'[b].queue = <<Base(b)', b>> /\ Base(b)' \in 0..closes
    <3>1. b # a
      BY <1>4, <2>1
    <3> QED BY <1>4, <1>5, <2>1, <3>1, BaseFacts
  <2>2. ASSUME NEW d \in Channels, NEW i \in 1..Len(members'[d])
        PROVE  /\ members'[d][i][1] = closes
               /\ sub'[members'[d][i][2]] = [queue |-> members'[d][i], channel |-> d]
    <3> DEFINE m == members'[d][i]
    <3>1. PICK z \in 1..Len(members[d]) : m = members[d][z]
      BY <1>6
    <3>2. m[1] = closes /\ sub[m[2]] = [queue |-> m, channel |-> d]
      BY <3>1 DEF BusInv, MembersInv
    <3>3. m \in Queues
      BY <1>6, ElementOfSeq
    <3>4. m[2] # a
      <4>1. m[2] = a => q = m /\ c = d
        BY <3>2 DEF q, c
      <4> QED BY <1>6, <4>1
    <3>5. m[2] \in Agents
      BY <3>3, QueueFacts
    <3> HIDE DEF m
    <3>6. sub'[m[2]] = sub[m[2]]
      BY <1>4, <3>4, <3>5
    <3> QED BY <3>2, <3>6 DEF m
  <2>3. \A d \in Channels : transport = "redis" => members'[d] = <<>>
    <3>1. \A d \in Channels : transport = "redis" => members[d] = <<>>
      BY DEF BusInv, MembersInv
    <3> QED BY <1>1, <3>1
  <2>4. \A d \in Channels : \A i, j \in 1..Len(members'[d]) :
          members'[d][i] = members'[d][j] => i = j
    BY <1>6
  <2> QED BY <1>1, <1>5, <2>1, <2>2, <2>3, <2>4 DEF MembersInv
<1>10. Bus!DirectIsKept'
  <2>1. CASE transport = "redis"
    BY <1>1, <2>1 DEF Bus!DirectIsKept
  <2>2. CASE transport # "redis"
    BY <1>1, <2>2 DEF BusInv, Bus!DirectIsKept, Bus!DirectTo, Bus!Waiting, Bus!QueueOf
  <2> QED BY <2>1, <2>2
<1> QED BY <1>7, <1>8, <1>9, <1>10 DEF BusInv

LEMMA CloseKeeps ==
  ASSUME BusInv, Bus!close
  PROVE  BusInv'
<1>1. /\ transport = "in-process" /\ closes < MaxCloses /\ closes' = closes + 1
      /\ members' = [c \in Channels |-> <<>>]
      /\ UNCHANGED <<transport, sent, queues, sub, got>>
  BY DEF Bus!close
<1>2. closes \in Nat /\ closes' \in Nat /\ closes' <= MaxCloses
  BY <1>1, QueueFacts DEF BusInv, BusTyped
<1>3. \A a \in Agents : Base(a)' = IF sub[a] = Bus!NoSub THEN closes + 1 ELSE Base(a)
  BY <1>1 DEF Base
<1>4. \A a \in Agents : Base(a) \in Nat /\ Base(a) <= closes
  BY BaseFacts
<1>5. queues' \in [Queues -> Seq(Nat)] /\ EpochsInv' /\ OrderInv'
  <2>1. CASE Agents = {}
    <3>1. Queues = {}
      BY <2>1, QueueFacts
    <3>2. queues' \in [Queues -> Seq(Nat)]
      BY <1>1 DEF BusInv, BusTyped
    <3>3. EpochsInv'
      <4>1. \A i \in 1..Len(sent) : sent[i].epoch <= closes'
        <5>1. \A i \in 1..Len(sent) : sent[i] \in Sending
          BY ElementOfSeq DEF BusInv, BusTyped
        <5>2. \A i \in 1..Len(sent) : sent[i].epoch <= closes /\ sent[i].epoch \in Nat
          BY <5>1 DEF BusInv, EpochsInv, Sending
        <5> QED BY <1>1, <1>2, <5>2
      <4> QED BY <1>1, <2>1, <3>1, <4>1 DEF BusInv, EpochsInv
    <3> QED BY <2>1, <3>2, <3>3 DEF OrderInv
  <2>2. CASE Agents # {}
    <3>1. PICK a \in Agents : TRUE
      BY <2>2
    <3>2. <<closes, a>> \in Queues
      BY BaseFacts
    <3>3. \A b \in Agents : Base(b)' \in Nat /\ Base(b) \in Nat /\ Base(b)' >= Base(b)
      BY <1>2, <1>3, <1>4
    <3>4. closes' \in Nat /\ closes' >= closes
      BY <1>1, <1>2
    <3>5. queues' = queues /\ UNCHANGED <<transport, sent, got>>
      BY <1>1
    <3> QED BY <3>2, <3>3, <3>4, <3>5, EmptiedKeeps
  <2> QED BY <2>1, <2>2
<1>6. BusTyped'
  BY <1>1, <1>2 DEF BusInv, BusTyped
<1>7. MembersInv'
  <2>1. ASSUME NEW b \in Agents, sub[b] # Bus!NoSub
        PROVE  sub[b].queue = <<Base(b)', b>> /\ Base(b)' \in 0..closes'
    <3>1. Base(b)' = Base(b) /\ sub[b].queue = <<Base(b), b>>
      BY <1>3, <2>1, BaseFacts
    <3> QED BY <1>1, <1>2, <1>4, <3>1
  <2>2. \A d \in Channels : members'[d] = <<>>
    BY <1>1
  <2> QED BY <1>1, <2>1, <2>2 DEF MembersInv
<1>8. Bus!DirectIsKept'
  <2> SUFFICES ASSUME NEW a \in Agents, NEW x \in DOMAIN sent, sent[x].epoch = closes'
               PROVE  FALSE
    BY <1>1 DEF Bus!DirectIsKept, Bus!DirectTo
  <2>1. x \in 1..Len(sent)
    BY DEF BusInv, BusTyped
  <2>2. sent[x].epoch <= closes
    BY <2>1 DEF BusInv, EpochsInv
  <2> QED BY <1>1, <1>2, <2>2
<1> QED BY <1>5, <1>6, <1>7, <1>8 DEF BusInv

LEMMA ReceiveKeeps ==
  ASSUME BusInv, NEW a \in Agents, Bus!receive(a)
  PROVE  BusInv'
<1> DEFINE q == <<Base(a), a>>
           u == queues[q]
           m == Head(u)
<1>1. sub[a].queue = q /\ q \in Queues /\ Base(a) \in Nat
  <2>1. sub[a] # Bus!NoSub
    BY DEF Bus!receive
  <2> QED BY <2>1, BaseFacts
<1>a. q[1] = Base(a) /\ q[2] = a
  OBVIOUS
<1>2. /\ u # <<>>
      /\ got' = [got EXCEPT ![a] = Append(@, m)]
      /\ queues' = [queues EXCEPT ![q] = Tail(@)]
      /\ UNCHANGED <<transport, sent, closes, members, sub>>
  <2> HIDE DEF q
  <2> QED BY <1>1 DEF Bus!receive
<1>3. /\ got \in [Agents -> Seq(Nat)] /\ queues \in [Queues -> Seq(Nat)] /\ u \in Seq(Nat)
  BY <1>1 DEF BusInv, BusTyped
<1> HIDE DEF q, u
<1>4. /\ Len(u) \in Nat /\ Len(u) > 0 /\ m = u[1] /\ m \in Nat
      /\ Tail(u) \in Seq(Nat) /\ Len(Tail(u)) = Len(u) - 1
      /\ \A i \in 1..Len(u) - 1 : Tail(u)[i] = u[i + 1]
  BY <1>2, <1>3, HeadAndTail
<1> HIDE DEF m
<1>5. /\ got[a] \in Seq(Nat) /\ Len(got[a]) \in Nat /\ Append(got[a], m) \in Seq(Nat)
      /\ Len(Append(got[a], m)) = Len(got[a]) + 1
      /\ Append(got[a], m)[Len(got[a]) + 1] = m
      /\ \A i \in 1..Len(got[a]) : Append(got[a], m)[i] = got[a][i]
  BY <1>3, <1>4, Appended, LenProperties
<1>6. /\ got' \in [Agents -> Seq(Nat)] /\ got'[a] = Append(got[a], m)
      /\ \A b \in Agents : b # a => got'[b] = got[b]
  BY <1>2, <1>3, <1>5
<1>7. /\ queues' \in [Queues -> Seq(Nat)] /\ queues'[q] = Tail(u)
      /\ \A p \in Queues : p # q => queues'[p] = queues[p]
  BY <1>1, <1>2, <1>3, <1>4 DEF u
<1>8. \A b \in Agents : Base(b)' = Base(b)
  BY <1>2 DEF Base
<1>9. \A i \in 1..Len(u) : u[i] \in 1..Len(sent) /\ sent[u[i]].epoch = q[1]
  BY <1>1 DEF BusInv, EpochsInv, u
<1>10. BusTyped'
  BY <1>2, <1>6, <1>7 DEF BusInv, BusTyped
<1>11. EpochsInv'
  <2>1. ASSUME NEW p \in Queues, NEW i \in 1..Len(queues'[p])
        PROVE  queues'[p][i] \in 1..Len(sent) /\ sent[queues'[p][i]].epoch = p[1]
    <3>1. CASE p = q
      <4>1. i \in 1..Len(u) - 1 /\ i + 1 \in 1..Len(u)
        BY <1>4, <1>7, <3>1
      <4>2. queues'[p][i] = u[i + 1]
        BY <1>4, <1>7, <3>1, <4>1
      <4> QED BY <1>9, <3>1, <4>1, <4>2
    <3>2. CASE p # q
      <4>1. queues'[p] = queues[p]
        BY <1>7, <3>2
      <4> QED BY <4>1 DEF BusInv, EpochsInv
    <3> QED BY <3>1, <3>2
  <2>2. ASSUME NEW b \in Agents, NEW i \in 1..Len(got'[b])
        PROVE  got'[b][i] \in 1..Len(sent)
    <3>1. CASE b = a
      <4>1. m \in 1..Len(sent)
        BY <1>4, <1>9
      <4>2. \A j \in 1..Len(got[a]) : got[a][j] \in 1..Len(sent)
        BY DEF BusInv, EpochsInv
      <4>3. i \in 1..Len(got[a]) \/ i = Len(got[a]) + 1
        BY <1>5, <1>6, <3>1
      <4> QED BY <1>5, <1>6, <3>1, <4>1, <4>2, <4>3
    <3>2. CASE b # a
      BY <1>6, <3>2 DEF BusInv, EpochsInv
    <3> QED BY <3>1, <3>2
  <2>3. UNCHANGED <<sent, closes>>
    BY <1>2
  <2> QED BY <2>1, <2>2, <2>3 DEF BusInv, EpochsInv
<1>12. MembersInv'
  <2>1. UNCHANGED <<transport, closes, members, sub>>
    BY <1>2
  <2> QED BY <1>8, <2>1 DEF BusInv, MembersInv
<1>13. OrderInv'
  <2> SUFFICES ASSUME NEW b \in Agents, NEW e \in 0..MaxCloses, e >= Base(b)
               PROVE  Tidy(got'[b] \o queues'[<<e, b>>])
    BY <1>8 DEF OrderInv
  <2> DEFINE p == <<e, b>>
  <2>1. p \in Queues /\ p[1] = e /\ p[2] = b /\ e \in Nat
    BY QueueFacts
  <2>2. Tidy(got[b] \o queues[p])
    BY DEF BusInv, OrderInv
  <2>3. CASE b # a
    <3>1. p # q
      BY <1>a, <2>3 DEF q
    <3> QED BY <1>6, <1>7, <2>1, <2>2, <2>3, <3>1
  <2>4. CASE b = a /\ e = Base(a)
    <3>1. p = q
      BY <2>4 DEF q
    <3>2. Append(got[a], m) \o Tail(u) = got[a] \o u
      BY <1>2, <1>3, <1>5, TidyMoves DEF m
    <3> HIDE DEF p
    <3>3. got'[b] \o queues'[p] = got[b] \o queues[p]
      BY <1>6, <1>7, <2>4, <3>1, <3>2 DEF u
    <3> QED BY <2>2, <3>3 DEF p
  <2>5. CASE b = a /\ e # Base(a)
    <3>1. p # q /\ Base(a) < e
      BY <1>1, <1>a, <2>1, <2>5 DEF q
    <3>2. Tidy(got[a] \o u)
      <4>1. Base(a) \in 0..MaxCloses /\ Base(a) >= Base(a)
        BY <1>1, <2>1, <3>1, QueueFacts
      <4> QED BY <4>1 DEF BusInv, OrderInv, u, q
    <3> HIDE DEF p
    <3> DEFINE r == queues[p]
    <3>3. r \in Seq(Nat) /\ \A i \in 1..Len(r) : r[i] \in 1..Len(sent) /\ sent[r[i]].epoch = e
      BY <1>3, <2>1 DEF BusInv, EpochsInv
    <3>4. ASSUME NEW i \in 1..Len(r) PROVE m < r[i]
      <4>1. m \in 1..Len(sent) /\ sent[m].epoch = Base(a) /\ r[i] \in 1..Len(sent)
        <5>1. 1 \in 1..Len(u) /\ m = u[1]
          BY <1>4
        <5>2. m \in 1..Len(sent) /\ sent[m].epoch = Base(a)
          BY <1>9, <1>a, <5>1 DEF q
        <5> QED BY <3>3, <5>2
      <4>2. r[i] <= m => sent[r[i]].epoch <= sent[m].epoch
        BY <4>1 DEF BusInv, EpochsInv
      <4>3. ~(e <= Base(a))
        BY <1>1, <2>1, <3>1
      <4>4. ~(r[i] <= m)
        BY <3>3, <4>1, <4>2, <4>3
      <4> QED BY <4>1, <4>4
    <3> HIDE DEF r
    <3>5. Tidy(got[a] \o r)
      BY <2>2, <2>5 DEF r
    <3>6. Tidy(Append(got[a], m) \o r)
      BY <1>2, <1>3, <1>5, <3>2, <3>3, <3>4, <3>5, TidyLater DEF m
    <3>7. got'[b] = Append(got[a], m) /\ queues'[p] = r
      BY <1>6, <1>7, <2>1, <2>5, <3>1 DEF r
    <3> QED BY <3>6, <3>7 DEF p
  <2> QED BY <2>3, <2>4, <2>5
<1>14. Bus!DirectIsKept'
  <2> SUFFICES ASSUME transport = "in-process", NEW b \in Agents, NEW x \in DOMAIN sent,
                      sent[x].to = b, sent[x].epoch = closes
               PROVE  \/ \E i \in DOMAIN got'[b] : got'[b][i] = x
                      \/ \E i \in DOMAIN queues'[<<closes, b>>] : queues'[<<closes, b>>][i] = x
    BY <1>2 DEF Bus!DirectIsKept, Bus!DirectTo, Bus!ToSet, Bus!Waiting, Bus!QueueOf
  <2> DEFINE p == <<closes, b>>
  <2>1. p \in Queues
    BY BaseFacts
  <2>2. \/ \E i \in DOMAIN got[b] : got[b][i] = x
        \/ \E i \in DOMAIN queues[p] : queues[p][i] = x
    BY DEF BusInv, Bus!DirectIsKept, Bus!DirectTo, Bus!ToSet, Bus!Waiting, Bus!QueueOf
  <2>3. p # q => queues'[p] = queues[p]
    BY <1>7, <2>1
  <2>4. p = q => b = a
    BY <1>a DEF q
  <2> HIDE DEF p
  <2>5. ASSUME NEW i \in DOMAIN got[b], got[b][i] = x
        PROVE  \E j \in DOMAIN got'[b] : got'[b][j] = x
    <3>1. CASE b = a
      <4>1. DOMAIN got[a] = 1..Len(got[a]) /\ DOMAIN got'[a] = 1..Len(got'[a])
        BY <1>5, <1>6
      <4>2. i \in DOMAIN got'[a] /\ got'[a][i] = x
        BY <1>5, <1>6, <2>5, <3>1, <4>1
      <4> QED BY <3>1, <4>2
    <3>2. CASE b # a
      BY <1>6, <2>5, <3>2
    <3> QED BY <3>1, <3>2
  <2>6. ASSUME NEW i \in DOMAIN queues[p], queues[p][i] = x
        PROVE  \/ \E j \in DOMAIN got'[b] : got'[b][j] = x
               \/ \E j \in DOMAIN queues'[p] : queues'[p][j] = x
    <3>1. CASE p # q
      BY <2>3, <2>6, <3>1
    <3>2. CASE p = q
      <4>1. /\ b = a /\ queues[p] = u /\ queues'[p] = Tail(u)
        BY <1>7, <2>4, <3>2 DEF u
      <4>2. DOMAIN u = 1..Len(u) /\ DOMAIN Tail(u) = 1..Len(Tail(u)) /\ DOMAIN got'[a] = 1..Len(got'[a])
        BY <1>3, <1>4, <1>5, <1>6
      <4>3. CASE i = 1
        <5>1. Len(got[a]) + 1 \in DOMAIN got'[a]
          BY <1>5, <1>6, <4>2
        <5>2. got'[a][Len(got[a]) + 1] = x
          BY <1>4, <1>5, <1>6, <2>6, <4>1, <4>3
        <5> QED BY <4>1, <5>1, <5>2
      <4>4. CASE i # 1
        <5> DEFINE j == i - 1
        <5>1. j \in 1..Len(u) - 1 /\ i = j + 1
          BY <1>4, <2>6, <4>1, <4>2, <4>4
        <5> HIDE DEF j
        <5>2. Tail(u)[j] = x /\ j \in DOMAIN Tail(u)
          BY <1>4, <2>6, <4>1, <4>2, <5>1
        <5> QED BY <4>1, <5>2
      <4> QED BY <4>3, <4>4
    <3> QED BY <3>1, <3>2
  <2> QED BY <2>2, <2>5, <2>6 DEF p
<1> QED BY <1>10, <1>11, <1>12, <1>13, <1>14 DEF BusInv

LEMMA BusStutters ==
  ASSUME BusInv, UNCHANGED busVars
  PROVE  BusInv'
<1>1. UNCHANGED <<transport, sent, closes, queues, members, sub, got>>
  BY DEF busVars
<1>2. \A a \in Agents : Base(a)' = Base(a)
  BY <1>1 DEF Base
<1>3. BusTyped'
  BY <1>1 DEF BusInv, BusTyped
<1>4. EpochsInv'
  BY <1>1 DEF BusInv, EpochsInv
<1>5. MembersInv'
  BY <1>1, <1>2 DEF BusInv, MembersInv
<1>6. OrderInv'
  BY <1>1, <1>2 DEF BusInv, OrderInv
<1>7. Bus!DirectIsKept'
  BY <1>1 DEF BusInv, Bus!DirectIsKept, Bus!DirectTo, Bus!Waiting, Bus!QueueOf
<1> QED BY <1>3, <1>4, <1>5, <1>6, <1>7 DEF BusInv

\* What is received in order holds no message three times.
LEMMA TwiceAtMost ==
  ASSUME NEW u \in Seq(Nat), Tidy(u), NEW m
  PROVE  Cardinality({i \in DOMAIN u : u[i] = m}) <= 2
<1> DEFINE T == {i \in DOMAIN u : u[i] = m}
<1>1. DOMAIN u = 1..Len(u) /\ T \subseteq Nat
  BY LenProperties
<1>2. CASE T = {}
  <2>1. Cardinality({}) = 0
    BY FS_EmptySet
  <2> HIDE DEF T
  <2>2. Cardinality(T) <= 2
    BY <1>2, <2>1
  <2> QED BY <2>2 DEF T
<1>3. CASE T # {}
  <2>1. PICK i \in T : \A j \in T : i <= j
    <3> HIDE DEF T
    <3> QED BY <1>1, <1>3, Least
  <2>2. ASSUME NEW j \in T PROVE j \in {i} \cup {i + 1}
    <3>1. i \in 1..Len(u) /\ j \in 1..Len(u) /\ u[i] = m /\ u[j] = m /\ i <= j
      BY <1>1, <2>1
    <3>2. u[i] \in Nat
      BY <3>1, ElementOfSeq
    <3>3. ~(i + 1 < j)
      BY <3>1, <3>2 DEF Tidy
    <3> QED BY <3>1, <3>3
  <2>3. IsFiniteSet({i} \cup {i + 1}) /\ Cardinality({i} \cup {i + 1}) = 2
    <3>1. IsFiniteSet({i}) /\ Cardinality({i}) = 1
      BY FS_Singleton
    <3>2. i + 1 \notin {i}
      BY <1>1, <2>1
    <3>3. /\ IsFiniteSet({i} \cup {i + 1})
          /\ Cardinality({i} \cup {i + 1}) = Cardinality({i}) + 1
      BY <3>1, <3>2, FS_AddElement
    <3> DEFINE c == Cardinality({i})
               d == Cardinality({i} \cup {i + 1})
    <3>4. c = 1 /\ d = c + 1
      BY <3>1, <3>3
    <3> HIDE DEF c, d
    <3>5. d = 2
      BY <3>4
    <3> QED BY <3>3, <3>5 DEF d
  <2>4. T \subseteq {i} \cup {i + 1}
    BY <2>2
  <2> HIDE DEF T
  <2>5. Cardinality(T) <= Cardinality({i} \cup {i + 1})
    BY <2>3, <2>4, FS_Subset
  <2> QED BY <2>3, <2>5 DEF T
<1> QED BY <1>2, <1>3

LEMMA InOrderFollows == BusInv => Bus!InOrder
<1> SUFFICES ASSUME BusInv, NEW a \in Agents
             PROVE  LET all == got[a] \o (IF sub[a] = Bus!NoSub THEN <<>> ELSE queues[sub[a].queue])
                    IN /\ \A i, j \in DOMAIN all : i < j => all[i] <= all[j]
                       /\ \A m \in DOMAIN sent :
                            Bus!Cardinality({i \in DOMAIN all : all[i] = m}) <= 2
  BY DEF Bus!InOrder
<1> DEFINE all == got[a] \o (IF sub[a] = Bus!NoSub THEN <<>> ELSE queues[sub[a].queue])
           q == <<Base(a), a>>
<1>1. q \in Queues /\ Base(a) \in 0..MaxCloses /\ Base(a) >= Base(a)
  <2>1. Base(a) \in 0..closes /\ closes \in 0..MaxCloses /\ q \in Queues
    BY BaseFacts
  <2> QED BY <2>1, QueueFacts
<1>2. got[a] \in Seq(Nat) /\ queues[q] \in Seq(Nat)
  BY <1>1 DEF BusInv, BusTyped
<1>3. Tidy(got[a] \o queues[q])
  BY <1>1 DEF BusInv, OrderInv
<1>4. Tidy(got[a] \o <<>>)
  BY <1>2, <1>3, TidyAlone
<1>5. all \in Seq(Nat) /\ Tidy(all)
  <2>1. CASE sub[a] = Bus!NoSub
    <3>1. all = got[a] \o <<>>
      BY <2>1
    <3>2. <<>> \in Seq(Nat)
      OBVIOUS
    <3>3. got[a] \o <<>> \in Seq(Nat)
      BY <1>2, <3>2, Joined
    <3> QED BY <1>4, <3>1, <3>3
  <2>2. CASE sub[a] # Bus!NoSub
    <3>1. sub[a].queue = q
      BY <2>2, BaseFacts
    <3>2. all = got[a] \o queues[q]
      BY <2>2, <3>1
    <3> HIDE DEF q
    <3>3. got[a] \o queues[q] \in Seq(Nat)
      BY <1>2, Joined
    <3> QED BY <1>3, <3>2, <3>3
  <2> QED BY <2>1, <2>2
<1> HIDE DEF all
<1>6. \A i, j \in DOMAIN all : i < j => all[i] <= all[j]
  BY <1>5, LenProperties DEF Tidy
<1>7. \A m \in DOMAIN sent : Bus!Cardinality({i \in DOMAIN all : all[i] = m}) <= 2
  BY <1>5, TwiceAtMost, Counted
<1> QED BY <1>6, <1>7 DEF all

(* Every bus that the swarm may have keeps a direct message for its         *)
(* recipient and delivers in order, whatever agents join, leave and send    *)
(* (bus.py:67-94).                                                          *)
THEOREM BusKeepsAndOrders == Spec => []BusDelivers
<1>1. Init => BusInv
  BY PartsBegin, BusBegins
<1>2. BusInv /\ [Next]_vars => BusInv'
  <2> SUFFICES ASSUME BusInv, [Next]_vars PROVE BusInv'
    OBVIOUS
  <2>1. CASE Bus!Next
    <3>1. ASSUME NEW r \in Agents \cup {Bus!None}, NEW c \in Channel,
                 Bus!send(r, c) \/ Bus!publish(r, c)
          PROVE  BusInv'
      BY <3>1, SendKeeps
    <3>2. ASSUME NEW a \in Agents, NEW c \in Channel, Bus!subscribe(a, c) \/ Bus!listen(a, c)
          PROVE  BusInv'
      BY <3>2, SubscribeKeeps, ListenKeeps
    <3>3. ASSUME NEW a \in Agents, Bus!receive(a) \/ Bus!leave(a)
          PROVE  BusInv'
      BY <3>3, ReceiveKeeps, LeaveKeeps
    <3>4. ASSUME Bus!close PROVE BusInv'
      BY <3>4, CloseKeeps
    <3> QED BY <2>1, <3>1, <3>2, <3>3, <3>4 DEF Bus!Next, Channel
  <2>2. CASE UNCHANGED busVars
    BY <2>2, BusStutters
  <2> QED BY <2>1, <2>2, PartsStep
<1>3. BusInv => BusDelivers
  BY InOrderFollows DEF BusInv, BusDelivers, Bus!BusDelivers
<1> QED BY <1>1, <1>2, <1>3, PTL DEF Spec

-----------------------------------------------------------------------------
(* The subswarms                                                            *)

Spoken == {Sub!RoundKey(r, a) : r \in Nat, a \in DOMAIN Role}
Written == Answers \cup {Sub!Deleted}
Writers == DOMAIN Role \cup {Sub!Tool}
Contributions == [key : Notes \cup Spoken, value : Written, by : Writers]
Entries == [key : Notes \cup Spoken, value : Written, author : Writers, version : Nat]
Boards == [version : Nat, entries : Seq(Entries)]

\* The board holds what was contributed, in the same order.
Records(es, d) ==
  /\ Len(es) = Len(d)
  /\ \A i \in 1..Len(d) : es[i].key = d[i].key /\ es[i].value = d[i].value

\* A log has under each key the contribution that stands, and nothing else.
Logged(l, d) ==
  /\ \A i \in 1..Len(d) : Sub!Stands(d, i) => d[i].key \in DOMAIN l /\ l[d[i].key] = d[i].value
  /\ \A k \in DOMAIN l : \E i \in 1..Len(d) : Sub!Stands(d, i) /\ d[i].key = k

\* Member t has spoken in round r.
HasSpoken(s, d, r, t) ==
  \E i \in 1..Len(d) : d[i].by = Members[s][t] /\ d[i].key = Sub!RoundKey(r, Members[s][t])

\* A contribution and the entry that is made of it.
LEMMA RecordsBoth ==
  ASSUME NEW es \in Seq(Entries), NEW d \in Seq(Contributions), Records(es, d),
         NEW e \in Entries, NEW x \in Contributions, e.key = x.key, e.value = x.value
  PROVE  Records(Append(es, e), Append(d, x))
<1> DEFINE new == Append(es, e)
           c == Append(d, x)
           n == Len(d)
<1>1. /\ n \in Nat /\ Len(new) = n + 1 /\ new[n + 1] = e
      /\ \A i \in 1..n : new[i] = es[i]
  BY Appended, LenProperties DEF Records
<1>2. Len(c) = n + 1 /\ c[n + 1] = x /\ \A i \in 1..n : c[i] = d[i]
  BY Appended, LenProperties
<1>3. \A i \in 1..n : es[i].key = d[i].key /\ es[i].value = d[i].value
  BY DEF Records
<1> HIDE DEF new, c, n
<1>4. ASSUME NEW i \in 1..n + 1 PROVE new[i].key = c[i].key /\ new[i].value = c[i].value
  <2>1. CASE i = n + 1
    BY <1>1, <1>2, <2>1
  <2>2. CASE i # n + 1
    <3>1. i \in 1..n
      BY <1>1, <2>2
    <3> QED BY <1>1, <1>2, <1>3, <3>1
  <2> QED BY <2>1, <2>2
<1> QED BY <1>1, <1>2, <1>4 DEF Records, new, c

\* What has been said stays said.
LEMMA SpokenStays ==
  ASSUME NEW s, NEW d \in Seq(Contributions), NEW x \in Contributions, NEW r, NEW t,
         HasSpoken(s, d, r, t)
  PROVE  HasSpoken(s, Append(d, x), r, t)
<1>1. /\ Len(d) \in Nat /\ Len(Append(d, x)) = Len(d) + 1
      /\ \A i \in 1..Len(d) : Append(d, x)[i] = d[i]
  BY Appended, LenProperties
<1>2. PICK i \in 1..Len(d) :
        d[i].by = Members[s][t] /\ d[i].key = Sub!RoundKey(r, Members[s][t])
  BY DEF HasSpoken
<1>3. i \in 1..Len(Append(d, x)) /\ Append(d, x)[i] = d[i]
  BY <1>1
<1> QED BY <1>2, <1>3 DEF HasSpoken

\* Of some numbers up to a bound there is a greatest.
LEMMA Greatest ==
  ASSUME NEW n \in Nat, NEW S, S \subseteq 1..n, S # {}
  PROVE  \E x \in S : \A y \in S : y <= x
<1> DEFINE T == {m \in 0..n : n - m \in S}
<1>1. T \subseteq Nat /\ \A y \in S : n - y \in T /\ n - (n - y) = y /\ y \in Nat
  OBVIOUS
<1>2. T # {}
  BY <1>1
<1>3. PICK z \in T : \A y \in T : z <= y
  <2> HIDE DEF T
  <2> QED BY <1>1, <1>2, Least
<1>4. n - z \in S /\ z \in Nat
  BY <1>3
<1> HIDE DEF T
<1>5. ASSUME NEW y \in S PROVE y <= n - z
  BY <1>1, <1>3, <1>4
<1> QED BY <1>4, <1>5

\* The log that latest() makes of a board has what was contributed to it.
LEMMA LatestLogs ==
  ASSUME NEW b \in Boards, NEW d \in Seq(Contributions), Records(b.entries, d)
  PROVE  Logged(Sub!latest(b), d)
<1> DEFINE es == b.entries
           l == Sub!latest(b)
           n == Len(d)
           kept == Sub!Kept(b)
           At(k, z) == es[z].key = k /\ \A j \in kept : es[j].key = k => j <= z
<1>1. /\ n \in Nat /\ DOMAIN es = 1..n /\ DOMAIN d = 1..n
      /\ \A i \in 1..n : es[i].key = d[i].key /\ es[i].value = d[i].value
  <2>1. es \in Seq(Entries)
    BY DEF Boards
  <2> QED BY <2>1, LenProperties DEF Records
<1>2. kept = {i \in 1..n : d[i].value # Sub!Deleted}
  BY <1>1 DEF Sub!Kept
<1>3. Sub!Keys(b) = {es[i].key : i \in kept}
  BY DEF Sub!Keys
<1>4. /\ DOMAIN l = Sub!Keys(b)
      /\ \A k \in Sub!Keys(b) : l[k] = es[CHOOSE z \in kept : At(k, z)].value
  BY DEF Sub!latest
<1> HIDE DEF es, l, n, kept
<1>5. ASSUME NEW i \in 1..n
      PROVE  Sub!Stands(d, i) <=> i \in kept /\ At(d[i].key, i)
  BY <1>1, <1>2 DEF Sub!Stands
<1>6. ASSUME NEW i \in 1..n, Sub!Stands(d, i)
      PROVE  d[i].key \in DOMAIN l /\ l[d[i].key] = d[i].value
  <2> DEFINE k == d[i].key
  <2>1. i \in kept /\ At(k, i)
    BY <1>5, <1>6
  <2>2. k \in Sub!Keys(b)
    BY <1>1, <1>3, <2>1
  <2>3. \A z \in kept : At(k, z) => z = i
    BY <1>2, <2>1
  <2> HIDE DEF At, k
  <2>4. (CHOOSE z \in kept : At(k, z)) = i
    BY <2>1, <2>3
  <2> QED BY <1>1, <1>4, <2>2, <2>4 DEF k
<1>7. ASSUME NEW k \in DOMAIN l
      PROVE  \E i \in 1..n : Sub!Stands(d, i) /\ d[i].key = k
  <2> DEFINE S == {i \in kept : es[i].key = k}
  <2>1. S # {} /\ S \subseteq 1..n
    BY <1>2, <1>3, <1>4, <1>7
  <2>2. PICK x \in S : \A y \in S : y <= x
    <3> HIDE DEF S
    <3> QED BY <1>1, <2>1, Greatest
  <2>3. x \in 1..n /\ x \in kept /\ es[x].key = k /\ d[x].key = k
    BY <1>1, <2>1
  <2>4. At(d[x].key, x)
    BY <2>2, <2>3
  <2> QED BY <1>5, <2>3, <2>4
<1> QED BY <1>6, <1>7 DEF Logged, l, n

-----------------------------------------------------------------------------
(* The state of one swarm, and of all.                                      *)

SwarmTyped(s) ==
  /\ round[s] \in Nat /\ turn[s] \in Nat
  /\ board[s] \in Boards /\ said[s] \in Seq(Contributions)

PhaseInv(s) ==
  /\ pc[s] = "idle" => turn[s] = 1 /\ round[s] = 1
  /\ pc[s] = "debating" => turn[s] \in 1..Len(Members[s]) - 1 /\ round[s] \in 1..MaxRounds

\* Before turn t of round r
Earlier(q, u, r, t) == q < r \/ (q = r /\ u < t)

SpokeInTurn(s, d, r, t) ==
  \A q \in 1..MaxRounds, u \in 1..Len(Members[s]) - 1 :
    Earlier(q, u, r, t) => HasSpoken(s, d, q, u)

AllSpoke(s, d) ==
  \A q \in 1..MaxRounds, u \in 1..Len(Members[s]) - 1 : HasSpoken(s, d, q, u)

HeardInv(s) ==
  /\ pc[s] \in {"idle", "debating"} => Records(board[s].entries, said[s])
  /\ pc[s] = "debating" => SpokeInTurn(s, said[s], round[s], turn[s])
  /\ pc[s] = "refereeing" => Logged(log[s], said[s]) /\ AllSpoke(s, said[s])

SwarmInv(s) == SwarmTyped(s) /\ PhaseInv(s) /\ HeardInv(s)

\* The tool's board is that of a swarm that has begun.
ActiveBegan == \A s \in Swarms : active = s => pc[s] # "idle"

SubInv ==
  /\ DOMAIN pc = Swarms /\ DOMAIN round = Swarms /\ DOMAIN turn = Swarms
  /\ DOMAIN board = Swarms /\ DOMAIN said = Swarms /\ DOMAIN log = Swarms
  /\ ActiveBegan
  /\ \A s \in Swarms : SwarmInv(s)

LEMMA SwarmFacts ==
  ASSUME NEW s \in Swarms
  PROVE  /\ Members[s] \in Seq(DOMAIN Role) /\ Members[s] # <<>>
         /\ Len(Members[s]) \in Nat /\ Len(Members[s]) > 0
         /\ DOMAIN Members[s] = 1..Len(Members[s])
         /\ MaxRounds \in Nat /\ MaxRounds > 0
<1>1. Members[s] \in Seq(DOMAIN Role) /\ Members[s] # <<>> /\ MaxRounds \in Nat \ {0}
  BY CollaborationAssumption DEF Sub!SubswarmAssumption
<1> QED BY <1>1, EmptySeq, LenProperties

\* Of the first turn of the first round nobody has spoken before.
LEMMA FirstTurn ==
  ASSUME NEW s \in Swarms, NEW d PROVE SpokeInTurn(s, d, 1, 1)
<1>1. ASSUME NEW q \in 1..MaxRounds, NEW u \in 1..Len(Members[s]) - 1, Earlier(q, u, 1, 1)
      PROVE  FALSE
  BY <1>1, SwarmFacts DEF Earlier
<1> QED BY <1>1 DEF SpokeInTurn

LEMMA SubBegins == Sub!Init => SubInv
<1> SUFFICES ASSUME Sub!Init PROVE SubInv
  OBVIOUS
<1>1. /\ pc = [s \in Swarms |-> "idle"] /\ active = "none"
      /\ round = [s \in Swarms |-> 1] /\ turn = [s \in Swarms |-> 1]
      /\ board = [s \in Swarms |-> Sub!EmptyBoard]
      /\ said = [s \in Swarms |-> <<>>]
      /\ log = [s \in Swarms |-> Sub!latest(Sub!EmptyBoard)]
  BY DEF Sub!Init
<1>2. ASSUME NEW s \in Swarms PROVE SwarmInv(s)
  <2>1. /\ pc[s] = "idle" /\ round[s] = 1 /\ turn[s] = 1
        /\ board[s] = Sub!EmptyBoard /\ said[s] = <<>>
    BY <1>1
  <2>2. <<>> \in Seq(Entries) /\ <<>> \in Seq(Contributions) /\ Len(<<>>) = 0
    OBVIOUS
  <2>3. board[s].entries = <<>> /\ board[s] \in Boards
    BY <2>1, <2>2 DEF Sub!EmptyBoard, Boards
  <2>4. Records(board[s].entries, said[s])
    BY <2>1, <2>2, <2>3 DEF Records
  <2> QED BY <2>1, <2>2, <2>3, <2>4 DEF SwarmInv, SwarmTyped, PhaseInv, HeardInv
<1>3. ActiveBegan
  BY <1>1, CollaborationAssumption DEF ActiveBegan, Sub!SubswarmAssumption
<1> QED BY <1>1, <1>2, <1>3 DEF SubInv

\* A swarm to which nothing happens keeps its invariant.
SwarmRests(s) ==
  /\ pc'[s] = pc[s] /\ round'[s] = round[s] /\ turn'[s] = turn[s]
  /\ said'[s] = said[s] /\ log'[s] = log[s]

LEMMA RestKeeps ==
  ASSUME NEW s \in Swarms, SwarmInv(s), SwarmRests(s), board'[s] = board[s]
  PROVE  SwarmInv(s)'
BY DEF SwarmRests, SwarmInv, SwarmTyped, PhaseInv, HeardInv

LEMMA OthersKeep ==
  ASSUME SubInv, NEW s, NEW t \in Swarms, t # s,
         pc'[t] = pc[t], round'[t] = round[t], turn'[t] = turn[t],
         said'[t] = said[t], log'[t] = log[t], board'[t] = board[t]
  PROVE  SwarmInv(t)'
<1>1. SwarmRests(t) /\ SwarmInv(t)
  BY DEF SwarmRests, SubInv
<1> QED BY <1>1, RestKeeps

\* What is written on a board.
LEMMA WriteFacts ==
  ASSUME NEW b \in Boards, NEW k \in Notes \cup Spoken, NEW x \in Written, NEW a \in Writers
  PROVE  \E e \in Entries : /\ e.key = k /\ e.value = x
                            /\ Sub!write(b, k, x, a).entries = Append(b.entries, e)
                            /\ Sub!write(b, k, x, a) \in Boards
<1> DEFINE e == [key |-> k, value |-> x, author |-> a, version |-> b.version + 1]
           w == Sub!write(b, k, x, a)
<1>1. b.version \in Nat /\ b.entries \in Seq(Entries)
  BY DEF Boards
<1>2. e \in Entries /\ e.key = k /\ e.value = x
  BY <1>1 DEF Entries
<1>3. w = [version |-> b.version + 1, entries |-> Append(b.entries, e)]
  BY DEF Sub!write
<1> HIDE DEF e, w
<1>4. Append(b.entries, e) \in Seq(Entries)
  BY <1>1, <1>2, Appended
<1>5. w.entries = Append(b.entries, e) /\ w \in Boards
  BY <1>1, <1>3, <1>4 DEF Boards
<1> QED BY <1>2, <1>5 DEF w

\* A board and what is contributed to it grow together.
LEMMA BothGrow ==
  ASSUME NEW b \in Boards, NEW d \in Seq(Contributions),
         NEW k \in Notes \cup Spoken, NEW x \in Written, NEW a \in Writers
  PROVE  /\ Sub!write(b, k, x, a) \in Boards
         /\ Append(d, Sub!Contribution(k, x, a)) \in Seq(Contributions)
         /\ Records(b.entries, d) =>
              Records(Sub!write(b, k, x, a).entries, Append(d, Sub!Contribution(k, x, a)))
<1> DEFINE c == Sub!Contribution(k, x, a)
           w == Sub!write(b, k, x, a)
<1>1. c \in Contributions /\ c.key = k /\ c.value = x
  BY DEF Sub!Contribution, Contributions
<1>2. PICK e \in Entries : /\ e.key = k /\ e.value = x
                           /\ w.entries = Append(b.entries, e) /\ w \in Boards
  BY WriteFacts
<1> HIDE DEF c, w
<1>3. b.entries \in Seq(Entries)
  BY DEF Boards
<1>4. Append(d, c) \in Seq(Contributions)
  BY <1>1, Appended
<1>5. Records(b.entries, d) => Records(Append(b.entries, e), Append(d, c))
  BY <1>1, <1>2, <1>3, RecordsBoth
<1> QED BY <1>2, <1>4, <1>5 DEF c, w

\* A note goes on the board of the swarm that began last, and is heard there.
LEMMA NoteKeeps ==
  ASSUME SubInv, NEW s \in Swarms, NEW k \in Notes, NEW x \in Written,
         Sub!write_blackboard(s, k, x)
  PROVE  SubInv'
<1> DEFINE w == Sub!write(board[active], k, x, Sub!Tool)
           c(t) == Append(said[t], Sub!Contribution(k, x, Sub!Tool))
<1>1. /\ board' = [board EXCEPT ![active] = w]
      /\ said' = IF pc[active] = "debating" THEN [said EXCEPT ![active] = c(active)] ELSE said
      /\ UNCHANGED <<pc, round, turn, active, log>>
  BY DEF Sub!write_blackboard, Sub!Written
<1> HIDE DEF w, c
<1>2. ASSUME NEW t \in Swarms PROVE SwarmInv(t)'
  <2>1. /\ SwarmInv(t) /\ pc'[t] = pc[t] /\ round'[t] = round[t] /\ turn'[t] = turn[t]
        /\ log'[t] = log[t]
    BY <1>1 DEF SubInv
  <2>2. CASE t # active
    <3>1. board'[t] = board[t] /\ said'[t] = said[t]
      BY <1>1, <2>2 DEF SubInv
    <3> QED BY <2>1, <3>1, RestKeeps DEF SwarmRests
  <2>3. CASE t = active
    <3>1. /\ board'[t] = w /\ pc[t] # "idle"
          /\ said'[t] = IF pc[t] = "debating" THEN c(t) ELSE said[t]
      BY <1>1, <2>3 DEF SubInv, ActiveBegan
    <3>2. board[t] \in Boards /\ said[t] \in Seq(Contributions)
      BY <2>1 DEF SwarmInv, SwarmTyped
    <3>3. /\ w \in Boards /\ c(t) \in Seq(Contributions)
          /\ Records(board[t].entries, said[t]) => Records(w.entries, c(t))
      BY <2>3, <3>2, BothGrow DEF w, c, Writers
    <3>4. SwarmTyped(t)' /\ PhaseInv(t)'
      BY <2>1, <3>1, <3>2, <3>3 DEF SwarmInv, SwarmTyped, PhaseInv
    <3>5. CASE pc[t] = "debating"
      <4>1. said'[t] = c(t) /\ Records(w.entries, c(t))
        BY <2>1, <3>1, <3>3, <3>5 DEF SwarmInv, HeardInv
      <4>2. SpokeInTurn(t, c(t), round[t], turn[t])
        <5>1. SpokeInTurn(t, said[t], round[t], turn[t])
          BY <2>1, <3>5 DEF SwarmInv, HeardInv
        <5>2. Sub!Contribution(k, x, Sub!Tool) \in Contributions
          BY DEF Sub!Contribution, Contributions, Writers
        <5> QED BY <3>2, <5>1, <5>2, SpokenStays DEF SpokeInTurn, c
      <4>3. HeardInv(t)'
        BY <2>1, <3>1, <3>5, <4>1, <4>2 DEF HeardInv, SpokeInTurn, HasSpoken
      <4> QED BY <3>4, <4>3 DEF SwarmInv
    <3>6. CASE pc[t] # "debating"
      <4>1. HeardInv(t)'
        BY <2>1, <3>1, <3>6 DEF SwarmInv, HeardInv
      <4> QED BY <3>4, <4>1 DEF SwarmInv
    <3> QED BY <3>5, <3>6
  <2> QED BY <2>2, <2>3
<1>3. /\ DOMAIN board' = Swarms /\ DOMAIN said' = Swarms /\ ActiveBegan'
  BY <1>1 DEF SubInv, ActiveBegan
<1>4. /\ DOMAIN pc' = Swarms /\ DOMAIN round' = Swarms /\ DOMAIN turn' = Swarms
      /\ DOMAIN log' = Swarms
  BY <1>1 DEF SubInv
<1> QED BY <1>2, <1>3, <1>4 DEF SubInv

LEMMA RunKeeps ==
  ASSUME SubInv, NEW s \in Swarms, Sub!run(s)
  PROVE  SubInv'
<1>1. pc[s] = "idle" /\ active' = s /\ UNCHANGED <<round, turn, board, said>>
  BY DEF Sub!run
<1>2. \/ pc' = [pc EXCEPT ![s] = "voting"] /\ log' = log
      \/ /\ Sub!Debaters(s) # {}
         /\ pc' = [pc EXCEPT ![s] = "debating"] /\ log' = log
      \/ /\ Sub!Debaters(s) = {} /\ pc' = [pc EXCEPT ![s] = "refereeing"]
         /\ log' = [log EXCEPT ![s] = Sub!latest(board[s])]
  BY DEF Sub!run, Sub!Refereeing
<1>3. /\ SwarmInv(s) /\ \A t \in Swarms \ {s} : pc'[t] = pc[t] /\ log'[t] = log[t]
      /\ DOMAIN pc' = Swarms /\ DOMAIN log' = Swarms
  BY <1>2 DEF SubInv
<1>4. \/ pc'[s] = "voting"
      \/ Sub!Debaters(s) # {} /\ pc'[s] = "debating"
      \/ /\ Sub!Debaters(s) = {} /\ pc'[s] = "refereeing"
         /\ log'[s] = Sub!latest(board[s])
  BY <1>2 DEF SubInv
<1>5. SwarmInv(s)'
  <2>1. SwarmTyped(s)'
    BY <1>1, <1>3 DEF SwarmInv, SwarmTyped
  <2>2. turn[s] = 1 /\ round[s] = 1 /\ Records(board[s].entries, said[s])
    BY <1>1, <1>3 DEF SwarmInv, PhaseInv, HeardInv
  <2>3. PhaseInv(s)'
    <3>1. Sub!Debaters(s) # {} => 1 \in 1..Len(Members[s]) - 1
      BY SwarmFacts DEF Sub!Debaters
    <3>2. 1 \in 1..MaxRounds
      BY SwarmFacts
    <3> QED BY <1>1, <1>4, <2>2, <3>1, <3>2 DEF PhaseInv
  <2>4. HeardInv(s)'
    <3>1. SpokeInTurn(s, said[s], 1, 1)
      BY FirstTurn
    <3>2. Logged(Sub!latest(board[s]), said[s])
      BY <1>3, <2>2, LatestLogs DEF SwarmInv, SwarmTyped
    <3>3. Sub!Debaters(s) = {} => AllSpoke(s, said[s])
      BY DEF AllSpoke, Sub!Debaters
    <3>4. pc'[s] = "debating" => SpokeInTurn(s, said[s], 1, 1)
      BY <3>1
    <3>5. pc'[s] = "refereeing" => Logged(log'[s], said[s]) /\ AllSpoke(s, said[s])
      BY <1>4, <3>2, <3>3
    <3> QED BY <1>1, <2>2, <3>4, <3>5 DEF HeardInv, SpokeInTurn, AllSpoke, HasSpoken
  <2> QED BY <2>1, <2>3, <2>4 DEF SwarmInv
<1>6. \A t \in Swarms : t # s => SwarmInv(t)'
  BY <1>1, <1>3, OthersKeep
<1>7. ActiveBegan'
  BY <1>1, <1>4 DEF ActiveBegan
<1>8. DOMAIN round' = Swarms /\ DOMAIN turn' = Swarms /\ DOMAIN board' = Swarms /\ DOMAIN said' = Swarms
  BY <1>1 DEF SubInv
<1> QED BY <1>3, <1>5, <1>6, <1>7, <1>8 DEF SubInv

LEMMA VoteKeeps ==
  ASSUME SubInv, NEW s \in Swarms, NEW i, NEW v, Sub!_run_all(s, i, v)
  PROVE  SubInv'
<1>1. /\ pc[s] = "voting" /\ (pc' = pc \/ pc' = [pc EXCEPT ![s] = "done"])
      /\ UNCHANGED <<round, turn, board, active, said, log>>
  BY DEF Sub!_run_all, Sub!Decide
<1>2. /\ SwarmInv(s) /\ pc'[s] \in {"voting", "done"} /\ DOMAIN pc' = Swarms
      /\ \A t \in Swarms \ {s} : pc'[t] = pc[t]
  BY <1>1 DEF SubInv
<1>3. SwarmInv(s)'
  BY <1>1, <1>2 DEF SwarmInv, SwarmTyped, PhaseInv, HeardInv
<1>4. \A t \in Swarms : t # s => SwarmInv(t)'
  BY <1>1, <1>2, OthersKeep
<1>5. ActiveBegan'
  BY <1>1, <1>2 DEF SubInv, ActiveBegan
<1>6. /\ DOMAIN round' = Swarms /\ DOMAIN turn' = Swarms
      /\ DOMAIN board' = Swarms /\ DOMAIN said' = Swarms /\ DOMAIN log' = Swarms
  BY <1>1 DEF SubInv
<1> QED BY <1>2, <1>3, <1>4, <1>5, <1>6 DEF SubInv

LEMMA DebateKeeps ==
  ASSUME SubInv, NEW s \in Swarms, NEW x \in Answers, Sub!_debate(s, x)
  PROVE  SubInv'
<1> DEFINE n == Len(Members[s])
           a == Members[s][turn[s]]
           k == Sub!RoundKey(round[s], a)
           w == Sub!write(board[s], k, x, a)
           z == Sub!Contribution(k, x, a)
           c == Append(said[s], z)
<1>1. /\ pc[s] = "debating"
      /\ board' = [board EXCEPT ![s] = w] /\ said' = [said EXCEPT ![s] = c]
      /\ active' = active
  BY DEF Sub!_debate, Sub!Written
<1>2. \/ /\ turn[s] < n - 1
         /\ turn' = [turn EXCEPT ![s] = @ + 1] /\ round' = round /\ pc' = pc /\ log' = log
      \/ /\ turn[s] = n - 1 /\ round[s] < MaxRounds
         /\ turn' = [turn EXCEPT ![s] = 1] /\ round' = [round EXCEPT ![s] = @ + 1]
         /\ pc' = pc /\ log' = log
      \/ /\ turn[s] = n - 1 /\ round[s] = MaxRounds
         /\ pc' = [pc EXCEPT ![s] = "refereeing"]
         /\ log' = [log EXCEPT ![s] = Sub!latest(w)]
         /\ turn' = turn /\ round' = round
  BY DEF Sub!_debate, Sub!Advance, Sub!Refereeing
<1>3. /\ SwarmInv(s) /\ turn[s] \in 1..n - 1 /\ turn[s] \in Nat
      /\ round[s] \in 1..MaxRounds /\ round[s] \in Nat /\ n \in Nat /\ MaxRounds \in Nat
      /\ board[s] \in Boards /\ said[s] \in Seq(Contributions)
      /\ Records(board[s].entries, said[s])
      /\ SpokeInTurn(s, said[s], round[s], turn[s])
  BY <1>1, SwarmFacts DEF SubInv, SwarmInv, SwarmTyped, PhaseInv, HeardInv
<1>4. a \in Writers /\ k \in Spoken /\ x \in Written
  <2>1. turn[s] \in 1..n
    BY <1>3
  <2>2. a \in DOMAIN Role
    BY <2>1, SwarmFacts, ElementOfSeq
  <2> HIDE DEF a
  <2>3. k \in Spoken
    BY <1>3, <2>2 DEF Spoken
  <2> QED BY <2>2, <2>3 DEF Writers, Written
<1>5. z \in Contributions /\ z.by = a /\ z.key = k
  <2> HIDE DEF a, k
  <2> QED BY <1>4 DEF Sub!Contribution, Contributions
<1>6. w \in Boards /\ c \in Seq(Contributions) /\ Records(w.entries, c)
  <2> HIDE DEF a, k
  <2> QED BY <1>3, <1>4, BothGrow
<1>7. HasSpoken(s, c, round[s], turn[s])
  <2> HIDE DEF z
  <2>1. Len(c) = Len(said[s]) + 1 /\ c[Len(said[s]) + 1] = z /\ Len(said[s]) \in Nat
    BY <1>3, <1>5, Appended, LenProperties
  <2>2. Len(said[s]) + 1 \in 1..Len(c)
    BY <2>1
  <2> HIDE DEF c
  <2> QED BY <1>5, <2>1, <2>2 DEF HasSpoken
<1>8. \A q \in 1..MaxRounds, u \in 1..n - 1 :
        Earlier(q, u, round[s], turn[s]) => HasSpoken(s, c, q, u)
  <2> HIDE DEF z
  <2> QED BY <1>3, <1>5, SpokenStays DEF SpokeInTurn
<1> HIDE DEF w, c, k, a, z, n
<1>9. ASSUME NEW q \in 1..MaxRounds, NEW u \in 1..n - 1,
             Earlier(q, u, round[s], turn[s]) \/ (q = round[s] /\ u = turn[s])
      PROVE  HasSpoken(s, c, q, u)
  BY <1>7, <1>8, <1>9
<1>10. /\ board'[s] = w /\ said'[s] = c
       /\ \A t \in Swarms \ {s} : board'[t] = board[t] /\ said'[t] = said[t]
       /\ DOMAIN board' = Swarms /\ DOMAIN said' = Swarms
  BY <1>1 DEF SubInv
<1>11. /\ \A t \in Swarms \ {s} : /\ turn'[t] = turn[t] /\ round'[t] = round[t]
                                  /\ pc'[t] = pc[t] /\ log'[t] = log[t]
       /\ DOMAIN turn' = Swarms /\ DOMAIN round' = Swarms
       /\ DOMAIN pc' = Swarms /\ DOMAIN log' = Swarms
  BY <1>2 DEF SubInv
<1>12. ASSUME turn[s] < n - 1 PROVE SwarmInv(s)'
  <2>1. turn'[s] = turn[s] + 1 /\ round'[s] = round[s] /\ pc'[s] = "debating"
    BY <1>1, <1>2, <1>3, <1>12 DEF SubInv
  <2>2. turn'[s] \in 1..n - 1 /\ turn'[s] \in Nat
    BY <1>3, <1>12, <2>1
  <2>3. SpokeInTurn(s, c, round[s], turn[s] + 1)
    <3>1. ASSUME NEW q \in 1..MaxRounds, NEW u \in 1..n - 1, Earlier(q, u, round[s], turn[s] + 1)
          PROVE  Earlier(q, u, round[s], turn[s]) \/ (q = round[s] /\ u = turn[s])
      BY <1>3, <3>1 DEF Earlier
    <3> QED BY <1>9, <3>1 DEF SpokeInTurn, n
  <2>4. SwarmTyped(s)' /\ PhaseInv(s)'
    BY <1>3, <1>6, <1>10, <2>1, <2>2 DEF SwarmTyped, PhaseInv, n
  <2>5. HeardInv(s)'
    BY <1>6, <1>10, <2>1, <2>3 DEF HeardInv, SpokeInTurn, HasSpoken
  <2> QED BY <2>1, <2>4, <2>5 DEF SwarmInv
<1>13. ASSUME turn[s] = n - 1 /\ round[s] < MaxRounds PROVE SwarmInv(s)'
  <2>1. turn'[s] = 1 /\ round'[s] = round[s] + 1 /\ pc'[s] = "debating"
    BY <1>1, <1>2, <1>3, <1>13 DEF SubInv
  <2>2. turn'[s] \in 1..n - 1 /\ turn'[s] \in Nat /\ round'[s] \in 1..MaxRounds /\ round'[s] \in Nat
    BY <1>3, <1>13, <2>1
  <2>3. SpokeInTurn(s, c, round[s] + 1, 1)
    <3>1. ASSUME NEW q \in 1..MaxRounds, NEW u \in 1..n - 1, Earlier(q, u, round[s] + 1, 1)
          PROVE  Earlier(q, u, round[s], turn[s]) \/ (q = round[s] /\ u = turn[s])
      BY <1>3, <1>13, <3>1 DEF Earlier
    <3> QED BY <1>9, <3>1 DEF SpokeInTurn, n
  <2>4. SwarmTyped(s)' /\ PhaseInv(s)'
    BY <1>6, <1>10, <2>1, <2>2 DEF SwarmTyped, PhaseInv, n
  <2>5. HeardInv(s)'
    BY <1>6, <1>10, <2>1, <2>3 DEF HeardInv, SpokeInTurn, HasSpoken
  <2> QED BY <2>1, <2>4, <2>5 DEF SwarmInv
<1>14. ASSUME turn[s] = n - 1 /\ round[s] = MaxRounds PROVE SwarmInv(s)'
  <2>1. /\ turn'[s] = turn[s] /\ round'[s] = round[s] /\ pc'[s] = "refereeing"
        /\ log'[s] = Sub!latest(w)
    BY <1>2, <1>3, <1>14 DEF SubInv
  <2>2. AllSpoke(s, c)
    <3>1. ASSUME NEW q \in 1..MaxRounds, NEW u \in 1..n - 1
          PROVE  Earlier(q, u, round[s], turn[s]) \/ (q = round[s] /\ u = turn[s])
      BY <1>3, <1>14 DEF Earlier
    <3> QED BY <1>9, <3>1 DEF AllSpoke, n
  <2>3. Logged(Sub!latest(w), c)
    BY <1>6, LatestLogs
  <2>4. SwarmTyped(s)' /\ PhaseInv(s)'
    BY <1>3, <1>6, <1>10, <2>1 DEF SwarmTyped, PhaseInv
  <2>5. HeardInv(s)'
    BY <1>10, <2>1, <2>2, <2>3 DEF HeardInv, AllSpoke, HasSpoken
  <2> QED BY <2>1, <2>4, <2>5 DEF SwarmInv
<1>15. SwarmInv(s)'
  BY <1>2, <1>12, <1>13, <1>14
<1>16. \A t \in Swarms : t # s => SwarmInv(t)'
  BY <1>10, <1>11, OthersKeep
<1>17. ActiveBegan'
  <2>1. pc'[s] # "idle"
    BY <1>1, <1>2 DEF SubInv
  <2> QED BY <1>1, <1>11, <2>1 DEF SubInv, ActiveBegan
<1> QED BY <1>10, <1>11, <1>15, <1>16, <1>17 DEF SubInv

LEMMA EndKeeps ==
  ASSUME SubInv, NEW s \in Swarms, Sub!DebateRaises(s) \/ \E x \in Answers : Sub!Resolve(s, x)
  PROVE  SubInv'
<1>1. /\ pc[s] \in {"debating", "refereeing"}
      /\ pc' = [pc EXCEPT ![s] = "raised"] \/ pc' = [pc EXCEPT ![s] = "done"]
      /\ UNCHANGED <<round, turn, board, active, said, log>>
  BY DEF Sub!DebateRaises, Sub!Resolve
<1>2. /\ SwarmInv(s) /\ pc'[s] \in {"raised", "done"}
      /\ \A t \in Swarms \ {s} : pc'[t] = pc[t]
      /\ DOMAIN pc' = Swarms
  BY <1>1 DEF SubInv
<1>3. SwarmInv(s)'
  BY <1>1, <1>2 DEF SwarmInv, SwarmTyped, PhaseInv, HeardInv
<1>4. \A t \in Swarms : t # s => SwarmInv(t)'
  BY <1>1, <1>2, OthersKeep
<1>5. ActiveBegan'
  BY <1>1, <1>2 DEF SubInv, ActiveBegan
<1>6. /\ DOMAIN round' = Swarms /\ DOMAIN turn' = Swarms
      /\ DOMAIN board' = Swarms /\ DOMAIN said' = Swarms /\ DOMAIN log' = Swarms
  BY <1>1 DEF SubInv
<1> QED BY <1>2, <1>3, <1>4, <1>5, <1>6 DEF SubInv

LEMMA SubStutters ==
  ASSUME SubInv, UNCHANGED subVars
  PROVE  SubInv'
<1>1. UNCHANGED <<pc, round, turn, board, active, said, log>>
  BY DEF subVars
<1>2. \A s \in Swarms : SwarmRests(s) /\ SwarmInv(s) /\ board'[s] = board[s]
  BY <1>1 DEF SwarmRests, SubInv
<1>3. \A s \in Swarms : SwarmInv(s)'
  BY <1>2, RestKeeps
<1> QED BY <1>1, <1>3 DEF SubInv, ActiveBegan

THEOREM SubInvariance == Spec => []SubInv
<1>1. Init => SubInv
  BY PartsBegin, SubBegins
<1>2. SubInv /\ [Next]_vars => SubInv'
  <2> SUFFICES ASSUME SubInv, [Next]_vars PROVE SubInv'
    OBVIOUS
  <2>1. CASE Sub!Next
    <3>1. PICK s \in Swarms : Sub!Step(s)
      BY <2>1 DEF Sub!Next
    <3>2. CASE Sub!run(s)
      BY <3>2, RunKeeps
    <3>3. CASE \E i \in DOMAIN Members[s], v \in Sub!Ballots(s) : Sub!_run_all(s, i, v)
      BY <3>3, VoteKeeps
    <3>4. CASE \E x \in Answers : Sub!_debate(s, x)
      BY <3>4, DebateKeeps
    <3>5. CASE Sub!DebateRaises(s) \/ \E x \in Answers : Sub!Resolve(s, x)
      BY <3>5, EndKeeps
    <3>6. CASE \E k \in Notes, x \in Answers \cup {Sub!Deleted} : Sub!write_blackboard(s, k, x)
      BY <3>6, NoteKeeps DEF Written
    <3> QED BY <3>1, <3>2, <3>3, <3>4, <3>5, <3>6 DEF Sub!Step
  <2>2. CASE UNCHANGED subVars
    BY <2>2, SubStutters
  <2> QED BY <2>1, <2>2, PartsStep
<1> QED BY <1>1, <1>2, PTL DEF Spec

(* However many swarms debate, and whatever keys their agents give the      *)
(* tool, every debater has spoken in every round when the referee is        *)
(* called, and its log holds what was written last under each key for this  *)
(* debate, and nothing of another (subswarm.py:145, 153).                   *)
THEOREM DebatesAreHeard == Spec => []DebateIsHeard
<1>1. SubInv => DebateIsHeard
  <2> SUFFICES ASSUME SubInv, NEW s \in Swarms, pc[s] = "refereeing"
               PROVE  /\ \A r \in 1..MaxRounds, t \in Sub!Debaters(s) : \E i \in DOMAIN said[s] :
                           said[s][i].by = Members[s][t] /\ said[s][i].key = Sub!RoundKey(r, Members[s][t])
                      /\ \A i \in DOMAIN said[s] : Sub!Stands(said[s], i) =>
                           said[s][i].key \in DOMAIN log[s] /\ log[s][said[s][i].key] = said[s][i].value
                      /\ \A k \in DOMAIN log[s] :
                           \E i \in DOMAIN said[s] : Sub!Stands(said[s], i) /\ said[s][i].key = k
    BY DEF DebateIsHeard, Sub!DebateIsHeard
  <2>1. said[s] \in Seq(Contributions) /\ Logged(log[s], said[s]) /\ AllSpoke(s, said[s])
    BY DEF SubInv, SwarmInv, SwarmTyped, HeardInv
  <2>2. DOMAIN said[s] = 1..Len(said[s])
    BY <2>1, LenProperties
  <2>3. \A r \in 1..MaxRounds, t \in Sub!Debaters(s) : HasSpoken(s, said[s], r, t)
    BY <2>1 DEF AllSpoke, Sub!Debaters
  <2> QED BY <2>1, <2>2, <2>3 DEF Logged, HasSpoken
<1> QED BY <1>1, SubInvariance, PTL

=============================================================================
