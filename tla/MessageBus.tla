------------------------------ MODULE MessageBus ------------------------------
(***************************************************************************)
(* coordination/bus.py: the bus in the process, with a queue per agent     *)
(* that outlives a subscription, and the bus on Redis, which keeps nothing *)
(* for who is not listening.  No call of either is interrupted: the lock   *)
(* is never contended and the queues are unbounded.  Messages are numbered *)
(* in the order of their sending.                                          *)
(***************************************************************************)
EXTENDS Naturals, Sequences, SequencesExt, FiniteSets

CONSTANTS Agents, Channels,
          MaxMessages, MaxCloses   \* bounds

None == "none"

\* What the constants are meant to be; Collaboration assumes it.
BusAssumption == /\ MaxMessages \in Nat /\ MaxCloses \in Nat
                 /\ None \notin Agents \cup Channels

VARIABLES transport, \* what create_bus() made: "in-process" or "redis"
          sent,      \* sent[i]: recipient and channel of message i (history)
          closes,    \* calls of close(); a queue belongs to one epoch
          queues,    \* queues[e][a]: the queue of a made in epoch e
          members,   \* _channel_queues: channel -> the queues, as <<epoch, agent>>
          sub,       \* sub[a]: the subscription that a iterates over
          got        \* got[a]: the messages a has received

vars == <<transport, sent, closes, queues, members, sub, got>>

NoSub == [queue |-> <<>>, channel |-> None]
Queues == (0..MaxCloses) \X Agents

\* create_bus; any other name raises.
create_bus(name) == CASE name = "in-process" -> "in-process"
                      [] name \in {"redis", "nats"} -> "redis"

Init == /\ transport \in {create_bus(name) : name \in {"in-process", "redis", "nats"}}
        /\ sent = <<>>
        /\ closes = 0
        /\ queues = [q \in Queues |-> <<>>]
        /\ members = [c \in Channels |-> <<>>]
        /\ sub = [a \in Agents |-> NoSub]
        /\ got = [a \in Agents |-> <<>>]

\* The queue that _agent_queues has, or would now make, for a
QueueOf(a) == <<closes, a>>

\* Message m is put n[q] times into queue q.
Put(m, n) == queues' = [q \in Queues |-> queues[q] \o [i \in 1..n[q] |-> m]]

InChannel(q, channel) ==
  IF channel \notin Channels THEN 0
  ELSE Cardinality({i \in DOMAIN members[channel] : members[channel][i] = q})

\* Variant: only who subscribes has a queue.
send_skipsAbsent(recipient, channel) ==
  /\ transport = "in-process"
  /\ sent' = Append(sent, [to |-> recipient, channel |-> channel, epoch |-> closes])
  /\ Put(Len(sent'), [q \in Queues |->
       InChannel(q, channel) + (IF recipient # None /\ q = QueueOf(recipient)
                                   /\ sub[recipient] # NoSub THEN 1 ELSE 0)])
  /\ UNCHANGED <<transport, closes, members, sub, got>>

\* InProcessBus.send: to the recipient's queue, listening or not, and to all
\* queues of the channel.
send(recipient, channel) ==
  /\ transport = "in-process"
  /\ sent' = Append(sent, [to |-> recipient, channel |-> channel, epoch |-> closes])
  /\ Put(Len(sent'), [q \in Queues |->
       InChannel(q, channel) + (IF recipient # None /\ q = QueueOf(recipient) THEN 1 ELSE 0)])
  /\ UNCHANGED <<transport, closes, members, sub, got>>

\* RedisBus.send: one topic only, and only to who is subscribed to it.
publish(recipient, channel) ==
  /\ transport = "redis"
  /\ sent' = Append(sent, [to |-> recipient, channel |-> channel, epoch |-> closes])
  /\ Put(Len(sent'), [q \in Queues |->
       IF sub[q[2]].queue = q
          /\ (IF recipient # None THEN q[2] = recipient ELSE sub[q[2]].channel = channel)
       THEN 1 ELSE 0])
  /\ UNCHANGED <<transport, closes, members, sub, got>>

\* InProcessBus.subscribe up to its first q.get()
subscribe(a, channel) ==
  /\ transport = "in-process" /\ sub[a] = NoSub
  /\ sub' = [sub EXCEPT ![a] = [queue |-> QueueOf(a), channel |-> channel]]
  /\ members' = IF channel = None THEN members
                ELSE [members EXCEPT ![channel] = Append(@, QueueOf(a))]
  /\ UNCHANGED <<transport, sent, closes, queues, got>>

\* RedisBus.subscribe, with a client of its own
listen(a, channel) ==
  /\ transport = "redis" /\ sub[a] = NoSub
  /\ sub' = [sub EXCEPT ![a] = [queue |-> QueueOf(a), channel |-> channel]]
  /\ queues' = [queues EXCEPT ![QueueOf(a)] = <<>>]
  /\ UNCHANGED <<transport, sent, closes, members, got>>

\* q.get() returns and the message is yielded.
receive(a) ==
  /\ sub[a] # NoSub
  /\ queues[sub[a].queue] # <<>>
  /\ got' = [got EXCEPT ![a] = Append(@, Head(queues[sub[a].queue]))]
  /\ queues' = [queues EXCEPT ![sub[a].queue] = Tail(@)]
  /\ UNCHANGED <<transport, sent, closes, members, sub>>

\* list.remove(q), for a list that has q
Without(list, q) ==
  LET place == CHOOSE i \in DOMAIN list :
                 list[i] = q /\ \A j \in DOMAIN list : list[j] = q => i <= j
  IN RemoveAt(list, place)

\* The iteration ends: the finally clause takes the queue out of the
\* channel once, if close() has not forgotten it; Redis drops its buffer.
leave(a) ==
  /\ sub[a] # NoSub
  /\ sub' = [sub EXCEPT ![a] = NoSub]
  /\ LET c == sub[a].channel IN
       members' = IF transport = "redis" \/ c = None THEN members
                  ELSE IF sub[a].queue \notin ToSet(members[c]) THEN members
                  ELSE [members EXCEPT ![c] = Without(@, sub[a].queue)]
  /\ queues' = IF transport = "redis" THEN [queues EXCEPT ![sub[a].queue] = <<>>]
                                      ELSE queues
  /\ UNCHANGED <<transport, sent, closes, got>>

\* InProcessBus.close forgets every queue; its readers keep theirs.  (That of
\* RedisBus drops the client it publishes with, which send() makes again.)
close ==
  /\ transport = "in-process"
  /\ closes < MaxCloses
  /\ closes' = closes + 1
  /\ members' = [c \in Channels |-> <<>>]
  /\ UNCHANGED <<transport, sent, queues, sub, got>>

Next == \/ /\ Len(sent) < MaxMessages
           /\ \E r \in Agents \cup {None}, c \in Channels \cup {None} :
                (r # None \/ c # None) /\ (send(r, c) \/ publish(r, c))
        \/ \E a \in Agents :
             \/ \E c \in Channels \cup {None} : subscribe(a, c) \/ listen(a, c)
             \/ receive(a) \/ leave(a)
        \/ close

Spec == Init /\ [][Next]_vars

-----------------------------------------------------------------------------
Waiting(a) == queues[QueueOf(a)]
DirectTo(a, epochs) ==
  {i \in DOMAIN sent : sent[i].to = a /\ sent[i].epoch \in epochs}

(* In the process a message for an agent is kept until the agent listens:   *)
(* every one sent since the last close() was received or still waits, over  *)
(* any leaving and subscribing again (bus.py:67).  On Redis it need not be. *)
DirectIsKept ==
  transport = "in-process" =>
    \A a \in Agents : DirectTo(a, {closes}) \subseteq ToSet(got[a]) \cup ToSet(Waiting(a))

(* No agent receives messages out of the order of their sending, whoever    *)
(* sent them and whether they came directly or through a channel: a copy    *)
(* for each of the two at most (bus.py:67-77).                              *)
InOrder ==
  \A a \in Agents :
    LET all == got[a] \o (IF sub[a] = NoSub THEN <<>> ELSE queues[sub[a].queue])
    IN /\ \A i, j \in DOMAIN all : i < j => all[i] <= all[j]
       /\ \A m \in DOMAIN sent :
            Cardinality({i \in DOMAIN all : all[i] = m}) <= 2

(* What the bus owes an agent: every direct message, and an order.          *)
BusDelivers == DirectIsKept /\ InOrder

=============================================================================
