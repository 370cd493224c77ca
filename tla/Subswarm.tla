------------------------------- MODULE Subswarm -------------------------------
(***************************************************************************)
(* coordination/subswarm.py: subswarms that run concurrently.  The agents  *)
(* of a vote answer in any order; debaters speak in turn, each after       *)
(* reading the board, and the last agent is the referee.  The tool         *)
(* write_blackboard writes on the board of the subswarm that began last.   *)
(***************************************************************************)
EXTENDS Blackboard, FiniteSetsExt

CONSTANTS Swarms,
          Members,    \* swarm -> its agents, in the order of the topology
          Role,       \* agent -> spec.role
          Protocols,  \* the protocols its topology may name for a swarm
          MaxRounds,  \* max_rounds, 3 by default
          Answers,    \* what agents may answer
          Confidences, \* and how sure they may be, in halves
          Notes,      \* keys that agents give the tool, those of the debates among them
          MaxNotes    \* bound on the tool's writes

\* What the constants are meant to be; Collaboration assumes it.
SubswarmAssumption ==
  /\ "none" \notin Swarms
  /\ \A s \in Swarms : Members[s] \in Seq(DOMAIN Role) \ {<<>>}
  /\ MaxRounds \in Nat \ {0} /\ MaxNotes \in Nat /\ Confidences \subseteq Nat

VARIABLES protocol, \* protocol[s]
          pc,       \* pc[s]: "idle", "voting", "debating", "refereeing", "done", "raised"
          round, turn, \* of the debate: the round and whose turn it is
          votes,    \* votes[s]: results of _run_all, by position; <<>> for none yet
          board,    \* board[s]
          active,   \* the subswarm whose board the tool holds, "none" at first
          notes,    \* writes of the tool so far
          said,     \* said[s]: what was written for the debate of s until its referee
                    \* was called, by debaters and by the tool, in order (history)
          log,      \* log[s]: the debate log that the referee was given
          verdict   \* verdict[s]: the output of its result, once it is done

vars == <<protocol, pc, round, turn, votes, board, active, notes, said, log, verdict>>

ConsensusProtocol == {"majority", "weighted", "debate"}
NoVerdict == "none"
Referee(s) == Members[s][Len(Members[s])]
Debaters(s) == 1..Len(Members[s]) - 1
RoundKey(r, a) == <<r, Role[a]>>

Init == /\ protocol \in {p \in [Swarms -> ConsensusProtocol] : \A s \in Swarms : p[s] \in Protocols[s]}
        /\ pc = [s \in Swarms |-> "idle"]
        /\ round = [s \in Swarms |-> 1]
        /\ turn = [s \in Swarms |-> 1]
        /\ votes = [s \in Swarms |-> [i \in DOMAIN Members[s] |-> <<>>]]
        /\ board = [s \in Swarms |-> EmptyBoard]
        /\ active = "none"
        /\ notes = 0
        /\ said = [s \in Swarms |-> <<>>]
        /\ log = [s \in Swarms |-> latest(EmptyBoard)]
        /\ verdict = [s \in Swarms |-> NoVerdict]

Refereeing(s, b) == /\ pc' = [pc EXCEPT ![s] = "refereeing"]
                    /\ log' = [log EXCEPT ![s] = latest(b)]

\* run() up to the first await; the tool gets this subswarm's board.
run(s) ==
  /\ pc[s] = "idle"
  /\ active' = s
  /\ \/ /\ protocol[s] # "debate"
        /\ pc' = [pc EXCEPT ![s] = "voting"]
        /\ UNCHANGED log
     \/ /\ protocol[s] = "debate" /\ Debaters(s) # {}
        /\ pc' = [pc EXCEPT ![s] = "debating"]
        /\ UNCHANGED log
     \/ /\ protocol[s] = "debate" /\ Debaters(s) = {}
        /\ Refereeing(s, board[s])
  /\ UNCHANGED <<protocol, round, turn, votes, board, notes, said, verdict>>

Weight(s, v) == IF protocol[s] = "weighted" THEN v.confidence ELSE 1

\* votes or weighted: the score of answer x
Score(s, ballots, x) ==
  LET sum[n \in 0..Len(ballots)] ==
        IF n = 0 THEN 0
        ELSE sum[n - 1] + (IF ballots[n].answer = x THEN Weight(s, ballots[n]) ELSE 0)
  IN sum[Len(ballots)]

\* max() over the dict of votes: the highest score, and of several the one
\* that was entered first.
Winner(s, ballots) ==
  LET best == {i \in DOMAIN ballots : \A j \in DOMAIN ballots :
                 Score(s, ballots, ballots[j].answer) <= Score(s, ballots, ballots[i].answer)}
  IN ballots[Min(best)].answer

\* _majority_vote and _weighted_vote, once all agents are back
Decide(s, ballots) ==
  IF \E i \in DOMAIN ballots : ballots[i] = <<>>
  THEN UNCHANGED <<pc, verdict>>
  ELSE /\ verdict' = [verdict EXCEPT ![s] = Winner(s, ballots)]
       /\ pc' = [pc EXCEPT ![s] = "done"]

\* Agent i answers v in _run_all; what it raises is its answer, as gather()
\* returns exceptions.
_run_all(s, i, v) ==
  /\ pc[s] = "voting"
  /\ votes[s][i] = <<>>
  /\ LET ballots == [votes[s] EXCEPT ![i] = v]
     IN votes' = [votes EXCEPT ![s] = ballots] /\ Decide(s, ballots)
  /\ UNCHANGED <<protocol, round, turn, board, active, notes, said, log>>

Written(s, b) == board' = [board EXCEPT ![s] = b]

Advance(s, b) ==
  \/ /\ turn[s] < Len(Members[s]) - 1
     /\ turn' = [turn EXCEPT ![s] = @ + 1]
     /\ UNCHANGED <<round, pc, log>>
  \/ /\ turn[s] = Len(Members[s]) - 1 /\ round[s] < MaxRounds
     /\ turn' = [turn EXCEPT ![s] = 1]
     /\ round' = [round EXCEPT ![s] = @ + 1]
     /\ UNCHANGED <<pc, log>>
  \/ /\ turn[s] = Len(Members[s]) - 1 /\ round[s] = MaxRounds
     /\ Refereeing(s, b)
     /\ UNCHANGED <<turn, round>>

Contribution(key, value, by) == [key |-> key, value |-> value, by |-> by]

\* Variant: debaters write where the tool does.
_debate_activeBoard(s, x) ==
  LET a == Members[s][turn[s]]
      k == RoundKey(round[s], a)
      b == write(board[active], k, x, a)
  IN /\ pc[s] = "debating"
     /\ Written(active, b)
     /\ said' = [said EXCEPT ![s] = Append(@, Contribution(k, x, a))]
     /\ Advance(s, b)
     /\ UNCHANGED <<protocol, votes, active, notes, verdict>>

\* The debater whose turn it is answers x, which goes on the board.
_debate(s, x) ==
  LET a == Members[s][turn[s]]
      k == RoundKey(round[s], a)
      b == write(board[s], k, x, a)
  IN /\ pc[s] = "debating"
     /\ Written(s, b)
     /\ said' = [said EXCEPT ![s] = Append(@, Contribution(k, x, a))]
     /\ Advance(s, b)
     /\ UNCHANGED <<protocol, votes, active, notes, verdict>>

\* The referee answers x.
Resolve(s, x) ==
  /\ pc[s] = "refereeing"
  /\ pc' = [pc EXCEPT ![s] = "done"]
  /\ verdict' = [verdict EXCEPT ![s] = x]
  /\ UNCHANGED <<protocol, round, turn, votes, board, active, notes, said, log>>

\* A debater or the referee raises, and so does run().
DebateRaises(s) ==
  /\ pc[s] \in {"debating", "refereeing"}
  /\ pc' = [pc EXCEPT ![s] = "raised"]
  /\ UNCHANGED <<protocol, round, turn, votes, board, active, notes, said, log, verdict>>

Tool == "unknown"

\* A running agent of s calls the tool, with whatever key and value.
write_blackboard(s, k, x) ==
  /\ pc[s] \in {"voting", "debating", "refereeing"}
  /\ notes < MaxNotes
  /\ notes' = notes + 1
  /\ Written(active, write(board[active], k, x, Tool))
  /\ said' = IF pc[active] = "debating"
             THEN [said EXCEPT ![active] = Append(@, Contribution(k, x, Tool))] ELSE said
  /\ UNCHANGED <<protocol, pc, round, turn, votes, active, log, verdict>>

Ballot == [answer : Answers \cup {"error"}, confidence : Confidences \cup {1}]

\* An exception, or an answer that is not the JSON asked for, weighs a half.
Ballots(s) == IF protocol[s] = "weighted"
              THEN {v \in Ballot : v.answer = "error" <=> v.confidence = 1}
              ELSE {v \in Ballot : v.confidence = 1}

Step(s) == \/ run(s)
           \/ \E i \in DOMAIN Members[s], v \in Ballots(s) : _run_all(s, i, v)
           \/ \E x \in Answers : _debate(s, x) \/ Resolve(s, x)
           \/ DebateRaises(s)
           \/ \E k \in Notes, x \in Answers \cup {Deleted} : write_blackboard(s, k, x)

Next == \E s \in Swarms : Step(s)

Spec == Init /\ [][Next]_vars

-----------------------------------------------------------------------------
\* No later contribution under the same key hides this one.
Stands(d, i) == /\ d[i].value # Deleted
                /\ \A j \in DOMAIN d : d[j].key = d[i].key /\ d[j].value # Deleted => j <= i

(* However debates overlap, and whatever keys their agents give the tool,   *)
(* every debater has spoken in every round when the referee is called, and  *)
(* the log that the referee is given holds what was written last under each *)
(* key for this debate and nothing of another: what a debater said is lost  *)
(* only to a later writer of the key (subswarm.py:145, 153): one of the     *)
(* same role, or a tool while this subswarm was the last to begin.          *)
DebateIsHeard ==
  \A s \in Swarms : pc[s] = "refereeing" =>
    /\ \A r \in 1..MaxRounds, t \in Debaters(s) : \E i \in DOMAIN said[s] :
         said[s][i].by = Members[s][t] /\ said[s][i].key = RoundKey(r, Members[s][t])
    /\ \A i \in DOMAIN said[s] : Stands(said[s], i) =>
         said[s][i].key \in DOMAIN log[s] /\ log[s][said[s][i].key] = said[s][i].value
    /\ \A k \in DOMAIN log[s] :
         \E i \in DOMAIN said[s] : Stands(said[s], i) /\ said[s][i].key = k

=============================================================================
