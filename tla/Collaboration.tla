---------------------------- MODULE Collaboration ----------------------------
(***************************************************************************)
(* The two ways agents work together, which share no state: the bus and    *)
(* the subswarms.  A behaviour is of one of them; the other rests.         *)
(***************************************************************************)
EXTENDS Naturals, Sequences

\* What each part is about; its module says more of each.
CONSTANTS Agents, Channels, MaxMessages, MaxCloses,
          Swarms, Members, Role, Protocols, MaxRounds, Answers, Confidences, Notes, MaxNotes

VARIABLES part,
          transport, sent, closes, queues, members, sub, got,
          protocol, pc, round, turn, votes, board, active, notes, said, log, verdict

busVars == <<transport, sent, closes, queues, members, sub, got>>
subVars == <<protocol, pc, round, turn, votes, board, active, notes, said, log, verdict>>
vars == <<part, busVars, subVars>>

Bus == INSTANCE MessageBus
Sub == INSTANCE Subswarm

ASSUME CollaborationAssumption == Bus!BusAssumption /\ Sub!SubswarmAssumption

Init == part \in {"bus", "subswarm"} /\ Bus!Init /\ Sub!Init

BusStep == part = "bus" /\ Bus!Next /\ UNCHANGED <<part, subVars>>
SubswarmStep == part = "subswarm" /\ Sub!Next /\ UNCHANGED <<part, busVars>>

Next == BusStep \/ SubswarmStep

Spec == Init /\ [][Next]_vars

-----------------------------------------------------------------------------
(* MessageBus: a direct message waits for its recipient, and no agent       *)
(* receives messages out of order.                                          *)
BusDelivers == Bus!BusDelivers

(* Subswarm: the referee is given the whole debate.                         *)
DebateIsHeard == Sub!DebateIsHeard

=============================================================================
