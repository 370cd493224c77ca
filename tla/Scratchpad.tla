----------------------------- MODULE Scratchpad -----------------------------
(***************************************************************************)
(* The conversation log of memory/scratchpad.py: append_message() and the  *)
(* compaction behind it.  A message is [role, id, size]; its size stands   *)
(* for its share of token_estimate().                                      *)
(***************************************************************************)
EXTENDS Naturals, Sequences, SequencesExt, FiniteSets

CONSTANTS MaxTokens,   \* spec.termination.max_tokens
          TailLength,  \* messages kept at most, 8 in the code
          NoticeSize   \* size of a compaction notice

ASSUME ScratchpadAssumption == /\ MaxTokens \in Nat
                               /\ TailLength \in Nat \ {0}
                               /\ NoticeSize \in Nat

token_estimate(msgs) == FoldSeq(LAMBDA m, n : m.size + n, 0, msgs)

Notice == [role |-> "notice", id |-> 0, size |-> NoticeSize]

IsSystem(m) == m.role \in {"system", "notice"}

IsOriginal(m) == m.role = "system"

\* Of msgs those at the given places, in their order.
Picked(msgs, places) ==
  [n \in 1..Cardinality(places) |->
     msgs[CHOOSE i \in places : Cardinality({j \in places : j <= i}) = n]]

\* rest: without any system message, compaction notices included
Rest(msgs) == Picked(msgs, {i \in DOMAIN msgs : ~IsSystem(msgs[i])})

\* keep_tail: rest[-max(1, min(8, len(rest) - 1)):]
KeepTail(msgs) ==
  LET rest == Rest(msgs)
      n == IF Len(rest) <= 2 THEN 1
           ELSE IF Len(rest) - 1 < TailLength THEN Len(rest) - 1 ELSE TailLength
  IN IF rest = <<>> THEN <<>> ELSE SubSeq(rest, Len(rest) - n + 1, Len(rest))

\* original_system: the first system message that is not a notice
OriginalSystem(msgs) ==
  LET originals == {i \in DOMAIN msgs : IsOriginal(msgs[i])}
  IN IF originals = {} THEN <<>> ELSE <<msgs[Min(originals)]>>

Compacted(msgs) ==
  LET kept == Len(OriginalSystem(msgs)) + Len(KeepTail(msgs))
  IN IF token_estimate(msgs) < MaxTokens \/ Len(msgs) <= kept
     THEN msgs
     ELSE OriginalSystem(msgs) \o <<Notice>> \o KeepTail(msgs)

append_message(msgs, m) == Compacted(Append(msgs, m))

=============================================================================
