------------------------------ MODULE Blackboard ------------------------------
(***************************************************************************)
(* memory/blackboard.py: versioned entries that are only ever appended.    *)
(***************************************************************************)
EXTENDS Naturals, Sequences, FiniteSets

EmptyBoard == [version |-> 0, entries |-> <<>>]

\* write(): under the board's lock
write(board, key, value, author) ==
  [version |-> board.version + 1,
   entries |-> Append(board.entries, [key |-> key, value |-> value, author |-> author,
                                      version |-> board.version + 1])]

\* delete() is a write of this value; so is an answer of the same text.
Deleted == "__DELETED__"

Kept(board) == {i \in DOMAIN board.entries : board.entries[i].value # Deleted}
Keys(board) == {board.entries[i].key : i \in Kept(board)}

\* latest(): of every key the value written last, deletions passed over
latest(board) ==
  [k \in Keys(board) |->
     LET i == CHOOSE i \in Kept(board) :
                /\ board.entries[i].key = k
                /\ \A j \in Kept(board) : board.entries[j].key = k => j <= i
     IN board.entries[i].value]

=============================================================================
