--------------------------- MODULE MCCollaboration ---------------------------
(***************************************************************************)
(* A subswarm of three that may vote or debate, and one of two that        *)
(* debates, for the model checker.                                         *)
(***************************************************************************)
EXTENDS Collaboration

CONSTANTS s1, s2, a1, a2, a3, b1, b2, note

TwoSwarms == {s1, s2}
MembersOf == [s \in TwoSwarms |-> IF s = s1 THEN <<a1, a2, a3>> ELSE <<b1, b2>>]
ProtocolsOf == [s \in TwoSwarms |-> IF s = s1 THEN {"majority", "weighted", "debate"}
                                    ELSE {"debate"}]
\* All debaters are of one role, so that their keys meet.
RoleOf == [a \in {a1, a2, a3, b1, b2} |-> IF a \in {a3, b2} THEN "referee" ELSE "coder"]

\* The tool is also given a key of the debates.
NoteKeys == {note, <<1, "coder">>}

=============================================================================
