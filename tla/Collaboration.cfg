SPECIFICATION Spec
CONSTANTS
  Agents = {p1, p2}
  Channels = {c1}
  MaxMessages = 2
  MaxCloses = 1
  Swarms <- TwoSwarms
  Members <- MembersOf
  Role <- RoleOf
  Protocols <- ProtocolsOf
  s1 = s1
  s2 = s2
  a1 = a1
  a2 = a2
  a3 = a3
  b1 = b1
  b2 = b2
  Answers = {x, y}
  note = note
  Confidences = {2}
  Notes <- NoteKeys
  MaxRounds = 2
  MaxNotes = 1
INVARIANTS
  BusDelivers
  
CHECK_DEADLOCK FALSE
