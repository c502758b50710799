SPECIFICATION ComposerSpec
CONSTANTS
  c1 = c1
  c2 = c2
  g1 = g1
  f1 = f1
  f2 = f2
  None = None
  Platforms = {"web", "mobile"}
  Chats = {c1, c2, g1}
  Direct = {c1, c2}
  Files = {f1, f2}
  Uses <- MCUses
  MaxEdits = 2
  MaxSends = 3
  MaxFails = 1
INVARIANTS
  PayloadFits
  DraftsSentOnce
  TypingWillStop
SYMMETRY Symmetry
CHECK_DEADLOCK FALSE
