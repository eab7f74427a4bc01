SPECIFICATION Spec
CONSTANTS
  native = native
  plain = plain
  tray = tray
  cli = cli
  blank = blank
  draft = draft
  left = left
  right = right
  None = None
  App = {native, plain}
  Native = {native}
  Targeted = {}
  Own = {native}
  Process = {tray, cli}
  ReadsHome = TRUE
  Tray = tray
  Name <- TwoNames
  State = {blank, draft}
  Fresh = blank
  Place = {left, right}
  MaxTurns = 2
INVARIANTS SessionTypeOK NeverNested EntriesKept
PROPERTIES RestoreUndoes ResumeRestores
