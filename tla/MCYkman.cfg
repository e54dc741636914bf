CONSTANTS
  new = new
  old = old
  None = None
  Binaries = {new, old}
  Relative = Relative
  Version <- Versions
  MinVersion <- Floor
  Devices = {k1}
  Challenges = {c1}
  Junk = Junk
  MaxOutput = 2
  MaxCalls = 3
SPECIFICATION Spec
INVARIANTS TypeOK AnswerIsGenuine
PROPERTIES ToolIsPinned CallsReturn
