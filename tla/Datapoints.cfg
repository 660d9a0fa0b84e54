CONSTANTS
  power = power
  getall = getall
  nothing = nothing
  Points = {power}
  Uploaded = {power}
  GetAll = getall
  Nothing = nothing
  Inputs = {0, 3}
  RawInputs = {1}
  MinValue = 0
  MaxValue = 2
  EnumWidth = 2
  Lapse = 1
  MaxTransit = 2
SPECIFICATION FairSpec
INVARIANTS
  ChangeIsFlagged
PROPERTIES
  CloudCatchesUp
