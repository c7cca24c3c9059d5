SPECIFICATION LimiterSpec
CONSTANTS
  web1 = web1 web2 = web2
  Processes = {web1, web2}
  Max = 2
  Window = 3
  LastTick = 7
CHECK_DEADLOCK FALSE
SYMMETRY Symmetry
INVARIANT LimiterTypeOK
PROPERTIES RefinesWindow QuietIsAdmitted
