SPECIFICATION SignInSpec
CONSTANTS
  v1 = v1 v2 = v2 c1 = c1 ann = ann bob = bob
  Workers = {}
  Users = {ann}
  Founders = {ann}
  Inherited <- OwnTenant
  Outside = {ann}
  RolesAsked = {"cashier"}
  MaxMembers = 2
  OneAtATime = TRUE
  Visits = {v1, v2}
  Nobody = Nobody
  MaxSessions = 3
  OneByOne = FALSE
CHECK_DEADLOCK FALSE
SYMMETRY Symmetry
INVARIANT ExchangedOnce
