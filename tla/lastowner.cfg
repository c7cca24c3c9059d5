SPECIFICATION Spec
CONSTANTS
  c1 = c1 c2 = c2 ann = ann bob = bob cyd = cyd dan = dan
  Workers = {c1, c2}
  Users = {ann, bob}
  Founders = {ann}
  Inherited <- OwnTenant
  Outside = {}
  RolesAsked = {"owner", "cashier"}
  MaxMembers = 2
  OneAtATime = FALSE
CHECK_DEADLOCK FALSE
PROPERTY AnOwnerRemains
