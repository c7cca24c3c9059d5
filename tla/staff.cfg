SPECIFICATION Spec
CONSTANTS
  c1 = c1 c2 = c2 ann = ann bob = bob cyd = cyd dan = dan
  Workers = {c1}
  Users = {ann, bob, cyd}
  Founders = {ann}
  Inherited <- OwnTenant
  Outside = {cyd}
  RolesAsked = {"owner", "manager", "cashier"}
  MaxMembers = 4
  OneAtATime = TRUE
CHECK_DEADLOCK FALSE
INVARIANT StaffTypeOK
PROPERTIES AnOwnerRemains OwnersKeepThemselves
