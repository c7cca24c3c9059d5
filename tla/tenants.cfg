SPECIFICATION TenantsSpec
CONSTANTS
  head = head branch = branch bar = bar cellar = cellar ann = ann bob = bob
  Tenants = {head, branch, bar, cellar}
  NoTenant = NoTenant
  Users = {ann, bob}
  NoRole = NoRole
  MaxMembers = 2
  AppRoleExists = TRUE
CHECK_DEADLOCK FALSE
SYMMETRY Symmetry
INVARIANTS TenantsTypeOK ClosureExact SubtreeVisible MigrationsRunOnData  TenantRowsGuarded NoEscalation OwnersMayDoEverything SummariesShowReadable
