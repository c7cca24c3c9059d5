-------------------------------- MODULE Tenants ---------------------------------
(***************************************************************************)
(* The tree of tenants of app/modules/tenant: tenants and the sub-tenants  *)
(* created below them, the closure table a trigger keeps of the tree, the  *)
(* row-level security that reads it, the modules a tenant may use, and the *)
(* memberships that are inherited down the tree; together with the         *)
(* migrations that fill closure and entitlements in for the tenants there  *)
(* are.  The program runs at the last revision only (entrypoint.sh).       *)
(*                                                                         *)
(* A request is one step here: what a request reads of tenants, closure    *)
(* and entitlements is never updated or deleted while the program runs.    *)
(***************************************************************************)
EXTENDS Migrations, FiniteSets

CONSTANTS
  Tenants,     \* tenants.id
  NoTenant,    \* no parent; no tenant context
  Users,       \* users.id
  NoRole,      \* no access
  MaxMembers   \* bound: how many memberships there may be

\* NULL is nobody's id.
ASSUME TenantsAssumption == NoTenant \notin Tenants

VARIABLES
  parent,     \* tenants: parent_tenant_id of every tenant there is
  closure,    \* tenant_closure
  entitled,   \* tenant_entitlements, as <<tenant, module>> pairs, all enabled
  member,     \* memberships
  backfilled  \* history: the tenants whose closure the migration filled in

tree == <<parent, closure, entitled, member, backfilled>>
vars == <<revision, schema, tree>>

Existing == DOMAIN parent

Closure == [ancestor : Tenants, descendant : Tenants, depth : Nat]

Pair(a, d, n) == [ancestor |-> a, descendant |-> d, depth |-> n]

\* DEFAULT_MODULE_KEYS
Modules == {"inventory", "pos", "finance"}

-----------------------------------------------------------------------------
(* The tree *)

\* get_ancestor_tenant_ids: a tenant and its ancestors, nearest first.
Lineage(t) ==
  LET up[x \in Existing] ==
        <<x>> \o IF parent[x] = NoTenant THEN <<>> ELSE up[parent[x]]
  IN up[t]

Below(a) == {d \in Existing \ {a} : a \in ToSet(Lineage(d))}

\* The tenants the closure puts at or below a, whom the policies ask about.
Descendants(a) == {c.descendant : c \in {r \in closure : r.ancestor = a}}

\* The USING clause on tenants: what a session in a tenant's context can read.
Visible(t, context) ==
  context = NoTenant \/ {t, parent[t]} \cap Descendants(context) # {}

\* The WITH CHECK clause on tenants: below which parent it can insert.
Insertable(p, context) == context = NoTenant \/ p \in Descendants(context)

\* list_subtree: the recursive query starts at a and goes from a visible tenant to
\* its visible children.
Listed(a) ==
  {d \in Below(a) :
     \A x \in ToSet(Lineage(d)) : x \in {a} \cup Below(a) => Visible(x, a)}

\* is_within_subtree
WithinSubtree(p, a) == p = a \/ p \in Listed(a)

\* resolve_membership_for_tenant: a membership of the tenant itself, or else of its
\* nearest ancestor.
EffectiveRole(u, t) ==
  LET of(x) == {m \in member : m.user = u /\ m.tenant = x}
      held == SelectSeq(Lineage(t), LAMBDA x : of(x) # {})
  IN IF held = <<>> THEN NoRole ELSE (CHOOSE m \in of(held[1]) : TRUE).role

\* require_permission
May(u, t, permission) == permission \in Granted(EffectiveRole(u, t))

-----------------------------------------------------------------------------
TenantsInit ==
  /\ revision = 0
  /\ schema = Empty
  /\ parent = <<>>
  /\ closure = {}
  /\ entitled = {}
  /\ member = {}
  /\ backfilled = {}

-----------------------------------------------------------------------------
(* Migrations that change rows *)

\* 0010 pairs every tenant with the root of its tree, and with no other ancestor.
Backfill ==
  {Pair(Last(Lineage(t)), t, Len(Lineage(t)) - 1) : t \in Existing}

\* Mutant of BackfilledModules: 0012 leaves the tenants there are without finance.
BackfilledFirstModules(r) ==
  Existing \X (CASE r = 10 -> {"inventory", "pos"} [] OTHER -> {})

\* 0010 entitles every tenant to the modules there were, 0012 to finance.
BackfilledModules(r) ==
  Existing \X (CASE r = 10 -> {"inventory", "pos"} [] r = 12 -> {"finance"} [] OTHER -> {})

\* A row that exists already fails the insert (the primary key of the table).
UpgradeTree ==
  /\ Upgrade
  /\ entitled \cap BackfilledModules(revision') = {}
  /\ entitled' = entitled \cup BackfilledModules(revision')
  /\ closure' = IF revision' = 10 THEN Backfill ELSE closure
  /\ backfilled' = IF revision' = 10 THEN Existing ELSE backfilled
  /\ UNCHANGED <<parent, member>>

\* Mutant of DowngradeTree: undoing 0012 leaves the finance entitlements behind.
DowngradeTreeKeepingRows ==
  /\ Downgrade
  /\ entitled' = IF revision = 10 THEN {} ELSE entitled
  /\ closure' = IF revision = 10 THEN {} ELSE closure
  /\ backfilled' = IF revision = 10 THEN {} ELSE backfilled
  /\ member' = IF revision = 2 THEN {} ELSE member
  /\ parent' = IF revision = 1 THEN <<>> ELSE parent

\* Undoing 0010 drops both tables, undoing 0012 deletes the finance entitlements, and
\* undoing 0002 and 0001 drops memberships and tenants.
DowngradeTree ==
  /\ Downgrade
  /\ entitled' = CASE revision = 10 -> {}
                   [] revision = 12 -> {e \in entitled : e[2] # "finance"}
                   [] OTHER -> entitled
  /\ closure' = IF revision = 10 THEN {} ELSE closure
  /\ backfilled' = IF revision = 10 THEN {} ELSE backfilled
  /\ member' = IF revision = 2 THEN {} ELSE member
  /\ parent' = IF revision = 1 THEN <<>> ELSE parent

-----------------------------------------------------------------------------
(* The program *)

\* Mutants of TriggerRows: the distance goes down; only the parent is paired.
TriggerCountsDown(t, p) ==
  {Pair(t, t, 0)} \cup
    {Pair(c.ancestor, t, c.depth - 1) : c \in {r \in closure : r.descendant = p}}

TriggerParentOnly(t, p) ==
  {Pair(t, t, 0)} \cup IF p = NoTenant THEN {} ELSE {Pair(p, t, 1)}

\* maintain_tenant_closure, which sees the whole table (SECURITY DEFINER).
TriggerRows(t, p) ==
  {Pair(t, t, 0)} \cup
    {Pair(c.ancestor, t, c.depth + 1) : c \in {r \in closure : r.descendant = p}}

Insert(t, p) ==
  /\ parent' = [x \in Existing \cup {t} |-> IF x = t THEN p ELSE parent[x]]
  /\ closure' = closure \cup TriggerRows(t, p)
  /\ entitled' = entitled \cup ({t} \X Modules)
  /\ UNCHANGED <<revision, schema, backfilled>>

\* register: a new person with a tenant of their own.  There is no tenant context.
Register(u, t) ==
  /\ revision = Latest
  /\ \A m \in member : m.user # u
  /\ Cardinality(member) < MaxMembers
  /\ Insert(t, NoTenant)
  /\ member' = member \cup {[user |-> u, tenant |-> t, role |-> "owner"]}

\* create_sub_tenant, for a caller with tenant.write in the active tenant a: below a
\* or, if a parent is named, below a tenant of a's subtree.
CreateSubTenant(u, a, p, t) ==
  /\ revision = Latest
  /\ May(u, a, "tenant.write")
  /\ WithinSubtree(p, a)
  /\ Visible(p, a)
  /\ Insertable(p, a)
  /\ Insert(t, p)
  /\ UNCHANGED member

\* assert_assignable_role
Assignable(actor, r) ==
  \/ actor = "owner"
  \/ actor = "manager" /\ r \in {"cashier", "kitchen", "finance"}

\* add_staff, statement by statement in Staff.
AddStaff(actor, t, u, r) ==
  /\ revision = Latest
  /\ May(actor, t, "staff.write")
  /\ Assignable(EffectiveRole(actor, t), r)
  /\ Cardinality(member) < MaxMembers
  /\ \A m \in member : m.user = u => m.tenant # t
  /\ member' = member \cup {[user |-> u, tenant |-> t, role |-> r]}
  /\ UNCHANGED <<revision, schema, parent, closure, entitled, backfilled>>

Next ==
  \/ UpgradeTree
  \/ DowngradeTree
  \/ \E u \in Users :
       \/ \E t \in Tenants \ Existing :
            \/ Register(u, t)
            \/ \E a, p \in Existing : CreateSubTenant(u, a, p, t)
       \/ \E t \in Existing, v \in Users, r \in Roles : AddStaff(u, t, v, r)

TenantsSpec == TenantsInit /\ [][Next]_vars

-----------------------------------------------------------------------------
(* Properties *)

\* Every variable has its type (tenant/models.py).
TenantsTypeOK ==
  /\ revision \in 0..Latest
  /\ Existing \subseteq Tenants
  /\ \A t \in Existing : parent[t] \in Existing \cup {NoTenant}
  /\ closure \subseteq Closure
  /\ entitled \subseteq Existing \X Modules
  /\ member \subseteq [user : Users, tenant : Existing, role : Roles]

\* t is an ancestor the closure knows of: the root of a tree, or a tenant that was
\* created since the closure was filled in.
Recorded(t) == parent[t] = NoTenant \/ t \notin backfilled

\* The closure is the tree: no pair that is not an ancestor and its descendant, with
\* their distance, and every pair whose ancestor it knows of.
ClosureExact ==
  revision >= 10 =>
    closure = UNION {{Pair(Lineage(d)[i], d, i - 1) :
                        i \in {j \in DOMAIN Lineage(d) : Recorded(Lineage(d)[j])}} :
                      d \in Existing}

\* Row-level security hides nothing of a tenant's own subtree and shows nothing else,
\* so what list_subtree and is_within_subtree read under it is the subtree.
SubtreeVisible ==
  revision = Latest => \A a \in Existing :
    Recorded(a) => /\ Listed(a) = Below(a)
                   /\ {t \in Existing : Visible(t, a)} = {a} \cup Below(a)

\* Data never stop a migration: no row it inserts is there already.
MigrationsRunOnData ==
  /\ MigrationsRun
  /\ revision < Latest => entitled \cap BackfilledModules(revision + 1) = {}

=============================================================================
