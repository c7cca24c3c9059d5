------------------------------- MODULE Migrations -------------------------------
(***************************************************************************)
(* The schema history of alembic/versions, as far as it decides who may do *)
(* what: which tables there are and which of them they refer to, which are *)
(* under row-level security, which permission keys exist and which roles   *)
(* are granted them.  A migration is applied or undone in one transaction  *)
(* (PostgreSQL's DDL is transactional), so it happens whole or not at all. *)
(* Columns, indexes and the DML grants of the database role are left out.  *)
(***************************************************************************)
EXTENDS Integers, Sequences, SequencesExt

CONSTANT AppRoleExists \* the database role hbm_app (APP_DB_ROLE) was created

VARIABLES
  revision, \* alembic_version: how many migrations are applied
  schema    \* what they have made of the database, see Empty

\* tables: each with the tables its foreign keys refer to; guarded: those with
\* row-level security enabled and a policy; permissions: permissions.key; grants:
\* role_permissions, as <<role, permission>> pairs.
Empty == [tables |-> {}, guarded |-> {}, permissions |-> {}, grants |-> {}]

Roles == {"owner", "manager", "cashier", "kitchen", "finance"}

\* What a migration does: the tables it creates, in order, what it puts under
\* row-level security, the grants it seeds with their keys, the grants it
\* deletes, and whether it names the application's role without looking for it.
Nothing ==
  [creates |-> <<>>, guards |-> {}, seeds |-> {}, revokes |-> {}, needsRole |-> FALSE]

\* What undoing it does: the tables it drops, in order, what it takes out of
\* row-level security, the keys it deletes, the grants it gives back.
Undo(drops, guards, keys, gives) ==
  [drops |-> drops, unguards |-> guards, keys |-> keys, gives |-> gives]

Table(name, refs) == [name |-> name, refs |-> refs]

-----------------------------------------------------------------------------
(* The migrations *)

Up0001 == [Nothing EXCEPT !.creates = <<Table("tenants", {"tenants"})>>]
Down0001 == Undo(<<"tenants">>, {}, {}, {})

Up0002 ==
  [Nothing EXCEPT !.creates =
    <<Table("users", {}), Table("roles", {}),
      Table("memberships", {"users", "tenants", "roles"})>>]
Down0002 == Undo(<<"memberships", "roles", "users">>, {}, {}, {})

Seeds0003 == {"owner", "manager"} \X {"staff.read", "staff.write", "staff.status"}
Up0003 ==
  [Nothing EXCEPT
    !.creates = <<Table("permissions", {}),
                  Table("role_permissions", {"permissions", "roles"})>>,
    !.seeds = Seeds0003]
Down0003 ==
  Undo(<<"role_permissions", "permissions">>, {},
       {"staff.read", "staff.write", "staff.status"}, {})

Up0004 == [Nothing EXCEPT !.guards = {"memberships"}]
Down0004 == Undo(<<>>, {"memberships"}, {}, {})

Up0005 ==
  [Nothing EXCEPT !.seeds =
    ({"owner", "manager"} \X {"tenant.read"}) \cup {<<"owner", "tenant.write">>}]
Down0005 == Undo(<<>>, {}, {"tenant.read", "tenant.write"}, {})

Up0006 == [Nothing EXCEPT !.creates = <<Table("refresh_sessions", {"users", "tenants"})>>]
Down0006 == Undo(<<"refresh_sessions">>, {}, {}, {})

Stockkeepers == {"owner", "manager", "cashier", "kitchen"}
Seeds0007 ==
  (Stockkeepers \X {"inventory.read", "inventory.write"}) \cup {<<"finance", "inventory.read">>}
Tables0007 == {"products", "product_units", "stock_movements", "stock_levels"}
Up0007 ==
  [Nothing EXCEPT
    !.creates =
      <<Table("units", {}), Table("products", {"units", "tenants"}),
        Table("product_units", {"products", "tenants", "units"}),
        Table("stock_movements", {"users", "units", "products", "tenants"}),
        Table("stock_levels", {"products", "tenants"})>>,
    !.guards = Tables0007,
    !.seeds = Seeds0007]
Down0007 ==
  Undo(<<"stock_levels", "stock_movements", "product_units", "products", "units">>,
       Tables0007, {"inventory.read", "inventory.write"}, {})

Seeds0008 ==
  ({"owner", "manager", "cashier"} \X {"pos.read", "pos.write"})
    \cup ({"kitchen", "finance"} \X {"pos.read"})
Tables0008 == {"orders", "order_items", "payments"}
Up0008 ==
  [Nothing EXCEPT
    !.creates =
      <<Table("orders", {"users", "tenants"}),
        Table("order_items", {"orders", "products", "tenants", "units"}),
        Table("payments", {"orders", "tenants"})>>,
    !.guards = Tables0008,
    !.seeds = Seeds0008]
Down0008 ==
  Undo(<<"payments", "order_items", "orders">>, Tables0008, {"pos.read", "pos.write"}, {})

Up0009 == [Nothing EXCEPT !.revokes = {"kitchen", "cashier"} \X {"inventory.write"}]

\* Mutant of Down0009: what 0009 took away is not given back.
Down0009Nothing == Undo(<<>>, {}, {}, {})

Down0009 == Undo(<<>>, {}, {}, {"kitchen", "cashier"} \X {"inventory.write"})

\* The closure and the entitlements it fills are in Tenants.
Up0010 ==
  [Nothing EXCEPT
    !.creates = <<Table("tenant_closure", {"tenants"}),
                  Table("tenant_entitlements", {"tenants"})>>,
    !.guards = {"tenants", "tenant_closure", "tenant_entitlements", "refresh_sessions"}]
Down0010 ==
  Undo(<<"tenant_entitlements", "tenant_closure">>,
       {"tenants", "tenant_closure", "tenant_entitlements", "refresh_sessions"}, {}, {})

Up0011 == [Nothing EXCEPT !.guards = {"tenants"}]
Down0011 == Undo(<<>>, {}, {}, {})

Seeds0012 ==
  ({"owner", "manager", "finance"} \X {"expenses.read", "expenses.write"})
    \cup {<<"cashier", "expenses.read">>}
Tables0012 == {"expense_categories", "expenses"}
Up0012 ==
  [Nothing EXCEPT
    !.creates = <<Table("expense_categories", {"tenants"}),
                  Table("expenses", {"expense_categories", "users", "tenants"})>>,
    !.guards = Tables0012,
    !.seeds = Seeds0012]
Down0012 ==
  Undo(<<"expenses", "expense_categories">>, Tables0012,
       {"expenses.read", "expenses.write"}, {})

Up0013 ==
  [Nothing EXCEPT !.seeds = {"owner", "manager", "finance", "cashier"} \X {"dashboard.read"}]
Down0013 == Undo(<<>>, {}, {"dashboard.read"}, {})

\* Mutant of Up0014: cooks may look at the reports as well.
Up0014Kitchen ==
  [Nothing EXCEPT !.seeds =
    {"owner", "manager", "finance", "kitchen"} \X {"reports.read"}]

Up0014 == [Nothing EXCEPT !.seeds = {"owner", "manager", "finance"} \X {"reports.read"}]
Down0014 == Undo(<<>>, {}, {"reports.read"}, {})

Up0015 == Nothing
Down0015 == Undo(<<>>, {}, {}, {})

\* Mutant of Up0016: the new table is not put under row-level security.
Up0016Unguarded ==
  [Nothing EXCEPT !.creates = <<Table("pos_receipt_sequences", {"tenants"})>>, !.needsRole = TRUE]

Up0016 ==
  [Nothing EXCEPT
    !.creates = <<Table("pos_receipt_sequences", {"tenants"})>>,
    !.guards = {"pos_receipt_sequences"},
    !.needsRole = TRUE]
Down0016 == Undo(<<"pos_receipt_sequences">>, {"pos_receipt_sequences"}, {}, {})

\* Mutant of Seeds0017: the kitchen may also correct the stock it cooks from.
Seeds0017Widened ==
  ({"owner", "kitchen"} \X {"recipes.read", "recipes.write"})
    \cup ({"manager", "finance", "cashier"} \X {"recipes.read"})

Seeds0017 ==
  ({"owner", "manager", "kitchen"} \X {"recipes.read", "recipes.write"})
    \cup ({"finance", "cashier"} \X {"recipes.read"})
Tables0017 == {"recipes", "recipe_items"}
Up0017 ==
  [Nothing EXCEPT
    !.creates = <<Table("recipes", {"products", "tenants"}),
                  Table("recipe_items", {"products", "recipes", "tenants", "units"})>>,
    !.guards = Tables0017,
    !.seeds = Seeds0017,
    !.needsRole = TRUE]

\* Mutant of Down0017: the tables are dropped in the order they were created in.
Down0017InOrder ==
  Undo(<<"recipes", "recipe_items">>, Tables0017, {"recipes.read", "recipes.write"}, {})

Down0017 ==
  Undo(<<"recipe_items", "recipes">>, Tables0017, {"recipes.read", "recipes.write"}, {})

Ups ==
  <<Up0001, Up0002, Up0003, Up0004, Up0005, Up0006, Up0007, Up0008, Up0009, Up0010,
    Up0011, Up0012, Up0013, Up0014, Up0015, Up0016, Up0017>>

Downs ==
  <<Down0001, Down0002, Down0003, Down0004, Down0005, Down0006, Down0007, Down0008,
    Down0009, Down0010, Down0011, Down0012, Down0013, Down0014, Down0015, Down0016,
    Down0017>>

Latest == Len(Ups)

-----------------------------------------------------------------------------
(* Applying and undoing them *)

Names(tabs) == {t.name : t \in tabs}

Keys(seeds) == {g[2] : g \in seeds}

\* CREATE TABLE fails on a name in use or a missing referenced table, a seed on a
\* key that exists (permissions.key is unique), ALTER TABLE on a missing table,
\* and GRANT on a missing role: then the whole migration is rolled back.
Applies(s, m) ==
  /\ \A i \in DOMAIN m.creates :
       /\ m.creates[i].name \notin Names(s.tables)
       /\ m.creates[i].refs \subseteq
            Names(s.tables) \cup {m.creates[j].name : j \in 1..i}
  /\ m.guards \subseteq Names(s.tables \cup ToSet(m.creates))
  /\ Keys(m.seeds) \cap s.permissions = {}
  /\ m.needsRole => AppRoleExists

Applied(s, m) ==
  [tables |-> s.tables \cup ToSet(m.creates),
   guarded |-> s.guarded \cup m.guards,
   permissions |-> s.permissions \cup Keys(m.seeds),
   grants |-> (s.grants \cup m.seeds) \ m.revokes]

\* DROP TABLE fails while another table refers to the table.
Undoes(s, m) ==
  /\ m.unguards \subseteq Names(s.tables)
  /\ \A i \in DOMAIN m.drops :
       /\ m.drops[i] \in Names(s.tables)
       /\ \A t \in s.tables :
            m.drops[i] \in t.refs => t.name \in {m.drops[j] : j \in 1..i}

\* A dropped table takes its policy along; the keys of role_permissions cascade.
Undone(s, m) ==
  [tables |-> {t \in s.tables : t.name \notin ToSet(m.drops)},
   guarded |-> s.guarded \ (m.unguards \cup ToSet(m.drops)),
   permissions |-> s.permissions \ m.keys,
   grants |-> {g \in s.grants : g[2] \notin m.keys} \cup m.gives]

\* alembic upgrade +1, alembic downgrade -1
Upgrade ==
  /\ revision < Latest
  /\ Applies(schema, Ups[revision + 1])
  /\ revision' = revision + 1
  /\ schema' = Applied(schema, Ups[revision + 1])

Downgrade ==
  /\ revision > 0
  /\ Undoes(schema, Downs[revision])
  /\ revision' = revision - 1
  /\ schema' = Undone(schema, Downs[revision])

-----------------------------------------------------------------------------
(* Properties *)

\* The next migration can be applied and the last one undone, at every revision and
\* however it was reached: the entrypoint's "alembic upgrade head" never fails.
MigrationsRun ==
  /\ revision < Latest => Applies(schema, Ups[revision + 1])
  /\ revision > 0 => Undoes(schema, Downs[revision])

\* The schema an upgrade from nothing leads to.
Fresh[r \in 0..Latest] == IF r = 0 THEN Empty ELSE Applied(Fresh[r - 1], Ups[r])

\* Downgrades undo what upgrades did, to the last table, policy, key and grant:
\* a database that was downgraded and upgraded again gives nobody more or less.
DowngradeIsInverse == schema = Fresh[revision]

\* At the revision the program runs at, every table with rows of a tenant is under
\* row-level security, users and the shared tables excepted.
TenantRowsGuarded ==
  revision = Latest =>
    \A t \in schema.tables : "tenants" \in t.refs => t.name \in schema.guarded

Granted(role) == {g[2] : g \in {h \in schema.grants : h[1] = role}}

\* The roles a manager may hand out (auth/roles.py) are granted nothing a manager
\* is not granted, and nobody is granted more than an owner.
NoEscalation ==
  /\ \A r \in {"cashier", "kitchen", "finance"} : Granted(r) \subseteq Granted("manager")
  /\ \A r \in Roles : Granted(r) \subseteq Granted("owner")
=============================================================================
