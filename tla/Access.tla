--------------------------------- MODULE Access ---------------------------------
(***************************************************************************)
(* What the routers of the modules ask of a caller: an operation needs a   *)
(* permission and, except for tenants, staff and the dashboard, a module   *)
(* the active tenant is entitled to.  The keys are written down three      *)
(* times, in the routers, the migrations and entitlements.py; this module  *)
(* puts them together.                                                     *)
(***************************************************************************)
EXTENDS Tenants

NoModule == "none"

\* operations of a router that ask the same
Ask(module, permission, operations) ==
  {[module |-> module, permission |-> permission, name |-> o] : o \in operations}

-----------------------------------------------------------------------------
(* The routers *)

InventoryOperations ==
  Ask("inventory", "inventory.read",
      {"list_units", "list_products", "get_product", "list_product_units",
       "stock_levels", "low_stock_levels", "stock_movements"})
    \cup Ask("inventory", "inventory.write",
      {"create_product", "update_product", "add_product_unit", "stock_receipt",
       "stock_usage", "stock_adjustment"})

PosOperations ==
  Ask("pos", "pos.read",
      {"list_orders", "get_order", "get_sale_receipt", "get_sale_receipt_text"})
    \cup Ask("pos", "pos.write",
      {"create_order", "add_item", "update_item", "remove_item", "complete_sale"})

RecipeOperations ==
  Ask("inventory", "recipes.read", {"list_recipes", "get_recipe"})
    \cup Ask("inventory", "recipes.write",
      {"create_recipe", "update_recipe", "delete_recipe", "add_recipe_item",
       "update_recipe_item", "delete_recipe_item"})

ExpenseOperations ==
  Ask("finance", "expenses.read",
      {"list_categories", "list_expenses", "get_expense", "expense_summary"})
    \cup Ask("finance", "expenses.write",
      {"create_category", "update_category", "create_expense", "update_expense"})

\* The export is limited as well, see RateLimiter.
ReportOperations ==
  Ask("finance", "reports.read",
      {"sales_summary", "expenses_by_category", "sales_by_product",
       "sales_by_payment_method", "inventory_movements", "export_report_csv",
       "profit_and_loss"})

DashboardOperations ==
  Ask(NoModule, "dashboard.read",
      {"dashboard_summary", "dashboard_recent", "dashboard_low_stock"})

TenantOperations ==
  Ask(NoModule, "tenant.read", {"list_sub_tenants", "list_sub_tenant_tree"})
    \cup Ask(NoModule, "tenant.write", {"create_sub_tenant"})

StaffOperations ==
  Ask(NoModule, "staff.read", {"list_roles", "list_staff"})
    \cup Ask(NoModule, "staff.write", {"add_staff", "update_staff", "remove_staff"})
    \cup Ask(NoModule, "staff.status", {"update_staff_status"})

Operations ==
  InventoryOperations \cup PosOperations \cup RecipeOperations \cup ExpenseOperations
    \cup ReportOperations \cup DashboardOperations \cup TenantOperations
    \cup StaffOperations

\* require_module: the entitlement is read under the context of the active tenant,
\* where row-level security shows the tenant's own.
ModuleEnabled(t, module) == module = NoModule \/ <<t, module>> \in entitled

\* require_module, require_permission
Allowed(u, t, o) == ModuleEnabled(t, o.module) /\ May(u, t, o.permission)

-----------------------------------------------------------------------------
(* Properties *)

\* "Owners manage the tenant tree; managers may view it" (migration 0005), and there
\* is nothing else an owner may do and a manager may not; no operation asks for a
\* key or a module that was never handed out.
OwnersMayDoEverything ==
  revision = Latest => \A u \in Users, t \in Existing, o \in Operations :
    /\ EffectiveRole(u, t) = "owner" => Allowed(u, t, o)
    /\ EffectiveRole(u, t) = "manager" =>
         (Allowed(u, t, o) <=> o.name # "create_sub_tenant")

\* Summaries are no way around: who may read the dashboard or a report may read the
\* orders, expenses and stock it is made of where they come from.
SummariesShowReadable ==
  revision = Latest => \A r \in Roles :
    {"dashboard.read", "reports.read"} \cap Granted(r) # {} =>
      {"pos.read", "expenses.read", "inventory.read"} \subseteq Granted(r)
=============================================================================
