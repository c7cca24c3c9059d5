------------------------------ MODULE AccessProofs ------------------------------
(***************************************************************************)
(* Theorems about Tenants, Migrations and Access, for every set of tenants *)
(* and of people, and every number of migrations up and down: the closure  *)
(* is the tree, row-level security shows a tenant its subtree, migrations  *)
(* run and are undone on data, and a role is granted what it should be.    *)
(*                                                                         *)
(* The schema: what a revision has is said by the revision that brought it *)
(* (TableSince, GuardSince, KeySince), checked migration by migration.     *)
(*                                                                         *)
(* The tree: a tenant's lineage is the one walk of parents from it that    *)
(* ends at a root (Walk), and in a Forest everyone has one.                *)
(***************************************************************************)
EXTENDS Access, SequenceTheorems, TLAPS

-----------------------------------------------------------------------------
(* Migrations *)

\* Which migration is which.
LEMMA History ==
  /\ Latest = 17
  /\ Ups[1] = Up0001 /\ Ups[2] = Up0002 /\ Ups[3] = Up0003 /\ Ups[4] = Up0004
  /\ Ups[5] = Up0005 /\ Ups[6] = Up0006 /\ Ups[7] = Up0007 /\ Ups[8] = Up0008
  /\ Ups[9] = Up0009 /\ Ups[10] = Up0010 /\ Ups[11] = Up0011 /\ Ups[12] = Up0012
  /\ Ups[13] = Up0013 /\ Ups[14] = Up0014 /\ Ups[15] = Up0015 /\ Ups[16] = Up0016
  /\ Ups[17] = Up0017
  /\ Downs[1] = Down0001 /\ Downs[2] = Down0002 /\ Downs[3] = Down0003 /\ Downs[4] = Down0004
  /\ Downs[5] = Down0005 /\ Downs[6] = Down0006 /\ Downs[7] = Down0007 /\ Downs[8] = Down0008
  /\ Downs[9] = Down0009 /\ Downs[10] = Down0010 /\ Downs[11] = Down0011
  /\ Downs[12] = Down0012 /\ Downs[13] = Down0013 /\ Downs[14] = Down0014
  /\ Downs[15] = Down0015 /\ Downs[16] = Down0016 /\ Downs[17] = Down0017
BY DEF Latest, Ups, Downs

\* What is so before the first migration and stays so with each is so at every revision.
LEMMA Revisions ==
  ASSUME NEW P, 0 \in P, \A r \in 1 .. 17 : r - 1 \in P => r \in P
  PROVE  \A r \in 0 .. 17 : r \in P
<1>1. 1 \in P /\ 2 \in P /\ 3 \in P /\ 4 \in P /\ 5 \in P /\ 6 \in P
  OBVIOUS
<1>2. 7 \in P /\ 8 \in P /\ 9 \in P /\ 10 \in P /\ 11 \in P /\ 12 \in P
  BY <1>1
<1>3. 13 \in P /\ 14 \in P /\ 15 \in P /\ 16 \in P /\ 17 \in P
  BY <1>2
<1> QED
  BY <1>1, <1>2, <1>3

\* The schema of every revision is what its migration makes of the one before.
LEMMA FreshSchemas ==
  /\ Fresh[0] = Empty
  /\ \A r \in 1 .. 17 : Fresh[r] = Applied(Fresh[r - 1], Ups[r])
<1> DEFINE Grows(f, n) ==
      f = [r \in 0 .. n |-> IF r = 0 THEN Empty ELSE Applied(f[r - 1], Ups[r])]
<1> DEFINE P == {n \in 0 .. 17 : \E f : Grows(f, n)}
<1>1. 0 \in P
  <2>1. Grows([r \in 0 .. 0 |-> Empty], 0)
    OBVIOUS
  <2> HIDE DEF Grows
  <2>2. \E f : Grows(f, 0)
    BY <2>1
  <2> QED
    BY <2>2
<1>2. ASSUME NEW n \in 1 .. 17, n - 1 \in P PROVE n \in P
  <2>1. PICK f : Grows(f, n - 1)
    BY <1>2
  <2> DEFINE g == [r \in 0 .. n |-> IF r = n THEN Applied(f[n - 1], Ups[n]) ELSE f[r]]
  <2>2. Grows(g, n)
    <3>1. \A r \in 0 .. n - 1 : f[r] = IF r = 0 THEN Empty ELSE Applied(f[r - 1], Ups[r])
      BY <2>1
    <3>2. \A r \in 0 .. n : r # n => r \in 0 .. n - 1
      OBVIOUS
    <3>3. \A r \in 1 .. n : g[r - 1] = f[r - 1]
      OBVIOUS
    <3>4. \A r \in 0 .. n : g[r] = IF r = 0 THEN Empty ELSE Applied(g[r - 1], Ups[r])
      <4> SUFFICES ASSUME NEW r \in 0 .. n
                   PROVE  g[r] = IF r = 0 THEN Empty ELSE Applied(g[r - 1], Ups[r])
        OBVIOUS
      <4>1. CASE r = n
        <5>1. g[r] = Applied(f[r - 1], Ups[r]) /\ r # 0 /\ g[r - 1] = f[r - 1]
          BY <4>1, <3>3
        <5> QED
          BY <5>1
      <4>2. CASE r # n
        <5>1. g[r] = f[r] /\ r \in 0 .. n - 1
          BY <4>2
        <5>2. r # 0 => g[r - 1] = f[r - 1]
          BY <3>3
        <5> QED
          BY <5>1, <5>2, <3>1
      <4> QED
        BY <4>1, <4>2
    <3> QED
      BY <3>4
  <2> HIDE DEF Grows
  <2>3. \E h : Grows(h, n)
    BY <2>2
  <2> QED
    BY <2>3
<1>3. PICK f : Grows(f, 17)
  <2> HIDE DEF P
  <2>1. 17 \in P
    BY <1>1, <1>2, Revisions
  <2> QED
    BY <2>1 DEF P
<1>4. Grows(Fresh, 17)
  <2>1. Fresh = CHOOSE g : Grows(g, 17)
    BY History DEF Fresh
  <2> QED
    BY <2>1, <1>3
<1> QED
  BY <1>4

-----------------------------------------------------------------------------
(* What each migration brings *)

\* The migration that creates a table, puts it under row-level security (the first one
\* that does), or adds a permission.
TableSince(n) ==
  CASE n = "tenants" -> 1
    [] n \in {"users", "roles", "memberships"} -> 2
    [] n \in {"permissions", "role_permissions"} -> 3
    [] n = "refresh_sessions" -> 6
    [] n \in {"units"} \cup Tables0007 -> 7
    [] n \in Tables0008 -> 8
    [] n \in {"tenant_closure", "tenant_entitlements"} -> 10
    [] n \in Tables0012 -> 12
    [] n = "pos_receipt_sequences" -> 16
    [] n \in Tables0017 -> 17
    [] OTHER -> 18

\* The migration that puts a table under row-level security.
GuardSince(n) ==
  CASE n = "memberships" -> 4
    [] n \in Tables0007 -> 7
    [] n \in Tables0008 -> 8
    [] n \in {"tenants", "tenant_closure", "tenant_entitlements", "refresh_sessions"} -> 10
    [] n \in Tables0012 -> 12
    [] n = "pos_receipt_sequences" -> 16
    [] n \in Tables0017 -> 17
    [] OTHER -> 18

\* The migration that adds a permission key.
KeySince(k) ==
  CASE k \in {"staff.read", "staff.write", "staff.status"} -> 3
    [] k \in {"tenant.read", "tenant.write"} -> 5
    [] k \in {"inventory.read", "inventory.write"} -> 7
    [] k \in {"pos.read", "pos.write"} -> 8
    [] k \in {"expenses.read", "expenses.write"} -> 12
    [] k = "dashboard.read" -> 13
    [] k = "reports.read" -> 14
    [] k \in {"recipes.read", "recipes.write"} -> 17
    [] OTHER -> 18

\* The roles a permission is handed to when it is added.
Holders(k) ==
  CASE k = "tenant.write" -> {"owner"}
    [] k \in {"staff.read", "staff.write", "staff.status", "tenant.read"} -> {"owner", "manager"}
    [] k \in {"inventory.read", "pos.read", "recipes.read"} -> Roles
    [] k = "inventory.write" -> Stockkeepers
    [] k = "pos.write" -> {"owner", "manager", "cashier"}
    [] k \in {"expenses.write", "reports.read"} -> {"owner", "manager", "finance"}
    [] k \in {"expenses.read", "dashboard.read"} -> {"owner", "manager", "finance", "cashier"}
    [] k = "recipes.write" -> {"owner", "manager", "kitchen"}
    [] OTHER -> {}

\* ... and the two that 0009 takes away.
Taken == {"kitchen", "cashier"} \X {"inventory.write"}

\* The names of the tables a migration creates.
NewTables(m) == {m.creates[i].name : i \in DOMAIN m.creates}

\* What migration r, up and down, creates, protects and hands out is what the
\* definitions above say.
CreatesItsTables(m, r) == \A n : n \in NewTables(m) <=> TableSince(n) = r

Protects(m, r) ==
  /\ \A n \in m.guards : GuardSince(n) <= r
  /\ \A n : GuardSince(n) = r => n \in m.guards /\ TableSince(n) <= r

HandsOut(m, r) ==
  /\ \A g : g \in m.seeds <=> g = <<g[1], g[2]>> /\ KeySince(g[2]) = r /\ g[1] \in Holders(g[2])
  /\ m.revokes = IF r = 9 THEN Taken ELSE {}

\* A created table has a name of its own, refers to tables there are, and is put under
\* row-level security if it has rows of a tenant.
CreatesInOrder(m, r) ==
  \A i \in DOMAIN m.creates :
    /\ 1 .. i \subseteq DOMAIN m.creates
    /\ \A j \in DOMAIN m.creates : m.creates[j].name = m.creates[i].name => j = i
    /\ \A n \in m.creates[i].refs : TableSince(n) < r \/ \E j \in 1 .. i : m.creates[j].name = n
    /\ "tenants" \in m.creates[i].refs => GuardSince(m.creates[i].name) <= 17

\* Undoing it, d, drops what it created, referring tables first, takes its tables out of
\* row-level security again, and gives back what it took.
Reverses(d, m, r) ==
  /\ ToSet(d.drops) = NewTables(m)
  /\ \A i \in DOMAIN d.drops, t \in ToSet(m.creates) :
       d.drops[i] \in t.refs => t.name \in {d.drops[j] : j \in 1 .. i}
  /\ \A n \in d.unguards : GuardSince(n) = r
  /\ \A n : GuardSince(n) = r => n \in d.unguards \cup ToSet(d.drops)
  /\ \A k : k \in d.keys <=> KeySince(k) = r
  /\ d.gives = IF r = 9 THEN Taken ELSE {}

\* Each table is created by the migration that TableSince says.
LEMMA AllCreateTheirTables == \A r \in 1 .. 17 : CreatesItsTables(Ups[r], r)
<1> USE DEF CreatesItsTables, NewTables, TableSince, Table, Nothing,
            Tables0007, Tables0008, Tables0012, Tables0017
<1>1. CreatesItsTables(Up0001, 1)
  BY DEF Up0001
<1>2. CreatesItsTables(Up0002, 2)
  BY DEF Up0002
<1>3. CreatesItsTables(Up0003, 3)
  BY DEF Up0003
<1>4. CreatesItsTables(Up0004, 4)
  BY DEF Up0004
<1>5. CreatesItsTables(Up0005, 5)
  BY DEF Up0005
<1>6. CreatesItsTables(Up0006, 6)
  BY DEF Up0006
<1>7. CreatesItsTables(Up0007, 7)
  BY DEF Up0007
<1>8. CreatesItsTables(Up0008, 8)
  BY DEF Up0008
<1>9. CreatesItsTables(Up0009, 9)
  BY DEF Up0009
<1>10. CreatesItsTables(Up0010, 10)
  BY DEF Up0010
<1>11. CreatesItsTables(Up0011, 11)
  BY DEF Up0011
<1>12. CreatesItsTables(Up0012, 12)
  BY DEF Up0012
<1>13. CreatesItsTables(Up0013, 13)
  BY DEF Up0013
<1>14. CreatesItsTables(Up0014, 14)
  BY DEF Up0014
<1>15. CreatesItsTables(Up0015, 15)
  BY DEF Up0015
<1>16. CreatesItsTables(Up0016, 16)
  BY DEF Up0016
<1>17. CreatesItsTables(Up0017, 17)
  BY DEF Up0017
<1> HIDE DEF CreatesItsTables
<1> QED
  BY <1>1, <1>2, <1>3, <1>4, <1>5, <1>6, <1>7, <1>8, <1>9, <1>10, <1>11, <1>12, <1>13, <1>14,
     <1>15, <1>16, <1>17, History

\* Each table is guarded by the migration that GuardSince says, and exists by then.
LEMMA AllProtect == \A r \in 1 .. 17 : Protects(Ups[r], r)
<1> USE DEF Protects, TableSince, GuardSince, Nothing,
            Tables0007, Tables0008, Tables0012, Tables0017
<1>1. Protects(Up0001, 1)
  BY DEF Up0001
<1>2. Protects(Up0002, 2)
  BY DEF Up0002
<1>3. Protects(Up0003, 3)
  BY DEF Up0003
<1>4. Protects(Up0004, 4)
  BY DEF Up0004
<1>5. Protects(Up0005, 5)
  BY DEF Up0005
<1>6. Protects(Up0006, 6)
  BY DEF Up0006
<1>7. Protects(Up0007, 7)
  BY DEF Up0007
<1>8. Protects(Up0008, 8)
  BY DEF Up0008
<1>9. Protects(Up0009, 9)
  BY DEF Up0009
<1>10. Protects(Up0010, 10)
  BY DEF Up0010
<1>11. Protects(Up0011, 11)
  BY DEF Up0011
<1>12. Protects(Up0012, 12)
  BY DEF Up0012
<1>13. Protects(Up0013, 13)
  BY DEF Up0013
<1>14. Protects(Up0014, 14)
  BY DEF Up0014
<1>15. Protects(Up0015, 15)
  BY DEF Up0015
<1>16. Protects(Up0016, 16)
  BY DEF Up0016
<1>17. Protects(Up0017, 17)
  BY DEF Up0017
<1> HIDE DEF Protects
<1> QED
  BY <1>1, <1>2, <1>3, <1>4, <1>5, <1>6, <1>7, <1>8, <1>9, <1>10, <1>11, <1>12, <1>13, <1>14,
     <1>15, <1>16, <1>17, History

\* Each key is seeded by the migration that KeySince says, to its holders.
LEMMA AllHandOut == \A r \in 1 .. 17 : HandsOut(Ups[r], r)
<1> USE DEF HandsOut, KeySince, Holders, Roles, Stockkeepers, Nothing
<1>1. HandsOut(Up0001, 1)
  BY DEF Up0001
<1>2. HandsOut(Up0002, 2)
  BY DEF Up0002
<1>3. HandsOut(Up0003, 3)
  BY DEF Up0003, Seeds0003
<1>4. HandsOut(Up0004, 4)
  BY DEF Up0004
<1>5. HandsOut(Up0005, 5)
  BY DEF Up0005
<1>6. HandsOut(Up0006, 6)
  BY DEF Up0006
<1>7. HandsOut(Up0007, 7)
  BY DEF Up0007, Seeds0007
<1>8. HandsOut(Up0008, 8)
  BY DEF Up0008, Seeds0008
<1>9. HandsOut(Up0009, 9)
  BY DEF Up0009, Taken
<1>10. HandsOut(Up0010, 10)
  BY DEF Up0010
<1>11. HandsOut(Up0011, 11)
  BY DEF Up0011
<1>12. HandsOut(Up0012, 12)
  BY DEF Up0012, Seeds0012
<1>13. HandsOut(Up0013, 13)
  BY DEF Up0013
<1>14. HandsOut(Up0014, 14)
  BY DEF Up0014
<1>15. HandsOut(Up0015, 15)
  BY DEF Up0015
<1>16. HandsOut(Up0016, 16)
  BY DEF Up0016
<1>17. HandsOut(Up0017, 17)
  BY DEF Up0017, Seeds0017
<1> HIDE DEF HandsOut
<1> QED
  BY <1>1, <1>2, <1>3, <1>4, <1>5, <1>6, <1>7, <1>8, <1>9, <1>10, <1>11, <1>12, <1>13, <1>14,
     <1>15, <1>16, <1>17, History

\* Each migration creates its tables in an order in which they can refer to each other.
LEMMA AllCreateInOrder == \A r \in 1 .. 17 : CreatesInOrder(Ups[r], r)
<1> USE DEF CreatesInOrder, TableSince, GuardSince, Table, Nothing,
            Tables0007, Tables0008, Tables0012, Tables0017
<1>1. CreatesInOrder(Up0001, 1)
  BY DEF Up0001
<1>2. CreatesInOrder(Up0002, 2)
  BY DEF Up0002
<1>3. CreatesInOrder(Up0003, 3)
  BY DEF Up0003
<1>4. CreatesInOrder(Up0004, 4)
  BY DEF Up0004
<1>5. CreatesInOrder(Up0005, 5)
  BY DEF Up0005
<1>6. CreatesInOrder(Up0006, 6)
  BY DEF Up0006
<1>7. CreatesInOrder(Up0007, 7)
  BY DEF Up0007
<1>8. CreatesInOrder(Up0008, 8)
  BY DEF Up0008
<1>9. CreatesInOrder(Up0009, 9)
  BY DEF Up0009
<1>10. CreatesInOrder(Up0010, 10)
  BY DEF Up0010
<1>11. CreatesInOrder(Up0011, 11)
  BY DEF Up0011
<1>12. CreatesInOrder(Up0012, 12)
  BY DEF Up0012
<1>13. CreatesInOrder(Up0013, 13)
  BY DEF Up0013
<1>14. CreatesInOrder(Up0014, 14)
  BY DEF Up0014
<1>15. CreatesInOrder(Up0015, 15)
  BY DEF Up0015
<1>16. CreatesInOrder(Up0016, 16)
  BY DEF Up0016
<1>17. CreatesInOrder(Up0017, 17)
  BY DEF Up0017
<1> HIDE DEF CreatesInOrder
<1> QED
  BY <1>1, <1>2, <1>3, <1>4, <1>5, <1>6, <1>7, <1>8, <1>9, <1>10, <1>11, <1>12, <1>13, <1>14,
     <1>15, <1>16, <1>17, History

\* Each downgrade drops, unguards and takes away what its upgrade brought.
LEMMA AllReverse == \A r \in 1 .. 17 : Reverses(Downs[r], Ups[r], r)
<1> USE DEF Reverses, NewTables, GuardSince, KeySince, Table, Nothing, Undo, ToSet,
            Tables0007, Tables0008, Tables0012, Tables0017
<1>1. Reverses(Down0001, Up0001, 1)
  BY DEF Up0001, Down0001
<1>2. Reverses(Down0002, Up0002, 2)
  BY DEF Up0002, Down0002
<1>3. Reverses(Down0003, Up0003, 3)
  BY DEF Up0003, Down0003
<1>4. Reverses(Down0004, Up0004, 4)
  BY DEF Up0004, Down0004
<1>5. Reverses(Down0005, Up0005, 5)
  BY DEF Up0005, Down0005
<1>6. Reverses(Down0006, Up0006, 6)
  BY DEF Up0006, Down0006
<1>7. Reverses(Down0007, Up0007, 7)
  BY DEF Up0007, Down0007
<1>8. Reverses(Down0008, Up0008, 8)
  BY DEF Up0008, Down0008
<1>9. Reverses(Down0009, Up0009, 9)
  BY DEF Up0009, Down0009, Taken
<1>10. Reverses(Down0010, Up0010, 10)
  BY DEF Up0010, Down0010
<1>11. Reverses(Down0011, Up0011, 11)
  BY DEF Up0011, Down0011
<1>12. Reverses(Down0012, Up0012, 12)
  BY DEF Up0012, Down0012
<1>13. Reverses(Down0013, Up0013, 13)
  BY DEF Up0013, Down0013
<1>14. Reverses(Down0014, Up0014, 14)
  BY DEF Up0014, Down0014
<1>15. Reverses(Down0015, Up0015, 15)
  BY DEF Up0015, Down0015
<1>16. Reverses(Down0016, Up0016, 16)
  BY DEF Up0016, Down0016
<1>17. Reverses(Down0017, Up0017, 17)
  BY DEF Up0017, Down0017
<1> HIDE DEF Reverses
<1> QED
  BY <1>1, <1>2, <1>3, <1>4, <1>5, <1>6, <1>7, <1>8, <1>9, <1>10, <1>11, <1>12, <1>13, <1>14,
     <1>15, <1>16, <1>17, History

-----------------------------------------------------------------------------
(* The schema of a revision *)

\* A schema with the tables, policies, keys and grants of revision r.
Describes(s, r) ==
  /\ s = [tables |-> s.tables, guarded |-> s.guarded, permissions |-> s.permissions,
          grants |-> s.grants]
  /\ \A n : n \in Names(s.tables) <=> TableSince(n) <= r
  /\ \A t \in s.tables : t.refs \subseteq Names(s.tables)
  /\ \A t \in s.tables : "tenants" \in t.refs => GuardSince(t.name) <= 17
  /\ \A n : n \in s.guarded <=> GuardSince(n) <= r
  /\ \A k : k \in s.permissions <=> KeySince(k) <= r
  /\ \A g : g \in s.grants <=>
       /\ g = <<g[1], g[2]>> /\ KeySince(g[2]) <= r /\ g[1] \in Holders(g[2])
       /\ r >= 9 => g \notin Taken

\* Nothing is brought before it can be, and every key has an owner who holds it.
LEMMA Since ==
  /\ \A n : TableSince(n) \in 1 .. 18 /\ GuardSince(n) \in 1 .. 18
  /\ \A n : GuardSince(n) <= 17 => TableSince(n) <= GuardSince(n)
  /\ \A k : KeySince(k) \in 1 .. 18
  /\ \A k : KeySince(k) <= 17 => "owner" \in Holders(k)
<1>1. \A n : TableSince(n) \in 1 .. 18
  BY DEF TableSince
<1>2. \A n : GuardSince(n) \in 1 .. 18
  BY DEF GuardSince
<1>3. \A n : GuardSince(n) <= 17 => TableSince(n) <= GuardSince(n)
  BY <1>1, <1>2, AllProtect DEF Protects
<1>4. \A k : KeySince(k) \in 1 .. 18
  BY DEF KeySince
<1>5. \A k : KeySince(k) <= 17 => "owner" \in Holders(k)
  BY DEF KeySince, Holders, Roles, Stockkeepers
<1> QED
  BY <1>1, <1>2, <1>3, <1>4, <1>5

\* Nothing is there before the first migration.
LEMMA EmptyDescribed == Describes(Empty, 0)
BY Since DEF Describes, Empty, Names

\* The keys that a migration seeds are the keys it adds.
LEMMA SeededKeys ==
  ASSUME NEW r \in 1 .. 17
  PROVE  \A k : k \in Keys(Ups[r].seeds) <=> KeySince(k) = r
<1> USE AllHandOut DEF HandsOut
<1>1. ASSUME NEW k \in Keys(Ups[r].seeds) PROVE KeySince(k) = r
  BY <1>1 DEF Keys
<1>2. ASSUME NEW k, KeySince(k) = r PROVE k \in Keys(Ups[r].seeds)
  <2>1. <<"owner", k>> \in Ups[r].seeds
    BY <1>2, Since
  <2> QED
    BY <2>1 DEF Keys
<1> QED
  BY <1>1, <1>2

\* The tables there are after an upgrade.
LEMMA AppliedTables ==
  ASSUME NEW r \in 1 .. 17, NEW s
  PROVE  LET a == Applied(s, Ups[r]) IN
         /\ Names(a.tables) = Names(s.tables) \cup NewTables(Ups[r])
         /\ \A t \in a.tables : t \in s.tables \/ t \in ToSet(Ups[r].creates)
<1>1. Applied(s, Ups[r]).tables = s.tables \cup ToSet(Ups[r].creates)
  BY DEF Applied
<1>2. Names(ToSet(Ups[r].creates)) = NewTables(Ups[r])
  BY DEF Names, ToSet, NewTables
<1>3. Names(s.tables \cup ToSet(Ups[r].creates)) = Names(s.tables) \cup Names(ToSet(Ups[r].creates))
  BY DEF Names
<1> QED
  BY <1>1, <1>2, <1>3

\* An upgrade leads from the schema of one revision to that of the next.
LEMMA UpgradeDescribed ==
  ASSUME NEW r \in 1 .. 17, NEW s, Describes(s, r - 1)
  PROVE  Describes(Applied(s, Ups[r]), r)
<1> DEFINE m == Ups[r]
           a == Applied(s, m)
<1>1. /\ a = [tables |-> a.tables, guarded |-> a.guarded, permissions |-> a.permissions,
              grants |-> a.grants]
      /\ a.guarded = s.guarded \cup m.guards
      /\ a.permissions = s.permissions \cup Keys(m.seeds)
      /\ a.grants = (s.grants \cup m.seeds) \ m.revokes
  BY DEF Applied
<1>2. \A n : n \in Names(a.tables) <=> TableSince(n) <= r
  <2>1. \A n : n \in NewTables(m) <=> TableSince(n) = r
    BY AllCreateTheirTables DEF CreatesItsTables
  <2> QED
    BY <2>1, AppliedTables, Since DEF Describes
<1>3. ASSUME NEW t \in a.tables
      PROVE  t.refs \subseteq Names(a.tables) /\ ("tenants" \in t.refs => GuardSince(t.name) <= 17)
  <2>1. CASE t \in s.tables
    BY <2>1, AppliedTables DEF Describes
  <2>2. CASE t \in ToSet(m.creates)
    <3>1. PICK i \in DOMAIN m.creates : t = m.creates[i]
      BY <2>2 DEF ToSet
    <3>2. \A n \in t.refs : TableSince(n) < r \/ \E j \in 1 .. i : m.creates[j].name = n
      BY <3>1, AllCreateInOrder DEF CreatesInOrder
    <3>3. \A j \in 1 .. i : j \in DOMAIN m.creates
      BY <3>1, AllCreateInOrder DEF CreatesInOrder
    <3>4. \A n \in t.refs : TableSince(n) <= r
      <4>1. \A j \in 1 .. i : TableSince(m.creates[j].name) = r
        BY <3>3, AllCreateTheirTables DEF CreatesItsTables, NewTables
      <4> QED
        BY <3>2, <4>1, Since
    <3> QED
      BY <1>2, <3>1, <3>4, AllCreateInOrder DEF CreatesInOrder
  <2> QED
    BY <2>1, <2>2, AppliedTables
<1>4. \A n : n \in a.guarded <=> GuardSince(n) <= r
  BY <1>1, Since, AllProtect DEF Describes, Protects
<1>5. \A k : k \in a.permissions <=> KeySince(k) <= r
  BY <1>1, Since, SeededKeys DEF Describes
<1>6. ASSUME NEW g
      PROVE  g \in a.grants <=>
               /\ g = <<g[1], g[2]>> /\ KeySince(g[2]) <= r /\ g[1] \in Holders(g[2])
               /\ r >= 9 => g \notin Taken
  <2>1. /\ g \in m.seeds <=> g = <<g[1], g[2]>> /\ KeySince(g[2]) = r /\ g[1] \in Holders(g[2])
        /\ m.revokes = IF r = 9 THEN Taken ELSE {}
    BY AllHandOut DEF HandsOut
  <2>2. g \in s.grants <=>
          /\ g = <<g[1], g[2]>> /\ KeySince(g[2]) <= r - 1 /\ g[1] \in Holders(g[2])
          /\ r - 1 >= 9 => g \notin Taken
    BY DEF Describes
  <2>3. g \in Taken => KeySince(g[2]) = 7
    BY DEF Taken, KeySince
  <2>4. KeySince(g[2]) \in 1 .. 18
    BY Since
  <2> QED
    BY <1>1, <2>1, <2>2, <2>3, <2>4
<1> QED
  BY <1>1, <1>2, <1>3, <1>4, <1>5, <1>6 DEF Describes

\* An upgrade from a schema that it describes is possible, if the role is there.
LEMMA UpgradeApplies ==
  ASSUME NEW r \in 1 .. 17, NEW s, Describes(s, r - 1), AppRoleExists
  PROVE  Applies(s, Ups[r])
<1> DEFINE m == Ups[r]
<1>1. \A n : n \in NewTables(m) <=> TableSince(n) = r
  BY AllCreateTheirTables DEF CreatesItsTables
<1>2. \A n : n \in Names(s.tables) <=> TableSince(n) <= r - 1
  BY DEF Describes
<1>3. ASSUME NEW i \in DOMAIN m.creates
      PROVE  /\ m.creates[i].name \notin Names(s.tables)
             /\ m.creates[i].refs \subseteq Names(s.tables) \cup {m.creates[j].name : j \in 1 .. i}
  <2>1. m.creates[i].name \in NewTables(m)
    BY DEF NewTables
  <2>2. \A n \in m.creates[i].refs : TableSince(n) < r \/ \E j \in 1 .. i : m.creates[j].name = n
    BY AllCreateInOrder DEF CreatesInOrder
  <2> QED
    BY <1>1, <1>2, <2>1, <2>2, Since
<1>4. m.guards \subseteq Names(s.tables \cup ToSet(m.creates))
  <2>1. Names(s.tables \cup ToSet(m.creates)) = Names(s.tables) \cup NewTables(m)
    BY DEF Names, ToSet, NewTables
  <2>2. \A n \in m.guards : TableSince(n) <= r
    BY AllProtect, Since DEF Protects
  <2>3. \A n \in m.guards : n \in Names(s.tables) \cup NewTables(m)
    BY <1>1, <1>2, <2>2, Since
  <2> QED
    BY <2>1, <2>3
<1>5. Keys(m.seeds) \cap s.permissions = {}
  BY SeededKeys, Since DEF Describes
<1> QED
  BY <1>3, <1>4, <1>5 DEF Applies

\* What an upgrade has done can be undone, and is undone to the last grant.
LEMMA DowngradeReverses ==
  ASSUME NEW r \in 1 .. 17, NEW s, Describes(s, r - 1)
  PROVE  /\ Undoes(Applied(s, Ups[r]), Downs[r])
         /\ Undone(Applied(s, Ups[r]), Downs[r]) = s
<1> DEFINE m == Ups[r]
           d == Downs[r]
           a == Applied(s, m)
           u == Undone(a, d)
<1>1. \A n : n \in NewTables(m) <=> TableSince(n) = r
  BY AllCreateTheirTables DEF CreatesItsTables
<1>2. Describes(a, r)
  BY UpgradeDescribed
<1>3. /\ \A t \in s.tables : t.name \notin ToSet(d.drops)
      /\ \A t \in ToSet(m.creates) : t.name \in ToSet(d.drops)
      /\ \A t \in s.tables : t.refs \cap ToSet(d.drops) = {}
  <2>1. ToSet(d.drops) = NewTables(m)
    BY AllReverse DEF Reverses
  <2>2. \A t \in ToSet(m.creates) : t.name \in NewTables(m)
    BY DEF ToSet, NewTables
  <2>3. \A t \in s.tables : t.name \in Names(s.tables)
    BY DEF Names
  <2>4. \A n \in Names(s.tables) : n \notin NewTables(m)
    BY <1>1, Since DEF Describes
  <2> QED
    BY <2>1, <2>2, <2>3, <2>4 DEF Describes
<1>4. Undoes(a, d)
  <2>1. d.unguards \subseteq Names(a.tables)
    <3>1. \A n \in d.unguards : GuardSince(n) = r /\ TableSince(n) <= r
      BY AllReverse, Since DEF Reverses
    <3> QED
      BY <3>1, <1>2 DEF Describes
  <2>2. ASSUME NEW i \in DOMAIN d.drops
        PROVE  /\ d.drops[i] \in Names(a.tables)
               /\ \A t \in a.tables :
                    d.drops[i] \in t.refs => t.name \in {d.drops[j] : j \in 1 .. i}
    <3>1. d.drops[i] \in ToSet(d.drops)
      BY DEF ToSet
    <3>2. d.drops[i] \in NewTables(m)
      BY <3>1, AllReverse DEF Reverses
    <3>3. d.drops[i] \in Names(a.tables)
      BY <3>2, AppliedTables
    <3>4. \A t \in s.tables : d.drops[i] \notin t.refs
      BY <3>1, <1>3
    <3>5. \A t \in ToSet(m.creates) :
            d.drops[i] \in t.refs => t.name \in {d.drops[j] : j \in 1 .. i}
      BY AllReverse DEF Reverses
    <3> QED
      BY <3>3, <3>4, <3>5, AppliedTables
  <2> QED
    BY <2>1, <2>2 DEF Undoes
<1>5. u.tables = s.tables
  <2>1. u.tables = {t \in s.tables \cup ToSet(m.creates) : t.name \notin ToSet(d.drops)}
    BY DEF Undone, Applied
  <2> QED
    BY <2>1, <1>3
<1>6. u.guarded = s.guarded
  <2>1. u.guarded = a.guarded \ (d.unguards \cup ToSet(d.drops))
    BY DEF Undone
  <2>2. \A n : n \in a.guarded <=> GuardSince(n) <= r
    BY <1>2 DEF Describes
  <2>3. \A n : n \in s.guarded <=> GuardSince(n) <= r - 1
    BY DEF Describes
  <2>4. \A n : GuardSince(n) = r => n \in d.unguards \cup ToSet(d.drops)
    BY AllReverse DEF Reverses
  <2>5. \A n \in d.unguards \cup ToSet(d.drops) : GuardSince(n) >= r
    <3>1. \A n \in ToSet(d.drops) : TableSince(n) = r
      BY <1>1, AllReverse DEF Reverses
    <3> QED
      BY <3>1, AllReverse, Since DEF Reverses
  <2> QED
    BY <2>1, <2>2, <2>3, <2>4, <2>5, Since
<1>7. u.permissions = s.permissions
  <2>1. u.permissions = a.permissions \ d.keys
    BY DEF Undone
  <2>2. \A k : k \in a.permissions <=> KeySince(k) <= r
    BY <1>2 DEF Describes
  <2>3. \A k : k \in s.permissions <=> KeySince(k) <= r - 1
    BY DEF Describes
  <2>4. \A k : k \in d.keys <=> KeySince(k) = r
    BY AllReverse DEF Reverses
  <2> QED
    BY <2>1, <2>2, <2>3, <2>4, Since
<1>8. u.grants = s.grants
  <2>1. u.grants = {g \in a.grants : g[2] \notin d.keys} \cup d.gives
    BY DEF Undone
  <2>2. d.gives = IF r = 9 THEN Taken ELSE {}
    BY AllReverse DEF Reverses
  <2>3. \A g : g \in Taken => g = <<g[1], g[2]>> /\ KeySince(g[2]) = 7 /\ g[1] \in Holders(g[2])
    BY DEF Taken, KeySince, Holders, Stockkeepers
  <2>4. \A k : k \in d.keys <=> KeySince(k) = r
    BY AllReverse DEF Reverses
  <2> SUFFICES ASSUME NEW g PROVE g \in u.grants <=> g \in s.grants
    OBVIOUS
  <2>5. g \in a.grants <=>
          /\ g = <<g[1], g[2]>> /\ KeySince(g[2]) <= r /\ g[1] \in Holders(g[2])
          /\ r >= 9 => g \notin Taken
    BY <1>2 DEF Describes
  <2>6. g \in s.grants <=>
          /\ g = <<g[1], g[2]>> /\ KeySince(g[2]) <= r - 1 /\ g[1] \in Holders(g[2])
          /\ r - 1 >= 9 => g \notin Taken
    BY DEF Describes
  <2>7. KeySince(g[2]) \in 1 .. 18
    BY Since
  <2>8. g \in u.grants <=> (g \in a.grants /\ KeySince(g[2]) # r) \/ (r = 9 /\ g \in Taken)
    BY <2>1, <2>2, <2>4
  <2> QED
    BY <2>3, <2>5, <2>6, <2>7, <2>8
<1>9. u = s
  <2>1. u = [tables |-> u.tables, guarded |-> u.guarded, permissions |-> u.permissions,
             grants |-> u.grants]
    BY DEF Undone
  <2> QED
    BY <2>1, <1>5, <1>6, <1>7, <1>8 DEF Describes
<1> QED
  BY <1>4, <1>9

-----------------------------------------------------------------------------
(* The tree: what the walks up it are *)

\* f walks up the tree p from each of its tenants, as Lineage does.
Walks(f, p) ==
  f = [x \in DOMAIN p |-> <<x>> \o IF p[x] = NoTenant THEN <<>> ELSE f[p[x]]]

\* The walk up from each tenant, in a forest the only one.
Walk(p) == CHOOSE f : Walks(f, p)

\* One step more.
From(t, s) == <<t>> \o s

\* s leads from x to a root.
ToRoot(s, x, p) ==
  /\ s \in Seq(DOMAIN p)
  /\ Len(s) >= 1
  /\ s[1] = x
  /\ \A i \in 1 .. Len(s) : p[s[i]] = NoTenant <=> i = Len(s)

\* The parent of a tenant is a tenant, and the walks up from each of them are determined,
\* start with it and end with a root.
Forest(p) ==
  /\ DOMAIN p \subseteq Tenants
  /\ \A x \in DOMAIN p : p[x] \in DOMAIN p \cup {NoTenant}
  /\ \E f : Walks(f, p) /\ \A g : Walks(g, p) => g = f
  /\ \A x \in DOMAIN p : ToRoot(Walk(p)[x], x, p)

\* In a forest there is a walk, and no other.
LEMMA WalkWalks ==
  ASSUME NEW p, Forest(p)
  PROVE  Walks(Walk(p), p) /\ \A g : Walks(g, p) => g = Walk(p)
<1> HIDE DEF Walks
<1>1. PICK f : Walks(f, p) /\ \A g : Walks(g, p) => g = f
  BY DEF Forest
<1>2. Walks(Walk(p), p)
  BY <1>1 DEF Walk
<1> QED
  BY <1>1, <1>2

\* Without tenants there is a forest.
LEMMA NoForest ==
  ASSUME NEW p, DOMAIN p = {}
  PROVE  Forest(p)
<1>1. Walks([x \in {} |-> <<>>], p)
  BY DEF Walks
<1>2. \A g : Walks(g, p) => g = [x \in {} |-> <<>>]
  BY DEF Walks
<1> HIDE DEF Walks
<1> QED
  BY <1>1, <1>2 DEF Forest

\* What leads to a root in a tree does so when a tenant is added, and so does one more step
\* in front of it.
LEMMA OldWalk ==
  ASSUME NEW p, NEW q, NEW t, DOMAIN q = DOMAIN p \cup {t}, \A x \in DOMAIN p : q[x] = p[x],
         NEW s, NEW x, ToRoot(s, x, p)
  PROVE  ToRoot(s, x, q)
<1>1. s \in Seq(DOMAIN q) /\ \A i \in 1 .. Len(s) : s[i] \in DOMAIN p
  BY DEF ToRoot
<1> QED
  BY <1>1 DEF ToRoot

\* The walk from a root ends where it starts.
LEMMA RootWalk ==
  ASSUME NEW q, NEW t \in DOMAIN q, q[t] = NoTenant
  PROVE  ToRoot(<<t>> \o <<>>, t, q)
<1>1. <<t>> \in Seq(DOMAIN q) /\ Len(<<t>>) = 1 /\ <<t>>[1] = t
  OBVIOUS
<1>2. <<t>> \o <<>> = <<t>>
  BY <1>1, ConcatEmptySeq
<1> QED
  BY <1>1, <1>2 DEF ToRoot

\* The walk from a new tenant is one step and the walk from its parent.
LEMMA NewWalk ==
  ASSUME NEW p, NEW q, NEW t, DOMAIN q = DOMAIN p \cup {t}, \A x \in DOMAIN p : q[x] = p[x],
         NEW s, NEW a \in DOMAIN p, ToRoot(s, a, p), q[t] = a, NoTenant \notin DOMAIN p
  PROVE  ToRoot(From(t, s), t, q)
<1>1. ToRoot(s, a, q)
  BY OldWalk
<1>2. <<t>> \in Seq(DOMAIN q) /\ Len(<<t>>) = 1 /\ <<t>>[1] = t
  OBVIOUS
<1>3. s \in Seq(DOMAIN q) /\ Len(s) \in Nat /\ Len(s) >= 1
  BY <1>1 DEF ToRoot
<1>4. /\ <<t>> \o s \in Seq(DOMAIN q)
      /\ Len(<<t>> \o s) = 1 + Len(s)
      /\ \A i \in 1 .. 1 + Len(s) : (<<t>> \o s)[i] = IF i <= 1 THEN <<t>>[i] ELSE s[i - 1]
  BY <1>2, <1>3, ConcatProperties
<1>5. (<<t>> \o s)[1] = t
  BY <1>2, <1>3, <1>4
<1>6. ASSUME NEW i \in 1 .. 1 + Len(s)
      PROVE  q[(<<t>> \o s)[i]] = NoTenant <=> i = 1 + Len(s)
  <2>1. CASE i = 1
    BY <2>1, <1>3, <1>5
  <2>2. CASE i # 1
    <3>1. i - 1 \in 1 .. Len(s) /\ (<<t>> \o s)[i] = s[i - 1]
      BY <2>2, <1>3, <1>4
    <3> QED
      BY <3>1, <1>1, <1>3 DEF ToRoot
  <2> QED
    BY <2>1, <2>2
<1> QED
  BY <1>3, <1>4, <1>5, <1>6 DEF ToRoot, From

\* A new tenant below one there is, or below none, is a new end of one walk.
LEMMA ForestGrows ==
  ASSUME NEW p, Forest(p), NEW t \in Tenants \ DOMAIN p, NEW a \in DOMAIN p \cup {NoTenant},
         NEW q, DOMAIN q = DOMAIN p \cup {t}, q[t] = a, \A x \in DOMAIN p : q[x] = p[x]
  PROVE  /\ Forest(q)
         /\ \A x \in DOMAIN p : Walk(q)[x] = Walk(p)[x]
         /\ a = NoTenant => Walk(q)[t] = <<t>>
         /\ a # NoTenant => Walk(q)[t] = From(t, Walk(p)[a])
<1> DEFINE f == Walk(p)
           line == <<t>> \o IF a = NoTenant THEN <<>> ELSE f[a]
           h == [x \in DOMAIN p \cup {t} |-> IF x = t THEN line ELSE f[x]]
<1>1. /\ DOMAIN q = DOMAIN p \cup {t}
      /\ q[t] = a
      /\ \A x \in DOMAIN p : q[x] = p[x] /\ x # t
  OBVIOUS
<1>2. NoTenant \notin DOMAIN p /\ t # NoTenant /\ a # t /\ \A x \in DOMAIN p : p[x] # t
  BY TenantsAssumption DEF Forest
<1>3. \A x \in DOMAIN p : f[x] = <<x>> \o IF p[x] = NoTenant THEN <<>> ELSE f[p[x]]
  BY WalkWalks DEF Walks
<1>4. Walks(h, q)
  <2>1. ASSUME NEW x \in DOMAIN q
        PROVE  h[x] = <<x>> \o IF q[x] = NoTenant THEN <<>> ELSE h[q[x]]
    <3>1. CASE x = t
      <4>1. a # NoTenant => h[a] = f[a]
        BY <1>2
      <4> QED
        BY <3>1, <4>1, <1>1
    <3>2. CASE x # t
      <4>1. x \in DOMAIN p /\ q[x] = p[x]
        BY <3>2, <1>1
      <4>2. p[x] # NoTenant => h[p[x]] = f[p[x]]
        BY <4>1, <1>2 DEF Forest
      <4> QED
        BY <3>2, <4>1, <4>2, <1>3
    <3> QED
      BY <3>1, <3>2
  <2>2. h = [x \in DOMAIN q |-> h[x]]
    BY <1>1
  <2> HIDE DEF h
  <2> QED
    BY <2>1, <2>2 DEF Walks
<1>5. ASSUME NEW g, Walks(g, q) PROVE g = h
  <2>1. \A x \in DOMAIN q : g[x] = <<x>> \o IF q[x] = NoTenant THEN <<>> ELSE g[q[x]]
    BY <1>5 DEF Walks
  <2>2. g = [x \in DOMAIN q |-> g[x]]
    BY <1>5 DEF Walks
  <2> DEFINE k == [x \in DOMAIN p |-> g[x]]
  <2>3. k = f
    <3>1. ASSUME NEW x \in DOMAIN p
          PROVE  k[x] = <<x>> \o IF p[x] = NoTenant THEN <<>> ELSE k[p[x]]
      <4>1. k[x] = g[x] /\ q[x] = p[x]
        BY <1>1
      <4>2. p[x] # NoTenant => k[p[x]] = g[p[x]]
        BY DEF Forest
      <4> QED
        BY <4>1, <4>2, <2>1, <1>1
    <3>2. k = [x \in DOMAIN p |-> k[x]]
      OBVIOUS
    <3>3. Walks(k, p)
      <4> HIDE DEF k
      <4> QED
        BY <3>1, <3>2 DEF Walks
    <3> QED
      BY <3>3, WalkWalks
  <2>4. \A x \in DOMAIN p : g[x] = f[x]
    <3>1. \A x \in DOMAIN p : k[x] = g[x]
      OBVIOUS
    <3> QED
      BY <3>1, <2>3
  <2>5. g[t] = line
    <3>1. g[t] = <<t>> \o IF a = NoTenant THEN <<>> ELSE g[a]
      BY <2>1, <1>1
    <3> QED
      BY <3>1, <2>4
  <2>6. h = [x \in DOMAIN q |-> h[x]] /\ \A x \in DOMAIN q : g[x] = h[x]
    BY <2>4, <2>5, <1>1
  <2> QED
    BY <2>2, <2>6
<1>6. Walk(q) = h
  <2> HIDE DEF h, Walks
  <2> QED
    BY <1>4, <1>5 DEF Walk
<1>7. \A x \in DOMAIN p : Walk(q)[x] = Walk(p)[x]
  BY <1>6, <1>1
<1>8. Walk(q)[t] = line
  BY <1>6
<1>9. ASSUME NEW x \in DOMAIN q PROVE ToRoot(Walk(q)[x], x, q)
  <2>1. CASE x \in DOMAIN p
    <3>1. ToRoot(Walk(p)[x], x, p)
      BY <2>1 DEF Forest
    <3> QED
      BY <2>1, <3>1, <1>7, OldWalk
  <2>2. CASE x = t /\ a = NoTenant
    BY <2>2, <1>8, RootWalk
  <2>3. CASE x = t /\ a # NoTenant
    <3>1. ToRoot(Walk(p)[a], a, p)
      BY <2>3 DEF Forest
    <3>2. Walk(q)[x] = From(t, Walk(p)[a])
      BY <2>3, <1>8 DEF From
    <3> QED
      BY <2>3, <3>1, <3>2, <1>2, NewWalk
  <2> QED
    BY <2>1, <2>2, <2>3
<1>10. Forest(q)
  <2>1. \E g : Walks(g, q) /\ \A k : Walks(k, q) => k = g
    <3> HIDE DEF h, Walks
    <3> QED
      BY <1>4, <1>5
  <2>2. DOMAIN q \subseteq Tenants /\ \A x \in DOMAIN q : q[x] \in DOMAIN q \cup {NoTenant}
    BY <1>1 DEF Forest
  <2> QED
    BY <2>1, <2>2, <1>9 DEF Forest
<1>11. /\ a = NoTenant => line = <<t>>
       /\ a # NoTenant => line = From(t, Walk(p)[a])
  <2>1. <<t>> \o <<>> = <<t>>
    BY ConcatEmptySeq, <<t>> \in Seq({t})
  <2> QED
    BY <2>1 DEF From
<1> QED
  BY <1>1, <1>7, <1>8, <1>10, <1>11

-----------------------------------------------------------------------------
(* The invariant *)

\* The schema is the one a fresh database has at its revision.
SchemaInv == revision \in 0 .. 17 /\ schema = Fresh[revision]

\* The modules that the migrations up to r hand out, and the program at the last of them.
ModulesAt(r) == IF r < 10 THEN {} ELSE IF r < 12 THEN {"inventory", "pos"} ELSE Modules

\* Every tenant has the modules handed out so far, and members there are in tenants there are.
RowsInv ==
  /\ entitled = Existing \X ModulesAt(revision)
  /\ member \subseteq [user : Users, tenant : Existing, role : Roles]
  /\ revision < 2 => member = {}

\* The parents are a forest, and the closure is its walks.
TreeInv ==
  /\ Forest(parent)
  /\ closure \subseteq Closure
  /\ backfilled \subseteq Existing
  /\ revision < 10 => backfilled = {}
  /\ ClosureExact

\* The inductive invariant.
TenantsInv == SchemaInv /\ RowsInv /\ TreeInv

\* c is a pair of an ancestor the closure knows of and a tenant at or below it.
InClosure(c) ==
  \E d \in Existing : \E i \in 1 .. Len(Lineage(d)) :
    Recorded(Lineage(d)[i]) /\ c = Pair(Lineage(d)[i], d, i - 1)

\* In a forest, Lineage is the walk to a root.
LEMMA Lines ==
  ASSUME Forest(parent), NEW d \in Existing
  PROVE  /\ Lineage(d) = Walk(parent)[d]
         /\ ToRoot(Lineage(d), d, parent)
         /\ DOMAIN Lineage(d) = 1 .. Len(Lineage(d))
         /\ Len(Lineage(d)) \in Nat
         /\ \A i \in 1 .. Len(Lineage(d)) : Lineage(d)[i] \in Existing
<1>1. Lineage(d) = Walk(parent)[d]
  BY DEF Lineage, Walk, Walks, Existing
<1>2. ToRoot(Lineage(d), d, parent)
  BY <1>1 DEF Forest, Existing
<1> QED
  BY <1>1, <1>2 DEF ToRoot, Existing

\* ClosureExact, pair by pair.
LEMMA ExactMeans ==
  Forest(parent) =>
    (ClosureExact <=> (revision >= 10 => \A c : c \in closure <=> InClosure(c)))
<1> SUFFICES ASSUME Forest(parent)
             PROVE  ClosureExact <=> (revision >= 10 => \A c : c \in closure <=> InClosure(c))
  OBVIOUS
<1> DEFINE Known(d) == {j \in DOMAIN Lineage(d) : Recorded(Lineage(d)[j])}
           all == UNION {{Pair(Lineage(d)[i], d, i - 1) : i \in Known(d)} : d \in Existing}
<1>1. ASSUME NEW c PROVE c \in all <=> InClosure(c)
  <2>1. c \in all <=> \E d \in Existing : \E i \in Known(d) : c = Pair(Lineage(d)[i], d, i - 1)
    OBVIOUS
  <2>2. \A d \in Existing : DOMAIN Lineage(d) = 1 .. Len(Lineage(d))
    BY Lines
  <2> QED
    BY <2>1, <2>2 DEF InClosure
<1>2. ClosureExact <=> (revision >= 10 => closure = all)
  BY DEF ClosureExact
<1> HIDE DEF all
<1> QED
  BY <1>1, <1>2

\* The same in the next state.
LEMMA ExactMeansNext ==
  (Forest(parent) =>
    (ClosureExact <=> (revision >= 10 => \A c : c \in closure <=> InClosure(c))))'
BY ExactMeans, PTL

\* The schema of a revision is as it is described.
LEMMA FreshDescribed == \A r \in 0 .. 17 : Describes(Fresh[r], r)
<1> DEFINE P == {r \in 0 .. 17 : Describes(Fresh[r], r)}
<1>1. 0 \in P
  BY EmptyDescribed, FreshSchemas
<1>2. \A r \in 1 .. 17 : r - 1 \in P => r \in P
  BY UpgradeDescribed, FreshSchemas
<1> HIDE DEF P
<1>3. \A r \in 0 .. 17 : r \in P
  BY <1>1, <1>2, Revisions
<1> QED
  BY <1>3 DEF P

\* An upgrade reaches the schema of the next revision.
LEMMA SchemaUp ==
  ASSUME SchemaInv, Upgrade
  PROVE  SchemaInv' /\ revision' = revision + 1
BY FreshSchemas, History DEF SchemaInv, Upgrade

\* A downgrade reaches the schema of the revision before.
LEMMA SchemaDown ==
  ASSUME SchemaInv, Downgrade
  PROVE  SchemaInv' /\ revision \in 1 .. 17 /\ revision' = revision - 1
<1>1. revision \in 1 .. 17 /\ revision' = revision - 1 /\ revision' \in 0 .. 17
  BY DEF SchemaInv, Downgrade
<1>2. Describes(Fresh[revision - 1], revision - 1)
  BY <1>1, FreshDescribed
<1>3. schema = Applied(Fresh[revision - 1], Ups[revision])
  BY <1>1, FreshSchemas DEF SchemaInv
<1>4. schema' = Fresh[revision - 1]
  BY <1>1, <1>2, <1>3, DowngradeReverses DEF Downgrade
<1> QED
  BY <1>1, <1>4 DEF SchemaInv

\* It holds of the empty database.
LEMMA InitTenantsInv == TenantsInit => TenantsInv
<1> SUFFICES ASSUME TenantsInit PROVE TenantsInv
  OBVIOUS
<1>1. SchemaInv
  BY FreshSchemas DEF TenantsInit, SchemaInv
<1>2. Existing = {}
  BY DEF TenantsInit, Existing
<1>3. RowsInv
  BY <1>2 DEF TenantsInit, RowsInv, ModulesAt
<1>4. TreeInv
  <2>1. Forest(parent)
    BY <1>2, NoForest DEF Existing
  <2> QED
    BY <1>2, <2>1 DEF TenantsInit, TreeInv, ClosureExact
<1> QED
  BY <1>1, <1>3, <1>4 DEF TenantsInv

\* As long as the tree stays, so do the walks up it.
LEMMA TreeKept ==
  ASSUME parent' = parent, backfilled' = backfilled
  PROVE  /\ Existing' = Existing
         /\ \A d : Lineage(d)' = Lineage(d) /\ Recorded(d)' = Recorded(d)
BY DEF Existing, Lineage, Recorded

\* Upgrades keep it; 0010 fills the closure with pairs of roots and their descendants.
LEMMA UpgradeInv ==
  ASSUME TenantsInv, UpgradeTree
  PROVE  TenantsInv'
<1>1. SchemaInv' /\ revision' = revision + 1 /\ revision \in 0 .. 16 /\ revision' \in 1 .. 17
  BY SchemaUp, History DEF UpgradeTree, Upgrade, TenantsInv, SchemaInv
<1>2. Existing' = Existing
  BY DEF UpgradeTree, Existing
<1>3. RowsInv'
  <2>1. entitled' = entitled \cup BackfilledModules(revision')
    BY DEF UpgradeTree
  <2>2. BackfilledModules(revision') =
          Existing \X (IF revision' = 10 THEN {"inventory", "pos"}
                       ELSE IF revision' = 12 THEN {"finance"} ELSE {})
    BY <1>1 DEF BackfilledModules
  <2>3. ModulesAt(revision') = ModulesAt(revision) \cup
          (IF revision' = 10 THEN {"inventory", "pos"}
           ELSE IF revision' = 12 THEN {"finance"} ELSE {})
    BY <1>1 DEF ModulesAt, Modules
  <2>4. entitled' = Existing' \X ModulesAt(revision')
    BY <1>2, <2>1, <2>2, <2>3 DEF TenantsInv, RowsInv
  <2> QED
    BY <1>1, <1>2, <2>4 DEF TenantsInv, RowsInv, UpgradeTree
<1>4. TreeInv'
  <2>1. Forest(parent) /\ parent' = parent /\ Forest(parent')
    BY DEF TenantsInv, TreeInv, UpgradeTree
  <2>2. CASE revision' = 10
    <3>1. closure' = Backfill /\ backfilled' = Existing
      BY <2>2 DEF UpgradeTree
    <3>2. \A d \in Existing : Lineage(d)' = Lineage(d)
      BY <2>1 DEF Lineage, Existing
    <3>3. \A c : c \in closure' <=> \E d \in Existing : c = Pair(Last(Lineage(d)), d, Len(Lineage(d)) - 1)
      BY <3>1 DEF Backfill
    <3>4. ASSUME NEW d \in Existing, NEW i \in 1 .. Len(Lineage(d))
          PROVE  Recorded(Lineage(d)[i])' <=> i = Len(Lineage(d))
      <4>1. Lineage(d)[i] \in Existing /\ (parent[Lineage(d)[i]] = NoTenant <=> i = Len(Lineage(d)))
        BY <2>1, Lines DEF ToRoot
      <4>2. Recorded(Lineage(d)[i])' <=> parent[Lineage(d)[i]] = NoTenant
        BY <4>1, <3>1, <3>2, <2>1 DEF Recorded
      <4> QED
        BY <4>1, <4>2
    <3>5. ASSUME NEW d \in Existing
          PROVE  /\ Len(Lineage(d)) \in 1 .. Len(Lineage(d))
                 /\ Last(Lineage(d)) = Lineage(d)[Len(Lineage(d))]
                 /\ Last(Lineage(d)) \in Tenants /\ Len(Lineage(d)) - 1 \in Nat
      BY <2>1, Lines DEF ToRoot, Last, Forest, Existing
    <3>6. closure' \subseteq Closure
      BY <3>3, <3>5, <2>1 DEF Closure, Pair, Forest, Existing
    <3>7. ASSUME NEW c PROVE c \in closure' <=> InClosure(c)'
      <4>1. InClosure(c)' <=> \E d \in Existing : \E i \in 1 .. Len(Lineage(d)) :
                Recorded(Lineage(d)[i])' /\ c = Pair(Lineage(d)[i], d, i - 1)
        BY <1>2, <3>2 DEF InClosure
      <4>2. InClosure(c)' <=> \E d \in Existing : c = Pair(Last(Lineage(d)), d, Len(Lineage(d)) - 1)
        BY <4>1, <3>4, <3>5
      <4> QED
        BY <4>2, <3>3
    <3>8. ClosureExact'
      BY <3>7, <2>1, ExactMeansNext
    <3> QED
      BY <1>1, <1>2, <2>1, <2>2, <3>1, <3>6, <3>8 DEF TreeInv
  <2>3. CASE revision' # 10
    <3>1. closure' = closure /\ backfilled' = backfilled
      BY <2>3 DEF UpgradeTree
    <3>2. ClosureExact'
      BY <1>1, <2>1, <2>3, <3>1, TreeKept DEF ClosureExact, TenantsInv, TreeInv
    <3> QED
      BY <1>1, <1>2, <2>1, <2>3, <3>1, <3>2 DEF TreeInv, TenantsInv
  <2> QED
    BY <2>2, <2>3
<1> QED
  BY <1>1, <1>3, <1>4 DEF TenantsInv

\* Downgrades keep it, which delete the rows of the tables they drop.
LEMMA DowngradeInv ==
  ASSUME TenantsInv, DowngradeTree
  PROVE  TenantsInv'
<1>1. SchemaInv' /\ revision \in 1 .. 17 /\ revision' = revision - 1
  BY SchemaDown DEF DowngradeTree, TenantsInv
<1>2. CASE revision = 1
  <2>1. /\ revision' = 0 /\ parent' = <<>> /\ member' = {} /\ entitled' = {} /\ backfilled' = {}
        /\ closure' = closure
    BY <1>1, <1>2 DEF DowngradeTree, TenantsInv, RowsInv, TreeInv, ModulesAt
  <2>2. Existing' = {}
    BY <2>1 DEF Existing
  <2>3. RowsInv'
    BY <2>1, <2>2 DEF RowsInv, ModulesAt
  <2>4. Forest(parent')
    BY <2>1, NoForest
  <2>5. TreeInv'
    BY <2>1, <2>2, <2>4 DEF TenantsInv, TreeInv, ClosureExact
  <2> QED
    BY <1>1, <2>3, <2>5 DEF TenantsInv
<1>3. CASE revision # 1
  <2>1. parent' = parent /\ Existing' = Existing
    BY <1>3 DEF DowngradeTree, Existing
  <2>2. RowsInv'
    <3>1. entitled' = Existing' \X ModulesAt(revision')
      <4>1. entitled = Existing \X ModulesAt(revision)
        BY DEF TenantsInv, RowsInv
      <4>2. CASE revision = 10
        BY <1>1, <2>1, <4>2 DEF DowngradeTree, ModulesAt
      <4>3. CASE revision = 12
        <5>1. entitled' = {e \in entitled : e[2] # "finance"} /\ revision' = 11
          BY <1>1, <4>3 DEF DowngradeTree
        <5>2. ModulesAt(revision') = {"inventory", "pos"} /\ ModulesAt(revision) = Modules
          BY <4>3, <5>1 DEF ModulesAt
        <5> QED
          BY <2>1, <4>1, <5>1, <5>2 DEF Modules
      <4>4. CASE revision \notin {10, 12}
        <5>1. entitled' = entitled /\ ModulesAt(revision') = ModulesAt(revision)
          BY <1>1, <4>4 DEF DowngradeTree, ModulesAt
        <5> QED
          BY <2>1, <4>1, <5>1
      <4> QED
        BY <4>2, <4>3, <4>4
    <3>2. member' = IF revision = 2 THEN {} ELSE member
      BY DEF DowngradeTree
    <3> QED
      BY <1>1, <1>3, <2>1, <3>1, <3>2 DEF TenantsInv, RowsInv
  <2>3. TreeInv'
    <3>1. /\ closure' = IF revision = 10 THEN {} ELSE closure
          /\ backfilled' = IF revision = 10 THEN {} ELSE backfilled
      BY DEF DowngradeTree
    <3>2. ClosureExact'
      <4>1. CASE revision <= 10
        BY <1>1, <4>1 DEF ClosureExact
      <4>2. CASE revision > 10
        BY <1>1, <2>1, <3>1, <4>2, TreeKept DEF ClosureExact, TenantsInv, TreeInv
      <4> QED
        BY <1>1, <4>1, <4>2
    <3> QED
      BY <1>1, <2>1, <3>1, <3>2 DEF TenantsInv, TreeInv
  <2> QED
    BY <1>1, <2>2, <2>3 DEF TenantsInv
<1> QED
  BY <1>2, <1>3

\* A new tenant: the trigger writes the pairs of the parent, one further down.
LEMMA InsertInv ==
  ASSUME TenantsInv, revision = Latest, NEW t \in Tenants \ Existing,
         NEW p \in Existing \cup {NoTenant}, Insert(t, p)
  PROVE  /\ SchemaInv' /\ TreeInv'
         /\ Existing' = Existing \cup {t}
         /\ entitled' = Existing' \X ModulesAt(revision')
         /\ revision' = 17
<1>1. /\ revision' = 17 /\ revision = 17 /\ schema' = schema /\ backfilled' = backfilled
      /\ closure' = closure \cup TriggerRows(t, p)
      /\ entitled' = entitled \cup ({t} \X Modules)
  BY History DEF Insert
<1>2. /\ DOMAIN parent' = DOMAIN parent \cup {t}
      /\ parent'[t] = p
      /\ \A x \in DOMAIN parent : parent'[x] = parent[x]
  BY DEF Insert, Existing
<1>3. /\ Forest(parent')
      /\ \A x \in Existing : Walk(parent')[x] = Walk(parent)[x]
      /\ p = NoTenant => Walk(parent')[t] = <<t>>
      /\ p # NoTenant => Walk(parent')[t] = From(t, Walk(parent)[p])
  <2>1. Forest(parent) /\ t \in Tenants \ DOMAIN parent /\ p \in DOMAIN parent \cup {NoTenant}
    BY DEF TenantsInv, TreeInv, Existing
  <2> DEFINE q == parent'
  <2>2. DOMAIN q = DOMAIN parent \cup {t} /\ q[t] = p /\ \A x \in DOMAIN parent : q[x] = parent[x]
    BY <1>2
  <2> HIDE DEF q
  <2>3. /\ Forest(q)
        /\ \A x \in DOMAIN parent : Walk(q)[x] = Walk(parent)[x]
        /\ p = NoTenant => Walk(q)[t] = <<t>>
        /\ p # NoTenant => Walk(q)[t] = From(t, Walk(parent)[p])
    BY <2>1, <2>2, ForestGrows
  <2> QED
    BY <2>3 DEF q, Existing
<1>4. Existing' = Existing \cup {t}
  BY <1>2 DEF Existing
<1>5. /\ \A x \in Existing : Lineage(x)' = Lineage(x)
      /\ p = NoTenant => Lineage(t)' = <<t>>
      /\ p # NoTenant => Lineage(t)' = From(t, Lineage(p))
  <2>1. \A x \in Existing' : Lineage(x)' = Walk(parent')[x]
    BY DEF Lineage, Walk, Walks, Existing
  <2>2. \A x \in Existing : Lineage(x) = Walk(parent)[x]
    BY DEF Lineage, Walk, Walks, Existing
  <2> QED
    BY <1>3, <1>4, <2>1, <2>2
<1> DEFINE Known(x) == parent'[x] = NoTenant \/ x \notin backfilled'
<1>6. /\ \A x \in Existing : Known(x) <=> Recorded(x)
      /\ Known(t)
  BY <1>1, <1>2 DEF Recorded, Existing, TenantsInv, TreeInv
<1> HIDE DEF Known
<1>7. /\ NoTenant \notin Existing /\ Existing \subseteq Tenants
      /\ Forest(parent)
      /\ \A c : c \in closure <=> InClosure(c)
  BY <1>1, ExactMeans, TenantsAssumption DEF TenantsInv, TreeInv, Forest, Existing
\* The pairs of the new tenant.
<1>8. ASSUME NEW c
      PROVE  c \in TriggerRows(t, p) <=>
               \E i \in 1 .. Len(Lineage(t)') :
                 Known(Lineage(t)'[i]) /\ c = Pair(Lineage(t)'[i], t, i - 1)
  <2>1. c \in TriggerRows(t, p) <=>
          \/ c = Pair(t, t, 0)
          \/ \E e \in closure : e.descendant = p /\ c = Pair(e.ancestor, t, e.depth + 1)
    BY DEF TriggerRows
  <2>2. CASE p = NoTenant
    <3>1. Len(Lineage(t)') = 1 /\ Lineage(t)'[1] = t
      BY <1>5, <2>2
    <3>2. \A e \in closure : e.descendant # p
      BY <1>7, <2>2 DEF InClosure, Pair
    <3> QED
      BY <1>6, <2>1, <3>1, <3>2
  <2>3. CASE p # NoTenant
    <3> DEFINE l == Lineage(p)
    <3>1. /\ p \in Existing /\ l \in Seq(Existing) /\ Len(l) \in Nat /\ Len(l) >= 1
          /\ \A i \in 1 .. Len(l) : l[i] \in Existing
      BY <1>7, <2>3, Lines DEF ToRoot, Existing
    <3>2. /\ Len(Lineage(t)') = 1 + Len(l)
          /\ Lineage(t)'[1] = t
          /\ \A i \in 1 .. Len(l) : Lineage(t)'[i + 1] = l[i]
      <4>1. <<t>> \in Seq(Tenants) /\ Len(<<t>>) = 1 /\ <<t>>[1] = t /\ l \in Seq(Tenants)
        BY <1>7, <3>1
      <4>2. /\ Len(<<t>> \o l) = 1 + Len(l)
            /\ \A i \in 1 .. 1 + Len(l) : (<<t>> \o l)[i] = IF i <= 1 THEN <<t>>[i] ELSE l[i - 1]
        BY <4>1, ConcatProperties
      <4>3. Lineage(t)' = <<t>> \o l
        BY <1>5, <2>3 DEF From
      <4> HIDE DEF l
      <4>4. (<<t>> \o l)[1] = t /\ \A i \in 1 .. Len(l) : (<<t>> \o l)[i + 1] = l[i]
        BY <3>1, <4>1, <4>2
      <4> QED
        BY <4>2, <4>3, <4>4
    <3>3. ASSUME NEW e PROVE e \in closure /\ e.descendant = p <=>
            \E i \in 1 .. Len(l) : Recorded(l[i]) /\ e = Pair(l[i], p, i - 1)
      <4>1. ASSUME InClosure(e), e.descendant = p
            PROVE  \E i \in 1 .. Len(l) : Recorded(l[i]) /\ e = Pair(l[i], p, i - 1)
        <5>1. PICK d \in Existing : \E i \in 1 .. Len(Lineage(d)) :
                Recorded(Lineage(d)[i]) /\ e = Pair(Lineage(d)[i], d, i - 1)
          BY <4>1 DEF InClosure
        <5>2. d = p
          BY <4>1, <5>1 DEF Pair
        <5> QED
          BY <5>1, <5>2
      <4>2. ASSUME NEW i \in 1 .. Len(l), Recorded(l[i]), e = Pair(l[i], p, i - 1)
            PROVE  InClosure(e) /\ e.descendant = p
        BY <3>1, <4>2 DEF InClosure, Pair
      <4> QED
        BY <1>7, <4>1, <4>2
    <3>4. (\E e \in closure : e.descendant = p /\ c = Pair(e.ancestor, t, e.depth + 1)) <=>
            \E i \in 1 .. Len(l) : Recorded(l[i]) /\ c = Pair(l[i], t, i)
      <4>1. \A i \in 1 .. Len(l) : /\ Pair(l[i], p, i - 1).ancestor = l[i]
                                   /\ Pair(l[i], p, i - 1).depth + 1 = i
        BY <3>1 DEF Pair
      <4> HIDE DEF l
      <4> QED
        BY <3>3, <4>1
    <3>5. (\E i \in 1 .. Len(Lineage(t)') :
             Known(Lineage(t)'[i]) /\ c = Pair(Lineage(t)'[i], t, i - 1)) <=>
            \/ c = Pair(t, t, 0)
            \/ \E i \in 1 .. Len(l) : Recorded(l[i]) /\ c = Pair(l[i], t, i)
      <4> DEFINE At(i) == Known(Lineage(t)'[i]) /\ c = Pair(Lineage(t)'[i], t, i - 1)
      <4>1. At(1) <=> c = Pair(t, t, 0)
        BY <1>6, <3>2
      <4>2. \A i \in 1 .. Len(l) : At(i + 1) <=> Recorded(l[i]) /\ c = Pair(l[i], t, i)
        BY <1>6, <3>1, <3>2
      <4>3. (\E i \in 1 .. 1 + Len(l) : At(i)) <=> At(1) \/ \E i \in 1 .. Len(l) : At(i + 1)
        <5> HIDE DEF At, l
        <5>1. \A i \in 1 .. 1 + Len(l) : i = 1 \/ (i - 1 \in 1 .. Len(l) /\ i = (i - 1) + 1)
          BY <3>1
        <5>2. 1 \in 1 .. 1 + Len(l) /\ \A i \in 1 .. Len(l) : i + 1 \in 1 .. 1 + Len(l)
          BY <3>1
        <5> QED
          BY <5>1, <5>2
      <4> HIDE DEF l
      <4> QED
        BY <3>2, <4>1, <4>2, <4>3
    <3> QED
      BY <2>1, <3>4, <3>5
  <2> QED
    BY <2>2, <2>3
<1>9. ASSUME NEW c PROVE c \in closure' <=> InClosure(c)'
  <2>1. InClosure(c)' <=> \E d \in Existing \cup {t} : \E i \in 1 .. Len(Lineage(d)') :
          Known(Lineage(d)'[i]) /\ c = Pair(Lineage(d)'[i], d, i - 1)
    BY <1>4 DEF InClosure, Recorded, Known
  <2>2. ASSUME NEW d \in Existing
        PROVE  (\E i \in 1 .. Len(Lineage(d)') :
                  Known(Lineage(d)'[i]) /\ c = Pair(Lineage(d)'[i], d, i - 1)) <=>
               \E i \in 1 .. Len(Lineage(d)) :
                 Recorded(Lineage(d)[i]) /\ c = Pair(Lineage(d)[i], d, i - 1)
    BY <1>5, <1>6, <1>7, Lines
  <2>3. InClosure(c)' <=> InClosure(c) \/ c \in TriggerRows(t, p)
    BY <1>8, <2>1, <2>2 DEF InClosure
  <2> QED
    BY <1>1, <1>7, <2>3
<1>10. ClosureExact'
  BY <1>3, <1>9, ExactMeansNext
<1>11. closure' \subseteq Closure
  <2>1. ASSUME NEW c \in TriggerRows(t, p) PROVE c \in Closure
    BY <1>7 DEF TriggerRows, Pair, Closure, TenantsInv, TreeInv
  <2> QED
    BY <1>1, <2>1 DEF TenantsInv, TreeInv
<1>12. entitled' = Existing' \X ModulesAt(revision')
  BY <1>1, <1>4 DEF TenantsInv, RowsInv, ModulesAt
<1>13. SchemaInv'
  BY <1>1 DEF TenantsInv, SchemaInv
<1>14. TreeInv'
  BY <1>1, <1>3, <1>4, <1>10, <1>11 DEF TenantsInv, TreeInv
<1> QED
  BY <1>1, <1>4, <1>12, <1>13, <1>14

\* register keeps it, which adds a root.
LEMMA RegisterInv ==
  ASSUME TenantsInv, NEW u \in Users, NEW t \in Tenants \ Existing, Register(u, t)
  PROVE  TenantsInv'
<1>1. /\ SchemaInv' /\ TreeInv'
      /\ Existing' = Existing \cup {t}
      /\ entitled' = Existing' \X ModulesAt(revision')
      /\ revision' = 17
  BY InsertInv DEF Register
<1>2. member' \subseteq [user : Users, tenant : Existing', role : Roles]
  BY <1>1 DEF Register, TenantsInv, RowsInv, Roles
<1> QED
  BY <1>1, <1>2 DEF TenantsInv, RowsInv

\* create_sub_tenant keeps it, which adds a leaf.
LEMMA CreateSubTenantInv ==
  ASSUME TenantsInv, NEW u \in Users, NEW t \in Tenants \ Existing, NEW a \in Existing,
         NEW p \in Existing, CreateSubTenant(u, a, p, t)
  PROVE  TenantsInv'
<1>1. /\ SchemaInv' /\ TreeInv'
      /\ Existing' = Existing \cup {t}
      /\ entitled' = Existing' \X ModulesAt(revision')
      /\ revision' = 17
  BY InsertInv DEF CreateSubTenant
<1>2. member' \subseteq [user : Users, tenant : Existing', role : Roles]
  BY <1>1 DEF CreateSubTenant, TenantsInv, RowsInv
<1> QED
  BY <1>1, <1>2 DEF TenantsInv, RowsInv

\* What leaves tenants and closure alone leaves the tree alone.
LEMMA UnchangedTree ==
  ASSUME TreeInv, UNCHANGED <<revision, parent, closure, backfilled>>
  PROVE  TreeInv'
<1>1. ClosureExact'
  BY TreeKept DEF TreeInv, ClosureExact
<1>2. Existing' = Existing
  BY DEF Existing
<1> QED
  BY <1>1, <1>2 DEF TreeInv

\* add_staff keeps it, which leaves the tree alone.
LEMMA AddStaffInv ==
  ASSUME TenantsInv, NEW u \in Users, NEW t \in Existing, NEW v \in Users, NEW r \in Roles,
         AddStaff(u, t, v, r)
  PROVE  TenantsInv'
<1>1. UNCHANGED <<revision, schema, parent, closure, entitled, backfilled>>
  BY DEF AddStaff
<1>2. Existing' = Existing
  BY <1>1 DEF Existing
<1>3. revision = 17 /\ member' = member \cup {[user |-> v, tenant |-> t, role |-> r]}
  BY History DEF AddStaff
<1>4. RowsInv'
  BY <1>1, <1>2, <1>3 DEF TenantsInv, RowsInv
<1> QED
  BY <1>1, <1>4, UnchangedTree DEF TenantsInv, SchemaInv

\* The tree, the closure, the entitlements and the schema stay what they are taken to be,
\* by every request, and every migration up or down.
THEOREM TenantsInductive == TenantsSpec => []TenantsInv
<1>1. TenantsInv /\ [Next]_vars => TenantsInv'
  <2> SUFFICES ASSUME TenantsInv, [Next]_vars PROVE TenantsInv'
    OBVIOUS
  <2>1. CASE UNCHANGED vars
    <3>1. Existing' = Existing
      BY <2>1 DEF vars, tree, Existing
    <3> QED
      BY <2>1, <3>1, UnchangedTree DEF vars, tree, TenantsInv, SchemaInv, RowsInv
  <2>2. CASE UpgradeTree
    BY <2>2, UpgradeInv
  <2>3. CASE DowngradeTree
    BY <2>3, DowngradeInv
  <2>4. ASSUME NEW u \in Users, NEW t \in Tenants \ Existing, Register(u, t)
        PROVE  TenantsInv'
    BY <2>4, RegisterInv
  <2>5. ASSUME NEW u \in Users, NEW t \in Tenants \ Existing, NEW a \in Existing,
               NEW p \in Existing, CreateSubTenant(u, a, p, t)
        PROVE  TenantsInv'
    BY <2>5, CreateSubTenantInv
  <2>6. ASSUME NEW u \in Users, NEW t \in Existing, NEW v \in Users, NEW r \in Roles,
               AddStaff(u, t, v, r)
        PROVE  TenantsInv'
    BY <2>6, AddStaffInv
  <2> QED
    BY <2>1, <2>2, <2>3, <2>4, <2>5, <2>6 DEF Next
<1> QED
  BY <1>1, InitTenantsInv, PTL DEF TenantsSpec

-----------------------------------------------------------------------------
(* What follows for the tree *)

\* Every variable has its type (tenant/models.py).
THEOREM TenantsTypeCorrect == TenantsSpec => []TenantsTypeOK
<1>1. TenantsInv => TenantsTypeOK
  <2> SUFFICES ASSUME TenantsInv PROVE TenantsTypeOK
    OBVIOUS
  <2>1. Existing \subseteq Tenants /\ \A t \in Existing : parent[t] \in Existing \cup {NoTenant}
    BY DEF TenantsInv, TreeInv, Forest, Existing
  <2>2. entitled \subseteq Existing \X Modules
    <3>1. ModulesAt(revision) \subseteq Modules
      BY DEF ModulesAt, Modules
    <3> QED
      BY <3>1 DEF TenantsInv, RowsInv
  <2> QED
    BY <2>1, <2>2, History DEF TenantsTypeOK, TenantsInv, SchemaInv, RowsInv, TreeInv
<1> QED
  BY <1>1, TenantsInductive, PTL

\* The closure a trigger keeps is the tree, through every migration back and forth.
THEOREM ClosureIsTheTree == TenantsSpec => []ClosureExact
<1>1. TenantsInv => ClosureExact
  BY DEF TenantsInv, TreeInv
<1> QED
  BY <1>1, TenantsInductive, PTL

\* Whom the policies take to be at or below a tenant is who has it among its ancestors.
LEMMA DescendantsAre ==
  ASSUME TreeInv, revision = Latest, NEW a \in Existing, Recorded(a)
  PROVE  \A x : x \in Descendants(a) <=> x \in Existing /\ a \in ToSet(Lineage(x))
<1>1. /\ Forest(parent)
      /\ \A c : c \in closure <=> InClosure(c)
  BY ExactMeans, History DEF TreeInv
<1>2. ASSUME NEW x \in Descendants(a) PROVE x \in Existing /\ a \in ToSet(Lineage(x))
  <2>1. PICK c \in closure : c.ancestor = a /\ c.descendant = x
    BY <1>2 DEF Descendants
  <2>2. PICK d \in Existing : \E i \in 1 .. Len(Lineage(d)) : c = Pair(Lineage(d)[i], d, i - 1)
    BY <1>1, <2>1 DEF InClosure
  <2>3. d = x /\ \E i \in 1 .. Len(Lineage(d)) : Lineage(d)[i] = a
    BY <2>1, <2>2 DEF Pair
  <2>4. DOMAIN Lineage(d) = 1 .. Len(Lineage(d))
    BY <1>1, Lines
  <2> QED
    BY <2>3, <2>4 DEF ToSet
<1>3. ASSUME NEW x \in Existing, a \in ToSet(Lineage(x)) PROVE x \in Descendants(a)
  <2>1. DOMAIN Lineage(x) = 1 .. Len(Lineage(x))
    BY <1>1, Lines
  <2>2. PICK i \in 1 .. Len(Lineage(x)) : Lineage(x)[i] = a
    BY <1>3, <2>1 DEF ToSet
  <2> DEFINE c == Pair(a, x, i - 1)
  <2>3. c \in closure
    BY <1>1, <2>2 DEF InClosure
  <2>4. c.ancestor = a /\ c.descendant = x
    BY DEF Pair
  <2> HIDE DEF c
  <2> QED
    BY <2>3, <2>4 DEF Descendants
<1> QED
  BY <1>2, <1>3

\* The ancestors of a tenant are itself and the ancestors of its parent.
LEMMA AncestorsAre ==
  ASSUME Forest(parent), NEW d \in Existing
  PROVE  /\ d \in ToSet(Lineage(d))
         /\ parent[d] # NoTenant => ToSet(Lineage(parent[d])) \subseteq ToSet(Lineage(d))
<1>1. /\ ToRoot(Lineage(d), d, parent)
      /\ DOMAIN Lineage(d) = 1 .. Len(Lineage(d))
      /\ Len(Lineage(d)) \in Nat
  BY Lines
<1>2. d \in ToSet(Lineage(d))
  <2>1. Lineage(d)[1] = d /\ Len(Lineage(d)) >= 1
    BY <1>1 DEF ToRoot
  <2>2. 1 \in DOMAIN Lineage(d)
    BY <1>1, <2>1
  <2> QED
    BY <2>1, <2>2 DEF ToSet
<1>3. ASSUME parent[d] # NoTenant
      PROVE  ToSet(Lineage(parent[d])) \subseteq ToSet(Lineage(d))
  <2> DEFINE l == Lineage(parent[d])
  <2>1. parent[d] \in Existing
    BY <1>3 DEF Forest, Existing
  <2>2. l \in Seq(Existing) /\ DOMAIN l = 1 .. Len(l) /\ Len(l) \in Nat
    BY <2>1, Lines DEF ToRoot, Existing
  <2>3. Lineage(d) = <<d>> \o l
    <3>1. \A x \in DOMAIN parent : Walk(parent)[x] =
            <<x>> \o IF parent[x] = NoTenant THEN <<>> ELSE Walk(parent)[parent[x]]
      BY WalkWalks DEF Walks
    <3>2. Lineage(d) = Walk(parent)[d] /\ l = Walk(parent)[parent[d]]
      BY <2>1, Lines
    <3> QED
      BY <1>3, <3>1, <3>2 DEF Existing
  <2>4. <<d>> \in Seq(Existing) /\ Len(<<d>>) = 1
    OBVIOUS
  <2> HIDE DEF l
  <2>5. /\ Len(<<d>> \o l) = 1 + Len(l)
        /\ \A i \in 1 .. 1 + Len(l) : (<<d>> \o l)[i] = IF i <= 1 THEN <<d>>[i] ELSE l[i - 1]
    BY <2>2, <2>4, ConcatProperties
  <2>6. \A i \in 1 .. Len(l) : i + 1 \in 1 .. 1 + Len(l) /\ (<<d>> \o l)[i + 1] = l[i]
    BY <2>2, <2>5
  <2>7. ASSUME NEW i \in DOMAIN l PROVE l[i] \in ToSet(Lineage(d))
    <3>1. i + 1 \in DOMAIN Lineage(d) /\ Lineage(d)[i + 1] = l[i]
      BY <1>1, <2>2, <2>3, <2>5, <2>6
    <3> QED
      BY <3>1 DEF ToSet
  <2> QED
    BY <2>7 DEF ToSet, l
<1> QED
  BY <1>2, <1>3

\* Row-level security hides nothing of a tenant's own subtree and shows nothing else, so
\* that list_subtree and is_within_subtree, which run under it, find the subtree.
THEOREM SubtreesAreSeen == TenantsSpec => []SubtreeVisible
<1>1. TenantsInv => SubtreeVisible
  <2> SUFFICES ASSUME TenantsInv, revision = Latest, NEW a \in Existing, Recorded(a)
               PROVE  /\ Listed(a) = Below(a)
                      /\ {t \in Existing : Visible(t, a)} = {a} \cup Below(a)
    BY DEF SubtreeVisible
  <2>1. /\ Forest(parent) /\ a # NoTenant
        /\ \A t \in Existing : parent[t] \in Existing \cup {NoTenant}
        /\ NoTenant \notin Existing
    BY TenantsAssumption DEF TenantsInv, TreeInv, Forest, Existing
  <2>2. \A x : x \in Descendants(a) <=> x \in {a} \cup Below(a)
    BY <2>1, DescendantsAre, AncestorsAre DEF TenantsInv, Below
  <2>3. \A x \in Descendants(a) : Visible(x, a)
    BY DEF Visible
  <2>4. Listed(a) = Below(a)
    BY <2>2, <2>3 DEF Listed
  <2>5. ASSUME NEW t \in Existing, Visible(t, a) PROVE t \in Descendants(a)
    <3>1. t \in Descendants(a) \/ parent[t] \in Descendants(a)
      BY <2>1, <2>5 DEF Visible
    <3>2. CASE parent[t] \in Descendants(a)
      <4>1. parent[t] \in Existing /\ a \in ToSet(Lineage(parent[t]))
        BY <3>2, DescendantsAre DEF TenantsInv
      <4>2. a \in ToSet(Lineage(t))
        BY <2>1, <4>1, AncestorsAre
      <4> QED
        BY <4>2, DescendantsAre DEF TenantsInv
    <3> QED
      BY <3>1, <3>2
  <2>6. Descendants(a) \subseteq Existing
    BY DescendantsAre DEF TenantsInv
  <2> QED
    BY <2>2, <2>3, <2>4, <2>5, <2>6
<1> QED
  BY <1>1, TenantsInductive, PTL

-----------------------------------------------------------------------------
(* What follows for the schema and the permissions *)

\* The schema of the present revision is the one described for it.
LEMMA SchemaDescribed ==
  ASSUME SchemaInv
  PROVE  revision \in 0 .. 17 /\ Describes(schema, revision)
BY FreshDescribed DEF SchemaInv

\* Downgrades undo what upgrades did, to the last table, policy, key and grant.
THEOREM DowngradesReverse == TenantsSpec => []DowngradeIsInverse
<1>1. TenantsInv => DowngradeIsInverse
  BY DEF TenantsInv, SchemaInv, DowngradeIsInverse
<1> QED
  BY <1>1, TenantsInductive, PTL

\* At every revision and however it was reached, the next migration can be applied and the
\* last one undone; no row a migration inserts is there already.
THEOREM MigrationsNeverFail == ASSUME AppRoleExists PROVE TenantsSpec => []MigrationsRunOnData
<1>1. TenantsInv => MigrationsRunOnData
  <2> SUFFICES ASSUME TenantsInv PROVE MigrationsRunOnData
    OBVIOUS
  <2>1. revision \in 0 .. 17 /\ schema = Fresh[revision] /\ Latest = 17
    BY History DEF TenantsInv, SchemaInv
  <2>2. ASSUME revision < 17 PROVE Applies(schema, Ups[revision + 1])
    <3>1. Describes(schema, (revision + 1) - 1) /\ revision + 1 \in 1 .. 17
      BY <2>1, <2>2, SchemaDescribed DEF TenantsInv
    <3> QED
      BY <3>1, UpgradeApplies
  <2>3. ASSUME revision > 0 PROVE Undoes(schema, Downs[revision])
    <3>1. revision \in 1 .. 17 /\ Describes(Fresh[revision - 1], revision - 1)
      BY <2>1, <2>3, FreshDescribed
    <3>2. schema = Applied(Fresh[revision - 1], Ups[revision])
      BY <2>1, <3>1, FreshSchemas
    <3> QED
      BY <3>1, <3>2, DowngradeReverses
  <2>4. ASSUME revision < 17 PROVE entitled \cap BackfilledModules(revision + 1) = {}
    <3>1. entitled = Existing \X ModulesAt(revision)
      BY DEF TenantsInv, RowsInv
    <3>2. CASE revision + 1 = 10
      BY <3>1, <3>2, <2>1 DEF ModulesAt
    <3>3. CASE revision + 1 = 12
      BY <3>1, <3>3, <2>1 DEF ModulesAt, BackfilledModules
    <3>4. CASE revision + 1 \notin {10, 12}
      BY <3>4, <2>1 DEF BackfilledModules
    <3> QED
      BY <3>2, <3>3, <3>4
  <2> QED
    BY <2>1, <2>2, <2>3, <2>4 DEF MigrationsRunOnData, MigrationsRun
<1> QED
  BY <1>1, TenantsInductive, PTL

\* At the revision the program runs at, every table with rows of a tenant is under
\* row-level security.
THEOREM RowsAreGuarded == TenantsSpec => []TenantRowsGuarded
<1>1. TenantsInv => TenantRowsGuarded
  BY SchemaDescribed, History DEF TenantsInv, TenantRowsGuarded, Describes
<1> QED
  BY <1>1, TenantsInductive, PTL

\* What a role is granted at a revision.
LEMMA GrantedAre ==
  ASSUME SchemaInv, NEW r
  PROVE  \A k : k \in Granted(r) <=>
           /\ KeySince(k) <= revision /\ r \in Holders(k)
           /\ revision >= 9 => <<r, k>> \notin Taken
<1>1. \A k : k \in Granted(r) <=> <<r, k>> \in schema.grants
  <2>1. ASSUME NEW k \in Granted(r) PROVE <<r, k>> \in schema.grants
    <3>1. PICK g \in schema.grants : g[1] = r /\ g[2] = k
      BY <2>1 DEF Granted
    <3>2. g = <<g[1], g[2]>>
      BY <3>1, SchemaDescribed DEF Describes
    <3> QED
      BY <3>1, <3>2
  <2>2. ASSUME NEW k, <<r, k>> \in schema.grants PROVE k \in Granted(r)
    BY <2>2 DEF Granted
  <2> QED
    BY <2>1, <2>2
<1>2. \A k : <<r, k>> \in schema.grants <=>
        /\ KeySince(k) <= revision /\ r \in Holders(k)
        /\ revision >= 9 => <<r, k>> \notin Taken
  BY SchemaDescribed DEF Describes
<1> QED
  BY <1>1, <1>2

\* The matrix of roles and permissions.
LEMMA Matrix ==
  /\ \A k, r : r \in Holders(k) => "owner" \in Holders(k)
  /\ \A k : \A r \in {"cashier", "kitchen", "finance"} : r \in Holders(k) => "manager" \in Holders(k)
  /\ \A k : KeySince(k) <= 17 => ("manager" \in Holders(k) <=> k # "tenant.write")
  /\ \A k : <<"owner", k>> \notin Taken /\ <<"manager", k>> \notin Taken
<1>1. \A k, r : r \in Holders(k) => "owner" \in Holders(k)
  BY DEF Holders, Roles, Stockkeepers
<1>2. \A k : \A r \in {"cashier", "kitchen", "finance"} :
        r \in Holders(k) => "manager" \in Holders(k)
  BY DEF Holders, Roles, Stockkeepers
<1>3. \A k : KeySince(k) <= 17 => ("manager" \in Holders(k) <=> k # "tenant.write")
  BY DEF Holders, KeySince, Roles, Stockkeepers
<1>4. \A k : <<"owner", k>> \notin Taken /\ <<"manager", k>> \notin Taken
  BY DEF Taken
<1> QED
  BY <1>1, <1>2, <1>3, <1>4

\* Nobody a manager may hand a role to is granted more than a manager, and nobody more than
\* an owner, at any revision.
THEOREM NobodyEscalates == TenantsSpec => []NoEscalation
<1>1. TenantsInv => NoEscalation
  BY GrantedAre, Matrix DEF TenantsInv, NoEscalation
<1> QED
  BY <1>1, TenantsInductive, PTL

\* What is in a group of operations of a router.
LEMMA AskAsks ==
  ASSUME NEW m, NEW k, NEW s, NEW o
  PROVE  o \in Ask(m, k, s) <=> o = [module |-> m, permission |-> k, name |-> o.name] /\ o.name \in s
BY DEF Ask

\* Every operation asks for a permission and a module that were handed out; only the creation
\* of a sub-tenant asks for tenant.write.
LEMMA OperationsAsk ==
  ASSUME NEW o \in Operations
  PROVE  /\ KeySince(o.permission) <= 17
         /\ o.module \in Modules \cup {NoModule}
         /\ o.permission = "tenant.write" <=> o.name = "create_sub_tenant"
<1> USE AskAsks DEF Modules, NoModule, KeySince
<1>1. CASE o \in InventoryOperations
  BY <1>1 DEF InventoryOperations
<1>2. CASE o \in PosOperations
  BY <1>2 DEF PosOperations
<1>3. CASE o \in RecipeOperations
  BY <1>3 DEF RecipeOperations
<1>4. CASE o \in ExpenseOperations
  BY <1>4 DEF ExpenseOperations
<1>5. CASE o \in ReportOperations
  BY <1>5 DEF ReportOperations
<1>6. CASE o \in DashboardOperations
  BY <1>6 DEF DashboardOperations
<1>7. CASE o \in TenantOperations
  BY <1>7 DEF TenantOperations
<1>8. CASE o \in StaffOperations
  BY <1>8 DEF StaffOperations
<1> QED
  BY <1>1, <1>2, <1>3, <1>4, <1>5, <1>6, <1>7, <1>8 DEF Operations

\* An owner may do everything, and a manager everything but create sub-tenants.
THEOREM OwnersAndManagers == TenantsSpec => []OwnersMayDoEverything
<1>1. TenantsInv => OwnersMayDoEverything
  <2> SUFFICES ASSUME TenantsInv, revision = Latest, NEW u \in Users, NEW t \in Existing,
                      NEW o \in Operations
               PROVE  /\ EffectiveRole(u, t) = "owner" => Allowed(u, t, o)
                      /\ EffectiveRole(u, t) = "manager" =>
                           (Allowed(u, t, o) <=> o.name # "create_sub_tenant")
    BY DEF OwnersMayDoEverything
  <2>1. revision = 17
    BY History
  <2>2. ModuleEnabled(t, o.module)
    BY <2>1, OperationsAsk DEF ModuleEnabled, TenantsInv, RowsInv, ModulesAt
  <2>3. o.permission \in Granted("owner")
    BY <2>1, OperationsAsk, GrantedAre, Matrix, Since DEF TenantsInv
  <2>4. o.permission \in Granted("manager") <=> o.name # "create_sub_tenant"
    BY <2>1, OperationsAsk, GrantedAre, Matrix DEF TenantsInv
  <2> QED
    BY <2>2, <2>3, <2>4 DEF Allowed, May
<1> QED
  BY <1>1, TenantsInductive, PTL

\* Who may read the dashboard or a report may read what it is made of.
THEOREM SummariesAreReadable == TenantsSpec => []SummariesShowReadable
<1>1. TenantsInv => SummariesShowReadable
  <2> SUFFICES ASSUME TenantsInv, revision = Latest, NEW r \in Roles,
                      {"dashboard.read", "reports.read"} \cap Granted(r) # {}
               PROVE  {"pos.read", "expenses.read", "inventory.read"} \subseteq Granted(r)
    BY DEF SummariesShowReadable
  <2>1. revision = 17
    BY History
  <2>2. r \in Holders("dashboard.read") \/ r \in Holders("reports.read")
    BY GrantedAre DEF TenantsInv
  <2>3. \A k \in {"pos.read", "expenses.read", "inventory.read"} :
          KeySince(k) <= 17 /\ r \in Holders(k) /\ <<r, k>> \notin Taken
    BY <2>2 DEF Holders, KeySince, Roles, Taken
  <2> QED
    BY <2>1, <2>3, GrantedAre DEF TenantsInv
<1> QED
  BY <1>1, TenantsInductive, PTL
=============================================================================
