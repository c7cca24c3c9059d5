--------------------------- MODULE StockLedgerProofs ---------------------------
(***************************************************************************)
(* Theorems about StockLedger, for every number of transactions, products, *)
(* units, keys and every set of requests: the levels and what is booked;   *)
(* then the rows of stock_movements, that is, that a key is booked once, a *)
(* request's lines all together or not at all, and that requests waiting   *)
(* for each other in a circle are sales of several lines; then that a      *)
(* level is the sum of its movements, and with that the refinement of      *)
(* Ledger.                                                                 *)
(***************************************************************************)
EXTENDS StockLedger, SumProofs, TLAPS

-----------------------------------------------------------------------------
(* Rounding *)

\* What Numeric(24, 6) stores is a storable number, and a storable number is
\* stored as it is.
LEMMA StoredIsStorable ==
  \A x \in Int :
    /\ Stored(x) \in Int
    /\ Stored(x) % 4 = 0
    /\ x % 4 = 0 => Stored(x) = x
    /\ x >= 0 => Stored(x) >= 0
BY DEF Stored

\* A storable level l moved by d is stored no lower than l moved by the stored d.
LEMMA RoundingDriftsUp ==
  \A l, d \in Int : l % 4 = 0 /\ l + d >= 0 => Stored(l + d) >= l + Stored(d)
BY DEF Stored

\* A storable quantity is storable in whatever unit it is entered.
LEMMA StorableTimes == \A q, f \in Int : q % 4 = 0 => (q * f) % 4 = 0
<1> SUFFICES ASSUME NEW q \in Int, NEW f \in Int, q % 4 = 0
             PROVE  (q * f) % 4 = 0
  OBVIOUS
<1>1. PICK h \in Int : q = 4 * h
  OBVIOUS
<1>2. q * f = 4 * (h * f) /\ h * f \in Int
  BY <1>1
<1>3. \A k \in Int : (4 * k) % 4 = 0
  OBVIOUS
<1> QED
  BY <1>2, <1>3, Zenon

-----------------------------------------------------------------------------
(* Types *)

\* The line a transaction is at, in the states where the code reads it.
LEMMA CurrentType ==
  ASSUME TypeOK, NEW t \in Txns, pc[t] \in Running \ {"commit"}
  PROVE  /\ Current(t) \in Line
         /\ Current(t).product \in Products
         /\ Delta(t) \in Int
         /\ NewQuantity(t) \in Int
<1>1. lines[t] \in Seq(Line) /\ at[t] \in DOMAIN lines[t]
  BY DEF TypeOK
<1>2. Current(t) \in Line
  BY <1>1 DEF Current
<1>3. /\ Current(t).product \in Products
      /\ Current(t).unit \in Units
      /\ Current(t).qty \in Int
  BY <1>2 DEF Line
<1>4. Factor[<<Current(t).product, Current(t).unit>>] \in Int
  BY <1>3, ConstantsAssumption
<1>5. Signed(kind[t], Current(t).qty) \in Int
  BY <1>3 DEF Signed
<1>6. \A x, y \in Int : x * y \in Int
  OBVIOUS
<1>7. Delta(t) \in Int
  BY <1>4, <1>5, <1>6 DEF Delta
<1>8. draft[Current(t).product] \in Int
  BY <1>3 DEF TypeOK
<1> QED
  BY <1>2, <1>3, <1>7, <1>8 DEF NewQuantity

\* However a transaction ends without committing, the types are kept.
LEMMA RollbackType ==
  ASSUME TypeOK, NEW t \in Txns, NEW fate \in Ended, Rollback(t, fate)
  PROVE  TypeOK'
BY DEF TypeOK, Rollback, Running, Ended, catalogue

LEMMA PublishType ==
  ASSUME TypeOK, NEW t \in Txns, NEW fate \in Ended, Publish(t, fate)
  PROVE  TypeOK'
<1>1. \A p \in Products : Stored(draft[p]) \in Int
  BY StoredIsStorable DEF TypeOK
<1> QED
  BY <1>1 DEF TypeOK, Publish, Running, Ended, catalogue

\* A line that is dealt with leaves at inside the lines, or the commit to do.
LEMMA NextLineType ==
  ASSUME TypeOK, NEW t \in Txns, NextLine(t), lines' = lines,
         pc[t] \in Running \ {"commit"}
  PROVE  /\ pc' \in [Txns -> Running \cup Ended \cup {"idle"}]
         /\ at' \in [Txns -> Nat \ {0}]
         /\ \A u \in Txns :
              pc'[u] \in Running \ {"commit"} => at'[u] \in DOMAIN lines'[u]
<1>1. lines[t] \in Seq(Line) /\ at[t] \in DOMAIN lines[t] /\ at[t] \in Nat \ {0}
  BY DEF TypeOK
<1>2. Len(lines[t]) \in Nat /\ DOMAIN lines[t] = 1 .. Len(lines[t])
  BY <1>1
<1>3. at[t] < Len(lines[t]) => at[t] + 1 \in DOMAIN lines[t]
  BY <1>1, <1>2
<1> QED
  BY <1>1, <1>3 DEF TypeOK, NextLine, Running

LEMMA MovementType ==
  ASSUME TypeOK, NEW t \in Txns, pc[t] \in Running \ {"commit"}
  PROVE  Movement(t) \in Row
<1>1. Current(t) \in Line /\ Delta(t) \in Int
  BY CurrentType
<1>2. Stored(Delta(t)) \in Int
  BY <1>1, StoredIsStorable
<1>3. at[t] \in Nat
  BY DEF TypeOK
<1> QED
  BY <1>1, <1>2, <1>3 DEF Movement, Row, Line

\* Every variable has its type in every reachable state, whatever the constants.
THEOREM TypeCorrect == Spec => []TypeOK
<1>1. Init => TypeOK
  <2> SUFFICES ASSUME Init PROVE TypeOK
    OBVIOUS
  <2>1. <<>> \in Seq(Line)
    OBVIOUS
  <2> QED
    BY <2>1 DEF Init, TypeOK, Kinds, Running
<1>2. TypeOK /\ [Next]_vars => TypeOK'
  <2> SUFFICES ASSUME TypeOK, [Next]_vars PROVE TypeOK'
    OBVIOUS
  <2>1. CASE UNCHANGED vars
    BY <2>1 DEF vars, catalogue, control, rows, stock, TypeOK
  <2>2. CASE Catalogue
    <3>1. ASSUME NEW p \in Products, CreateProduct(p) PROVE TypeOK'
      BY <3>1, ConstantsAssumption
      DEF CreateProduct, TypeOK, control, rows, stock
    <3>2. ASSUME NEW p \in Products, NEW u \in Units, AddProductUnit(p, u) PROVE TypeOK'
      BY <3>2 DEF AddProductUnit, TypeOK, control, rows, stock
    <3>3. ASSUME NEW p \in Products, NEW s \in {"active", "inactive"}, UpdateStatus(p, s)
          PROVE TypeOK'
      BY <3>3 DEF UpdateStatus, TypeOK, control, rows, stock
    <3> QED
      BY <2>2, <3>1, <3>2, <3>3 DEF Catalogue
  <2>3. ASSUME NEW t \in Txns, NEW r \in Requests, Begin(t, r) PROVE TypeOK'
    <3>1. r.kind \in Kinds /\ r.lines \in Seq(Line) /\ r.lines # <<>>
      BY RequestsAssumption DEF Request
    <3>2. 1 \in DOMAIN r.lines
      BY <3>1
    <3> QED
      BY <2>3, <3>1, <3>2 DEF Begin, TypeOK, Running, Ended, catalogue, rows, stock
  <2>4. ASSUME NEW t \in Txns, Step(t) PROVE TypeOK'
    <3>1. CASE LookUp(t)
      <4>1. CASE HasKey(Current(t).key, ledger \cup staged[t])
        <5>1. NextLine(t) /\ lines' = lines /\ pc[t] \in Running \ {"commit"}
          BY <3>1, <4>1 DEF LookUp, Running
        <5> QED
          BY <3>1, <5>1, NextLineType DEF LookUp, TypeOK, catalogue, rows, stock
      <4>2. CASE ~HasKey(Current(t).key, ledger \cup staged[t])
        BY <3>1, <4>2 DEF LookUp, TypeOK, Running, catalogue, rows, stock
      <4> QED
        BY <4>1, <4>2
    <3>2. CASE ReadProduct(t)
      BY <3>2, RollbackType
      DEF ReadProduct, CheckProduct, TypeOK, Running, Ended, catalogue, rows, stock
    <3>3. CASE ReadUnit(t)
      BY <3>3, RollbackType
      DEF ReadUnit, TypeOK, Running, Ended, catalogue, rows, stock
    <3>4. CASE Lock(t)
      <4>1. Current(t) \in Line
        BY <3>4, CurrentType DEF Lock, Running
      <4>2. draft' \in [Products -> Int]
        BY <3>4, <4>1, StoredIsStorable DEF Lock, TypeOK, Line
      <4> QED
        BY <3>4, <4>1, <4>2 DEF Lock, TypeOK, Line, Running, catalogue, rows
    <3>5. CASE Refuse(t) \/ DuplicateKey(t) \/ DeadlockVictim(t)
      BY <3>5, RollbackType DEF Refuse, DuplicateKey, DeadlockVictim, Ended
    <3>6. CASE Post(t)
      <4>1. pc[t] \in Running \ {"commit"} /\ NextLine(t) /\ lines' = lines
        BY <3>6 DEF Post, Running
      <4>2. Movement(t) \in Row
        BY <4>1, MovementType
      <4>3. NewQuantity(t) \in Int /\ Delta(t) \in Int /\ Current(t).product \in Products
        BY <4>1, CurrentType
      <4>4. Stored(Delta(t)) \in Int
        BY <4>3, StoredIsStorable
      <4>5. staged' \in [Txns -> SUBSET Row]
        BY <3>6, <4>2 DEF Post, TypeOK
      <4>6. draft' \in [Products -> Int] /\ bookedDraft' \in [Products -> Int]
        BY <3>6, <4>3, <4>4 DEF Post, TypeOK
      <4>7. /\ pc' \in [Txns -> Running \cup Ended \cup {"idle"}]
            /\ at' \in [Txns -> Nat \ {0}]
            /\ \A u \in Txns :
                 pc'[u] \in Running \ {"commit"} => at'[u] \in DOMAIN lines'[u]
        BY <4>1, NextLineType
      <4>8. UNCHANGED <<status, units, kind, lines, ledger, lock, level, booked>>
        BY <3>6 DEF Post, catalogue
      <4> QED
        BY <4>5, <4>6, <4>7, <4>8 DEF TypeOK
    <3>7. CASE Commit(t)
      BY <3>7, PublishType DEF Commit, Ended
    <3> QED
      BY <2>4, <3>1, <3>2, <3>3, <3>4, <3>5, <3>6, <3>7 DEF Step
  <2>5. ASSUME NEW t \in Txns, Crash(t) \/ CrashAfterCommit(t) PROVE TypeOK'
    BY <2>5, RollbackType, PublishType DEF Crash, CrashAfterCommit, Ended
  <2> QED
    BY <2>1, <2>2, <2>3, <2>4, <2>5 DEF Next
<1> QED
  BY <1>1, <1>2, PTL DEF Spec

-----------------------------------------------------------------------------
(* Levels *)

LEMMA InitLevelInv == Init => LevelInv
<1> SUFFICES ASSUME Init PROVE LevelInv
  OBVIOUS
<1>1. TypeOK
  <2>1. <<>> \in Seq(Line)
    OBVIOUS
  <2> QED
    BY <2>1 DEF Init, TypeOK, Kinds, Running
<1>2. LinesAsked
  BY DEF Init, LinesAsked
<1>3. Isolation
  BY DEF Init, Isolation
<1>4. Storable /\ NoOverdraft /\ NeverUnderstated /\ Drift
  <2>1. Stored(0) = 0
    BY StoredIsStorable
  <2> QED
    BY <2>1 DEF Init, Storable, NoOverdraft, NeverUnderstated, Drift
<1> QED
  BY <1>1, <1>2, <1>3, <1>4 DEF LevelInv

\* A rollback gives the rows it held back as they were.
LEMMA RollbackLevels ==
  ASSUME LevelInv, NEW t \in Txns, NEW fate \in Ended, pc[t] \in Running,
         Rollback(t, fate), TypeOK'
  PROVE  LevelInv'
<1>0. Free # t
  BY ConstantsAssumption
<1>1. LinesAsked'
  BY DEF LevelInv, LinesAsked, Rollback, Running, TypeOK
<1>2. Isolation'
  <2>1. ASSUME NEW p \in Products
        PROVE  IF lock'[p] = Free THEN draft'[p] = level'[p] /\ bookedDraft'[p] = booked'[p]
                                  ELSE pc'[lock'[p]] \in Running
    BY <1>0 DEF LevelInv, Isolation, Rollback, TypeOK
  <2>2. ASSUME NEW u \in Txns, pc'[u] = "post" PROVE lock'[Current(u)'.product] = u
    <3>1. u # t /\ pc[u] = "post"
      BY <2>2 DEF LevelInv, Rollback, TypeOK, Ended
    <3>2. Current(u)' = Current(u)
      BY DEF Current, Rollback
    <3>3. Current(u).product \in Products
      BY <3>1, CurrentType DEF LevelInv, Running
    <3> QED
      BY <3>1, <3>2, <3>3 DEF LevelInv, Isolation, Rollback
  <2> QED
    BY <2>1, <2>2 DEF Isolation
<1>3. Storable' /\ NoOverdraft' /\ NeverUnderstated'
  BY DEF LevelInv, Storable, NoOverdraft, NeverUnderstated, Rollback, TypeOK
<1>4. Drift'
  <2> SUFFICES ASSUME OncePerProduct PROVE Drift'
    BY DEF Drift
  <2>1. ASSUME NEW p \in Products PROVE Stored(draft'[p]) >= bookedDraft'[p]
    <3>1. Stored(level[p]) = level[p] /\ level[p] >= booked[p]
      BY StoredIsStorable DEF LevelInv, TypeOK, Storable, NeverUnderstated
    <3> QED
      BY <3>1 DEF LevelInv, Drift, Rollback
  <2>2. ASSUME NEW u \in Txns, NEW p \in Products, lock'[p] = u, NotYet(u, p)'
        PROVE  draft'[p] = level'[p]
    <3>1. u # t /\ lock[p] = u
      BY <2>2, ConstantsAssumption DEF Rollback
    <3>2. NotYet(u, p)
      BY <2>2 DEF NotYet, Rollback
    <3> QED
      BY <3>1, <3>2 DEF LevelInv, Drift, Rollback
  <2> QED
    BY <2>1, <2>2 DEF Drift
<1> QED
  BY <1>1, <1>2, <1>3, <1>4 DEF LevelInv

\* A commit makes the level and the ledger total it computed the committed ones.
LEMMA PublishLevels ==
  ASSUME LevelInv, NEW t \in Txns, NEW fate \in Ended, Publish(t, fate), TypeOK'
  PROVE  LevelInv'
<1>0. Free # t
  BY ConstantsAssumption
<1>1. LinesAsked'
  BY DEF LevelInv, LinesAsked, Publish, TypeOK
<1>2. Isolation'
  <2>1. ASSUME NEW p \in Products
        PROVE  IF lock'[p] = Free THEN draft'[p] = level'[p] /\ bookedDraft'[p] = booked'[p]
                                  ELSE pc'[lock'[p]] \in Running
    BY <1>0 DEF LevelInv, Isolation, Publish, TypeOK
  <2>2. ASSUME NEW u \in Txns, pc'[u] = "post" PROVE lock'[Current(u)'.product] = u
    <3>1. u # t /\ pc[u] = "post"
      BY <2>2 DEF LevelInv, Publish, TypeOK, Ended
    <3>2. Current(u)' = Current(u)
      BY DEF Current, Publish
    <3>3. Current(u).product \in Products
      BY <3>1, CurrentType DEF LevelInv, Running
    <3> QED
      BY <3>1, <3>2, <3>3 DEF LevelInv, Isolation, Publish
  <2> QED
    BY <2>1, <2>2 DEF Isolation
<1>3. Storable' /\ NoOverdraft' /\ NeverUnderstated'
  BY StoredIsStorable
  DEF LevelInv, Storable, NoOverdraft, NeverUnderstated, Drift, Publish, TypeOK
<1>4. Drift'
  <2> SUFFICES ASSUME OncePerProduct PROVE Drift'
    BY DEF Drift
  <2>1. ASSUME NEW p \in Products PROVE Stored(draft'[p]) >= bookedDraft'[p]
    <3>1. Stored(Stored(draft[p])) = Stored(draft[p]) /\ Stored(draft[p]) >= bookedDraft[p]
      BY StoredIsStorable DEF LevelInv, TypeOK, Drift
    <3> QED
      BY <3>1 DEF LevelInv, Drift, Publish
  <2>2. ASSUME NEW u \in Txns, NEW p \in Products, lock'[p] = u, NotYet(u, p)'
        PROVE  draft'[p] = level'[p]
    <3>1. u # t /\ lock[p] = u
      BY <2>2, ConstantsAssumption DEF Publish
    <3>2. NotYet(u, p)
      BY <2>2 DEF NotYet, Publish
    <3> QED
      BY <3>1, <3>2 DEF LevelInv, Drift, Publish
  <2> QED
    BY <2>1, <2>2 DEF Drift
<1> QED
  BY <1>1, <1>2, <1>3, <1>4 DEF LevelInv

\* A step that neither locks nor writes.
Quiet(t) ==
  /\ \A u \in Txns \ {t} : pc'[u] = pc[u] /\ at'[u] = at[u] /\ lines'[u] = lines[u]
  /\ pc'[t] # "post"
  /\ pc[t] \in Running => /\ pc'[t] \in Running
                          /\ at'[t] \in {at[t], at[t] + 1}
                          /\ lines'[t] = lines[t]
  /\ UNCHANGED <<lock, stock>>

LEMMA QuietLevels ==
  ASSUME LevelInv, NEW t \in Txns, Quiet(t), TypeOK', LinesAsked'
  PROVE  LevelInv'
<1>1. Isolation'
  <2>1. ASSUME NEW p \in Products
        PROVE  IF lock'[p] = Free THEN draft'[p] = level'[p] /\ bookedDraft'[p] = booked'[p]
                                  ELSE pc'[lock'[p]] \in Running
    BY DEF LevelInv, Isolation, Quiet, TypeOK, stock
  <2>2. ASSUME NEW u \in Txns, pc'[u] = "post" PROVE lock'[Current(u)'.product] = u
    <3>1. u # t /\ pc[u] = "post"
      BY <2>2 DEF Quiet
    <3>2. Current(u)' = Current(u)
      BY <3>1 DEF Current, Quiet
    <3> QED
      BY <3>1, <3>2 DEF LevelInv, Isolation, Quiet
  <2> QED
    BY <2>1, <2>2 DEF Isolation
<1>2. Storable' /\ NoOverdraft' /\ NeverUnderstated'
  BY DEF LevelInv, Storable, NoOverdraft, NeverUnderstated, Quiet, stock
<1>3. Drift'
  <2> SUFFICES ASSUME OncePerProduct PROVE Drift'
    BY DEF Drift
  <2>1. ASSUME NEW u \in Txns, NEW p \in Products, lock'[p] = u, NotYet(u, p)'
        PROVE  draft'[p] = level'[p]
    <3>1. lock[p] = u /\ pc[u] \in Running
      BY <2>1, ConstantsAssumption DEF Quiet, stock, LevelInv, Isolation
    <3>2. lines'[u] = lines[u] /\ at'[u] \in {at[u], at[u] + 1} /\ at[u] \in Nat
      BY <3>1 DEF Quiet, LevelInv, TypeOK
    <3>3. DOMAIN lines[u] \subseteq Nat
      <4>1. lines[u] \in Seq(Line)
        BY DEF LevelInv, TypeOK
      <4> QED
        BY <4>1
    <3>4. \A i \in DOMAIN lines[u] : i < at[u] => i < at'[u]
      BY <3>2, <3>3
    <3>5. NotYet(u, p)
      BY <2>1, <3>2, <3>4 DEF NotYet
    <3> QED
      BY <3>1, <3>5 DEF Quiet, stock, LevelInv, Drift
  <2> QED
    BY <2>1 DEF Drift, LevelInv, Quiet, stock
<1> QED
  BY <1>1, <1>2, <1>3 DEF LevelInv

LEMMA LockLevels ==
  ASSUME LevelInv, NEW t \in Txns, Lock(t), TypeOK'
  PROVE  LevelInv'
<1>0. Free # t
  BY ConstantsAssumption
\* A level no line has moved yet is storable: to read it back changes nothing.
<1> DEFINE q == Current(t).product
<1>r. /\ q \in Products /\ lock[q] \in {Free, t} /\ lock' = [lock EXCEPT ![q] = t]
      /\ level' = level /\ booked' = booked /\ bookedDraft' = bookedDraft
      /\ draft' = [draft EXCEPT ![q] = draft'[q]]
      /\ draft'[q] = draft[q] \/ draft'[q] = Stored(draft[q])
  BY CurrentType DEF Lock, LevelInv, TypeOK, Running
<1> HIDE DEF q
<1>s. \A p \in Products :
        /\ level[p] \in Int /\ draft[p] \in Int /\ Stored(level[p]) = level[p]
        /\ draft'[p] = draft[p] \/ (p = q /\ draft'[p] = Stored(draft[p]))
  BY <1>r, StoredIsStorable DEF LevelInv, TypeOK, Storable
<1>1. LinesAsked'
  BY DEF LevelInv, LinesAsked, Lock, TypeOK
<1>2. Isolation'
  <2>0. Current(t).product \in Products /\ \A u \in Txns : Current(u)' = Current(u)
    BY CurrentType DEF LevelInv, Lock, Running, Current
  <2>1. ASSUME NEW p \in Products
        PROVE  IF lock'[p] = Free THEN draft'[p] = level'[p] /\ bookedDraft'[p] = booked'[p]
                                  ELSE pc'[lock'[p]] \in Running
    BY <1>0, <1>r, <1>s DEF LevelInv, Isolation, Lock, TypeOK, Running
  <2>2. ASSUME NEW u \in Txns, pc'[u] = "post" PROVE lock'[Current(u)'.product] = u
    <3>1. CASE u = t
      BY <2>0, <3>1 DEF Lock, LevelInv, TypeOK
    <3>2. CASE u # t
      <4>1. pc[u] = "post" /\ lock[Current(u).product] = u
        BY <2>2, <3>2 DEF Lock, LevelInv, TypeOK, Isolation
      <4>2. Current(u).product # Current(t).product
        BY <1>0, <3>2, <4>1, ConstantsAssumption DEF Lock
      <4>3. Current(u).product \in Products
        BY <4>1, CurrentType DEF LevelInv, Running
      <4> QED
        BY <2>0, <4>1, <4>2, <4>3 DEF Lock, LevelInv, TypeOK
    <3> QED
      BY <3>1, <3>2
  <2> QED
    BY <2>1, <2>2 DEF Isolation
<1>3. Storable' /\ NoOverdraft' /\ NeverUnderstated'
  BY <1>r, <1>s, StoredIsStorable DEF LevelInv, Storable, NoOverdraft, NeverUnderstated
<1>4. Drift'
  <2> SUFFICES ASSUME OncePerProduct PROVE Drift'
    BY DEF Drift
  <2>1. ASSUME NEW u \in Txns, NEW p \in Products, lock'[p] = u, NotYet(u, p)'
        PROVE  draft'[p] = level'[p]
    <3>1. NotYet(u, p) /\ level'[p] = level[p]
      BY <1>r, <2>1 DEF NotYet, Lock
    <3>2. lock[p] \in {Free, u}
      BY <1>r, <2>1 DEF LevelInv, TypeOK
    <3>3. draft[p] = level[p]
      BY <3>1, <3>2 DEF LevelInv, Drift, Isolation
    <3> QED
      BY <1>s, <3>1, <3>3
  <2>2. ASSUME NEW p \in Products PROVE Stored(draft'[p]) >= bookedDraft'[p]
    <3>1. Stored(draft'[p]) = Stored(draft[p])
      BY <1>s, StoredIsStorable
    <3> QED
      BY <1>r, <3>1 DEF LevelInv, Drift
  <2> QED
    BY <2>1, <2>2 DEF Drift
<1> QED
  BY <1>1, <1>2, <1>3, <1>4 DEF LevelInv

\* A movement is computed from the level only its transaction can change.
LEMMA PostLevels ==
  ASSUME LevelInv, NEW t \in Txns, Post(t), TypeOK'
  PROVE  LevelInv'
<1> DEFINE p0 == Current(t).product
<1>0. p0 \in Products /\ Delta(t) \in Int /\ NewQuantity(t) \in Int /\ lock[p0] = t /\ Free # t
  BY CurrentType, ConstantsAssumption DEF LevelInv, Isolation, Post, Running
<1>1. LinesAsked'
  BY DEF LevelInv, LinesAsked, Post, NextLine, TypeOK
<1>2. Isolation'
  <2>1. ASSUME NEW p \in Products
        PROVE  IF lock'[p] = Free THEN draft'[p] = level'[p] /\ bookedDraft'[p] = booked'[p]
                                  ELSE pc'[lock'[p]] \in Running
    BY <1>0 DEF LevelInv, Isolation, Post, NextLine, TypeOK, Running
  <2>2. ASSUME NEW u \in Txns, pc'[u] = "post" PROVE lock'[Current(u)'.product] = u
    <3>1. u # t /\ pc[u] = "post"
      BY <2>2 DEF LevelInv, Post, NextLine, TypeOK
    <3>2. Current(u)' = Current(u)
      BY <3>1 DEF Current, Post, NextLine, LevelInv, TypeOK
    <3> QED
      BY <3>1, <3>2 DEF LevelInv, Isolation, Post
  <2> QED
    BY <2>1, <2>2 DEF Isolation
<1>3. /\ draft' = [draft EXCEPT ![p0] = NewQuantity(t)]
      /\ bookedDraft' = [bookedDraft EXCEPT ![p0] = @ + Stored(Delta(t))]
      /\ level' = level /\ booked' = booked
      /\ NewQuantity(t) = draft[p0] + Delta(t) /\ NewQuantity(t) >= 0
  BY DEF Post, NewQuantity
<1>4. /\ draft'[p0] = draft[p0] + Delta(t)
      /\ bookedDraft'[p0] = bookedDraft[p0] + Stored(Delta(t))
      /\ \A p \in Products \ {p0} : draft'[p] = draft[p] /\ bookedDraft'[p] = bookedDraft[p]
  BY <1>0, <1>3 DEF LevelInv, TypeOK
<1>5. Storable' /\ NoOverdraft' /\ NeverUnderstated'
  <2>1. draft'[p0] >= 0
    BY <1>3, <1>4
  <2> QED
    BY <1>3, <1>4, <2>1 DEF LevelInv, Storable, NoOverdraft, NeverUnderstated
<1>6. Drift'
  <2> SUFFICES ASSUME OncePerProduct PROVE Drift'
    BY DEF Drift
  <2>0. /\ at[t] \in DOMAIN lines[t] /\ at[t] \in Nat /\ DOMAIN lines[t] \subseteq Nat
        /\ at' = [at EXCEPT ![t] = @ + 1] /\ lines' = lines /\ lock' = lock
    BY DEF LevelInv, TypeOK, Post, NextLine, Running
  <2>1. Stored(draft'[p0]) >= bookedDraft'[p0]
    <3>1. NotYet(t, p0)
      <4>1. PICK r \in Requests : lines[t] = r.lines
        BY DEF LevelInv, LinesAsked, Post
      <4> QED
        BY <2>0, <4>1 DEF NotYet, OncePerProduct, Current
    <3>2. /\ draft[p0] = level[p0] /\ level[p0] \in Int /\ level[p0] % 4 = 0
          /\ Stored(draft[p0]) >= bookedDraft[p0] /\ bookedDraft[p0] \in Int
      BY <1>0, <3>1 DEF LevelInv, Drift, Storable, TypeOK
    <3>3. Stored(draft[p0]) = draft[p0] /\ Stored(Delta(t)) \in Int
      BY <1>0, <3>2, StoredIsStorable
    <3>4. Stored(draft[p0] + Delta(t)) >= draft[p0] + Stored(Delta(t))
      BY <1>0, <1>3, <3>2, RoundingDriftsUp
    <3>5. Stored(draft[p0] + Delta(t)) \in Int
      BY <1>0, <3>2, StoredIsStorable
    <3> QED
      BY <1>4, <3>2, <3>3, <3>4, <3>5
  <2>2. ASSUME NEW u \in Txns, NEW p \in Products, lock'[p] = u, NotYet(u, p)'
        PROVE  draft'[p] = level'[p]
    <3>1. NotYet(u, p)
      <4>1. \A i \in DOMAIN lines[u] : i < at[u] => i < at'[u]
        BY <2>0 DEF LevelInv, TypeOK
      <4> QED
        BY <2>0, <2>2, <4>1 DEF NotYet
    <3>2. p # p0
      <4>1. SUFFICES ASSUME p = p0 PROVE FALSE
        OBVIOUS
      <4>2. u = t
        BY <1>0, <2>0, <2>2, <4>1
      <4>3. at[t] < at'[t] /\ lines'[t][at[t]].product = p0
        BY <2>0 DEF Current, LevelInv, TypeOK
      <4> QED
        BY <2>0, <2>2, <4>1, <4>2, <4>3 DEF NotYet
    <3> QED
      BY <1>3, <1>4, <2>0, <2>2, <3>1, <3>2 DEF LevelInv, Drift
  <2>3. ASSUME NEW p \in Products, p # p0 PROVE Stored(draft'[p]) >= bookedDraft'[p]
    BY <1>4, <2>3 DEF LevelInv, Drift
  <2> QED
    BY <2>1, <2>2, <2>3 DEF Drift
<1> QED
  BY <1>1, <1>2, <1>5, <1>6 DEF LevelInv

\* The inductive invariant of the levels: a row lock ties the level that is being computed to
\* one transaction from Lock to its end, and reading it back rounds nothing that counts.
THEOREM LevelsInductive == Spec => []LevelInv
<1>1. Init => LevelInv
  BY InitLevelInv
<1>2. LevelInv /\ TypeOK' /\ [Next]_vars => LevelInv'
  <2> SUFFICES ASSUME LevelInv, TypeOK', [Next]_vars PROVE LevelInv'
    OBVIOUS
  <2>1. CASE UNCHANGED vars
    BY <2>1 DEF vars, catalogue, control, rows, stock, LevelInv, LinesAsked, Isolation,
                Storable, NoOverdraft, NeverUnderstated, Drift, NotYet, Current
  <2>2. CASE Catalogue
    <3>1. UNCHANGED <<pc, kind, lines, at, lock, level, draft, booked, bookedDraft>>
      BY <2>2 DEF Catalogue, CreateProduct, AddProductUnit, UpdateStatus, control, stock
    <3> QED
      BY <3>1 DEF LevelInv, LinesAsked, Isolation, Storable, NoOverdraft, NeverUnderstated,
                  Drift, NotYet, Current
  <2>3. ASSUME NEW t \in Txns, NEW r \in Requests, Begin(t, r) PROVE LevelInv'
    <3>1. Quiet(t)
      BY <2>3 DEF Begin, Quiet, LevelInv, TypeOK, Running
    <3>2. LinesAsked'
      <4> SUFFICES ASSUME NEW u \in Txns, pc'[u] # "idle"
                   PROVE  \E q \in Requests : kind'[u] = q.kind /\ lines'[u] = q.lines
        BY DEF LinesAsked
      <4>1. CASE u = t
        BY <2>3, <4>1 DEF Begin, LevelInv, TypeOK
      <4>2. CASE u # t
        <5>1. pc'[u] = pc[u] /\ kind'[u] = kind[u] /\ lines'[u] = lines[u]
          BY <2>3, <4>2 DEF Begin, LevelInv, TypeOK
        <5> QED
          BY <5>1 DEF LinesAsked, LevelInv
      <4> QED
        BY <4>1, <4>2
    <3> QED
      BY <3>1, <3>2, QuietLevels
  <2>4. ASSUME NEW t \in Txns, Step(t) PROVE LevelInv'
    <3>1. CASE LookUp(t)
      <4>1. Quiet(t)
        BY <3>1 DEF LookUp, NextLine, Quiet, LevelInv, TypeOK, Running
      <4>2. /\ UNCHANGED <<kind, lines>>
            /\ \A u \in Txns : pc'[u] # "idle" => pc[u] # "idle"
        BY <3>1 DEF LookUp, NextLine, LevelInv, TypeOK, Running
      <4>3. LinesAsked'
        BY <4>2 DEF LinesAsked, LevelInv
      <4> QED
        BY <4>1, <4>3, QuietLevels
    <3>2. CASE ReadProduct(t) \/ ReadUnit(t)
      <4>1. CASE Rollback(t, "failed")
        BY <3>2, <4>1, RollbackLevels DEF ReadProduct, CheckProduct, ReadUnit, Running, Ended
      <4>2. CASE ~Rollback(t, "failed")
        <5>1. /\ pc[t] \in {"product", "unit"}
              /\ \E next \in {"unit", "lock"} : pc' = [pc EXCEPT ![t] = next]
              /\ UNCHANGED <<kind, lines, at, lock, stock>>
          BY <3>2, <4>2 DEF ReadProduct, CheckProduct, ReadUnit
        <5>2. Quiet(t)
          BY <5>1 DEF Quiet, LevelInv, TypeOK, Running
        <5>3. LinesAsked'
          BY <5>1 DEF LinesAsked, LevelInv, TypeOK
        <5> QED
          BY <5>2, <5>3, QuietLevels
      <4> QED
        BY <4>1, <4>2
    <3>3. CASE Lock(t)
      BY <3>3, LockLevels
    <3>4. CASE Refuse(t) \/ DuplicateKey(t) \/ DeadlockVictim(t)
      BY <3>4, RollbackLevels DEF Refuse, DuplicateKey, DeadlockVictim, Running, Ended
    <3>5. CASE Post(t)
      BY <3>5, PostLevels
    <3>6. CASE Commit(t)
      BY <3>6, PublishLevels DEF Commit, Ended
    <3> QED
      BY <2>4, <3>1, <3>2, <3>3, <3>4, <3>5, <3>6 DEF Step
  <2>5. ASSUME NEW t \in Txns, Crash(t) \/ CrashAfterCommit(t) PROVE LevelInv'
    BY <2>5, RollbackLevels, PublishLevels DEF Crash, CrashAfterCommit, Ended
  <2> QED
    BY <2>1, <2>2, <2>3, <2>4, <2>5 DEF Next
<1> QED
  BY <1>1, <1>2, TypeCorrect, PTL DEF Spec

\* No interleaving of requests takes a level below zero (_append_movement checks
\* and writes the level under the row lock).
THEOREM NeverOverdrawn == Spec => []NoOverdraft
<1>1. LevelInv => NoOverdraft
  BY DEF LevelInv
<1> QED
  BY <1>1, LevelsInductive, PTL

\* Whatever quantities are entered, a level is never below its ledger as long as
\* no request moves a product twice.
THEOREM DriftIsUpward == Spec => []NeverUnderstated
<1>1. LevelInv => NeverUnderstated
  BY DEF LevelInv
<1> QED
  BY <1>1, LevelsInductive, PTL

BooksInv == BooksBalance /\ \A p \in Products : draft[p] % 4 = 0

\* When the quantities entered are storable, so is a level that is being computed, and
\* the database rounds nothing.
THEOREM BooksInductive == ASSUME Representable PROVE Spec => []BooksInv
<1>1. Init => BooksInv
  BY DEF Init, BooksInv, BooksBalance
<1>2. LevelInv /\ BooksInv /\ [Next]_vars => BooksInv'
  <2> SUFFICES ASSUME LevelInv, BooksInv, [Next]_vars PROVE BooksInv'
    OBVIOUS
  <2>1. CASE UNCHANGED stock
    BY <2>1 DEF stock, BooksInv, BooksBalance
  <2>2. ASSUME NEW t \in Txns, NEW fate \in Ended, Rollback(t, fate) PROVE BooksInv'
    BY <2>2 DEF Rollback, BooksInv, BooksBalance, LevelInv, Storable, TypeOK
  <2>3. ASSUME NEW t \in Txns, NEW fate \in Ended, Publish(t, fate) PROVE BooksInv'
    <3>1. \A p \in Products : Stored(draft[p]) = draft[p]
      BY StoredIsStorable DEF BooksInv, LevelInv, TypeOK
    <3> QED
      BY <2>3, <3>1 DEF Publish, BooksInv, BooksBalance, LevelInv, TypeOK
  <2>4. ASSUME NEW t \in Txns, Post(t) PROVE BooksInv'
    <3> DEFINE p0 == Current(t).product
    <3>1. /\ p0 \in Products /\ Delta(t) \in Int /\ Current(t) \in Line
          /\ draft[p0] \in Int /\ draft[p0] % 4 = 0 /\ bookedDraft[p0] = draft[p0]
      BY <2>4, CurrentType DEF LevelInv, BooksInv, BooksBalance, TypeOK, Post, Running
    <3>2. Current(t).qty % 4 = 0
      <4>1. at[t] \in DOMAIN lines[t]
        BY <2>4 DEF LevelInv, TypeOK, Post, Running
      <4>2. PICK r \in Requests : lines[t] = r.lines
        BY <2>4 DEF LevelInv, LinesAsked, Post
      <4> QED
        BY <4>1, <4>2 DEF Representable, Current
    <3>3. Signed(kind[t], Current(t).qty) \in Int /\ Signed(kind[t], Current(t).qty) % 4 = 0
      BY <3>1, <3>2 DEF Signed, Line
    <3>4. Factor[<<Current(t).product, Current(t).unit>>] \in Int
      BY <3>1, ConstantsAssumption DEF Line
    <3>5. Delta(t) % 4 = 0
      BY <3>3, <3>4, StorableTimes DEF Delta
    <3>6. NewQuantity(t) = draft[p0] + Delta(t) /\ NewQuantity(t) >= 0
      BY <2>4 DEF NewQuantity, Post
    <3>7. Stored(Delta(t)) = Delta(t) /\ NewQuantity(t) % 4 = 0
      BY <3>1, <3>5, <3>6, StoredIsStorable
    <3>8. /\ draft' = [draft EXCEPT ![p0] = NewQuantity(t)]
          /\ bookedDraft' = [bookedDraft EXCEPT ![p0] = @ + Stored(Delta(t))]
          /\ level' = level /\ booked' = booked
      BY <2>4 DEF Post
    <3> QED
      BY <3>1, <3>6, <3>7, <3>8 DEF BooksInv, BooksBalance, LevelInv, TypeOK
  <2>5. ASSUME NEW t \in Txns, Lock(t) PROVE BooksInv'
    <3>1. PICK q \in {draft[Current(t).product], Stored(draft[Current(t).product])} :
            draft' = [draft EXCEPT ![Current(t).product] = q]
      BY <2>5 DEF Lock
    <3>2. Current(t).product \in Products
      BY <2>5, CurrentType DEF LevelInv, TypeOK, Lock, Running
    <3>3. q = draft[Current(t).product]
      BY <3>1, <3>2, StoredIsStorable DEF BooksInv, LevelInv, TypeOK
    <3>4. draft' = draft /\ level' = level /\ booked' = booked /\ bookedDraft' = bookedDraft
      BY <2>5, <3>1, <3>2, <3>3 DEF Lock, LevelInv, TypeOK
    <3> QED
      BY <2>1, <3>4 DEF stock
  <2>6. CASE Catalogue
    BY <2>1, <2>6 DEF Catalogue, CreateProduct, AddProductUnit, UpdateStatus
  <2>7. ASSUME NEW t \in Txns, NEW r \in Requests, Begin(t, r) PROVE BooksInv'
    BY <2>1, <2>7 DEF Begin
  <2>8. ASSUME NEW t \in Txns, Step(t) PROVE BooksInv'
    BY <2>1, <2>2, <2>3, <2>4, <2>5, <2>8
    DEF Step, LookUp, ReadProduct, CheckProduct, ReadUnit, Refuse, DuplicateKey, Commit,
        DeadlockVictim, Ended
  <2>9. ASSUME NEW t \in Txns, Crash(t) \/ CrashAfterCommit(t) PROVE BooksInv'
    BY <2>2, <2>3, <2>9 DEF Crash, CrashAfterCommit, Ended
  <2> QED
    BY <2>1, <2>5, <2>6, <2>7, <2>8, <2>9 DEF Next, vars
<1> QED
  BY <1>1, <1>2, LevelsInductive, PTL DEF Spec

\* When the quantities entered are storable, every level is the sum of its ledger.
THEOREM BooksAlwaysBalance == ASSUME Representable PROVE Spec => []BooksBalance
<1>1. BooksInv => BooksBalance
  BY DEF BooksInv
<1> QED
  BY <1>1, BooksInductive, PTL

-----------------------------------------------------------------------------
(* The rows of stock_movements *)


\* What a step needs to keep the rows in order.
Bookkeeping == TypeOK /\ LinesAsked /\ KeysApart /\ RowsAsked /\ (KeysNameLines => Progress)

\* A line that has its movement in S has it in every larger set.
LEMMA CoveredGrows ==
  ASSUME NEW t, NEW i, NEW S, NEW T, S \subseteq T, Covered(t, i, S)
  PROVE  Covered(t, i, T)
BY DEF Covered

\* The movement of a line covers it.
LEMMA MovementCovers ==
  ASSUME TypeOK, NEW t \in Txns, NEW S, Movement(t) \in S
  PROVE  Covered(t, at[t], S)
BY DEF Covered, Movement, Current, Delta

\* A replay is of the same line when a key is used for one thing.
LEMMA ReplayCovers ==
  ASSUME TypeOK, LinesAsked, RowsAsked, KeysNameLines,
         NEW t \in Txns, pc[t] = "lookup",
         HasKey(Current(t).key, ledger \cup staged[t])
  PROVE  Covered(t, at[t], ledger \cup staged[t])
<1>1. PICK m \in ledger \cup staged[t] : m.key = Current(t).key /\ m.key # NoKey
  BY DEF HasKey
<1>2. PICK r \in Requests : kind[t] = r.kind /\ lines[t] = r.lines
  BY DEF LinesAsked
<1>3. at[t] \in DOMAIN r.lines /\ Current(t) = r.lines[at[t]]
  BY <1>2 DEF TypeOK, Running, Current
<1>4. PICK s \in Requests : \E i \in DOMAIN s.lines :
        /\ m.product = s.lines[i].product
        /\ m.delta = Stored(Signed(s.kind, s.lines[i].qty)
                             * Factor[<<s.lines[i].product, s.lines[i].unit>>])
        /\ m.key = s.lines[i].key
  BY <1>1 DEF RowsAsked
<1>5. PICK i \in DOMAIN s.lines :
        /\ m.product = s.lines[i].product
        /\ m.delta = Stored(Signed(s.kind, s.lines[i].qty)
                             * Factor[<<s.lines[i].product, s.lines[i].unit>>])
        /\ m.key = s.lines[i].key
  BY <1>4
<1>6. s.lines[i] = r.lines[at[t]] /\ s.kind = r.kind
  BY <1>1, <1>3, <1>5 DEF KeysNameLines
<1> QED
  BY <1>1, <1>2, <1>3, <1>5, <1>6 DEF Covered, Current

-----------------------------------------------------------------------------
LEMMA InitBookkeeping == Init => KeysApart /\ RowsAsked /\ Progress
BY DEF Init, KeysApart, KeyBookedOnce, RowsAsked, Progress, Running, HasKey

LEMMA RollbackRows ==
  ASSUME Bookkeeping, NEW t \in Txns, NEW fate \in {"failed", "unanswered"},
         pc[t] \in Running, Rollback(t, fate)
  PROVE  KeysApart' /\ RowsAsked' /\ (KeysNameLines => Progress')
<1>0. /\ ledger' = ledger /\ staged' = [staged EXCEPT ![t] = {}]
      /\ pc' = [pc EXCEPT ![t] = fate] /\ UNCHANGED <<kind, lines, at>>
  BY DEF Rollback
<1>1. staged'[t] = {} /\ \A u \in Txns \ {t} : staged'[u] = staged[u] /\ pc'[u] = pc[u]
  BY <1>0 DEF Bookkeeping, TypeOK
<1>2. pc'[t] = fate
  BY <1>0 DEF Bookkeeping, TypeOK
<1>3. KeysApart'
  BY <1>0, <1>1, <1>2 DEF Bookkeeping, KeysApart, KeyBookedOnce, HasKey, Current
<1>4. RowsAsked'
  <2>1. \A u \in Txns : \A m \in staged'[u] : m.txn = u
    BY <1>1 DEF Bookkeeping, RowsAsked
  <2>2. \A m \in ledger' : pc'[m.txn] \in {"done", "unanswered"}
    BY <1>0, <1>1, <1>2 DEF Bookkeeping, RowsAsked, TypeOK, Row, Running
  <2>3. ledger' \cup UNION {staged'[u] : u \in Txns}
          \subseteq ledger \cup UNION {staged[u] : u \in Txns}
    BY <1>0, <1>1
  <2> QED
    BY <2>1, <2>2, <2>3 DEF Bookkeeping, RowsAsked
<1>5. ASSUME KeysNameLines PROVE Progress'
  BY <1>0, <1>1, <1>2, <1>5 DEF Bookkeeping, Progress, Covered, Running
<1> QED
  BY <1>3, <1>4, <1>5

LEMMA PublishRows ==
  ASSUME Bookkeeping, NEW t \in Txns, NEW fate \in {"done", "unanswered"}, Publish(t, fate)
  PROVE  KeysApart' /\ RowsAsked' /\ (KeysNameLines => Progress')
<1>0. /\ ledger' = ledger \cup staged[t] /\ staged' = [staged EXCEPT ![t] = {}]
      /\ pc' = [pc EXCEPT ![t] = fate] /\ UNCHANGED <<kind, lines, at>>
      /\ pc[t] = "commit"
  BY DEF Publish
<1>1. staged'[t] = {} /\ \A u \in Txns \ {t} : staged'[u] = staged[u] /\ pc'[u] = pc[u]
  BY <1>0 DEF Bookkeeping, TypeOK
<1>2. pc'[t] = fate
  BY <1>0 DEF Bookkeeping, TypeOK
<1>3. KeysApart'
  <2>1. KeyBookedOnce'
    BY <1>0 DEF Bookkeeping, KeysApart, KeyBookedOnce
  <2>2. ASSUME NEW u \in Txns, NEW v \in Txns, NEW m \in staged'[u], m.key # NoKey,
               NEW n \in staged'[v] \cup ledger', m.key = n.key
        PROVE  m = n
    BY <1>0, <1>1, <2>2 DEF Bookkeeping, KeysApart
  <2>3. ASSUME NEW u \in Txns, pc'[u] \in {"product", "unit", "lock", "post"}
        PROVE  ~HasKey(Current(u)'.key, staged'[u])
    BY <1>0, <1>1, <1>2, <2>3 DEF Bookkeeping, KeysApart, HasKey, Current
  <2> QED
    BY <2>1, <2>2, <2>3 DEF KeysApart, HasKey
<1>4. RowsAsked'
  <2>1. \A u \in Txns : \A m \in staged'[u] : m.txn = u
    BY <1>1 DEF Bookkeeping, RowsAsked
  <2>2. \A m \in ledger' : pc'[m.txn] \in {"done", "unanswered"}
    BY <1>0, <1>1, <1>2 DEF Bookkeeping, RowsAsked, TypeOK, Row
  <2>3. ledger' \cup UNION {staged'[u] : u \in Txns}
          \subseteq ledger \cup UNION {staged[u] : u \in Txns}
    BY <1>0, <1>1
  <2> QED
    BY <2>1, <2>2, <2>3 DEF Bookkeeping, RowsAsked
<1>5. ASSUME KeysNameLines PROVE Progress'
  BY <1>0, <1>1, <1>2, <1>5 DEF Bookkeeping, Progress, Covered, Running
<1> QED
  BY <1>3, <1>4, <1>5

LEMMA BeginRows ==
  ASSUME Bookkeeping, NEW t \in Txns, NEW r \in Requests, Begin(t, r)
  PROVE  KeysApart' /\ RowsAsked' /\ (KeysNameLines => Progress')
<1>0. /\ UNCHANGED <<ledger, staged>>
      /\ pc[t] = "idle" /\ pc'[t] \in {"failed", "lookup"} /\ at'[t] = 1
      /\ \A u \in Txns \ {t} :
           pc'[u] = pc[u] /\ at'[u] = at[u] /\ lines'[u] = lines[u] /\ kind'[u] = kind[u]
  BY DEF Begin, Bookkeeping, TypeOK, rows
<1>1. KeysApart'
  BY <1>0 DEF Bookkeeping, KeysApart, KeyBookedOnce, HasKey, Current
<1>2. RowsAsked'
  <2>1. \A m \in ledger' : pc'[m.txn] \in {"done", "unanswered"}
    BY <1>0 DEF Bookkeeping, RowsAsked, TypeOK, Row
  <2> QED
    BY <1>0, <2>1 DEF Bookkeeping, RowsAsked
<1>3. ASSUME KeysNameLines PROVE Progress'
  <2> SUFFICES ASSUME NEW u \in Txns
               PROVE  /\ pc'[u] = "commit" => at'[u] > Len(lines'[u])
                      /\ pc'[u] \in Running =>
                           \A i \in DOMAIN lines'[u] :
                             i < at'[u] => Covered(u, i, ledger \cup staged[u])'
    BY <1>0 DEF Progress, Covered
  <2>1. CASE u = t
    <3>1. r.lines \in Seq(Line) /\ lines'[t] = r.lines
      BY RequestsAssumption DEF Request, Begin, Bookkeeping, TypeOK
    <3>2. \A i \in DOMAIN lines'[t] : ~(i < 1)
      BY <3>1
    <3> QED
      BY <1>0, <2>1, <3>2
  <2>2. CASE u # t
    BY <1>0, <1>3, <2>2 DEF Bookkeeping, Progress, Covered
  <2> QED
    BY <2>1, <2>2
<1> QED
  BY <1>1, <1>2, <1>3

\* A step that stays on its line and stages nothing.
SameLine(t) ==
  /\ UNCHANGED <<ledger, staged, kind, lines, at>>
  /\ \E next \in {"product", "unit", "lock", "post"} : pc' = [pc EXCEPT ![t] = next]
  /\ pc[t] \in {"lookup", "product", "unit", "lock"}
  /\ pc[t] = "lookup" => ~HasKey(Current(t).key, ledger \cup staged[t])

LEMMA SameLineRows ==
  ASSUME Bookkeeping, NEW t \in Txns, SameLine(t)
  PROVE  KeysApart' /\ RowsAsked' /\ (KeysNameLines => Progress')
<1>0. /\ pc'[t] \in {"product", "unit", "lock", "post"}
      /\ \A u \in Txns \ {t} : pc'[u] = pc[u]
  BY DEF SameLine, Bookkeeping, TypeOK
<1>1. KeysApart'
  <2>1. \A u \in Txns : Current(u)' = Current(u)
    BY DEF SameLine, Current
  <2>2. ASSUME NEW u \in Txns, pc'[u] \in {"product", "unit", "lock", "post"}
        PROVE  ~HasKey(Current(u).key, staged[u])
    BY <1>0, <2>2 DEF SameLine, Bookkeeping, KeysApart, HasKey
  <2> QED
    BY <2>1, <2>2 DEF SameLine, Bookkeeping, KeysApart, KeyBookedOnce, HasKey
<1>2. RowsAsked'
  <2>1. \A m \in ledger' : pc'[m.txn] \in {"done", "unanswered"}
    BY <1>0 DEF SameLine, Bookkeeping, RowsAsked, TypeOK, Row
  <2> QED
    BY <1>0, <2>1 DEF SameLine, Bookkeeping, RowsAsked
<1>3. ASSUME KeysNameLines PROVE Progress'
  BY <1>0, <1>3 DEF SameLine, Bookkeeping, Progress, Covered, Running
<1> QED
  BY <1>1, <1>2, <1>3

\* Going to the next line when this one is covered.
LEMMA NextLineProgress ==
  ASSUME Bookkeeping, KeysNameLines, NEW t \in Txns, NextLine(t),
         pc[t] \in Running \ {"commit"},
         UNCHANGED <<kind, lines, ledger>>,
         \A u \in Txns : staged[u] \subseteq staged'[u],
         Covered(t, at[t], ledger \cup staged'[t])
  PROVE  Progress'
<1>1. /\ at'[t] = at[t] + 1 /\ at[t] \in Nat
      /\ pc'[t] = (IF at[t] < Len(lines[t]) THEN "lookup" ELSE "commit")
      /\ \A u \in Txns \ {t} : pc'[u] = pc[u] /\ at'[u] = at[u]
      /\ lines[t] \in Seq(Line)
  BY DEF NextLine, Bookkeeping, TypeOK
<1>2. \A u \in Txns, i \in Nat :
        Covered(u, i, ledger \cup staged[u]) => Covered(u, i, ledger \cup staged'[u])
  BY DEF Covered
<1> SUFFICES ASSUME NEW u \in Txns
             PROVE  /\ pc'[u] = "commit" => at'[u] > Len(lines[u])
                    /\ pc'[u] \in Running =>
                         \A i \in DOMAIN lines[u] :
                           i < at'[u] => Covered(u, i, ledger \cup staged'[u])
  BY DEF Progress, Covered
<1>3. CASE u = t
  <2>1. pc'[t] = "commit" => at'[t] > Len(lines[t])
    BY <1>1
  <2>2. ASSUME NEW i \in DOMAIN lines[t], i < at'[t]
        PROVE  Covered(t, i, ledger \cup staged'[t])
    <3>1. i \in Nat /\ (i < at[t] \/ i = at[t])
      BY <1>1, <2>2
    <3> QED
      BY <1>2, <3>1 DEF Bookkeeping, Progress
  <2> QED
    BY <1>3, <2>1, <2>2
<1>4. CASE u # t
  <2>1. DOMAIN lines[u] \subseteq Nat
    BY DEF Bookkeeping, TypeOK
  <2> QED
    BY <1>1, <1>2, <1>4, <2>1 DEF Bookkeeping, Progress
<1> QED
  BY <1>3, <1>4

\* A replayed line changes no row.
LEMMA ReplayRows ==
  ASSUME Bookkeeping, NEW t \in Txns, LookUp(t),
         HasKey(Current(t).key, ledger \cup staged[t])
  PROVE  KeysApart' /\ RowsAsked' /\ (KeysNameLines => Progress')
<1>0. /\ pc[t] = "lookup" /\ NextLine(t)
      /\ UNCHANGED <<kind, lines, ledger, staged>>
      /\ pc'[t] \in {"lookup", "commit"}
      /\ \A u \in Txns \ {t} : pc'[u] = pc[u] /\ at'[u] = at[u]
  BY DEF LookUp, NextLine, Bookkeeping, TypeOK, rows
<1>1. KeysApart'
  BY <1>0 DEF Bookkeeping, KeysApart, KeyBookedOnce, HasKey, Current
<1>2. RowsAsked'
  <2>1. \A m \in ledger' : pc'[m.txn] \in {"done", "unanswered"}
    BY <1>0 DEF Bookkeeping, RowsAsked, TypeOK, Row
  <2> QED
    BY <1>0, <2>1 DEF Bookkeeping, RowsAsked
<1>3. ASSUME KeysNameLines PROVE Progress'
  <2>1. Covered(t, at[t], ledger \cup staged[t])
    BY <1>0, <1>3, ReplayCovers DEF Bookkeeping
  <2> QED
    BY <1>0, <1>3, <2>1, NextLineProgress DEF Running
<1> QED
  BY <1>1, <1>2, <1>3

\* The unique index lets a key in once.
LEMMA PostRows ==
  ASSUME Bookkeeping, NEW t \in Txns, Post(t)
  PROVE  KeysApart' /\ RowsAsked' /\ (KeysNameLines => Progress')
<1> DEFINE new == Movement(t)
<1>0. /\ pc[t] = "post" /\ NextLine(t) /\ UNCHANGED <<kind, lines, ledger>>
      /\ staged'[t] = staged[t] \cup {new}
      /\ \A u \in Txns \ {t} : staged'[u] = staged[u] /\ pc'[u] = pc[u] /\ at'[u] = at[u]
      /\ pc'[t] \in {"lookup", "commit"}
  BY DEF Post, NextLine, Bookkeeping, TypeOK
<1>1. new.key = Current(t).key /\ new.txn = t
  BY DEF Movement
<1>2. new.key # NoKey =>
        /\ \A n \in ledger : n.key # new.key
        /\ \A u \in Txns : \A n \in staged[u] : n.key # new.key
  BY <1>0, <1>1 DEF Post, HoldsKey, HasKey, Bookkeeping, KeysApart
<1>3. KeysApart'
  <2>1. KeyBookedOnce'
    BY <1>0 DEF Bookkeeping, KeysApart, KeyBookedOnce
  <2>2. ASSUME NEW u \in Txns, NEW v \in Txns, NEW m \in staged'[u], m.key # NoKey,
               NEW n \in staged'[v] \cup ledger', m.key = n.key
        PROVE  m = n
    <3>1. m \in staged[u] \/ (u = t /\ m = new)
      BY <1>0
    <3>2. n \in staged[v] \cup ledger \/ (v = t /\ n = new)
      BY <1>0
    <3> QED
      BY <1>2, <2>2, <3>1, <3>2 DEF Bookkeeping, KeysApart
  <2>3. ASSUME NEW u \in Txns, pc'[u] \in {"product", "unit", "lock", "post"}
        PROVE  ~HasKey(Current(u)'.key, staged'[u])
    BY <1>0, <2>3 DEF Bookkeeping, KeysApart, HasKey, Current
  <2> QED
    BY <2>1, <2>2, <2>3 DEF KeysApart, HasKey
<1>4. RowsAsked'
  <2>1. \A u \in Txns : \A m \in staged'[u] : m.txn = u
    BY <1>0, <1>1 DEF Bookkeeping, RowsAsked
  <2>2. \A m \in ledger' : pc'[m.txn] \in {"done", "unanswered"}
    BY <1>0 DEF Bookkeeping, RowsAsked, TypeOK, Row
  <2>3. PICK r \in Requests : kind[t] = r.kind /\ lines[t] = r.lines
    BY <1>0 DEF Bookkeeping, LinesAsked
  <2>4. at[t] \in DOMAIN r.lines
    BY <1>0, <2>3 DEF Bookkeeping, TypeOK, Running
  <2>5. /\ new.product = r.lines[at[t]].product
        /\ new.delta = Stored(Signed(r.kind, r.lines[at[t]].qty)
                              * Factor[<<r.lines[at[t]].product, r.lines[at[t]].unit>>])
        /\ new.key = r.lines[at[t]].key
    BY <2>3 DEF Movement, Current, Delta
  <2>6. \A m \in ledger' \cup UNION {staged'[u] : u \in Txns} :
          m \in ledger \cup UNION {staged[u] : u \in Txns} \/ m = new
    BY <1>0
  <2> QED
    BY <2>1, <2>2, <2>4, <2>5, <2>6 DEF Bookkeeping, RowsAsked
<1>5. ASSUME KeysNameLines PROVE Progress'
  <2>1. Covered(t, at[t], ledger \cup staged'[t])
    BY <1>0, MovementCovers DEF Bookkeeping
  <2>2. \A u \in Txns : staged[u] \subseteq staged'[u]
    BY <1>0
  <2> QED
    BY <1>0, <1>5, <2>1, <2>2, NextLineProgress DEF Running
<1> QED
  BY <1>3, <1>4, <1>5

-----------------------------------------------------------------------------
RowsInOrder == KeysApart /\ RowsAsked /\ (KeysNameLines => Progress)

\* Every step keeps the rows in order.
LEMMA RowsStep ==
  ASSUME TypeOK, LinesAsked, RowsInOrder, [Next]_vars
  PROVE  RowsInOrder'
<1> USE DEF RowsInOrder
<1>0. Bookkeeping
  BY DEF Bookkeeping
<1>1. CASE UNCHANGED <<control, rows>>
  BY <1>1 DEF control, rows, KeysApart, KeyBookedOnce, RowsAsked, Progress, Covered,
              HasKey, Current
<1>2. CASE UNCHANGED vars
  BY <1>1, <1>2 DEF vars
<1>3. CASE Catalogue
  BY <1>1, <1>3 DEF Catalogue, CreateProduct, AddProductUnit, UpdateStatus
<1>4. ASSUME NEW t \in Txns, NEW r \in Requests, Begin(t, r) PROVE RowsInOrder'
  BY <1>0, <1>4, BeginRows
<1>5. ASSUME NEW t \in Txns, Step(t) PROVE RowsInOrder'
  <2>1. CASE LookUp(t)
    <3>1. CASE HasKey(Current(t).key, ledger \cup staged[t])
      BY <1>0, <2>1, <3>1, ReplayRows
    <3>2. CASE ~HasKey(Current(t).key, ledger \cup staged[t])
      <4>1. SameLine(t)
        BY <2>1, <3>2 DEF LookUp, SameLine, rows
      <4> QED
        BY <1>0, <4>1, SameLineRows
    <3> QED
      BY <3>1, <3>2
  <2>2. CASE ReadProduct(t) \/ ReadUnit(t)
    <3>1. CASE Rollback(t, "failed")
      BY <1>0, <2>2, <3>1, RollbackRows DEF ReadProduct, CheckProduct, ReadUnit, Running
    <3>2. CASE ~Rollback(t, "failed")
      <4>1. SameLine(t)
        BY <2>2, <3>2 DEF ReadProduct, CheckProduct, ReadUnit, SameLine, rows
      <4> QED
        BY <1>0, <4>1, SameLineRows
    <3> QED
      BY <3>1, <3>2
  <2>3. CASE Lock(t)
    <3>1. SameLine(t)
      BY <2>3 DEF Lock, SameLine, rows
    <3> QED
      BY <1>0, <3>1, SameLineRows
  <2>4. CASE Refuse(t) \/ DuplicateKey(t) \/ DeadlockVictim(t)
    BY <1>0, <2>4, RollbackRows DEF Refuse, DuplicateKey, DeadlockVictim, Running
  <2>5. CASE Post(t)
    BY <1>0, <2>5, PostRows
  <2>6. CASE Commit(t)
    BY <1>0, <2>6, PublishRows DEF Commit
  <2> QED
    BY <1>5, <2>1, <2>2, <2>3, <2>4, <2>5, <2>6 DEF Step
<1>6. ASSUME NEW t \in Txns, Crash(t) \/ CrashAfterCommit(t) PROVE RowsInOrder'
  BY <1>0, <1>6, RollbackRows, PublishRows DEF Crash, CrashAfterCommit
<1> QED
  BY <1>2, <1>3, <1>4, <1>5, <1>6 DEF Next

\* The inductive invariant of the rows: what is staged or committed was asked for, keys are
\* held by one transaction or by the ledger, and every line that was passed is covered.
THEOREM RowsAlwaysInOrder == Spec => []RowsInOrder
<1>1. Init => RowsInOrder
  BY InitBookkeeping DEF RowsInOrder
<1>2. LevelInv /\ RowsInOrder /\ [Next]_vars => RowsInOrder'
  BY RowsStep DEF LevelInv
<1> QED
  BY <1>1, <1>2, LevelsInductive, PTL DEF Spec

\* A retried or doubly sent request moves stock once: the unlocked look-up of its
\* key may miss, the unique index does not.
THEOREM KeysBookedOnce == Spec => []KeyBookedOnce
<1>1. RowsInOrder => KeyBookedOnce
  BY DEF RowsInOrder, KeysApart
<1> QED
  BY <1>1, RowsAlwaysInOrder, PTL

\* A transaction that is done stays as it is, and the ledger only grows.
LEMMA DoneIsFinal ==
  ASSUME TypeOK, [Next]_vars, NEW t \in Txns, pc'[t] = "done"
  PROVE  /\ ledger \subseteq ledger' /\ kind'[t] = kind[t] /\ lines'[t] = lines[t]
         /\ pc[t] = "done" \/ Commit(t)
<1>1. CASE UNCHANGED <<control, rows>>
  BY <1>1 DEF control, rows
<1>2. CASE UNCHANGED vars
  BY <1>1, <1>2 DEF vars
<1>3. CASE Catalogue
  BY <1>1, <1>3 DEF Catalogue, CreateProduct, AddProductUnit, UpdateStatus
<1>4. ASSUME NEW u \in Txns, NEW r \in Requests, Begin(u, r)
      PROVE  pc[t] = "done" /\ ledger' = ledger /\ kind'[t] = kind[t] /\ lines'[t] = lines[t]
  BY <1>4 DEF Begin, TypeOK, rows
<1>5. ASSUME NEW u \in Txns, NEW fate \in {"failed", "unanswered"}, Rollback(u, fate)
      PROVE  pc[t] = "done" /\ ledger' = ledger /\ kind'[t] = kind[t] /\ lines'[t] = lines[t]
  BY <1>5 DEF Rollback, TypeOK
<1>6. ASSUME NEW u \in Txns, NEW fate \in {"done", "unanswered"}, Publish(u, fate)
      PROVE  /\ ledger \subseteq ledger' /\ kind'[t] = kind[t] /\ lines'[t] = lines[t]
             /\ pc[t] = "done" \/ Publish(t, "done")
  BY <1>6 DEF Publish, TypeOK
<1>7. ASSUME NEW u \in Txns, LookUp(u) \/ Lock(u) \/ Post(u)
      PROVE  pc[t] = "done" /\ ledger' = ledger /\ kind'[t] = kind[t] /\ lines'[t] = lines[t]
  BY <1>7 DEF LookUp, Lock, Post, NextLine, TypeOK, rows
<1>8. ASSUME NEW u \in Txns, ReadProduct(u) \/ ReadUnit(u)
      PROVE  pc[t] = "done" /\ ledger' = ledger /\ kind'[t] = kind[t] /\ lines'[t] = lines[t]
  <2>1. CASE Rollback(u, "failed")
    BY <1>5, <2>1
  <2>2. CASE ~Rollback(u, "failed")
    BY <1>8, <2>2 DEF ReadProduct, CheckProduct, ReadUnit, TypeOK, rows
  <2> QED
    BY <2>1, <2>2
<1>9. ASSUME NEW u \in Txns, Step(u) \/ Crash(u) \/ CrashAfterCommit(u)
      PROVE  /\ ledger \subseteq ledger' /\ kind'[t] = kind[t] /\ lines'[t] = lines[t]
             /\ pc[t] = "done" \/ Commit(t)
  BY <1>5, <1>6, <1>7, <1>8, <1>9
  DEF Step, Refuse, DuplicateKey, DeadlockVictim, Commit, Crash, CrashAfterCommit
<1> QED
  BY <1>2, <1>3, <1>4, <1>9 DEF Next, Catalogue

\* A sale's movements, and any request's, are in the ledger when it is answered and
\* absent when it fails: no schedule and no crash splits them.
THEOREM RequestsAreAtomic == Spec => []AllOrNothing
<1>1. Init => AllOrNothing
  BY DEF Init, AllOrNothing
<1>2. LevelInv /\ RowsInOrder /\ RowsInOrder' /\ TypeOK' /\ AllOrNothing /\ [Next]_vars
        => AllOrNothing'
  <2> SUFFICES ASSUME LevelInv, RowsInOrder, RowsInOrder', TypeOK', AllOrNothing, [Next]_vars,
                      KeysNameLines, NEW t \in Txns
               PROVE  /\ pc'[t] = "done" =>
                           \A i \in DOMAIN lines'[t] : Covered(t, i, ledger)'
                      /\ pc'[t] \in Running \cup {"failed"} => \A m \in ledger' : m.txn # t
    BY DEF AllOrNothing
  <2>1. ASSUME pc'[t] = "done", NEW i \in DOMAIN lines'[t] PROVE Covered(t, i, ledger)'
    <3>1. /\ ledger \subseteq ledger' /\ kind'[t] = kind[t] /\ lines'[t] = lines[t]
          /\ pc[t] = "done" \/ Commit(t)
      BY <2>1, DoneIsFinal DEF LevelInv
    <3>2. Covered(t, i, ledger)' <=> Covered(t, i, ledger')
      BY <3>1 DEF Covered
    <3>3. CASE pc[t] = "done"
      <4>1. Covered(t, i, ledger)
        BY <2>1, <3>1, <3>3 DEF AllOrNothing
      <4> QED
        BY <3>1, <3>2, <4>1, CoveredGrows
    <3>4. CASE Commit(t)
      <4>1. ledger' = ledger \cup staged[t] /\ pc[t] = "commit"
        BY <3>4 DEF Commit, Publish
      <4>2. at[t] > Len(lines[t]) /\ lines[t] \in Seq(Line) /\ at[t] \in Nat
        BY <4>1 DEF RowsInOrder, Progress, LevelInv, TypeOK
      <4>3. i < at[t]
        BY <2>1, <3>1, <4>2
      <4>4. Covered(t, i, ledger \cup staged[t])
        BY <2>1, <3>1, <4>1, <4>3 DEF RowsInOrder, Progress, Running
      <4> QED
        BY <3>2, <4>1, <4>4
    <3> QED
      BY <3>1, <3>3, <3>4
  <2>2. ASSUME pc'[t] \in Running \cup {"failed"}, NEW m \in ledger' PROVE m.txn # t
    BY <2>2 DEF RowsInOrder, RowsAsked, Running
  <2> QED
    BY <2>1, <2>2
<1> QED
  BY <1>1, <1>2, LevelsInductive, RowsAlwaysInOrder, TypeCorrect, PTL DEF Spec

-----------------------------------------------------------------------------
(* Waiting *)

\* Who has staged a movement holds the row of its product, and who holds a row before
\* it came to the lock of its line took it for an earlier line.
HeldRows ==
  /\ \A t \in Txns : \A m \in staged[t] : lock[m.product] = t
  /\ \A t \in Txns, p \in Products :
       lock[p] = t /\ pc[t] \in {"lookup", "product", "unit", "lock"} => at[t] > 1

LEMMA EndHeldRows ==
  ASSUME TypeOK, HeldRows, NEW t \in Txns, NEW fate \in Ended,
         Rollback(t, fate) \/ Publish(t, fate)
  PROVE  HeldRows'
<1>1. /\ staged' = [staged EXCEPT ![t] = {}] /\ pc' = [pc EXCEPT ![t] = fate] /\ at' = at
      /\ lock' = [p \in Products |-> IF lock[p] = t THEN Free ELSE lock[p]]
  BY DEF Rollback, Publish
<1>2. ASSUME NEW u \in Txns, NEW m \in staged'[u] PROVE lock'[m.product] = u
  <2>1. u # t /\ m \in staged[u]
    BY <1>1, <1>2 DEF TypeOK
  <2>2. m.product \in Products /\ lock[m.product] = u
    BY <2>1 DEF TypeOK, Row, HeldRows
  <2> QED
    BY <1>1, <2>1, <2>2
<1>3. ASSUME NEW u \in Txns, NEW p \in Products, lock'[p] = u,
             pc'[u] \in {"lookup", "product", "unit", "lock"}
      PROVE  at'[u] > 1
  BY <1>1, <1>3, ConstantsAssumption DEF TypeOK, HeldRows, Ended
<1> QED
  BY <1>2, <1>3 DEF HeldRows

LEMMA HeldRowsStep ==
  ASSUME LevelInv, HeldRows, [Next]_vars
  PROVE  HeldRows'
<1>0. TypeOK /\ Isolation
  BY DEF LevelInv
<1>1. CASE UNCHANGED <<pc, at, staged, lock>>
  BY <1>1 DEF HeldRows
<1>2. ASSUME NEW t \in Txns, NEW fate \in Ended, Rollback(t, fate) \/ Publish(t, fate)
      PROVE  HeldRows'
  BY <1>0, <1>2, EndHeldRows
<1>3. ASSUME NEW t \in Txns, NEW r \in Requests, Begin(t, r) PROVE HeldRows'
  <2>1. \A p \in Products : lock[p] # t
    BY <1>0, <1>3, ConstantsAssumption DEF Isolation, Begin, Running
  <2> QED
    BY <1>0, <1>3, <2>1 DEF Begin, rows, HeldRows, TypeOK
<1>4. ASSUME NEW t \in Txns, UNCHANGED <<staged, lock>>,
             \/ NextLine(t)
             \/ /\ at' = at /\ pc[t] \in {"lookup", "product", "unit"}
                /\ \E next \in {"product", "unit", "lock"} : pc' = [pc EXCEPT ![t] = next]
      PROVE  HeldRows'
  <2>1. /\ \A u \in Txns \ {t} : pc'[u] = pc[u] /\ at'[u] = at[u]
        /\ at'[t] > 1 \/ (at'[t] = at[t] /\ pc[t] \in {"lookup", "product", "unit"})
    BY <1>0, <1>4 DEF NextLine, TypeOK
  <2> QED
    BY <1>4, <2>1 DEF HeldRows
<1>5. ASSUME NEW t \in Txns, Lock(t) PROVE HeldRows'
  <2>1. /\ Current(t).product \in Products /\ lock[Current(t).product] \in {Free, t}
        /\ lock' = [lock EXCEPT ![Current(t).product] = t] /\ pc' = [pc EXCEPT ![t] = "post"]
        /\ UNCHANGED <<at, staged>>
    BY <1>0, <1>5, CurrentType DEF Lock, Running, rows
  <2>2. ASSUME NEW u \in Txns, NEW m \in staged[u] PROVE lock'[m.product] = u
    BY <1>0, <2>1, <2>2, ConstantsAssumption DEF HeldRows, TypeOK, Row
  <2> QED
    BY <1>0, <2>1, <2>2 DEF HeldRows, TypeOK
<1>6. ASSUME NEW t \in Txns, Post(t) PROVE HeldRows'
  <2>1. /\ lock[Movement(t).product] = t /\ NextLine(t) /\ lock' = lock
        /\ staged' = [staged EXCEPT ![t] = @ \cup {Movement(t)}]
    BY <1>0, <1>6 DEF Post, Isolation, Movement
  <2> QED
    BY <1>0, <2>1 DEF NextLine, HeldRows, TypeOK
<1>7. ASSUME NEW t \in Txns, Step(t) PROVE HeldRows'
  <2>1. CASE LookUp(t) \/ ReadProduct(t) \/ ReadUnit(t)
    BY <1>2, <1>4, <2>1 DEF LookUp, ReadProduct, CheckProduct, ReadUnit, rows, Ended
  <2>2. CASE Refuse(t) \/ DuplicateKey(t) \/ DeadlockVictim(t) \/ Commit(t)
    BY <1>2, <2>2 DEF Refuse, DuplicateKey, DeadlockVictim, Commit, Ended
  <2> QED
    BY <1>5, <1>6, <1>7, <2>1, <2>2 DEF Step
<1>8. ASSUME NEW t \in Txns, Crash(t) \/ CrashAfterCommit(t) PROVE HeldRows'
  BY <1>2, <1>8 DEF Crash, CrashAfterCommit, Ended
<1>9. CASE Catalogue \/ UNCHANGED vars
  BY <1>1, <1>9
  DEF Catalogue, CreateProduct, AddProductUnit, UpdateStatus, vars, control, rows
<1> QED
  BY <1>3, <1>7, <1>8, <1>9 DEF Next

\* A transaction at "post" has the row of its product, which whoever staged its key has
\* too: as long as a key names one line, it never waits for a key.
LEMMA WaitsAreForRows ==
  ASSUME LevelInv, RowsInOrder, HeldRows, KeysNameLines, NEW t \in Txns, NEW u \in Txns,
         WaitsFor(t, u)
  PROVE  pc[t] = "lock" /\ lock[Current(t).product] = u /\ u # t
<1> SUFFICES ASSUME pc[t] = "post", HoldsKey(u, t) PROVE FALSE
  BY DEF WaitsFor
<1>1. PICK m \in staged[u] : m.key = Current(t).key /\ m.key # NoKey
  BY DEF HoldsKey, HasKey
<1>2. PICK r \in Requests : \E i \in DOMAIN r.lines :
        m.product = r.lines[i].product /\ m.key = r.lines[i].key
  BY DEF RowsInOrder, RowsAsked
<1>3. PICK i \in DOMAIN r.lines : m.product = r.lines[i].product /\ m.key = r.lines[i].key
  BY <1>2
<1>4. PICK s \in Requests : lines[t] = s.lines
  BY DEF LevelInv, LinesAsked
<1>5. at[t] \in DOMAIN s.lines /\ Current(t) = s.lines[at[t]]
  BY <1>4 DEF LevelInv, TypeOK, Running, Current
<1>6. r.lines[i] = s.lines[at[t]]
  <2>1. r.lines[i].key = s.lines[at[t]].key /\ r.lines[i].key # NoKey
    BY <1>1, <1>3, <1>5
  <2> QED
    BY <1>5, <2>1 DEF KeysNameLines
<1>7. lock[m.product] = u /\ lock[Current(t).product] = t /\ u # t
  BY <1>1 DEF HeldRows, LevelInv, Isolation, HoldsKey
<1> QED
  BY <1>3, <1>5, <1>6, <1>7

LEMMA RowsAlwaysHeld == Spec => []HeldRows
<1>1. Init => HeldRows
  BY DEF Init, HeldRows
<1>2. LevelInv /\ HeldRows /\ [Next]_vars => HeldRows'
  BY HeldRowsStep
<1> QED
  BY <1>1, <1>2, LevelsInductive, PTL DEF Spec

\* Receipts, usages and adjustments never wait in a circle: whoever does holds the row
\* of a line it has passed (lock_stock_level).
THEOREM OnlySalesDeadlock == Spec => []CircularWaitNeedsTwoSales
<1>1. LevelInv /\ RowsInOrder /\ HeldRows => CircularWaitNeedsTwoSales
  <2> SUFFICES ASSUME LevelInv, RowsInOrder, HeldRows, KeysNameLines, NEW t \in Txns, InCycle(t)
               PROVE  \E u, v \in Txns :
                        /\ u # v
                        /\ \A w \in {u, v} : pc[w] \in Running /\ Len(lines[w]) > 1
    BY DEF CircularWaitNeedsTwoSales
  <2>1. PICK S \in SUBSET Txns :
          /\ t \in S
          /\ \A u \in S : \E v \in S : WaitsFor(u, v)
          /\ \A v \in S : \E u \in S : WaitsFor(u, v)
    BY DEF InCycle
  <2>2. ASSUME NEW w \in S PROVE pc[w] \in Running /\ Len(lines[w]) > 1
    <3>1. pc[w] = "lock"
      BY <2>1, WaitsAreForRows
    <3>2. PICK u \in S : pc[u] = "lock" /\ lock[Current(u).product] = w
      BY <2>1, WaitsAreForRows
    <3>3. Current(u).product \in Products
      BY <3>2, CurrentType DEF LevelInv, Running
    <3>4. at[w] > 1
      BY <3>1, <3>2, <3>3 DEF HeldRows
    <3>5. at[w] \in DOMAIN lines[w] /\ lines[w] \in Seq(Line)
      BY <3>1 DEF LevelInv, TypeOK, Running
    <3> QED
      BY <3>1, <3>4, <3>5 DEF Running
  <2>3. PICK v \in S : v # t
    BY <2>1, WaitsAreForRows
  <2> QED
    BY <2>1, <2>2, <2>3
<1> QED
  BY <1>1, LevelsInductive, RowsAlwaysInOrder, RowsAlwaysHeld, PTL

-----------------------------------------------------------------------------
(* The refinement of Ledger *)

Of(p, S) == {m \in S : m.product = p}
Deltas == [m \in Row |-> m.delta]

\* The sum of the abstract specification is the sum of a function.
LEMMA SumIsTotal ==
  ASSUME NEW S \in SUBSET Row, IsFiniteSet(S), NEW p
  PROVE  /\ Abstract!Sum(p, S) = Total(Deltas, Of(p, S))
         /\ IsFiniteSet(Of(p, S)) /\ Numbers(Deltas, Of(p, S))
<1> DEFINE R == Of(p, S)
           D(f) == f = [s \in SUBSET R |-> IF s = {} THEN 0 ELSE Pick(s).delta + f[s \ {Pick(s)}]]
           g == CHOOSE h : D(h)
<1>1. Abstract!Sum(p, S) = g[R]
  BY DEF Abstract!Sum, Abstract!MapThenSumSet, Abstract!MapThenFoldSet, Pick, Of
<1>2. IsFiniteSet(R) /\ R \subseteq Row
  BY FS_Subset DEF Of
<1>3. Numbers(Deltas, R)
  BY <1>2 DEF Numbers, Deltas, Row
<1>4. \A s \in SUBSET R : s # {} => Pick(s).delta = Deltas[Pick(s)]
  BY <1>2, PickIn DEF Deltas
<1>5. \A f : D(f) <=> Adds(Deltas, f, R)
  <2> TAKE f
  <2>1. [s \in SUBSET R |-> IF s = {} THEN 0 ELSE Pick(s).delta + f[s \ {Pick(s)}]]
          = [s \in SUBSET R |-> IF s = {} THEN 0 ELSE Deltas[Pick(s)] + f[s \ {Pick(s)}]]
    BY <1>4
  <2> QED
    BY <2>1 DEF Adds
<1>6. PICK f : Adds(Deltas, f, R)
  BY <1>2, AddsExists
<1>7. D(g)
  BY <1>5, <1>6
<1>8. Adds(Deltas, g, R)
  BY <1>5, <1>7
<1> HIDE DEF R, g
<1>9. Total(Deltas, R) = g[R]
  BY <1>2, <1>8, TotalAdds
<1> QED
  BY <1>1, <1>2, <1>3, <1>9 DEF R

\* What the rows of a product add up to: nothing without rows; one row more or, for a
\* set of rows that are all new, their sum more.
LEMMA SumOfRows ==
  ASSUME NEW S \in SUBSET Row, IsFiniteSet(S), NEW p
  PROVE  /\ Abstract!Sum(p, S) \in Int
         /\ (\A m \in S : m.product # p) => Abstract!Sum(p, S) = 0
         /\ \A m \in Row \ S :
              Abstract!Sum(p, S \cup {m})
                = Abstract!Sum(p, S) + (IF m.product = p THEN m.delta ELSE 0)
         /\ \A T \in SUBSET Row : IsFiniteSet(T) /\ S \cap T = {} =>
              Abstract!Sum(p, S \cup T) = Abstract!Sum(p, S) + Abstract!Sum(p, T)
<1>1. /\ Abstract!Sum(p, S) = Total(Deltas, Of(p, S))
      /\ IsFiniteSet(Of(p, S)) /\ Numbers(Deltas, Of(p, S))
  BY SumIsTotal
<1>2. Abstract!Sum(p, S) \in Int /\ Total(Deltas, {}) = 0
  BY <1>1, TotalStep
<1>3. ASSUME \A m \in S : m.product # p PROVE Abstract!Sum(p, S) = 0
  <2>1. Of(p, S) = {}
    BY <1>3 DEF Of
  <2> QED
    BY <1>1, <1>2, <2>1
<1>4. ASSUME NEW m \in Row \ S
      PROVE  Abstract!Sum(p, S \cup {m})
               = Abstract!Sum(p, S) + (IF m.product = p THEN m.delta ELSE 0)
  <2> DEFINE T == S \cup {m}
  <2>1. T \in SUBSET Row /\ IsFiniteSet(T)
    BY FS_AddElement
  <2>2. /\ Abstract!Sum(p, T) = Total(Deltas, Of(p, T))
        /\ IsFiniteSet(Of(p, T)) /\ Numbers(Deltas, Of(p, T))
    BY <2>1, SumIsTotal
  <2>3. CASE m.product = p
    <3>1. m \in Of(p, T) /\ Of(p, T) \ {m} = Of(p, S)
      BY <2>3 DEF Of
    <3>2. Total(Deltas, Of(p, T)) = Deltas[m] + Total(Deltas, Of(p, T) \ {m})
      <4> HIDE DEF T
      <4> QED
        BY <2>2, <3>1, TotalStep
    <3>3. Deltas[m] = m.delta /\ m.delta \in Int
      BY DEF Deltas, Row
    <3>4. Abstract!Sum(p, T) = m.delta + Abstract!Sum(p, S)
      <4> HIDE DEF T
      <4> QED
        BY <1>1, <2>2, <3>1, <3>2, <3>3
    <3> QED
      BY <1>2, <2>3, <3>3, <3>4
  <2>4. CASE m.product # p
    <3>1. Of(p, T) = Of(p, S)
      BY <2>4 DEF Of
    <3> QED
      BY <1>1, <1>2, <2>2, <2>4, <3>1
  <2> QED
    BY <2>3, <2>4
<1>5. ASSUME NEW T \in SUBSET Row, IsFiniteSet(T), S \cap T = {}
      PROVE  Abstract!Sum(p, S \cup T) = Abstract!Sum(p, S) + Abstract!Sum(p, T)
  <2>1. /\ Abstract!Sum(p, T) = Total(Deltas, Of(p, T))
        /\ IsFiniteSet(Of(p, T)) /\ Numbers(Deltas, Of(p, T))
    BY <1>5, SumIsTotal
  <2>2. S \cup T \in SUBSET Row /\ IsFiniteSet(S \cup T)
    BY <1>5, FS_Union
  <2>3. Abstract!Sum(p, S \cup T) = Total(Deltas, Of(p, S \cup T))
    BY <2>2, SumIsTotal
  <2>4. Of(p, S \cup T) = Of(p, S) \cup Of(p, T) /\ Of(p, S) \cap Of(p, T) = {}
    BY <1>5 DEF Of
  <2>5. Total(Deltas, Of(p, S) \cup Of(p, T)) = Total(Deltas, Of(p, S)) + Total(Deltas, Of(p, T))
    BY <1>1, <2>1, <2>4, TotalUnion
  <2> QED
    BY <1>1, <2>1, <2>3, <2>4, <2>5
<1> QED
  BY <1>2, <1>3, <1>4, <1>5

\* The history variables are what they stand for: the sum of the committed rows of a
\* product, and as the holder of its level sees it, of those and of the holder's own.
SumInv ==
  /\ IsFiniteSet(ledger) /\ \A t \in Txns : IsFiniteSet(staged[t])
  /\ \A t \in Txns : \A m \in staged[t] : m.line < at[t]
  /\ \A p \in Products : booked[p] = Abstract!Sum(p, ledger)
  /\ \A t \in Txns, p \in Products :
       lock[p] = t => bookedDraft[p] = booked[p] + Abstract!Sum(p, staged[t])

\* What the steps that keep it rely on.
RowsReady == TypeOK /\ Isolation /\ RowsAsked /\ HeldRows

LEMMA RollbackSums ==
  ASSUME RowsReady, SumInv, NEW t \in Txns, NEW fate \in Ended, Rollback(t, fate)
  PROVE  SumInv'
<1>1. /\ staged' = [staged EXCEPT ![t] = {}] /\ UNCHANGED <<at, ledger, booked>>
      /\ lock' = [p \in Products |-> IF lock[p] = t THEN Free ELSE lock[p]]
      /\ \A p \in Products : lock[p] # t => bookedDraft'[p] = bookedDraft[p]
  BY DEF Rollback
<1>2. IsFiniteSet({})
  BY FS_EmptySet
<1>3. \A p \in Products : Abstract!Sum(p, ledger)' = Abstract!Sum(p, ledger)
  BY <1>1
<1>4. ASSUME NEW u \in Txns, NEW p \in Products, lock'[p] = u
      PROVE  bookedDraft'[p] = booked'[p] + Abstract!Sum(p, staged[u])'
  <2>1. u # t /\ lock[p] = u /\ staged'[u] = staged[u]
    BY <1>1, <1>4, ConstantsAssumption DEF RowsReady, TypeOK
  <2>2. Abstract!Sum(p, staged[u])' = Abstract!Sum(p, staged[u])
    BY <2>1
  <2> QED
    BY <1>1, <2>1, <2>2 DEF SumInv
<1> QED
  BY <1>1, <1>2, <1>3, <1>4 DEF SumInv, RowsReady, TypeOK

LEMMA PublishSums ==
  ASSUME RowsReady, SumInv, NEW t \in Txns, NEW fate \in Ended, Publish(t, fate)
  PROVE  /\ SumInv'
         /\ ledger' \ ledger = staged[t]
         /\ \A p \in Products : lock[p] # t => Abstract!Sum(p, staged[t]) = 0
<1>1. /\ staged' = [staged EXCEPT ![t] = {}] /\ UNCHANGED <<at, bookedDraft>>
      /\ ledger' = ledger \cup staged[t] /\ pc[t] = "commit"
      /\ lock' = [p \in Products |-> IF lock[p] = t THEN Free ELSE lock[p]]
      /\ booked' = [p \in Products |-> IF lock[p] = t THEN bookedDraft[p] ELSE booked[p]]
  BY DEF Publish
<1>2. ledger \in SUBSET Row /\ IsFiniteSet(ledger) /\ staged[t] \in SUBSET Row /\ IsFiniteSet(staged[t])
  BY DEF RowsReady, TypeOK, SumInv
<1>3. ledger \cap staged[t] = {}
  BY <1>1 DEF RowsReady, RowsAsked
<1>4. ASSUME NEW p \in Products, lock[p] # t PROVE Abstract!Sum(p, staged[t]) = 0
  <2>1. \A m \in staged[t] : m.product # p
    BY <1>4 DEF RowsReady, HeldRows
  <2> QED
    BY <1>2, <2>1, SumOfRows
<1>5. ASSUME NEW p \in Products PROVE booked'[p] = Abstract!Sum(p, ledger)'
  <2>1. Abstract!Sum(p, ledger \cup staged[t])
          = Abstract!Sum(p, ledger) + Abstract!Sum(p, staged[t])
    BY <1>2, <1>3, SumOfRows
  <2>2. Abstract!Sum(p, ledger)' = Abstract!Sum(p, ledger \cup staged[t])
    BY <1>1
  <2>3. booked[p] = Abstract!Sum(p, ledger) /\ booked[p] \in Int
    BY DEF SumInv, RowsReady, TypeOK
  <2> QED
    BY <1>1, <1>4, <2>1, <2>2, <2>3 DEF SumInv
<1>6. ASSUME NEW u \in Txns, NEW p \in Products, lock'[p] = u
      PROVE  bookedDraft'[p] = booked'[p] + Abstract!Sum(p, staged[u])'
  <2>1. u # t /\ lock[p] = u /\ staged'[u] = staged[u]
    BY <1>1, <1>6, ConstantsAssumption DEF RowsReady, TypeOK
  <2>2. Abstract!Sum(p, staged[u])' = Abstract!Sum(p, staged[u])
    BY <2>1
  <2> QED
    BY <1>1, <2>1, <2>2 DEF SumInv
<1>7. IsFiniteSet({}) /\ IsFiniteSet(ledger')
  BY <1>1, <1>2, FS_EmptySet, FS_Union
<1> QED
  BY <1>1, <1>3, <1>4, <1>5, <1>6, <1>7 DEF SumInv, RowsReady, TypeOK

LEMMA LockSums ==
  ASSUME RowsReady, SumInv, NEW t \in Txns, Lock(t)
  PROVE  SumInv'
<1> DEFINE q == Current(t).product
<1>1. /\ q \in Products /\ lock[q] \in {Free, t} /\ lock' = [lock EXCEPT ![q] = t]
      /\ UNCHANGED <<at, ledger, staged, booked, bookedDraft>>
  BY CurrentType DEF RowsReady, Lock, Running, rows, stock
<1> HIDE DEF q
<1>2. ASSUME NEW u \in Txns, NEW p \in Products, lock'[p] = u
      PROVE  bookedDraft[p] = booked[p] + Abstract!Sum(p, staged[u])
  <2>1. CASE lock[p] = u
    BY <2>1 DEF SumInv
  <2>2. CASE lock[p] # u
    <3>1. p = q /\ u = t /\ lock[p] = Free
      BY <1>1, <1>2, <2>2 DEF RowsReady, TypeOK
    <3>2. \A m \in staged[u] : m.product # p
      BY <3>1, ConstantsAssumption DEF RowsReady, HeldRows
    <3>3. Abstract!Sum(p, staged[u]) = 0
      <4>1. staged[u] \in SUBSET Row /\ IsFiniteSet(staged[u])
        BY DEF RowsReady, TypeOK, SumInv
      <4> QED
        BY <3>2, <4>1, SumOfRows
    <3>4. bookedDraft[p] = booked[p] /\ booked[p] \in Int
      BY <3>1 DEF RowsReady, Isolation, TypeOK
    <3> QED
      BY <3>3, <3>4
  <2> QED
    BY <2>1, <2>2
<1> QED
  BY <1>1, <1>2 DEF SumInv

LEMMA PostSums ==
  ASSUME RowsReady, SumInv, NEW t \in Txns, Post(t)
  PROVE  SumInv'
<1> DEFINE new == Movement(t)
<1>1. /\ pc[t] = "post" /\ staged' = [staged EXCEPT ![t] = @ \cup {new}]
      /\ bookedDraft' = [bookedDraft EXCEPT ![new.product] = @ + new.delta]
      /\ at' = [at EXCEPT ![t] = @ + 1] /\ UNCHANGED <<ledger, lock, booked>>
      /\ new.line = at[t]
  BY DEF Post, NextLine, Movement
<1>2. new \in Row /\ new.product \in Products /\ new.delta \in Int
  BY <1>1, MovementType DEF RowsReady, Running, Row
<1>3. lock[new.product] = t
  BY <1>1 DEF RowsReady, Isolation, Movement
<1>4. new \notin staged[t]
  BY <1>1 DEF SumInv, RowsReady, TypeOK
<1> HIDE DEF new
<1>5. \A u \in Txns : IsFiniteSet(staged'[u])
  BY <1>1, FS_AddElement DEF SumInv, RowsReady, TypeOK
<1>6. \A u \in Txns : \A m \in staged'[u] : m.line < at'[u]
  BY <1>1 DEF SumInv, RowsReady, TypeOK, Row
<1>7. ASSUME NEW u \in Txns, NEW p \in Products, lock'[p] = u
      PROVE  bookedDraft'[p] = booked'[p] + Abstract!Sum(p, staged[u])'
  <2>1. Abstract!Sum(p, staged[u])' = Abstract!Sum(p, staged'[u])
    OBVIOUS
  <2>2. bookedDraft[p] = booked[p] + Abstract!Sum(p, staged[u]) /\ booked[p] \in Int
    BY <1>1, <1>7 DEF SumInv, RowsReady, TypeOK
  <2>3. CASE u # t
    <3>1. staged'[u] = staged[u] /\ p # new.product
      BY <1>1, <1>3, <1>7, <2>3 DEF RowsReady, TypeOK
    <3> QED
      BY <1>1, <2>1, <2>2, <3>1 DEF RowsReady, TypeOK
  <2>4. CASE u = t
    <3>1. staged[t] \in SUBSET Row /\ IsFiniteSet(staged[t])
      BY DEF RowsReady, TypeOK, SumInv
    <3>2. /\ Abstract!Sum(p, staged[t] \cup {new})
                = Abstract!Sum(p, staged[t]) + (IF new.product = p THEN new.delta ELSE 0)
          /\ Abstract!Sum(p, staged[t]) \in Int
      BY <1>2, <1>4, <3>1, SumOfRows
    <3>3. staged'[t] = staged[t] \cup {new}
      BY <1>1 DEF RowsReady, TypeOK
    <3>4. bookedDraft'[p] = bookedDraft[p] + (IF new.product = p THEN new.delta ELSE 0)
      BY <1>1, <1>2, SMTT(30) DEF RowsReady, TypeOK
    <3>5. Abstract!Sum(p, staged[u])'
            = Abstract!Sum(p, staged[t]) + (IF new.product = p THEN new.delta ELSE 0)
      BY <2>1, <2>4, <3>2, <3>3
    <3> QED
      BY <1>1, <1>2, <2>2, <2>4, <3>2, <3>4, <3>5
  <2> QED
    BY <2>3, <2>4
<1> QED
  BY <1>1, <1>5, <1>6, <1>7 DEF SumInv

LEMMA SumsStep ==
  ASSUME RowsReady, SumInv, [Next]_vars
  PROVE  SumInv'
<1>1. ASSUME NEW t \in Txns, UNCHANGED <<rows, lock, stock>>, NextLine(t) \/ at' = at
      PROVE  SumInv'
  <2>1. \A u \in Txns : at[u] \in Nat /\ at'[u] \in Nat /\ at[u] <= at'[u]
    <3>1. at' = at \/ at' = [at EXCEPT ![t] = at[t] + 1]
      BY <1>1 DEF NextLine
    <3> QED
      BY <3>1 DEF RowsReady, TypeOK
  <2>2. \A u \in Txns : \A m \in staged[u] : m.line \in Nat /\ m.line < at[u]
    BY DEF SumInv, RowsReady, TypeOK, Row
  <2>3. \A u \in Txns : \A m \in staged[u] : m.line < at'[u]
    BY <2>1, <2>2
  <2> QED
    BY <1>1, <2>3 DEF rows, stock, SumInv
<1>2. ASSUME NEW t \in Txns, NEW r \in Requests, Begin(t, r) PROVE SumInv'
  <2>1. ASSUME NEW m \in staged[t] PROVE FALSE
    <3>1. m.product \in Products /\ lock[m.product] = t /\ t # Free
      BY <1>2, ConstantsAssumption DEF RowsReady, HeldRows, TypeOK, Row
    <3>2. pc[t] \in Running
      BY <3>1 DEF RowsReady, Isolation
    <3> QED
      BY <1>2, <3>2 DEF Begin, Running
  <2>2. \A u \in Txns : \A m \in staged[u] : m.line < at'[u]
    BY <1>2, <2>1 DEF Begin, SumInv, RowsReady, TypeOK
  <2> QED
    BY <1>2, <2>2 DEF Begin, rows, stock, SumInv
<1>3. ASSUME NEW t \in Txns, Step(t) PROVE SumInv'
  <2>1. CASE LookUp(t) \/ ReadProduct(t) \/ ReadUnit(t)
    BY <1>1, <2>1, RollbackSums
    DEF LookUp, ReadProduct, CheckProduct, ReadUnit, Ended, rows, stock
  <2>2. CASE Refuse(t) \/ DuplicateKey(t) \/ DeadlockVictim(t) \/ Commit(t)
    BY <2>2, RollbackSums, PublishSums DEF Refuse, DuplicateKey, DeadlockVictim, Commit, Ended
  <2> QED
    BY <1>3, <2>1, <2>2, LockSums, PostSums DEF Step
<1>4. ASSUME NEW t \in Txns, Crash(t) \/ CrashAfterCommit(t) PROVE SumInv'
  BY <1>4, RollbackSums, PublishSums DEF Crash, CrashAfterCommit, Ended
<1>5. CASE Catalogue \/ UNCHANGED vars
  <2>1. UNCHANGED <<at, rows, lock, stock>>
    BY <1>5 DEF Catalogue, CreateProduct, AddProductUnit, UpdateStatus, vars, control
  <2> QED
    BY <2>1 DEF rows, stock, SumInv
<1> QED
  BY <1>2, <1>3, <1>4, <1>5 DEF Next

\* booked is no more than a name for the sum of the ledger, whatever is rounded: what
\* BooksBalance and NeverUnderstated say of it they say of the rows of stock_movements.
THEOREM BookedIsTheSum == Spec => []SumInv
<1>1. Init => SumInv
  <2> SUFFICES ASSUME Init PROVE SumInv
    OBVIOUS
  <2>1. IsFiniteSet({}) /\ {} \in SUBSET Row
    BY FS_EmptySet
  <2>2. \A p \in Products : Abstract!Sum(p, {}) = 0
    BY <2>1, SumOfRows
  <2> QED
    BY <2>1, <2>2, ConstantsAssumption DEF Init, SumInv
<1>2. LevelInv /\ RowsInOrder /\ HeldRows /\ SumInv /\ [Next]_vars => SumInv'
  BY SumsStep DEF RowsReady, LevelInv, RowsInOrder
<1> QED
  BY <1>1, <1>2, LevelsInductive, RowsAlwaysInOrder, RowsAlwaysHeld, PTL DEF Spec

\* A step that writes no movement and no level for good.
LEMMA OnlyCommitsWrite ==
  ASSUME [Next]_vars, <<ledger, level>>' # <<ledger, level>>
  PROVE  \E t \in Txns, fate \in Ended : Publish(t, fate)
BY DEF Next, Catalogue, CreateProduct, AddProductUnit, UpdateStatus, Begin, Step, LookUp,
       ReadProduct, CheckProduct, ReadUnit, Lock, Refuse, DuplicateKey, Post, Commit, Crash,
       CrashAfterCommit, DeadlockVictim, Rollback, NextLine, Ended, vars, rows, stock

\* A commit books the rows its transaction has staged.
LEMMA CommitBooks ==
  ASSUME LevelInv, BooksInv, RowsInOrder, HeldRows, SumInv, NoOverdraft',
         NEW t \in Txns, NEW fate \in Ended, Publish(t, fate)
  PROVE  Abstract!Book
<1>1. /\ ledger' = ledger \cup staged[t] /\ ledger' \ ledger = staged[t]
      /\ \A p \in Products : lock[p] # t => Abstract!Sum(p, staged[t]) = 0
  BY PublishSums DEF Publish, RowsReady, LevelInv, RowsInOrder
<1>2. Abstract!FreshKeys(staged[t])
  BY DEF Abstract!FreshKeys, RowsInOrder, KeysApart
<1>3. level' = [p \in Products |-> level[p] + Abstract!Sum(p, staged[t])]
  <2>1. ASSUME NEW p \in Products
        PROVE  (IF lock[p] = t THEN Stored(draft[p]) ELSE level[p])
                 = level[p] + Abstract!Sum(p, staged[t])
    <3>1. Stored(draft[p]) = draft[p] /\ level[p] \in Int
      BY StoredIsStorable DEF BooksInv, LevelInv, TypeOK
    <3> QED
      BY <1>1, <3>1 DEF BooksInv, BooksBalance, SumInv
  <2> QED
    BY <2>1 DEF Publish
<1>4. \A p \in Products : level'[p] >= 0
  BY DEF NoOverdraft
<1> QED
  BY <1>1, <1>2, <1>3, <1>4 DEF Abstract!Book

\* The transactions of the inventory, with all their waits, failures and crashes, do no
\* more than book sets of movements: when the quantities are storable they implement
\* Ledger (_append_movement).
THEOREM InventoryImplementsLedger == ASSUME Representable PROVE Spec => RefinesLedger
<1>1. Init => Abstract!Init
  <2> SUFFICES ASSUME Init PROVE Abstract!Init
    OBVIOUS
  <2>1. {} \in SUBSET Row /\ IsFiniteSet({})
    BY FS_EmptySet
  <2>2. \A p \in Products : Abstract!Sum(p, {}) = 0
    BY <2>1, SumOfRows
  <2> QED
    BY <2>2 DEF Init, Abstract!Init
<1>2. /\ LevelInv /\ BooksInv /\ RowsInOrder /\ HeldRows /\ SumInv /\ NoOverdraft'
      /\ [Next]_vars
      => [Abstract!Book]_<<ledger, level>>
  BY OnlyCommitsWrite, CommitBooks
<1> QED
  BY <1>1, <1>2, LevelsInductive, BooksInductive, RowsAlwaysInOrder, RowsAlwaysHeld,
     BookedIsTheSum, NeverOverdrawn, PTL
  DEF Spec, RefinesLedger, Abstract!Spec
=============================================================================
