--------------------------------- MODULE Staff ---------------------------------
(***************************************************************************)
(* The staff of one tenant (app/modules/auth/staff_service.py): accounts,  *)
(* memberships with a role, and the requests of administrators that add,   *)
(* promote, demote, remove, deactivate and reactivate each other.          *)
(*                                                                         *)
(* A request reads the administrator's account, then the membership that   *)
(* gives access, then the membership it is about, then the number of       *)
(* owners, and writes once, at its commit.  Each read is a step: nothing   *)
(* is locked, so other requests may commit between any two of them.        *)
(***************************************************************************)
EXTENDS Integers, FiniteSets

CONSTANTS
  Workers,     \* the sessions in which requests are handled
  Users,       \* people, known by their email address
  Founders,    \* the owners to begin with: who registered the tenant; none in a branch
  Inherited,   \* the role a user has in the nearest ancestor tenant, "none" without
  Outside,     \* users whose accounts other tenants administer too
  RolesAsked,  \* the roles that are given
  MaxMembers,  \* bound: memberships created, ever
  OneAtATime   \* whether administrators wait for each other's requests to end

Roles == {"owner", "manager", "cashier", "kitchen", "finance"}

\* role_permissions: the roles with staff.write and staff.status
Administrators == {"owner", "manager"}

ASSUME StaffAssumption ==
  /\ Founders \subseteq Users
  /\ Inherited \in [Users -> Roles \cup {"none"}]
  /\ Outside \subseteq Users
  /\ RolesAsked \subseteq Roles
  /\ MaxMembers \in Nat
  /\ IsFiniteSet(Founders) /\ Cardinality(Founders) <= 1 /\ Cardinality(Founders) <= MaxMembers
  /\ OneAtATime \in BOOLEAN

VARIABLES
  account,  \* users.status, "none" for an address nobody registered
  members,  \* memberships of the tenant
  created,  \* how many memberships were ever created
  at,       \* the statement each request is about to execute
  call      \* what each request asks for and has read

staffVars == <<account, members, created, at, call>>

Working == {"user", "access", "member", "existing", "count", "save"}

NoCall == [op |-> "none"]

MembershipsOf(u) == {m \in members : m.user = u}
WithId(i, S) == {m \in S : m.id = i}
Owners == {m \in members : m.role = "owner"}
ActiveOwner(u) == account[u] = "active" /\ \E m \in Owners : m.user = u

\* resolve_membership_for_tenant: the user's own membership, or else the one in the
\* nearest ancestor.
EffectiveRole(u) ==
  IF MembershipsOf(u) # {} THEN (CHOOSE m \in MembershipsOf(u) : TRUE).role ELSE Inherited[u]

\* assert_assignable_role
Assignable(by, role) ==
  by = "owner" \/ (by = "manager" /\ role \in {"cashier", "kitchen", "finance"})

-----------------------------------------------------------------------------
\* register made the founder the owner.
Init ==
  /\ account = [u \in Users |->
       IF u \in Founders \cup Outside \/ Inherited[u] # "none" THEN "active" ELSE "none"]
  /\ members = {[id |-> 1, user |-> u, role |-> "owner"] : u \in Founders}
  /\ created = Cardinality(Founders)
  /\ at = [t \in Workers |-> "idle"]
  /\ call = [t \in Workers |-> NoCall]

\* The request is over, with or without success, and its session is closed.
End(t) ==
  /\ at' = [at EXCEPT ![t] = "idle"]
  /\ call' = [call EXCEPT ![t] = NoCall]

Fail(t) == End(t) /\ UNCHANGED <<account, members, created>>

Proceed(t, next, c) ==
  /\ at' = [at EXCEPT ![t] = next]
  /\ call' = [call EXCEPT ![t] = c]
  /\ UNCHANGED <<account, members, created>>

\* An administrator asks to add a user, or to change the role, the membership or the
\* account status of the member with some id.
Send(t, op, actor, who, what) ==
  /\ at[t] = "idle"
  /\ OneAtATime => \A s \in Workers : at[s] \notin Working
  /\ Proceed(t, "user", [op |-> op, actor |-> actor, who |-> who, what |-> what,
                         as |-> "none", known |-> {}, status |-> "none"])

\* get_tenant_context: the administrator's account ...
ReadActor(t) ==
  /\ at[t] = "user"
  /\ IF account[call[t].actor] = "active" THEN Proceed(t, "access", call[t]) ELSE Fail(t)

\* ... and the membership that gives access; require_permission.  The session keeps
\* the administrator's own membership as it is now.
ReadAccess(t) ==
  LET as == EffectiveRole(call[t].actor)
  IN /\ at[t] = "access"
     /\ IF as \in Administrators
        THEN Proceed(t, "member", [call[t] EXCEPT !.as = as,
                                                  !.known = MembershipsOf(call[t].actor)])
        ELSE Fail(t)

\* add_staff: the role may be given, and the account is looked up by its address.
ReadUser(t) ==
  /\ at[t] = "member"
  /\ call[t].op = "add"
  /\ IF Assignable(call[t].as, call[t].what)
     THEN Proceed(t, IF account[call[t].who] = "none" THEN "save" ELSE "existing",
                  [call[t] EXCEPT !.status = account[call[t].who]])
     ELSE Fail(t)

\* add_staff of a known user: not a member yet, and active when looked up.
ReadExisting(t) ==
  /\ at[t] = "existing"
  /\ IF MembershipsOf(call[t].who) = {} /\ call[t].status = "active"
     THEN Proceed(t, "save", call[t])
     ELSE Fail(t)

\* The request takes an owner away, as far as it knows.
Ousts(c) ==
  /\ \E m \in c.known : m.id = c.who /\ m.role = "owner"
  /\ \/ c.op = "role" /\ c.what # "owner"
     \/ c.op = "remove"
     \/ c.op = "status" /\ c.what = "inactive"

\* Mutant of Permitted: without the rules about oneself.
PermittedToAnyone(c) == c.op = "role" => Assignable(c.as, c.what)

\* The rules about oneself and about what one may give.
Permitted(c) ==
  LET self == \E m \in c.known : m.id = c.who /\ m.user = c.actor
  IN IF c.op = "role" THEN Assignable(c.as, c.what) /\ ~(self /\ Ousts(c)) ELSE ~self

\* _get_tenant_membership: the member with its user.  The administrator's own
\* membership stays as the session read it first.
ReadMember(t) ==
  LET c == call[t]
      read == [c EXCEPT !.known = @ \cup (IF WithId(c.who, @) = {} THEN WithId(c.who, members)
                                                                   ELSE {})]
  IN /\ at[t] = "member"
     /\ c.op # "add"
     /\ IF WithId(c.who, members) # {} /\ Permitted(read)
        THEN \E m \in WithId(c.who, members) :
               Proceed(t, IF Ousts(read) THEN "count" ELSE "save",
                       [read EXCEPT !.status = account[m.user]])
        ELSE Fail(t)

\* Mutant of CountOwners: one owner is enough to lose one.
CountNoOwners(t) ==
  /\ at[t] = "count"
  /\ Proceed(t, "save", call[t])

\* _ensure_not_last_owner: every owner counts, whatever the status of the account.
CountOwners(t) ==
  /\ at[t] = "count"
  /\ IF Cardinality(Owners) <= 1 /\ WithId(call[t].who, members) # {}
     THEN Fail(t)
     ELSE Proceed(t, "save", call[t])

\* Mutant of WithUser: the membership of a new user is written alone.
WithoutUser(c) == account

\* The account that add_staff creates for an unknown address.
WithUser(c) == IF c.status = "none" THEN [account EXCEPT ![c.who] = "active"] ELSE account

\* The unique constraints on users.email and on memberships, which see what was added since
\* the session looked.
Unique(c) == MembershipsOf(c.who) = {} /\ (c.status = "none" => account[c.who] = "none")

\* The commit of add_staff.
SaveNew(t) ==
  LET c == call[t]
  IN /\ at[t] = "save"
     /\ c.op = "add"
     /\ created < MaxMembers
     /\ IF Unique(c)
        THEN /\ account' = WithUser(c)
             /\ members' = members \cup {[id |-> created + 1, user |-> c.who, role |-> c.what]}
             /\ created' = created + 1
             /\ End(t)
        ELSE Fail(t)

\* The commit of update_staff_role: an UPDATE of the role, if it changes; one that
\* matches no row fails (StaleDataError).
SaveRole(t) ==
  LET c == call[t]
      unchanged == \E m \in WithId(c.who, c.known) : m.role = c.what
  IN /\ at[t] = "save"
     /\ c.op = "role"
     /\ IF unchanged \/ WithId(c.who, members) # {}
        THEN /\ members' = IF unchanged THEN members
                           ELSE {IF m.id = c.who THEN [m EXCEPT !.role = c.what] ELSE m : m \in members}
             /\ UNCHANGED <<account, created>>
             /\ End(t)
        ELSE Fail(t)

\* The commit of remove_staff: a DELETE that matches no row is no error.
SaveRemoval(t) ==
  /\ at[t] = "save"
  /\ call[t].op = "remove"
  /\ members' = members \ WithId(call[t].who, members)
  /\ UNCHANGED <<account, created>>
  /\ End(t)

\* The commit of update_staff_status: an UPDATE of the account, if it changes.
SaveStatus(t) ==
  LET c == call[t]
  IN /\ at[t] = "save"
     /\ c.op = "status"
     /\ account' = IF c.status = c.what THEN account
                   ELSE [u \in Users |-> IF \E m \in WithId(c.who, c.known) : m.user = u
                                         THEN c.what ELSE account[u]]
     /\ UNCHANGED <<members, created>>
     /\ End(t)

\* The process dies: nothing was written yet.
Die(t) ==
  /\ at[t] \in Working
  /\ End(t)
  /\ UNCHANGED <<account, members, created>>

\* An administrator of another tenant changes the status of the account.
Elsewhere(u, s) ==
  /\ u \in Outside
  /\ account[u] # s
  /\ account' = [account EXCEPT ![u] = s]
  /\ UNCHANGED <<members, created, at, call>>

-----------------------------------------------------------------------------
Request(t) ==
  \E u \in Users :
    \/ \E v \in Users, r \in RolesAsked : Send(t, "add", u, v, r)
    \/ \E i \in 1 .. created :
         \/ \E r \in RolesAsked : Send(t, "role", u, i, r)
         \/ Send(t, "remove", u, i, "none")
         \/ \E s \in {"active", "inactive"} : Send(t, "status", u, i, s)

Save(t) == SaveNew(t) \/ SaveRole(t) \/ SaveRemoval(t) \/ SaveStatus(t)

Handle(t) ==
  \/ ReadActor(t)
  \/ ReadAccess(t)
  \/ ReadUser(t)
  \/ ReadExisting(t)
  \/ ReadMember(t)
  \/ CountOwners(t)
  \/ Save(t)

Next ==
  \/ \E t \in Workers : Request(t) \/ Handle(t) \/ Die(t)
  \/ \E u \in Users, s \in {"active", "inactive"} : Elsewhere(u, s)

Spec == Init /\ [][Next]_staffVars

-----------------------------------------------------------------------------
(* Properties *)

Member == [id : 1 .. MaxMembers, user : Users, role : Roles]

\* Every variable has its type (auth/models.py), and the unique constraints hold: an id
\* and a user have one membership.
StaffTypeOK ==
  /\ account \in [Users -> {"none", "active", "inactive"}]
  /\ members \subseteq Member
  /\ created \in 0 .. MaxMembers
  /\ \A m, n \in members : m.id = n.id \/ m.user = n.user => m = n
  /\ \A m \in members : m.id <= created /\ account[m.user] # "none"
  /\ at \in [Workers -> Working \cup {"idle"}]

\* "Cannot remove or demote the last owner": a tenant that has an owner keeps one.
AnOwnerRemains == [][Owners # {} => Owners' # {}]_staffVars

\* An owner's request never takes the ownership or the account of the owner who sent
\* it, nor leaves the tenant without an owner who can sign in: the rules about oneself
\* do what the count of owners, which includes inactive ones, does not.
OwnersKeepThemselves ==
  [][\A t \in Workers, u \in Users :
       at[t] = "save" /\ at'[t] = "idle" /\ call[t].actor = u /\ ActiveOwner(u) =>
         ActiveOwner(u)']_staffVars
=============================================================================
