---------------------------- MODULE AccountsProofs -----------------------------
(***************************************************************************)
(* Theorems about Staff and Sessions, for every number of people, founders *)
(* and memberships, and for any requests in parallel and number of         *)
(* sessions.                                                               *)
(*                                                                         *)
(* Staff: the unique constraints hold whatever requests overlap, and when  *)
(* administrators wait for each other, no sequence of requests takes the   *)
(* last owner or the sender's own ownership away.                          *)
(*                                                                         *)
(* Sessions: the types and who holds which row; and, as long as a client   *)
(* has one request under way for one sign-in, that a token is exchanged    *)
(* for one other, that a sign-in has one live session, and that a reuse    *)
(* ends it.                                                                *)
(***************************************************************************)
EXTENDS Sessions, FiniteSetTheorems, TLAPS

-----------------------------------------------------------------------------
(* Staff: what an administrator's request is at each of its statements *)

Statuses == {"none", "active", "inactive"}

Ask == [op : {"add", "role", "remove", "status"}, actor : Users,
        who : Users \cup 1 .. MaxMembers, what : Roles \cup Statuses,
        as : Roles \cup {"none"}, known : SUBSET Member, status : Statuses]

\* What a request asks for and has read fits the statement s it is about to execute.
Fits(s, c) ==
  /\ c \in Ask
  /\ c.op \in {"add", "role"} => c.what \in Roles
  /\ c.op = "add" => c.who \in Users
  /\ c.op = "status" => c.what \in {"active", "inactive"}
  /\ s = "existing" => c.op = "add"
  /\ s = "count" => c.op # "add"
  /\ c.op = "add" /\ s \in {"existing", "save"} /\ c.status # "none" => account[c.who] # "none"

CallsFit ==
  /\ call \in [Workers -> Ask \cup {NoCall}]
  /\ \A t \in Workers : at[t] # "idle" => Fits(at[t], call[t])

StaffInv == StaffTypeOK /\ CallsFit

-----------------------------------------------------------------------------
(* Types and unique constraints *)

LEMMA InitStaffInv == Init => StaffInv
<1> SUFFICES ASSUME Init PROVE StaffInv
  OBVIOUS
<1>1. Cardinality(Founders) \in Nat /\ Cardinality(Founders) <= MaxMembers /\ MaxMembers \in Nat
  BY StaffAssumption, FS_CardinalityType
<1>2. \A u \in Founders : Founders = {u} /\ Cardinality(Founders) = 1
  <2> SUFFICES ASSUME NEW u \in Founders PROVE Founders = {u} /\ Cardinality(Founders) = 1
    OBVIOUS
  <2>1. Cardinality(Founders) # 0
    BY StaffAssumption, FS_EmptySet
  <2>2. Cardinality(Founders) = 1
    BY <1>1, <2>1, StaffAssumption
  <2>3. PICK v : Founders = {v}
    BY <2>2, StaffAssumption, FS_Singleton
  <2> QED
    BY <2>2, <2>3
<1>3. StaffTypeOK
  <2>1. account \in [Users -> {"none", "active", "inactive"}]
    BY DEF Init
  <2>2. created \in 0 .. MaxMembers
    BY <1>1 DEF Init
  <2>3. \A m \in members :
          /\ m \in Member /\ m.id = 1 /\ created = 1 /\ m.user \in Founders
          /\ m = [id |-> 1, user |-> m.user, role |-> "owner"]
    BY <1>1, <1>2, StaffAssumption DEF Init, Member, Roles
  <2>4. \A m, n \in members : m = n
    BY <1>2, <2>3
  <2>5. \A m \in members : m.id <= created /\ account[m.user] # "none"
    BY <2>3, StaffAssumption DEF Init
  <2> QED
    BY <2>1, <2>2, <2>3, <2>4, <2>5 DEF Init, StaffTypeOK
<1>4. CallsFit
  BY DEF Init, CallsFit
<1> QED
  BY <1>3, <1>4 DEF StaffInv

\* A request goes on with what fits, or ends without a change.
LEMMA ProceedFits ==
  ASSUME StaffInv, NEW t \in Workers, NEW next \in Working, NEW c, Fits(next, c),
         Proceed(t, next, c)
  PROVE  StaffInv'
<1>1. StaffTypeOK'
  BY DEF StaffInv, StaffTypeOK, Proceed
<1>2. CallsFit'
  <2>1. account' = account /\ Fits(next, c)'
    BY DEF Proceed, Fits
  <2> QED
    BY <2>1 DEF StaffInv, StaffTypeOK, CallsFit, Proceed, Fits
<1> QED
  BY <1>1, <1>2 DEF StaffInv

\* An account that exists is not deleted.
AccountsStay == \A u \in Users : account[u] # "none" => account'[u] # "none"

LEMMA OthersFit ==
  ASSUME StaffInv, NEW t \in Workers, End(t), AccountsStay
  PROVE  CallsFit'
<1>1. at'[t] = "idle" /\ call' \in [Workers -> Ask \cup {NoCall}]
  BY DEF StaffInv, StaffTypeOK, CallsFit, End
<1>2. ASSUME NEW u \in Workers, at'[u] # "idle" PROVE Fits(at[u], call[u])'
  <2>1. u # t /\ at'[u] = at[u] /\ call'[u] = call[u] /\ Fits(at[u], call[u])
    BY <1>1, <1>2 DEF StaffInv, StaffTypeOK, CallsFit, End
  <2> QED
    BY <2>1 DEF Fits, AccountsStay
<1> QED
  BY <1>1, <1>2 DEF CallsFit

LEMMA EndFits ==
  ASSUME StaffInv, NEW t \in Workers, Fail(t)
  PROVE  StaffInv'
<1>1. StaffTypeOK'
  BY DEF StaffInv, StaffTypeOK, Fail, End
<1>2. AccountsStay
  BY DEF AccountsStay, Fail
<1> QED
  BY <1>1, <1>2, OthersFit DEF StaffInv, Fail

LEMMA SaveNewFits ==
  ASSUME StaffInv, NEW t \in Workers, SaveNew(t)
  PROVE  StaffInv'
<1> DEFINE c == call[t]
           new == [id |-> created + 1, user |-> c.who, role |-> c.what]
<1>0. CASE Fail(t)
  BY <1>0, EndFits
<1>1. CASE ~Fail(t)
  <2>1. /\ MembershipsOf(c.who) = {}
        /\ c.status = "none" => account[c.who] = "none"
        /\ account' = WithUser(c) /\ members' = members \cup {new}
        /\ created' = created + 1 /\ created < MaxMembers /\ End(t)
        /\ at[t] = "save" /\ c.op = "add"
    BY <1>1 DEF SaveNew, Unique
  <2>2. Fits("save", c)
    BY <2>1 DEF StaffInv, CallsFit
  <2>3. c.who \in Users /\ c.what \in Roles /\ (c.status # "none" => account[c.who] # "none")
    BY <2>1, <2>2 DEF Fits
  <2>4. /\ account' \in [Users -> Statuses] /\ account'[c.who] # "none" /\ AccountsStay
    BY <2>1, <2>3 DEF WithUser, StaffInv, StaffTypeOK, AccountsStay, Statuses
  <2>5. created' \in 0 .. MaxMembers /\ new \in Member /\ MaxMembers \in Nat
    BY <2>1, <2>3, StaffAssumption DEF StaffInv, StaffTypeOK, Member
  <2>6. \A m \in members : m.id # new.id /\ m.user # new.user /\ m.id <= created + 1
    BY <2>1, <2>5 DEF StaffInv, StaffTypeOK, MembershipsOf, Member
  <2>7. \A m, n \in members' : m.id = n.id \/ m.user = n.user => m = n
    BY <2>1, <2>6 DEF StaffInv, StaffTypeOK
  <2>8. \A m \in members' : m.id <= created' /\ account'[m.user] # "none"
    BY <2>1, <2>4, <2>5, <2>6 DEF StaffInv, StaffTypeOK, AccountsStay, Member
  <2>9. members' \subseteq Member /\ at' \in [Workers -> Working \cup {"idle"}]
    BY <2>1, <2>5 DEF StaffInv, StaffTypeOK, End
  <2> QED
    BY <2>1, <2>4, <2>5, <2>7, <2>8, <2>9, OthersFit DEF StaffInv, StaffTypeOK, Statuses
<1> QED
  BY <1>0, <1>1

LEMMA SaveRoleFits ==
  ASSUME StaffInv, NEW t \in Workers, SaveRole(t)
  PROVE  StaffInv'
<1> DEFINE c == call[t]
           given(m) == IF m.id = c.who THEN [m EXCEPT !.role = c.what] ELSE m
<1>0. CASE Fail(t)
  BY <1>0, EndFits
<1>1. CASE ~Fail(t)
  <2>1. /\ members' = members \/ members' = {given(m) : m \in members}
        /\ UNCHANGED <<account, created>> /\ End(t) /\ at[t] = "save" /\ c.op = "role"
    BY <1>1 DEF SaveRole
  <2>2. c.what \in Roles
    BY <2>1 DEF StaffInv, CallsFit, Fits
  <2>3. \A m \in members :
          given(m) \in Member /\ given(m).id = m.id /\ given(m).user = m.user
    BY <2>2 DEF StaffInv, StaffTypeOK, Member
  <2>4. /\ members' \subseteq Member
        /\ \A m \in members' : m.id <= created /\ account[m.user] # "none"
        /\ \A m, n \in members' : m.id = n.id \/ m.user = n.user => m = n
    <3>1. CASE members' = members
      BY <3>1 DEF StaffInv, StaffTypeOK
    <3>2. CASE members' = {given(m) : m \in members}
      <4>1. \A n \in members' : \E m \in members : n = given(m)
        BY <3>2
      <4> HIDE DEF given
      <4> QED
        BY <2>3, <4>1 DEF StaffInv, StaffTypeOK
    <3> QED
      BY <2>1, <3>1, <3>2
  <2>5. AccountsStay
    BY <2>1 DEF AccountsStay
  <2>6. at' \in [Workers -> Working \cup {"idle"}]
    BY <2>1 DEF StaffInv, StaffTypeOK, End
  <2> QED
    BY <2>1, <2>4, <2>5, <2>6, OthersFit DEF StaffInv, StaffTypeOK
<1> QED
  BY <1>0, <1>1

LEMMA SaveRemovalFits ==
  ASSUME StaffInv, NEW t \in Workers, SaveRemoval(t)
  PROVE  StaffInv'
<1>1. AccountsStay /\ End(t)
  BY DEF AccountsStay, SaveRemoval
<1>2. StaffTypeOK'
  BY DEF SaveRemoval, StaffInv, StaffTypeOK, End
<1> QED
  BY <1>1, <1>2, OthersFit DEF StaffInv

LEMMA SaveStatusFits ==
  ASSUME StaffInv, NEW t \in Workers, SaveStatus(t)
  PROVE  StaffInv'
<1>1. call[t].what \in {"active", "inactive"}
  BY DEF SaveStatus, StaffInv, CallsFit, Fits
<1>2. account' \in [Users -> Statuses] /\ AccountsStay
  BY <1>1 DEF SaveStatus, StaffInv, StaffTypeOK, Statuses, AccountsStay
<1>3. StaffTypeOK'
  BY <1>2 DEF SaveStatus, StaffInv, StaffTypeOK, AccountsStay, Statuses, End, Member
<1> QED
  BY <1>2, <1>3, OthersFit DEF StaffInv, SaveStatus

LEMMA ElsewhereFits ==
  ASSUME StaffInv, NEW u \in Users, NEW s \in {"active", "inactive"}, Elsewhere(u, s)
  PROVE  StaffInv'
<1>1. account' \in [Users -> Statuses] /\ AccountsStay
  BY DEF Elsewhere, StaffInv, StaffTypeOK, Statuses, AccountsStay
<1>2. StaffTypeOK'
  BY <1>1 DEF Elsewhere, StaffInv, StaffTypeOK, AccountsStay, Statuses, Member
<1>3. CallsFit'
  BY <1>1 DEF Elsewhere, StaffInv, CallsFit, AccountsStay, Fits
<1> QED
  BY <1>2, <1>3 DEF StaffInv

LEMMA RequestFits ==
  ASSUME StaffInv, NEW t \in Workers, Request(t)
  PROVE  StaffInv'
<1>1. ASSUME NEW op, NEW u, NEW who, NEW what, Send(t, op, u, who, what),
             Fits("user", [op |-> op, actor |-> u, who |-> who, what |-> what,
                           as |-> "none", known |-> {}, status |-> "none"])
      PROVE  StaffInv'
  BY <1>1, ProceedFits DEF Send, Working
<1>2. ASSUME NEW u \in Users, NEW v \in Users, NEW r \in RolesAsked, Send(t, "add", u, v, r)
      PROVE  StaffInv'
  BY <1>1, <1>2, StaffAssumption DEF Fits, Ask, Statuses
<1>3. 1 .. created \subseteq 1 .. MaxMembers
  BY StaffAssumption DEF StaffInv, StaffTypeOK
<1>4. ASSUME NEW u \in Users, NEW i \in 1 .. created, NEW r \in RolesAsked, Send(t, "role", u, i, r)
      PROVE  StaffInv'
  BY <1>1, <1>3, <1>4, StaffAssumption DEF Fits, Ask, Statuses
<1>5. ASSUME NEW u \in Users, NEW i \in 1 .. created, Send(t, "remove", u, i, "none")
      PROVE  StaffInv'
  BY <1>1, <1>3, <1>5 DEF Fits, Ask, Statuses
<1>6. ASSUME NEW u \in Users, NEW i \in 1 .. created, NEW s \in {"active", "inactive"},
             Send(t, "status", u, i, s)
      PROVE  StaffInv'
  BY <1>1, <1>3, <1>6 DEF Fits, Ask, Statuses
<1> QED
  BY <1>2, <1>4, <1>5, <1>6 DEF Request

\* The membership a member step reads for the one who asks about it.
Read(c) == [c EXCEPT !.known = @ \cup (IF WithId(c.who, @) = {} THEN WithId(c.who, members)
                                                                ELSE {})]

LEMMA HandleFits ==
  ASSUME StaffInv, NEW t \in Workers, Handle(t)
  PROVE  StaffInv'
<1> DEFINE c == call[t]
<1>0. at[t] # "idle" => Fits(at[t], c)
  BY DEF StaffInv, CallsFit
<1>1. CASE ReadActor(t)
  <2>1. Fits("access", c)
    BY <1>0, <1>1 DEF ReadActor, Fits
  <2> QED
    BY <1>1, <2>1, ProceedFits, EndFits DEF ReadActor, Working
<1>2. CASE ReadAccess(t)
  <2>1. ASSUME NEW as \in Administrators
        PROVE  Fits("member", [c EXCEPT !.as = as, !.known = MembershipsOf(c.actor)])
    BY <1>0, <1>2
    DEF ReadAccess, Fits, Ask, Administrators, Roles, MembershipsOf, StaffInv, StaffTypeOK
  <2> QED
    BY <1>2, <2>1, ProceedFits, EndFits DEF ReadAccess, Working
<1>3. CASE ReadUser(t)
  <2>1. Fits("member", c) /\ c.op = "add"
    BY <1>0, <1>3 DEF ReadUser
  <2>2. ASSUME NEW next \in {"save", "existing"}
        PROVE  Fits(next, [c EXCEPT !.status = account[c.who]])
    BY <2>1 DEF Fits, Ask, Statuses, StaffInv, StaffTypeOK
  <2> QED
    BY <1>3, <2>2, ProceedFits, EndFits DEF ReadUser, Working
<1>4. CASE ReadExisting(t)
  <2>1. Fits("save", c)
    BY <1>0, <1>4 DEF ReadExisting, Fits
  <2> QED
    BY <1>4, <2>1, ProceedFits, EndFits DEF ReadExisting, Working
<1>5. CASE ReadMember(t)
  <2>1. Fits("member", c) /\ c.op # "add"
    BY <1>0, <1>5 DEF ReadMember
  <2>2. ASSUME NEW next \in {"save", "count"}, NEW m \in members
        PROVE  Fits(next, [Read(c) EXCEPT !.status = account[m.user]])
    BY <2>1, <2>2 DEF Fits, Ask, Statuses, StaffInv, StaffTypeOK, Read, WithId, Member
  <2>3. Fail(t) \/ \E m \in WithId(c.who, members), next \in {"save", "count"} :
                    Proceed(t, next, [Read(c) EXCEPT !.status = account[m.user]])
    BY <1>5 DEF ReadMember, Read
  <2> QED
    BY <2>2, <2>3, ProceedFits, EndFits DEF Working, WithId
<1>6. CASE CountOwners(t)
  <2>1. Fits("save", c)
    BY <1>0, <1>6 DEF CountOwners, Fits
  <2> QED
    BY <1>6, <2>1, ProceedFits, EndFits DEF CountOwners, Working
<1>7. CASE Save(t)
  BY <1>7, SaveNewFits, SaveRoleFits, SaveRemovalFits, SaveStatusFits DEF Save
<1> QED
  BY <1>1, <1>2, <1>3, <1>4, <1>5, <1>6, <1>7 DEF Handle

LEMMA StaffStep ==
  ASSUME StaffInv, [Next]_staffVars
  PROVE  StaffInv'
<1>1. CASE UNCHANGED staffVars
  BY <1>1 DEF staffVars, StaffInv, StaffTypeOK, CallsFit, Fits
<1>2. ASSUME NEW t \in Workers, Request(t) \/ Handle(t) PROVE StaffInv'
  BY <1>2, RequestFits, HandleFits
<1>3. ASSUME NEW t \in Workers, Die(t) PROVE StaffInv'
  BY <1>3, EndFits DEF Die, Fail
<1>4. ASSUME NEW u \in Users, NEW s \in {"active", "inactive"}, Elsewhere(u, s) PROVE StaffInv'
  BY <1>4, ElsewhereFits
<1> QED
  BY <1>1, <1>2, <1>3, <1>4 DEF Next

\* In every state the rows, the identity map of each request and what it asks for fit
\* together, however requests overlap.
THEOREM StaffInductive == Spec => []StaffInv
<1>1. StaffInv /\ [Next]_staffVars => StaffInv'
  BY StaffStep
<1> QED
  BY <1>1, InitStaffInv, PTL DEF Spec

\* However requests overlap, an id and a user have one membership, and every member has
\* an account: the constraints of the tables decide what the look-ups before a save miss.
THEOREM MembershipsAreUnique == Spec => []StaffTypeOK
<1>1. StaffInv => StaffTypeOK
  BY DEF StaffInv
<1> QED
  BY <1>1, StaffInductive, PTL

-----------------------------------------------------------------------------
(* Administrators who wait for each other *)

\* At most one request is under way.
OneWorking == \A s, t \in Workers : at[s] # "idle" /\ at[t] # "idle" => s = t

\* What a request c at statement s has read is still so: the memberships it knows, the
\* rules it was let through by, and that another owner stays when it takes one away.
Knows(s, c) ==
  /\ s = "member" => c.known \subseteq members
  /\ s \in {"count", "save"} /\ c.op # "add" =>
       c.known \subseteq members /\ WithId(c.who, c.known) # {} /\ Permitted(c)
  /\ s = "save" /\ c.op # "add" /\ Ousts(c) => Cardinality(Owners) > 1

TurnInv == OneWorking /\ \A t \in Workers : at[t] # "idle" => Knows(at[t], call[t])

LEMMA FiniteOwners ==
  ASSUME StaffTypeOK
  PROVE  IsFiniteSet(Owners)
<1> DEFINE id == [m \in Owners |-> m.id]
<1>1. id \in Injection(Owners, 1 .. MaxMembers)
  BY DEF StaffTypeOK, Owners, Member, Injection, IsInjective
<1>2. IsFiniteSet(1 .. MaxMembers)
  BY StaffAssumption, FS_Interval
<1> QED
  BY <1>1, <1>2, FS_Injection

\* Of two owners one is left when one goes.
LEMMA AnotherOwner ==
  ASSUME StaffTypeOK, Cardinality(Owners) > 1, NEW m \in Owners
  PROVE  \E n \in Owners : n # m
<1>1. IsFiniteSet(Owners) /\ Cardinality(Owners) \in Nat
  BY FiniteOwners, FS_CardinalityType
<1>2. IsFiniteSet(Owners \ {m}) /\ Cardinality(Owners \ {m}) = Cardinality(Owners) - 1
  BY <1>1, FS_RemoveElement
<1>3. Owners \ {m} # {}
  BY <1>1, <1>2, FS_EmptySet
<1> QED
  BY <1>3

LEMMA EndTurn ==
  ASSUME StaffInv, TurnInv, NEW t \in Workers, at[t] # "idle", End(t)
  PROVE  TurnInv'
<1>1. \A u \in Workers : at'[u] = "idle"
  BY DEF End, TurnInv, OneWorking, StaffInv, StaffTypeOK
<1> QED
  BY <1>1 DEF TurnInv, OneWorking

LEMMA ProceedTurn ==
  ASSUME StaffInv, TurnInv, NEW t \in Workers, NEW next \in Working, NEW c,
         \A s \in Workers : at[s] # "idle" => s = t,
         Proceed(t, next, c), Knows(next, c)
  PROVE  TurnInv'
<1>1. /\ \A u \in Workers : at'[u] # "idle" => u = t
      /\ at'[t] = next /\ call'[t] = c
  BY DEF Proceed, StaffInv, StaffTypeOK, CallsFit
<1>2. Knows(next, c)'
  BY DEF Knows, Proceed, Permitted, Ousts, Owners
<1> QED
  BY <1>1, <1>2 DEF TurnInv, OneWorking, Knows

LEMMA HandleTurn ==
  ASSUME StaffInv, TurnInv, NEW t \in Workers, Handle(t)
  PROVE  TurnInv'
<1> DEFINE c == call[t]
<1>0. at[t] # "idle" /\ Knows(at[t], c) /\ Fits(at[t], c) /\ \A s \in Workers : at[s] # "idle" => s = t
  <2>1. at[t] # "idle"
    BY DEF Handle, ReadActor, ReadAccess, ReadUser, ReadExisting, ReadMember, CountOwners,
           Save, SaveNew, SaveRole, SaveRemoval, SaveStatus
  <2> QED
    BY <2>1 DEF TurnInv, OneWorking, StaffInv, CallsFit
<1>1. CASE End(t)
  BY <1>0, <1>1, EndTurn
<1>2. CASE ReadActor(t) /\ ~End(t)
  <2>1. Proceed(t, "access", c)
    BY <1>2 DEF ReadActor, Fail
  <2>2. Knows("access", c)
    BY DEF Knows
  <2> QED
    BY <1>0, <2>1, <2>2, ProceedTurn DEF Working
<1>3. CASE ReadAccess(t) /\ ~End(t)
  <2> DEFINE d == [c EXCEPT !.as = EffectiveRole(c.actor), !.known = MembershipsOf(c.actor)]
  <2>1. Proceed(t, "member", d)
    BY <1>3 DEF ReadAccess, Fail
  <2>2. d.known = MembershipsOf(c.actor)
    BY <1>0 DEF Fits, Ask
  <2>3. Knows("member", d)
    BY <2>2 DEF Knows, MembershipsOf
  <2> QED
    BY <1>0, <2>1, <2>3, ProceedTurn DEF Working
<1>4. CASE (ReadUser(t) \/ ReadExisting(t)) /\ ~End(t)
  <2>1. PICK next \in {"save", "existing"}, d \in {c, [c EXCEPT !.status = account[c.who]]} :
          Proceed(t, next, d)
    BY <1>4 DEF ReadUser, ReadExisting, Fail
  <2>2. d.op = "add"
    BY <1>0, <1>4 DEF ReadUser, ReadExisting, Fits, Ask
  <2>3. Knows(next, d)
    BY <2>2 DEF Knows
  <2> QED
    BY <1>0, <2>1, <2>3, ProceedTurn DEF Working
<1>5. CASE ReadMember(t) /\ ~End(t)
  <2>1. PICK m \in WithId(c.who, members) :
          /\ Proceed(t, IF Ousts(Read(c)) THEN "count" ELSE "save",
                     [Read(c) EXCEPT !.status = account[m.user]])
          /\ Permitted(Read(c)) /\ c.op # "add" /\ at[t] = "member"
    BY <1>5 DEF ReadMember, Read, Fail
  <2> DEFINE d == [Read(c) EXCEPT !.status = account[m.user]]
  <2>2. /\ d.op = c.op /\ d.who = c.who /\ d.what = c.what /\ d.as = c.as /\ d.actor = c.actor
        /\ d.known = Read(c).known /\ Read(c).op = c.op /\ Read(c).who = c.who
        /\ Read(c).what = c.what /\ Read(c).as = c.as /\ Read(c).actor = c.actor
        /\ Read(c).known = c.known \cup (IF WithId(c.who, c.known) = {}
                                         THEN WithId(c.who, members) ELSE {})
    BY <1>0 DEF Fits, Ask, Read
  <2>3. (Ousts(d) <=> Ousts(Read(c))) /\ Permitted(d)
    BY <2>1, <2>2 DEF Ousts, Permitted
  <2>4. d.known \subseteq members /\ WithId(d.who, d.known) # {}
    BY <1>0, <2>1, <2>2 DEF Knows, WithId
  <2> HIDE DEF d
  <2>5. CASE Ousts(d)
    <3>1. Knows("count", d)
      BY <2>3, <2>4 DEF Knows
    <3> QED
      BY <1>0, <2>1, <2>3, <2>5, <3>1, ProceedTurn DEF Working, d
  <2>6. CASE ~Ousts(d)
    <3>1. Knows("save", d)
      BY <2>3, <2>4, <2>6 DEF Knows
    <3> QED
      BY <1>0, <2>1, <2>3, <2>6, <3>1, ProceedTurn DEF Working, d
  <2> QED
    BY <2>5, <2>6
<1>6. CASE CountOwners(t) /\ ~End(t)
  <2>1. Proceed(t, "save", c) /\ at[t] = "count" /\ c.op # "add"
    BY <1>0, <1>6 DEF CountOwners, Fail, Fits
  <2>2. WithId(c.who, members) # {}
    BY <1>0, <2>1 DEF Knows, WithId
  <2>3. Cardinality(Owners) \in Nat /\ ~(Cardinality(Owners) <= 1)
    BY <1>6, <2>2, FiniteOwners, FS_CardinalityType DEF CountOwners, Fail, StaffInv
  <2>4. Knows("save", c)
    BY <1>0, <2>1, <2>3 DEF Knows
  <2> QED
    BY <1>0, <2>1, <2>4, ProceedTurn DEF Working
<1>7. CASE Save(t)
  BY <1>1, <1>7 DEF Save, SaveNew, Unique, SaveRole, SaveRemoval, SaveStatus, Fail
<1> QED
  BY <1>1, <1>2, <1>3, <1>4, <1>5, <1>6, <1>7 DEF Handle

LEMMA TurnStep ==
  ASSUME OneAtATime, StaffInv, TurnInv, [Next]_staffVars
  PROVE  TurnInv'
<1>1. CASE UNCHANGED <<members, at, call>>
  BY <1>1 DEF TurnInv, OneWorking, Knows, Permitted, Ousts, Owners
<1>2. ASSUME NEW t \in Workers, Request(t) PROVE TurnInv'
  <2>1. PICK op, u, who, what : Send(t, op, u, who, what)
    BY <1>2 DEF Request
  <2> DEFINE c == [op |-> op, actor |-> u, who |-> who, what |-> what,
                   as |-> "none", known |-> {}, status |-> "none"]
  <2>2. Proceed(t, "user", c) /\ \A s \in Workers : at[s] # "idle" => s = t
    BY <2>1 DEF Send, StaffInv, StaffTypeOK
  <2>3. Knows("user", c)
    BY DEF Knows
  <2> QED
    BY <2>2, <2>3, ProceedTurn DEF Working
<1>3. ASSUME NEW t \in Workers, Handle(t) PROVE TurnInv'
  BY <1>3, HandleTurn
<1>4. ASSUME NEW t \in Workers, Die(t) PROVE TurnInv'
  BY <1>4, EndTurn DEF Die, Working
<1> QED
  BY <1>1, <1>2, <1>3, <1>4 DEF Next, Elsewhere, staffVars

\* While the requests of administrators come one after the other: what a request has read of
\* its actor, its member and the number of owners is so until it has saved.
THEOREM TurnsInductive == ASSUME OneAtATime PROVE Spec => []TurnInv
<1>1. Init => TurnInv
  BY DEF Init, TurnInv, OneWorking
<1>2. StaffInv /\ TurnInv /\ [Next]_staffVars => TurnInv'
  BY TurnStep
<1> QED
  BY <1>1, <1>2, StaffInductive, PTL DEF Spec

\* What a request about a member saves is about a member it knows.
LEMMA KnownTarget ==
  ASSUME StaffInv, TurnInv, NEW t \in Workers, at[t] = "save", call[t].op # "add",
         NEW m \in members, m.id = call[t].who
  PROVE  m \in call[t].known
<1>1. call[t].known \subseteq members /\ WithId(call[t].who, call[t].known) # {}
  BY DEF TurnInv, Knows
<1> QED
  BY <1>1 DEF StaffInv, StaffTypeOK, WithId

\* A save leaves an owner: the one it takes away has another.
LEMMA SaveLeavesAnOwner ==
  ASSUME StaffInv, TurnInv, NEW t \in Workers, Save(t), Owners # {}
  PROVE  Owners' # {}
<1> DEFINE c == call[t]
<1>1. CASE members \subseteq members'
  BY <1>1 DEF Owners
<1>2. CASE SaveRole(t) /\ ~(members \subseteq members')
  <2>1. /\ members' = {IF m.id = c.who THEN [m EXCEPT !.role = c.what] ELSE m : m \in members}
        /\ at[t] = "save" /\ c.op = "role"
    BY <1>2 DEF SaveRole, Fail
  <2>2. ASSUME NEW n \in Owners, n.id # c.who PROVE n \in Owners'
    BY <2>1, <2>2 DEF Owners
  <2>3. CASE \E m \in Owners : m.id = c.who
    <3>1. PICK m \in Owners : m.id = c.who
      BY <2>3
    <3>2. m \in c.known /\ m.role = "owner"
      BY <2>1, <3>1, KnownTarget DEF Owners
    <3>3. CASE c.what = "owner"
      <4>1. [m EXCEPT !.role = c.what] \in members' /\ m \in Member
        BY <2>1, <3>1 DEF Owners, StaffInv, StaffTypeOK
      <4>2. [m EXCEPT !.role = c.what].role = "owner"
        BY <3>3, <4>1 DEF Member
      <4> QED
        BY <4>1, <4>2 DEF Owners
    <3>4. CASE c.what # "owner"
      <4>1. Ousts(c)
        BY <2>1, <3>1, <3>2, <3>4 DEF Ousts
      <4>2. Cardinality(Owners) > 1
        BY <2>1, <4>1 DEF TurnInv, Knows
      <4>3. PICK n \in Owners : n # m
        BY <4>2, AnotherOwner DEF StaffInv
      <4>4. n.id # c.who
        BY <3>1, <4>3 DEF StaffInv, StaffTypeOK, Owners
      <4> QED
        BY <2>2, <4>4
    <3> QED
      BY <3>3, <3>4
  <2> QED
    BY <2>2, <2>3
<1>3. CASE SaveRemoval(t)
  <2>1. members' = members \ WithId(c.who, members) /\ at[t] = "save" /\ c.op = "remove"
    BY <1>3 DEF SaveRemoval
  <2>2. ASSUME NEW n \in Owners, n.id # c.who PROVE n \in Owners'
    BY <2>1, <2>2 DEF Owners, WithId
  <2>3. CASE \E m \in Owners : m.id = c.who
    <3>1. PICK m \in Owners : m.id = c.who
      BY <2>3
    <3>2. Ousts(c)
      BY <2>1, <3>1, KnownTarget DEF Owners, Ousts
    <3>3. Cardinality(Owners) > 1
      BY <2>1, <3>2 DEF TurnInv, Knows
    <3>4. PICK n \in Owners : n # m
      BY <3>3, AnotherOwner DEF StaffInv
    <3>5. n.id # c.who
      BY <3>1, <3>4 DEF StaffInv, StaffTypeOK, Owners
    <3> QED
      BY <2>2, <3>5
  <2> QED
    BY <2>2, <2>3
<1> QED
  BY <1>1, <1>2, <1>3 DEF Save, SaveNew, Unique, SaveStatus, Fail

\* "Cannot remove or demote the last owner": with the requests of administrators one
\* after the other, a tenant that has an owner keeps one (staff_service).
THEOREM LastOwnerStays == ASSUME OneAtATime PROVE Spec => AnOwnerRemains
<1>1. StaffInv /\ TurnInv /\ [Next]_staffVars => [Owners # {} => Owners' # {}]_staffVars
  <2> SUFFICES ASSUME StaffInv, TurnInv, [Next]_staffVars, Owners # {} PROVE Owners' # {}
    OBVIOUS
  <2>1. CASE members' = members
    BY <2>1 DEF Owners
  <2>2. ASSUME NEW t \in Workers, Save(t) PROVE Owners' # {}
    BY <2>2, SaveLeavesAnOwner
  <2>3. ASSUME NEW t \in Workers, Request(t) PROVE members' = members
    BY <2>3 DEF Request, Send, Proceed
  <2>4. ASSUME NEW t \in Workers, Handle(t) \/ Die(t), ~Save(t) PROVE members' = members
    BY <2>4 DEF Handle, ReadActor, ReadAccess, ReadUser, ReadExisting, ReadMember, CountOwners,
                Proceed, Fail, Die
  <2>5. ASSUME NEW u \in Users, NEW s \in {"active", "inactive"}, Elsewhere(u, s)
        PROVE  members' = members
    BY <2>5 DEF Elsewhere
  <2> QED
    BY <2>1, <2>2, <2>3, <2>4, <2>5 DEF Next, staffVars
<1> QED
  BY <1>1, StaffInductive, TurnsInductive, PTL DEF Spec, AnOwnerRemains

\* With the requests of administrators one after the other, an owner who can sign in
\* still can, as an owner, after each of his own requests.
THEOREM OwnersStayThemselves == ASSUME OneAtATime PROVE Spec => OwnersKeepThemselves
<1> DEFINE Kept == \A t \in Workers, u \in Users :
             at[t] = "save" /\ at'[t] = "idle" /\ call[t].actor = u /\ ActiveOwner(u) =>
               ActiveOwner(u)'
<1>1. StaffInv /\ TurnInv /\ [Next]_staffVars => [Kept]_staffVars
  <2> SUFFICES ASSUME StaffInv, TurnInv, Next, NEW t \in Workers, NEW u \in Users,
                      at[t] = "save", at'[t] = "idle", call[t].actor = u, ActiveOwner(u)
               PROVE  ActiveOwner(u)'
    OBVIOUS
  <2> DEFINE c == call[t]
  <2>0. PICK m \in members : m.role = "owner" /\ m.user = u /\ account[u] = "active"
    BY DEF ActiveOwner, Owners
  <2>1. Save(t) \/ UNCHANGED <<account, members>>
    <3>1. ASSUME NEW s \in Workers, Save(s) PROVE s = t
      <4>1. at'[t] = at[t] \/ s = t
        BY <3>1 DEF Save, SaveNew, Unique, SaveRole, SaveRemoval, SaveStatus, Fail, End, StaffInv, StaffTypeOK
      <4> QED
        BY <4>1
    <3>2. ASSUME NEW s \in Workers, Request(s) \/ Handle(s) \/ Die(s), ~Save(s)
          PROVE  UNCHANGED <<account, members>>
      BY <3>2 DEF Request, Send, Handle, ReadActor, ReadAccess, ReadUser, ReadExisting, ReadMember,
                  CountOwners, Die, Proceed, Fail
    <3>3. ASSUME NEW v \in Users, NEW s \in {"active", "inactive"} PROVE ~Elsewhere(v, s)
      BY DEF Elsewhere
    <3> QED
      BY <3>1, <3>2, <3>3 DEF Next
  <2>2. CASE UNCHANGED <<account, members>>
    BY <2>2 DEF ActiveOwner, Owners
  <2>3. CASE SaveNew(t) /\ ~UNCHANGED <<account, members>>
    <3>1. members \subseteq members' /\ account' = WithUser(c)
          /\ (c.status = "none" => account[c.who] = "none")
      BY <2>3 DEF SaveNew, Unique, Fail
    <3>2. account'[u] = "active"
      BY <2>0, <3>1 DEF WithUser, StaffInv, StaffTypeOK
    <3> QED
      BY <2>0, <3>1, <3>2 DEF ActiveOwner, Owners
  <2>4. ASSUME c.op # "add" PROVE m.id = c.who => m \in c.known /\ Permitted(c)
    BY <2>4, KnownTarget DEF TurnInv, Knows
  <2>5. CASE SaveRole(t) /\ ~UNCHANGED <<account, members>>
    <3>1. /\ members' = {IF n.id = c.who THEN [n EXCEPT !.role = c.what] ELSE n : n \in members}
          /\ account' = account /\ c.op = "role"
      BY <2>5 DEF SaveRole, Fail
    <3>2. CASE m.id # c.who
      <4>1. m \in members'
        BY <3>1, <3>2
      <4> QED
        BY <2>0, <3>1, <4>1 DEF ActiveOwner, Owners
    <3>3. CASE m.id = c.who
      <4>1. c.what = "owner"
        BY <2>0, <2>4, <3>1, <3>3 DEF Permitted, Ousts
      <4>2. [m EXCEPT !.role = c.what] \in members' /\ m \in Member
        BY <3>1, <3>3 DEF StaffInv, StaffTypeOK
      <4>3. /\ [m EXCEPT !.role = c.what].role = "owner"
            /\ [m EXCEPT !.role = c.what].user = u
        BY <2>0, <4>1, <4>2 DEF Member
      <4> QED
        BY <2>0, <3>1, <4>2, <4>3 DEF ActiveOwner, Owners
    <3> QED
      BY <3>2, <3>3
  <2>6. CASE SaveRemoval(t)
    <3>1. m.id # c.who
      BY <2>0, <2>4, <2>6 DEF Permitted, SaveRemoval
    <3> QED
      BY <2>0, <2>6, <3>1 DEF SaveRemoval, WithId, ActiveOwner, Owners
  <2>7. CASE SaveStatus(t)
    <3>1. c.op = "status" /\ Permitted(c)
      BY <2>7 DEF SaveStatus, TurnInv, Knows
    <3>2. ~ \E n \in WithId(c.who, c.known) : n.user = u
      BY <3>1 DEF Permitted, WithId
    <3>3. account'[u] = account[u] /\ members' = members
      BY <2>7, <3>2 DEF SaveStatus
    <3> QED
      BY <2>0, <3>3 DEF ActiveOwner, Owners
  <2> QED
    BY <2>1, <2>2, <2>3, <2>5, <2>6, <2>7 DEF Save
<1> QED
  BY <1>1, StaffInductive, TurnsInductive, PTL DEF Spec, OwnersKeepThemselves

-----------------------------------------------------------------------------
(* Sessions: what login, refresh and logout are at each of their statements *)

Stages == {"idle", "row", "rotate", "account", "membership", "issue", "family", "revoke",
           "logout"}

\* What login, refresh and logout work on.
Requests ==
  [op : {"login", "renew", "logout"}, user : Users, token : 0 .. MaxSessions,
   chain : 0 .. MaxSessions, todo : SUBSET (1 .. MaxSessions)]

SignInTypes ==
  /\ sessions \subseteq Session
  /\ issued \in 0 .. MaxSessions
  /\ received \subseteq 1 .. issued
  /\ expired \subseteq 1 .. issued
  /\ holder \in [1 .. MaxSessions -> Visits \cup {Nobody}]
  /\ stage \in [Visits -> Stages]
  /\ visit \in [Visits -> Requests \cup {NoVisit}]

\* The request brought a token along.
Brings(v) == visit[v].op \in {"renew", "logout"}

\* What a request is at each of its statements.
VisitsInv ==
  \A v \in Visits :
    /\ visit[v].op = "none" <=> stage[v] = "idle"
    /\ stage[v] \in {"row", "rotate", "family", "revoke"} => visit[v].op = "renew"
    /\ stage[v] = "logout" => visit[v].op = "logout"
    /\ stage[v] \in {"account", "membership", "issue"} => visit[v].op \in {"login", "renew"}
    /\ Brings(v) => visit[v].token \in 1 .. issued /\ visit[v].chain \in 1 .. issued

\* Rows are numbered as they were issued.
RowsInv ==
  /\ \A r, s \in sessions : r.id = s.id => r = s
  /\ \A s \in sessions : s.id <= issued /\ s.chain <= issued
  /\ \A v \in Visits : \A s \in sessions :
       Brings(v) /\ s.id = visit[v].token => s.chain = visit[v].chain

Writing == {"account", "membership", "issue"}

\* A row that is being revoked is live, and held by a renewal: the one it was brought to,
\* or one that ends a family.
HoldersInv ==
  \A i \in 1 .. MaxSessions :
    holder[i] # Nobody =>
      /\ LiveRow(i)
      /\ visit[holder[i]].op = "renew"
      /\ stage[holder[i]] \in Writing \cup {"revoke"}
      /\ stage[holder[i]] \in Writing => visit[holder[i]].token = i

SignInInv == SignInTypes /\ VisitsInv /\ RowsInv /\ HoldersInv

-----------------------------------------------------------------------------
(* One request at a time for a sign-in *)

Alone == \A v, w \in Visits : Brings(v) /\ Brings(w) /\ visit[v].chain = visit[w].chain => v = w

\* A sign-in is of one user.
FamiliesInv ==
  /\ \A r, s \in sessions : r.chain = s.chain => r.user = s.user
  /\ \A v \in Visits : \A s \in sessions :
       Brings(v) /\ s.chain = visit[v].chain => s.user = visit[v].user

\* Tokens are exchanged for later ones, each row's as its revocation says.
SuccessorsInv ==
  /\ successors \subseteq (1 .. issued) \X (1 .. issued)
  /\ \A s \in sessions :
       /\ \A p, q \in SuccessorsOf(s.id) : p = q
       /\ s.revoked \in {"no", "logout"} => SuccessorsOf(s.id) = {}
       /\ s.revoked = "rotated" => SuccessorsOf(s.id) # {}

\* A renewal past the reading of its row.
Exchanging(v) == visit[v].op = "renew" /\ stage[v] \in Writing \cup {"rotate"}

\* The sign-in of a renewal is not over; its row is the only one that can be live, and is
\* its own to revoke unless a reuse elsewhere was faster.
ExchangesInv ==
  \A v \in Visits :
    Exchanging(v) =>
      /\ visit[v].chain \notin caught
      /\ \A s \in sessions : s.chain = visit[v].chain /\ Live(s) => s.id = visit[v].token
      /\ \A s \in Row(visit[v].token) :
           /\ s.revoked \in {"no", "reuse"}
           /\ SuccessorsOf(s.id) = {}
           /\ stage[v] \in Writing /\ Live(s) => holder[s.id] = v

\* Nothing of a family escapes the request that ends it.
ReuseInv ==
  /\ caught \subseteq 1 .. issued
  /\ \A v \in Visits : \A s \in sessions :
       stage[v] = "revoke" /\ s.chain = visit[v].chain /\ Live(s) =>
         s.id \in visit[v].todo \/ holder[s.id] = v

ChainsInv ==
  /\ Alone
  /\ FamiliesInv
  /\ SuccessorsInv
  /\ ExchangesInv
  /\ ReuseInv
  /\ OneLivePerSignIn
  /\ ReuseEndsSignIn

-----------------------------------------------------------------------------
(* Steps *)

\* A request reads on: what it read has let it.
ReadOn(v) ==
  \/ /\ stage[v] = "row"
     /\ ~LiveRow(visit[v].token)
     /\ Continue(v, "family")
  \/ /\ stage[v] = "row"
     /\ LiveRow(visit[v].token)
     /\ Continue(v, "rotate")
  \/ stage[v] = "account" /\ Continue(v, "membership")
  \/ stage[v] = "membership" /\ Continue(v, "issue")

\* The statements come to these, by what they do to the tables and to the request.
LEMMA StepKinds ==
  ASSUME SessionStep
  PROVE  \/ \E v \in Visits, u \in Users : SignIn(v, u)
         \/ \E v \in Visits, i \in received, op \in {"renew", "logout"} : Present(v, op, i)
         \/ \E v \in Visits : Abandon(v)
         \/ \E v \in Visits : ReadOn(v)
         \/ \E v \in Visits : Rotate(v)
         \/ \E v \in Visits, arrives \in BOOLEAN : Issue(v, arrives)
         \/ \E v \in Visits : ReadFamily(v)
         \/ \E v \in Visits : RevokeNext(v)
         \/ \E v \in Visits : RefuseReuse(v)
         \/ \E v \in Visits : SignOut(v)
         \/ \E i \in 1 .. issued : Expire(i)
         \/ Prune
  <1>1. CASE \E v \in Visits : VisitStep(v)
    <2>1. PICK v \in Visits : VisitStep(v)
      BY <1>1
    <2>2. CASE ReadRow(v)
      <3>1. Abandon(v) \/ ReadOn(v)
        BY <2>2 DEF ReadRow, ReadOn
      <3>2. QED
        BY <3>1
    <2>3. CASE ReadAccount(v)
      <3>1. Abandon(v) \/ ReadOn(v)
        BY <2>3 DEF ReadAccount, ReadOn
      <3>2. QED
        BY <3>1
    <2>4. CASE ReadMembership(v)
      <3>1. Abandon(v) \/ ReadOn(v)
        BY <2>4 DEF ReadMembership, ReadOn
      <3>2. QED
        BY <3>1
    <2>5. CASE DieSigningIn(v)
      BY <2>5 DEF DieSigningIn
    <2>6. CASE \E arrives \in BOOLEAN : Issue(v, arrives)
      BY <2>6
    <2>7. CASE Rotate(v) \/ ReadFamily(v) \/ RevokeNext(v) \/ RefuseReuse(v) \/ SignOut(v)
      BY <2>7
    <2>8. QED
      BY <2>1, <2>2, <2>3, <2>4, <2>5, <2>6, <2>7 DEF VisitStep
  <1>2. CASE \E v \in Visits, i \in received : Present(v, "renew", i) \/ Present(v, "logout", i)
    BY <1>2
  <1>3. CASE (\E v \in Visits, u \in Users : SignIn(v, u)) \/ Prune
             \/ \E i \in 1 .. issued : Expire(i)
    BY <1>3
  <1>4. QED
    BY <1>1, <1>2, <1>3 DEF SessionStep

\* A row after a revocation.
After(s, t, ids, why) ==
  /\ t.id = s.id
  /\ t.user = s.user
  /\ t.chain = s.chain
  /\ t.revoked = IF s.id \in ids /\ s.revoked = "no" THEN why ELSE s.revoked

\* A revocation leaves the rows, and changes the revocation of the live ones it names.
LEMMA RevokedRows ==
  ASSUME sessions \subseteq Session,
         NEW ids, NEW why \in Revocations
  PROVE  /\ Revoke(ids, why) \subseteq Session
         /\ \A t \in Revoke(ids, why) : \E s \in sessions : After(s, t, ids, why)
         /\ \A s \in sessions : \E t \in Revoke(ids, why) : After(s, t, ids, why)
  <1> DEFINE Mark(s) == IF s.id \in ids /\ Live(s) THEN [s EXCEPT !.revoked = why] ELSE s
  <1>1. \A s \in sessions : Mark(s) \in Session /\ After(s, Mark(s), ids, why)
    <2>1. TAKE s \in sessions
    <2>2. s \in Session
      OBVIOUS
    <2>3. QED
      BY <2>2 DEF Session, After, Live
  <1>2. Revoke(ids, why) = {Mark(s) : s \in sessions}
    BY DEF Revoke
  <1>3. QED
    BY <1>1, <1>2

-----------------------------------------------------------------------------
(* The types, and who holds which row *)

\* The initial state has the invariant.
LEMMA SignInInitially ==
  SignInInit => SignInInv
  <1> SUFFICES ASSUME SignInInit
               PROVE  SignInInv
    OBVIOUS
  <1> USE SessionsAssumption DEF SignInInit
  <1>1. SignInTypes
    BY DEF SignInTypes, Stages
  <1>2. VisitsInv
    BY DEF VisitsInv, Brings, NoVisit
  <1>3. RowsInv
    BY DEF RowsInv
  <1>4. HoldersInv
    BY DEF HoldersInv
  <1>5. QED
    BY <1>1, <1>2, <1>3, <1>4 DEF SignInInv

\* A session step keeps the types.
LEMMA SignInTypesStep ==
  ASSUME SignInInv, SessionStep
  PROVE  SignInTypes'
  <1> USE SessionsAssumption DEF SignInInv, SignInTypes
  <1>1. ASSUME NEW v \in Visits, NEW u \in Users, SignIn(v, u)
        PROVE  SignInTypes'
    BY <1>1 DEF SignIn, Arrive, Requests, Stages
  <1>2. ASSUME NEW v \in Visits, NEW i \in received, NEW op \in {"renew", "logout"},
               Present(v, op, i)
        PROVE  SignInTypes'
    <2>1. PICK s \in Row(i) :
            Arrive(v, IF op = "renew" THEN "row" ELSE "logout",
                   [op |-> op, user |-> s.user, token |-> i, chain |-> s.chain, todo |-> {}])
      BY <1>2 DEF Present
    <2>2. s \in Session /\ i \in 1 .. MaxSessions
      BY DEF Row
    <2>3. [op |-> op, user |-> s.user, token |-> i, chain |-> s.chain, todo |-> {}] \in Requests
      BY <2>2 DEF Session, Requests
    <2>4. QED
      BY <2>1, <2>3 DEF Arrive, Stages
  <1>3. ASSUME NEW v \in Visits, Abandon(v)
        PROVE  SignInTypes'
    BY <1>3 DEF Abandon, Close, Stages
  <1>4. ASSUME NEW v \in Visits, ReadOn(v)
        PROVE  SignInTypes'
    BY <1>4 DEF ReadOn, Continue, Stages
  <1>5. ASSUME NEW v \in Visits, Rotate(v)
        PROVE  SignInTypes'
    BY <1>5 DEF Rotate, Stages
  <1>6. ASSUME NEW v \in Visits, NEW arrives \in BOOLEAN, Issue(v, arrives)
        PROVE  SignInTypes'
    <2> DEFINE new == [id |-> issued + 1, user |-> visit[v].user, revoked |-> "no",
                       chain |-> IF visit[v].op = "login" THEN issued + 1 ELSE visit[v].chain]
    <2>1. stage[v] = "issue" /\ issued < MaxSessions
      BY <1>6 DEF Issue
    <2>2. visit[v] \in Requests /\ visit[v].op \in {"login", "renew"}
      BY <2>1 DEF VisitsInv, NoVisit
    <2>3. visit[v].op = "renew" => visit[v].chain \in 1 .. issued
      BY DEF VisitsInv, Brings
    <2>4. new \in Session
      BY <2>1, <2>2, <2>3 DEF Requests, Session, Revocations
    <2>5. Revoke(HeldBy(v), "rotated") \subseteq Session
      BY RevokedRows DEF Revocations
    <2>6. sessions' \subseteq Session
      BY <1>6, <2>4, <2>5 DEF Issue
    <2>7. QED
      BY <1>6, <2>1, <2>6 DEF Issue, Close, Stages
  <1>7. ASSUME NEW v \in Visits, ReadFamily(v)
        PROVE  SignInTypes'
    <2> DEFINE todo == {s.id : s \in {s \in sessions : s.user = visit[v].user /\ Live(s)}}
    <2>1. visit[v] \in Requests
      BY <1>7 DEF ReadFamily, VisitsInv, NoVisit
    <2>2. todo \subseteq 1 .. MaxSessions
      BY DEF Session
    <2>3. [visit[v] EXCEPT !.todo = todo] \in Requests
      BY <2>1, <2>2 DEF Requests
    <2>4. visit' = [visit EXCEPT ![v] = [visit[v] EXCEPT !.todo = todo]]
      BY <1>7 DEF ReadFamily
    <2>5. QED
      BY <1>7, <2>3, <2>4 DEF ReadFamily, Stages
  <1>8. ASSUME NEW v \in Visits, RevokeNext(v)
        PROVE  SignInTypes'
    <2>1. visit[v] \in Requests
      BY <1>8 DEF RevokeNext, VisitsInv, NoVisit
    <2>2. PICK i \in visit[v].todo :
            /\ holder' = IF LiveRow(i) THEN [holder EXCEPT ![i] = v] ELSE holder
            /\ visit' = [visit EXCEPT ![v] = [visit[v] EXCEPT !.todo = @ \ {i}]]
      BY <1>8 DEF RevokeNext
    <2>3. [visit[v] EXCEPT !.todo = @ \ {i}] \in Requests
      BY <2>1 DEF Requests
    <2>4. QED
      BY <1>8, <2>2, <2>3 DEF RevokeNext
  <1>9. ASSUME NEW v \in Visits, RefuseReuse(v)
        PROVE  SignInTypes'
    <2>1. sessions' \subseteq Session
      BY <1>9, RevokedRows DEF RefuseReuse, Revocations
    <2>2. QED
      BY <1>9, <2>1 DEF RefuseReuse, Close, Stages
  <1>10. ASSUME NEW v \in Visits, SignOut(v)
         PROVE  SignInTypes'
    <2>1. sessions' \subseteq Session
      BY <1>10, RevokedRows DEF SignOut, Revocations
    <2>2. QED
      BY <1>10, <2>1 DEF SignOut, Close, Stages
  <1>11. ASSUME NEW i \in 1 .. issued, Expire(i)
         PROVE  SignInTypes'
    BY <1>11 DEF Expire
  <1>12. CASE Prune
    BY <1>12 DEF Prune
  <1>13. QED
    BY <1>1, <1>2, <1>3, <1>4, <1>5, <1>6, <1>7, <1>8, <1>9, <1>10, <1>11, <1>12, StepKinds, SMTT(30)

\* A session step leaves every request where its statement says it is.
LEMMA VisitsStep ==
  ASSUME SignInInv, SessionStep
  PROVE  VisitsInv'
  <1> USE DEF SignInInv, SignInTypes, VisitsInv, Brings
  <1>1. ASSUME NEW v \in Visits, NEW u \in Users, SignIn(v, u)
        PROVE  VisitsInv'
    BY <1>1 DEF SignIn, Arrive
  <1>2. ASSUME NEW v \in Visits, NEW i \in received, NEW op \in {"renew", "logout"},
               Present(v, op, i)
        PROVE  VisitsInv'
    <2>1. PICK s \in Row(i) :
            Arrive(v, IF op = "renew" THEN "row" ELSE "logout",
                   [op |-> op, user |-> s.user, token |-> i, chain |-> s.chain, todo |-> {}])
      BY <1>2 DEF Present
    <2>2. s.chain \in 1 .. issued /\ i \in 1 .. issued
      BY DEF Row, RowsInv, Session
    <2>3. QED
      BY <2>1, <2>2 DEF Arrive
  <1>3. ASSUME NEW v \in Visits, Abandon(v)
        PROVE  VisitsInv'
    BY <1>3 DEF Abandon, Close, NoVisit
  <1>4. ASSUME NEW v \in Visits, ReadOn(v)
        PROVE  VisitsInv'
    BY <1>4 DEF ReadOn, Continue
  <1>5. ASSUME NEW v \in Visits, Rotate(v)
        PROVE  VisitsInv'
    BY <1>5 DEF Rotate
  <1>6. ASSUME NEW v \in Visits, NEW arrives \in BOOLEAN, Issue(v, arrives)
        PROVE  VisitsInv'
    BY <1>6 DEF Issue, Close, NoVisit
  <1>7. ASSUME NEW v \in Visits, ReadFamily(v)
        PROVE  VisitsInv'
    <2>1. visit[v] \in Requests
      BY <1>7 DEF ReadFamily, NoVisit
    <2>2. QED
      BY <1>7, <2>1 DEF ReadFamily, Requests
  <1>8. ASSUME NEW v \in Visits, RevokeNext(v)
        PROVE  VisitsInv'
    <2>1. visit[v] \in Requests
      BY <1>8 DEF RevokeNext, NoVisit
    <2>2. QED
      BY <1>8, <2>1 DEF RevokeNext, Requests
  <1>9. ASSUME NEW v \in Visits, RefuseReuse(v)
        PROVE  VisitsInv'
    BY <1>9 DEF RefuseReuse, Close, NoVisit
  <1>10. ASSUME NEW v \in Visits, SignOut(v)
         PROVE  VisitsInv'
    BY <1>10 DEF SignOut, Close, NoVisit
  <1>11. ASSUME NEW i \in 1 .. issued, Expire(i)
         PROVE  VisitsInv'
    BY <1>11 DEF Expire
  <1>12. CASE Prune
    BY <1>12 DEF Prune
  <1>13. QED
    BY <1>1, <1>2, <1>3, <1>4, <1>5, <1>6, <1>7, <1>8, <1>9, <1>10, <1>11, <1>12, StepKinds

\* What the requests work on, when no request arrives: a subset of it, by the same requests.
LEMMA VisitsStay ==
  ASSUME SignInInv, NEW v \in Visits,
         \/ Abandon(v) \/ ReadOn(v) \/ Rotate(v) \/ ReadFamily(v) \/ RevokeNext(v)
         \/ RefuseReuse(v) \/ SignOut(v) \/ Issue(v, TRUE) \/ Issue(v, FALSE)
  PROVE  /\ \A w \in Visits \ {v} : visit'[w] = visit[w] /\ stage'[w] = stage[w]
         /\ \/ visit'[v] = NoVisit /\ stage'[v] = "idle"
            \/ /\ visit'[v].op = visit[v].op
               /\ visit'[v].user = visit[v].user
               /\ visit'[v].token = visit[v].token
               /\ visit'[v].chain = visit[v].chain
  <1> USE DEF SignInInv, SignInTypes
  <1>1. CASE Abandon(v) \/ RefuseReuse(v) \/ SignOut(v) \/ Issue(v, TRUE) \/ Issue(v, FALSE)
    BY <1>1 DEF Abandon, RefuseReuse, SignOut, Issue, Close
  <1>2. CASE ReadOn(v)
    BY <1>2 DEF ReadOn, Continue
  <1>3. CASE Rotate(v)
    BY <1>3 DEF Rotate
  <1>4. ASSUME NEW todo, stage[v] \in {"family", "revoke"},
               visit' = [visit EXCEPT ![v].todo = todo]
        PROVE  /\ \A w \in Visits \ {v} : visit'[w] = visit[w]
               /\ visit'[v].op = visit[v].op
               /\ visit'[v].user = visit[v].user
               /\ visit'[v].token = visit[v].token
               /\ visit'[v].chain = visit[v].chain
    <2>1. visit[v] \in Requests
      BY <1>4 DEF VisitsInv, NoVisit
    <2>2. QED
      BY <1>4, <2>1 DEF Requests
  <1>5. CASE ReadFamily(v)
    <2>1. \A w \in Visits \ {v} : stage'[w] = stage[w]
      BY <1>5 DEF ReadFamily
    <2>2. QED
      BY <1>4, <1>5, <2>1 DEF ReadFamily
  <1>6. CASE RevokeNext(v)
    <2>1. PICK i \in visit[v].todo :
            visit' = [visit EXCEPT ![v].todo = visit[v].todo \ {i}]
      BY <1>6 DEF RevokeNext
    <2>2. \A w \in Visits \ {v} : stage'[w] = stage[w]
      BY <1>6 DEF RevokeNext
    <2>3. QED
      BY <1>4, <1>6, <2>1, <2>2 DEF RevokeNext
  <1>7. QED
    BY <1>1, <1>2, <1>3, <1>5, <1>6

\* Unless a request arrives, the requests stay what they are, or end.
LEMMA VisitsOfStep ==
  ASSUME SignInInv, SessionStep
  PROVE  \/ \E v \in Visits, u \in Users : SignIn(v, u)
         \/ \E v \in Visits, i \in received, op \in {"renew", "logout"} : Present(v, op, i)
         \/ \A w \in Visits :
              \/ visit'[w].op = "none"
              \/ /\ visit'[w].op = visit[w].op
                 /\ visit'[w].user = visit[w].user
                 /\ visit'[w].token = visit[w].token
                 /\ visit'[w].chain = visit[w].chain
  <1>1. ASSUME NEW v \in Visits,
               \/ Abandon(v) \/ ReadOn(v) \/ Rotate(v) \/ ReadFamily(v) \/ RevokeNext(v)
               \/ RefuseReuse(v) \/ SignOut(v) \/ Issue(v, TRUE) \/ Issue(v, FALSE)
        PROVE  \A w \in Visits :
                 \/ visit'[w].op = "none"
                 \/ /\ visit'[w].op = visit[w].op
                    /\ visit'[w].user = visit[w].user
                    /\ visit'[w].token = visit[w].token
                    /\ visit'[w].chain = visit[w].chain
    <2>1. /\ \A w \in Visits \ {v} : visit'[w] = visit[w] /\ stage'[w] = stage[w]
          /\ \/ visit'[v] = NoVisit /\ stage'[v] = "idle"
             \/ /\ visit'[v].op = visit[v].op
                /\ visit'[v].user = visit[v].user
                /\ visit'[v].token = visit[v].token
                /\ visit'[v].chain = visit[v].chain
      BY <1>1, VisitsStay
    <2>2. QED
      BY <2>1 DEF NoVisit
  <1>2. CASE (\E i \in 1 .. issued : Expire(i)) \/ Prune
    BY <1>2 DEF Expire, Prune
  <1>3. ASSUME NEW v \in Visits, NEW arrives \in BOOLEAN, Issue(v, arrives)
        PROVE  Issue(v, TRUE) \/ Issue(v, FALSE)
    <2>1. arrives = TRUE \/ arrives = FALSE
      OBVIOUS
    <2>2. QED
      BY <1>3, <2>1
  <1>4. QED
    BY <1>1, <1>2, <1>3, StepKinds

\* The rows of every state are the ones before, revoked or pruned, and at most one that is
\* issued.
LEMMA RowsOfStep ==
  ASSUME SignInInv, SessionStep
  PROVE  /\ issued' \in {issued, issued + 1}
         /\ \A t \in sessions' :
              \/ \E s \in sessions :
                   /\ t.id = s.id
                   /\ t.user = s.user
                   /\ t.chain = s.chain
              \/ /\ issued' = issued + 1
                 /\ t.id = issued + 1
                 /\ t.chain <= issued + 1
         /\ \A r, s \in sessions' : r.id = s.id => r = s
  <1> USE DEF SignInInv, SignInTypes, RowsInv
  <1>1. ASSUME NEW ids, NEW why \in Revocations
        PROVE  /\ \A t \in Revoke(ids, why) : \E s \in sessions : After(s, t, ids, why)
               /\ \A r, s \in Revoke(ids, why) : r.id = s.id => r = s
    <2>1. /\ Revoke(ids, why) \subseteq Session
          /\ \A t \in Revoke(ids, why) : \E s \in sessions : After(s, t, ids, why)
      BY <1>1, RevokedRows
    <2>2. ASSUME NEW r \in Revoke(ids, why), NEW s \in Revoke(ids, why), r.id = s.id
          PROVE  r = s
      <3>1. PICK q \in sessions : After(q, r, ids, why)
        BY <2>1
      <3>2. PICK p \in sessions : After(p, s, ids, why)
        BY <2>1
      <3>3. p = q
        BY <2>2, <3>1, <3>2 DEF After
      <3>4. r \in Session /\ s \in Session
        BY <2>1
      <3>5. QED
        BY <3>1, <3>2, <3>3, <3>4 DEF After, Session
    <2>3. QED
      BY <2>1, <2>2
  <1>2. CASE UNCHANGED <<sessions, issued>>
    BY <1>2
  <1>3. CASE Prune
    BY <1>3 DEF Prune
  <1>4. ASSUME NEW ids, NEW why \in Revocations,
               sessions' = Revoke(ids, why), issued' = issued
        PROVE  /\ \A t \in sessions' : \E s \in sessions :
                    t.id = s.id /\ t.user = s.user /\ t.chain = s.chain
               /\ \A r, s \in sessions' : r.id = s.id => r = s
    BY <1>1, <1>4 DEF After
  <1>5. CASE \E v \in Visits : RefuseReuse(v) \/ SignOut(v)
    BY <1>4, <1>5 DEF RefuseReuse, SignOut, Revocations
  <1>6. ASSUME NEW v \in Visits, NEW arrives \in BOOLEAN, Issue(v, arrives)
        PROVE  /\ issued' = issued + 1
               /\ \A t \in sessions' :
                    \/ \E s \in sessions :
                         t.id = s.id /\ t.user = s.user /\ t.chain = s.chain
                    \/ t.id = issued + 1 /\ t.chain <= issued + 1
               /\ \A r, s \in sessions' : r.id = s.id => r = s
    <2> DEFINE old == Revoke(HeldBy(v), "rotated")
               new == [id |-> issued + 1, user |-> visit[v].user, revoked |-> "no",
                       chain |-> IF visit[v].op = "login" THEN issued + 1
                                 ELSE visit[v].chain]
    <2>1. /\ \A t \in old : \E s \in sessions : After(s, t, HeldBy(v), "rotated")
          /\ \A r, s \in old : r.id = s.id => r = s
      BY <1>1 DEF Revocations
    <2>2. sessions' = old \cup {new} /\ issued' = issued + 1 /\ stage[v] = "issue"
      BY <1>6 DEF Issue
    <2>3. new.chain <= issued + 1
      BY <2>2 DEF VisitsInv, Brings
    <2>4. \A t \in old : t.id \in Nat /\ t.id < issued + 1
      BY <2>1 DEF After, Session
    <2>5. \A r, s \in sessions' : r.id = s.id => r = s
      BY <2>1, <2>2, <2>4
    <2>6. \A t \in old : \E s \in sessions :
            t.id = s.id /\ t.user = s.user /\ t.chain = s.chain
      BY <2>1 DEF After
    <2>7. QED
      BY <2>2, <2>3, <2>5, <2>6
  <1>7. CASE \E v \in Visits : \/ Abandon(v) \/ ReadOn(v) \/ Rotate(v) \/ ReadFamily(v)
                               \/ RevokeNext(v)
    <2>1. UNCHANGED <<sessions, issued>>
      BY <1>7 DEF Abandon, ReadOn, Continue, Rotate, ReadFamily, RevokeNext
    <2>2. QED
      BY <1>2, <2>1
  <1>8. CASE (\E v \in Visits, u \in Users : SignIn(v, u))
             \/ \E v \in Visits, i \in received, op \in {"renew", "logout"} : Present(v, op, i)
    <2>1. UNCHANGED <<sessions, issued>>
      BY <1>8 DEF SignIn, Present, Arrive
    <2>2. QED
      BY <1>2, <2>1
  <1>9. CASE \E i \in 1 .. issued : Expire(i)
    BY <1>2, <1>9 DEF Expire
  <1>10. ASSUME NEW v \in Visits, RefuseReuse(v) \/ SignOut(v)
         PROVE  issued' = issued
    BY <1>10 DEF RefuseReuse, SignOut
  <1>11. QED
    BY <1>3, <1>4, <1>5, <1>6, <1>7, <1>8, <1>9, <1>10, StepKinds DEF Prune

\* A session step keeps the rows numbered, and a request with the sign-in of its token.
LEMMA RowsStep ==
  ASSUME SignInInv, SessionStep
  PROVE  RowsInv'
  <1> USE DEF SignInInv, SignInTypes, RowsInv
  <1>1. /\ issued' \in {issued, issued + 1}
        /\ \A t \in sessions' :
             \/ \E s \in sessions : t.id = s.id /\ t.user = s.user /\ t.chain = s.chain
             \/ issued' = issued + 1 /\ t.id = issued + 1 /\ t.chain <= issued + 1
        /\ \A r, s \in sessions' : r.id = s.id => r = s
    BY RowsOfStep
  <1>2. \A s \in sessions' : s.id <= issued' /\ s.chain <= issued'
    BY <1>1 DEF Session
  <1>3. ASSUME \A w \in Visits :
                 \/ visit'[w].op = "none"
                 \/ /\ visit'[w].op = visit[w].op
                    /\ visit'[w].token = visit[w].token
                    /\ visit'[w].chain = visit[w].chain
        PROVE  \A w \in Visits : \A s \in sessions' :
                 Brings(w)' /\ s.id = visit'[w].token => s.chain = visit'[w].chain
    <2>1. SUFFICES ASSUME NEW w \in Visits, NEW t \in sessions',
                          Brings(w)', t.id = visit'[w].token
                   PROVE  t.chain = visit'[w].chain
      OBVIOUS
    <2>2. /\ Brings(w)
          /\ visit'[w].token = visit[w].token
          /\ visit'[w].chain = visit[w].chain
      BY <1>3, <2>1 DEF Brings
    <2>3. visit[w].token \in 1 .. issued
      BY <2>2 DEF VisitsInv
    <2>4. PICK s \in sessions : t.id = s.id /\ t.user = s.user /\ t.chain = s.chain
      BY <1>1, <2>1, <2>2, <2>3
    <2>5. QED
      BY <2>1, <2>2, <2>4
  <1>4. ASSUME NEW v \in Visits, NEW u \in Users, SignIn(v, u)
        PROVE  RowsInv'
    BY <1>4 DEF SignIn, Arrive, Brings
  <1>5. ASSUME NEW v \in Visits, NEW i \in received, NEW op \in {"renew", "logout"},
               Present(v, op, i)
        PROVE  RowsInv'
    <2>1. PICK s \in Row(i) :
            Arrive(v, IF op = "renew" THEN "row" ELSE "logout",
                   [op |-> op, user |-> s.user, token |-> i, chain |-> s.chain, todo |-> {}])
      BY <1>5 DEF Present
    <2>2. s \in sessions /\ s.id = i
      BY DEF Row
    <2>3. QED
      BY <1>1, <1>2, <2>1, <2>2 DEF Arrive, Brings
  <1>6. QED
    BY <1>1, <1>2, <1>3, <1>4, <1>5, VisitsOfStep

\* A live row that a revocation does not name stays live.
LEMMA StaysLive ==
  ASSUME sessions \subseteq Session,
         NEW ids, NEW why \in Revocations, NEW i, i \notin ids, LiveRow(i)
  PROVE  \E t \in Revoke(ids, why) : t.id = i /\ Live(t)
  <1>1. PICK s \in sessions : s.id = i /\ Live(s)
    BY DEF LiveRow, Row
  <1>2. PICK t \in Revoke(ids, why) : After(s, t, ids, why)
    BY RevokedRows
  <1>3. QED
    BY <1>1, <1>2 DEF After, Live

\* A session step leaves every held row live, and held by the request that revokes it.
LEMMA HoldersStep ==
  ASSUME SignInInv, SessionStep
  PROVE  HoldersInv'
  <1> USE SessionsAssumption DEF SignInInv, SignInTypes, HoldersInv, Writing
  <1>1. ASSUME NEW v \in Visits, NEW u \in Users, SignIn(v, u)
        PROVE  HoldersInv'
    <2>1. stage[v] = "idle" /\ UNCHANGED <<sessions, holder>>
      BY <1>1 DEF SignIn, Arrive
    <2>2. \A w \in Visits \ {v} : visit'[w] = visit[w] /\ stage'[w] = stage[w]
      BY <1>1 DEF SignIn, Arrive
    <2>3. QED
      BY <2>1, <2>2 DEF LiveRow, Row
  <1>2. ASSUME NEW v \in Visits, NEW i \in received, NEW op \in {"renew", "logout"},
               Present(v, op, i)
        PROVE  HoldersInv'
    <2>1. stage[v] = "idle" /\ UNCHANGED <<sessions, holder>>
      BY <1>2 DEF Present, Arrive
    <2>2. \A w \in Visits \ {v} : visit'[w] = visit[w] /\ stage'[w] = stage[w]
      BY <1>2 DEF Present, Arrive
    <2>3. QED
      BY <2>1, <2>2 DEF LiveRow, Row
  <1>3. ASSUME NEW v \in Visits, Abandon(v)
        PROVE  HoldersInv'
    BY <1>3 DEF Abandon, Close, LiveRow, Row
  <1>4. ASSUME NEW v \in Visits, ReadOn(v)
        PROVE  HoldersInv'
    BY <1>4 DEF ReadOn, Continue, LiveRow, Row
  <1>5. ASSUME NEW v \in Visits, Rotate(v)
        PROVE  HoldersInv'
    <2>1. visit[v].op = "renew"
      BY <1>5 DEF Rotate, VisitsInv
    <2>2. UNCHANGED <<sessions, visit>> /\ stage' = [stage EXCEPT ![v] = "account"]
      BY <1>5 DEF Rotate
    <2>3. \A i \in 1 .. MaxSessions : holder[i] # v
      BY <1>5 DEF Rotate
    <2>4. \A i \in 1 .. MaxSessions :
            holder'[i] = holder[i] \/ (holder'[i] = v /\ i = visit[v].token /\ LiveRow(i))
      BY <1>5 DEF Rotate
    <2>5. QED
      BY <2>1, <2>2, <2>3, <2>4 DEF LiveRow, Row
  <1>6. ASSUME NEW v \in Visits, NEW ids, NEW why \in Revocations,
               Revoke(ids, why) \subseteq sessions',
               Close(v),
               \A i \in ids : i \in 1 .. MaxSessions => holder[i] \in {v, Nobody} \/ ~LiveRow(i)
        PROVE  HoldersInv'
    <2>1. SUFFICES ASSUME NEW i \in 1 .. MaxSessions, holder'[i] # Nobody
                   PROVE  /\ LiveRow(i)'
                          /\ visit'[holder'[i]].op = "renew"
                          /\ stage'[holder'[i]] \in Writing \cup {"revoke"}
                          /\ stage'[holder'[i]] \in Writing => visit'[holder'[i]].token = i
      BY Zenon DEF HoldersInv
    <2>2. holder'[i] = holder[i] /\ holder[i] # v
      BY <1>6, <2>1 DEF Close
    <2>3. visit'[holder[i]] = visit[holder[i]] /\ stage'[holder[i]] = stage[holder[i]]
      BY <1>6, <2>1, <2>2 DEF Close
    <2>4. LiveRow(i) /\ i \notin ids
      BY <1>6, <2>1, <2>2
    <2>5. PICK t \in Revoke(ids, why) : t.id = i /\ Live(t)
      BY <1>6, <2>4, StaysLive
    <2>6. LiveRow(i)'
      BY <1>6, <2>5 DEF LiveRow, Row, Live
    <2>7. QED
      BY <2>1, <2>2, <2>3, <2>6
  <1>7. ASSUME NEW v \in Visits, NEW arrives \in BOOLEAN, Issue(v, arrives)
        PROVE  HoldersInv'
    <2>1. Revoke(HeldBy(v), "rotated") \subseteq sessions' /\ Close(v)
      BY <1>7 DEF Issue
    <2>2. \A i \in HeldBy(v) : i \in 1 .. MaxSessions => holder[i] \in {v, Nobody} \/ ~LiveRow(i)
      BY DEF HeldBy
    <2>3. "rotated" \in Revocations
      BY DEF Revocations
    <2>4. QED
      BY ONLY <1>6, <2>1, <2>2, <2>3, v \in Visits
  <1>8. ASSUME NEW v \in Visits, ReadFamily(v)
        PROVE  HoldersInv'
    <2>1. UNCHANGED <<sessions, holder>> /\ stage[v] = "family"
      BY <1>8 DEF ReadFamily
    <2>2. \A w \in Visits \ {v} : visit'[w] = visit[w] /\ stage'[w] = stage[w]
      BY <1>8, VisitsStay
    <2>3. QED
      BY <2>1, <2>2 DEF LiveRow, Row
  <1>9. ASSUME NEW v \in Visits, RevokeNext(v)
        PROVE  HoldersInv'
    <2>1. UNCHANGED <<sessions, stage>> /\ stage[v] = "revoke" /\ visit[v].op = "renew"
      BY <1>9 DEF RevokeNext, VisitsInv
    <2>2. \A w \in Visits \ {v} : visit'[w] = visit[w] /\ stage'[w] = stage[w]
      BY <1>9, VisitsStay
    <2>3. visit'[v].op = "renew"
      BY <1>9, <2>1, VisitsStay DEF RevokeNext
    <2>4. \A i \in 1 .. MaxSessions : holder'[i] = holder[i] \/ (holder'[i] = v /\ LiveRow(i))
      BY <1>9 DEF RevokeNext
    <2>5. QED
      BY <2>1, <2>2, <2>3, <2>4 DEF LiveRow, Row
  <1>10. ASSUME NEW v \in Visits, RefuseReuse(v)
         PROVE  HoldersInv'
    <2>1. Revoke(HeldBy(v), "reuse") \subseteq sessions' /\ Close(v)
      BY <1>10 DEF RefuseReuse
    <2>2. \A i \in HeldBy(v) : i \in 1 .. MaxSessions => holder[i] \in {v, Nobody} \/ ~LiveRow(i)
      BY DEF HeldBy
    <2>3. "reuse" \in Revocations
      BY DEF Revocations
    <2>4. QED
      BY ONLY <1>6, <2>1, <2>2, <2>3, v \in Visits
  <1>11. ASSUME NEW v \in Visits, SignOut(v)
         PROVE  HoldersInv'
    <2>1. Revoke({visit[v].token}, "logout") \subseteq sessions' /\ Close(v)
      BY <1>11 DEF SignOut
    <2>2. \A i \in {visit[v].token} :
            i \in 1 .. MaxSessions => holder[i] \in {v, Nobody} \/ ~LiveRow(i)
      BY <1>11 DEF SignOut
    <2>3. "logout" \in Revocations
      BY DEF Revocations
    <2>4. QED
      BY ONLY <1>6, <2>1, <2>2, <2>3, v \in Visits
  <1>12. ASSUME NEW i \in 1 .. issued, Expire(i)
         PROVE  HoldersInv'
    BY <1>12 DEF Expire, LiveRow, Row
  <1>13. CASE Prune
    <2>1. UNCHANGED <<holder, stage, visit>>
      BY <1>13 DEF Prune
    <2>2. \A i \in 1 .. MaxSessions : holder[i] # Nobody => i \notin expired
      BY <1>13 DEF Prune
    <2>3. ASSUME NEW i \in 1 .. MaxSessions, holder[i] # Nobody
          PROVE  LiveRow(i)'
      <3>1. PICK s \in sessions : s.id = i /\ Live(s)
        BY <2>3 DEF LiveRow, Row
      <3>2. s \in sessions'
        BY <1>13, <2>2, <2>3, <3>1 DEF Prune
      <3>3. QED
        BY <3>1, <3>2 DEF LiveRow, Row, Live
    <2>4. QED
      BY <2>1, <2>3
  <1>14. QED
    BY <1>1, <1>2, <1>3, <1>4, <1>5, <1>7, <1>8, <1>9, <1>10, <1>11, <1>12, <1>13, StepKinds

\* Every step keeps the invariant.
LEMMA SignInKept ==
  SignInInv /\ [SignInNext]_signInVars => SignInInv'
  <1>1. ASSUME SignInInv, UNCHANGED sessionVars
        PROVE  SignInInv'
    BY <1>1 DEF sessionVars, SignInInv, SignInTypes, VisitsInv, RowsInv, HoldersInv, Brings,
                LiveRow, Row, Live
  <1>2. ASSUME SignInInv, SessionStep
        PROVE  SignInInv'
    BY <1>2, SignInTypesStep, VisitsStep, RowsStep, HoldersStep DEF SignInInv
  <1>3. QED
    BY <1>1, <1>2 DEF SignInNext, signInVars

\* The types of the sessions and who holds which row, in every state: the four parts of
\* SignInInv rest on one another.
THEOREM SignInInductive == SignInSpec => []SignInInv
  <1>1. SignInInit => SignInInv
    BY SignInInitially
  <1>2. SignInInv /\ [SignInNext]_signInVars => SignInInv'
    BY SignInKept
  <1>3. QED
    BY <1>1, <1>2, PTL DEF SignInSpec

\* SessionsTypeOK: the refresh tokens of RefreshSession, and no row locked by a request
\* that is over.
THEOREM SessionsTypeCorrect == SignInSpec => []SessionsTypeOK
  <1>1. SignInInv => SessionsTypeOK
    BY SessionsAssumption
       DEF SignInInv, SignInTypes, RowsInv, HoldersInv, SessionsTypeOK, Writing
  <1>2. QED
    BY <1>1, SignInInductive, PTL

-----------------------------------------------------------------------------
(* The chains of tokens, while a client has one request under way for one sign-in *)

\* The row of a token that is issued.
Fresh(v) ==
  [id |-> issued + 1, user |-> visit[v].user, revoked |-> "no",
   chain |-> IF visit[v].op = "login" THEN issued + 1 ELSE visit[v].chain]

\* What is issued, and for what.
LEMMA IssueIs ==
  ASSUME SignInInv, NEW v \in Visits, NEW arrives \in BOOLEAN, Issue(v, arrives)
  PROVE  /\ stage[v] = "issue"
         /\ visit[v].op \in {"login", "renew"}
         /\ sessions' = Revoke(HeldBy(v), "rotated") \cup {Fresh(v)}
         /\ issued' = issued + 1
         /\ successors' = IF visit[v].op = "login" THEN successors
                          ELSE successors \cup {<<visit[v].token, issued + 1>>}
         /\ caught' = caught
         /\ Close(v)
  BY DEF Issue, Fresh, SignInInv, VisitsInv

\* Rows come from a token that is issued; the others stay, or are revoked or pruned.
LEMMA RowChanges ==
  ASSUME SignInInv, SessionStep, NEW t \in sessions'
  PROVE  \/ \E s \in sessions :
              /\ t.id = s.id
              /\ t.user = s.user
              /\ t.chain = s.chain
              /\ Live(t) => Live(s)
         \/ \E v \in Visits, arrives \in BOOLEAN : Issue(v, arrives) /\ t = Fresh(v)
  <1>1. ASSUME NEW ids, NEW why \in Revocations, t \in Revoke(ids, why)
        PROVE  \E s \in sessions :
                 t.id = s.id /\ t.user = s.user /\ t.chain = s.chain /\ (Live(t) => Live(s))
    <2>1. PICK s \in sessions : After(s, t, ids, why)
      BY <1>1, RevokedRows DEF SignInInv, SignInTypes
    <2>2. QED
      BY <2>1 DEF After, Live
  <1>2. ASSUME NEW v \in Visits, NEW arrives \in BOOLEAN, Issue(v, arrives)
        PROVE  t \in Revoke(HeldBy(v), "rotated") \/ t = Fresh(v)
    BY <1>2, IssueIs
  <1>3. CASE \E v \in Visits, arrives \in BOOLEAN : Issue(v, arrives)
    BY <1>1, <1>2, <1>3 DEF Revocations
  <1>4. CASE \E v \in Visits : RefuseReuse(v) \/ SignOut(v)
    BY <1>1, <1>4 DEF RefuseReuse, SignOut, Revocations
  <1>5. CASE Prune
    BY <1>5 DEF Prune
  <1>6. CASE UNCHANGED sessions
    BY <1>6
  <1>7. CASE \E v \in Visits : \/ Abandon(v) \/ ReadOn(v) \/ Rotate(v) \/ ReadFamily(v)
                               \/ RevokeNext(v)
    <2>1. UNCHANGED sessions
      BY <1>7 DEF Abandon, ReadOn, Continue, Rotate, ReadFamily, RevokeNext
    <2>2. QED
      BY <1>6, <2>1
  <1>8. CASE (\E v \in Visits, u \in Users : SignIn(v, u))
             \/ \E v \in Visits, i \in received, op \in {"renew", "logout"} : Present(v, op, i)
    <2>1. UNCHANGED sessions
      BY <1>8 DEF SignIn, Present, Arrive
    <2>2. QED
      BY <1>6, <2>1
  <1>9. CASE \E i \in 1 .. issued : Expire(i)
    BY <1>6, <1>9 DEF Expire
  <1>10. QED
    BY <1>3, <1>4, <1>5, <1>7, <1>8, <1>9, StepKinds

\* The initial state has the invariant.
LEMMA ChainsInitially ==
  SignInInit => ChainsInv
  BY DEF SignInInit, ChainsInv, Alone, Brings, FamiliesInv, SuccessorsInv, ExchangesInv,
         Exchanging, ReuseInv, OneLivePerSignIn, ReuseEndsSignIn, NoVisit

\* The request that comes in has the user and the sign-in of its row, and no other request
\* has that sign-in.
LEMMA PresentIs ==
  ASSUME OneByOne, SignInInv, NEW v \in Visits, NEW i \in received,
         NEW op \in {"renew", "logout"}, Present(v, op, i)
  PROVE  /\ \A w \in Visits \ {v} : visit'[w] = visit[w] /\ stage'[w] = stage[w]
         /\ visit'[v].op = op
         /\ stage'[v] \in {"row", "logout"}
         /\ stage[v] = "idle"
         /\ UNCHANGED <<sessions, issued, holder, successors, caught>>
         /\ \E s \in sessions :
              /\ s.id = i /\ visit'[v].token = i
              /\ visit'[v].user = s.user
              /\ visit'[v].chain = s.chain
              /\ \A w \in Visits : Brings(w) => visit[w].chain # s.chain
  <1> USE DEF SignInInv, SignInTypes
  <1>1. ~Underway(ChainOf(i))
    BY DEF Present
  <1>2. PICK s \in Row(i) :
          Arrive(v, IF op = "renew" THEN "row" ELSE "logout",
                 [op |-> op, user |-> s.user, token |-> i, chain |-> s.chain, todo |-> {}])
    BY DEF Present
  <1>3. s \in sessions /\ s.id = i
    BY <1>2 DEF Row
  <1>4. ChainOf(i) = s.chain
    <2>1. (CHOOSE r \in sessions : r.id = i) = s
      BY <1>3 DEF RowsInv
    <2>2. QED
      BY <2>1 DEF ChainOf
  <1>5. \A w \in Visits : Brings(w) => visit[w].chain # s.chain
    BY <1>1, <1>4 DEF Underway, Brings
  <1>6. QED
    BY <1>2, <1>3, <1>5 DEF Arrive

\* A session step leaves the requests of a sign-in one at a time.
LEMMA AloneStep ==
  ASSUME OneByOne, SignInInv, Alone, SessionStep
  PROVE  Alone'
  <1>1. ASSUME NEW v \in Visits, NEW u \in Users, SignIn(v, u)
        PROVE  Alone'
    BY <1>1 DEF SignIn, Arrive, Alone, Brings, SignInInv, SignInTypes
  <1>2. ASSUME NEW v \in Visits, NEW i \in received, NEW op \in {"renew", "logout"},
               Present(v, op, i)
        PROVE  Alone'
    <2>1. \A w \in Visits \ {v} : visit'[w] = visit[w]
      BY <1>2, PresentIs
    <2>2. \A w \in Visits : Brings(w) => visit[w].chain # visit'[v].chain
      BY <1>2, PresentIs
    <2>3. QED
      BY <2>1, <2>2 DEF Alone, Brings
  <1>3. CASE \A w \in Visits :
               \/ visit'[w].op = "none"
               \/ /\ visit'[w].op = visit[w].op
                  /\ visit'[w].user = visit[w].user
                  /\ visit'[w].token = visit[w].token
                  /\ visit'[w].chain = visit[w].chain
    BY <1>3 DEF Alone, Brings
  <1>4. QED
    BY <1>1, <1>2, <1>3, VisitsOfStep

\* A session step leaves every sign-in of one user.
LEMMA FamiliesStep ==
  ASSUME OneByOne, SignInInv, Alone, FamiliesInv, SessionStep
  PROVE  FamiliesInv'
  <1> USE DEF SignInInv, SignInTypes
  <1>1. ASSUME NEW v \in Visits, NEW arrives \in BOOLEAN, Issue(v, arrives)
        PROVE  FamiliesInv'
    <2>1. /\ visit[v].op \in {"login", "renew"}
          /\ stage[v] = "issue"
          /\ Close(v)
          /\ issued' = issued + 1
      BY <1>1, IssueIs
    <2>2. \A t \in sessions' :
            \/ \E s \in sessions : t.id = s.id /\ t.user = s.user /\ t.chain = s.chain
            \/ t = Fresh(v)
      <3>1. TAKE t \in sessions'
      <3>2. CASE t \in Revoke(HeldBy(v), "rotated")
        <4>1. PICK s \in sessions : After(s, t, HeldBy(v), "rotated")
          BY <3>2, RevokedRows DEF Revocations
        <4>2. QED
          BY <4>1 DEF After
      <3>3. QED
        BY <1>1, <3>2, IssueIs
    <2>3. \A s \in sessions : s.chain = Fresh(v).chain => s.user = Fresh(v).user
      <3>1. TAKE s \in sessions
      <3>2. s.chain <= issued /\ s.chain \in Nat
        BY DEF RowsInv, Session
      <3>3. CASE visit[v].op = "login"
        BY <3>2, <3>3 DEF Fresh
      <3>4. CASE visit[v].op = "renew"
        BY <3>4 DEF Fresh, FamiliesInv, Brings
      <3>5. QED
        BY <2>1, <3>3, <3>4
    <2>4. \A w \in Visits : Brings(w)' =>
            /\ w # v
            /\ Brings(w)
            /\ visit'[w] = visit[w]
            /\ Fresh(v).chain # visit[w].chain
      <3>1. TAKE w \in Visits
      <3>2. HAVE Brings(w)'
      <3>3. w # v /\ Brings(w) /\ visit'[w] = visit[w]
        BY <2>1, <3>2 DEF Close, Brings, NoVisit
      <3>4. visit[w].chain \in 1 .. issued
        BY <3>3 DEF VisitsInv
      <3>5. Fresh(v).chain # visit[w].chain
        BY <2>1, <3>3, <3>4 DEF Fresh, Alone, Brings
      <3>6. QED
        BY <3>3, <3>5
    <2>5. \A r, s \in sessions' : r.chain = s.chain => r.user = s.user
      BY <2>2, <2>3 DEF FamiliesInv
    <2>6. \A w \in Visits : \A s \in sessions' :
            Brings(w)' /\ s.chain = visit'[w].chain => s.user = visit'[w].user
      BY <2>2, <2>4 DEF FamiliesInv
    <2>7. QED
      BY <2>5, <2>6 DEF FamiliesInv
  <1>2. ASSUME ~\E v \in Visits, arrives \in BOOLEAN : Issue(v, arrives)
        PROVE  FamiliesInv'
    <2>1. \A t \in sessions' : \E s \in sessions :
            t.id = s.id /\ t.user = s.user /\ t.chain = s.chain
      BY <1>2, RowChanges
    <2>2. ASSUME NEW v \in Visits, NEW u \in Users, SignIn(v, u)
          PROVE  FamiliesInv'
      BY <2>2 DEF SignIn, Arrive, FamiliesInv, Brings
    <2>3. ASSUME NEW v \in Visits, NEW i \in received, NEW op \in {"renew", "logout"},
                 Present(v, op, i)
          PROVE  FamiliesInv'
      <3>1. /\ \A w \in Visits \ {v} : visit'[w] = visit[w]
            /\ UNCHANGED sessions
            /\ \E s \in sessions : visit'[v].user = s.user /\ visit'[v].chain = s.chain
        BY <2>3, PresentIs
      <3>2. QED
        BY <3>1 DEF FamiliesInv, Brings
    <2>4. CASE \A w \in Visits :
                 \/ visit'[w].op = "none"
                 \/ /\ visit'[w].op = visit[w].op
                    /\ visit'[w].user = visit[w].user
                    /\ visit'[w].token = visit[w].token
                    /\ visit'[w].chain = visit[w].chain
      BY <2>1, <2>4 DEF FamiliesInv, Brings
    <2>5. QED
      BY <2>2, <2>3, <2>4, VisitsOfStep
  <1>3. QED
    BY <1>1, <1>2

\* What a renewal that issues a token holds, is the row it was brought, live until then.
LEMMA IssuerHolds ==
  ASSUME SignInInv, NEW v \in Visits, stage[v] = "issue", NEW s \in sessions,
         s.id \in HeldBy(v)
  PROVE  /\ visit[v].op = "renew"
         /\ s.id = visit[v].token
         /\ s.revoked = "no"
  <1>1. s.id \in 1 .. MaxSessions /\ holder[s.id] = v /\ v # Nobody
    BY SessionsAssumption DEF HeldBy, SignInInv, SignInTypes
  <1>2. /\ LiveRow(s.id)
        /\ visit[v].op = "renew"
        /\ visit[v].token = s.id
    BY <1>1 DEF SignInInv, HoldersInv, Writing
  <1>3. s.revoked = "no"
    BY <1>2 DEF SignInInv, RowsInv, LiveRow, Row, Live
  <1>4. QED
    BY <1>2, <1>3

\* A session step leaves every row with the successors its revocation stands for.
LEMMA SuccessorsStep ==
  ASSUME SignInInv, SuccessorsInv, ExchangesInv, SessionStep
  PROVE  SuccessorsInv'
  <1> USE DEF SignInInv, SignInTypes
  <1> DEFINE Succeeds(s) ==
               /\ \A p, q \in SuccessorsOf(s.id) : p = q
               /\ s.revoked \in {"no", "logout"} => SuccessorsOf(s.id) = {}
               /\ s.revoked = "rotated" => SuccessorsOf(s.id) # {}
  <1>1. ASSUME NEW v \in Visits, NEW arrives \in BOOLEAN, Issue(v, arrives)
        PROVE  SuccessorsInv'
    <2>1. /\ stage[v] = "issue"
          /\ visit[v].op \in {"login", "renew"}
          /\ sessions' = Revoke(HeldBy(v), "rotated") \cup {Fresh(v)}
          /\ issued' = issued + 1
          /\ successors' = IF visit[v].op = "login" THEN successors
                           ELSE successors \cup {<<visit[v].token, issued + 1>>}
      BY <1>1, IssueIs
    <2>2. visit[v].op = "renew" => visit[v].token \in 1 .. issued
      BY DEF VisitsInv, Brings
    <2>3. successors' \subseteq (1 .. issued') \X (1 .. issued')
      BY <2>1, <2>2 DEF SuccessorsInv
    <2>4. ASSUME NEW t \in Revoke(HeldBy(v), "rotated")
          PROVE  Succeeds(t)'
      <3>1. PICK s \in sessions : After(s, t, HeldBy(v), "rotated")
        BY RevokedRows DEF Revocations
      <3>2. Succeeds(s)
        BY DEF SuccessorsInv
      <3>3. CASE visit[v].op = "renew" /\ s.id = visit[v].token
        <4>1. /\ s.revoked \in {"no", "reuse"}
              /\ SuccessorsOf(s.id) = {}
              /\ Live(s) => holder[s.id] = v
          BY <2>1, <3>3 DEF ExchangesInv, Exchanging, Writing, Row
        <4>2. t.revoked \in {"rotated", "reuse"}
          <5>1. s.id \in DOMAIN holder
            BY DEF Session
          <5>2. QED
            BY <3>1, <4>1, <5>1 DEF After, HeldBy, Live
        <4>3. SuccessorsOf(t.id)' = {<<visit[v].token, issued + 1>>}
          BY <2>1, <3>1, <3>3, <4>1 DEF SuccessorsOf, After
        <4>4. QED
          BY <4>2, <4>3
      <3>4. CASE ~(visit[v].op = "renew" /\ s.id = visit[v].token)
        <4>1. s.id \notin HeldBy(v)
          BY <2>1, <3>4, IssuerHolds
        <4>2. t.id = s.id /\ t.revoked = s.revoked
          BY <3>1, <4>1 DEF After
        <4>3. SuccessorsOf(t.id)' = SuccessorsOf(s.id)
          BY <2>1, <3>4, <4>2 DEF SuccessorsOf
        <4>4. QED
          BY <3>2, <4>2, <4>3
      <3>5. QED
        BY <3>3, <3>4
    <2>5. ASSUME NEW t, t = Fresh(v)
          PROVE  Succeeds(t)'
      <3>1. \A p \in successors' : p[1] # issued + 1
        BY <2>1, <2>2 DEF SuccessorsInv
      <3>2. t.id = issued + 1 /\ t.revoked = "no"
        BY <2>5 DEF Fresh
      <3>3. SuccessorsOf(t.id)' = {}
        BY <3>1, <3>2 DEF SuccessorsOf
      <3>4. QED
        BY <3>2, <3>3
    <2>6. \A t \in sessions' : Succeeds(t)'
      BY <2>1, <2>4, <2>5
    <2>7. QED
      BY <2>3, <2>6 DEF SuccessorsInv
  <1>2. ASSUME NEW ids, NEW why \in {"reuse", "logout"},
               sessions' = Revoke(ids, why), UNCHANGED <<successors, issued>>
        PROVE  SuccessorsInv'
    <2>1. ASSUME NEW t \in sessions'
          PROVE  Succeeds(t)'
      <3>1. PICK s \in sessions : After(s, t, ids, why)
        BY <1>2, RevokedRows DEF Revocations
      <3>2. Succeeds(s)
        BY DEF SuccessorsInv
      <3>3. SuccessorsOf(t.id)' = SuccessorsOf(s.id)
        BY <1>2, <3>1 DEF SuccessorsOf, After
      <3>4. t.revoked = s.revoked \/ (s.revoked = "no" /\ t.revoked \in {"reuse", "logout"})
        BY <3>1 DEF After
      <3>5. QED
        BY <3>2, <3>3, <3>4
    <2>2. QED
      BY <1>2, <2>1 DEF SuccessorsInv
  <1>3. CASE \E v \in Visits : RefuseReuse(v) \/ SignOut(v)
    BY <1>2, <1>3 DEF RefuseReuse, SignOut
  <1>4. CASE sessions' \subseteq sessions /\ UNCHANGED <<successors, issued>>
    BY <1>4 DEF SuccessorsInv, SuccessorsOf
  <1>5. CASE \E v \in Visits : \/ Abandon(v) \/ ReadOn(v) \/ Rotate(v) \/ ReadFamily(v)
                               \/ RevokeNext(v)
    <2>1. UNCHANGED <<sessions, successors, issued>>
      BY <1>5 DEF Abandon, ReadOn, Continue, Rotate, ReadFamily, RevokeNext
    <2>2. QED
      BY <1>4, <2>1
  <1>6. CASE (\E v \in Visits, u \in Users : SignIn(v, u))
             \/ \E v \in Visits, i \in received, op \in {"renew", "logout"} : Present(v, op, i)
    <2>1. UNCHANGED <<sessions, successors, issued>>
      BY <1>6 DEF SignIn, Present, Arrive
    <2>2. QED
      BY <1>4, <2>1
  <1>7. CASE (\E i \in 1 .. issued : Expire(i)) \/ Prune
    <2>1. sessions' \subseteq sessions /\ UNCHANGED <<successors, issued>>
      BY <1>7 DEF Expire, Prune
    <2>2. QED
      BY <1>4, <2>1
  <1>8. QED
    BY <1>1, <1>3, <1>5, <1>6, <1>7, StepKinds

\* A session step leaves a sign-in with one live session: a token is issued for the row
\* that is revoked with it.
LEMMA OneLiveStep ==
  ASSUME SignInInv, RowsInv', ExchangesInv, OneLivePerSignIn, SessionStep
  PROVE  OneLivePerSignIn'
  <1> USE DEF SignInInv, SignInTypes
  <1>1. ASSUME NEW v \in Visits, NEW arrives \in BOOLEAN, Issue(v, arrives),
               NEW t \in sessions', t # Fresh(v), Live(t), t.chain = Fresh(v).chain
        PROVE  FALSE
    <2>1. stage[v] = "issue" /\ visit[v].op \in {"login", "renew"}
      BY <1>1, IssueIs
    <2>2. t \in Revoke(HeldBy(v), "rotated")
      BY <1>1, IssueIs
    <2>3. PICK s \in sessions : After(s, t, HeldBy(v), "rotated")
      BY <2>2, RevokedRows DEF Revocations
    <2>4. Live(s) /\ s.id \notin HeldBy(v) /\ s.chain = Fresh(v).chain
      BY <1>1, <2>3 DEF After, Live
    <2>5. s.chain <= issued /\ s.chain \in Nat /\ s.id \in DOMAIN holder
      BY DEF RowsInv, Session
    <2>6. visit[v].op = "renew" /\ s.chain = visit[v].chain
      BY <2>1, <2>4, <2>5 DEF Fresh
    <2>7. holder[s.id] = v
      BY <2>1, <2>4, <2>6 DEF ExchangesInv, Exchanging, Writing, Row
    <2>8. QED
      BY <2>4, <2>5, <2>7 DEF HeldBy
  <1>2. ASSUME NEW r \in sessions', NEW t \in sessions', r.chain = t.chain, Live(r), Live(t)
        PROVE  r = t
    <2>1. CASE \E v \in Visits, arrives \in BOOLEAN :
                 Issue(v, arrives) /\ (r = Fresh(v) \/ t = Fresh(v))
      BY <1>1, <1>2, <2>1
    <2>2. CASE ~\E v \in Visits, arrives \in BOOLEAN :
                 Issue(v, arrives) /\ (r = Fresh(v) \/ t = Fresh(v))
      <3>1. PICK q \in sessions : r.id = q.id /\ r.chain = q.chain /\ Live(q)
        BY <1>2, <2>2, RowChanges
      <3>2. PICK s \in sessions : t.id = s.id /\ t.chain = s.chain /\ Live(s)
        BY <1>2, <2>2, RowChanges
      <3>3. q = s
        BY <1>2, <3>1, <3>2 DEF OneLivePerSignIn
      <3>4. QED
        BY <3>1, <3>2, <3>3 DEF RowsInv
    <2>3. QED
      BY <2>1, <2>2
  <1>3. QED
    BY <1>2 DEF OneLivePerSignIn

\* A session step leaves a sign-in over once a reuse has ended it.
LEMMA ReuseEndsStep ==
  ASSUME SignInInv, ExchangesInv, ReuseInv, ReuseEndsSignIn, SessionStep
  PROVE  ReuseEndsSignIn'
  <1> USE DEF SignInInv, SignInTypes
  <1>1. ASSUME NEW v \in Visits, NEW arrives \in BOOLEAN, Issue(v, arrives)
        PROVE  Fresh(v).chain \notin caught'
    <2>1. stage[v] = "issue" /\ visit[v].op \in {"login", "renew"} /\ caught' = caught
      BY <1>1, IssueIs
    <2>2. visit[v].op = "renew" => visit[v].chain \notin caught
      BY <2>1 DEF ExchangesInv, Exchanging, Writing
    <2>3. issued + 1 \notin caught
      BY DEF ReuseInv
    <2>4. QED
      BY <2>1, <2>2, <2>3 DEF Fresh
  <1>2. ASSUME NEW v \in Visits, RefuseReuse(v), NEW t \in sessions', Live(t)
        PROVE  t.chain \notin caught'
    <2>1. PICK s \in sessions : After(s, t, HeldBy(v), "reuse")
      BY <1>2, RevokedRows DEF RefuseReuse, Revocations
    <2>2. Live(s) /\ s.id \notin HeldBy(v) /\ s.chain = t.chain /\ s.id \in DOMAIN holder
      BY <1>2, <2>1 DEF After, Live, Session
    <2>3. s.chain # visit[v].chain
      BY <1>2, <2>2 DEF RefuseReuse, ReuseInv, HeldBy
    <2>4. QED
      BY <1>2, <2>2, <2>3 DEF RefuseReuse, ReuseEndsSignIn
  <1>3. ASSUME ~\E v \in Visits : RefuseReuse(v)
        PROVE  caught' = caught
    <2>1. ASSUME NEW v \in Visits, NEW arrives \in BOOLEAN, Issue(v, arrives)
          PROVE  caught' = caught
      BY <2>1, IssueIs
    <2>2. CASE \E v \in Visits : \/ Abandon(v) \/ ReadOn(v) \/ Rotate(v) \/ ReadFamily(v)
                                 \/ RevokeNext(v) \/ SignOut(v)
      BY <2>2 DEF Abandon, ReadOn, Continue, Rotate, ReadFamily, RevokeNext, SignOut
    <2>3. CASE (\E v \in Visits, u \in Users : SignIn(v, u))
               \/ \E v \in Visits, i \in received, op \in {"renew", "logout"} :
                    Present(v, op, i)
      BY <2>3 DEF SignIn, Present, Arrive
    <2>4. CASE (\E i \in 1 .. issued : Expire(i)) \/ Prune
      BY <2>4 DEF Expire, Prune
    <2>5. QED
      BY <1>3, <2>1, <2>2, <2>3, <2>4, StepKinds
  <1>4. ASSUME NEW t \in sessions', Live(t), ~\E v \in Visits : RefuseReuse(v)
        PROVE  t.chain \notin caught'
    BY <1>1, <1>3, <1>4, RowChanges DEF ReuseEndsSignIn
  <1>5. QED
    BY <1>2, <1>4 DEF ReuseEndsSignIn

\* The row that a request holds is not taken from it by another.
LEMMA HeldStays ==
  ASSUME SignInInv, NEW v \in Visits,
         \/ Abandon(v) \/ ReadOn(v) \/ Rotate(v) \/ ReadFamily(v) \/ RevokeNext(v)
         \/ RefuseReuse(v) \/ SignOut(v) \/ Issue(v, TRUE) \/ Issue(v, FALSE),
         NEW i \in 1 .. MaxSessions, NEW w \in Visits \ {v}, holder[i] = w
  PROVE  holder'[i] = w
  <1> USE DEF SignInInv, SignInTypes
  <1>1. LiveRow(i) /\ holder[i] # Nobody
    BY SessionsAssumption DEF HoldersInv
  <1>2. CASE Abandon(v) \/ RefuseReuse(v) \/ SignOut(v) \/ Issue(v, TRUE) \/ Issue(v, FALSE)
    <2>1. Close(v)
      BY <1>2 DEF Abandon, RefuseReuse, SignOut, Issue
    <2>2. QED
      BY <2>1 DEF Close
  <1>3. CASE ReadOn(v) \/ ReadFamily(v)
    BY <1>3 DEF ReadOn, Continue, ReadFamily
  <1>4. CASE Rotate(v)
    BY <1>1, <1>4 DEF Rotate
  <1>5. CASE RevokeNext(v)
    BY <1>1, <1>5 DEF RevokeNext
  <1>6. QED
    BY <1>2, <1>3, <1>4, <1>5

\* Only a reuse revokes rows of others.
OwnRow(v, ids, why) ==
  \A s \in sessions :
    s.id \in ids /\ Live(s) /\ why # "reuse" => Brings(v) /\ s.id = visit[v].token

\* What a revocation by v leaves w to exchange.
LeftFor(v, w, t) ==
  /\ t.chain = visit[w].chain /\ Live(t) => t.id = visit[w].token
  /\ t.id = visit[w].token =>
       /\ t.revoked \in {"no", "reuse"}
       /\ Brings(v) => t.id # visit[v].token
       /\ SuccessorsOf(t.id) = {}
       /\ stage[w] \in Writing /\ Live(t) => holder'[t.id] = w

\* A session step leaves every renewal that exchanges a token alone with its sign-in.
LEMMA ExchangesStep ==
  ASSUME OneByOne, SignInInv, ChainsInv, SessionStep
  PROVE  ExchangesInv'
  <1> USE DEF SignInInv, SignInTypes, ChainsInv
  <1> DEFINE Own(w) ==
               Exchanging(w) =>
                 /\ visit[w].chain \notin caught
                 /\ \A s \in sessions :
                      s.chain = visit[w].chain /\ Live(s) => s.id = visit[w].token
                 /\ \A s \in Row(visit[w].token) :
                      /\ s.revoked \in {"no", "reuse"}
                      /\ SuccessorsOf(s.id) = {}
                      /\ stage[w] \in Writing /\ Live(s) => holder[s.id] = w
  <1>1. ASSUME NEW w \in Visits, visit'[w] = visit[w], stage'[w] = stage[w],
               \A i \in 1 .. MaxSessions : holder[i] = w => holder'[i] = w,
               sessions' \subseteq sessions, UNCHANGED <<successors, caught>>
        PROVE  Own(w)'
    <2>1. Own(w)
      BY DEF ExchangesInv
    <2>2. \A s \in sessions : s.id \in 1 .. MaxSessions
      BY DEF Session
    <2>3. QED
      BY <1>1, <2>1, <2>2 DEF Exchanging, Live, Row, SuccessorsOf
  <1>2. ASSUME NEW v \in Visits, NEW u \in Users, SignIn(v, u), NEW w \in Visits
        PROVE  Own(w)'
    <2>1. CASE w = v
      BY <1>2, <2>1 DEF SignIn, Arrive, Exchanging
    <2>2. CASE w # v
      BY <1>1, <1>2, <2>2 DEF SignIn, Arrive
    <2>3. QED
      BY <2>1, <2>2
  <1>3. ASSUME NEW v \in Visits, NEW i \in received, NEW op \in {"renew", "logout"},
               Present(v, op, i), NEW w \in Visits
        PROVE  Own(w)'
    <2>1. CASE w = v
      <3>1. stage'[v] \in {"row", "logout"}
        BY <1>3, PresentIs
      <3>2. QED
        BY <2>1, <3>1 DEF Exchanging, Writing
    <2>2. CASE w # v
      <3>1. /\ visit'[w] = visit[w] /\ stage'[w] = stage[w]
            /\ UNCHANGED <<sessions, issued, holder, successors, caught>>
        BY <1>3, <2>2, PresentIs
      <3>2. QED
        BY <1>1, <3>1
    <2>3. QED
      BY <2>1, <2>2
  <1>4. ASSUME NEW v \in Visits, NEW w \in Visits \ {v},
               \/ Abandon(v) \/ ReadOn(v) \/ Rotate(v) \/ ReadFamily(v) \/ RevokeNext(v)
        PROVE  Own(w)'
    <2>1. visit'[w] = visit[w] /\ stage'[w] = stage[w]
      BY <1>4, VisitsStay
    <2>2. \A i \in 1 .. MaxSessions : holder[i] = w => holder'[i] = w
      BY <1>4, HeldStays
    <2>3. UNCHANGED <<sessions, successors, caught>>
      BY <1>4 DEF Abandon, ReadOn, Continue, Rotate, ReadFamily, RevokeNext
    <2>4. QED
      BY <1>1, <2>1, <2>2, <2>3
  <1>5. ASSUME NEW v \in Visits, Abandon(v)
        PROVE  Own(v)'
    BY <1>5 DEF Abandon, Close, Exchanging, NoVisit
  <1>6. ASSUME NEW v \in Visits, ReadOn(v)
        PROVE  Own(v)'
    <2>1. UNCHANGED <<sessions, successors, caught, holder, visit>>
      BY <1>6 DEF ReadOn, Continue
    <2>2. CASE stage[v] = "row" /\ LiveRow(visit[v].token) /\ stage' = [stage EXCEPT ![v] = "rotate"]
      <3>1. PICK s \in sessions : s.id = visit[v].token /\ Live(s)
        BY <2>2 DEF LiveRow, Row
      <3>2. visit[v].op = "renew" /\ s.chain = visit[v].chain
        BY <2>2, <3>1 DEF VisitsInv, RowsInv, Brings
      <3>3. visit[v].chain \notin caught
        BY <3>1, <3>2 DEF ReuseEndsSignIn
      <3>4. \A r \in sessions : r.chain = visit[v].chain /\ Live(r) => r.id = visit[v].token
        BY <3>1, <3>2 DEF OneLivePerSignIn
      <3>5. \A r \in Row(visit[v].token) : r.revoked = "no" /\ SuccessorsOf(r.id) = {}
        BY <3>1 DEF Row, RowsInv, Live, SuccessorsInv
      <3>6. stage'[v] = "rotate"
        BY <2>2
      <3>7. QED
        BY <2>1, <3>3, <3>4, <3>5, <3>6 DEF Writing, Row, Live, SuccessorsOf
    <2>3. CASE stage' = [stage EXCEPT ![v] = "family"]
      BY <2>3 DEF Exchanging, Writing
    <2>4. CASE stage[v] \in Writing /\ stage'[v] \in Writing
      <3>1. Own(v)
        BY DEF ExchangesInv
      <3>2. QED
        BY <2>1, <2>4, <3>1 DEF Exchanging, Row, Live, SuccessorsOf
    <2>5. QED
      BY <1>6, <2>2, <2>3, <2>4 DEF ReadOn, Continue, Writing
  <1>7. ASSUME NEW v \in Visits, Rotate(v)
        PROVE  Own(v)'
    <2>1. UNCHANGED <<sessions, successors, caught, visit>> /\ stage[v] = "rotate"
      BY <1>7 DEF Rotate
    <2>2. Exchanging(v)
      BY <2>1 DEF Exchanging, VisitsInv
    <2>3. \A s \in Row(visit[v].token) : Live(s) => holder'[s.id] = v
      <3>1. TAKE s \in Row(visit[v].token)
      <3>2. HAVE Live(s)
      <3>3. s.id = visit[v].token /\ LiveRow(visit[v].token) /\ s.id \in 1 .. MaxSessions
        BY <3>2 DEF Row, LiveRow, Session
      <3>4. QED
        BY <1>7, <3>3 DEF Rotate
    <2>4. QED
      BY <2>1, <2>2, <2>3 DEF ExchangesInv, Row, Live, SuccessorsOf
  <1>8. ASSUME NEW v \in Visits, ReadFamily(v) \/ RevokeNext(v)
        PROVE  Own(v)'
    BY <1>8 DEF ReadFamily, RevokeNext, Exchanging, Writing
  <1>9. ASSUME NEW v \in Visits, NEW ids, NEW why \in Revocations \ {"no"}, NEW w \in Visits \ {v},
               \/ RefuseReuse(v) \/ SignOut(v) \/ Issue(v, TRUE) \/ Issue(v, FALSE),
               Exchanging(w),
               OwnRow(v, ids, why),
               NEW t \in Revoke(ids, why)
        PROVE  LeftFor(v, w, t)
    <2>1. PICK s \in sessions : After(s, t, ids, why)
      BY <1>9, RevokedRows
    <2>2. Live(t) => Live(s)
      BY <1>9, <2>1 DEF After, Live
    <2>3. t.chain = visit[w].chain /\ Live(t) => t.id = visit[w].token
      <3>1. \A r \in sessions : r.chain = visit[w].chain /\ Live(r) => r.id = visit[w].token
        BY <1>9 DEF ExchangesInv
      <3>2. t.id = s.id /\ t.chain = s.chain
        BY <2>1 DEF After
      <3>3. QED
        BY <2>2, <3>1, <3>2
    <2>4. ASSUME t.id = visit[w].token
          PROVE  /\ t.revoked \in {"no", "reuse"}
                 /\ Brings(v) => t.id # visit[v].token
                 /\ SuccessorsOf(t.id) = {}
                 /\ stage[w] \in Writing /\ Live(t) => holder'[t.id] = w
      <3>1. s \in Row(visit[w].token) /\ t.id = s.id
        BY <2>1, <2>4 DEF After, Row
      <3>2. /\ s.revoked \in {"no", "reuse"}
            /\ SuccessorsOf(s.id) = {}
            /\ stage[w] \in Writing /\ Live(s) => holder[s.id] = w
        BY <1>9, <3>1 DEF ExchangesInv
      <3>3. Brings(w) /\ s.chain = visit[w].chain
        BY <1>9, <3>1 DEF Exchanging, Brings, RowsInv, Row
      <3>4. Brings(v) => s.id # visit[v].token
        BY <3>3 DEF RowsInv, Alone
      <3>5. t.revoked \in {"no", "reuse"}
        BY <1>9, <2>1, <3>2, <3>4 DEF After, Live, OwnRow
      <3>6. stage[w] \in Writing /\ Live(t) => holder'[t.id] = w
        <4>1. s.id \in 1 .. MaxSessions
          BY DEF Session
        <4>2. QED
          BY <1>9, <2>2, <3>1, <3>2, <4>1, HeldStays
      <3>7. QED
        BY <3>1, <3>2, <3>4, <3>5, <3>6
    <2>5. QED
      BY <2>3, <2>4 DEF LeftFor
  <1>10. ASSUME NEW v \in Visits, RefuseReuse(v) \/ SignOut(v), NEW w \in Visits
         PROVE  Own(w)'
    <2>1. CASE w = v
      BY <1>10, <2>1 DEF RefuseReuse, SignOut, Close, Exchanging, NoVisit
    <2>2. ASSUME w # v, Exchanging(w)'
          PROVE  /\ visit[w].chain \notin caught'
                 /\ visit'[w] = visit[w]
                 /\ stage'[w] = stage[w]
                 /\ Exchanging(w)
      <3>1. visit'[w] = visit[w] /\ stage'[w] = stage[w]
        BY <1>10, <2>2, VisitsStay
      <3>2. Exchanging(w)
        BY <2>2, <3>1 DEF Exchanging
      <3>3. visit[w].chain # visit[v].chain
        BY <1>10, <2>2, <3>2 DEF RefuseReuse, SignOut, VisitsInv, Alone, Brings, Exchanging
      <3>4. visit[w].chain \notin caught'
        BY <1>10, <3>2, <3>3 DEF ExchangesInv, RefuseReuse, SignOut
      <3>5. QED
        BY <3>1, <3>2, <3>4
    <2> DEFINE why == IF RefuseReuse(v) THEN "reuse" ELSE "logout"
               ids == IF RefuseReuse(v) THEN HeldBy(v) ELSE {visit[v].token}
    <2>3. /\ sessions' = Revoke(ids, why)
          /\ why # "reuse" => ids = {visit[v].token} /\ Brings(v)
      BY <1>10 DEF RefuseReuse, SignOut, VisitsInv, Brings
    <2> HIDE DEF ids
    <2>4. UNCHANGED successors
      BY <1>10 DEF RefuseReuse, SignOut
    <2>5. ASSUME w # v, Exchanging(w)', NEW t \in sessions'
          PROVE  /\ t.chain = visit[w].chain /\ Live(t) => t.id = visit[w].token
                 /\ t.id = visit[w].token =>
                      /\ t.revoked \in {"no", "reuse"}
                      /\ SuccessorsOf(t.id) = {}
                      /\ stage[w] \in Writing /\ Live(t) => holder'[t.id] = w
      <3>1. Exchanging(w)
        BY <2>2, <2>5
      <3>2. OwnRow(v, ids, why)
        BY <2>3 DEF OwnRow
      <3>3. why \in Revocations \ {"no"} /\ w \in Visits \ {v}
        BY <2>5 DEF Revocations
      <3> HIDE DEF why
      <3>4. t \in Revoke(ids, why)
        BY <2>3, <2>5
      <3>5. LeftFor(v, w, t)
        BY <1>9, <1>10, <3>1, <3>2, <3>3, <3>4
      <3>6. QED
        BY <3>5 DEF LeftFor
    <2>6. QED
      BY <2>1, <2>2, <2>4, <2>5 DEF Row, Live, SuccessorsOf
  <1>11. ASSUME NEW v \in Visits, NEW arrives \in BOOLEAN, Issue(v, arrives), NEW w \in Visits
         PROVE  Own(w)'
    <2>1. /\ stage[v] = "issue"
          /\ visit[v].op \in {"login", "renew"}
          /\ sessions' = Revoke(HeldBy(v), "rotated") \cup {Fresh(v)}
          /\ successors' = IF visit[v].op = "login" THEN successors
                           ELSE successors \cup {<<visit[v].token, issued + 1>>}
          /\ caught' = caught
          /\ Close(v)
      BY <1>11, IssueIs
    <2>2. CASE w = v
      BY <2>1, <2>2 DEF Close, Exchanging, NoVisit
    <2>3. ASSUME w # v, Exchanging(w)'
          PROVE  /\ visit'[w] = visit[w]
                 /\ stage'[w] = stage[w]
                 /\ Exchanging(w)
                 /\ visit[w].chain \notin caught'
                 /\ visit[w].chain \in 1 .. issued /\ visit[w].token \in 1 .. issued
                 /\ visit[v].op = "renew" => visit[w].chain # visit[v].chain
      <3>1. visit'[w] = visit[w] /\ stage'[w] = stage[w]
        BY <2>1, <2>3 DEF Close
      <3>2. Exchanging(w) /\ Brings(w)
        BY <2>3, <3>1 DEF Exchanging, Brings
      <3>3. QED
        BY <2>1, <2>3, <3>1, <3>2 DEF ExchangesInv, VisitsInv, Alone, Brings
    <2>4. ASSUME w # v, Exchanging(w)', NEW t \in Revoke(HeldBy(v), "rotated")
          PROVE  /\ t.chain = visit[w].chain /\ Live(t) => t.id = visit[w].token
                 /\ t.id = visit[w].token =>
                      /\ t.revoked \in {"no", "reuse"}
                      /\ SuccessorsOf(t.id)' = {}
                      /\ stage[w] \in Writing /\ Live(t) => holder'[t.id] = w
      <3>1. OwnRow(v, HeldBy(v), "rotated")
        BY <2>1, IssuerHolds DEF Brings, OwnRow
      <3>2. "rotated" \in Revocations \ {"no"} /\ w \in Visits \ {v} /\ Exchanging(w)
        BY <2>3, <2>4 DEF Revocations
      <3>3. Issue(v, TRUE) \/ Issue(v, FALSE)
        <4>1. arrives = TRUE \/ arrives = FALSE
          OBVIOUS
        <4>2. QED
          BY <1>11, <4>1
      <3>4. LeftFor(v, w, t)
        BY <1>9, <2>4, <3>1, <3>2, <3>3
      <3>5. ASSUME t.id = visit[w].token
            PROVE  SuccessorsOf(t.id)' = {}
        <4>1. visit[v].op = "renew" => t.id # visit[v].token
          BY <3>4, <3>5 DEF Brings, LeftFor
        <4>2. \A p \in successors : p[1] # t.id
          BY <3>4, <3>5 DEF SuccessorsOf, LeftFor
        <4>3. \A p \in successors' : p[1] # t.id
          BY <2>1, <4>1, <4>2
        <4>4. QED
          BY <4>3 DEF SuccessorsOf
      <3>6. QED
        BY <3>4, <3>5 DEF LeftFor
    <2>5. ASSUME w # v, Exchanging(w)'
          PROVE  Fresh(v).chain # visit[w].chain /\ Fresh(v).id # visit[w].token
      BY <2>1, <2>3, <2>5 DEF Fresh
    <2>6. ASSUME w # v, Exchanging(w)', NEW t \in sessions'
          PROVE  /\ t.chain = visit[w].chain /\ Live(t) => t.id = visit[w].token
                 /\ t.id = visit[w].token =>
                      /\ t.revoked \in {"no", "reuse"}
                      /\ SuccessorsOf(t.id)' = {}
                      /\ stage[w] \in Writing /\ Live(t) => holder'[t.id] = w
      BY <2>1, <2>4, <2>5, <2>6
    <2>7. QED
      BY <2>2, <2>3, <2>6 DEF Row, Live
  <1>12. ASSUME (\E i \in 1 .. issued : Expire(i)) \/ Prune, NEW w \in Visits
         PROVE  Own(w)'
    <2>1. UNCHANGED <<stage, visit, holder, successors, caught>> /\ sessions' \subseteq sessions
      BY <1>12 DEF Expire, Prune
    <2>2. QED
      BY <1>1, <2>1
  <1>13. ASSUME NEW w \in Visits
         PROVE  Own(w)'
    <2>1. ASSUME NEW v \in Visits,
                 \/ Abandon(v) \/ ReadOn(v) \/ Rotate(v) \/ ReadFamily(v) \/ RevokeNext(v)
          PROVE  Own(w)'
      <3>1. CASE w = v
        BY <1>5, <1>6, <1>7, <1>8, <2>1, <3>1
      <3>2. CASE w # v
        BY <1>4, <2>1, <3>2
      <3>3. QED
        BY <3>1, <3>2
    <2> HIDE DEF Own
    <2>2. QED
      BY <1>2, <1>3, <1>10, <1>11, <1>12, <1>13, <2>1, StepKinds
  <1>14. QED
    BY <1>13 DEF ExchangesInv

\* A session step lets nothing of a family escape the request that ends it.
LEMMA ReuseStep ==
  ASSUME OneByOne, SignInInv, ChainsInv, SessionStep
  PROVE  ReuseInv'
  <1> USE DEF SignInInv, SignInTypes, ChainsInv
  <1> DEFINE Covered(w) ==
               \A s \in sessions :
                 stage[w] = "revoke" /\ s.chain = visit[w].chain /\ Live(s) =>
                   s.id \in visit[w].todo \/ holder[s.id] = w
  <1>1. caught' \subseteq 1 .. issued'
    <2>1. ASSUME NEW v \in Visits, RefuseReuse(v)
          PROVE  caught' \subseteq 1 .. issued'
      BY <2>1 DEF RefuseReuse, VisitsInv, Brings, ReuseInv
    <2>2. ASSUME NEW v \in Visits, NEW arrives \in BOOLEAN, Issue(v, arrives)
          PROVE  caught' \subseteq 1 .. issued'
      <3>1. caught' = caught /\ issued' = issued + 1
        BY <2>2, IssueIs
      <3>2. QED
        BY <3>1 DEF ReuseInv
    <2>3. CASE UNCHANGED <<caught, issued>>
      BY <2>3 DEF ReuseInv
    <2>4. CASE \E v \in Visits : \/ Abandon(v) \/ ReadOn(v) \/ Rotate(v) \/ ReadFamily(v)
                                 \/ RevokeNext(v) \/ SignOut(v)
      BY <2>3, <2>4 DEF Abandon, ReadOn, Continue, Rotate, ReadFamily, RevokeNext, SignOut
    <2>5. CASE (\E v \in Visits, u \in Users : SignIn(v, u))
               \/ \E v \in Visits, i \in received, op \in {"renew", "logout"} :
                    Present(v, op, i)
      BY <2>3, <2>5 DEF SignIn, Present, Arrive
    <2>6. CASE (\E i \in 1 .. issued : Expire(i)) \/ Prune
      BY <2>3, <2>6 DEF Expire, Prune
    <2>7. QED
      BY <2>1, <2>2, <2>4, <2>5, <2>6, StepKinds
  <1>2. \A s \in sessions : s.id \in 1 .. MaxSessions
    BY DEF Session
  <1>3. ASSUME NEW w \in Visits, visit'[w] = visit[w], stage'[w] = stage[w],
               \A i \in 1 .. MaxSessions : holder[i] = w => holder'[i] = w,
               \A t \in sessions' : t.chain = visit[w].chain /\ Live(t) /\ stage[w] = "revoke" =>
                 \E s \in sessions : t.id = s.id /\ t.chain = s.chain /\ Live(s)
        PROVE  Covered(w)'
    <2>1. Covered(w)
      BY DEF ReuseInv
    <2>2. SUFFICES ASSUME NEW t \in sessions',
                          stage'[w] = "revoke", t.chain = visit'[w].chain, Live(t)
                   PROVE  t.id \in visit'[w].todo \/ holder'[t.id] = w
      BY DEF Live
    <2>3. PICK s \in sessions : t.id = s.id /\ t.chain = s.chain /\ Live(s)
      BY <1>3, <2>2
    <2>4. s.id \in visit[w].todo \/ holder[s.id] = w
      BY <1>3, <2>1, <2>2, <2>3
    <2>5. QED
      BY <1>2, <1>3, <2>3, <2>4
  <1>4. ASSUME NEW v \in Visits, NEW u \in Users, SignIn(v, u), NEW w \in Visits
        PROVE  Covered(w)'
    <2>1. CASE w = v
      BY <1>4, <2>1 DEF SignIn, Arrive
    <2>2. CASE w # v
      BY <1>3, <1>4, <2>2 DEF SignIn, Arrive
    <2>3. QED
      BY <2>1, <2>2
  <1>5. ASSUME NEW v \in Visits, NEW i \in received, NEW op \in {"renew", "logout"},
               Present(v, op, i), NEW w \in Visits
        PROVE  Covered(w)'
    <2>1. CASE w = v
      <3>1. stage'[v] \in {"row", "logout"}
        BY <1>5, PresentIs
      <3>2. QED
        BY <2>1, <3>1
    <2>2. CASE w # v
      <3>1. /\ visit'[w] = visit[w] /\ stage'[w] = stage[w]
            /\ UNCHANGED <<sessions, holder>>
        BY <1>5, <2>2, PresentIs
      <3>2. QED
        BY <1>3, <3>1
    <2>3. QED
      BY <2>1, <2>2
  <1>6. ASSUME NEW v \in Visits, NEW w \in Visits \ {v},
               \/ Abandon(v) \/ ReadOn(v) \/ Rotate(v) \/ ReadFamily(v) \/ RevokeNext(v)
               \/ RefuseReuse(v) \/ SignOut(v) \/ Issue(v, TRUE) \/ Issue(v, FALSE)
        PROVE  Covered(w)'
    <2>1. visit'[w] = visit[w] /\ stage'[w] = stage[w]
      BY <1>6, VisitsStay
    <2>2. \A i \in 1 .. MaxSessions : holder[i] = w => holder'[i] = w
      BY <1>6, HeldStays
    <2>3. ASSUME NEW t \in sessions', t.chain = visit[w].chain, Live(t), stage[w] = "revoke"
          PROVE  \E s \in sessions : t.id = s.id /\ t.chain = s.chain /\ Live(s)
      <3>1. visit[w].op = "renew" /\ visit[w].chain \in 1 .. issued
        BY <2>3 DEF VisitsInv, Brings
      <3>2. ASSUME NEW x \in Visits, NEW arrives \in BOOLEAN, Issue(x, arrives)
            PROVE  t # Fresh(x)
        <4>1. stage[x] = "issue" /\ visit[x].op \in {"login", "renew"}
          BY <3>2, IssueIs
        <4>2. visit[x].op = "renew" => visit[x].chain # visit[w].chain
          BY <2>3, <3>1, <4>1 DEF Alone, Brings
        <4>3. Fresh(x).chain # visit[w].chain
          BY <3>1, <4>1, <4>2 DEF Fresh
        <4>4. QED
          BY <2>3, <4>3
      <3>3. QED
        BY <2>3, <3>2, RowChanges
    <2>4. QED
      BY <1>3, <2>1, <2>2, <2>3
  <1>7. ASSUME NEW v \in Visits,
               \/ Abandon(v) \/ ReadOn(v) \/ Rotate(v) \/ RefuseReuse(v) \/ SignOut(v)
               \/ Issue(v, TRUE) \/ Issue(v, FALSE)
        PROVE  Covered(v)'
    <2>1. stage'[v] # "revoke"
      BY <1>7 DEF Abandon, ReadOn, Continue, Rotate, RefuseReuse, SignOut, Issue, Close
    <2>2. QED
      BY <2>1
  <1>8. ASSUME NEW v \in Visits, ReadFamily(v)
        PROVE  Covered(v)'
    <2>1. visit[v].op = "renew" /\ visit[v] \in Requests
      BY <1>8 DEF ReadFamily, VisitsInv, NoVisit
    <2>2. /\ visit'[v].chain = visit[v].chain
          /\ visit'[v].todo =
               {s.id : s \in {s \in sessions : s.user = visit[v].user /\ Live(s)}}
          /\ UNCHANGED sessions
      BY <1>8, <2>1 DEF ReadFamily, Requests
    <2>3. \A s \in sessions : s.chain = visit[v].chain => s.user = visit[v].user
      BY <2>1 DEF FamiliesInv, Brings
    <2>4. QED
      BY <2>2, <2>3 DEF Live
  <1>9. ASSUME NEW v \in Visits, RevokeNext(v)
        PROVE  Covered(v)'
    <2>1. visit[v] \in Requests /\ stage[v] = "revoke" /\ UNCHANGED <<sessions, stage>>
      BY <1>9 DEF RevokeNext, VisitsInv, NoVisit
    <2>2. PICK i \in visit[v].todo :
            /\ holder' = IF LiveRow(i) THEN [holder EXCEPT ![i] = v] ELSE holder
            /\ visit' = [visit EXCEPT ![v].todo = visit[v].todo \ {i}]
      BY <1>9 DEF RevokeNext
    <2>3. visit'[v].chain = visit[v].chain /\ visit'[v].todo = visit[v].todo \ {i}
      BY <2>1, <2>2 DEF Requests
    <2>4. ASSUME NEW s \in sessions, s.chain = visit[v].chain, Live(s)
          PROVE  s.id \in visit[v].todo \ {i} \/ holder'[s.id] = v
      <3>1. s.id \in visit[v].todo \/ holder[s.id] = v
        BY <2>1, <2>4 DEF ReuseInv
      <3>2. s.id = i => LiveRow(i)
        BY <2>4 DEF LiveRow, Row
      <3>3. QED
        BY <1>2, <2>2, <3>1, <3>2
    <2>5. QED
      BY <2>1, <2>3, <2>4 DEF Live
  <1>10. ASSUME (\E i \in 1 .. issued : Expire(i)) \/ Prune, NEW w \in Visits
         PROVE  Covered(w)'
    <2>1. UNCHANGED <<stage, visit, holder>> /\ sessions' \subseteq sessions
      BY <1>10 DEF Expire, Prune
    <2>2. QED
      BY <1>3, <2>1
  <1>11. ASSUME NEW w \in Visits
         PROVE  Covered(w)'
    <2>1. ASSUME NEW v \in Visits, NEW arrives \in BOOLEAN, Issue(v, arrives)
          PROVE  Issue(v, TRUE) \/ Issue(v, FALSE)
      <3>1. arrives = TRUE \/ arrives = FALSE
        OBVIOUS
      <3>2. QED
        BY <2>1, <3>1
    <2>2. ASSUME NEW v \in Visits,
                 \/ Abandon(v) \/ ReadOn(v) \/ Rotate(v) \/ ReadFamily(v) \/ RevokeNext(v)
                 \/ RefuseReuse(v) \/ SignOut(v) \/ Issue(v, TRUE) \/ Issue(v, FALSE)
          PROVE  Covered(w)'
      <3>1. CASE w = v
        BY <1>7, <1>8, <1>9, <2>2, <3>1
      <3>2. CASE w # v
        BY <1>6, <2>2, <3>2
      <3>3. QED
        BY <3>1, <3>2
    <2> HIDE DEF Covered
    <2>3. QED
      BY <1>4, <1>5, <1>10, <2>1, <2>2, StepKinds
  <1>12. QED
    BY <1>1, <1>11 DEF ReuseInv

\* Every step keeps the invariant.
LEMMA ChainsKept ==
  ASSUME OneByOne
  PROVE  SignInInv /\ ChainsInv /\ [SignInNext]_signInVars => ChainsInv'
  <1>1. ASSUME ChainsInv, UNCHANGED sessionVars
        PROVE  ChainsInv'
    BY <1>1 DEF sessionVars, ChainsInv, Alone, Brings, FamiliesInv, SuccessorsInv,
                SuccessorsOf, ExchangesInv, Exchanging, Row, Live, ReuseInv,
                OneLivePerSignIn, ReuseEndsSignIn
  <1>2. ASSUME SignInInv, ChainsInv, SessionStep
        PROVE  ChainsInv'
    <2>1. RowsInv'
      BY <1>2, RowsStep
    <2>2. Alone' /\ FamiliesInv' /\ SuccessorsInv'
      BY <1>2, AloneStep, FamiliesStep, SuccessorsStep DEF ChainsInv
    <2>3. OneLivePerSignIn' /\ ReuseEndsSignIn'
      BY <1>2, <2>1, OneLiveStep, ReuseEndsStep DEF ChainsInv
    <2>4. ExchangesInv' /\ ReuseInv'
      BY <1>2, ExchangesStep, ReuseStep
    <2>5. QED
      BY <2>2, <2>3, <2>4 DEF ChainsInv
  <1>3. QED
    BY <1>1, <1>2 DEF SignInNext, signInVars

\* While a client has one request under way for one sign-in: what a renewal may assume of
\* its row from statement to statement, in every state.
THEOREM ChainsInductive ==
  ASSUME OneByOne
  PROVE  SignInSpec => []ChainsInv
  <1>1. SignInInit => ChainsInv
    BY ChainsInitially
  <1>2. SignInInv /\ ChainsInv /\ [SignInNext]_signInVars => ChainsInv'
    BY ChainsKept
  <1>3. QED
    BY <1>1, <1>2, SignInInductive, PTL DEF SignInSpec

\* OneLivePerSignIn: a renewal revokes the session it replaces in the transaction that
\* creates the new one (refresh, _issue), and no death or reuse elsewhere leaves two.
THEOREM OneSessionLives ==
  ASSUME OneByOne
  PROVE  SignInSpec => []OneLivePerSignIn
  <1>1. ChainsInv => OneLivePerSignIn
    BY DEF ChainsInv
  <1>2. QED
    BY <1>1, ChainsInductive, PTL

\* ReuseEndsSignIn: after an old token came back and was refused, no session of its
\* sign-in is live, nor will one be issued (revoke_all_refresh_sessions).
THEOREM ReuseIsFinal ==
  ASSUME OneByOne
  PROVE  SignInSpec => []ReuseEndsSignIn
  <1>1. ChainsInv => ReuseEndsSignIn
    BY DEF ChainsInv
  <1>2. QED
    BY <1>1, ChainsInductive, PTL

\* RotatedForOne: a token that was rotated away was exchanged for exactly one other, a live
\* one or one that was signed out for none, whatever dies half-way.
THEOREM RotatedOnceForOne ==
  ASSUME OneByOne
  PROVE  SignInSpec => []RotatedForOne
  <1>1. ASSUME SignInInv, ChainsInv
        PROVE  RotatedForOne
    <2>1. SUFFICES ASSUME NEW s \in sessions
                   PROVE  LET n == Cardinality(SuccessorsOf(s.id))
                          IN CASE s.revoked = "rotated" -> n = 1
                               [] s.revoked = "reuse" -> n <= 1
                               [] OTHER -> n = 0
      BY DEF RotatedForOne
    <2>2. /\ \A p, q \in SuccessorsOf(s.id) : p = q
          /\ s.revoked \in {"no", "logout"} => SuccessorsOf(s.id) = {}
          /\ s.revoked = "rotated" => SuccessorsOf(s.id) # {}
      BY <1>1 DEF ChainsInv, SuccessorsInv
    <2>3. SuccessorsOf(s.id) = {} => Cardinality(SuccessorsOf(s.id)) = 0
      BY FS_EmptySet
    <2>4. SuccessorsOf(s.id) # {} => Cardinality(SuccessorsOf(s.id)) = 1
      <3>1. HAVE SuccessorsOf(s.id) # {}
      <3>2. PICK p \in SuccessorsOf(s.id) : SuccessorsOf(s.id) = {p}
        BY <2>2, <3>1
      <3>3. QED
        BY <3>2, FS_Singleton
    <2>5. s.revoked \in Revocations
      BY <1>1 DEF SignInInv, SignInTypes, Session
    <2>6. QED
      BY <2>2, <2>3, <2>4, <2>5 DEF Revocations
  <1>2. QED
    BY <1>1, SignInInductive, ChainsInductive, PTL
=============================================================================
