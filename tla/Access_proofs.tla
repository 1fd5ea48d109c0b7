--------------------------- MODULE Access_proofs ---------------------------
(***************************************************************************)
(* Proofs about Access, for any tenants, users, keys, rows and requests.   *)
(***************************************************************************)
EXTENDS Access, TLAPS

-----------------------------------------------------------------------------
(***************************************************************************)
(* Where a request is says what it has passed.  The tables play no part in *)
(* this, and one request's step leaves the others where they are.          *)
(***************************************************************************)
Labels == {"idle", "auth", "role", "handle", "status", "list", "upsert"}

\* Past the checks of the middleware.
Inside == {"role", "handle", "status", "list", "upsert"}

RequestsTyped ==
  /\ pc \in [Request -> Labels]
  /\ req \in [Request -> RequestRow \cup {None}]
  /\ \A r \in Request : req[r] = None <=> pc[r] = "idle"

\* What a request has in hand at each label.
Stage(r) ==
  /\ pc[r] \in Inside /\ req[r].call.op # "view" => req[r].tenant \in Tenant
  /\ pc[r] = "role" => req[r].call.op \in AdminOnly
  /\ pc[r] \in {"status", "list"} =>
       /\ req[r].call.op = "review"
       /\ UserOf(r) # None
       /\ req[r].call.of[1] = req[r].tenant
  /\ pc[r] = "list" => req[r].call.status = "approved"
  /\ pc[r] = "upsert" => req[r].call.op = "configure" /\ req[r].copy \in Config

RequestsInv == RequestsTyped /\ \A r \in Request : Stage(r)

\* What a call carries depends on its operation.
LEMMA CallFields ==
  ASSUME NEW c \in Call
  PROVE  /\ c.op \in {"ask", "view"} => c.item \in Item
         /\ c.op = "review" => /\ c.of \in Tenant \X Item
                               /\ c.status \in {"approved", "rejected"}
         /\ c.op = "setRole" => c.user \in User /\ c.role \in Role
         /\ c.op = "redeem" => c.code \in Code
         /\ c.op \in {"createGroup", "updateGroup"} => c.name \in Name
         /\ c.op \in {"updateGroup", "deleteGroup", "addMember", "removeMember"} =>
              c.group \in Group
         /\ c.op \in {"addMember", "removeMember"} => c.user \in User
         /\ c.op = "configure" => c.field \in Field /\ c.value \in Value
BY DEF Call

\* A step by which r is answered.
LEMMA DoneKeeps ==
  ASSUME RequestsInv, NEW r \in Request, Done(r)
  PROVE  RequestsInv'
BY DEF Done, RequestsInv, RequestsTyped, Stage, Labels, Inside, UserOf

\* The tenant found for a request, if any, is a tenant.
LEMMA TenantFound ==
  ASSUME RequestsInv, NEW r \in Request, pc[r] # "idle"
  PROVE  TenantFor(r) \in Tenant \cup {None}
<1>1. req[r] \in RequestRow
  BY DEF RequestsInv, RequestsTyped
<1>2. AuthMiddleware(req[r].cred) \in Tenant \cup {None}
  BY <1>1, AccessAssumption
     DEF RequestRow, AuthMiddleware, authenticateJWT, authenticateAPIKey, GetAPIKeyByHash
<1>3. QED
  BY <1>1, <1>2 DEF TenantFor, TenantMiddleware, RequestRow

\* A request comes with its credential, header and call, and nothing else.
LEMMA RequestsArrive ==
  ASSUME RequestsInv, NEW r \in Request, Arrive(r)
  PROVE  RequestsInv'
<1>1. PICK caller \in Callers, call \in Call :
        req' = [req EXCEPT ![r] = [cred |-> caller[1], header |-> caller[2], call |-> call,
                                   tenant |-> None, copy |-> None]]
  BY DEF Arrive
<1>2. req'[r] \in RequestRow /\ \A q \in Request \ {r} : req'[q] = req[q]
  BY <1>1, AccessAssumption DEF RequestRow, RequestsInv, RequestsTyped
<1>3. pc' = [pc EXCEPT ![r] = "auth"]
  BY DEF Arrive, Goto
<1>4. RequestsTyped'
  BY <1>1, <1>2, <1>3, NoneIsNoRow DEF RequestsInv, RequestsTyped, Labels
<1>5. \A q \in Request : Stage(q)'
  BY <1>2, <1>3 DEF RequestsInv, RequestsTyped, Stage, Inside, UserOf
<1>6. QED
  BY <1>4, <1>5 DEF RequestsInv

\* A request that is let in, with the tenant it acts for.
LEMMA Authenticating ==
  ASSUME RequestsInv, NEW r \in Request, Authenticate(r), ~Done(r)
  PROVE  /\ req[r] \in RequestRow /\ req'[r] \in RequestRow
         /\ req'[r].tenant = TenantFor(r)
         /\ req'[r].cred = req[r].cred /\ req'[r].call = req[r].call
         /\ \A q \in Request \ {r} : req'[q] = req[q]
<1>1. req[r] \in RequestRow
  BY DEF Authenticate, At, RequestsInv, RequestsTyped
<1>2. req' = [req EXCEPT ![r].tenant = TenantFor(r), ![r].header = None]
  BY DEF Authenticate
<1>3. TenantFor(r) \in Tenant \cup {None}
  BY TenantFound DEF Authenticate, At
<1>4. QED
  BY <1>1, <1>2, <1>3 DEF RequestRow, RequestsInv, RequestsTyped

\* A request the middleware lets in has a tenant, and goes to the role check
\* when its route asks for one.
LEMMA RequestsAuthenticate ==
  ASSUME RequestsInv, NEW r \in Request, Authenticate(r)
  PROVE  RequestsInv'
<1>1. CASE Done(r)
  BY <1>1, DoneKeeps
<1>2. CASE ~Done(r)
  <2>1. PICK label \in {"role", "handle"} :
          /\ pc' = [pc EXCEPT ![r] = label]
          /\ label = "role" => req[r].call.op \in AdminOnly
    BY <1>2 DEF Authenticate, Goto
  <2>2. /\ req'[r] \in RequestRow
        /\ req'[r].call = req[r].call
        /\ req'[r].call.op # "view" => req'[r].tenant \in Tenant
        /\ \A q \in Request \ {r} : req'[q] = req[q]
    BY <1>2, Authenticating, TenantFound DEF Authenticate, At
  <2>3. pc[r] # "idle" /\ req' \in [Request -> RequestRow \cup {None}]
    BY <1>2, <2>2 DEF Authenticate, At, RequestsInv, RequestsTyped
  <2>4. RequestsTyped'
    BY <2>1, <2>2, <2>3, NoneIsNoRow DEF RequestsInv, RequestsTyped, Labels
  <2>5. \A q \in Request : Stage(q)'
    BY <2>1, <2>2 DEF RequestsInv, RequestsTyped, Stage, Inside, UserOf
  <2>6. QED
    BY <2>4, <2>5 DEF RequestsInv
<1>3. QED
  BY <1>1, <1>2

\* An update of the configuration has a configuration in hand.
LEMMA RequestsReadConfig ==
  ASSUME RequestsInv, config \in [Tenant -> Config \cup {None}],
         NEW r \in Request, ReadConfig(r)
  PROVE  RequestsInv'
<1>1. req[r] \in RequestRow /\ req[r].tenant \in Tenant /\ req[r].call.op = "configure"
  BY DEF ReadConfig, Does, At, RequestsInv, RequestsTyped, Stage, Inside
<1>2. GetScannerConfig(req[r].tenant) \in Config
  BY <1>1, AccessAssumption DEF GetScannerConfig, Config
<1>3. /\ req' = [req EXCEPT ![r].copy = GetScannerConfig(req[r].tenant)]
      /\ pc' = [pc EXCEPT ![r] = "upsert"]
  BY DEF ReadConfig, Goto
<1>4. /\ req'[r] \in RequestRow
      /\ req'[r].tenant = req[r].tenant /\ req'[r].call = req[r].call
      /\ req'[r].copy \in Config
      /\ \A q \in Request \ {r} : req'[q] = req[q]
  BY <1>1, <1>2, <1>3 DEF RequestRow, RequestsInv, RequestsTyped
<1>5. RequestsTyped'
  BY <1>3, <1>4, NoneIsNoRow DEF RequestsInv, RequestsTyped, Labels
<1>6. \A q \in Request : Stage(q)'
  BY <1>1, <1>3, <1>4 DEF RequestsInv, RequestsTyped, Stage, Inside, UserOf
<1>7. QED
  BY <1>5, <1>6 DEF RequestsInv

\* A request that goes on with what it has.
LEMMA RequestsGo ==
  ASSUME RequestsInv, NEW r \in Request, UNCHANGED req,
         \/ At(r, "role") /\ Goto(r, "handle")
         \/ Does(r, "review") /\ Reviewable(r) /\ Goto(r, "status")
         \/ At(r, "status") /\ req[r].call.status = "approved" /\ Goto(r, "list")
  PROVE  RequestsInv'
BY DEF RequestsInv, RequestsTyped, Stage, Labels, Inside, UserOf, Goto, At, Does, Reviewable

\* Every step keeps what is known of the requests.
LEMMA RequestsStep ==
  ASSUME RequestsInv, config \in [Tenant -> Config \cup {None}], [Next]_vars
  PROVE  RequestsInv'
<1>1. CASE UNCHANGED <<pc, req>>
  BY <1>1 DEF RequestsInv, RequestsTyped, Stage, UserOf
<1>2. ASSUME NEW r \in Request,
             Arrive(r) \/ Authenticate(r) \/ RequireRole(r) \/ Refuse(r) \/ Handle(r)
      PROVE  RequestsInv'
  <2>1. CASE Done(r)
    BY <2>1, DoneKeeps
  <2>2. CASE Arrive(r)
    BY <2>2, RequestsArrive
  <2>3. CASE Authenticate(r)
    BY <2>3, RequestsAuthenticate
  <2>4. CASE ReadConfig(r)
    BY <2>4, RequestsReadConfig
  <2>5. CASE RequireRole(r) /\ ~Done(r)
    BY <2>5, RequestsGo DEF RequireRole
  <2>6. CASE GetApprovalRequest(r) /\ ~Done(r)
    BY <2>6, RequestsGo DEF GetApprovalRequest
  <2>7. CASE UpdateApprovalStatus(r) /\ ~Done(r)
    BY <2>7, RequestsGo DEF UpdateApprovalStatus
  <2>8. CASE UpdateUserRole(r)
    BY <2>8 DEF UpdateUserRole, RequestsInv, RequestsTyped, Stage, Labels, Inside, UserOf
  <2>9. QED
    BY <1>2, <2>1, <2>2, <2>3, <2>4, <2>5, <2>6, <2>7, <2>8
       DEF Handle, Refuse, CreateApprovalRequest, ApproveSkillForTenant, GetMarketplaceSkill,
           CreateInviteCode, RedeemInviteCode, CreateGroup, UpdateGroup, DeleteGroup,
           AddUserToGroup, RemoveUserFromGroup, SetGroups, UpsertScannerConfig
<1>3. QED
  BY <1>1, <1>2 DEF Next, RevokeKey, AllDone, vars

-----------------------------------------------------------------------------
(***************************************************************************)
(* Type correctness: each table is written by a few handlers, from what    *)
(* their requests carry.                                                   *)
(***************************************************************************)
\* A handler's request, with its tenant and its call.
LEMMA Handled ==
  ASSUME RequestsInv, NEW r \in Request, pc[r] \in Inside
  PROVE  /\ req[r] \in RequestRow
         /\ req[r].call \in Call
         /\ req[r].call.op # "view" => req[r].tenant \in Tenant
         /\ UserOf(r) \in User \cup {None}
BY DEF RequestsInv, RequestsTyped, Stage, Inside, UserOf, RequestRow

\* The tables other than groups and user_groups.
PlainTables ==
  /\ role \in [User -> Role]
  /\ revoked \subseteq Key
  /\ approvals \in [Tenant \X Item -> Row \cup {None}]
  /\ listed \subseteq Tenant \X Item
  /\ invites \in [Code -> InviteRow \cup {None}]
  /\ config \in [Tenant -> Config \cup {None}]

GroupTables ==
  /\ groups \in [Group -> GroupRow \cup {None}]
  /\ \A g \in Group : groups[g] # None => NameFree(groups[g].tenant, groups[g].name, g)
  /\ \A m \in members : m \in User \X Group /\ groups[m[2]] # None

\* The upsert writes a row.
LEMMA UpsertTyped ==
  ASSUME NEW row \in Row \cup {None}, NEW u \in User
  PROVE  Upsert(row, u) \in Row
<1>1. CASE row = None
  BY <1>1 DEF Upsert, Row
<1>2. CASE row \in Row /\ row # None
  BY <1>2 DEF Upsert, Row
<1>3. QED
  BY <1>1, <1>2

\* A request for approval writes a row.
LEMMA AskTyped ==
  ASSUME RequestsInv, PlainTables, NEW r \in Request, CreateApprovalRequest(r)
  PROVE  approvals' \in [Tenant \X Item -> Row \cup {None}]
<1>1. /\ UserOf(r) \in User
      /\ <<req[r].tenant, req[r].call.item>> \in Tenant \X Item
  BY Handled, CallFields DEF CreateApprovalRequest, Does, At, Inside
<1>2. PICK p \in Tenant \X Item :
        approvals' = [approvals EXCEPT ![p] = Upsert(@, UserOf(r))]
  BY <1>1 DEF CreateApprovalRequest
<1>3. QED
  BY <1>1, <1>2, UpsertTyped DEF PlainTables

\* The version under review, and that there is a request for it.
RowsStay == \A r \in Request :
  pc[r] \in {"status", "list"} =>
    req[r].call.of \in Tenant \X Item /\ approvals[req[r].call.of] # None

\* A review writes a row.
LEMMA ReviewTyped ==
  ASSUME RequestsInv, PlainTables, RowsStay, NEW r \in Request, UpdateApprovalStatus(r)
  PROVE  approvals' \in [Tenant \X Item -> Row \cup {None}]
<1>1. /\ UserOf(r) \in User
      /\ req[r].call.of \in Tenant \X Item
      /\ req[r].call.status \in {"approved", "rejected"}
  BY Handled, CallFields
     DEF UpdateApprovalStatus, At, Inside, RequestsInv, Stage
<1>2. PICK p \in Tenant \X Item, status \in {"approved", "rejected"} :
        /\ approvals' = [approvals EXCEPT ![p].status = status, ![p].reviewer = UserOf(r)]
        /\ approvals[p] # None
  BY <1>1 DEF UpdateApprovalStatus, RowsStay, At
<1>3. [approvals[p] EXCEPT !.status = status, !.reviewer = UserOf(r)] \in Row
  BY <1>1, <1>2 DEF PlainTables, Row
<1>4. QED
  BY <1>2, <1>3 DEF PlainTables

\* Every handler writes rows of the types its tables have.
LEMMA PlainStep ==
  ASSUME RequestsInv, PlainTables, RowsStay, [Next]_vars
  PROVE  PlainTables'
<1>1. CASE UNCHANGED <<role, revoked, approvals, listed, invites, config>>
  BY <1>1 DEF PlainTables
<1>2. CASE RevokeKey
  BY <1>2 DEF RevokeKey, PlainTables
<1>3. ASSUME NEW r \in Request, Handle(r)
      PROVE  PlainTables'
  <2>1. CASE CreateApprovalRequest(r)
    BY <2>1, AskTyped DEF CreateApprovalRequest, PlainTables
  <2>2. CASE UpdateApprovalStatus(r)
    BY <2>2, ReviewTyped DEF UpdateApprovalStatus, PlainTables
  <2>3. CASE ApproveSkillForTenant(r)
    BY <2>3 DEF ApproveSkillForTenant, PlainTables, RowsStay, At
  <2>4. CASE UpdateUserRole(r)
    <3>1. req[r].call.user \in User /\ req[r].call.role \in Role
      BY <2>4, Handled, CallFields DEF UpdateUserRole, Does, At, Inside
    <3>2. QED
      BY <2>4, <3>1 DEF UpdateUserRole, PlainTables
  <2>5. CASE CreateInviteCode(r)
    <3>1. [tenant |-> req[r].tenant, usedBy |-> None] \in InviteRow
      BY <2>5, Handled DEF CreateInviteCode, Does, At, Inside, InviteRow
    <3>2. QED
      BY <2>5, <3>1 DEF CreateInviteCode, PlainTables
  <2>6. CASE RedeemInviteCode(r)
    <3>1. PICK c \in Code :
            /\ invites[c] # None
            /\ invites' = [invites EXCEPT ![c].usedBy = UserOf(r)]
      BY <2>6, Handled, CallFields DEF RedeemInviteCode, Redeemable, Does, At, Inside
    <3>2. UserOf(r) \in User
      BY <2>6, Handled DEF RedeemInviteCode, Does, At, Inside
    <3>3. [invites[c] EXCEPT !.usedBy = UserOf(r)] \in InviteRow
      BY <3>1, <3>2 DEF PlainTables, InviteRow
    <3>4. QED
      BY <2>6, <3>1, <3>3 DEF RedeemInviteCode, PlainTables
  <2>7. CASE UpsertScannerConfig(r)
    <3>1. req[r].tenant \in Tenant /\ Merged(r) \in Config
      BY <2>7, Handled, CallFields
         DEF UpsertScannerConfig, At, Inside, RequestsInv, Stage, Merged, Config
    <3>2. QED
      BY <2>7, <3>1 DEF UpsertScannerConfig, PlainTables
  <2>8. QED
    BY <1>1, <1>3, <2>1, <2>2, <2>3, <2>4, <2>5, <2>6, <2>7
       DEF Handle, GetApprovalRequest, GetMarketplaceSkill, CreateGroup, UpdateGroup,
           DeleteGroup, AddUserToGroup, RemoveUserFromGroup, SetGroups, ReadConfig, tables
<1>4. ASSUME NEW r \in Request, Arrive(r) \/ Authenticate(r) \/ RequireRole(r) \/ Refuse(r)
      PROVE  PlainTables'
  BY <1>1, <1>4 DEF Arrive, Authenticate, RequireRole, Refuse, tables
<1>5. QED
  BY <1>1, <1>2, <1>3, <1>4 DEF Next, AllDone, vars, tables

\* The names of the groups stay apart, and no membership outlives its group.
LEMMA GroupStep ==
  ASSUME RequestsInv, GroupTables, [Next]_vars
  PROVE  GroupTables'
<1>1. CASE UNCHANGED <<groups, members>>
  BY <1>1 DEF GroupTables, NameFree
<1>2. ASSUME NEW r \in Request, Handle(r)
      PROVE  GroupTables'
  <2>1. CASE CreateGroup(r)
    <3>1. [tenant |-> req[r].tenant, name |-> req[r].call.name] \in GroupRow
      BY <2>1, Handled, CallFields DEF CreateGroup, Does, At, Inside, GroupRow
    <3>2. PICK g \in Group :
            /\ groups[g] = None
            /\ NameFree(req[r].tenant, req[r].call.name, g)
            /\ groups' = [groups EXCEPT ![g] = [tenant |-> req[r].tenant,
                                                name |-> req[r].call.name]]
            /\ members' = members
      BY <2>1 DEF CreateGroup, SetGroups
    <3>3. QED
      BY <3>1, <3>2, NoneIsNoRow DEF GroupTables, NameFree
  <2>2. CASE UpdateGroup(r)
    <3>1. PICK g \in Group, n \in Name :
            /\ groups[g] # None
            /\ NameFree(groups[g].tenant, n, g)
            /\ groups' = [groups EXCEPT ![g].name = n]
            /\ members' = members
      BY <2>2, Handled, CallFields DEF UpdateGroup, SetGroups, Does, At, Inside
    <3>2. PICK row \in GroupRow :
            /\ row.tenant = groups[g].tenant /\ row.name = n
            /\ groups' = [groups EXCEPT ![g] = row]
      BY <3>1 DEF GroupTables, GroupRow
    <3>3. QED
      BY <3>1, <3>2, NoneIsNoRow DEF GroupTables, NameFree
  <2>3. CASE DeleteGroup(r)
    BY <2>3, Handled, CallFields
       DEF DeleteGroup, SetGroups, Does, At, Inside, GroupTables, NameFree
  <2>4. CASE AddUserToGroup(r)
    BY <2>4, Handled, CallFields
       DEF AddUserToGroup, SetGroups, Does, At, Inside, GroupTables, NameFree
  <2>5. CASE RemoveUserFromGroup(r)
    BY <2>5 DEF RemoveUserFromGroup, SetGroups, GroupTables, NameFree
  <2>6. QED
    BY <1>1, <1>2, <2>1, <2>2, <2>3, <2>4, <2>5
       DEF Handle, CreateApprovalRequest, GetApprovalRequest, UpdateApprovalStatus,
           ApproveSkillForTenant, GetMarketplaceSkill, UpdateUserRole, CreateInviteCode,
           RedeemInviteCode, ReadConfig, UpsertScannerConfig, tables
<1>3. ASSUME NEW r \in Request, Arrive(r) \/ Authenticate(r) \/ RequireRole(r) \/ Refuse(r)
      PROVE  GroupTables'
  BY <1>1, <1>3 DEF Arrive, Authenticate, RequireRole, Refuse, tables
<1>4. QED
  BY <1>1, <1>2, <1>3 DEF Next, RevokeKey, AllDone, vars, tables

-----------------------------------------------------------------------------
(***************************************************************************)
(* Approval requests.  A row is never deleted, so the row a review has     *)
(* read is there when it is written; and a request at the second write has *)
(* a row that says approved, unless a rejection came in between.           *)
(***************************************************************************)
ListedHaveRows == \A p \in listed : approvals[p] # None

\* Between the two writes of an approval.
Approving == \A r \in Request : At(r, "list") =>
  \/ approvals[req[r].call.of].status = "approved"
  \/ req[r].call.of \in overruled

Asked == asked \subseteq (Tenant \X Item) \X User

\* Everyone whose request for a version was answered 201 is on its one row,
\* as the requester or in also_requested_by, however the requests of several
\* users for one version interleave (CreateApprovalRequest's upsert).
RequestersKept ==
  \A a \in asked :
    LET row == approvals[a[1]] IN row # None /\ (row.by = a[2] \/ a[2] \in row.also)

ApprovalsInv ==
  RowsStay /\ ListedHaveRows /\ Approving /\ Asked /\ RequestersKept /\ ApprovalTakesEffect

\* How a request comes to review, and to the second write of an approval.
LEMMA ToReview ==
  ASSUME RequestsInv, [Next]_vars, NEW q \in Request, pc'[q] \in {"status", "list"}
  PROVE  /\ req'[q] = req[q]
         /\ \/ pc'[q] = pc[q]
            \/ pc'[q] = "status" /\ Does(q, "review") /\ Reviewable(q)
            \/ pc'[q] = "list" /\ UpdateApprovalStatus(q) /\ req[q].call.status = "approved"
<1>1. CASE UNCHANGED <<pc, req>>
  BY <1>1
<1>2. ASSUME NEW r \in Request,
             Arrive(r) \/ Authenticate(r) \/ RequireRole(r) \/ Refuse(r) \/ Handle(r)
      PROVE  /\ req'[q] = req[q]
             /\ \/ pc'[q] = pc[q]
                \/ pc'[q] = "status" /\ Does(q, "review") /\ Reviewable(q)
                \/ /\ pc'[q] = "list" /\ UpdateApprovalStatus(q)
                   /\ req[q].call.status = "approved"
  <2>1. CASE Done(r)
    BY <2>1 DEF Done, RequestsInv, RequestsTyped
  <2>2. CASE Arrive(r)
    BY <2>2 DEF Arrive, Goto, RequestsInv, RequestsTyped
  <2>3. CASE Authenticate(r)
    BY <2>1, <2>3 DEF Authenticate, Goto, RequestsInv, RequestsTyped
  <2>4. CASE RequireRole(r)
    BY <2>1, <2>4 DEF RequireRole, Goto, RequestsInv, RequestsTyped
  <2>5. CASE GetApprovalRequest(r)
    BY <2>1, <2>5 DEF GetApprovalRequest, Goto, RequestsInv, RequestsTyped
  <2>6. CASE UpdateApprovalStatus(r)
    BY <2>1, <2>6 DEF UpdateApprovalStatus, Goto, RequestsInv, RequestsTyped
  <2>7. CASE ReadConfig(r)
    BY <2>7 DEF ReadConfig, Goto, RequestsInv, RequestsTyped
  <2>8. CASE UpdateUserRole(r)
    BY <2>8 DEF UpdateUserRole, RequestsInv, RequestsTyped
  <2>9. QED
    BY <1>2, <2>1, <2>2, <2>3, <2>4, <2>5, <2>6, <2>7, <2>8
       DEF Handle, Refuse, CreateApprovalRequest, ApproveSkillForTenant, GetMarketplaceSkill,
           CreateInviteCode, RedeemInviteCode, CreateGroup, UpdateGroup, DeleteGroup,
           AddUserToGroup, RemoveUserFromGroup, SetGroups, UpsertScannerConfig
<1>3. QED
  BY <1>1, <1>2 DEF Next, RevokeKey, AllDone, vars

\* The steps that touch the books of approvals.
LEMMA ApprovalsChange ==
  ASSUME [Next]_vars
  PROVE  \/ UNCHANGED <<approvals, listed, asked, granted, halfDone, overruled>>
         \/ \E r \in Request : \/ CreateApprovalRequest(r) \/ UpdateApprovalStatus(r)
                               \/ ApproveSkillForTenant(r) \/ Refuse(r)
<1>1. ASSUME NEW r \in Request,
             Arrive(r) \/ Authenticate(r) \/ RequireRole(r) \/ Refuse(r) \/ Handle(r)
      PROVE  \/ UNCHANGED <<approvals, listed, asked, granted, halfDone, overruled>>
             \/ \/ CreateApprovalRequest(r) \/ UpdateApprovalStatus(r)
                \/ ApproveSkillForTenant(r) \/ Refuse(r)
  BY <1>1 DEF Handle, Arrive, Authenticate, RequireRole, GetApprovalRequest,
              GetMarketplaceSkill, UpdateUserRole, CreateInviteCode, RedeemInviteCode,
              CreateGroup, UpdateGroup, DeleteGroup, AddUserToGroup, RemoveUserFromGroup,
              SetGroups, ReadConfig, UpsertScannerConfig, tables, history
<1>2. QED
  BY <1>1 DEF Next, RevokeKey, AllDone, vars, tables, history

\* The row written for a new request: the one there was, or a pending one,
\* with the user on it.
LEMMA UpsertResult ==
  ASSUME NEW row \in Row \cup {None}, NEW u \in User
  PROVE  LET new == Upsert(row, u)
         IN  /\ new # None
             /\ new.by = u \/ u \in new.also
             /\ row # None => /\ new.by = row.by /\ row.also \subseteq new.also
                              /\ new.status = row.status /\ new.reviewer = row.reviewer
             /\ row = None => new.status = "pending"
<1>1. Upsert(row, u) # None
  BY UpsertTyped, NoneIsNoRow
<1>2. CASE row = None
  BY <1>1, <1>2 DEF Upsert
<1>3. CASE row \in Row /\ row # None
  BY <1>1, <1>3 DEF Upsert, Row
<1>4. QED
  BY <1>2, <1>3

\* A request for approval, as a change of one row.
LEMMA AskEffect ==
  ASSUME RequestsInv, PlainTables, NEW r \in Request, CreateApprovalRequest(r)
  PROVE  \E p \in Tenant \X Item, u \in User, new \in Row :
           /\ new = Upsert(approvals[p], u)
           /\ approvals' = [approvals EXCEPT ![p] = new]
           /\ asked' = asked \cup {<<p, u>>}
           /\ UNCHANGED <<listed, granted, halfDone, overruled>>
<1>1. /\ UserOf(r) \in User
      /\ <<req[r].tenant, req[r].call.item>> \in Tenant \X Item
  BY Handled, CallFields DEF CreateApprovalRequest, Does, At, Inside
<1>2. PICK p \in Tenant \X Item, u \in User :
        /\ approvals' = [approvals EXCEPT ![p] = Upsert(@, u)]
        /\ asked' = asked \cup {<<p, u>>}
  BY <1>1 DEF CreateApprovalRequest
<1>3. Upsert(approvals[p], u) \in Row
  BY <1>2, UpsertTyped DEF PlainTables
<1>4. QED
  BY <1>2, <1>3 DEF CreateApprovalRequest, PlainTables

\* A review, as a change of one row.
LEMMA ReviewEffect ==
  ASSUME RequestsInv, PlainTables, RowsStay, NEW r \in Request, UpdateApprovalStatus(r)
  PROVE  \E p \in Tenant \X Item, status \in {"approved", "rejected"}, new \in Row :
           /\ p = req[r].call.of /\ status = req[r].call.status
           /\ approvals[p] # None
           /\ new.status = status /\ new.reviewer = UserOf(r)
           /\ new.by = approvals[p].by /\ new.also = approvals[p].also
           /\ approvals' = [approvals EXCEPT ![p] = new]
           /\ overruled' = IF status = "rejected" /\ approvals[p].status = "approved"
                           THEN overruled \cup {p} ELSE overruled
           /\ status = "approved" => pc' = [pc EXCEPT ![r] = "list"] /\ req' = req
           /\ status = "rejected" => pc' = [pc EXCEPT ![r] = "idle"]
           /\ UNCHANGED <<listed, asked, granted, halfDone>>
<1>1. /\ UserOf(r) \in User
      /\ req[r].call.of \in Tenant \X Item
      /\ req[r].call.status \in {"approved", "rejected"}
  BY Handled, CallFields DEF UpdateApprovalStatus, At, Inside, RequestsInv, Stage
<1>2. approvals[req[r].call.of] \in Row /\ approvals[req[r].call.of] # None
  BY <1>1 DEF UpdateApprovalStatus, RowsStay, At, PlainTables
<1>3. PICK p \in Tenant \X Item, status \in {"approved", "rejected"} :
        p = req[r].call.of /\ status = req[r].call.status
  BY <1>1
<1>4. PICK new : new = [approvals[p] EXCEPT !.status = status, !.reviewer = UserOf(r)]
  OBVIOUS
<1>5. /\ new \in Row /\ new.status = status /\ new.reviewer = UserOf(r)
      /\ new.by = approvals[p].by /\ new.also = approvals[p].also
  BY <1>1, <1>2, <1>3, <1>4 DEF Row
<1>6. approvals' = [approvals EXCEPT ![p] = new]
  BY <1>2, <1>3, <1>4 DEF UpdateApprovalStatus, PlainTables
<1>7. /\ overruled' = IF status = "rejected" /\ approvals[p].status = "approved"
                      THEN overruled \cup {p} ELSE overruled
      /\ status = "approved" => pc' = [pc EXCEPT ![r] = "list"] /\ req' = req
      /\ status = "rejected" => pc' = [pc EXCEPT ![r] = "idle"]
      /\ UNCHANGED <<listed, asked, granted, halfDone>>
  BY <1>3 DEF UpdateApprovalStatus, Goto, Done
<1>8. QED
  BY <1>2, <1>3, <1>4, <1>5, <1>6, <1>7

\* No row is taken away.
LEMMA RowsKept ==
  ASSUME RequestsInv, PlainTables, RowsStay, [Next]_vars,
         NEW p \in Tenant \X Item, approvals[p] # None
  PROVE  approvals'[p] # None
<1>1. ASSUME NEW r \in Request, CreateApprovalRequest(r)
      PROVE  approvals'[p] # None
  BY <1>1, AskEffect, NoneIsNoRow DEF PlainTables
<1>2. ASSUME NEW r \in Request, UpdateApprovalStatus(r)
      PROVE  approvals'[p] # None
  <2>1. PICK x \in Tenant \X Item, new \in Row : approvals' = [approvals EXCEPT ![x] = new]
    BY <1>2, ReviewEffect
  <2>2. QED
    BY <2>1, NoneIsNoRow DEF PlainTables
<1>3. ASSUME NEW r \in Request, ApproveSkillForTenant(r) \/ Refuse(r)
      PROVE  approvals'[p] # None
  BY <1>3 DEF ApproveSkillForTenant, Refuse, tables
<1>4. QED
  BY <1>1, <1>2, <1>3, ApprovalsChange

\* Reviews keep the row they have read.
LEMMA RowsStayStep ==
  ASSUME RequestsInv, PlainTables, RowsStay, [Next]_vars
  PROVE  RowsStay'
<1> SUFFICES ASSUME NEW q \in Request, pc'[q] \in {"status", "list"}
             PROVE  /\ req'[q].call.of \in Tenant \X Item
                    /\ approvals'[req'[q].call.of] # None
  BY DEF RowsStay
<1>1. PICK p : p = req[q].call.of /\ p = req'[q].call.of
  BY ToReview
<1>2. p \in Tenant \X Item /\ approvals[p] # None
  <2>1. CASE pc[q] \in {"status", "list"}
    BY <1>1, <2>1 DEF RowsStay
  <2>2. CASE Does(q, "review") /\ Reviewable(q)
    BY <1>1, <2>2, Handled, CallFields DEF Does, At, Inside, Reviewable
  <2>3. QED
    BY <2>1, <2>2, ToReview DEF UpdateApprovalStatus, At
<1>3. QED
  BY <1>1, <1>2, RowsKept

\* A second write finds an approved row, or one a rejection was written over.
LEMMA ApprovingStep ==
  ASSUME RequestsInv, PlainTables, RowsStay, Approving, [Next]_vars
  PROVE  Approving'
<1> SUFFICES ASSUME NEW q \in Request, pc'[q] = "list"
             PROVE  \/ approvals'[req'[q].call.of].status = "approved"
                    \/ req'[q].call.of \in overruled'
  BY DEF Approving, At
<1>1. PICK p : p = req[q].call.of /\ p = req'[q].call.of
  BY ToReview
<1>2. pc[q] = "list" => /\ p \in Tenant \X Item /\ approvals[p] # None
                        /\ approvals[p].status = "approved" \/ p \in overruled
  BY <1>1 DEF RowsStay, Approving, At
<1>3. pc[q] = "list" \/ (UpdateApprovalStatus(q) /\ req[q].call.status = "approved")
  BY ToReview
<1>4. ASSUME NEW r \in Request, UpdateApprovalStatus(r)
      PROVE  approvals'[p].status = "approved" \/ p \in overruled'
  <2>1. PICK x \in Tenant \X Item, status \in {"approved", "rejected"}, new \in Row :
          /\ x = req[r].call.of /\ status = req[r].call.status
          /\ new.status = status
          /\ approvals' = [approvals EXCEPT ![x] = new]
          /\ overruled' = IF status = "rejected" /\ approvals[x].status = "approved"
                          THEN overruled \cup {x} ELSE overruled
          /\ status = "approved" => pc' = [pc EXCEPT ![r] = "list"]
          /\ status = "rejected" => pc' = [pc EXCEPT ![r] = "idle"]
    BY <1>4, ReviewEffect
  <2>2. CASE pc[q] = "list"
    BY <1>2, <2>1, <2>2 DEF PlainTables
  <2>3. CASE pc[q] # "list"
    <3>1. q = r
      BY <2>1, <2>3 DEF RequestsInv, RequestsTyped
    <3>2. QED
      BY <1>1, <1>3, <2>1, <2>3, <3>1 DEF PlainTables
  <2>4. QED
    BY <2>2, <2>3
<1>5. ASSUME NEW r \in Request, CreateApprovalRequest(r)
      PROVE  approvals'[p].status = "approved" \/ p \in overruled'
  <2>1. pc[q] = "list"
    BY <1>5 DEF CreateApprovalRequest, Done, RequestsInv, RequestsTyped
  <2>2. QED
    BY <1>2, <1>5, <2>1, AskEffect, UpsertResult DEF PlainTables
<1>6. ASSUME UNCHANGED <<approvals, overruled>>
      PROVE  approvals'[p].status = "approved" \/ p \in overruled'
  BY <1>2, <1>3, <1>4, <1>6
<1>7. QED
  BY <1>1, <1>4, <1>5, <1>6, ApprovalsChange DEF ApproveSkillForTenant, Refuse, tables

\* Everything listed has a row, and every user answered is on one.
LEMMA BooksStep ==
  ASSUME RequestsInv, PlainTables, RowsStay, ListedHaveRows, Asked, RequestersKept, [Next]_vars
  PROVE  ListedHaveRows' /\ Asked' /\ RequestersKept'
<1>1. \A p \in listed : approvals'[p] # None
  BY RowsKept DEF ListedHaveRows, PlainTables
<1>2. ASSUME NEW r \in Request, CreateApprovalRequest(r)
      PROVE  Asked' /\ RequestersKept'
  <2>1. PICK p \in Tenant \X Item, u \in User, new \in Row :
          /\ new = Upsert(approvals[p], u)
          /\ approvals' = [approvals EXCEPT ![p] = new]
          /\ asked' = asked \cup {<<p, u>>}
    BY <1>2, AskEffect
  <2>2. /\ new # None /\ (new.by = u \/ u \in new.also)
        /\ approvals[p] # None => new.by = approvals[p].by /\ approvals[p].also \subseteq new.also
    BY <2>1, UpsertResult DEF PlainTables
  <2>3. Asked'
    BY <2>1 DEF Asked
  <2>4. ASSUME NEW a \in asked'
        PROVE  /\ approvals'[a[1]] # None
               /\ approvals'[a[1]].by = a[2] \/ a[2] \in approvals'[a[1]].also
    BY <2>1, <2>2, <2>4 DEF Asked, RequestersKept, PlainTables
  <2>5. QED
    BY <2>3, <2>4 DEF RequestersKept
<1>3. ASSUME NEW r \in Request, UpdateApprovalStatus(r)
      PROVE  Asked' /\ RequestersKept'
  <2>1. PICK p \in Tenant \X Item, new \in Row :
          /\ new.by = approvals[p].by /\ new.also = approvals[p].also
          /\ approvals' = [approvals EXCEPT ![p] = new]
          /\ asked' = asked
    BY <1>3, ReviewEffect
  <2>2. QED
    BY <2>1, NoneIsNoRow DEF Asked, RequestersKept, PlainTables
<1>4. ASSUME UNCHANGED <<approvals, asked>>
      PROVE  Asked' /\ RequestersKept'
  BY <1>4 DEF Asked, RequestersKept
<1>5. Asked' /\ RequestersKept'
  BY <1>2, <1>3, <1>4, ApprovalsChange DEF ApproveSkillForTenant, Refuse, tables
<1>6. ASSUME listed' # listed
      PROVE  \E r \in Request : /\ At(r, "list")
                                /\ listed' = listed \cup {req[r].call.of}
                                /\ UNCHANGED approvals
  <2>1. ASSUME NEW r \in Request,
               CreateApprovalRequest(r) \/ UpdateApprovalStatus(r) \/ Refuse(r)
        PROVE  listed' = listed
    BY <2>1 DEF CreateApprovalRequest, UpdateApprovalStatus, Refuse, tables
  <2>2. PICK r \in Request : ApproveSkillForTenant(r)
    BY <1>6, <2>1, ApprovalsChange
  <2>3. QED
    BY <2>2 DEF ApproveSkillForTenant
<1>7. ListedHaveRows'
  BY <1>1, <1>6 DEF ListedHaveRows, RowsStay, At
<1>8. QED
  BY <1>5, <1>7

\* One request's step leaves the others where they are.
LEMMA OthersStay ==
  ASSUME RequestsInv, NEW r \in Request, NEW q \in Request \ {r},
         Arrive(r) \/ Authenticate(r) \/ RequireRole(r) \/ Refuse(r) \/ Handle(r)
  PROVE  pc'[q] = pc[q] /\ req'[q] = req[q]
<1>1. CASE Done(r)
  BY <1>1 DEF Done, RequestsInv, RequestsTyped
<1>2. CASE Arrive(r) \/ UpdateUserRole(r) \/ ReadConfig(r)
  BY <1>2 DEF Arrive, UpdateUserRole, ReadConfig, Goto, RequestsInv, RequestsTyped
<1>3. CASE ~Done(r) /\ (Authenticate(r) \/ RequireRole(r))
  BY <1>3 DEF Authenticate, RequireRole, Goto, RequestsInv, RequestsTyped
<1>4. CASE ~Done(r) /\ (GetApprovalRequest(r) \/ UpdateApprovalStatus(r))
  BY <1>4 DEF GetApprovalRequest, UpdateApprovalStatus, Goto, RequestsInv, RequestsTyped
<1>5. QED
  BY <1>1, <1>2, <1>3, <1>4
     DEF Handle, Refuse, CreateApprovalRequest, ApproveSkillForTenant, GetMarketplaceSkill,
         CreateInviteCode, RedeemInviteCode, CreateGroup, UpdateGroup, DeleteGroup,
         AddUserToGroup, RemoveUserFromGroup, SetGroups, UpsertScannerConfig

\* A request leaves the second write of an approval by making it or failing.
LEMMA FromList ==
  ASSUME RequestsInv, [Next]_vars, NEW q \in Request, At(q, "list")
  PROVE  \/ pc'[q] = "list" /\ req'[q] = req[q]
         \/ ApproveSkillForTenant(q) \/ Refuse(q)
<1>1. CASE UNCHANGED <<pc, req>>
  BY <1>1 DEF At
<1>2. ASSUME NEW r \in Request, r # q,
             Arrive(r) \/ Authenticate(r) \/ RequireRole(r) \/ Refuse(r) \/ Handle(r)
      PROVE  pc'[q] = "list" /\ req'[q] = req[q]
  BY <1>2, OthersStay DEF At
<1>3. ASSUME Arrive(q) \/ Authenticate(q) \/ RequireRole(q) \/ Refuse(q) \/ Handle(q)
      PROVE  ApproveSkillForTenant(q) \/ Refuse(q)
  BY <1>3 DEF Handle, Arrive, Authenticate, RequireRole, GetApprovalRequest, At, Does,
              CreateApprovalRequest, UpdateApprovalStatus, GetMarketplaceSkill, UpdateUserRole,
              CreateInviteCode, RedeemInviteCode, CreateGroup, UpdateGroup, DeleteGroup,
              AddUserToGroup, RemoveUserFromGroup, ReadConfig, UpsertScannerConfig
<1>4. QED
  BY <1>1, <1>2, <1>3 DEF Next, RevokeKey, AllDone, vars

\* Approved but not listed, with what excuses it.
Excused(p) ==
  \/ p \in halfDone
  \/ \E r \in Request : At(r, "list") /\ req[r].call.of = p

\* An excuse lasts until the version is listed.
LEMMA ExcuseStep ==
  ASSUME RequestsInv, [Next]_vars, NEW p, Excused(p)
  PROVE  Excused(p)' \/ p \in listed'
<1>1. CASE p \in halfDone
  BY <1>1, ApprovalsChange
     DEF Excused, CreateApprovalRequest, UpdateApprovalStatus, ApproveSkillForTenant, Refuse
<1>2. ASSUME NEW q \in Request, At(q, "list"), req[q].call.of = p
      PROVE  Excused(p)' \/ p \in listed'
  BY <1>2, FromList DEF Excused, At, ApproveSkillForTenant, Refuse
<1>3. QED
  BY <1>1, <1>2 DEF Excused

\* ApprovalTakesEffect is kept by every step.
LEMMA ApprovalStep ==
  ASSUME RequestsInv, PlainTables, ApprovalsInv, [Next]_vars
  PROVE  ApprovalTakesEffect'
<1>1. granted \subseteq listed /\ granted' \subseteq listed'
  BY ApprovalsChange
     DEF ApprovalsInv, ApprovalTakesEffect, CreateApprovalRequest, UpdateApprovalStatus,
         ApproveSkillForTenant, Refuse, tables
<1>2. /\ listed \subseteq listed' /\ overruled \subseteq overruled'
      /\ listed' # listed => UNCHANGED <<approvals, overruled>>
  BY ApprovalsChange
     DEF CreateApprovalRequest, UpdateApprovalStatus, ApproveSkillForTenant, Refuse, tables
<1>3. ASSUME NEW p \in Tenant \X Item, approvals'[p] # None
      PROVE  /\ approvals'[p].status = "approved" /\ p \notin listed' => Excused(p)'
             /\ p \in listed' /\ approvals'[p].status # "approved" => p \in overruled'
  <2>1. CASE approvals[p] # None /\ approvals'[p].status = approvals[p].status
    <3>1. approvals[p].status = "approved" /\ p \notin listed => Excused(p)
      BY <2>1 DEF ApprovalsInv, ApprovalTakesEffect, Excused
    <3>2. p \in listed /\ approvals[p].status # "approved" => p \in overruled
      BY <2>1 DEF ApprovalsInv, ApprovalTakesEffect
    <3>3. p \in listed' /\ p \notin listed =>
            approvals[p].status = "approved" \/ p \in overruled'
      BY <1>2, ApprovalsChange
         DEF ApprovalsInv, Approving, CreateApprovalRequest, UpdateApprovalStatus,
             ApproveSkillForTenant, Refuse, tables
    <3>4. QED
      BY <1>2, <2>1, <3>1, <3>2, <3>3, ExcuseStep
  <2>2. ASSUME NEW r \in Request, CreateApprovalRequest(r), approvals[p] = None
        PROVE  approvals'[p].status = "pending" /\ p \notin listed'
    <3>1. PICK x \in Tenant \X Item, u \in User, new \in Row :
            /\ new = Upsert(approvals[x], u)
            /\ approvals' = [approvals EXCEPT ![x] = new]
            /\ listed' = listed
      BY <2>2, AskEffect
    <3>2. x = p
      BY <1>3, <2>2, <3>1 DEF PlainTables
    <3>3. new.status = "pending"
      BY <2>2, <3>1, <3>2, UpsertResult DEF PlainTables
    <3>4. QED
      BY <2>2, <3>1, <3>2, <3>3 DEF PlainTables, ApprovalsInv, ListedHaveRows
  <2>3. ASSUME NEW r \in Request, CreateApprovalRequest(r), approvals[p] # None
        PROVE  approvals'[p].status = approvals[p].status
    BY <2>3, AskEffect, UpsertResult DEF PlainTables
  <2>4. ASSUME NEW r \in Request, UpdateApprovalStatus(r)
        PROVE  /\ approvals'[p].status = "approved" /\ p \notin listed' => Excused(p)'
               /\ p \in listed' /\ approvals'[p].status # "approved" => p \in overruled'
    <3>1. PICK x \in Tenant \X Item, status \in {"approved", "rejected"}, new \in Row :
            /\ x = req[r].call.of
            /\ approvals[x] # None
            /\ new.status = status
            /\ approvals' = [approvals EXCEPT ![x] = new]
            /\ overruled' = IF status = "rejected" /\ approvals[x].status = "approved"
                            THEN overruled \cup {x} ELSE overruled
            /\ status = "approved" => pc' = [pc EXCEPT ![r] = "list"] /\ req' = req
            /\ listed' = listed
      BY <2>4, ReviewEffect DEF ApprovalsInv
    <3>2. CASE x = p /\ status = "approved"
      BY <3>1, <3>2 DEF Excused, At, PlainTables, RequestsInv, RequestsTyped
    <3>3. CASE x = p /\ status = "rejected"
      BY <3>1, <3>3 DEF PlainTables, ApprovalsInv, ApprovalTakesEffect
    <3>4. CASE x # p
      BY <2>1, <3>1, <3>4, <1>3 DEF PlainTables
    <3>5. QED
      BY <3>1, <3>2, <3>3, <3>4
  <2>5. CASE UNCHANGED approvals
    BY <1>3, <2>1, <2>5
  <2>6. QED
    BY <2>1, <2>2, <2>3, <2>4, <2>5, ApprovalsChange DEF ApproveSkillForTenant, Refuse, tables
<1>4. QED
  BY <1>1, <1>3 DEF ApprovalTakesEffect, Excused

-----------------------------------------------------------------------------
(***************************************************************************)
(* Tenants and administrators.  The role is asked once, in front of the    *)
(* handler; wasAdmin remembers who had it at any time since.               *)
(***************************************************************************)
\* Whose cred has the role is on record, and so is whoever passed the check.
AdminsKnown == \A r \in Request : req[r] # None =>
  /\ IsAdmin(req[r].cred) => r \in wasAdmin
  /\ pc[r] \in Inside \ {"role"} /\ req[r].call.op \in AdminOnly /\ UserOf(r) # None =>
       r \in wasAdmin

\* Whoever is an administrator while its request is there stays on record.
LEMMA AdminsStep ==
  ASSUME RequestsInv, role \in [User -> Role], AdminsKnown, [Next]_vars
  PROVE  AdminsKnown'
<1>1. CASE UNCHANGED <<role, pc, req, wasAdmin>>
  BY <1>1 DEF AdminsKnown, IsAdmin, UserOf
<1>2. ASSUME NEW r \in Request, Done(r), UNCHANGED role
      PROVE  AdminsKnown'
  BY <1>2 DEF Done, AdminsKnown, IsAdmin, UserOf, RequestsInv, RequestsTyped
<1>3. ASSUME NEW r \in Request, Arrive(r)
      PROVE  AdminsKnown'
  <2>1. PICK caller \in Callers, call \in Call :
          /\ req' = [req EXCEPT ![r] = [cred |-> caller[1], header |-> caller[2], call |-> call,
                                        tenant |-> None, copy |-> None]]
          /\ wasAdmin' = IF IsAdmin(caller[1]) THEN wasAdmin \cup {r} ELSE wasAdmin
    BY <1>3 DEF Arrive
  <2>2. /\ req'[r].cred = caller[1] /\ pc'[r] = "auth"
        /\ \A q \in Request \ {r} : req'[q] = req[q] /\ pc'[q] = pc[q]
    BY <1>3, <2>1 DEF Arrive, Goto, RequestsInv, RequestsTyped
  <2>3. wasAdmin \subseteq wasAdmin' /\ (IsAdmin(caller[1]) => r \in wasAdmin')
    BY <2>1
  <2>4. UNCHANGED role
    BY <1>3 DEF Arrive, tables
  <2>5. QED
    BY <2>2, <2>3, <2>4 DEF AdminsKnown, IsAdmin, Inside, UserOf
<1>4. ASSUME NEW r \in Request, Authenticate(r), ~Done(r)
      PROVE  AdminsKnown'
  <2>1. PICK label \in {"role", "handle"} :
          /\ pc' = [pc EXCEPT ![r] = label]
          /\ label = "handle" => req[r].call.op \notin AdminOnly
    BY <1>4 DEF Authenticate, Goto
  <2>2. /\ req'[r].cred = req[r].cred /\ req'[r].call = req[r].call
        /\ \A q \in Request \ {r} : req'[q] = req[q]
    BY <1>4, Authenticating
  <2>3. UNCHANGED <<role, wasAdmin>>
    BY <1>4 DEF Authenticate, tables
  <2>4. QED
    BY <1>4, <2>1, <2>2, <2>3
       DEF AdminsKnown, IsAdmin, Inside, UserOf, RequestsInv, RequestsTyped, Authenticate, At
<1>5. ASSUME NEW r \in Request, RequireRole(r), ~Done(r)
      PROVE  AdminsKnown'
  <2>1. /\ pc' = [pc EXCEPT ![r] = "handle"]
        /\ UserOf(r) = None \/ IsAdmin(UserOf(r))
        /\ UNCHANGED <<role, req, wasAdmin>>
    BY <1>5 DEF RequireRole, PassesRole, Goto, tables
  <2>2. UserOf(r) # None => UserOf(r) = req[r].cred
    BY DEF UserOf
  <2>3. QED
    BY <2>1, <2>2 DEF AdminsKnown, IsAdmin, UserOf, RequestsInv, RequestsTyped
<1>6. ASSUME NEW r \in Request, UNCHANGED <<role, wasAdmin>>,
             \/ GetApprovalRequest(r) /\ ~Done(r)
             \/ UpdateApprovalStatus(r) /\ ~Done(r)
      PROVE  AdminsKnown'
  <2>1. PICK label \in {"status", "list"} : pc' = [pc EXCEPT ![r] = label]
    BY <1>6 DEF GetApprovalRequest, UpdateApprovalStatus, Goto
  <2>2. pc[r] \in {"handle", "status"} /\ UNCHANGED req
    BY <1>6 DEF GetApprovalRequest, UpdateApprovalStatus, Does, At
  <2>3. QED
    BY <1>6, <2>1, <2>2 DEF AdminsKnown, IsAdmin, UserOf, Inside, RequestsInv, RequestsTyped
<1>7. ASSUME NEW r \in Request, ReadConfig(r)
      PROVE  AdminsKnown'
  <2>1. /\ pc' = [pc EXCEPT ![r] = "upsert"] /\ pc[r] = "handle"
        /\ req[r] \in RequestRow
        /\ req' = [req EXCEPT ![r].copy = GetScannerConfig(req[r].tenant)]
        /\ UNCHANGED <<role, wasAdmin>>
    BY <1>7 DEF ReadConfig, Goto, Does, At, tables, history, RequestsInv, RequestsTyped
  <2>2. /\ req'[r].cred = req[r].cred /\ req'[r].call = req[r].call
        /\ \A q \in Request \ {r} : req'[q] = req[q]
    BY <2>1 DEF RequestRow, RequestsInv, RequestsTyped
  <2>3. QED
    BY <2>1, <2>2 DEF AdminsKnown, IsAdmin, UserOf, Inside, RequestsInv, RequestsTyped
<1>8. ASSUME NEW r \in Request, UpdateUserRole(r)
      PROVE  AdminsKnown'
  BY <1>8 DEF UpdateUserRole, AdminsKnown, IsAdmin, UserOf, RequestsInv, RequestsTyped
<1>9. ASSUME NEW r \in Request, Handle(r)
      PROVE  AdminsKnown'
  <2>1. CASE Done(r) /\ UNCHANGED role
    BY <1>2, <2>1
  <2>2. CASE GetApprovalRequest(r)
    BY <1>2, <1>6, <2>2 DEF GetApprovalRequest, tables
  <2>3. CASE UpdateApprovalStatus(r)
    BY <1>2, <1>6, <2>3 DEF UpdateApprovalStatus
  <2>4. QED
    BY <1>7, <1>8, <1>9, <2>1, <2>2, <2>3
       DEF Handle, CreateApprovalRequest, ApproveSkillForTenant, GetMarketplaceSkill,
           CreateInviteCode, RedeemInviteCode, CreateGroup, UpdateGroup, DeleteGroup,
           AddUserToGroup, RemoveUserFromGroup, SetGroups, UpsertScannerConfig, tables
<1>10. ASSUME NEW r \in Request, Authenticate(r) \/ RequireRole(r) \/ Refuse(r)
       PROVE  AdminsKnown'
  BY <1>2, <1>4, <1>5, <1>10 DEF Authenticate, RequireRole, Refuse, tables
<1>11. QED
  BY <1>1, <1>3, <1>9, <1>10 DEF Next, RevokeKey, AllDone, vars, tables, history

\* The tenant of a request is that of its credential, unless a service key
\* names another.
LEMMA TenantOwned ==
  ASSUME RequestsInv, NEW r \in Request, pc[r] # "idle", TenantFor(r) # None
  PROVE  OwnedBy(req[r].cred, TenantFor(r))
<1>1. req[r].cred \in User \cup Key
  BY DEF RequestsInv, RequestsTyped, RequestRow
<1>2. req[r].cred \in Service \/ TenantFor(r) = AuthMiddleware(req[r].cred)
  BY DEF TenantFor, TenantMiddleware
<1>3. QED
  BY <1>1, <1>2 DEF OwnedBy, AuthMiddleware, authenticateJWT, authenticateAPIKey, GetAPIKeyByHash

ActsForItsTenant ==
  \A r \in Request :
    req[r] # None /\ req[r].tenant # None => OwnedBy(req[r].cred, req[r].tenant)

\* No step gives a request the tenant of another.
LEMMA ActsStep ==
  ASSUME RequestsInv, ActsForItsTenant, [Next]_vars
  PROVE  ActsForItsTenant'
<1>1. CASE UNCHANGED req
  BY <1>1 DEF ActsForItsTenant
<1>2. ASSUME NEW r \in Request, req' = [req EXCEPT ![r] = None]
      PROVE  ActsForItsTenant'
  BY <1>2 DEF ActsForItsTenant, RequestsInv, RequestsTyped
<1>3. ASSUME NEW r \in Request, Arrive(r)
      PROVE  ActsForItsTenant'
  <2>1. req'[r].tenant = None /\ \A q \in Request \ {r} : req'[q] = req[q]
    BY <1>3 DEF Arrive, RequestsInv, RequestsTyped
  <2>2. QED
    BY <2>1 DEF ActsForItsTenant
<1>4. ASSUME NEW r \in Request, Authenticate(r), ~Done(r)
      PROVE  ActsForItsTenant'
  <2>1. pc[r] # "idle"
    BY <1>4 DEF Authenticate, At
  <2>2. /\ req'[r].tenant = TenantFor(r) /\ req'[r].cred = req[r].cred
        /\ \A q \in Request \ {r} : req'[q] = req[q]
    BY <1>4, Authenticating
  <2>3. QED
    BY <2>1, <2>2, TenantOwned DEF ActsForItsTenant
<1>5. ASSUME NEW r \in Request, ReadConfig(r)
      PROVE  ActsForItsTenant'
  <2>1. /\ req[r] \in RequestRow /\ req[r] # None
        /\ req' = [req EXCEPT ![r].copy = GetScannerConfig(req[r].tenant)]
    BY <1>5, NoneIsNoRow DEF ReadConfig, Does, At, RequestsInv, RequestsTyped
  <2>2. /\ req'[r].cred = req[r].cred /\ req'[r].tenant = req[r].tenant
        /\ \A q \in Request \ {r} : req'[q] = req[q]
    BY <2>1 DEF RequestRow, RequestsInv, RequestsTyped
  <2>3. QED
    BY <2>1, <2>2 DEF ActsForItsTenant
<1>6. ASSUME NEW r \in Request, RequireRole(r) \/ Refuse(r) \/ Handle(r)
      PROVE  ActsForItsTenant'
  BY <1>1, <1>2, <1>5, <1>6
     DEF Handle, RequireRole, Refuse, Done, GetApprovalRequest, UpdateApprovalStatus,
         CreateApprovalRequest, ApproveSkillForTenant, GetMarketplaceSkill, UpdateUserRole,
         CreateInviteCode, RedeemInviteCode, CreateGroup, UpdateGroup, DeleteGroup,
         AddUserToGroup, RemoveUserFromGroup, SetGroups, UpsertScannerConfig
<1>7. ASSUME NEW r \in Request, Authenticate(r)
      PROVE  ActsForItsTenant'
  BY <1>2, <1>4, <1>7 DEF Done
<1>8. QED
  BY <1>1, <1>3, <1>6, <1>7 DEF Next, RevokeKey, AllDone, vars

-----------------------------------------------------------------------------
(***************************************************************************)
(* Invite codes and the scanner configuration.                             *)
(***************************************************************************)
RedeemsTyped == redeemed \subseteq Code \X User

\* A code that names its user is not redeemed again.
LEMMA RedeemStep ==
  ASSUME RequestsInv, PlainTables, RedeemsTyped, RedeemedOnce, [Next]_vars
  PROVE  RedeemsTyped' /\ RedeemedOnce'
<1>1. CASE UNCHANGED <<invites, redeemed>>
  BY <1>1 DEF RedeemsTyped, RedeemedOnce
<1>2. ASSUME NEW r \in Request, CreateInviteCode(r)
      PROVE  RedeemsTyped' /\ RedeemedOnce'
  BY <1>2 DEF CreateInviteCode, RedeemsTyped, RedeemedOnce, PlainTables
<1>3. ASSUME NEW r \in Request, RedeemInviteCode(r)
      PROVE  RedeemsTyped' /\ RedeemedOnce'
  <2>1. PICK c \in Code, u \in User :
          /\ invites[c] # None /\ invites[c].usedBy = None
          /\ invites' = [invites EXCEPT ![c].usedBy = u]
          /\ redeemed' = redeemed \cup {<<c, u>>}
    BY <1>3, Handled, CallFields DEF RedeemInviteCode, Redeemable, Does, At, Inside
  <2>2. PICK row \in InviteRow :
          row.usedBy = u /\ invites' = [invites EXCEPT ![c] = row]
    BY <2>1 DEF PlainTables, InviteRow
  <2>3. \A a \in redeemed : a[1] # c
    BY <2>1, AccessAssumption DEF RedeemedOnce, RedeemsTyped
  <2>4. QED
    BY <2>1, <2>2, <2>3, NoneIsNoRow DEF RedeemsTyped, RedeemedOnce, PlainTables
<1>4. ASSUME NEW r \in Request, Handle(r)
      PROVE  RedeemsTyped' /\ RedeemedOnce'
  BY <1>1, <1>2, <1>3, <1>4
     DEF Handle, GetApprovalRequest, UpdateApprovalStatus, CreateApprovalRequest,
         ApproveSkillForTenant, GetMarketplaceSkill, UpdateUserRole, CreateGroup, UpdateGroup,
         DeleteGroup, AddUserToGroup, RemoveUserFromGroup, SetGroups, ReadConfig,
         UpsertScannerConfig, tables, history
<1>5. ASSUME NEW r \in Request, Arrive(r) \/ Authenticate(r) \/ RequireRole(r) \/ Refuse(r)
      PROVE  RedeemsTyped' /\ RedeemedOnce'
  BY <1>1, <1>5 DEF Arrive, Authenticate, RequireRole, Refuse, tables
<1>6. QED
  BY <1>1, <1>4, <1>5 DEF Next, RevokeKey, AllDone, vars, tables, history

LastSetTyped == lastSet \in [Tenant -> Config]

\* An update that writes over nothing it had not read changes one field.
LEMMA ConfigStep ==
  ASSUME RequestsInv, PlainTables, LastSetTyped, ConfigIsLastSet, [Next]_vars
  PROVE  LastSetTyped' /\ ConfigIsLastSet'
<1>1. CASE UNCHANGED <<config, lastSet, raced>>
  BY <1>1 DEF LastSetTyped, ConfigIsLastSet, GetScannerConfig
<1>2. ASSUME NEW r \in Request, UpsertScannerConfig(r)
      PROVE  LastSetTyped' /\ ConfigIsLastSet'
  <2>1. /\ req[r].call.field \in Field /\ req[r].call.value \in Value
        /\ req[r].tenant \in Tenant /\ req[r].copy \in Config
    BY <1>2, Handled, CallFields DEF UpsertScannerConfig, At, Inside, RequestsInv, Stage
  <2>2. PICK t \in Tenant, f \in Field, v \in Value :
          /\ t = req[r].tenant
          /\ config' = [config EXCEPT ![t] = [req[r].copy EXCEPT ![f] = v]]
          /\ lastSet' = [lastSet EXCEPT ![t][f] = v]
          /\ raced' = IF req[r].copy # GetScannerConfig(t) THEN raced \cup {t} ELSE raced
    BY <1>2, <2>1 DEF UpsertScannerConfig, Merged
  <2>3. [req[r].copy EXCEPT ![f] = v] \in Config /\ [lastSet[t] EXCEPT ![f] = v] \in Config
    BY <2>1 DEF Config, LastSetTyped
  <2>4. /\ config'[t] = [req[r].copy EXCEPT ![f] = v]
        /\ \A x \in Tenant \ {t} : config'[x] = config[x]
    BY <2>2 DEF PlainTables
  <2>5. /\ lastSet'[t] = [lastSet[t] EXCEPT ![f] = v]
        /\ \A x \in Tenant \ {t} : lastSet'[x] = lastSet[x]
        /\ LastSetTyped'
    BY <2>2, <2>3 DEF LastSetTyped
  <2>6. t \notin raced' => req[r].copy = lastSet[t]
    BY <2>2 DEF ConfigIsLastSet
  <2>7. raced \subseteq raced'
    BY <2>2
  <2>8. ASSUME NEW x \in Tenant \ raced'
        PROVE  GetScannerConfig(x)' = lastSet'[x]
    BY <2>3, <2>4, <2>5, <2>6, <2>7, <2>8, NoneIsNoRow DEF GetScannerConfig, ConfigIsLastSet
  <2>9. QED
    BY <2>5, <2>8 DEF ConfigIsLastSet
<1>3. ASSUME NEW r \in Request, Handle(r)
      PROVE  LastSetTyped' /\ ConfigIsLastSet'
  BY <1>1, <1>2, <1>3
     DEF Handle, GetApprovalRequest, UpdateApprovalStatus, CreateApprovalRequest,
         ApproveSkillForTenant, GetMarketplaceSkill, UpdateUserRole, CreateInviteCode,
         RedeemInviteCode, CreateGroup, UpdateGroup, DeleteGroup, AddUserToGroup,
         RemoveUserFromGroup, SetGroups, ReadConfig, tables, history
<1>4. ASSUME NEW r \in Request, Arrive(r) \/ Authenticate(r) \/ RequireRole(r) \/ Refuse(r)
      PROVE  LastSetTyped' /\ ConfigIsLastSet'
  BY <1>1, <1>4 DEF Arrive, Authenticate, RequireRole, Refuse, tables
<1>5. QED
  BY <1>1, <1>3, <1>4 DEF Next, RevokeKey, AllDone, vars, tables, history

-----------------------------------------------------------------------------
(***************************************************************************)
(* The invariant and what follows from it.                                 *)
(***************************************************************************)
AccessInv ==
  /\ RequestsInv /\ PlainTables /\ GroupTables
  /\ ApprovalsInv
  /\ AdminsKnown /\ ActsForItsTenant
  /\ RedeemsTyped /\ RedeemedOnce
  /\ LastSetTyped /\ ConfigIsLastSet

\* The invariant holds initially.
LEMMA AccessInit == Init => AccessInv
<1> SUFFICES ASSUME Init PROVE AccessInv
  OBVIOUS
<1>1. RequestsInv
  BY DEF Init, RequestsInv, RequestsTyped, Stage, Labels, Inside
<1>2. PlainTables
  BY AccessAssumption DEF Init, PlainTables
<1>3. GroupTables
  BY DEF Init, GroupTables
<1>4. ApprovalsInv
  BY DEF Init, ApprovalsInv, RowsStay, ListedHaveRows, Approving, Asked, RequestersKept,
         ApprovalTakesEffect, At
<1>5. AdminsKnown /\ ActsForItsTenant
  BY DEF Init, AdminsKnown, ActsForItsTenant
<1>6. RedeemsTyped /\ RedeemedOnce
  BY DEF Init, RedeemsTyped, RedeemedOnce
<1>7. LastSetTyped /\ ConfigIsLastSet
  BY AccessAssumption DEF Init, LastSetTyped, ConfigIsLastSet, GetScannerConfig, Config
<1>8. QED
  BY <1>1, <1>2, <1>3, <1>4, <1>5, <1>6, <1>7 DEF AccessInv

\* Every step preserves the invariant.
LEMMA AccessStep == AccessInv /\ [Next]_vars => AccessInv'
<1> SUFFICES ASSUME AccessInv, [Next]_vars PROVE AccessInv'
  OBVIOUS
<1>1. RequestsInv' /\ PlainTables' /\ GroupTables'
  BY RequestsStep, PlainStep, GroupStep DEF AccessInv, ApprovalsInv, PlainTables
<1>2. ApprovalsInv'
  BY RowsStayStep, ApprovingStep, BooksStep, ApprovalStep DEF AccessInv, ApprovalsInv
<1>3. AdminsKnown' /\ ActsForItsTenant'
  BY AdminsStep, ActsStep DEF AccessInv, PlainTables
<1>4. RedeemsTyped' /\ RedeemedOnce' /\ LastSetTyped' /\ ConfigIsLastSet'
  BY RedeemStep, ConfigStep DEF AccessInv
<1>5. QED
  BY <1>1, <1>2, <1>3, <1>4 DEF AccessInv

\* The invariant holds of every behaviour.
LEMMA Invariance == Spec => []AccessInv
BY AccessInit, AccessStep, PTL DEF Spec

\* The tables hold rows of their types, a group's name is taken once in its
\* tenant, and every membership is of a group that exists: what the unique
\* and foreign keys behind SetGroups are for.
THEOREM TypeCorrect == Spec => []TypeOK
<1>1. AccessInv => TypeOK
  BY DEF AccessInv, RequestsInv, RequestsTyped, PlainTables, GroupTables, TypeOK, Labels
<1>2. QED
  BY Invariance, <1>1, PTL

\* No user whose request was answered is lost from the row of its version,
\* however many ask at once.
THEOREM AllRequestersKept == Spec => []RequestersKept
<1>1. AccessInv => RequestersKept
  BY DEF AccessInv, ApprovalsInv
<1>2. QED
  BY Invariance, <1>1, PTL

\* The two writes of an approval take effect together, up to the failure and
\* the overtaking the code leaves room for.
THEOREM ApprovalsTakeEffect == Spec => []ApprovalTakesEffect
<1>1. AccessInv => ApprovalTakesEffect
  BY DEF AccessInv, ApprovalsInv
<1>2. QED
  BY Invariance, <1>1, PTL

\* An invite code serves one user.
THEOREM CodesServeOnce == Spec => []RedeemedOnce
<1>1. AccessInv => RedeemedOnce
  BY DEF AccessInv
<1>2. QED
  BY Invariance, <1>1, PTL

\* A partial update of the scanner configuration changes what it names.
THEOREM PartialUpdatesKept == Spec => []ConfigIsLastSet
<1>1. AccessInv => ConfigIsLastSet
  BY DEF AccessInv
<1>2. QED
  BY Invariance, <1>1, PTL

\* A step changes the status or the reviewer of a request only as a review
\* whose user has been an administrator of its tenant since sending it.
LEMMA ReviewByAdmin ==
  ASSUME AccessInv, [Next]_vars, NEW p \in Tenant \X Item, approvals[p] # None,
         \/ approvals'[p].status # approvals[p].status
         \/ approvals'[p].reviewer # approvals[p].reviewer
  PROVE  \E r \in wasAdmin : /\ At(r, "status")
                             /\ approvals'[p].reviewer = UserOf(r)
                             /\ HomeOf[UserOf(r)] = p[1]
<1>1. PICK r \in Request : UpdateApprovalStatus(r)
  <2>1. ASSUME NEW r \in Request, CreateApprovalRequest(r)
        PROVE  FALSE
    BY <2>1, AskEffect, UpsertResult DEF AccessInv, PlainTables
  <2>2. ASSUME NEW r \in Request, ApproveSkillForTenant(r) \/ Refuse(r)
        PROVE  FALSE
    BY <2>2 DEF ApproveSkillForTenant, Refuse, tables
  <2>3. QED
    BY <2>1, <2>2, ApprovalsChange
<1>2. PICK x \in Tenant \X Item, new \in Row :
        /\ x = req[r].call.of
        /\ new.reviewer = UserOf(r)
        /\ approvals' = [approvals EXCEPT ![x] = new]
  BY <1>1, ReviewEffect DEF AccessInv, ApprovalsInv
<1>3. x = p /\ approvals'[p].reviewer = UserOf(r)
  BY <1>2 DEF AccessInv, PlainTables
<1>4. pc[r] = "status" /\ p = req[r].call.of
  BY <1>1, <1>2, <1>3 DEF UpdateApprovalStatus, At
<1>5. /\ req[r] # None
      /\ req[r].call.op = "review" /\ UserOf(r) # None /\ p[1] = req[r].tenant
      /\ req[r].tenant \in Tenant
  BY <1>4 DEF AccessInv, RequestsInv, RequestsTyped, Stage, Inside
<1>6. r \in wasAdmin
  BY <1>4, <1>5 DEF AccessInv, AdminsKnown, Inside, AdminOnly
<1>7. UserOf(r) = req[r].cred /\ req[r].cred \in User
  BY <1>5 DEF UserOf
<1>8. HomeOf[UserOf(r)] = p[1]
  BY <1>5, <1>7, AccessAssumption DEF AccessInv, ActsForItsTenant, OwnedBy
<1>9. QED
  BY <1>3, <1>4, <1>6, <1>8 DEF At

\* Nobody else than a user who has been an administrator of the tenant since
\* sending the review changes the status of an approval request.
THEOREM ReviewedByOwnAdmins == Spec => ReviewsByOwnAdmins
<1>1. AccessInv /\ [Next]_vars =>
        [\A p \in Tenant \X Item :
           /\ approvals[p] # None
           /\ approvals'[p].status # approvals[p].status
                \/ approvals'[p].reviewer # approvals[p].reviewer
           => \E r \in wasAdmin : /\ At(r, "status")
                                 /\ approvals'[p].reviewer = UserOf(r)
                                 /\ HomeOf[UserOf(r)] = p[1]]_vars
  BY ReviewByAdmin
<1>2. QED
  BY <1>1, Invariance, PTL DEF Spec, ReviewsByOwnAdmins
-----------------------------------------------------------------------------
(***************************************************************************)
(* The books of a tenant are written by requests that act for it.          *)
(***************************************************************************)
\* The handlers that change a book or name a group.
Writing(r) ==
  \/ CreateApprovalRequest(r) \/ UpdateApprovalStatus(r) \/ ApproveSkillForTenant(r)
  \/ CreateInviteCode(r) \/ CreateGroup(r) \/ UpdateGroup(r) \/ UpsertScannerConfig(r)

\* A redeemed code stays a code of the tenant that issued it.
LEMMA RedeemKeepsIssued ==
  ASSUME RequestsInv, PlainTables, NEW r \in Request, RedeemInviteCode(r)
  PROVE  \A c \in Code : /\ invites'[c] # None <=> invites[c] # None
                         /\ invites[c] # None => invites'[c].tenant = invites[c].tenant
<1>1. PICK x \in Code, u \in User :
        invites[x] # None /\ invites' = [invites EXCEPT ![x].usedBy = u]
  BY Handled, CallFields DEF RedeemInviteCode, Redeemable, Does, At, Inside
<1>2. invites[x] \in InviteRow
  BY <1>1 DEF PlainTables
<1>3. PICK new \in InviteRow :
        invites' = [invites EXCEPT ![x] = new] /\ new.tenant = invites[x].tenant
  <2>1. [invites[x] EXCEPT !.usedBy = u] \in InviteRow
    BY <1>2 DEF InviteRow
  <2>2. [invites[x] EXCEPT !.usedBy = u].tenant = invites[x].tenant
    BY <1>2 DEF InviteRow
  <2>3. invites' = [invites EXCEPT ![x] = [invites[x] EXCEPT !.usedBy = u]]
    BY <1>1 DEF PlainTables
  <2>4. QED
    BY <2>1, <2>2, <2>3
<1>4. QED
  BY <1>1, <1>3, NoneIsNoRow DEF PlainTables

\* A deleted group names nothing new.
LEMMA DeleteNamesNothing ==
  ASSUME RequestsInv, GroupTables, NEW r \in Request, DeleteGroup(r), NEW t \in Tenant
  PROVE  Named(t)' \subseteq Named(t)
<1>1. PICK g \in Group : groups' = [groups EXCEPT ![g] = None]
  BY Handled, CallFields DEF DeleteGroup, SetGroups, Does, At, Inside
<1>2. QED
  BY <1>1 DEF GroupTables, Named

\* Nothing but a writing handler changes the books of a tenant.
LEMMA BooksChange ==
  ASSUME AccessInv, [Next]_vars, NEW t \in Tenant,
         Books(t)' # Books(t) \/ ~(Named(t)' \subseteq Named(t))
  PROVE  \E r \in Request : Writing(r)
<1>1. ~UNCHANGED <<approvals, listed, invites, config, groups>>
  <2>1. SUFFICES ASSUME UNCHANGED <<approvals, listed, invites, config, groups>>
                 PROVE  Books(t)' = Books(t) /\ Named(t)' = Named(t)
    OBVIOUS
  <2>2. QED
    BY <2>1 DEF Books, Named
<1>2. PICK r \in Request : Handle(r)
  BY <1>1 DEF Next, Arrive, Authenticate, RequireRole, Refuse, RevokeKey, AllDone, vars, tables
<1>3. ~RedeemInviteCode(r)
  <2>1. SUFFICES ASSUME RedeemInviteCode(r) PROVE FALSE
    OBVIOUS
  <2>2. {c \in Code : invites'[c] # None /\ invites'[c].tenant = t}
          = {c \in Code : invites[c] # None /\ invites[c].tenant = t}
    BY <2>1, RedeemKeepsIssued DEF AccessInv
  <2>3. UNCHANGED <<approvals, listed, config, groups>>
    BY <2>1 DEF RedeemInviteCode
  <2>4. QED
    BY <2>2, <2>3 DEF Books, Named
<1>4. ~DeleteGroup(r)
  <2>1. SUFFICES ASSUME DeleteGroup(r) PROVE FALSE
    OBVIOUS
  <2>2. UNCHANGED <<approvals, listed, invites, config>>
    BY <2>1 DEF DeleteGroup, SetGroups
  <2>3. QED
    BY <2>1, <2>2, DeleteNamesNothing DEF Books, AccessInv
<1>5. ~(\/ GetApprovalRequest(r) \/ GetMarketplaceSkill(r) \/ UpdateUserRole(r)
        \/ AddUserToGroup(r) \/ RemoveUserFromGroup(r) \/ ReadConfig(r))
  BY <1>1 DEF GetApprovalRequest, GetMarketplaceSkill, UpdateUserRole, AddUserToGroup,
              RemoveUserFromGroup, SetGroups, ReadConfig, tables
<1>6. QED
  BY <1>2, <1>3, <1>4, <1>5 DEF Handle, Writing

\* A writing handler is that of a request past the checks, whose tenant's
\* books alone it changes.
LEMMA WritesOwnBooks ==
  ASSUME AccessInv, NEW r \in Request, Writing(r), NEW t \in Tenant,
         Books(t)' # Books(t) \/ ~(Named(t)' \subseteq Named(t))
  PROVE  req[r].tenant = t
<1>1. SUFFICES ASSUME req[r].tenant # t
               PROVE  Books(t)' = Books(t) /\ Named(t)' \subseteq Named(t)
  OBVIOUS
<1>2. CASE CreateApprovalRequest(r)
  <2>1. \A i \in Item : approvals'[<<t, i>>] = approvals[<<t, i>>]
    BY <1>1, <1>2 DEF CreateApprovalRequest, AccessInv, PlainTables
  <2>2. UNCHANGED <<listed, invites, config, groups>>
    BY <1>2 DEF CreateApprovalRequest
  <2>3. QED
    BY <2>1, <2>2 DEF Books, Named
<1>3. CASE UpdateApprovalStatus(r)
  <2>1. req[r].call.of[1] # t
    BY <1>1, <1>3 DEF UpdateApprovalStatus, At, AccessInv, RequestsInv, Stage
  <2>2. \A i \in Item : approvals'[<<t, i>>] = approvals[<<t, i>>]
    <3>1. PICK x \in Tenant \X Item, new \in Row :
            x = req[r].call.of /\ approvals' = [approvals EXCEPT ![x] = new]
      BY <1>3, ReviewEffect DEF AccessInv, ApprovalsInv
    <3>2. QED
      BY <2>1, <3>1 DEF AccessInv, PlainTables
  <2>3. UNCHANGED <<listed, invites, config, groups>>
    BY <1>3 DEF UpdateApprovalStatus
  <2>4. QED
    BY <2>2, <2>3 DEF Books, Named
<1>4. CASE ApproveSkillForTenant(r)
  <2>1. req[r].call.of[1] # t
    BY <1>1, <1>4 DEF ApproveSkillForTenant, At, AccessInv, RequestsInv, Stage
  <2>2. \A i \in Item : <<t, i>> \in listed' <=> <<t, i>> \in listed
    BY <1>4, <2>1 DEF ApproveSkillForTenant
  <2>3. UNCHANGED <<approvals, invites, config, groups>>
    BY <1>4 DEF ApproveSkillForTenant
  <2>4. QED
    BY <2>2, <2>3 DEF Books, Named
<1>5. CASE CreateInviteCode(r)
  <2>1. PICK x \in Code :
          /\ invites[x] = None
          /\ invites' = [invites EXCEPT ![x] = [tenant |-> req[r].tenant, usedBy |-> None]]
    BY <1>5 DEF CreateInviteCode
  <2>2. \A c \in Code : /\ c = x => invites'[c].tenant # t
                        /\ c # x => invites'[c] = invites[c]
    BY <1>1, <2>1 DEF AccessInv, PlainTables
  <2>3. {c \in Code : invites'[c] # None /\ invites'[c].tenant = t}
          = {c \in Code : invites[c] # None /\ invites[c].tenant = t}
    BY <2>1, <2>2
  <2>4. UNCHANGED <<approvals, listed, config, groups>>
    BY <1>5 DEF CreateInviteCode
  <2>5. QED
    BY <2>3, <2>4 DEF Books, Named
<1>6. CASE CreateGroup(r)
  <2>1. PICK g \in Group :
          groups' = [groups EXCEPT ![g] = [tenant |-> req[r].tenant, name |-> req[r].call.name]]
    BY <1>6 DEF CreateGroup, SetGroups
  <2>2. UNCHANGED <<approvals, listed, invites, config>>
    BY <1>6 DEF CreateGroup, SetGroups
  <2>3. QED
    BY <1>1, <2>1, <2>2 DEF Books, Named, AccessInv, GroupTables
<1>7. CASE UpdateGroup(r)
  <2>1. PICK g \in Group :
          /\ groups[g] # None /\ groups[g].tenant = req[r].tenant
          /\ groups' = [groups EXCEPT ![g].name = req[r].call.name]
    BY <1>7, Handled, CallFields DEF UpdateGroup, SetGroups, Does, At, Inside, AccessInv
  <2>2. groups'[g].tenant # t /\ \A h \in Group \ {g} : groups'[h] = groups[h]
    BY <1>1, <2>1 DEF AccessInv, GroupTables, GroupRow
  <2>3. UNCHANGED <<approvals, listed, invites, config>>
    BY <1>7 DEF UpdateGroup, SetGroups
  <2>4. QED
    BY <2>2, <2>3 DEF Books, Named
<1>8. CASE UpsertScannerConfig(r)
  <2>1. UNCHANGED <<approvals, listed, invites, groups>> /\ config'[t] = config[t]
    BY <1>1, <1>8 DEF UpsertScannerConfig, AccessInv, PlainTables
  <2>2. QED
    BY <2>1 DEF Books, Named
<1>9. QED
  BY <1>2, <1>3, <1>4, <1>5, <1>6, <1>7, <1>8 DEF Writing

\* A writing handler moves its request on, with its tenant known.
LEMMA WriterInside ==
  ASSUME RequestsInv, NEW r \in Request, Writing(r)
  PROVE  /\ pc[r] \in {"handle", "status", "list", "upsert"}
         /\ pc'[r] # pc[r]
         /\ req[r] # None /\ req[r].tenant \in Tenant
<1>1. pc[r] \in {"handle", "status", "list", "upsert"}
  BY DEF Writing, CreateApprovalRequest, UpdateApprovalStatus, ApproveSkillForTenant,
         CreateInviteCode, CreateGroup, UpdateGroup, UpsertScannerConfig, Does, At
<1>2. \/ pc' = [pc EXCEPT ![r] = "idle"]
      \/ pc[r] = "status" /\ pc' = [pc EXCEPT ![r] = "list"]
  <2>1. CASE UpdateApprovalStatus(r)
    BY <2>1 DEF UpdateApprovalStatus, Goto, Done, At
  <2>2. CASE CreateGroup(r) \/ UpdateGroup(r)
    BY <2>2 DEF CreateGroup, UpdateGroup, SetGroups, Done
  <2>3. CASE \/ CreateApprovalRequest(r) \/ ApproveSkillForTenant(r)
             \/ CreateInviteCode(r) \/ UpsertScannerConfig(r)
    BY <2>3 DEF CreateApprovalRequest, ApproveSkillForTenant, CreateInviteCode,
                UpsertScannerConfig, Done
  <2>4. QED
    BY <2>1, <2>2, <2>3 DEF Writing
<1>3. req[r].call.op # "view"
  <2>1. CASE pc[r] \in {"status", "list", "upsert"}
    BY <2>1 DEF RequestsInv, Stage
  <2>2. CASE pc[r] = "handle"
    BY <2>2 DEF Writing, CreateApprovalRequest, UpdateApprovalStatus, ApproveSkillForTenant,
                CreateInviteCode, CreateGroup, UpdateGroup, UpsertScannerConfig, Does, At
  <2>3. QED
    BY <1>1, <2>1, <2>2
<1>4. QED
  BY <1>1, <1>2, <1>3 DEF RequestsInv, RequestsTyped, Stage, Inside

\* For any tenants, users and keys: the books of a tenant are changed by
\* requests of its own users and keys, or of a service key, and only past the
\* checks.
THEOREM BooksKeptApart == Spec => BooksKeptByOwn
<1>1. ASSUME AccessInv, [Next]_vars, NEW t \in Tenant,
             Books(t)' # Books(t) \/ ~(Named(t)' \subseteq Named(t))
      PROVE  \E r \in Request : /\ pc[r] \in {"handle", "status", "list", "upsert"}
                                /\ pc'[r] # pc[r]
                                /\ OwnedBy(req[r].cred, t)
  <2>1. PICK r \in Request : Writing(r)
    BY <1>1, BooksChange
  <2>2. req[r].tenant = t
    BY <1>1, <2>1, WritesOwnBooks
  <2>3. /\ pc[r] \in {"handle", "status", "list", "upsert"} /\ pc'[r] # pc[r]
        /\ req[r] # None /\ req[r].tenant \in Tenant
    BY <1>1, <2>1, WriterInside DEF AccessInv
  <2>4. OwnedBy(req[r].cred, t)
    BY <1>1, <2>2, <2>3, AccessAssumption DEF AccessInv, ActsForItsTenant
  <2>5. QED
    BY <2>3, <2>4
<1>2. AccessInv /\ [Next]_vars =>
        [\A t \in Tenant :
           Books(t)' # Books(t) \/ ~(Named(t)' \subseteq Named(t)) =>
             \E r \in Request : /\ pc[r] \in {"handle", "status", "list", "upsert"}
                                /\ pc'[r] # pc[r]
                                /\ OwnedBy(req[r].cred, t)]_vars
  BY <1>1
<1>3. QED
  BY <1>2, Invariance, PTL DEF Spec, BooksKeptByOwn
=============================================================================
