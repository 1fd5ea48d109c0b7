------------------------------- MODULE Access -------------------------------
(***************************************************************************)
(* Who may do what: authentication and the tenant and role checks of       *)
(* internal/api/middleware, and the handlers behind them that keep a       *)
(* tenant's books: approval requests and the list of approved skills,      *)
(* roles, groups, invite codes and the scanner configuration.              *)
(*                                                                         *)
(* Every request is a process.  Its checks and its handler are separate    *)
(* database calls, so other requests act between any two of them.  A skill *)
(* version is an Item; the lists a tenant reads change nothing and are     *)
(* left out, except the approval state a marketplace page shows.           *)
(***************************************************************************)
EXTENDS Naturals, FiniteSets

CONSTANTS
  Tenant, User, Key, Item, Code, Group, Name, Field, Value, Request, None,
  Role,         \* the roles in use, of admin, publisher and consumer
  HomeOf,       \* users.tenant_id, None for an identity without a row
  KeyTenant,    \* api_keys.tenant_id
  Service,      \* the keys with is_service
  FirstAdmins,  \* the users that are administrators at the start
  DefaultOf,    \* the configuration of a tenant that never set one
  Callers,      \* bound: the pairs of a credential and an X-Tenant-ID header
  Menus,        \* bound: a behaviour draws its calls from one of these sets
  MaxArrivals   \* bound: the requests of a behaviour

ASSUME AccessAssumption ==
  /\ {"admin", "consumer"} \subseteq Role /\ Role \subseteq {"admin", "publisher", "consumer"}
  /\ HomeOf \in [User -> Tenant \cup {None}]
  /\ KeyTenant \in [Key -> Tenant]
  /\ Service \subseteq Key
  /\ FirstAdmins \subseteq User
  /\ DefaultOf \in [Field -> Value]
  /\ Callers \subseteq (User \cup Key) \X (Tenant \cup {None})
  /\ MaxArrivals \in Nat
  /\ None \notin Tenant
  /\ None \notin User
  /\ User \cap Key = {}

(***************************************************************************)
(* The calls, with what the client chooses in each.                        *)
(***************************************************************************)
Call ==
  [op : {"ask"}, item : Item]
    \cup [op : {"review"}, of : Tenant \X Item, status : {"approved", "rejected"}]
    \cup [op : {"view"}, item : Item]
    \cup [op : {"setRole"}, user : User, role : Role]
    \cup [op : {"invite"}]
    \cup [op : {"redeem"}, code : Code]
    \cup [op : {"createGroup"}, name : Name]
    \cup [op : {"updateGroup"}, group : Group, name : Name]
    \cup [op : {"deleteGroup"}, group : Group]
    \cup [op : {"addMember", "removeMember"}, group : Group, user : User]
    \cup [op : {"configure"}, field : Field, value : Value]

(***************************************************************************)
(* The rows of the tables and the state of a request.                      *)
(***************************************************************************)
Row == [by : User, also : SUBSET User, status : {"pending", "approved", "rejected"},
        reviewer : User \cup {None}]
GroupRow == [tenant : Tenant, name : Name]
InviteRow == [tenant : Tenant, usedBy : User \cup {None}]
Config == [Field -> Value]
RequestRow == [cred : User \cup Key, header : Tenant \cup {None}, call : Call,
               tenant : Tenant \cup {None}, copy : Config \cup {None}]

ASSUME NoneIsNoRow ==
  /\ None \notin Row
  /\ None \notin GroupRow
  /\ None \notin InviteRow
  /\ None \notin Config
  /\ None \notin RequestRow

AdminOnly == {"review", "setRole", "invite", "createGroup", "updateGroup",
              "deleteGroup", "addMember", "removeMember"}

VARIABLES
  role,       \* users.role
  revoked,    \* the keys with a revoked_at
  approvals,  \* approval_requests: None or a row, by tenant and item
  listed,     \* tenant_approved_skills
  groups,     \* groups: None or [tenant, name]
  members,    \* user_groups
  invites,    \* invite_codes: None or [tenant, usedBy]
  config,     \* scanner_config: None or the row of a tenant
  pc,         \* where each request is
  req,        \* its credential, call, tenant and what it has read
  menu,       \* the operations of this behaviour
  arrivals,   \* how many requests have come
  wasAdmin,   \* history: requests whose user was an administrator since they came
  asked,      \* history: approval requests answered 201, with their user
  granted,    \* history: approvals answered 200
  halfDone,   \* history: approvals that failed between their two writes
  overruled,  \* history: approvals a rejection was written over
  redeemed,   \* history: codes answered 200, with their user
  lastSet,    \* history: the value last written to each field on request
  raced       \* history: tenants of whom one configuration was written over another

tables == <<role, revoked, approvals, listed, groups, members, invites, config>>
history == <<wasAdmin, asked, granted, halfDone, overruled, redeemed, lastSet, raced>>
vars == <<tables, pc, req, menu, arrivals, history>>

Init ==
  /\ role = [u \in User |-> IF u \in FirstAdmins THEN "admin" ELSE "consumer"]
  /\ revoked = {}
  /\ approvals = [p \in Tenant \X Item |-> None]
  /\ listed = {}
  /\ groups = [g \in Group |-> None]
  /\ members = {}
  /\ invites = [c \in Code |-> None]
  /\ config = [t \in Tenant |-> None]
  /\ pc = [r \in Request |-> "idle"]
  /\ req = [r \in Request |-> None]
  /\ menu \in Menus
  /\ arrivals = 0
  /\ wasAdmin = {} /\ asked = {} /\ granted = {} /\ halfDone = {}
  /\ overruled = {} /\ redeemed = {} /\ raced = {}
  /\ lastSet = [t \in Tenant |-> DefaultOf]

IsAdmin(u) == u \in User /\ role[u] = "admin"

At(r, label) == pc[r] = label
Does(r, op) == At(r, "handle") /\ req[r].call.op = op

\* Answers r, whatever the status code.
Done(r) ==
  /\ pc' = [pc EXCEPT ![r] = "idle"]
  /\ req' = [req EXCEPT ![r] = None]
  /\ wasAdmin' = wasAdmin \ {r}

Goto(r, label) == pc' = [pc EXCEPT ![r] = label]

Arrive(r) ==
  /\ At(r, "idle")
  /\ arrivals < MaxArrivals
  /\ \E caller \in Callers, call \in {c \in Call : c.op \in menu} :
       /\ req' = [req EXCEPT ![r] = [cred |-> caller[1], header |-> caller[2], call |-> call,
                                     tenant |-> None, copy |-> None]]
       /\ wasAdmin' = IF IsAdmin(caller[1]) THEN wasAdmin \cup {r} ELSE wasAdmin
  /\ arrivals' = arrivals + 1
  /\ Goto(r, "auth")
  /\ UNCHANGED <<tables, menu, asked, granted, halfDone, overruled, redeemed, lastSet, raced>>

(***************************************************************************)
(* The checks in front of the handlers.                                    *)
(***************************************************************************)
UserOf(r) == IF req[r].cred \in User THEN req[r].cred ELSE None

GetAPIKeyByHash(k) == [tenant |-> KeyTenant[k], service |-> k \in Service,
                       revoked |-> k \in revoked]

authenticateJWT(u) == HomeOf[u]

authenticateAPIKey(k) ==
  LET key == GetAPIKeyByHash(k) IN IF key.revoked THEN None ELSE key.tenant

\* The tenant AuthMiddleware puts in the context, None if it answers 401.
AuthMiddleware(cred) ==
  IF cred \in User THEN authenticateJWT(cred) ELSE authenticateAPIKey(cred)

\* Mutant: whoever names a tenant acts for it.
AnyHeader(cred, own, header) == IF header = None THEN own ELSE header

\* The tenant a request acts for, None if it answers 403.
TenantMiddleware(cred, own, header) ==
  CASE header \in {None, own} -> own
    [] header \notin {None, own} /\ cred \in Service -> header
    [] OTHER -> None

\* A view takes OptionalAuthMiddleware, which lets everyone through and never
\* looks at X-Tenant-ID.
TenantFor(r) ==
  LET own == AuthMiddleware(req[r].cred)
  IN  IF req[r].call.op = "view" \/ own = None THEN own
      ELSE TenantMiddleware(req[r].cred, own, req[r].header)

Authenticate(r) ==
  /\ At(r, "auth")
  /\ \/ /\ TenantFor(r) # None \/ req[r].call.op = "view"
        /\ req' = [req EXCEPT ![r].tenant = TenantFor(r), ![r].header = None]
        /\ Goto(r, IF req[r].call.op \in AdminOnly THEN "role" ELSE "handle")
        /\ UNCHANGED wasAdmin
     \/ /\ TenantFor(r) = None /\ req[r].call.op # "view"
        /\ Done(r)
  /\ UNCHANGED <<tables, menu, arrivals, asked, granted, halfDone, overruled, redeemed,
                 lastSet, raced>>

\* Mutant: the role check only asks for a user.
RoleUnchecked(r) == TRUE

PassesRole(r) == UserOf(r) = None \/ IsAdmin(UserOf(r))

RequireRole(r) ==
  /\ At(r, "role")
  /\ \/ PassesRole(r) /\ Goto(r, "handle") /\ UNCHANGED <<req, wasAdmin>>
     \/ ~PassesRole(r) /\ Done(r)
  /\ UNCHANGED <<tables, menu, arrivals, asked, granted, halfDone, overruled, redeemed,
                 lastSet, raced>>

\* A malformed body, a missing admin token, an inactive token or a database
\* error ends a request with what it has done so far.
Refuse(r) ==
  /\ pc[r] # "idle"
  /\ Done(r)
  /\ halfDone' = IF At(r, "list") THEN halfDone \cup {req[r].call.of} ELSE halfDone
  /\ UNCHANGED <<tables, menu, arrivals, asked, granted, overruled, redeemed, lastSet, raced>>

(***************************************************************************)
(* Approval requests.                                                      *)
(***************************************************************************)
\* INSERT ... ON CONFLICT DO UPDATE: the row of the version, with u on it.
Upsert(row, u) ==
  IF row = None THEN [by |-> u, also |-> {}, status |-> "pending", reviewer |-> None]
  ELSE [row EXCEPT !.also = @ \cup {u}]

CreateApprovalRequest(r) ==
  /\ Does(r, "ask")
  /\ UserOf(r) # None
  /\ LET p == <<req[r].tenant, req[r].call.item>>
     IN  /\ approvals' = [approvals EXCEPT ![p] = Upsert(@, UserOf(r))]
         /\ asked' = asked \cup {<<p, UserOf(r)>>}
  /\ Done(r)
  /\ UNCHANGED <<role, revoked, listed, groups, members, invites, config, menu, arrivals,
                 granted, halfDone, overruled, redeemed, lastSet, raced>>

Reviewable(r) ==
  /\ UserOf(r) # None
  /\ approvals[req[r].call.of] # None
  /\ req[r].call.of[1] = req[r].tenant

GetApprovalRequest(r) ==
  /\ Does(r, "review")
  /\ \/ Reviewable(r) /\ Goto(r, "status") /\ UNCHANGED <<req, wasAdmin>>
     \/ ~Reviewable(r) /\ Done(r)
  /\ UNCHANGED <<tables, menu, arrivals, asked, granted, halfDone, overruled, redeemed,
                 lastSet, raced>>

\* The row may have been reviewed since it was read: the write asks nothing.
UpdateApprovalStatus(r) ==
  /\ At(r, "status")
  /\ LET p == req[r].call.of
         status == req[r].call.status
     IN  /\ approvals' = [approvals EXCEPT ![p].status = status, ![p].reviewer = UserOf(r)]
         /\ overruled' = IF status = "rejected" /\ approvals[p].status = "approved"
                         THEN overruled \cup {p} ELSE overruled
         /\ \/ status = "approved" /\ Goto(r, "list") /\ UNCHANGED <<req, wasAdmin>>
            \/ status = "rejected" /\ Done(r)
  /\ UNCHANGED <<role, revoked, listed, groups, members, invites, config, menu, arrivals,
                 asked, granted, halfDone, redeemed, lastSet, raced>>

\* Mutant: the request is answered and the list is left for later.
AcknowledgeOnly(r) ==
  /\ At(r, "list")
  /\ granted' = granted \cup {req[r].call.of}
  /\ Done(r)
  /\ UNCHANGED <<role, revoked, listed, approvals, groups, members, invites, config, menu,
                 arrivals, asked, halfDone, overruled, redeemed, lastSet, raced>>

\* Nothing ever takes a version off the list again.
ApproveSkillForTenant(r) ==
  /\ At(r, "list")
  /\ listed' = listed \cup {req[r].call.of}
  /\ granted' = granted \cup {req[r].call.of}
  /\ Done(r)
  /\ UNCHANGED <<role, revoked, approvals, groups, members, invites, config, menu, arrivals,
                 asked, halfDone, overruled, redeemed, lastSet, raced>>

\* The page shows is_approved to whoever has a tenant; nothing is written.
GetMarketplaceSkill(r) ==
  /\ Does(r, "view")
  /\ Done(r)
  /\ UNCHANGED <<tables, menu, arrivals, asked, granted, halfDone, overruled, redeemed,
                 lastSet, raced>>

(***************************************************************************)
(* Roles, keys and invite codes.                                           *)
(***************************************************************************)
UpdateUserRole(r) ==
  /\ Does(r, "setRole")
  /\ role' = [role EXCEPT ![req[r].call.user] = req[r].call.role]
  /\ pc' = [pc EXCEPT ![r] = "idle"]
  /\ req' = [req EXCEPT ![r] = None]
  /\ wasAdmin' =
       (wasAdmin \cup {q \in Request : /\ req[q] # None
                                       /\ req[q].cred = req[r].call.user
                                       /\ req[r].call.role = "admin"}) \ {r}
  /\ UNCHANGED <<revoked, approvals, listed, groups, members, invites, config, menu, arrivals,
                 asked, granted, halfDone, overruled, redeemed, lastSet, raced>>

\* No handler revokes a key: an operator does, with the store's statement.
RevokeKey ==
  /\ "review" \in menu
  /\ \E k \in Key \ revoked : revoked' = revoked \cup {k}
  /\ UNCHANGED <<role, approvals, listed, groups, members, invites, config, pc, req, menu,
                 arrivals, history>>

CreateInviteCode(r) ==
  /\ Does(r, "invite")
  /\ \E c \in {c \in Code : invites[c] = None} :
       invites' = [invites EXCEPT ![c] = [tenant |-> req[r].tenant, usedBy |-> None]]
  /\ Done(r)
  /\ UNCHANGED <<role, revoked, approvals, listed, groups, members, config, menu, arrivals,
                 asked, granted, halfDone, overruled, redeemed, lastSet, raced>>

\* Mutant: the row is not asked whether it has been used.
RedeemableAgain(c) == invites[c] # None

\* The WHERE of the one UPDATE; no code sets expires_at, so no row expires.
Redeemable(c) == invites[c] # None /\ invites[c].usedBy = None

RedeemInviteCode(r) ==
  /\ Does(r, "redeem")
  /\ UserOf(r) # None
  /\ LET c == req[r].call.code
     IN  /\ Redeemable(c)
         /\ invites' = [invites EXCEPT ![c].usedBy = UserOf(r)]
         /\ redeemed' = redeemed \cup {<<c, UserOf(r)>>}
  /\ Done(r)
  /\ UNCHANGED <<role, revoked, approvals, listed, groups, members, config, menu, arrivals,
                 asked, granted, halfDone, overruled, lastSet, raced>>

(***************************************************************************)
(* Groups: (tenant, name) is unique, and a member's row goes with its      *)
(* group.  Members are added and groups deleted by their ids alone.        *)
(***************************************************************************)
NameFree(t, n, g) ==
  \A h \in Group \ {g} : groups[h] # None => <<groups[h].tenant, groups[h].name>> # <<t, n>>

SetGroups(r, table, rows) ==
  /\ groups' = table
  /\ members' = rows
  /\ Done(r)
  /\ UNCHANGED <<role, revoked, approvals, listed, invites, config, menu, arrivals, asked,
                 granted, halfDone, overruled, redeemed, lastSet, raced>>

CreateGroup(r) ==
  /\ Does(r, "createGroup")
  /\ \E g \in {g \in Group : groups[g] = None} :
       /\ NameFree(req[r].tenant, req[r].call.name, g)
       /\ SetGroups(r, [groups EXCEPT ![g] = [tenant |-> req[r].tenant,
                                              name |-> req[r].call.name]], members)

UpdateGroup(r) ==
  /\ Does(r, "updateGroup")
  /\ LET g == req[r].call.group
     IN  /\ groups[g] # None
         /\ groups[g].tenant = req[r].tenant
         /\ NameFree(req[r].tenant, req[r].call.name, g)
         /\ SetGroups(r, [groups EXCEPT ![g].name = req[r].call.name], members)

DeleteGroup(r) ==
  /\ Does(r, "deleteGroup")
  /\ LET g == req[r].call.group
     IN  /\ groups[g] # None
         /\ SetGroups(r, [groups EXCEPT ![g] = None], {m \in members : m[2] # g})

AddUserToGroup(r) ==
  /\ Does(r, "addMember")
  /\ groups[req[r].call.group] # None
  /\ HomeOf[req[r].call.user] # None
  /\ SetGroups(r, groups, members \cup {<<req[r].call.user, req[r].call.group>>})

RemoveUserFromGroup(r) ==
  /\ Does(r, "removeMember")
  /\ SetGroups(r, groups, members \ {<<req[r].call.user, req[r].call.group>>})

(***************************************************************************)
(* The scanner configuration: a partial update is a read and a write of    *)
(* the whole row.                                                          *)
(***************************************************************************)
GetScannerConfig(t) == IF config[t] = None THEN DefaultOf ELSE config[t]

ReadConfig(r) ==
  /\ Does(r, "configure")
  /\ req' = [req EXCEPT ![r].copy = GetScannerConfig(req[r].tenant)]
  /\ Goto(r, "upsert")
  /\ UNCHANGED <<tables, menu, arrivals, history>>

\* Mutant: the fields the body leaves out go back to their defaults.
MergedWithDefaults(r) == [DefaultOf EXCEPT ![req[r].call.field] = req[r].call.value]

Merged(r) == [req[r].copy EXCEPT ![req[r].call.field] = req[r].call.value]

UpsertScannerConfig(r) ==
  /\ At(r, "upsert")
  /\ LET t == req[r].tenant
     IN  /\ config' = [config EXCEPT ![t] = Merged(r)]
         /\ lastSet' = [lastSet EXCEPT ![t][req[r].call.field] = req[r].call.value]
         /\ raced' = IF req[r].copy # GetScannerConfig(t) THEN raced \cup {t} ELSE raced
  /\ Done(r)
  /\ UNCHANGED <<role, revoked, approvals, listed, groups, members, invites, menu, arrivals,
                 asked, granted, halfDone, overruled, redeemed>>

-----------------------------------------------------------------------------
Handle(r) ==
  \/ CreateApprovalRequest(r) \/ GetApprovalRequest(r) \/ UpdateApprovalStatus(r)
  \/ ApproveSkillForTenant(r) \/ GetMarketplaceSkill(r) \/ UpdateUserRole(r)
  \/ CreateInviteCode(r) \/ RedeemInviteCode(r)
  \/ CreateGroup(r) \/ UpdateGroup(r) \/ DeleteGroup(r)
  \/ AddUserToGroup(r) \/ RemoveUserFromGroup(r)
  \/ ReadConfig(r) \/ UpsertScannerConfig(r)

AllDone ==
  /\ arrivals = MaxArrivals
  /\ \A r \in Request : At(r, "idle")
  /\ UNCHANGED vars

Next ==
  \/ \E r \in Request : Arrive(r) \/ Authenticate(r) \/ RequireRole(r) \/ Refuse(r) \/ Handle(r)
  \/ RevokeKey
  \/ AllDone

Spec == Init /\ [][Next]_vars

(***************************************************************************)
(* Properties.                                                             *)
(***************************************************************************)
\* The status of a request and the list of approved skills are written apart
\* by reviewers who may overtake each other.  An approval that was answered
\* 200 is on the list; a request stands at approved without being on the
\* list only while its reviewer is between the two writes or after the
\* second failed; and a version is on the list against its request's status
\* only when a rejection was written over an approval.
ApprovalTakesEffect ==
  /\ granted \subseteq listed
  /\ \A p \in Tenant \X Item : approvals[p] # None =>
       /\ approvals[p].status = "approved" /\ p \notin listed =>
            \/ p \in halfDone
            \/ \E r \in Request : At(r, "list") /\ req[r].call.of = p
       /\ p \in listed /\ approvals[p].status # "approved" => p \in overruled

\* A request is only reviewed by a user of its own tenant, and only by one
\* who has been an administrator since sending the review: the role is read
\* before the handler and may be taken away before the write, and nothing
\* else than that window lets a review through.
ReviewsByOwnAdmins ==
  [][\A p \in Tenant \X Item :
       /\ approvals[p] # None
       /\ approvals'[p].status # approvals[p].status
            \/ approvals'[p].reviewer # approvals[p].reviewer
       => \E r \in wasAdmin : /\ At(r, "status")
                             /\ approvals'[p].reviewer = UserOf(r)
                             /\ HomeOf[UserOf(r)] = p[1]]_vars

\* An invite code is answered 200 to one user at most, whoever else redeems
\* it at the same time, and that user is the one its row names.
RedeemedOnce ==
  \A a \in redeemed : invites[a[1]] # None /\ invites[a[1]].usedBy = a[2]

\* A credential that may write for a tenant.
OwnedBy(cred, t) ==
  \/ cred \in Service
  \/ cred \in User /\ HomeOf[cred] = t
  \/ cred \in Key /\ KeyTenant[cred] = t

\* What a tenant has on record, and the names of its groups.
Books(t) ==
  [approvals |-> [i \in Item |-> approvals[<<t, i>>]],
   listed |-> {i \in Item : <<t, i>> \in listed},
   issued |-> {c \in Code : invites[c] # None /\ invites[c].tenant = t},
   config |-> config[t]]
Named(t) ==
  {x \in Group \X Name : groups[x[1]] # None /\ groups[x[1]] = [tenant |-> t, name |-> x[2]]}

\* The approval requests of a tenant, its list of approved skills, the invite
\* codes issued for it, its scanner configuration and the names its groups
\* are given are changed by requests of its own users and keys, or of a
\* service key, that are past the checks.  The handlers that go by an id alone
\* are not among these: a group is deleted, a member added, a role changed and
\* a code redeemed for whatever tenant the row has.
BooksKeptByOwn ==
  [][\A t \in Tenant :
       Books(t)' # Books(t) \/ ~(Named(t)' \subseteq Named(t)) =>
         \E r \in Request : /\ pc[r] \in {"handle", "status", "list", "upsert"}
                            /\ pc'[r] # pc[r]
                            /\ OwnedBy(req[r].cred, t)]_vars

\* A partial update of the scanner configuration changes the fields it names
\* and no other: every field has the value last requested for it, unless one
\* update was written over another it had not read.
ConfigIsLastSet ==
  \A t \in Tenant \ raced : GetScannerConfig(t) = lastSet[t]

\* Every table holds rows of its type, a group's name is its tenant's own,
\* and every membership names a group that exists.
TypeOK ==
  /\ role \in [User -> Role]
  /\ revoked \subseteq Key
  /\ approvals \in [Tenant \X Item -> Row \cup {None}]
  /\ listed \subseteq Tenant \X Item
  /\ groups \in [Group -> GroupRow \cup {None}]
  /\ \A g \in Group : groups[g] # None => NameFree(groups[g].tenant, groups[g].name, g)
  /\ \A m \in members : m \in User \X Group /\ groups[m[2]] # None
  /\ invites \in [Code -> InviteRow \cup {None}]
  /\ config \in [Tenant -> Config \cup {None}]
  /\ pc \in [Request -> {"idle", "auth", "role", "handle", "status", "list", "upsert"}]
=============================================================================
