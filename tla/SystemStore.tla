---------------------------- MODULE SystemStore ----------------------------
(***************************************************************************)
(* The management console's own users, roles, menus, policies and APIs:    *)
(* six JSON files, each loaded, changed in memory and renamed into place   *)
(* as a whole.  Nothing locks a file, so the requests of one or several    *)
(* processes interleave between every load and the save that follows it.   *)
(*                                                                         *)
(* A file is a set of rows.  A request is a list of changes that are made  *)
(* one after the other, each by a load and a save.  Names, titles and      *)
(* other text are left out; what is kept are the columns that some check   *)
(* of the code reads.  Two columns are history: the number of the request  *)
(* that made a menu (born) and of the one that last granted a role's menus *)
(* (granted).                                                              *)
(***************************************************************************)
EXTENDS Naturals, SequencesExt

CONSTANTS
    Requests,     \* requests under way at one time
    NewNames,     \* user names that may be created
    NewRoles,     \* role identifiers that may be created
    Inventory,    \* the API keys (method and path) of the OpenAPI document
    MaxRequests   \* bound: requests served in a behaviour

ASSUME InventoryAssumption == IsFiniteSet(Inventory)

VARIABLES
    disk,      \* the files
    request,   \* what each request is doing
    served     \* number of requests begun

vars == <<disk, request, served>>

Admin == "admin"       \* the seeded user
Super == "888"         \* the role that passes every policy check
TopLevel == 0          \* parent of a top-level menu
NoRole == "0"          \* parent of a top-level role
Refused == {}          \* outcome of a change that the repository refuses
Saved(rows) == {rows}  \* outcome of a change that is to be written

ById(rows, i) == {row \in rows : row.id = i}

(***************************************************************************)
(* Users.  "new" is the identifier the repository draws for a new row.     *)
(***************************************************************************)
\* Fault: the user name is not compared with the ones in the file.
CreateUserUnchecked(users, in, new) ==
    Saved(users \cup {[id |-> new, name |-> in.name, active |-> in.active,
                       legacy |-> FALSE, roles |-> in.roles]})

CreateSystemUser(users, in, new) ==
    IF \E u \in users : u.name = in.name
    THEN Refused
    ELSE Saved(users \cup {[id |-> new, name |-> in.name, active |-> in.active,
                            legacy |-> FALSE, roles |-> in.roles]})

UpdateSystemUser(users, in) ==
    IF ById(users, in.id) = {}
    THEN Refused
    ELSE Saved({IF u.id = in.id
                THEN [u EXCEPT !.active = in.active, !.roles = in.roles,
                               !.legacy = @ /\ ~in.password]
                ELSE u : u \in users})

DeleteSystemUser(users, in) ==
    IF \E u \in ById(users, in.id) : u.name # Admin
    THEN Saved(users \ ById(users, in.id))
    ELSE Refused

\* A user keeps the role that is taken away if it is the last one.
SetUsersForRole(users, in) ==
    LET Without(u) == IF u.roles = {in.role} THEN u.roles ELSE u.roles \ {in.role}
    IN  Saved({[u EXCEPT !.roles = IF u.id \in in.users THEN @ \cup {in.role} ELSE Without(u)]
                  : u \in users})

\* A login writes the file only to replace a password hash of the old format.
AuthenticateSystemUser(users, in) ==
    IF \E u \in users : u.name = in.name /\ u.active
    THEN Saved({IF u.name = in.name THEN [u EXCEPT !.legacy = FALSE] ELSE u : u \in users}) \ {users}
    ELSE Refused

(***************************************************************************)
(* Roles, and the policies that name the API calls of a role.              *)
(***************************************************************************)
CreateSystemRole(roles, in, no) ==
    IF ById(roles, in.id) # {}
    THEN Refused
    ELSE Saved(roles \cup {[id |-> in.id, parent |-> in.parent, locked |-> FALSE,
                            menus |-> in.menus, granted |-> no]})

UpdateSystemRole(roles, in, no) ==
    IF ById(roles, in.id) = {}
    THEN Refused
    ELSE Saved({IF r.id = in.id
                THEN [r EXCEPT !.menus = in.menus, !.parent = in.parent, !.granted = no]
                ELSE r : r \in roles})

DeleteSystemRole(roles, in) ==
    IF /\ \E r \in ById(roles, in.id) : ~r.locked
       /\ \A r \in roles : r.parent # in.id
    THEN Saved(roles \ ById(roles, in.id))
    ELSE Refused

CopySystemRole(roles, in) ==
    IF ById(roles, in.from) = {} \/ ById(roles, in.id) # {}
    THEN Refused
    ELSE Saved(roles \cup {[r EXCEPT !.id = in.id, !.parent = in.parent, !.locked = FALSE] : r \in ById(roles, in.from)})

ReplaceCasbinPoliciesForRole(policies, in) ==
    Saved({p \in policies : p.role # in.role}
              \cup {[role |-> in.role, route |-> a] : a \in in.routes})

CopyCasbinPoliciesForRole(policies, in) ==
    Saved({p \in policies : p.role # in.id}
              \cup {[p EXCEPT !.role = in.id] : p \in {q \in policies : q.role = in.from}})

IsPathAllowedForRoles(policies, roles, route) ==
    Super \in roles \/ \E p \in policies : p.role \in roles /\ p.route = route

(***************************************************************************)
(* Menus.  A new menu takes the number after the largest in the file.      *)
(***************************************************************************)
NextNumericMenuId(menus) == Max({m.id : m \in menus} \cup {0}) + 1

CreateSystemMenu(menus, in, no) ==
    Saved(menus \cup {[id |-> NextNumericMenuId(menus), parent |-> in.parent, born |-> no]})

UpdateSystemMenu(menus, in) ==
    IF ById(menus, in.id) = {}
    THEN Refused
    ELSE Saved({IF m.id = in.id THEN [m EXCEPT !.parent = in.parent] ELSE m : m \in menus})

\* The menu goes with its children; grandchildren stay in the file.
DeleteSystemMenu(menus, in) ==
    LET remaining == {m \in menus : m.id # in.id /\ m.parent # in.id}
    IN  IF remaining = menus THEN Refused ELSE Saved(remaining)

(***************************************************************************)
(* APIs and their synchronisation with the inventory.                      *)
(***************************************************************************)
CreateSystemApi(apis, in, new) == Saved(apis \cup {[id |-> new, key |-> in.key]})

UpdateSystemApi(apis, in) ==
    IF ById(apis, in.id) = {}
    THEN Refused
    ELSE Saved({IF a.id = in.id THEN [a EXCEPT !.key = in.key] ELSE a : a \in apis})

DeleteSystemApi(apis, in) ==
    IF ById(apis, in.id) = {} THEN Refused ELSE Saved(apis \ ById(apis, in.id))

IgnoreSyncApi(ignores, in) ==
    Saved(IF in.ignored THEN ignores \cup {in.key} ELSE ignores \ {in.key})

Keys(apis) == {a.key : a \in apis}

PreviewApiSync(apis, ignores) ==
    [new    |-> Inventory \ (Keys(apis) \cup ignores),
     delete |-> {a.id : a \in {b \in apis : b.key \notin Inventory}}]

\* The changes of an applied preview: additions, then removals, then ignores.
ApplyApiSync(plan, ignores) ==
    SetToSeq({[op |-> "createApi", key |-> k] : k \in plan.new})
        \o SetToSeq({[op |-> "deleteApi", id |-> i] : i \in plan.delete})
        \o <<[op |-> "saveIgnores", keys |-> ignores]>>

(***************************************************************************)
(* The routes: which changes a request to a route may ask for.  The page   *)
(* offers the rows that are on disk when the request is composed.          *)
(***************************************************************************)
Ids(rows) == {row.id : row \in rows}
Grants == {{}} \cup {{m} : m \in Ids(disk.menus)}

UsersRoute ==
    {<<[op |-> "createUser", name |-> n, active |-> TRUE, roles |-> {r}]>>
        : n \in NewNames, r \in Ids(disk.roles)}
    \cup {<<[op |-> "updateUser", id |-> u.id, active |-> b, password |-> FALSE, roles |-> u.roles]>>
            : u \in disk.users, b \in BOOLEAN}
    \cup {<<[op |-> "updateUser", id |-> u.id, active |-> u.active, password |-> TRUE, roles |-> u.roles]>>
            : u \in disk.users}
    \cup {<<[op |-> "deleteUser", id |-> i]>> : i \in Ids(disk.users)}

RoleUsersRoute ==
    {<<[op |-> "setRoleUsers", role |-> r, users |-> us]>>
        : r \in Ids(disk.roles), us \in {{}, Ids(disk.users)}}

RolesRoute ==
    {<<[op |-> "createRole", id |-> r, parent |-> q, menus |-> g]>>
        : r \in NewRoles, q \in {NoRole, Super}, g \in Grants}
    \cup {<<[op |-> "updateRole", id |-> r.id, parent |-> r.parent, menus |-> g]>>
            : r \in disk.roles, g \in Grants}
    \cup {<<[op |-> "deleteRole", id |-> i]>> : i \in Ids(disk.roles)}

\* Copying a role is two changes: the role, then its policies.
RoleCopyRoute ==
    {<<[op |-> "copyRole", from |-> f, id |-> r, parent |-> NoRole],
       [op |-> "copyCasbin", from |-> f, id |-> r]>> : f \in Ids(disk.roles), r \in NewRoles}

MenusRoute ==
    {<<[op |-> "createMenu", parent |-> q]>> : q \in {TopLevel} \cup Ids(disk.menus)}
    \cup {<<[op |-> "updateMenu", id |-> i, parent |-> TopLevel]>> : i \in Ids(disk.menus)}
    \cup {<<[op |-> "deleteMenu", id |-> i]>> : i \in Ids(disk.menus)}

CasbinRoute ==
    {<<[op |-> "replaceCasbin", role |-> r, routes |-> rs]>>
        : r \in Ids(disk.roles), rs \in {{}, {"menus"}}}

ApisRoute ==
    {<<[op |-> "createApi", key |-> k]>> : k \in Inventory}
    \cup {<<[op |-> "updateApi", id |-> i, key |-> k]>> : i \in Ids(disk.apis), k \in Inventory}
    \cup {<<[op |-> "deleteApi", id |-> i]>> : i \in Ids(disk.apis)}

ApiSyncRoute ==
    {ApplyApiSync(PreviewApiSync(disk.apis, disk.ignores), disk.ignores)}
    \cup {<<[op |-> "ignoreApi", key |-> k, ignored |-> b]>> : k \in Inventory, b \in BOOLEAN}
    \cup {<<[op |-> "createApi", key |-> k]>> : k \in Inventory}

Route(name) ==
    CASE name = "users" -> UsersRoute
      [] name = "roles/users" -> RoleUsersRoute
      [] name = "roles" -> RolesRoute
      [] name = "roles/copy" -> RoleCopyRoute
      [] name = "menus" -> MenusRoute
      [] name = "casbin" -> CasbinRoute
      [] name = "apis" -> ApisRoute \cup ApiSyncRoute

Routes == {"users", "roles/users", "roles", "roles/copy", "menus", "casbin", "apis"}

(***************************************************************************)
(* What a change does to the file it is about.                             *)
(***************************************************************************)
FileOf(op) ==
    CASE op \in {"login", "createUser", "updateUser", "deleteUser", "setRoleUsers"} -> "users"
      [] op \in {"createRole", "updateRole", "deleteRole", "copyRole"} -> "roles"
      [] op \in {"copyCasbin", "replaceCasbin"} -> "policies"
      [] op \in {"createMenu", "updateMenu", "deleteMenu"} -> "menus"
      [] op \in {"createApi", "updateApi", "deleteApi"} -> "apis"
      [] op \in {"saveIgnores", "ignoreApi"} -> "ignores"

\* The adapter calls one repository function for each operation.
LocalSystemAdapter(in, rows, no, new) ==
    CASE in.op = "login" -> AuthenticateSystemUser(rows, in)
      [] in.op = "createUser" -> CreateSystemUser(rows, in, new)
      [] in.op = "updateUser" -> UpdateSystemUser(rows, in)
      [] in.op = "deleteUser" -> DeleteSystemUser(rows, in)
      [] in.op = "setRoleUsers" -> SetUsersForRole(rows, in)
      [] in.op = "createRole" -> CreateSystemRole(rows, in, no)
      [] in.op = "updateRole" -> UpdateSystemRole(rows, in, no)
      [] in.op = "deleteRole" -> DeleteSystemRole(rows, in)
      [] in.op = "copyRole" -> CopySystemRole(rows, in)
      [] in.op = "copyCasbin" -> CopyCasbinPoliciesForRole(rows, in)
      [] in.op = "replaceCasbin" -> ReplaceCasbinPoliciesForRole(rows, in)
      [] in.op = "createMenu" -> CreateSystemMenu(rows, in, no)
      [] in.op = "updateMenu" -> UpdateSystemMenu(rows, in)
      [] in.op = "deleteMenu" -> DeleteSystemMenu(rows, in)
      [] in.op = "createApi" -> CreateSystemApi(rows, in, new)
      [] in.op = "updateApi" -> UpdateSystemApi(rows, in)
      [] in.op = "deleteApi" -> DeleteSystemApi(rows, in)
      [] in.op = "saveIgnores" -> Saved(in.keys)
      [] in.op = "ignoreApi" -> IgnoreSyncApi(rows, in)

(***************************************************************************)
(* Requests.                                                               *)
(***************************************************************************)
Idle == [at |-> "idle", no |-> 0, who |-> <<0, 0>>, route |-> "users", roles |-> {},
         todo |-> <<>>, next |-> {}]

Init ==
    /\ disk = [users    |-> {[id |-> <<0, 1>>, name |-> Admin, active |-> TRUE, legacy |-> FALSE,
                              roles |-> {Super}],
                             [id |-> <<0, 2>>, name |-> "bob", active |-> TRUE, legacy |-> TRUE,
                              roles |-> {"editor"}]},
               roles    |-> {[id |-> Super, parent |-> NoRole, locked |-> TRUE,
                              menus |-> {1, 2}, granted |-> 0],
                             [id |-> "editor", parent |-> NoRole, locked |-> FALSE,
                              menus |-> {2}, granted |-> 0]},
               policies |-> {[role |-> "editor", route |-> "menus"]},
               menus    |-> {[id |-> 1, parent |-> TopLevel, born |-> 0],
                             [id |-> 2, parent |-> 1, born |-> 0]},
               apis     |-> {[id |-> <<0, 3>>, key |-> "retired"]},
               ignores  |-> {}]
    /\ request = [r \in Requests |-> Idle]
    /\ served = 0

\* A request with a session cookie reaches a route.
Arrive(r, who, name) ==
    /\ request[r].at = "idle"
    /\ served < MaxRequests
    /\ \E todo \in Route(name) :
          request' = [request EXCEPT ![r] =
              [Idle EXCEPT !.at = "session", !.no = served + 1, !.who = who,
                           !.route = name, !.todo = todo]]
    /\ served' = served + 1
    /\ UNCHANGED disk

\* The login route needs no session.
Login(r, n) ==
    /\ request[r].at = "idle"
    /\ served < MaxRequests
    /\ request' = [request EXCEPT ![r] =
           [Idle EXCEPT !.at = "load", !.no = served + 1, !.todo = <<[op |-> "login", name |-> n]>>]]
    /\ served' = served + 1
    /\ UNCHANGED disk

Answer(r) == request' = [request EXCEPT ![r] = Idle]

\* requireSession: the user of the token must still be there and active.
ResolveSession(r) ==
    /\ request[r].at = "session"
    /\ IF \E u \in ById(disk.users, request[r].who) : u.active
       THEN request' = [request EXCEPT ![r].at = "policy",
                            ![r].roles = UNION {u.roles : u \in ById(disk.users, request[r].who)}]
       ELSE Answer(r)
    /\ UNCHANGED <<disk, served>>

\* requireApiAccess: a role of the session must have the route.
RequireApiAccess(r) ==
    /\ request[r].at = "policy"
    /\ IF IsPathAllowedForRoles(disk.policies, request[r].roles, request[r].route)
       THEN request' = [request EXCEPT ![r].at = "load"]
       ELSE Answer(r)
    /\ UNCHANGED <<disk, served>>

\* The repository reads the file and works out the new one, or refuses.
Load(r) ==
    /\ request[r].at = "load"
    /\ LET in == Head(request[r].todo)
           next == LocalSystemAdapter(in, disk[FileOf(in.op)], request[r].no,
                                      <<request[r].no, Len(request[r].todo)>>)
       IN  IF next = Refused
           THEN Answer(r)
           ELSE \E rows \in next : request' = [request EXCEPT ![r].at = "save", ![r].next = rows]
    /\ UNCHANGED <<disk, served>>

\* The new file replaces the old one by a rename; then comes the next change.
WriteJsonFile(r) ==
    /\ request[r].at = "save"
    /\ disk' = [disk EXCEPT ![FileOf(Head(request[r].todo).op)] = request[r].next]
    /\ IF Len(request[r].todo) = 1
       THEN Answer(r)
       ELSE request' = [request EXCEPT ![r].at = "load", ![r].todo = Tail(@), ![r].next = {}]
    /\ UNCHANGED served

\* The process ends, or the write fails: the file stays as it was.
Abandon(r) ==
    /\ request[r].at \in {"load", "save"}
    /\ Answer(r)
    /\ UNCHANGED <<disk, served>>

Next ==
    \E r \in Requests :
        \/ \E who \in Ids(disk.users), name \in Routes : Arrive(r, who, name)
        \/ \E u \in disk.users : Login(r, u.name)
        \/ ResolveSession(r)
        \/ RequireApiAccess(r)
        \/ Load(r)
        \/ WriteJsonFile(r)
        \/ Abandon(r)

Spec == Init /\ [][Next]_vars

(***************************************************************************)
(* Properties                                                              *)
(***************************************************************************)
Unique(rows, Col(_)) == \A x, y \in rows : Col(x) = Col(y) => x = y

\* Whatever the interleaving of loads and saves, each file by itself stays
\* what its repository promises: user names, role identifiers and menu numbers
\* are unique, the seeded user and the locked role are there, and nobody has
\* lost his last role.  (system-user-repository.ts, system-role-repository.ts,
\* system-menu-repository.ts.)
StoreIntact ==
    /\ Unique(disk.users, LAMBDA u : u.name)
    /\ Unique(disk.users, LAMBDA u : u.id)
    /\ Unique(disk.roles, LAMBDA x : x.id)
    /\ Unique(disk.menus, LAMBDA m : m.id)
    /\ \E u \in disk.users : u.name = Admin
    /\ \E x \in disk.roles : x.id = Super /\ x.locked
    /\ \A u \in disk.users : u.roles # {}
=============================================================================
