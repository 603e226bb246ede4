------------------------- MODULE AccessManagement -------------------------
(***************************************************************************)
(* Role and user management of the console over the framework's database.  *)
(* A role is a bundle of permissions; the permissions of a user are stored *)
(* with the user and are rewritten whenever a role of his changes.  Each   *)
(* change is one READ COMMITTED transaction of several statements: a       *)
(* statement sees what is committed and the transaction's own writes, and  *)
(* waits to write a row that another open transaction has written.         *)
(*                                                                         *)
(* A transaction's writes are kept with it until it commits.  Two          *)
(* variables are history: the permissions each user was ever given by name *)
(* and whether two transactions that changed permissions ever overlapped.  *)
(***************************************************************************)
EXTENDS Naturals, FiniteSets

CONSTANTS
    Admins,            \* administrators at work: one database client each
    RoleIds,           \* role identifiers
    DefaultRoles,      \* the locked roles of access-control.json
    UserIds,           \* identifiers of framework users
    Permissions,       \* permission identifiers
    DefaultPermissions,\* what a default role carries
    Credentials,       \* sessions and API keys
    MaxChanges         \* bound: transactions begun in a behaviour

ASSUME AccessAssumption ==
    /\ DefaultRoles \subseteq RoleIds /\ DefaultRoles # {}
    /\ DefaultPermissions \subseteq Permissions
    /\ MaxChanges \in Nat

VARIABLES
    roles,     \* msfront_managed_roles: the rows that are there
    users,     \* framework_users
    revoked,   \* credentials that have been revoked
    audited,   \* number of rows in audit_events
    tx,        \* the transaction of each administrator
    begun,     \* number of transactions begun
    named,     \* history: permissions a user was given by name
    raced      \* history: two changes of permissions overlapped

accessVars == <<roles, users, revoked, audited, tx, begun, named, raced>>

Nothing == <<>>                  \* the function with no argument

\* Rows, or the columns of one, laid over others.
Over(f, g) == [x \in DOMAIN f \cup DOMAIN g |-> IF x \in DOMAIN f THEN f[x] ELSE g[x]]
Row(r, x) == [y \in {r} |-> x]

Gone == [gone |-> TRUE]          \* what a transaction writes to delete a row
RoleRow(perms, locked) == [perms |-> perms, locked |-> locked]
Seeds == [r \in DefaultRoles |-> RoleRow(DefaultPermissions, TRUE)]
Closed == [at |-> "idle", in |-> [op |-> "none"], roleRows |-> Nothing, userRows |-> Nothing,
           roleWrites |-> Nothing, userWrites |-> Nothing, todo |-> Nothing]

\* A role or user row as the statements of transaction c see it.
VisibleRoles(c) ==
    LET rows == Over(tx[c].roleWrites, roles)
    IN  [r \in {x \in DOMAIN rows : rows[x] # Gone} |-> rows[r]]
VisibleUsers(c) == Over(tx[c].userWrites, users)

\* Another open transaction has written one of the rows.
RoleLocked(c, rs) == \E d \in Admins \ {c} : rs \cap DOMAIN tx[d].roleWrites # {}
UserLocked(c, us) == \E d \in Admins \ {c} : us \cap DOMAIN tx[d].userWrites # {}

(***************************************************************************)
(* The catalog: the managed roles, and roles that some user has although   *)
(* the table does not know them ("imported", without permissions).         *)
(***************************************************************************)
BuildRoleCatalog(roleRows, userRows) ==
    LET missing == (UNION {userRows[u].roles : u \in DOMAIN userRows}) \ DOMAIN roleRows
    IN  Over([r \in DOMAIN roleRows |->
                 [perms |-> roleRows[r].perms, locked |-> roleRows[r].locked, imported |-> FALSE]],
             [r \in missing |-> [perms |-> {}, locked |-> FALSE, imported |-> TRUE]])

EnsureCatalogForRoleIds(catalog, ids) ==
    Over(catalog, [r \in ids |-> [perms |-> {}, locked |-> FALSE, imported |-> TRUE]])

CollectPermissionsForRoles(ids, catalog) ==
    UNION {catalog[r].perms : r \in ids \cap DOMAIN catalog}

\* A user's own permissions are those that none of his roles explains.
Extra(row, catalog) == row.perms \ CollectPermissionsForRoles(row.roles, catalog)

MapAccessManagedUser(row, catalog) ==
    LET inherited == CollectPermissionsForRoles(row.roles, catalog)
    IN  [roles |-> row.roles, inherited |-> inherited, extra |-> Extra(row, catalog),
         effective |-> inherited \cup Extra(row, catalog), status |-> row.status]

SummarizeManagedRole(r, catalog, entries) ==
    LET members == {u \in DOMAIN entries : r \in entries[u].roles}
    IN  [members  |-> Cardinality(members),
         active   |-> Cardinality({u \in members : entries[u].status = "active"}),
         disabled |-> Cardinality({u \in members : entries[u].status = "disabled"})]

\* What readAccessManagementView returns: it seeds the default roles first.
AccessManagementView ==
    LET catalog == BuildRoleCatalog(Over(roles, Seeds), users)
        entries == [u \in UserIds |-> MapAccessManagedUser(users[u], catalog)]
    IN  [users |-> entries,
         roles |-> [r \in DOMAIN catalog |-> SummarizeManagedRole(r, catalog, entries)]]

(***************************************************************************)
(* Requests of the security routes, as their schemas let them through.     *)
(***************************************************************************)
Bundles == {{}} \cup {{p} : p \in Permissions}

UserRequests ==
    {[op |-> "user", user |-> u, roles |-> rs, extra |-> ps, status |-> "active"]
        : u \in UserIds, rs \in {{}} \cup {{r} : r \in RoleIds}, ps \in Bundles}
BatchRequests ==
    {[op |-> "status", users |-> UserIds, status |-> "disabled"]}
    \cup {[op |-> op, users |-> UserIds, role |-> r] : op \in {"assign", "remove"}, r \in RoleIds}
RoleRequests ==
    {[op |-> op, role |-> r, perms |-> ps] : op \in {"create", "save"}, r \in RoleIds, ps \in Bundles}
    \cup {[op |-> "delete", role |-> r] : r \in RoleIds}
RevokeRequests == {[op |-> "revoke", credential |-> k] : k \in Credentials}

(***************************************************************************)
(* What the repository decides from the rows it has read: refuse, or the   *)
(* columns to write in each user's row.  A record of columns is laid over  *)
(* the row that is there when the statement runs.                          *)
(***************************************************************************)
Catalog(t) == BuildRoleCatalog(t.roleRows, t.userRows)
Knows(t) == t.in.role \in DOMAIN Catalog(t)
Imported(t) == Knows(t) /\ Catalog(t)[t.in.role].imported
Locked(t) == Knows(t) /\ Catalog(t)[t.in.role].locked

UpdateManagedUserAllowed(t) == t.in.roles \subseteq DOMAIN Catalog(t)

UpdateManagedUser(t) ==
    Row(t.in.user,
        [roles  |-> t.in.roles, status |-> t.in.status,
         perms  |-> t.in.extra \cup
             CollectPermissionsForRoles(t.in.roles, EnsureCatalogForRoleIds(Catalog(t), t.in.roles))])

UpdateManagedUsersStatus(t) == [u \in t.in.users |-> [status |-> t.in.status]]

\* Fault: a removed role leaves its permissions behind.
RolesChangedAlone(t) ==
    LET After(u) == IF t.in.op = "assign" THEN t.userRows[u].roles \cup {t.in.role}
                                          ELSE t.userRows[u].roles \ {t.in.role}
    IN  [u \in {v \in t.in.users : After(v) # t.userRows[v].roles} |->
            [roles |-> After(u),
             perms |-> t.userRows[u].perms \cup CollectPermissionsForRoles(After(u), Catalog(t))]]

UpdateManagedUsersRoles(t) ==
    LET After(u) == IF t.in.op = "assign" THEN t.userRows[u].roles \cup {t.in.role}
                                          ELSE t.userRows[u].roles \ {t.in.role}
    IN  [u \in {v \in t.in.users : After(v) # t.userRows[v].roles} |->
            [roles |-> After(u),
             perms |-> CollectPermissionsForRoles(After(u), Catalog(t))
                           \cup Extra(t.userRows[u], Catalog(t))]]

SaveManagedRoleAllowed(t) ==
    /\ t.in.op = "save" \/ ~Knows(t) \/ Imported(t)
    /\ ~Locked(t)

DeleteManagedRoleAllowed(t) == Knows(t) /\ ~Imported(t) /\ ~Locked(t)

\* The INSERT of a new role overwrites a row that came in between (ON
\* CONFLICT DO UPDATE); the UPDATE of a known one finds it or does nothing.
SaveManagedRoleRow(t, visible) ==
    LET r == t.in.role
    IN  IF r \in DOMAIN visible
        THEN Row(r, [visible[r] EXCEPT !.perms = t.in.perms])
        ELSE IF Knows(t) /\ ~Imported(t) THEN Nothing ELSE Row(r, RoleRow(t.in.perms, FALSE))

SynchronizeUsersForRoleCatalog(t, next, userRows) ==
    LET After(u) == CollectPermissionsForRoles(userRows[u].roles, next)
                        \cup Extra(userRows[u], Catalog(t))
    IN  [u \in {v \in UserIds : t.in.role \in userRows[v].roles /\ After(v) # userRows[v].perms} |->
            [perms |-> After(u)]]

SynchronizeUsersForDeletedRole(t, next, userRows) ==
    [u \in {v \in UserIds : t.in.role \in userRows[v].roles} |->
        [roles |-> userRows[u].roles \ {t.in.role},
         perms |-> CollectPermissionsForRoles(userRows[u].roles \ {t.in.role}, next)
                       \cup Extra(userRows[u], Catalog(t))]]

(***************************************************************************)
(* The statements of a transaction.                                        *)
(***************************************************************************)
\* The table is empty before the console's first request.  One user has a
\* default role with its permissions; another a role that only the framework
\* knows and a permission of his own.
AccessInit ==
    /\ roles = Nothing
    /\ users \in [UserIds -> {[roles |-> DefaultRoles, perms |-> DefaultPermissions, status |-> "active"],
                              [roles |-> RoleIds \ DefaultRoles, perms |-> Permissions \ DefaultPermissions,
                               status |-> "active"]}]
    /\ revoked = {}
    /\ audited = 0
    /\ tx = [c \in Admins |-> Closed]
    /\ begun = 0
    /\ named = [u \in UserIds |-> users[u].perms \ DefaultPermissions]
    /\ raced = FALSE

Unwritten == UNCHANGED <<roles, users, revoked, audited, begun, named, raced>>

BeginTransaction(c, in) ==
    /\ tx[c].at = "idle"
    /\ begun < MaxChanges
    /\ begun' = begun + 1
    /\ tx' = [tx EXCEPT ![c] = [Closed EXCEPT !.in = in,
                                              !.at = IF in.op = "revoke" THEN "revoke" ELSE "seed"]]
    /\ UNCHANGED <<roles, users, revoked, audited, named, raced>>

\* INSERT ... ON CONFLICT DO NOTHING for each default role.
EnsureManagedRolesSeeded(c) ==
    /\ tx[c].at = "seed"
    /\ LET missing == DefaultRoles \ DOMAIN VisibleRoles(c)
       IN  /\ ~RoleLocked(c, missing)
           /\ tx' = [tx EXCEPT ![c].at = "roles", ![c].roleWrites = Over([r \in missing |-> Seeds[r]], @)]
    /\ Unwritten

ReadManagedRoleRows(c) ==
    /\ tx[c].at = "roles"
    /\ tx' = [tx EXCEPT ![c].at = "users", ![c].roleRows = VisibleRoles(c)]
    /\ Unwritten

ReadFrameworkUserInventoryRows(c) ==
    /\ tx[c].at = "users"
    /\ tx' = [tx EXCEPT ![c].at = "decide", ![c].userRows = VisibleUsers(c)]
    /\ Unwritten

\* ROLLBACK: a check threw, a statement failed, or the connection was lost.
RollbackTransaction(c) ==
    /\ tx[c].at # "idle"
    /\ tx' = [tx EXCEPT ![c] = Closed]
    /\ Unwritten

\* The three functions that write users only.
PrepareUsers(c) ==
    /\ tx[c].at = "decide"
    /\ tx[c].in.op \in {"user", "status", "assign", "remove"}
    /\ IF \/ tx[c].in.op = "user" /\ ~UpdateManagedUserAllowed(tx[c])
          \/ tx[c].in.op \in {"assign", "remove"} /\ ~Knows(tx[c])
       THEN tx' = [tx EXCEPT ![c] = Closed]
       ELSE tx' = [tx EXCEPT ![c].at = "members", ![c].todo =
                      CASE tx[c].in.op = "user" -> UpdateManagedUser(tx[c])
                        [] tx[c].in.op = "status" -> UpdateManagedUsersStatus(tx[c])
                        [] OTHER -> UpdateManagedUsersRoles(tx[c])]
    /\ Unwritten

SaveManagedRole(c) ==
    /\ tx[c].at = "decide"
    /\ tx[c].in.op \in {"create", "save"}
    /\ IF SaveManagedRoleAllowed(tx[c])
       THEN /\ ~RoleLocked(c, {tx[c].in.role})
            /\ tx' = [tx EXCEPT ![c].at = "reread",
                                ![c].roleWrites = Over(SaveManagedRoleRow(tx[c], VisibleRoles(c)), @)]
       ELSE tx' = [tx EXCEPT ![c] = Closed]
    /\ Unwritten

DeleteManagedRole(c) ==
    /\ tx[c].at = "decide"
    /\ tx[c].in.op = "delete"
    /\ IF DeleteManagedRoleAllowed(tx[c])
       THEN /\ ~RoleLocked(c, {tx[c].in.role})
            /\ tx' = [tx EXCEPT ![c].at = "reread", ![c].roleWrites = Over(Row(tx[c].in.role, Gone), @)]
       ELSE tx' = [tx EXCEPT ![c] = Closed]
    /\ Unwritten

\* The roles are read again, and then the users; who has the role is rewritten.
SynchronizeUsers(c) ==
    /\ tx[c].at = "reread"
    /\ LET next == BuildRoleCatalog(VisibleRoles(c), tx[c].userRows)
       IN  tx' = [tx EXCEPT ![c].at = "members", ![c].todo =
                     IF tx[c].in.op = "delete"
                     THEN SynchronizeUsersForDeletedRole(tx[c], next, VisibleUsers(c))
                     ELSE SynchronizeUsersForRoleCatalog(tx[c], next, VisibleUsers(c))]
    /\ Unwritten

\* One UPDATE framework_users.
WriteMember(c, u) ==
    /\ tx[c].at = "members"
    /\ u \in DOMAIN tx[c].todo
    /\ ~UserLocked(c, {u})
    /\ tx' = [tx EXCEPT ![c].userWrites = Over(Row(u, Over(tx[c].todo[u], VisibleUsers(c)[u])), @),
                        ![c].todo = [v \in DOMAIN tx[c].todo \ {u} |-> tx[c].todo[v]]]
    /\ Unwritten

ChangesAccess(c) ==
    \/ \E r \in DOMAIN tx[c].roleWrites : r \notin DefaultRoles
    \/ tx[c].in.op # "status" /\ tx[c].userWrites # Nothing

\* Another transaction has read rows and may still write what it derived.
Overlapped(c) == \E d \in Admins \ {c} : tx[d].roleRows # Nothing

\* The audit row belongs to the transaction; COMMIT makes all of it visible.
CommitTransaction(c) ==
    /\ tx[c].at = "members"
    /\ tx[c].todo = Nothing
    /\ roles' = VisibleRoles(c)
    /\ users' = VisibleUsers(c)
    /\ audited' = audited + 1
    /\ named' = IF tx[c].in.op = "user" THEN [named EXCEPT ![tx[c].in.user] = @ \cup tx[c].in.extra]
                                        ELSE named
    /\ raced' = (raced \/ (ChangesAccess(c) /\ Overlapped(c)))
    /\ tx' = [tx EXCEPT ![c] = Closed]
    /\ UNCHANGED <<revoked, begun>>

\* A revocation that finds the row keeps the first time of revocation.
RevokeManagedCredential(c) ==
    /\ tx[c].at = "revoke"
    /\ revoked' = revoked \cup {tx[c].in.credential}
    /\ audited' = audited + 1
    /\ tx' = [tx EXCEPT ![c] = Closed]
    /\ UNCHANGED <<roles, users, begun, named, raced>>

\* Opening the page seeds the default roles, outside any transaction.
ReadAccessManagementView ==
    /\ ~\E c \in Admins : DefaultRoles \cap DOMAIN tx[c].roleWrites # {}
    /\ roles' = Over(roles, Seeds)
    /\ UNCHANGED <<users, revoked, audited, tx, begun, named, raced>>

AccessNext ==
    \/ ReadAccessManagementView
    \/ \E c \in Admins :
          \/ \E in \in UserRequests : BeginTransaction(c, in)
          \/ \E in \in BatchRequests : BeginTransaction(c, in)
          \/ \E in \in RoleRequests : BeginTransaction(c, in)
          \/ \E in \in RevokeRequests : BeginTransaction(c, in)
          \/ EnsureManagedRolesSeeded(c)
          \/ ReadManagedRoleRows(c)
          \/ ReadFrameworkUserInventoryRows(c)
          \/ PrepareUsers(c)
          \/ SaveManagedRole(c)
          \/ DeleteManagedRole(c)
          \/ SynchronizeUsers(c)
          \/ \E u \in UserIds : WriteMember(c, u)
          \/ CommitTransaction(c)
          \/ RevokeManagedCredential(c)
          \/ RollbackTransaction(c)

AccessSpec == AccessInit /\ [][AccessNext]_accessVars

(***************************************************************************)
(* Properties                                                              *)
(***************************************************************************)
\* As long as no two changes of permissions overlapped, what the page shows of
\* a user is what the database enforces, and a permission that no role of his
\* explains was once given to him by name: no sequence of role edits, batch
\* assignments and deletions leaves a permission behind or takes one away.
\* (synchronizeUsersForRoleCatalog, synchronizeUsersForDeletedRole,
\* updateManagedUsersRoles.)
PermissionsFollowRoles ==
    raced \/ \A u \in UserIds :
        LET entry == AccessManagementView.users[u]
        IN  entry.effective = users[u].perms /\ entry.extra \subseteq named[u]

=============================================================================
