--------------------------- MODULE FrontendProofs ---------------------------
(***************************************************************************)
(* Proofs for the stores of the management console's server.               *)
(*                                                                         *)
(* SystemStore: the six JSON files, for any number of requests, any names  *)
(* and any finite inventory.  The invariant follows a list of rows from    *)
(* the load that works it out to the save that puts it on disk.            *)
(*                                                                         *)
(* ProjectRepository: for any number of callers, any codes and any         *)
(* function from codes to identifiers, so also one that maps two codes to  *)
(* the same identifier.                                                    *)
(*                                                                         *)
(* AccessManagement: for any number of administrators, roles, users and    *)
(* permissions.  The invariant says of each open transaction that what it  *)
(* has read still is what is there, until two changes of access overlap.   *)
(***************************************************************************)
EXTENDS SystemStore, AccessManagement, ProjectRepository, FiniteSetTheorems, WellFoundedInduction, TLAPS

-----------------------------------------------------------------------------
(* The largest of some numbers                                               *)

LEMMA NotLess == \A x, y \in Nat : ~(y < x) => x <= y
OBVIOUS

LEMMA SmallestMember ==
  ASSUME NEW T, T \subseteq Nat, T # {}
  PROVE  \E x \in T : \A y \in T : x <= y
<1>1. \E x \in T : \A y \in T : ~(<<y, x>> \in OpToRel(<, Nat))
  BY NatLessThanWellFounded, WFMin
<1>2. \A x, y \in Nat : <<y, x>> \in OpToRel(<, Nat) <=> y < x
  BY DEF OpToRel
<1>3. \E x \in T : \A y \in T : ~(y < x)
  BY <1>1, <1>2
<1> QED
  BY <1>3, NotLess

\* Numbers that some number bounds have a largest one.
LEMMA LargestMember ==
  ASSUME NEW T, T \subseteq Nat, T # {}, NEW b \in Nat, \A y \in T : y <= b
  PROVE  Max(T) \in T /\ \A y \in T : y <= Max(T)
<1> DEFINE U == {u \in Nat : \A y \in T : y <= u}
<1> PICK m \in U : \A u \in U : m <= u
  <2>1. U \subseteq Nat /\ b \in U
    OBVIOUS
  <2> QED
    BY <2>1, SmallestMember
<1>1. m \in T
  <2> SUFFICES ASSUME m \notin T PROVE FALSE
    OBVIOUS
  <2>1. \A y \in T : y < m /\ y \in Nat
    OBVIOUS
  <2>2. m # 0 /\ m \in Nat
    <3> PICK y \in T : TRUE
      OBVIOUS
    <3>1. y < m /\ y \in Nat /\ m \in Nat
      BY <2>1
    <3> QED
      BY <3>1
  <2>3. m - 1 \in U
    BY <2>1, <2>2
  <2> QED
    BY <2>2, <2>3
<1>2. \E x \in T : \A y \in T : x >= y
  BY <1>1
<1>3. Max(T) \in T /\ \A y \in T : Max(T) >= y
  BY <1>2 DEF Max
<1> QED
  BY <1>3
-----------------------------------------------------------------------------
(* What each file, and each list that is about to replace one, always is     *)

UserLine(u) ==
    u \in [id : {u.id}, name : {u.name}, active : {u.active}, legacy : {u.legacy}, roles : {u.roles}]
RoleLine(x) ==
    x \in [id : {x.id}, parent : {x.parent}, locked : {x.locked}, menus : {x.menus}, granted : {x.granted}]
MenuLine(m) == m \in [id : {m.id}, parent : {m.parent}, born : {m.born}]

GoodUsers(rows) ==
    /\ \A u \in rows : UserLine(u) /\ u.roles # {}
    /\ \A u, v \in rows : u.name = v.name => u = v
    /\ \A u, v \in rows : u.id = v.id => u = v
    /\ \E u \in rows : u.name = Admin
GoodRoles(rows) ==
    /\ \A x \in rows : RoleLine(x)
    /\ \A x, y \in rows : x.id = y.id => x = y
    /\ \E x \in rows : x.id = Super /\ x.locked
GoodMenus(rows) ==
    /\ \A m \in rows : MenuLine(m) /\ m.id \in Nat
    /\ \A m, n \in rows : m.id = n.id => m = n
    /\ \E b \in Nat : \A m \in rows : m.id <= b

Good(file, rows) ==
    /\ file = "users" => GoodUsers(rows)
    /\ file = "roles" => GoodRoles(rows)
    /\ file = "menus" => GoodMenus(rows)
    /\ file = "apis" => IsFiniteSet(rows)

UserOps == {"login", "createUser", "updateUser", "deleteUser", "setRoleUsers"}
RoleOps == {"createRole", "updateRole", "deleteRole", "copyRole"}
PolicyOps == {"copyCasbin", "replaceCasbin"}
MenuOps == {"createMenu", "updateMenu", "deleteMenu"}
ApiOps == {"createApi", "updateApi", "deleteApi"}
IgnoreOps == {"saveIgnores", "ignoreApi"}
Ops == UserOps \cup RoleOps \cup PolicyOps \cup MenuOps \cup ApiOps \cup IgnoreOps

\* A user is given a role by every change that sets his roles.
Sensible(in) == in.op \in Ops /\ (in.op \in {"createUser", "updateUser"} => in.roles # {})

-----------------------------------------------------------------------------
(* Each change makes of a good file a good one                               *)

\* The request a user is drawn by; only that request may bring his number.
Drawn(rows) == {u.id[1] : u \in rows}

LEMMA UsersChange ==
  ASSUME NEW old, GoodUsers(old), NEW in, Sensible(in), in.op \in UserOps, NEW no, NEW len, no \notin Drawn(old),
         NEW rows \in LocalSystemAdapter(in, old, no, <<no, len>>)
  PROVE  GoodUsers(rows) /\ Drawn(rows) \subseteq Drawn(old) \cup {no}
<1>1. CASE in.op = "login"
  <2>1. rows = {IF u.name = in.name THEN [u EXCEPT !.legacy = FALSE] ELSE u : u \in old}
    BY <1>1 DEF LocalSystemAdapter, AuthenticateSystemUser, Saved, Refused
  <2> DEFINE g(u) == IF u.name = in.name THEN [u EXCEPT !.legacy = FALSE] ELSE u
  <2>2. \A u \in old : UserLine(g(u)) /\ g(u).name = u.name /\ g(u).id = u.id /\ g(u).roles = u.roles
    <3> SUFFICES ASSUME NEW u \in old
                 PROVE  UserLine(g(u)) /\ g(u).name = u.name /\ g(u).id = u.id /\ g(u).roles = u.roles
      OBVIOUS
    <3>1. UserLine(u)
      BY DEF GoodUsers
    <3> PICK h : h = [u EXCEPT !.legacy = FALSE]
      OBVIOUS
    <3>2. UserLine(h) /\ h.name = u.name /\ h.id = u.id /\ h.roles = u.roles
      BY <3>1 DEF UserLine
    <3>3. g(u) = h \/ g(u) = u
      OBVIOUS
    <3> HIDE DEF g
    <3> QED
      BY <3>1, <3>2, <3>3
  <2>3. rows = {g(u) : u \in old}
    BY <2>1
  <2> HIDE DEF g
  <2> QED
    BY <2>2, <2>3 DEF GoodUsers, Drawn
<1>2. CASE in.op = "createUser"
  <2> DEFINE new == [id |-> <<no, len>>, name |-> in.name, active |-> in.active, legacy |-> FALSE,
                     roles |-> in.roles]
  <2>1. rows = old \cup {new} /\ \A u \in old : u.name # in.name
    BY <1>2 DEF LocalSystemAdapter, CreateSystemUser, Saved, Refused
  <2>2. UserLine(new) /\ new.roles # {} /\ new.name = in.name /\ new.id[1] = no
    BY <1>2 DEF UserLine, Sensible
  <2>3. \A u \in old : u.id # new.id
    BY <2>2 DEF Drawn
  <2> HIDE DEF new
  <2> QED
    BY <2>1, <2>2, <2>3 DEF GoodUsers, Drawn
<1>3. CASE in.op = "updateUser"
  <2> DEFINE g(u) == IF u.id = in.id
                THEN [u EXCEPT !.active = in.active, !.roles = in.roles, !.legacy = u.legacy /\ ~in.password]
                ELSE u
  <2>1. rows = {g(u) : u \in old}
    BY <1>3 DEF LocalSystemAdapter, UpdateSystemUser, Saved, Refused
  <2>2. ASSUME NEW u \in old
        PROVE  UserLine(g(u)) /\ g(u).name = u.name /\ g(u).id = u.id /\ g(u).roles # {}
    <3> PICK left : left = (u.legacy /\ ~in.password)
      OBVIOUS
    <3> PICK v : v = [u EXCEPT !.active = in.active, !.roles = in.roles, !.legacy = left]
      OBVIOUS
    <3>1. UserLine(v) /\ v.name = u.name /\ v.id = u.id /\ v.roles = in.roles
      BY DEF GoodUsers, UserLine
    <3>2. in.roles # {} /\ UserLine(u) /\ u.roles # {}
      BY <1>3 DEF GoodUsers, Sensible
    <3>3. g(u) = IF u.id = in.id THEN v ELSE u
      OBVIOUS
    <3> QED
      BY <3>1, <3>2, <3>3
  <2> HIDE DEF g
  <2> QED
    BY <2>1, <2>2 DEF GoodUsers, Drawn
<1>4. CASE in.op = "deleteUser"
  <2>1. rows = old \ ById(old, in.id) /\ \E u \in ById(old, in.id) : u.name # Admin
    BY <1>4 DEF LocalSystemAdapter, DeleteSystemUser, Saved, Refused
  <2>2. \A u \in old : u.name = Admin => u \in rows
    BY <2>1 DEF ById, GoodUsers
  <2> QED
    BY <2>1, <2>2 DEF GoodUsers, Drawn
<1>5. CASE in.op = "setRoleUsers"
  <2> DEFINE g(u) == [u EXCEPT !.roles = IF u.id \in in.users THEN u.roles \cup {in.role}
                        ELSE IF u.roles = {in.role} THEN u.roles ELSE u.roles \ {in.role}]
  <2>1. rows = {g(u) : u \in old}
    BY <1>5 DEF LocalSystemAdapter, SetUsersForRole, Saved
  <2>2. ASSUME NEW u \in old
        PROVE  UserLine(g(u)) /\ g(u).name = u.name /\ g(u).id = u.id /\ g(u).roles # {}
    <3> PICK left : left = IF u.id \in in.users THEN u.roles \cup {in.role}
                        ELSE IF u.roles = {in.role} THEN u.roles ELSE u.roles \ {in.role}
      OBVIOUS
    <3>1. left # {} /\ g(u) = [u EXCEPT !.roles = left]
      BY DEF GoodUsers
    <3> HIDE DEF g
    <3> QED
      BY <3>1 DEF GoodUsers, UserLine
  <2> HIDE DEF g
  <2> QED
    BY <2>1, <2>2 DEF GoodUsers, Drawn
<1> QED
  BY <1>1, <1>2, <1>3, <1>4, <1>5 DEF UserOps

LEMMA RolesChange ==
  ASSUME NEW old, GoodRoles(old), NEW in, in.op \in RoleOps, NEW no, NEW new,
         NEW rows \in LocalSystemAdapter(in, old, no, new)
  PROVE  GoodRoles(rows)
<1>1. CASE in.op = "createRole"
  <2> DEFINE x == [id |-> in.id, parent |-> in.parent, locked |-> FALSE, menus |-> in.menus, granted |-> no]
  <2>1. rows = old \cup {x} /\ \A y \in old : y.id # x.id
    BY <1>1 DEF LocalSystemAdapter, CreateSystemRole, Saved, Refused, ById
  <2>2. RoleLine(x)
    BY DEF RoleLine
  <2> HIDE DEF x
  <2> QED
    BY <2>1, <2>2 DEF GoodRoles
<1>2. CASE in.op = "updateRole"
  <2> DEFINE g(x) == IF x.id = in.id
                THEN [x EXCEPT !.menus = in.menus, !.parent = in.parent, !.granted = no] ELSE x
  <2>1. rows = {g(x) : x \in old}
    BY <1>2 DEF LocalSystemAdapter, UpdateSystemRole, Saved, Refused
  <2>2. \A x \in old : RoleLine(g(x)) /\ g(x).id = x.id /\ g(x).locked = x.locked
    BY DEF GoodRoles, RoleLine
  <2> HIDE DEF g
  <2> QED
    BY <2>1, <2>2 DEF GoodRoles
<1>3. CASE in.op = "deleteRole"
  <2>1. rows = old \ ById(old, in.id) /\ \E x \in ById(old, in.id) : ~x.locked
    BY <1>3 DEF LocalSystemAdapter, DeleteSystemRole, Saved, Refused
  <2>2. \A x \in old : x.locked => x \in rows
    BY <2>1 DEF ById, GoodRoles
  <2> QED
    BY <2>1, <2>2 DEF GoodRoles
<1>4. CASE in.op = "copyRole"
  <2> DEFINE g(x) == [x EXCEPT !.id = in.id, !.parent = in.parent, !.locked = FALSE]
  <2>1. rows = old \cup {g(x) : x \in ById(old, in.from)} /\ \A y \in old : y.id # in.id
    BY <1>4 DEF LocalSystemAdapter, CopySystemRole, Saved, Refused, ById
  <2>2. \A x \in old : RoleLine(g(x)) /\ g(x).id = in.id
    BY DEF GoodRoles, RoleLine
  <2>3. \A x, y \in ById(old, in.from) : x \in old /\ y \in old /\ x = y
    BY DEF GoodRoles, ById
  <2> HIDE DEF g
  <2> QED
    BY <2>1, <2>2, <2>3 DEF GoodRoles
<1> QED
  BY <1>1, <1>2, <1>3, <1>4 DEF RoleOps

LEMMA MenusChange ==
  ASSUME NEW old, GoodMenus(old), NEW in, in.op \in MenuOps, NEW no, NEW new,
         NEW rows \in LocalSystemAdapter(in, old, no, new)
  PROVE  GoodMenus(rows)
<1>1. CASE in.op = "createMenu"
  <2> DEFINE ids == {m.id : m \in old} \cup {0}
  <2> PICK b \in Nat : \A m \in old : m.id <= b
    BY DEF GoodMenus
  <2>1. ids \subseteq Nat /\ ids # {} /\ \A i \in ids : i <= b
    BY DEF GoodMenus
  <2> PICK top \in Nat : top = Max(ids) /\ \A i \in ids : i <= top
    BY <2>1, LargestMember, Zenon
  <2> PICK next : next = [id |-> top + 1, parent |-> in.parent, born |-> no]
    OBVIOUS
  <2>2. rows = old \cup {next}
    BY <1>1 DEF LocalSystemAdapter, CreateSystemMenu, NextNumericMenuId, Saved
  <2>3. MenuLine(next) /\ next.id = top + 1 /\ \A m \in old : m.id <= top /\ m.id \in Nat
    BY DEF MenuLine, GoodMenus
  <2>4. \A m \in old : m.id # next.id /\ m.id <= top + 1
    BY <2>3
  <2>5. \A m, n \in rows : m.id = n.id => m = n
    BY <2>2, <2>4 DEF GoodMenus
  <2>6. top + 1 \in Nat /\ \A m \in rows : MenuLine(m) /\ m.id \in Nat /\ m.id <= top + 1
    BY <2>2, <2>3, <2>4 DEF GoodMenus
  <2> QED
    BY <2>5, <2>6 DEF GoodMenus
<1>2. CASE in.op = "updateMenu"
  <2> DEFINE g(m) == IF m.id = in.id THEN [m EXCEPT !.parent = in.parent] ELSE m
  <2>1. rows = {g(m) : m \in old}
    BY <1>2 DEF LocalSystemAdapter, UpdateSystemMenu, Saved, Refused
  <2>2. \A m \in old : MenuLine(g(m)) /\ g(m).id = m.id
    BY DEF GoodMenus, MenuLine
  <2> HIDE DEF g
  <2> QED
    BY <2>1, <2>2 DEF GoodMenus
<1>3. CASE in.op = "deleteMenu"
  <2>1. rows \subseteq old
    BY <1>3 DEF LocalSystemAdapter, DeleteSystemMenu, Saved, Refused
  <2> QED
    BY <2>1 DEF GoodMenus
<1> QED
  BY <1>1, <1>2, <1>3 DEF MenuOps

LEMMA ApisChange ==
  ASSUME NEW old, IsFiniteSet(old), NEW in, in.op \in ApiOps, NEW no, NEW new,
         NEW rows \in LocalSystemAdapter(in, old, no, new)
  PROVE  IsFiniteSet(rows)
<1>1. CASE in.op = "createApi"
  <2>1. rows = old \cup {[id |-> new, key |-> in.key]}
    BY <1>1 DEF LocalSystemAdapter, CreateSystemApi, Saved
  <2> QED
    BY <2>1, FS_AddElement
<1>2. CASE in.op = "updateApi"
  <2> DEFINE g == [a \in old |-> IF a.id = in.id THEN [a EXCEPT !.key = in.key] ELSE a]
  <2>1. rows = {g[a] : a \in old}
    BY <1>2 DEF LocalSystemAdapter, UpdateSystemApi, Saved, Refused
  <2>2. g \in Surjection(old, rows)
    BY <2>1 DEF Surjection
  <2> QED
    BY <2>2, FS_Surjection
<1>3. CASE in.op = "deleteApi"
  <2>1. rows \subseteq old
    BY <1>3 DEF LocalSystemAdapter, DeleteSystemApi, Saved, Refused
  <2> QED
    BY <2>1, FS_Subset
<1> QED
  BY <1>1, <1>2, <1>3 DEF ApiOps

-----------------------------------------------------------------------------
(* The invariant                                                             *)

Steps(todo) == {todo[i] : i \in DOMAIN todo}

\* A request has one change on the users, or changes of other files only.
TodoOK(todo) ==
    /\ todo \in Seq(Steps(todo))
    /\ todo # <<>>
    /\ \A in \in Steps(todo) : Sensible(in)
    /\ Len(todo) = 1 \/ \A in \in Steps(todo) : in.op \notin UserOps

UsesUsers(q) == Head(q.todo).op \in UserOps
Waiting(q) == q.at \in {"session", "policy", "load"} /\ UsesUsers(q)
Saving(q) == q.at = "save" /\ UsesUsers(q)

RequestLine(q) ==
    q \in [at : {"idle", "session", "policy", "load", "save"}, no : {q.no}, who : {q.who}, route : {q.route},
           roles : {q.roles}, todo : {q.todo}, next : {q.next}]

\* A request knows what it has to do, and what it is about to write is good.
Sound(q, n) ==
    /\ RequestLine(q)
    /\ q.at # "idle" => q.no \in 1..n /\ TodoOK(q.todo)
    /\ q.at = "save" => Good(FileOf(Head(q.todo).op), q.next)
    /\ Saving(q) => Drawn(q.next) \subseteq 0..n

\* No list of users names a request that has yet to add its user.
Unseen(q, rows) == Waiting(q) => q.no \notin Drawn(rows)
Apart(q, p) ==
    /\ q.at # "idle" /\ p.at # "idle" => q.no # p.no
    /\ Saving(p) => Unseen(q, p.next)

Files == {"users", "roles", "policies", "menus", "apis", "ignores"}
DiskInv ==
    /\ disk \in [users : {disk.users}, roles : {disk.roles}, policies : {disk.policies},
                 menus : {disk.menus}, apis : {disk.apis}, ignores : {disk.ignores}]
    /\ \A f \in Files : Good(f, disk[f])
    /\ Drawn(disk.users) \subseteq 0..served
RequestInv ==
    /\ request = [r \in Requests |-> request[r]]
    /\ \A r \in Requests : Sound(request[r], served) /\ Unseen(request[r], disk.users)
    /\ \A r, s \in Requests : r # s => Apart(request[r], request[s])
StoreInv == served \in Nat /\ DiskInv /\ RequestInv

-----------------------------------------------------------------------------
(* What the routes ask for                                                   *)

LEMMA OneChange ==
  ASSUME NEW in, Sensible(in)
  PROVE  TodoOK(<<in>>) /\ Head(<<in>>) = in
<1>1. Steps(<<in>>) = {in} /\ <<in>> \in Seq({in}) /\ Len(<<in>>) = 1 /\ Head(<<in>>) = in
  BY DEF Steps
<1> QED
  BY <1>1 DEF TodoOK

LEMMA SomeChanges ==
  ASSUME NEW S, \A in \in S : Sensible(in) /\ in.op \notin UserOps, NEW todo \in Seq(S), todo # <<>>
  PROVE  TodoOK(todo)
<1>1. Steps(todo) \subseteq S
  BY DEF Steps
<1>2. todo \in Seq(Steps(todo))
  BY DEF Steps
<1> QED
  BY <1>1, <1>2 DEF TodoOK

LEMMA Remaining ==
  ASSUME NEW todo, TodoOK(todo), Len(todo) # 1
  PROVE  TodoOK(Tail(todo)) /\ Head(Tail(todo)).op \notin UserOps
<1> DEFINE S == Steps(todo)
<1>1. \A in \in S : Sensible(in) /\ in.op \notin UserOps
  BY DEF TodoOK
<1>2. todo \in Seq(S) /\ todo # <<>> /\ Len(todo) # 1
  BY DEF TodoOK
<1> HIDE DEF S
<1>3. Tail(todo) \in Seq(S) /\ Len(Tail(todo)) \in Nat \ {0}
  BY <1>2
<1> PICK rest \in Seq(S) : rest = Tail(todo)
  BY <1>3
<1>4. Len(rest) # 0
  BY <1>3
<1>5. rest # <<>>
  BY <1>4
<1>6. Head(rest) \in S
  BY <1>5
<1> QED
  BY <1>1, <1>5, <1>6, SomeChanges

LEMMA FirstChange ==
  ASSUME NEW todo, TodoOK(todo)
  PROVE  Sensible(Head(todo))
<1>1. todo \in Seq(Steps(todo)) /\ todo # <<>>
  BY DEF TodoOK
<1>2. Head(todo) \in Steps(todo)
  BY <1>1
<1> QED
  BY <1>2 DEF TodoOK

\* A finite set is written down as a sequence.
LEMMA Listed ==
  ASSUME NEW S, IsFiniteSet(S)
  PROVE  SetToSeq(S) \in Seq(S)
<1>1. Cardinality(S) \in Nat /\ ExistsBijection(1..Cardinality(S), S)
  BY FS_CardinalityType
<1>2. \E f \in [1..Cardinality(S) -> S] : IsInjective(f)
  BY <1>1 DEF ExistsBijection, Bijection, Injection, IsInjective
<1>3. SetToSeq(S) \in [1..Cardinality(S) -> S]
  BY <1>2 DEF SetToSeq
<1> QED
  BY <1>1, <1>3

LEMMA SyncChanges ==
  ASSUME NEW plan, IsFiniteSet(plan.new), IsFiniteSet(plan.delete), NEW ignores
  PROVE  TodoOK(ApplyApiSync(plan, ignores))
<1> DEFINE N == {[op |-> "createApi", key |-> k] : k \in plan.new}
           D == {[op |-> "deleteApi", id |-> i] : i \in plan.delete}
           last == [op |-> "saveIgnores", keys |-> ignores]
           S == N \cup D \cup {last}
<1>1. IsFiniteSet(N)
  <2> DEFINE f == [k \in plan.new |-> [op |-> "createApi", key |-> k]]
  <2>1. f \in Surjection(plan.new, N)
    BY DEF Surjection
  <2> QED
    BY <2>1, FS_Surjection
<1>2. IsFiniteSet(D)
  <2> DEFINE f == [i \in plan.delete |-> [op |-> "deleteApi", id |-> i]]
  <2>1. f \in Surjection(plan.delete, D)
    BY DEF Surjection
  <2> QED
    BY <2>1, FS_Surjection
<1>3. \A in \in S : Sensible(in) /\ in.op \notin UserOps
  BY DEF Sensible, Ops, ApiOps, IgnoreOps, UserOps
<1>4. SetToSeq(N) \in Seq(N) /\ SetToSeq(D) \in Seq(D)
  BY <1>1, <1>2, Listed
<1>5. ApplyApiSync(plan, ignores) = SetToSeq(N) \o SetToSeq(D) \o <<last>>
  BY DEF ApplyApiSync
<1> HIDE DEF N, D, last
<1>6. SetToSeq(N) \in Seq(S) /\ SetToSeq(D) \in Seq(S) /\ <<last>> \in Seq(S)
  BY <1>4
<1> HIDE DEF S
<1>7. \A a, b, c \in Seq(S) : a \o b \o c \in Seq(S) /\ Len(a \o b \o c) = Len(a) + Len(b) + Len(c)
  OBVIOUS
<1>8. /\ ApplyApiSync(plan, ignores) \in Seq(S)
      /\ Len(ApplyApiSync(plan, ignores)) = Len(SetToSeq(N)) + Len(SetToSeq(D)) + 1
  BY <1>5, <1>6, <1>7
<1>9. ApplyApiSync(plan, ignores) # <<>>
  BY <1>6, <1>8
<1> QED
  BY <1>3, <1>8, <1>9, SomeChanges

\* The page offers users with their roles, and the routes ask for one change
\* on the users or for changes of other files.
LEMMA RouteAsks ==
  ASSUME DiskInv, NEW name \in Routes, NEW todo \in Route(name)
  PROVE  TodoOK(todo)
<1> USE DEF Sensible, Ops, UserOps, RoleOps, PolicyOps, MenuOps, ApiOps, IgnoreOps
<1>1. CASE name = "users"
  <2>1. \A u \in disk.users : u.roles # {}
    BY DEF DiskInv, Files, Good, GoodUsers
  <2>2. \E in : todo = <<in>> /\ Sensible(in)
    BY <1>1, <2>1 DEF Route, UsersRoute
  <2> QED
    BY <2>2, OneChange
<1>2. CASE name = "roles/users"
  <2>1. \E in : todo = <<in>> /\ Sensible(in)
    BY <1>2 DEF Route, RoleUsersRoute
  <2> QED
    BY <2>1, OneChange
<1>3. CASE name = "roles"
  <2>1. \E in : todo = <<in>> /\ Sensible(in)
    BY <1>3 DEF Route, RolesRoute
  <2> QED
    BY <2>1, OneChange
<1>4. CASE name = "roles/copy"
  <2> PICK f, r : todo = <<[op |-> "copyRole", from |-> f, id |-> r, parent |-> NoRole],
                           [op |-> "copyCasbin", from |-> f, id |-> r]>>
    BY <1>4 DEF Route, RoleCopyRoute
  <2> PICK a, b : todo = <<a, b>> /\ Sensible(a) /\ Sensible(b) /\ a.op \notin UserOps /\ b.op \notin UserOps
    OBVIOUS
  <2>1. todo \in Seq({a, b}) /\ todo # <<>>
    OBVIOUS
  <2> QED
    BY <2>1, SomeChanges
<1>5. CASE name = "menus"
  <2>1. \E in : todo = <<in>> /\ Sensible(in)
    BY <1>5 DEF Route, MenusRoute
  <2> QED
    BY <2>1, OneChange
<1>6. CASE name = "casbin"
  <2>1. \E in : todo = <<in>> /\ Sensible(in)
    BY <1>6 DEF Route, CasbinRoute
  <2> QED
    BY <2>1, OneChange
<1>7. CASE name = "apis"
  <2>1. CASE todo = ApplyApiSync(PreviewApiSync(disk.apis, disk.ignores), disk.ignores)
    <3> DEFINE plan == PreviewApiSync(disk.apis, disk.ignores)
               gone == {b \in disk.apis : b.key \notin Inventory}
    <3>1. plan.new \subseteq Inventory /\ plan.delete = {a.id : a \in gone}
      BY DEF PreviewApiSync
    <3>2. IsFiniteSet(plan.new)
      BY <3>1, InventoryAssumption, FS_Subset
    <3>3. IsFiniteSet(disk.apis)
      BY DEF DiskInv, Files, Good
    <3>4. IsFiniteSet(gone)
      BY <3>3, FS_Subset
    <3>5. IsFiniteSet(plan.delete)
      <4> DEFINE f == [a \in gone |-> a.id]
      <4>1. f \in Surjection(gone, plan.delete)
        BY <3>1 DEF Surjection
      <4> QED
        BY <3>4, <4>1, FS_Surjection
    <3> QED
      BY <2>1, <3>2, <3>5, SyncChanges
  <2>2. CASE \E in : todo = <<in>> /\ Sensible(in)
    BY <2>2, OneChange
  <2> QED
    BY <1>7, <2>1, <2>2 DEF Route, ApisRoute, ApiSyncRoute
<1> QED
  BY <1>1, <1>2, <1>3, <1>4, <1>5, <1>6, <1>7 DEF Routes

-----------------------------------------------------------------------------
(* Every step keeps the invariant                                            *)

\* Request r becomes q, while some other requests may have arrived.
LEMMA Becomes ==
  ASSUME StoreInv, NEW r \in Requests, NEW q, request' = [request EXCEPT ![r] = q],
         served' \in Nat, served <= served', DiskInv',
         Sound(q, served'), Unseen(q, disk'.users),
         \A s \in Requests \ {r} : /\ Unseen(request[s], disk'.users)
                                   /\ Apart(q, request[s]) /\ Apart(request[s], q)
  PROVE  StoreInv'
<1>1. \A s \in Requests : request'[s] = IF s = r THEN q ELSE request[s]
  BY DEF StoreInv, RequestInv
<1>2. request' = [s \in Requests |-> request'[s]]
  BY DEF StoreInv, RequestInv
<1>3. \A s \in Requests : Sound(request[s], served')
  <2> TAKE s \in Requests
  <2>1. Sound(request[s], served) /\ served \in Nat
    BY DEF StoreInv, RequestInv
  <2>2. 0..served \subseteq 0..served' /\ 1..served \subseteq 1..served'
    BY <2>1
  <2> QED
    BY <2>1, <2>2 DEF Sound
<1>4. \A s \in Requests : Sound(request'[s], served') /\ Unseen(request'[s], disk'.users)
  BY <1>1, <1>3
<1>5. \A s, t \in Requests : s # t => Apart(request'[s], request'[t])
  <2> TAKE s, t \in Requests
  <2>1. s # t => Apart(request[s], request[t])
    BY DEF StoreInv, RequestInv
  <2>2. s = r /\ t # r => Apart(q, request[t])
    OBVIOUS
  <2>3. s # r /\ t = r => Apart(request[s], q)
    OBVIOUS
  <2> QED
    BY <1>1, <2>1, <2>2, <2>3
<1>6. RequestInv'
  BY <1>2, <1>4, <1>5 DEF RequestInv
<1> QED
  BY <1>6 DEF StoreInv

LEMMA SameDisk == ASSUME StoreInv, UNCHANGED disk, served' \in Nat, served <= served' PROVE DiskInv'
<1>1. 0..served \subseteq 0..served'
  BY DEF StoreInv
<1> QED
  BY <1>1 DEF StoreInv, DiskInv

LEMMA IdleIsSound == \A n : Sound(Idle, n) /\ ~Waiting(Idle) /\ ~Saving(Idle) /\ Idle.at = "idle"
BY DEF Sound, RequestLine, Idle, Waiting, Saving

LEMMA AnswerStep ==
  ASSUME StoreInv, NEW r \in Requests, Answer(r), UNCHANGED <<disk, served>>
  PROVE  StoreInv'
<1> PICK q : q = Idle
  OBVIOUS
<1>1. Sound(q, served') /\ ~Waiting(q) /\ ~Saving(q) /\ q.at = "idle"
  BY IdleIsSound
<1>2. request' = [request EXCEPT ![r] = q] /\ served' \in Nat /\ served <= served'
  BY DEF Answer, StoreInv
<1>3. DiskInv'
  BY <1>2, SameDisk
<1>4. Unseen(q, disk'.users) /\ \A s \in Requests \ {r} : /\ Unseen(request[s], disk'.users)
                                   /\ Apart(q, request[s]) /\ Apart(request[s], q)
  BY <1>1 DEF Apart, Unseen, StoreInv, RequestInv
<1> QED
  BY <1>1, <1>2, <1>3, <1>4, Becomes

\* A new request carries a number that no user has.
LEMMA BeginStep ==
  ASSUME StoreInv, NEW r \in Requests, UNCHANGED disk, served' = served + 1,
         NEW q, RequestLine(q), q.at \in {"session", "load"}, q.no = served + 1, TodoOK(q.todo),
         request' = [request EXCEPT ![r] = q]
  PROVE  StoreInv'
<1> PICK n \in Nat : n = served /\ n + 1 \in Nat /\ n + 1 \notin 0..n /\ n + 1 \in 1..n + 1 /\ n <= n + 1
  BY DEF StoreInv
<1>1. served' = n + 1 /\ served' \in Nat /\ served <= served'
  OBVIOUS
<1>2. DiskInv'
  BY <1>1, SameDisk
<1>3. Sound(q, served')
  BY <1>1 DEF Sound, Saving
<1>4. Drawn(disk.users) \subseteq 0..n
  BY DEF StoreInv, DiskInv
<1>5. Unseen(q, disk'.users)
  BY <1>4 DEF Unseen
<1>6. ASSUME NEW s \in Requests \ {r}
      PROVE  Unseen(request[s], disk'.users) /\ Apart(q, request[s]) /\ Apart(request[s], q)
  <2>1. Sound(request[s], n) /\ Unseen(request[s], disk.users)
    BY DEF StoreInv, RequestInv
  <2>2. request[s].at # "idle" => request[s].no # q.no
    <3>1. \A i \in 1..n : i # n + 1
      OBVIOUS
    <3> QED
      BY <2>1, <3>1 DEF Sound
  <2>3. Apart(q, request[s])
    BY <2>1, <2>2 DEF Apart, Unseen, Sound
  <2>4. Apart(request[s], q)
    BY <2>2 DEF Apart, Saving
  <2> QED
    BY <2>1, <2>3, <2>4
<1> QED
  BY <1>1, <1>2, <1>3, <1>5, <1>6, Becomes

LEMMA ArriveStep ==
  ASSUME StoreInv, NEW r \in Requests, NEW who, NEW name \in Routes, Arrive(r, who, name)
  PROVE  StoreInv'
<1> PICK todo \in Route(name) :
       request' = [request EXCEPT ![r] =
              [Idle EXCEPT !.at = "session", !.no = served + 1, !.who = who, !.route = name, !.todo = todo]]
  BY DEF Arrive
<1>1. TodoOK(todo)
  BY RouteAsks DEF StoreInv
<1> PICK q : q = [Idle EXCEPT !.at = "session", !.no = served + 1, !.who = who, !.route = name, !.todo = todo]
  OBVIOUS
<1>2. RequestLine(q) /\ q.at = "session" /\ q.no = served + 1 /\ q.todo = todo
  BY DEF RequestLine, Idle
<1>3. UNCHANGED disk /\ served' = served + 1 /\ request' = [request EXCEPT ![r] = q]
  BY DEF Arrive
<1> QED
  BY <1>1, <1>2, <1>3, BeginStep

LEMMA LoginStep ==
  ASSUME StoreInv, NEW r \in Requests, NEW n, Login(r, n)
  PROVE  StoreInv'
<1> PICK in : in = [op |-> "login", name |-> n]
  OBVIOUS
<1>1. Sensible(in)
  BY DEF Sensible, Ops, UserOps
<1>2. TodoOK(<<in>>)
  BY <1>1, OneChange
<1> PICK q : q = [Idle EXCEPT !.at = "load", !.no = served + 1, !.todo = <<in>>]
  OBVIOUS
<1>3. RequestLine(q) /\ q.at = "load" /\ q.no = served + 1 /\ q.todo = <<in>>
  BY DEF RequestLine, Idle
<1>4. UNCHANGED disk /\ served' = served + 1 /\ request' = [request EXCEPT ![r] = q]
  BY DEF Login
<1> QED
  BY <1>2, <1>3, <1>4, BeginStep

\* A request that passes a check keeps its number and what it has to do.
LEMMA CheckedStep ==
  ASSUME StoreInv, NEW r \in Requests, request[r].at \in {"session", "policy"}, UNCHANGED <<disk, served>>,
         NEW q, RequestLine(q), q.at \in {"policy", "load"}, q.no = request[r].no, q.todo = request[r].todo,
         request' = [request EXCEPT ![r] = q]
  PROVE  StoreInv'
<1>1. served' \in Nat /\ served <= served'
  BY DEF StoreInv
<1>2. DiskInv'
  BY <1>1, SameDisk
<1>3. Sound(request[r], served) /\ Unseen(request[r], disk.users)
  BY DEF StoreInv, RequestInv
<1>4. Sound(q, served') /\ Unseen(q, disk'.users)
  BY <1>3 DEF Sound, Saving, Unseen, Waiting, UsesUsers
<1>5. ASSUME NEW s \in Requests \ {r}
      PROVE  Unseen(request[s], disk'.users) /\ Apart(q, request[s]) /\ Apart(request[s], q)
  <2>1. Unseen(request[s], disk.users) /\ Apart(request[r], request[s]) /\ Apart(request[s], request[r])
    BY DEF StoreInv, RequestInv
  <2> QED
    BY <2>1 DEF Apart, Unseen, Waiting, Saving, UsesUsers
<1> QED
  BY <1>1, <1>2, <1>4, <1>5, Becomes

LEMMA ResolveSessionStep ==
  ASSUME StoreInv, NEW r \in Requests, ResolveSession(r)
  PROVE  StoreInv'
<1>1. CASE Answer(r)
  BY <1>1, AnswerStep DEF ResolveSession
<1>2. CASE ~Answer(r)
  <2> PICK held : request' = [request EXCEPT ![r].at = "policy", ![r].roles = held]
    BY <1>2 DEF ResolveSession
  <2> PICK q : q = [request[r] EXCEPT !.at = "policy", !.roles = held]
    OBVIOUS
  <2>1. RequestLine(request[r])
    BY DEF StoreInv, RequestInv, Sound
  <2>2. RequestLine(q) /\ q.at = "policy" /\ q.no = request[r].no /\ q.todo = request[r].todo
    BY <2>1 DEF RequestLine
  <2>3. request' = [request EXCEPT ![r] = q] /\ UNCHANGED <<disk, served>>
    BY DEF ResolveSession
  <2>4. request[r].at = "session"
    BY DEF ResolveSession
  <2> QED
    BY <2>2, <2>3, <2>4, CheckedStep
<1> QED
  BY <1>1, <1>2

LEMMA RequireApiAccessStep ==
  ASSUME StoreInv, NEW r \in Requests, RequireApiAccess(r)
  PROVE  StoreInv'
<1>1. CASE Answer(r)
  BY <1>1, AnswerStep DEF RequireApiAccess
<1>2. CASE ~Answer(r)
  <2>1. RequestLine(request[r])
    BY DEF StoreInv, RequestInv, Sound
  <2> PICK q : q = [request[r] EXCEPT !.at = "load"]
    OBVIOUS
  <2>2. RequestLine(q) /\ q.at = "load" /\ q.no = request[r].no /\ q.todo = request[r].todo
    BY <2>1 DEF RequestLine
  <2>3. request' = [request EXCEPT ![r] = q] /\ UNCHANGED <<disk, served>> /\ request[r].at = "policy"
    BY <1>2 DEF RequireApiAccess
  <2> QED
    BY <2>2, <2>3, CheckedStep
<1> QED
  BY <1>1, <1>2

\* The list that a change leaves of a good file is good, and names no other
\* request than the one that asks for it.
LEMMA LoadedIsGood ==
  ASSUME NEW in, Sensible(in), NEW old, Good(FileOf(in.op), old), NEW no, NEW len,
         in.op \in UserOps => no \notin Drawn(old),
         NEW rows \in LocalSystemAdapter(in, old, no, <<no, len>>)
  PROVE  /\ Good(FileOf(in.op), rows)
         /\ in.op \in UserOps => Drawn(rows) \subseteq Drawn(old) \cup {no}
<1>1. CASE in.op \in UserOps
  <2>1. FileOf(in.op) = "users"
    BY <1>1 DEF FileOf, UserOps
  <2>2. GoodUsers(rows) /\ Drawn(rows) \subseteq Drawn(old) \cup {no}
    BY <1>1, <2>1, UsersChange DEF Good
  <2> QED
    BY <2>1, <2>2 DEF Good
<1>2. CASE in.op \in RoleOps
  <2>1. FileOf(in.op) = "roles" /\ in.op \notin UserOps
    BY <1>2 DEF FileOf, RoleOps, UserOps
  <2>2. GoodRoles(old)
    BY <2>1 DEF Good
  <2>3. GoodRoles(rows)
    BY <1>2, <2>2, RolesChange
  <2> QED
    BY <2>1, <2>3 DEF Good
<1>3. CASE in.op \in MenuOps
  <2>1. FileOf(in.op) = "menus" /\ in.op \notin UserOps
    BY <1>3 DEF FileOf, MenuOps, UserOps
  <2>2. GoodMenus(old)
    BY <2>1 DEF Good
  <2>3. GoodMenus(rows)
    BY <1>3, <2>2, MenusChange
  <2> QED
    BY <2>1, <2>3 DEF Good
<1>4. CASE in.op \in ApiOps
  <2>1. FileOf(in.op) = "apis" /\ in.op \notin UserOps
    BY <1>4 DEF FileOf, ApiOps, UserOps
  <2>2. IsFiniteSet(old)
    BY <2>1 DEF Good
  <2>3. IsFiniteSet(rows)
    BY <1>4, <2>2, ApisChange
  <2> QED
    BY <2>1, <2>3 DEF Good
<1>5. CASE in.op \in PolicyOps \cup IgnoreOps
  <2>1. FileOf(in.op) \in {"policies", "ignores"} /\ in.op \notin UserOps
    BY <1>5 DEF FileOf, PolicyOps, IgnoreOps, UserOps
  <2> QED
    BY <2>1 DEF Good
<1> QED
  BY <1>1, <1>2, <1>3, <1>4, <1>5 DEF Sensible, Ops

LEMMA FileOfOp == ASSUME NEW in, Sensible(in)
  PROVE FileOf(in.op) \in Files /\ (in.op \in UserOps <=> FileOf(in.op) = "users")
BY DEF FileOf, Files, Sensible, Ops, UserOps, RoleOps, PolicyOps, MenuOps, ApiOps, IgnoreOps

LEMMA LoadStep ==
  ASSUME StoreInv, NEW r \in Requests, Load(r)
  PROVE  StoreInv'
<1>1. CASE Answer(r)
  BY <1>1, AnswerStep DEF Load
<1>2. CASE ~Answer(r)
  <2> PICK now : now = request[r]
    OBVIOUS
  <2> PICK in : in = Head(now.todo)
    OBVIOUS
  <2>1. now.at = "load" /\ Sound(now, served) /\ Unseen(now, disk.users)
    BY DEF StoreInv, RequestInv, Load
  <2>2. Sensible(in) /\ now.no \in 1..served
    BY <2>1, FirstChange DEF Sound
  <2> PICK old : old = disk[FileOf(in.op)]
    OBVIOUS
  <2>3. Good(FileOf(in.op), old) /\ (in.op \in UserOps => old = disk.users)
    BY <2>2, FileOfOp DEF StoreInv, DiskInv
  <2> PICK len : len = Len(now.todo)
    OBVIOUS
  <2> PICK rows \in LocalSystemAdapter(in, old, now.no, <<now.no, len>>) :
         request' = [request EXCEPT ![r].at = "save", ![r].next = rows]
    BY <1>2 DEF Load
  <2>4. in.op \in UserOps => now.no \notin Drawn(old)
    BY <2>1, <2>3 DEF Unseen, Waiting, UsesUsers
  <2>5. /\ Good(FileOf(in.op), rows)
        /\ in.op \in UserOps => Drawn(rows) \subseteq Drawn(disk.users) \cup {now.no}
    <3>1. /\ Good(FileOf(in.op), rows)
          /\ in.op \in UserOps => Drawn(rows) \subseteq Drawn(old) \cup {now.no}
      <4>1. Sensible(in) /\ Good(FileOf(in.op), old) /\ rows \in LocalSystemAdapter(in, old, now.no, <<now.no, len>>)
        BY <2>2, <2>3
      <4> QED
        BY <2>4, <4>1, LoadedIsGood
    <3> QED
      BY <2>3, <3>1
  <2> PICK q : q = [now EXCEPT !.at = "save", !.next = rows]
    OBVIOUS
  <2>6. RequestLine(q) /\ q.at = "save" /\ q.no = now.no /\ q.todo = now.todo /\ q.next = rows
    BY <2>1 DEF RequestLine, Sound
  <2>7. request' = [request EXCEPT ![r] = q] /\ UNCHANGED <<disk, served>>
    BY DEF Load
  <2>8. served' \in Nat /\ served <= served' /\ 1..served \subseteq 0..served
    BY <2>7 DEF StoreInv
  <2>9. DiskInv'
    BY <2>7, <2>8, SameDisk
  <2>10. Saving(q) <=> in.op \in UserOps
    BY <2>6 DEF Saving, UsesUsers
  <2>11. Drawn(disk.users) \subseteq 0..served
    BY DEF StoreInv, DiskInv
  <2>12. Saving(q) => Drawn(q.next) \subseteq 0..served
    BY <2>2, <2>5, <2>6, <2>8, <2>10, <2>11
  <2>13. Sound(q, served')
    BY <2>1, <2>5, <2>6, <2>7, <2>12 DEF Sound
  <2>14. ~Waiting(q) /\ Unseen(q, disk'.users)
    BY <2>6 DEF Unseen, Waiting
  <2>15. ASSUME NEW s \in Requests \ {r}
         PROVE  Unseen(request[s], disk'.users) /\ Apart(q, request[s]) /\ Apart(request[s], q)
    <3>1. Unseen(request[s], disk.users) /\ Apart(now, request[s]) /\ Apart(request[s], now)
      BY DEF StoreInv, RequestInv
    <3>2. Apart(q, request[s])
      BY <2>1, <2>6, <2>14, <3>1 DEF Apart, Unseen
    <3>3. Waiting(request[s]) => request[s].no # now.no
      BY <2>1, <3>1 DEF Apart, Waiting
    <3>4. Saving(q) => Unseen(request[s], q.next)
      BY <2>5, <2>6, <2>10, <3>1, <3>3 DEF Unseen
    <3>5. Apart(request[s], q)
      BY <2>1, <2>6, <3>1, <3>4 DEF Apart
    <3> QED
      BY <2>7, <3>1, <3>2, <3>5
  <2> QED
    BY <2>7, <2>8, <2>9, <2>13, <2>14, <2>15, Becomes
<1> QED
  BY <1>1, <1>2

\* The file that is replaced becomes the good list; a request on the users has
\* done its work then.
LEMMA WriteJsonFileStep ==
  ASSUME StoreInv, NEW r \in Requests, WriteJsonFile(r)
  PROVE  StoreInv'
<1> PICK now : now = request[r]
  OBVIOUS
<1> PICK file : file = FileOf(Head(now.todo).op)
  OBVIOUS
<1>1. now.at = "save" /\ Sound(now, served) /\ TodoOK(now.todo)
  BY DEF StoreInv, RequestInv, WriteJsonFile, Sound
<1>2. Sensible(Head(now.todo))
  BY <1>1, FirstChange
<1>3. file \in Files /\ (UsesUsers(now) <=> file = "users")
  BY <1>2, FileOfOp DEF UsesUsers
<1>4. disk' = [disk EXCEPT ![file] = now.next] /\ served' = served
  BY DEF WriteJsonFile
<1>5. /\ disk' \in [users : {disk'.users}, roles : {disk'.roles}, policies : {disk'.policies},
                    menus : {disk'.menus}, apis : {disk'.apis}, ignores : {disk'.ignores}]
      /\ \A f \in Files : disk'[f] = IF f = file THEN now.next ELSE disk[f]
      /\ disk'.users = IF file = "users" THEN now.next ELSE disk.users
  BY <1>3, <1>4 DEF StoreInv, DiskInv, Files
<1>6. Good(file, now.next) /\ (Saving(now) => Drawn(now.next) \subseteq 0..served)
  BY <1>1 DEF Sound
<1>7. Saving(now) <=> file = "users"
  BY <1>1, <1>3 DEF Saving
<1>8. \A f \in Files : Good(f, disk'[f])
  BY <1>5, <1>6 DEF StoreInv, DiskInv
<1>9. Drawn(disk'.users) \subseteq 0..served'
  BY <1>4, <1>5, <1>6, <1>7 DEF StoreInv, DiskInv
<1>10. DiskInv'
  BY <1>5, <1>8, <1>9 DEF DiskInv
<1>11. served' \in Nat /\ served <= served'
  BY <1>4 DEF StoreInv
<1>12. ASSUME NEW s \in Requests \ {r} PROVE Unseen(request[s], disk'.users)
  <2>1. Unseen(request[s], disk.users) /\ Apart(request[s], now)
    BY DEF StoreInv, RequestInv
  <2> QED
    BY <1>5, <1>7, <2>1 DEF Apart
<1>13. CASE Answer(r)
  <2> PICK q : q = Idle
    OBVIOUS
  <2>1. Sound(q, served') /\ ~Waiting(q) /\ ~Saving(q) /\ q.at = "idle"
    BY IdleIsSound
  <2>2. request' = [request EXCEPT ![r] = q]
    BY <1>13 DEF Answer
  <2>3. Unseen(q, disk'.users) /\ \A s \in Requests \ {r} : Apart(q, request[s]) /\ Apart(request[s], q)
    BY <2>1 DEF Apart, Unseen
  <2> QED
    BY <1>10, <1>11, <1>12, <2>1, <2>2, <2>3, Becomes
<1>14. CASE ~Answer(r)
  <2>1. Len(now.todo) # 1 /\ request' = [request EXCEPT ![r].at = "load", ![r].todo = Tail(now.todo), ![r].next = {}]
    BY <1>14 DEF WriteJsonFile
  <2> PICK rest : rest = Tail(now.todo) /\ TodoOK(rest) /\ Head(rest).op \notin UserOps
    BY <1>1, <2>1, Remaining
  <2> PICK q : q = [now EXCEPT !.at = "load", !.todo = rest, !.next = {}]
    OBVIOUS
  <2>2. RequestLine(q) /\ q.at = "load" /\ q.no = now.no /\ q.todo = rest /\ q.next = {}
    BY <1>1 DEF RequestLine, Sound
  <2>3. request' = [request EXCEPT ![r] = q]
    BY <2>1
  <2>4. ~Waiting(q) /\ ~Saving(q)
    BY <2>2 DEF Waiting, Saving, UsesUsers
  <2>5. Sound(q, served')
    BY <1>1, <1>4, <2>2, <2>4 DEF Sound
  <2>6. ASSUME NEW s \in Requests \ {r}
        PROVE  Apart(q, request[s]) /\ Apart(request[s], q)
    <3>1. Apart(now, request[s]) /\ Apart(request[s], now)
      BY DEF StoreInv, RequestInv
    <3> QED
      BY <1>1, <2>2, <2>4, <3>1 DEF Apart, Unseen
  <2>7. Unseen(q, disk'.users)
    BY <2>4 DEF Unseen
  <2> QED
    BY <1>10, <1>11, <1>12, <2>3, <2>5, <2>6, <2>7, Becomes
<1> QED
  BY <1>13, <1>14

LEMMA StoreInit == Init => StoreInv
<1> SUFFICES ASSUME Init PROVE StoreInv
  OBVIOUS
<1>1. served = 0 /\ request = [r \in Requests |-> Idle]
  BY DEF Init
<1>2. RequestInv
  <2>1. \A r \in Requests : request[r] = Idle
    BY <1>1
  <2>2. Idle.at = "idle" /\ ~Waiting(Idle) /\ ~Saving(Idle) /\ Sound(Idle, served)
    BY IdleIsSound
  <2>3. request = [r \in Requests |-> request[r]]
    BY <1>1
  <2> QED
    BY <2>1, <2>2, <2>3 DEF RequestInv, Apart, Unseen
<1>3. GoodUsers(disk.users) /\ Drawn(disk.users) \subseteq 0..served
  <2> PICK a, b :
        /\ a = [id |-> <<0, 1>>, name |-> Admin, active |-> TRUE, legacy |-> FALSE, roles |-> {Super}]
        /\ b = [id |-> <<0, 2>>, name |-> "bob", active |-> TRUE, legacy |-> TRUE, roles |-> {"editor"}]
    OBVIOUS
  <2>1. disk.users = {a, b}
    BY DEF Init
  <2>2. UserLine(a) /\ UserLine(b)
    BY DEF UserLine
  <2>3. /\ a.name = Admin /\ b.name = "bob" /\ a.roles = {Super} /\ b.roles = {"editor"}
        /\ a.id = <<0, 1>> /\ b.id = <<0, 2>>
    OBVIOUS
  <2>4. a.id[1] = 0 /\ b.id[1] = 0 /\ a.id # b.id /\ a.name # b.name
    BY <2>3 DEF Admin
  <2>5. Drawn(disk.users) \subseteq 0..served
    BY <1>1, <2>1, <2>4 DEF Drawn
  <2> QED
    BY <2>1, <2>2, <2>3, <2>4, <2>5 DEF GoodUsers
<1>4. GoodRoles(disk.roles)
  <2> PICK a, b :
        /\ a = [id |-> Super, parent |-> NoRole, locked |-> TRUE, menus |-> {1, 2}, granted |-> 0]
        /\ b = [id |-> "editor", parent |-> NoRole, locked |-> FALSE, menus |-> {2}, granted |-> 0]
    OBVIOUS
  <2>1. disk.roles = {a, b}
    BY DEF Init
  <2>2. RoleLine(a) /\ RoleLine(b)
    BY DEF RoleLine
  <2>3. a.id = Super /\ a.locked /\ a.id # b.id
    BY DEF Super
  <2> QED
    BY <2>1, <2>2, <2>3 DEF GoodRoles
<1>5. GoodMenus(disk.menus)
  <2>1. \A m \in disk.menus : m.id <= 2
    BY DEF Init
  <2> QED
    BY <2>1 DEF Init, GoodMenus, MenuLine
<1>6. IsFiniteSet(disk.apis)
  BY FS_Singleton DEF Init
<1>7. disk \in [users : {disk.users}, roles : {disk.roles}, policies : {disk.policies},
                menus : {disk.menus}, apis : {disk.apis}, ignores : {disk.ignores}]
  BY DEF Init
<1>8. \A f \in Files : Good(f, disk[f])
  BY <1>3, <1>4, <1>5, <1>6 DEF Files, Good
<1> QED
  BY <1>1, <1>2, <1>3, <1>7, <1>8 DEF StoreInv, DiskInv

LEMMA StoreStep == StoreInv /\ [Next]_vars => StoreInv'
<1> SUFFICES ASSUME StoreInv, [Next]_vars PROVE StoreInv'
  OBVIOUS
<1>1. ASSUME NEW r \in Requests, NEW who \in Ids(disk.users), NEW name \in Routes, Arrive(r, who, name)
      PROVE  StoreInv'
  BY <1>1, ArriveStep
<1>2. ASSUME NEW r \in Requests, NEW u \in disk.users, Login(r, u.name) PROVE StoreInv'
  BY <1>2, LoginStep
<1>3. ASSUME NEW r \in Requests, ResolveSession(r) PROVE StoreInv'
  BY <1>3, ResolveSessionStep
<1>4. ASSUME NEW r \in Requests, RequireApiAccess(r) PROVE StoreInv'
  BY <1>4, RequireApiAccessStep
<1>5. ASSUME NEW r \in Requests, Load(r) PROVE StoreInv'
  BY <1>5, LoadStep
<1>6. ASSUME NEW r \in Requests, WriteJsonFile(r) PROVE StoreInv'
  BY <1>6, WriteJsonFileStep
<1>7. ASSUME NEW r \in Requests, Abandon(r) PROVE StoreInv'
  BY <1>7, AnswerStep DEF Abandon
<1>8. CASE UNCHANGED vars
  BY <1>8 DEF vars, StoreInv, DiskInv, RequestInv
<1> QED
  BY <1>1, <1>2, <1>3, <1>4, <1>5, <1>6, <1>7, <1>8 DEF Next

\* Whatever the interleaving of loads and saves, every file keeps what its
\* repository promises, for any number of requests and any inventory.
THEOREM StoreTheorem == Spec => []StoreIntact
<1>1. StoreInv => StoreIntact
  BY DEF StoreInv, DiskInv, Files, Good, GoodUsers, GoodRoles, GoodMenus, StoreIntact, Unique
<1>2. Spec => []StoreInv
  BY StoreInit, StoreStep, PTL DEF Spec
<1> QED
  BY <1>1, <1>2, PTL

-----------------------------------------------------------------------------
(* Projects                                                                  *)

Rows == [id : ProjectIds, code : Codes, no : Nat]
Asked ==
    [op : {"none"}]
    \cup [op : {"create"}, code : Codes, no : Nat]
    \cup [op : {"update"}, id : ProjectIds, code : Codes, no : Nat]
    \cup [op : {"delete"}, id : ProjectIds]
    \cup [op : {"page"}, page : Nat \ {0}]
    \cup [op : {"page"}, page : Nat \ {0}, rows : Nat]
Lists == [at : {"none", "started", "read", "cached"}, rows : SUBSET Rows, late : BOOLEAN,
          untold : BOOLEAN]
Places == {"idle", "read", "code", "write", "invalidate", "select", "paged"}
Changes == {"create", "update", "delete"}

ProjectTypeOK ==
    /\ database \in BOOLEAN
    /\ store \in SUBSET Rows /\ IsFiniteSet(store)
    /\ cache \in Lists /\ (cache = NoList \/ cache.at = "cached")
    /\ inFlight \in Lists
    /\ call \in [Callers -> [at : Places, in : Asked, next : SUBSET Rows, total : Nat, moved : BOOLEAN]]
    /\ adrift \subseteq {in \in Asked : in.op \in Changes}
    /\ calls \in Nat

\* A call that is about to write carries a change and, with a file, the list
\* it will write, which has been checked; before that it carries no list.
UniqueRows(rows) == \A p, q \in rows : (p.id = q.id \/ p.code = q.code) => p = q
WriteInv ==
    \A c \in Callers :
        /\ call[c].at \in {"read", "code"} => call[c].next = {}
        /\ call[c].at = "code" => call[c].in.op = "update"
        /\ call[c].at = "write" =>
               call[c].in.op \in Changes /\ UniqueRows(call[c].next) /\ IsFiniteSet(call[c].next)
UniqueInv == UniqueRows(store) /\ WriteInv

\* A list that has been read is the stored one until a write is finished, and
\* from the write until it is finished a call is about to clear the cache.
Invalidating == \E c \in Callers : call[c].at = "invalidate"
ReadInv == inFlight.at = "read" => inFlight.rows = store \/ inFlight.late \/ inFlight.untold \/ Invalidating
FreshInv == CacheIsFresh /\ ReadInv

\* What a page was counted on.
CountInv ==
    \A c \in Callers :
        /\ call[c].at \in {"select", "paged"} => call[c].in.op = "page"
        /\ call[c].at = "select" =>
               IsFiniteSet(call[c].next) /\ call[c].total = Cardinality(call[c].next)
PageInv == CountInv /\ PageHasRows

----------------------------------------------------------------------------
(* The lists that the repository works out.                                *)

LEMMA CreateKeepsUnique ==
  ASSUME NEW rows, UniqueRows(rows), IsFiniteSet(rows), NEW in, in.op = "create",
         NEW next \in CreateProject(rows, in)
  PROVE  UniqueRows(next) /\ IsFiniteSet(next)
<1> DEFINE project == NormalizeProjectDraft(in)
<1>1. /\ next = rows \cup {project}
      /\ \A p \in rows : p.id # project.id /\ p.code # project.code
  BY DEF CreateProject
<1>2. UniqueRows(next)
  BY <1>1 DEF UniqueRows
<1> QED BY <1>1, <1>2, FS_AddElement

LEMMA UpdateKeepsUnique ==
  ASSUME NEW rows, UniqueRows(rows), IsFiniteSet(rows), NEW in, in.op = "update",
         NEW next \in UpdateProject(rows, in)
  PROVE  UniqueRows(next) /\ IsFiniteSet(next)
<1> DEFINE project == NormalizeProjectDraft(in)
           others == rows \ WithId(rows, in.id)
<1>1. /\ next = others \cup {project}
      /\ OtherWithCode(rows, in.id, in.code) = {}
  BY DEF UpdateProject
<1>2. project.id = in.id /\ project.code = in.code
  BY DEF NormalizeProjectDraft, Project
<1>3. \A p \in others : p \in rows /\ p.id # project.id /\ p.code # project.code
  BY <1>1, <1>2 DEF WithId, OtherWithCode
<1>4. UniqueRows(next)
  <2> HIDE DEF project, others
  <2> QED BY <1>1, <1>3 DEF UniqueRows
<1>5. IsFiniteSet(next)
  BY <1>1, FS_Difference, FS_AddElement
<1> QED BY <1>4, <1>5

LEMMA DeleteKeepsUnique ==
  ASSUME NEW rows, UniqueRows(rows), IsFiniteSet(rows), NEW in,
         NEW next \in DeleteProject(rows, in)
  PROVE  UniqueRows(next) /\ IsFiniteSet(next)
<1>1. next = rows \ WithId(rows, in.id)
  BY DEF DeleteProject
<1> QED BY <1>1, FS_Difference DEF UniqueRows

LEMMA EditKeepsUnique ==
  ASSUME NEW rows, UniqueRows(rows), IsFiniteSet(rows), NEW in, in.op \in Changes,
         NEW next \in Edited(rows, in)
  PROVE  UniqueRows(next) /\ IsFiniteSet(next)
BY CreateKeepsUnique, UpdateKeepsUnique, DeleteKeepsUnique DEF Edited, Changes

LEMMA EditedTypes ==
  ASSUME NEW rows \in SUBSET Rows, NEW in \in Asked, in.op \in Changes, NEW next \in Edited(rows, in)
  PROVE  next \in SUBSET Rows
<1>1. CASE in.op = "create"
  <2>1. in.code \in Codes /\ in.no \in Nat /\ SlugOf[in.code] \in ProjectIds
    BY <1>1 DEF Asked, ProjectIds
  <2>2. NormalizeProjectDraft(in) \in Rows
    BY <1>1, <2>1 DEF NormalizeProjectDraft, Project, Rows
  <2> QED BY <1>1, <2>2 DEF Edited, CreateProject
<1>2. CASE in.op = "update"
  <2>1. NormalizeProjectDraft(in) \in Rows
    BY <1>2 DEF NormalizeProjectDraft, Project, Rows, Asked
  <2> QED BY <1>2, <2>1 DEF Edited, UpdateProject
<1>3. CASE in.op = "delete"
  BY <1>3 DEF Edited, DeleteProject
<1> QED BY <1>1, <1>2, <1>3 DEF Changes

(* The page that is shown for any page asked for has rows if there are any. *)
LEMMA SafePageHasRows ==
  ASSUME NEW page \in Nat \ {0}, NEW total \in Nat
  PROVE  /\ SafePage(page, total) \in Nat \ {0}
         /\ RowsOnPage(SafePage(page, total), total) \in Nat
         /\ total > 0 => RowsOnPage(SafePage(page, total), total) > 0
<1> DEFINE pages == (total + PageSize - 1) \div PageSize
<1> USE ProjectAssumption
<1>1. /\ pages \in Nat
      /\ pages * PageSize <= total + PageSize - 1
      /\ total > 0 => pages >= 1
  OBVIOUS
<1>2. SafePage(page, total) = IF page <= pages THEN page ELSE IF pages = 0 THEN 1 ELSE pages
  BY DEF SafePage
<1> HIDE DEF pages
<1>3. SafePage(page, total) \in Nat \ {0}
  BY <1>1, <1>2
<1> DEFINE shown == SafePage(page, total)
<1>4. ASSUME total > 0 PROVE shown <= pages
  BY <1>1, <1>2, <1>4
<1> HIDE DEF shown
<1>5. (shown - 1) * PageSize \in Nat
  BY <1>3 DEF shown
<1>6. RowsOnPage(shown, total) \in Nat
  BY <1>5 DEF RowsOnPage
<1>7. ASSUME total > 0 PROVE RowsOnPage(shown, total) > 0
  <2>1. (shown - 1) * PageSize <= (pages - 1) * PageSize
    BY <1>1, <1>3, <1>4, <1>7 DEF shown
  <2>2. (pages - 1) * PageSize = pages * PageSize - PageSize
    BY <1>1
  <2>3. pages * PageSize \in Nat
    BY <1>1
  <2>4. (shown - 1) * PageSize < total
    BY <2>1, <2>2, <2>3, <1>1, <1>5
  <2> QED BY <2>4, <1>5 DEF RowsOnPage
<1> QED BY <1>3, <1>6, <1>7 DEF shown

----------------------------------------------------------------------------
(* Types.                                                                  *)

LEMMA TypeInit == ProjectInit => ProjectTypeOK
<1> SUFFICES ASSUME ProjectInit PROVE ProjectTypeOK
  OBVIOUS
<1>1. PICK code \in Codes : store = {Project(SlugOf[code], code, 0)}
  BY DEF ProjectInit
<1>2. Project(SlugOf[code], code, 0) \in Rows
  BY DEF Project, Rows, ProjectIds
<1>3. store \in SUBSET Rows /\ IsFiniteSet(store)
  BY <1>1, <1>2, FS_Singleton
<1>4. NoList \in Lists
  BY DEF NoList, Lists
<1>5. NoCall \in [at : Places, in : Asked, next : SUBSET Rows, total : Nat, moved : BOOLEAN]
  BY DEF NoCall, Places, Asked
<1> QED BY <1>3, <1>4, <1>5 DEF ProjectInit, ProjectTypeOK

\* The steps of a call that neither compute a list nor a page.
LEMMA PlainCallTypes ==
  ASSUME ProjectTypeOK, NEW c \in Callers,
         \/ CreateProjectCheck(c) \/ UpdateProjectCheck(c) \/ UpdateProjectCode(c)
         \/ AnswerPage(c)
  PROVE  ProjectTypeOK'
<1>1. NoCall \in [at : Places, in : Asked, next : SUBSET Rows, total : Nat, moved : BOOLEAN]
  BY DEF NoCall, Places, Asked
<1> QED BY <1>1 DEF ProjectTypeOK, CreateProjectCheck, UpdateProjectCheck, UpdateProjectCode,
                   AnswerPage, End, Places

LEMMA ListTypes ==
  ASSUME ProjectTypeOK,
         ListProjects \/ ListProjectsRead \/ ListProjectsDone \/ ListProjectsFailed \/ CacheExpires
  PROVE  ProjectTypeOK'
<1> USE DEF ProjectTypeOK
<1>1. CASE ListProjects
  BY <1>1 DEF ListProjects, NoList, Lists
<1>2. CASE ListProjectsRead
  BY <1>2 DEF ListProjectsRead, Lists
<1>3. CASE ListProjectsDone
  <2>1. cache' \in Lists
    BY <1>3 DEF ListProjectsDone, Lists
  <2>2. inFlight' \in Lists
    BY <1>3 DEF ListProjectsDone, NoList, Lists
  <2> QED BY <1>3, <2>1, <2>2 DEF ListProjectsDone
<1>4. CASE ListProjectsFailed \/ CacheExpires
  <2>1. NoList \in Lists
    BY DEF NoList, Lists
  <2> QED BY <1>4, <2>1 DEF ListProjectsFailed, CacheExpires
<1> QED BY <1>1, <1>2, <1>3, <1>4

LEMMA BeginTypes ==
  ASSUME ProjectTypeOK, NEW c \in Callers, NEW in \in Asked, BeginCall(c, in)
  PROVE  ProjectTypeOK'
<1>1. [NoCall EXCEPT !.at = "read", !.in = in]
         \in [at : Places, in : Asked, next : SUBSET Rows, total : Nat, moved : BOOLEAN]
  BY DEF NoCall, Places
<1> QED BY <1>1 DEF ProjectTypeOK, BeginCall

LEMMA DraftTypes ==
  ASSUME ProjectTypeOK
  PROVE  /\ Drafts \subseteq Asked
         /\ \A n \in 1..3 : [op |-> "page", page |-> n] \in Asked
BY DEF ProjectTypeOK, Drafts, Asked

LEMMA WriteTypes ==
  ASSUME ProjectTypeOK, UniqueInv, NEW c \in Callers,
         \/ ReadProjectPayload(c) \/ WriteProjectPayload(c) \/ WriteRow(c)
         \/ InvalidateFullProjectListCache(c) \/ FailCall(c)
  PROVE  ProjectTypeOK'
<1>0. NoCall \in [at : Places, in : Asked, next : SUBSET Rows, total : Nat, moved : BOOLEAN]
  BY DEF NoCall, Places, Asked
<1>1. CASE ReadProjectPayload(c)
  <2>1. CASE call' = [call EXCEPT ![c] = NoCall]
    BY <1>0, <1>1, <2>1 DEF ReadProjectPayload, ProjectTypeOK
  <2>2. ASSUME NEW next \in Edited(store, call[c].in),
               call' = [call EXCEPT ![c].at = "write", ![c].next = next]
        PROVE  ProjectTypeOK'
    <3>1. call[c].in \in Asked /\ call[c].in.op \in Changes
      BY <1>1 DEF ReadProjectPayload, ProjectTypeOK, Changes
    <3>2. next \in SUBSET Rows
      BY <3>1, EditedTypes DEF ProjectTypeOK
    <3>3. UNCHANGED <<database, store, cache, inFlight, calls, adrift>>
      BY <1>1 DEF ReadProjectPayload
    <3>4. call' \in [Callers -> [at : Places, in : Asked, next : SUBSET Rows, total : Nat, moved : BOOLEAN]]
      BY <2>2, <3>2 DEF ProjectTypeOK, Places
    <3> QED BY <3>3, <3>4 DEF ProjectTypeOK
  <2> QED BY <1>1, <2>1, <2>2 DEF ReadProjectPayload, End
<1>2. CASE WriteProjectPayload(c)
  BY <1>2 DEF WriteProjectPayload, ProjectTypeOK, UniqueInv, WriteInv, Places
<1>3. CASE WriteRow(c)
  <2>1. call[c].in \in Asked /\ call[c].in.op \in Changes
    BY <1>3 DEF WriteRow, Writing, ProjectTypeOK, UniqueInv, WriteInv, Changes
  <2>2. CASE End(c) /\ UNCHANGED store
    BY <1>0, <1>3, <2>2 DEF WriteRow, ProjectTypeOK, End
  <2>3. CASE store' \in Edited(store, call[c].in) /\ call' = [call EXCEPT ![c].at = "invalidate"]
    <3>1. store' \in SUBSET Rows
      BY <2>1, <2>3, EditedTypes DEF ProjectTypeOK
    <3>2. IsFiniteSet(store')
      BY <2>1, <2>3, EditKeepsUnique DEF ProjectTypeOK, UniqueInv
    <3> QED BY <1>3, <2>3, <3>1, <3>2 DEF WriteRow, ProjectTypeOK, Places
  <2> QED BY <1>3, <2>2, <2>3 DEF WriteRow
<1>4. CASE InvalidateFullProjectListCache(c)
  BY <1>0, <1>4 DEF InvalidateFullProjectListCache, ProjectTypeOK, End, NoList, Lists
<1>5. CASE FailCall(c)
  <2>1. call[c].in \in Asked /\ (Writing(c) => call[c].in.op \in Changes)
    BY DEF ProjectTypeOK, UniqueInv, WriteInv, Writing, Changes
  <2>2. adrift' \subseteq {in \in Asked : in.op \in Changes}
    BY <1>5, <2>1 DEF FailCall, ProjectTypeOK
  <2>3. call' \in [Callers -> [at : Places, in : Asked, next : SUBSET Rows, total : Nat, moved : BOOLEAN]]
    BY <1>0, <1>5 DEF FailCall, End, ProjectTypeOK
  <2> QED BY <1>5, <2>2, <2>3 DEF FailCall, ProjectTypeOK
<1> QED BY <1>1, <1>2, <1>3, <1>4, <1>5

\* A list that is told of no write, and no list.
LEMMA UntoldList ==
  /\ \A l \in Lists :
        /\ Untold(l) \in Lists /\ Untold(l).at = l.at
        /\ l.at \in {"read", "cached"} => Untold(l).untold
  /\ Untold(NoList) = NoList
<1>1. Untold(NoList) = NoList
  <2> DEFINE b == NoList.at \in {"read", "cached"}
  <2>1. Untold(NoList) = [NoList EXCEPT !.untold = b]
    BY DEF Untold
  <2>2. b = FALSE
    BY DEF NoList
  <2> HIDE DEF b
  <2> QED BY <2>1, <2>2 DEF NoList
<1>2. ASSUME NEW l \in Lists
      PROVE  /\ Untold(l) \in Lists /\ Untold(l).at = l.at
             /\ l.at \in {"read", "cached"} => Untold(l).untold
  <2> DEFINE b == l.at \in {"read", "cached"}
  <2>1. Untold(l) = [l EXCEPT !.untold = b] /\ b \in BOOLEAN
    BY DEF Untold
  <2>2. [l EXCEPT !.untold = b].untold = b
    BY DEF Lists
  <2> HIDE DEF b
  <2>3. [l EXCEPT !.untold = b] \in Lists /\ [l EXCEPT !.untold = b].at = l.at
    BY <2>1 DEF Lists
  <2> QED BY <2>1, <2>2, <2>3 DEF b
<1> QED BY <1>1, <1>2

\* A statement that runs after its call is over.
LEMMA StrayTypes ==
  ASSUME ProjectTypeOK, UniqueInv, NEW in \in adrift, StrayWrite(in)
  PROVE  ProjectTypeOK'
<1>1. in \in Asked /\ in.op \in Changes
  BY DEF ProjectTypeOK
<1>2. store' \in SUBSET Rows /\ IsFiniteSet(store')
  <2>1. store' \in Edited(store, in)
    BY DEF StrayWrite
  <2> QED BY <1>1, <2>1, EditedTypes, EditKeepsUnique DEF ProjectTypeOK, UniqueInv
<1>3. cache' \in Lists /\ inFlight' \in Lists /\ (cache' = NoList \/ cache'.at = "cached")
  BY UntoldList DEF StrayWrite, ProjectTypeOK
<1>4. adrift' \subseteq {x \in Asked : x.op \in Changes}
  BY DEF StrayWrite, ProjectTypeOK
<1> QED BY <1>2, <1>3, <1>4 DEF StrayWrite, ProjectTypeOK

LEMMA PageTypes ==
  ASSUME ProjectTypeOK, CountInv, NEW c \in Callers, CountSummaries(c) \/ SelectSummaries(c)
  PROVE  ProjectTypeOK'
<1>1. CASE CountSummaries(c)
  <2>1. Cardinality(store) \in Nat
    BY FS_CardinalityType DEF ProjectTypeOK
  <2>2. UNCHANGED <<database, store, cache, inFlight, calls, adrift>>
    BY <1>1 DEF CountSummaries
  <2>3. [call[c] EXCEPT !.at = "select", !.total = Cardinality(store), !.next = store]
           \in [at : Places, in : Asked, next : SUBSET Rows, total : Nat, moved : BOOLEAN]
    BY <2>1 DEF ProjectTypeOK, Places
  <2> QED BY <1>1, <2>2, <2>3 DEF CountSummaries, ProjectTypeOK
<1>2. CASE SelectSummaries(c)
  <2> DEFINE from == IF database THEN store ELSE call[c].next
             page == SafePage(call[c].in.page, call[c].total)
             answer == [op |-> "page", page |-> page, rows |-> RowsOnPage(page, Cardinality(from))]
             moved == from # call[c].next
             new == [call[c] EXCEPT !.at = "paged", !.next = {}, !.moved = moved, !.in = answer]
  <2>1. /\ call[c].in.page \in Nat \ {0} /\ call[c].total \in Nat
        /\ IsFiniteSet(from)
    BY <1>2 DEF SelectSummaries, ProjectTypeOK, CountInv, Asked
  <2>2. page \in Nat \ {0}
    BY <2>1, SafePageHasRows
  <2>3. Cardinality(from) \in Nat
    BY <2>1, FS_CardinalityType
  <2>4. RowsOnPage(page, Cardinality(from)) \in Nat
    <3> HIDE DEF page, from
    <3>1. (page - 1) * PageSize \in Nat
      BY <2>2, ProjectAssumption
    <3> QED BY <2>3, <3>1, ProjectAssumption DEF RowsOnPage
  <2>5. answer \in Asked
    BY <2>2, <2>4 DEF Asked
  <2>6. call' = [call EXCEPT ![c] = new]
    BY <1>2 DEF SelectSummaries
  <2>7. UNCHANGED <<database, store, cache, inFlight, calls, adrift>>
    BY <1>2 DEF SelectSummaries
  <2>8. moved \in BOOLEAN
    OBVIOUS
  <2> HIDE DEF answer, from, page, moved
  <2>9. new \in [at : Places, in : Asked, next : SUBSET Rows, total : Nat, moved : BOOLEAN]
    <3>1. call[c] \in [at : Places, in : Asked, next : SUBSET Rows, total : Nat, moved : BOOLEAN]
      BY DEF ProjectTypeOK
    <3> QED BY <2>5, <2>8, <3>1 DEF Places
  <2> HIDE DEF new
  <2> QED BY <2>6, <2>7, <2>9 DEF ProjectTypeOK
<1> QED BY <1>1, <1>2

----------------------------------------------------------------------------
(* Projects stay unique.                                                   *)

LEMMA UniqueInit == ProjectInit => UniqueInv
BY DEF ProjectInit, UniqueInv, UniqueRows, WriteInv, NoCall

\* Steps that leave the store alone and bring no call nearer to its write.
LEMMA UniqueKept ==
  ASSUME UniqueInv, UNCHANGED store,
         \A c \in Callers : call'[c].at \in {"read", "code", "write"} => call'[c] = call[c]
  PROVE  UniqueInv'
BY DEF UniqueInv, UniqueRows, WriteInv

LEMMA UniqueStep == ProjectTypeOK /\ UniqueInv /\ [ProjectNext]_projectVars => UniqueInv'
<1> SUFFICES ASSUME ProjectTypeOK, UniqueInv, [ProjectNext]_projectVars PROVE UniqueInv'
  OBVIOUS
<1>1. CASE ListProjects \/ ListProjectsRead \/ ListProjectsDone \/ ListProjectsFailed \/ CacheExpires
           \/ UNCHANGED projectVars
  BY <1>1, UniqueKept DEF ListProjects, ListProjectsRead, ListProjectsDone, ListProjectsFailed, CacheExpires,
                         projectVars
<1>2. ASSUME NEW c \in Callers, NEW in, BeginCall(c, in) PROVE UniqueInv'
  BY <1>2 DEF BeginCall, NoCall, ProjectTypeOK, UniqueInv, UniqueRows, WriteInv
<1>3. ASSUME NEW c \in Callers,
             \/ FailCall(c) \/ AnswerPage(c) \/ CountSummaries(c) \/ InvalidateFullProjectListCache(c)
      PROVE  UniqueInv'
  <2>1. UNCHANGED store
    BY <1>3 DEF FailCall, AnswerPage, CountSummaries, InvalidateFullProjectListCache
  <2>2. /\ call'[c].at \in {"idle", "select"}
        /\ \A d \in Callers \ {c} : call'[d] = call[d]
    <3>1. CASE CountSummaries(c)
      BY <3>1 DEF CountSummaries, ProjectTypeOK
    <3>2. CASE End(c)
      BY <3>2 DEF End, NoCall, ProjectTypeOK
    <3> QED BY <1>3, <3>1, <3>2 DEF FailCall, AnswerPage, InvalidateFullProjectListCache
  <2> QED BY <2>1, <2>2, UniqueKept
<1>4. ASSUME NEW c \in Callers, SelectSummaries(c) PROVE UniqueInv'
  <2>1. UNCHANGED store
    BY <1>4 DEF SelectSummaries
  <2>2. /\ \A d \in Callers \ {c} : call'[d] = call[d]
        /\ call'[c].at = "paged"
    BY <1>4 DEF SelectSummaries, ProjectTypeOK
  <2> QED BY <2>1, <2>2, UniqueKept
<1>5. ASSUME NEW c \in Callers, CreateProjectCheck(c) \/ UpdateProjectCheck(c) \/ UpdateProjectCode(c)
      PROVE  UniqueInv'
  <2>1. UNCHANGED store
    BY <1>5 DEF CreateProjectCheck, UpdateProjectCheck, UpdateProjectCode
  <2>2. CASE End(c)
    BY <2>1, <2>2, UniqueKept DEF End, NoCall, ProjectTypeOK
  <2>3. CASE call' = [call EXCEPT ![c].at = "code"] /\ UpdateProjectCheck(c)
    BY <2>1, <2>3 DEF UpdateProjectCheck, UniqueInv, UniqueRows, WriteInv, ProjectTypeOK
  <2>4. CASE call' = [call EXCEPT ![c].at = "write"] /\ (CreateProjectCheck(c) \/ UpdateProjectCode(c))
    <3>1. call[c].in.op \in Changes /\ call[c].next = {}
      BY <2>4 DEF CreateProjectCheck, UpdateProjectCode, UniqueInv, WriteInv, Changes
    <3>2. UniqueRows({}) /\ IsFiniteSet({})
      BY FS_EmptySet DEF UniqueRows
    <3>3. /\ call'[c].at = "write" /\ call'[c].in = call[c].in /\ call'[c].next = {}
          /\ \A d \in Callers \ {c} : call'[d] = call[d]
      BY <2>4, <3>1 DEF ProjectTypeOK
    <3> QED BY <2>1, <3>1, <3>2, <3>3 DEF UniqueInv, UniqueRows, WriteInv
  <2> QED BY <1>5, <2>2, <2>3, <2>4 DEF CreateProjectCheck, UpdateProjectCheck, UpdateProjectCode
<1>6. ASSUME NEW c \in Callers, ReadProjectPayload(c) PROVE UniqueInv'
  <2>1. CASE End(c)
    BY <1>6, <2>1, UniqueKept DEF ReadProjectPayload, End, NoCall, ProjectTypeOK
  <2>2. ASSUME NEW next \in Edited(store, call[c].in),
               call' = [call EXCEPT ![c].at = "write", ![c].next = next]
        PROVE  UniqueInv'
    <3>1. call[c].in.op \in Changes
      BY <1>6 DEF ReadProjectPayload, Changes
    <3>2. UniqueRows(next) /\ IsFiniteSet(next)
      BY <3>1, EditKeepsUnique DEF UniqueInv, ProjectTypeOK
    <3>3. UniqueRows(store)'
      BY <1>6 DEF ReadProjectPayload, UniqueInv, UniqueRows
    <3>4. /\ call'[c].at = "write" /\ call'[c].in = call[c].in /\ call'[c].next = next
          /\ \A d \in Callers \ {c} : call'[d] = call[d]
      BY <2>2 DEF ProjectTypeOK
    <3>5. WriteInv'
      <4> SUFFICES ASSUME NEW d \in Callers
                   PROVE  /\ call'[d].at \in {"read", "code"} => call'[d].next = {}
                          /\ call'[d].at = "code" => call'[d].in.op = "update"
                          /\ call'[d].at = "write" => /\ call'[d].in.op \in Changes
                                                     /\ UniqueRows(call'[d].next)
                                                     /\ IsFiniteSet(call'[d].next)
        BY DEF WriteInv, UniqueRows
      <4>1. CASE d = c
        BY <3>1, <3>2, <3>4, <4>1
      <4>2. CASE d # c
        BY <3>4, <4>2 DEF UniqueInv, WriteInv
      <4> QED BY <4>1, <4>2
    <3> QED BY <3>3, <3>5 DEF UniqueInv
  <2> QED BY <1>6, <2>1, <2>2 DEF ReadProjectPayload
<1>7. ASSUME NEW c \in Callers, WriteProjectPayload(c) PROVE UniqueInv'
  BY <1>7 DEF WriteProjectPayload, UniqueInv, WriteInv, UniqueRows, ProjectTypeOK
<1>8. ASSUME NEW c \in Callers, WriteRow(c) PROVE UniqueInv'
  <2>1. call[c].in.op \in Changes
    BY <1>8 DEF WriteRow, Writing, UniqueInv, WriteInv, Changes
  <2>2. CASE End(c) /\ UNCHANGED store
    BY <2>2, UniqueKept DEF End, NoCall, ProjectTypeOK
  <2>3. CASE store' \in Edited(store, call[c].in) /\ call' = [call EXCEPT ![c].at = "invalidate"]
    <3>1. UniqueRows(store)'
      BY <2>1, <2>3, EditKeepsUnique DEF UniqueInv, ProjectTypeOK, UniqueRows
    <3> QED BY <2>3, <3>1 DEF UniqueInv, WriteInv, UniqueRows, ProjectTypeOK
  <2> QED BY <1>8, <2>2, <2>3 DEF WriteRow
<1>9. ASSUME NEW in \in adrift, StrayWrite(in) PROVE UniqueInv'
  <2>1. in.op \in Changes /\ store' \in Edited(store, in) /\ call' = call
    BY <1>9 DEF StrayWrite, ProjectTypeOK
  <2>2. UniqueRows(store)'
    BY <2>1, EditKeepsUnique DEF UniqueInv, ProjectTypeOK, UniqueRows
  <2> QED BY <2>1, <2>2 DEF UniqueInv, WriteInv, UniqueRows
<1> QED BY <1>1, <1>2, <1>3, <1>4, <1>5, <1>6, <1>7, <1>8, <1>9 DEF ProjectNext

----------------------------------------------------------------------------
(* Lists are stale only by overlap or after a lost answer.                 *)

\* A step of call c that neither writes nor clears the cache.
LEMMA FreshKept ==
  ASSUME ProjectTypeOK, FreshInv, NEW c \in Callers, call[c].at # "invalidate",
         \A d \in Callers \ {c} : call'[d] = call[d],
         UNCHANGED <<store, cache, inFlight>>
  PROVE  FreshInv'
<1>1. Invalidating => Invalidating'
  BY DEF Invalidating
<1> QED BY <1>1 DEF FreshInv, CacheIsFresh, ReadInv, Invalidating

LEMMA FreshStep == ProjectTypeOK /\ FreshInv /\ [ProjectNext]_projectVars => FreshInv'
<1> SUFFICES ASSUME ProjectTypeOK, FreshInv, [ProjectNext]_projectVars PROVE FreshInv'
  OBVIOUS
<1> USE DEF ProjectTypeOK
<1>1. CASE UNCHANGED projectVars
  BY <1>1 DEF projectVars, FreshInv, CacheIsFresh, ReadInv, Invalidating
<1>2. CASE ListProjects \/ ListProjectsRead \/ ListProjectsFailed
  <2>1. /\ inFlight'.at \in {"none", "started"} \/ inFlight'.rows = store
        /\ UNCHANGED <<store, cache, call>>
    <3>1. CASE ListProjects
      BY <3>1 DEF ListProjects, NoList
    <3>2. CASE ListProjectsRead
      BY <3>2 DEF ListProjectsRead, Lists
    <3>3. CASE ListProjectsFailed
      BY <3>3 DEF ListProjectsFailed, NoList
    <3> QED BY <1>2, <3>1, <3>2, <3>3
  <2> QED BY <2>1 DEF FreshInv, CacheIsFresh, ReadInv, Invalidating
<1>10. CASE CacheExpires
  BY <1>10 DEF CacheExpires, FreshInv, CacheIsFresh, ReadInv, Invalidating
<1>3. CASE ListProjectsDone
  <2>1. /\ cache'.rows = inFlight.rows /\ cache'.late = inFlight.late /\ cache'.untold = inFlight.untold
        /\ inFlight.at = "read" /\ inFlight'.at = "none"
        /\ UNCHANGED <<store, call>>
    BY <1>3 DEF ListProjectsDone, NoList, Lists
  <2> QED BY <2>1 DEF FreshInv, CacheIsFresh, ReadInv, Invalidating
<1>4. ASSUME NEW c \in Callers, NEW in, BeginCall(c, in) PROVE FreshInv'
  BY <1>4, FreshKept DEF BeginCall
<1>5. ASSUME NEW c \in Callers,
             \/ ReadProjectPayload(c) \/ CreateProjectCheck(c) \/ UpdateProjectCheck(c) \/ UpdateProjectCode(c)
             \/ FailCall(c) \/ CountSummaries(c) \/ AnswerPage(c)
      PROVE  FreshInv'
  <2>1. call[c].at # "invalidate" /\ UNCHANGED <<store, cache, inFlight>>
    BY <1>5 DEF ReadProjectPayload, CreateProjectCheck, UpdateProjectCheck, UpdateProjectCode, FailCall,
                CountSummaries, AnswerPage
  <2>2. \A d \in Callers \ {c} : call'[d] = call[d]
    BY <1>5 DEF ReadProjectPayload, CreateProjectCheck, UpdateProjectCheck, UpdateProjectCode, FailCall,
                CountSummaries, AnswerPage, End
  <2> QED BY <2>1, <2>2, FreshKept
<1>6. ASSUME NEW c \in Callers, SelectSummaries(c) PROVE FreshInv'
  BY <1>6, FreshKept DEF SelectSummaries
<1>7. ASSUME NEW c \in Callers, WriteProjectPayload(c) PROVE FreshInv'
  <2>1. call'[c].at = "invalidate"
    BY <1>7 DEF WriteProjectPayload
  <2> QED BY <2>1 DEF FreshInv, CacheIsFresh, ReadInv, Invalidating
<1>8. ASSUME NEW c \in Callers, WriteRow(c) PROVE FreshInv'
  <2>1. CASE End(c) /\ UNCHANGED store
    BY <1>8, <2>1, FreshKept DEF WriteRow, Writing, End
  <2>2. CASE call' = [call EXCEPT ![c].at = "invalidate"]
    <3>1. call'[c].at = "invalidate"
      BY <2>2
    <3> QED BY <3>1 DEF FreshInv, CacheIsFresh, ReadInv, Invalidating
  <2> QED BY <1>8, <2>1, <2>2 DEF WriteRow
<1>9. ASSUME NEW c \in Callers, InvalidateFullProjectListCache(c) PROVE FreshInv'
  <2>1. cache' = NoList
    BY <1>9 DEF InvalidateFullProjectListCache
  <2>2. inFlight'.at = inFlight.at /\ inFlight'.late = (inFlight.at # "none")
    BY <1>9 DEF InvalidateFullProjectListCache, Lists
  <2> QED BY <2>1, <2>2 DEF FreshInv, CacheIsFresh, ReadInv
<1>11. ASSUME NEW in \in adrift, StrayWrite(in) PROVE FreshInv'
  <2>1. cache \in Lists /\ inFlight \in Lists /\ cache' = Untold(cache) /\ inFlight' = Untold(inFlight)
    BY <1>11 DEF StrayWrite
  <2>2. cache = NoList \/ cache.at = "cached"
    OBVIOUS
  <2>3. cache = NoList => cache' = NoList
    BY <2>1, UntoldList
  <2>4. cache # NoList => cache'.untold
    BY <2>1, <2>2, UntoldList
  <2>5. inFlight'.at = inFlight.at /\ (inFlight.at = "read" => inFlight'.untold)
    BY <2>1, UntoldList
  <2> QED BY <2>2, <2>3, <2>4, <2>5 DEF FreshInv, CacheIsFresh, ReadInv
<1> QED BY <1>1, <1>2, <1>3, <1>4, <1>5, <1>6, <1>7, <1>8, <1>9, <1>10, <1>11 DEF ProjectNext

\* Steps after which a call that pages is where it was.
LEMMA PageKept ==
  ASSUME PageInv, \A c \in Callers : call'[c].at \in {"select", "paged"} => call'[c] = call[c]
  PROVE  PageInv'
BY DEF PageInv, CountInv, PageHasRows

LEMMA PageStep == ProjectTypeOK /\ PageInv /\ [ProjectNext]_projectVars => PageInv'
<1> SUFFICES ASSUME ProjectTypeOK, PageInv, [ProjectNext]_projectVars PROVE PageInv'
  OBVIOUS
<1> USE DEF ProjectTypeOK
<1>1. CASE UNCHANGED projectVars \/ ListProjects \/ ListProjectsRead \/ ListProjectsDone
           \/ ListProjectsFailed \/ CacheExpires \/ \E in \in adrift : StrayWrite(in)
  <2>1. UNCHANGED call
    BY <1>1 DEF projectVars, StrayWrite, ListProjects, ListProjectsRead, ListProjectsDone, ListProjectsFailed, CacheExpires
  <2> QED BY <2>1, PageKept
<1>2. ASSUME NEW c \in Callers, NEW in, BeginCall(c, in) PROVE PageInv'
  BY <1>2, PageKept DEF BeginCall, NoCall
<1>3. ASSUME NEW c \in Callers,
             \/ ReadProjectPayload(c) \/ WriteProjectPayload(c) \/ CreateProjectCheck(c)
             \/ UpdateProjectCheck(c) \/ UpdateProjectCode(c) \/ WriteRow(c)
             \/ InvalidateFullProjectListCache(c) \/ FailCall(c) \/ AnswerPage(c)
      PROVE  PageInv'
  <2>1. /\ call'[c].at \notin {"select", "paged"}
        /\ \A d \in Callers \ {c} : call'[d] = call[d]
    BY <1>3 DEF ReadProjectPayload, WriteProjectPayload, CreateProjectCheck, UpdateProjectCheck,
                UpdateProjectCode, WriteRow, InvalidateFullProjectListCache, FailCall, AnswerPage, End, NoCall
  <2> QED BY <2>1, PageKept
<1>4. ASSUME NEW c \in Callers, CountSummaries(c) PROVE PageInv'
  <2>1. /\ call'[c].at = "select" /\ call'[c].in.op = "page"
        /\ call'[c].next = store /\ call'[c].total = Cardinality(store)
        /\ \A d \in Callers \ {c} : call'[d] = call[d]
    BY <1>4 DEF CountSummaries
  <2> QED BY <2>1 DEF PageInv, CountInv, PageHasRows
<1>5. ASSUME NEW c \in Callers, SelectSummaries(c) PROVE PageInv'
  <2> DEFINE from == IF database THEN store ELSE call[c].next
             page == SafePage(call[c].in.page, call[c].total)
  <2>1. /\ call'[c].at = "paged" /\ call'[c].in.op = "page"
        /\ call'[c].in.rows = RowsOnPage(page, Cardinality(from))
        /\ call'[c].moved = (from # call[c].next)
        /\ call'[c].total = call[c].total
        /\ \A d \in Callers \ {c} : call'[d] = call[d]
    BY <1>5 DEF SelectSummaries
  <2>2. /\ call[c].in.page \in Nat \ {0} /\ call[c].total \in Nat
        /\ call[c].total = Cardinality(call[c].next)
    BY <1>5 DEF SelectSummaries, PageInv, CountInv, Asked
  <2>3. ASSUME call[c].total > 0, from = call[c].next PROVE RowsOnPage(page, Cardinality(from)) > 0
    BY <2>2, <2>3, SafePageHasRows
  <2> HIDE DEF from, page
  <2>4. call'[c].total > 0 /\ ~call'[c].moved => call'[c].in.rows > 0
    BY <2>1, <2>3
  <2> QED BY <2>1, <2>4 DEF PageInv, CountInv, PageHasRows
<1> QED BY <1>1, <1>2, <1>3, <1>4, <1>5 DEF ProjectNext

----------------------------------------------------------------------------
(* The theorems.                                                           *)

Inv == ProjectTypeOK /\ UniqueInv /\ FreshInv /\ PageInv

LEMMA InvInit == ProjectInit => Inv
<1> SUFFICES ASSUME ProjectInit PROVE Inv
  OBVIOUS
<1>1. FreshInv
  BY DEF ProjectInit, FreshInv, CacheIsFresh, ReadInv, NoList
<1>2. PageInv
  BY DEF ProjectInit, PageInv, CountInv, PageHasRows, NoCall
<1> QED BY <1>1, <1>2, TypeInit, UniqueInit DEF Inv

LEMMA TypeStep == Inv /\ [ProjectNext]_projectVars => ProjectTypeOK'
<1> SUFFICES ASSUME Inv, [ProjectNext]_projectVars PROVE ProjectTypeOK'
  OBVIOUS
<1>1. CASE UNCHANGED projectVars
  BY <1>1 DEF projectVars, Inv, ProjectTypeOK
<1>2. ASSUME NEW c \in Callers,
             \/ \E in \in Drafts : BeginCall(c, in)
             \/ \E n \in 1..3 : BeginCall(c, [op |-> "page", page |-> n])
      PROVE  ProjectTypeOK'
  BY <1>2, DraftTypes, BeginTypes DEF Inv
<1> QED BY <1>1, <1>2, PlainCallTypes, ListTypes, WriteTypes, StrayTypes, PageTypes DEF Inv, PageInv, ProjectNext

LEMMA InvHolds == ProjectSpec => []Inv
<1>1. Inv /\ [ProjectNext]_projectVars => Inv'
  BY TypeStep, UniqueStep, FreshStep, PageStep DEF Inv
<1> QED BY <1>1, InvInit, PTL DEF ProjectSpec

(* No two projects share an identifier or a code, whichever calls overlap    *)
(* and however many: a list that is written to the file was checked when it  *)
(* was worked out, and the table's keys check again.                         *)
THEOREM UniqueTheorem == ProjectSpec => []ProjectsStayUnique
<1>1. Inv => ProjectsStayUnique
  BY DEF Inv, UniqueInv, UniqueRows, ProjectsStayUnique
<1> QED BY <1>1, InvHolds, PTL

(* A cached list is stale only during a write, if its read overlapped one, or *)
(* if a statement whose answer was lost has changed the table since the read; *)
(* and no page number, page size or count gives an empty page of summaries    *)
(* unless rows went between the count and the select.                         *)
THEOREM StaleTheorem == ProjectSpec => []StaleListsAreExplained
<1>1. Inv => StaleListsAreExplained
  BY DEF Inv, FreshInv, PageInv, StaleListsAreExplained
<1> QED BY <1>1, InvHolds, PTL
-----------------------------------------------------------------------------
(* Access management: what the tables always are, what each transaction has  *)
(* read of them, and what it is about to write                               *)

RoleRows == [perms : SUBSET Permissions, locked : BOOLEAN]
Statuses == {"active", "disabled"}
UserRows == [roles : SUBSET RoleIds, perms : SUBSET Permissions, status : Statuses]

\* The columns that a statement writes in a user's row.
Columns ==
    [status : Statuses] \cup [perms : SUBSET Permissions]
    \cup [roles : SUBSET RoleIds, perms : SUBSET Permissions] \cup UserRows

Inherited(rows, ids) == UNION {rows[r].perms : r \in ids \cap DOMAIN rows}

\* A row has what its roles bring and nothing else but what was given by name.
Fits(rows, row, given) ==
    /\ Inherited(rows, row.roles) \subseteq row.perms
    /\ row.perms \subseteq Inherited(rows, row.roles) \cup given

\* The table R with a transaction's writes laid over it, and with the seeds.
RowsOf(writes, R) ==
    [r \in {x \in DOMAIN Over(writes, R) : Over(writes, R)[x] # Gone} |-> Over(writes, R)[r]]
Catalogued(R) == Over(R, Seeds)

\* What the transaction's user has then been given, and the row that it leaves.
Given(t, u, N) == N[u] \cup (IF t.in.op = "user" /\ t.in.user = u THEN t.in.extra ELSE {})
Planned(t, u, U) ==
    IF u \in DOMAIN t.userWrites THEN t.userWrites[u]
    ELSE IF u \in DOMAIN t.todo THEN Over(t.todo[u], U[u]) ELSE U[u]

SameAccess(row, other) == row.roles = other.roles /\ row.perms = other.perms

HasSeeded(t) == t.at \in {"roles", "users", "decide", "reread", "members"}
HasRoles(t) == t.at \in {"users", "decide", "reread", "members"}
HasUsers(t) == t.at \in {"decide", "reread", "members"}
AccessRequests == UserRequests \cup BatchRequests \cup RoleRequests

TxLine(t) ==
    t \in [at : {"idle", "seed", "roles", "users", "decide", "reread", "members", "revoke"}, in : {t.in},
           roleRows : {t.roleRows}, userRows : {t.userRows}, roleWrites : {t.roleWrites},
           userWrites : {t.userWrites}, todo : {t.todo}]

\* The rows that a transaction has written are what it may write.
WritesOK(t) ==
    /\ t.roleWrites \in [DOMAIN t.roleWrites -> RoleRows \cup {Gone}]
    /\ \A r \in DefaultRoles \cap DOMAIN t.roleWrites : t.roleWrites[r] = Seeds[r]
    /\ t.at \in {"roles", "users", "decide"} => DOMAIN t.roleWrites \subseteq DefaultRoles
    /\ t.at \in {"idle", "seed", "revoke"} => t.roleWrites = Nothing
    /\ t.userWrites \in [DOMAIN t.userWrites -> UserRows]
    /\ t.todo \in [DOMAIN t.todo -> Columns]
    /\ t.at # "members" => t.userWrites = Nothing /\ t.todo = Nothing
    /\ DOMAIN t.todo \cap DOMAIN t.userWrites = {}

\* What a transaction has read is what is there.
ReadsOK(t, R, U) ==
    /\ t.at \notin {"idle", "revoke"} => t.in \in AccessRequests
    /\ HasSeeded(t) => DefaultRoles \subseteq DOMAIN R \cup DOMAIN t.roleWrites
    /\ t.roleRows = IF HasRoles(t) THEN Catalogued(R) ELSE Nothing
    /\ HasUsers(t) =>
          /\ t.userRows \in [UserIds -> UserRows]
          /\ \A u \in UserIds : SameAccess(t.userRows[u], U[u])

\* What it is about to do leaves every user with what his roles bring.
RereadOK(t, rows) ==
    /\ t.in.op \in {"create", "save", "delete"}
    /\ \A r \in (DOMAIN rows \cup DOMAIN t.roleRows) \ {t.in.role} :
          r \in DOMAIN rows /\ r \in DOMAIN t.roleRows /\ rows[r] = t.roleRows[r]
    /\ t.in.op = "delete" => t.in.role \notin DOMAIN rows
MembersOK(t, rows, U, N) ==
    /\ \A u \in UserIds : Fits(rows, Planned(t, u, U), Given(t, u, N))
    /\ t.in.op = "status" =>
          /\ \A u \in DOMAIN t.userWrites : SameAccess(t.userWrites[u], U[u])
          /\ t.todo \in [DOMAIN t.todo -> [status : Statuses]]
    /\ DOMAIN t.todo \subseteq UserIds /\ DOMAIN t.userWrites \subseteq UserIds
WorkOK(t, R, U, N) ==
    /\ t.at = "reread" => RereadOK(t, RowsOf(t.roleWrites, R))
    /\ t.at = "members" => MembersOK(t, RowsOf(t.roleWrites, R), U, N)

TxOK(t, R, U, N) == TxLine(t) /\ WritesOK(t) /\ ReadsOK(t, R, U) /\ WorkOK(t, R, U, N)

RolesOK(R) ==
    /\ R \in [DOMAIN R -> RoleRows]
    /\ \A r \in DefaultRoles \cap DOMAIN R : R[r] = Seeds[r]
TablesOK(R, U, N) ==
    /\ RolesOK(R)
    /\ U \in [UserIds -> UserRows]
    /\ N \in [UserIds -> SUBSET Permissions]
    /\ \A u \in UserIds : Fits(Catalogued(R), U[u], N[u])

\* Until two changes of access overlap.
AccessInv ==
    /\ raced \in BOOLEAN
    /\ raced \/ /\ TablesOK(roles, users, named)
                /\ tx = [c \in Admins |-> tx[c]]
                /\ \A c \in Admins : TxOK(tx[c], roles, users, named)

-----------------------------------------------------------------------------
(* Rows laid over rows                                                       *)

LEMMA NoRows == DOMAIN Nothing = {} /\ \A S : Nothing \in [{} -> S]
<1>1. DOMAIN Nothing = {}
  BY DEF Nothing
<1>2. \A S : Nothing \in [{} -> S]
  <2>1. Nothing = [x \in 1 .. 0 |-> x]
    BY DEF Nothing
  <2> QED
    BY <2>1
<1> QED
  BY <1>1, <1>2

LEMMA SeedRow ==
  /\ DOMAIN Seeds = DefaultRoles /\ DefaultRoles \subseteq RoleIds /\ DefaultRoles # {}
  /\ \A r \in DefaultRoles : Seeds[r] \in RoleRows /\ Seeds[r].locked = TRUE
BY AccessAssumption DEF Seeds, RoleRow, RoleRows

LEMMA NotGone == \A row \in RoleRows : row # Gone
BY DEF RoleRows, Gone

LEMMA LaidOver ==
  ASSUME NEW f, NEW g
  PROVE  /\ DOMAIN Over(f, g) = DOMAIN f \cup DOMAIN g
         /\ \A x \in DOMAIN f : Over(f, g)[x] = f[x]
         /\ \A x \in DOMAIN g \ DOMAIN f : Over(f, g)[x] = g[x]
BY DEF Over

LEMMA CataloguedRows ==
  ASSUME NEW R, RolesOK(R)
  PROVE  /\ DOMAIN Catalogued(R) = DOMAIN R \cup DefaultRoles
         /\ Catalogued(R) \in [DOMAIN R \cup DefaultRoles -> RoleRows]
         /\ \A r \in DOMAIN R : Catalogued(R)[r] = R[r]
         /\ \A r \in DefaultRoles : Catalogued(R)[r] = Seeds[r]
         /\ Catalogued(R) # Nothing
<1>1. /\ DOMAIN Catalogued(R) = DOMAIN R \cup DefaultRoles
      /\ \A r \in DOMAIN R : Catalogued(R)[r] = R[r]
      /\ \A r \in DefaultRoles \ DOMAIN R : Catalogued(R)[r] = Seeds[r]
  BY SeedRow, LaidOver DEF Catalogued
<1>2. \A r \in DefaultRoles : Catalogued(R)[r] = Seeds[r]
  BY <1>1 DEF RolesOK
<1>3. Catalogued(R) \in [DOMAIN R \cup DefaultRoles -> RoleRows]
  <2>1. Catalogued(R) = [x \in DOMAIN R \cup DefaultRoles |-> Catalogued(R)[x]]
    BY SeedRow DEF Catalogued, Over
  <2>2. \A x \in DOMAIN R \cup DefaultRoles : Catalogued(R)[x] \in RoleRows
    BY <1>1, <1>2, SeedRow DEF RolesOK
  <2> QED
    BY <2>1, <2>2
<1> QED
  BY <1>1, <1>2, <1>3, NoRows, SeedRow

LEMMA RowsSeen ==
  ASSUME NEW w, NEW R
  PROVE  /\ RowsOf(w, R) = [r \in DOMAIN RowsOf(w, R) |-> RowsOf(w, R)[r]]
         /\ \A r : r \in DOMAIN RowsOf(w, R) <=>
               \/ r \in DOMAIN w /\ w[r] # Gone
               \/ r \in DOMAIN R \ DOMAIN w /\ R[r] # Gone
         /\ \A r \in DOMAIN RowsOf(w, R) :
               RowsOf(w, R)[r] = IF r \in DOMAIN w THEN w[r] ELSE R[r]
<1> PICK f : f = Over(w, R)
  OBVIOUS
<1>1. /\ DOMAIN f = DOMAIN w \cup DOMAIN R
      /\ \A x \in DOMAIN w : f[x] = w[x]
      /\ \A x \in DOMAIN R \ DOMAIN w : f[x] = R[x]
  BY DEF Over
<1>2. RowsOf(w, R) = [r \in {x \in DOMAIN f : f[x] # Gone} |-> f[r]]
  BY DEF RowsOf
<1> QED
  BY <1>1, <1>2

\* A transaction that has written nothing but seeds sees the catalogued roles.
LEMMA SeedsOnly ==
  ASSUME NEW w, NEW R, RolesOK(R), DOMAIN w \subseteq DefaultRoles,
         \A r \in DOMAIN w : w[r] = Seeds[r], DefaultRoles \subseteq DOMAIN R \cup DOMAIN w
  PROVE  RowsOf(w, R) = Catalogued(R)
<1> PICK f, g : f = RowsOf(w, R) /\ g = Catalogued(R)
  OBVIOUS
<1>1. /\ DOMAIN g = DOMAIN R \cup DefaultRoles
      /\ g = [r \in DOMAIN g |-> g[r]]
      /\ \A r \in DOMAIN R : g[r] = R[r]
      /\ \A r \in DefaultRoles : g[r] = Seeds[r]
  BY CataloguedRows
<1>2. /\ f = [r \in DOMAIN f |-> f[r]]
      /\ \A r : r \in DOMAIN f <=> \/ r \in DOMAIN w /\ w[r] # Gone
                                   \/ r \in DOMAIN R \ DOMAIN w /\ R[r] # Gone
      /\ \A r \in DOMAIN f : f[r] = IF r \in DOMAIN w THEN w[r] ELSE R[r]
  BY RowsSeen
<1>3. /\ \A r \in DOMAIN w : w[r] # Gone
      /\ \A r \in DOMAIN R : R[r] # Gone
  BY SeedRow, NotGone DEF RolesOK
<1>4. DOMAIN f = DOMAIN g
  BY <1>1, <1>2, <1>3
<1>5. \A r \in DOMAIN f : f[r] = g[r]
  BY <1>1, <1>2, <1>4
<1> QED
  BY <1>1, <1>2, <1>4, <1>5

LEMMA InheritedOf ==
  ASSUME NEW rows, NEW ids, NEW p
  PROVE  p \in Inherited(rows, ids) <=> \E r \in ids \cap DOMAIN rows : p \in rows[r].perms
BY DEF Inherited

LEMMA CollectedAre ==
  ASSUME NEW rows, NEW userRows, NEW ids
  PROVE  CollectPermissionsForRoles(ids, BuildRoleCatalog(rows, userRows)) = Inherited(rows, ids)
<1> PICK cat : cat = BuildRoleCatalog(rows, userRows)
  OBVIOUS
<1>1. /\ DOMAIN rows \subseteq DOMAIN cat
      /\ \A r \in DOMAIN rows : cat[r].perms = rows[r].perms
      /\ \A r \in DOMAIN cat \ DOMAIN rows : cat[r].perms = {}
  BY DEF BuildRoleCatalog, Over
<1> QED
  BY <1>1 DEF Inherited, CollectPermissionsForRoles

LEMMA CollectedOfEnsured ==
  ASSUME NEW rows, NEW userRows, NEW ids
  PROVE  CollectPermissionsForRoles(ids, EnsureCatalogForRoleIds(BuildRoleCatalog(rows, userRows), ids))
             = Inherited(rows, ids)
<1> PICK cat : cat = BuildRoleCatalog(rows, userRows)
  OBVIOUS
<1>1. /\ DOMAIN rows \subseteq DOMAIN cat
      /\ \A r \in DOMAIN rows : cat[r].perms = rows[r].perms
      /\ \A r \in DOMAIN cat \ DOMAIN rows : cat[r].perms = {}
  BY DEF BuildRoleCatalog, Over
<1> PICK ens : ens = EnsureCatalogForRoleIds(cat, ids)
  OBVIOUS
<1>2. /\ DOMAIN cat \subseteq DOMAIN ens
      /\ \A r \in DOMAIN cat : ens[r] = cat[r]
      /\ \A r \in DOMAIN ens \ DOMAIN cat : ens[r].perms = {}
  BY DEF EnsureCatalogForRoleIds, Over
<1>3. /\ DOMAIN rows \subseteq DOMAIN ens
      /\ \A r \in DOMAIN rows : ens[r].perms = rows[r].perms
      /\ \A r \in DOMAIN ens \ DOMAIN rows : ens[r].perms = {}
  BY <1>1, <1>2
<1> QED
  BY <1>3 DEF Inherited, CollectPermissionsForRoles

-----------------------------------------------------------------------------
(* The statements of a transaction; t is before it and s after it            *)

LEMMA OpsOf ==
  ASSUME NEW in \in AccessRequests
  PROVE  /\ in.op \in {"user", "status", "assign", "remove", "create", "save", "delete"}
         /\ in.op = "user" => /\ in.user \in UserIds /\ in.roles \subseteq RoleIds
                              /\ in.extra \subseteq Permissions /\ in.status = "active"
         /\ in.op = "status" => in.users = UserIds /\ in.status = "disabled"
         /\ in.op \in {"assign", "remove"} => in.users = UserIds /\ in.role \in RoleIds
         /\ in.op \in {"create", "save", "delete"} => in.role \in RoleIds
         /\ in.op \in {"create", "save"} => in.perms \subseteq Permissions
<1>1. \A b \in Bundles : b \subseteq Permissions
  BY DEF Bundles
<1>2. CASE in \in UserRequests
  <2> PICK u \in UserIds, rs \in {{}} \cup {{r} : r \in RoleIds}, ps \in Bundles :
        in = [op |-> "user", user |-> u, roles |-> rs, extra |-> ps, status |-> "active"]
    BY <1>2 DEF UserRequests
  <2>1. rs \subseteq RoleIds /\ ps \subseteq Permissions
    BY <1>1
  <2> QED
    BY <2>1
<1>3. CASE in \in BatchRequests
  BY <1>3 DEF BatchRequests
<1>4. CASE in \in RoleRequests
  BY <1>1, <1>4 DEF RoleRequests
<1> QED
  BY <1>2, <1>3, <1>4 DEF AccessRequests

LEMMA BeginKeeps ==
  ASSUME NEW R, NEW U, NEW N, NEW in, NEW at \in {"seed", "revoke", "idle"}, at = "seed" => in \in AccessRequests,
         NEW s, s = [Closed EXCEPT !.in = in, !.at = at]
  PROVE  TxOK(s, R, U, N)
<1>1. /\ TxLine(s) /\ s.at = at /\ s.in = in /\ s.roleRows = Nothing /\ s.roleWrites = Nothing
      /\ s.userWrites = Nothing /\ s.todo = Nothing
  BY DEF Closed, TxLine
<1>2. WritesOK(s)
  BY <1>1, NoRows DEF WritesOK
<1>3. ReadsOK(s, R, U) /\ WorkOK(s, R, U, N)
  BY <1>1 DEF ReadsOK, WorkOK, HasSeeded, HasRoles, HasUsers
<1> QED
  BY <1>1, <1>2, <1>3 DEF TxOK

LEMMA SeedKeeps ==
  ASSUME NEW R, NEW U, NEW N, TablesOK(R, U, N), NEW t, TxOK(t, R, U, N), t.at = "seed",
         NEW missing, missing = DefaultRoles \ DOMAIN RowsOf(t.roleWrites, R),
         NEW s, s = [t EXCEPT !.at = "roles", !.roleWrites = Over([r \in missing |-> Seeds[r]], t.roleWrites)]
  PROVE  TxOK(s, R, U, N)
<1> PICK w : w = Over([r \in missing |-> Seeds[r]], t.roleWrites)
  OBVIOUS
<1>1. /\ TxLine(s) /\ s.at = "roles" /\ s.in = t.in /\ s.roleRows = t.roleRows /\ s.roleWrites = w
      /\ s.userWrites = t.userWrites /\ s.todo = t.todo /\ s.userRows = t.userRows
  BY DEF TxLine, TxOK
<1>2. t.roleWrites = Nothing /\ DOMAIN t.roleWrites = {}
  BY NoRows DEF TxOK, WritesOK
<1>3. w = [r \in missing |-> Seeds[r]] /\ DOMAIN w = missing
  BY <1>2 DEF Over
<1>4. missing = DefaultRoles \ DOMAIN R
  <2>1. \A r \in DOMAIN R : R[r] # Gone
    BY NotGone DEF TablesOK, RolesOK
  <2>2. \A r : r \in DOMAIN RowsOf(t.roleWrites, R) <=> r \in DOMAIN R
    BY <1>2, <2>1, RowsSeen
  <2> QED
    BY <2>2
<1>5. WritesOK(s)
  <2>1. WritesOK(t)
    BY DEF TxOK
  <2>2. w \in [DOMAIN w -> RoleRows \cup {Gone}] /\ DOMAIN w \subseteq DefaultRoles
    BY <1>3, <1>4, SeedRow
  <2>3. \A r \in DefaultRoles \cap DOMAIN w : w[r] = Seeds[r]
    BY <1>3
  <2> QED
    BY <1>1, <2>1, <2>2, <2>3 DEF WritesOK
<1>6. ReadsOK(s, R, U) /\ WorkOK(s, R, U, N)
  BY <1>1, <1>3, <1>4 DEF ReadsOK, WorkOK, HasSeeded, HasRoles, HasUsers, TxOK
<1> QED
  BY <1>1, <1>5, <1>6 DEF TxOK

LEMMA ReadRolesKeeps ==
  ASSUME NEW R, NEW U, NEW N, TablesOK(R, U, N), NEW t, TxOK(t, R, U, N), t.at = "roles",
         NEW s, s = [t EXCEPT !.at = "users", !.roleRows = RowsOf(t.roleWrites, R)]
  PROVE  TxOK(s, R, U, N)
<1>1. /\ TxLine(s) /\ s.at = "users" /\ s.in = t.in /\ s.roleRows = RowsOf(t.roleWrites, R)
      /\ s.roleWrites = t.roleWrites /\ s.userWrites = t.userWrites /\ s.todo = t.todo /\ s.userRows = t.userRows
  BY DEF TxLine, TxOK
<1>2. RowsOf(t.roleWrites, R) = Catalogued(R)
  <2>1. /\ RolesOK(R) /\ DOMAIN t.roleWrites \subseteq DefaultRoles
        /\ \A r \in DOMAIN t.roleWrites : t.roleWrites[r] = Seeds[r]
        /\ DefaultRoles \subseteq DOMAIN R \cup DOMAIN t.roleWrites
    BY DEF TablesOK, TxOK, WritesOK, ReadsOK, HasSeeded
  <2> QED
    BY <2>1, SeedsOnly
<1>3. WritesOK(s)
  <2>1. WritesOK(t)
    BY DEF TxOK
  <2> QED
    BY <1>1, <2>1 DEF WritesOK
<1>4. ReadsOK(s, R, U) /\ WorkOK(s, R, U, N)
  BY <1>1, <1>2 DEF ReadsOK, WorkOK, HasSeeded, HasRoles, HasUsers, TxOK
<1> QED
  BY <1>1, <1>3, <1>4 DEF TxOK

LEMMA ReadUsersKeeps ==
  ASSUME NEW R, NEW U, NEW N, TablesOK(R, U, N), NEW t, TxOK(t, R, U, N), t.at = "users",
         NEW s, s = [t EXCEPT !.at = "decide", !.userRows = Over(t.userWrites, U)]
  PROVE  TxOK(s, R, U, N)
<1>1. /\ TxLine(s) /\ s.at = "decide" /\ s.in = t.in /\ s.roleRows = t.roleRows
      /\ s.roleWrites = t.roleWrites /\ s.userWrites = t.userWrites /\ s.todo = t.todo
      /\ s.userRows = Over(t.userWrites, U)
  BY DEF TxLine, TxOK
<1>2. Over(t.userWrites, U) = U
  <2>1. DOMAIN t.userWrites = {} /\ U = [u \in DOMAIN U |-> U[u]]
    BY NoRows DEF TxOK, WritesOK, TablesOK
  <2> QED
    BY <2>1 DEF Over
<1>3. WritesOK(s)
  BY <1>1 DEF WritesOK, TxOK
<1>4. ReadsOK(s, R, U) /\ WorkOK(s, R, U, N)
  BY <1>1, <1>2 DEF ReadsOK, WorkOK, HasSeeded, HasRoles, HasUsers, TxOK, TablesOK, SameAccess
<1> QED
  BY <1>1, <1>3, <1>4 DEF TxOK

\* What a transaction that has read everything knows.
Knowing(t, R, U) ==
    /\ t.in \in AccessRequests
    /\ RowsOf(t.roleWrites, R) = Catalogued(R) \/ t.at # "decide"
    /\ t.roleRows = Catalogued(R)
    /\ t.userRows \in [UserIds -> UserRows]
    /\ \A u \in UserIds : SameAccess(t.userRows[u], U[u])
    /\ DefaultRoles \subseteq DOMAIN R \cup DOMAIN t.roleWrites

LEMMA KnowingIs ==
  ASSUME NEW R, NEW U, NEW N, TablesOK(R, U, N), NEW t, TxOK(t, R, U, N), HasUsers(t)
  PROVE  Knowing(t, R, U)
<1>1. WritesOK(t) /\ ReadsOK(t, R, U) /\ RolesOK(R) /\ t.at \in {"decide", "reread", "members"}
  BY DEF TxOK, TablesOK, HasUsers
<1>2. /\ t.in \in AccessRequests /\ t.roleRows = Catalogued(R) /\ t.userRows \in [UserIds -> UserRows]
      /\ \A u \in UserIds : SameAccess(t.userRows[u], U[u])
      /\ DefaultRoles \subseteq DOMAIN R \cup DOMAIN t.roleWrites
  BY <1>1 DEF ReadsOK, HasUsers, HasRoles, HasSeeded
<1>3. ASSUME t.at = "decide" PROVE RowsOf(t.roleWrites, R) = Catalogued(R)
  <2>1. /\ DOMAIN t.roleWrites \subseteq DefaultRoles
        /\ \A r \in DOMAIN t.roleWrites : t.roleWrites[r] = Seeds[r]
    BY <1>1, <1>3 DEF WritesOK
  <2> QED
    BY <1>1, <1>2, <2>1, SeedsOnly
<1> QED
  BY <1>2, <1>3 DEF Knowing

\* What a catalog explains of a row, and what it leaves over.
LEMMA ExtraIs ==
  ASSUME NEW rows, NEW userRows, NEW row
  PROVE  Extra(row, BuildRoleCatalog(rows, userRows)) = row.perms \ Inherited(rows, row.roles)
BY CollectedAre DEF Extra

LEMMA InheritedPerms ==
  ASSUME NEW R, RolesOK(R), NEW ids
  PROVE  Inherited(Catalogued(R), ids) \subseteq Permissions
<1> PICK g : g = Catalogued(R)
  OBVIOUS
<1>1. g \in [DOMAIN R \cup DefaultRoles -> RoleRows]
  BY CataloguedRows
<1>2. \A r \in DOMAIN g : g[r].perms \subseteq Permissions
  BY <1>1 DEF RoleRows
<1> QED
  BY <1>2 DEF Inherited

\* The columns that are about to be written leave each user with what fits.
Works(t, todo, rows, U, N) ==
    /\ todo \in [DOMAIN todo -> Columns] /\ DOMAIN todo \subseteq UserIds
    /\ \A u \in UserIds : Fits(rows, IF u \in DOMAIN todo THEN Over(todo[u], U[u]) ELSE U[u], Given(t, u, N))
    /\ t.in.op = "status" => todo \in [DOMAIN todo -> [status : Statuses]]

LEMMA MembersKeep ==
  ASSUME NEW R, NEW U, NEW N, TablesOK(R, U, N), NEW t, TxOK(t, R, U, N), t.at \in {"decide", "reread"},
         NEW todo, Works(t, todo, RowsOf(t.roleWrites, R), U, N),
         NEW s, s = [t EXCEPT !.at = "members", !.todo = todo]
  PROVE  TxOK(s, R, U, N)
<1>1. /\ TxLine(s) /\ s.at = "members" /\ s.in = t.in /\ s.roleRows = t.roleRows
      /\ s.roleWrites = t.roleWrites /\ s.userWrites = t.userWrites /\ s.todo = todo
      /\ s.userRows = t.userRows
  BY DEF TxLine, TxOK
<1>2. DOMAIN t.userWrites = {}
  BY NoRows DEF TxOK, WritesOK
<1>3. WritesOK(s)
  <2>1. WritesOK(t)
    BY DEF TxOK
  <2> QED
    BY <1>1, <1>2, <2>1 DEF WritesOK, Works
<1>4. ReadsOK(s, R, U)
  BY <1>1 DEF ReadsOK, HasSeeded, HasRoles, HasUsers, TxOK
<1>5. MembersOK(s, RowsOf(t.roleWrites, R), U, N)
  <2>1. \A u : Planned(s, u, U) = IF u \in DOMAIN todo THEN Over(todo[u], U[u]) ELSE U[u]
    BY <1>1, <1>2 DEF Planned
  <2>2. \A u : Given(s, u, N) = Given(t, u, N)
    BY <1>1 DEF Given
  <2> QED
    BY <1>1, <1>2, <2>1, <2>2 DEF MembersOK, Works
<1>6. WorkOK(s, R, U, N)
  BY <1>1, <1>5 DEF WorkOK
<1> QED
  BY <1>1, <1>3, <1>4, <1>6 DEF TxOK

\* Columns that are laid over a row.
LEMMA OverRow ==
  ASSUME NEW row \in UserRows, NEW col \in Columns
  PROVE  /\ Over(col, row) \in UserRows
         /\ "roles" \in DOMAIN col => Over(col, row).roles = col.roles
         /\ "roles" \notin DOMAIN col => Over(col, row).roles = row.roles
         /\ "perms" \in DOMAIN col => Over(col, row).perms = col.perms
         /\ "perms" \notin DOMAIN col => Over(col, row).perms = row.perms
<1>1. DOMAIN row = {"roles", "perms", "status"}
  BY DEF UserRows
<1> PICK new : new = Over(col, row)
  OBVIOUS
<1>2. /\ DOMAIN new = DOMAIN col \cup {"roles", "perms", "status"}
      /\ \A x \in DOMAIN col : new[x] = col[x]
      /\ \A x \in {"roles", "perms", "status"} \ DOMAIN col : new[x] = row[x]
      /\ new = [x \in DOMAIN new |-> new[x]]
  BY <1>1 DEF Over
<1>3. CASE col \in [status : Statuses]
  <2>1. DOMAIN col = {"status"} /\ col.status \in Statuses
    BY <1>3
  <2>2. /\ DOMAIN new = {"roles", "perms", "status"} /\ new["status"] \in Statuses
        /\ new["roles"] = row["roles"] /\ new["perms"] = row["perms"]
    BY <1>2, <2>1
  <2> QED
    BY <1>2, <2>1, <2>2 DEF UserRows
<1>4. CASE col \in [perms : SUBSET Permissions]
  <2>1. DOMAIN col = {"perms"} /\ col.perms \in SUBSET Permissions
    BY <1>4
  <2>2. /\ DOMAIN new = {"roles", "perms", "status"} /\ new["status"] = row["status"]
        /\ new["roles"] = row["roles"] /\ new["perms"] = col["perms"]
    BY <1>2, <2>1
  <2> QED
    BY <1>2, <2>1, <2>2 DEF UserRows
<1>5. CASE col \in [roles : SUBSET RoleIds, perms : SUBSET Permissions]
  <2>1. DOMAIN col = {"roles", "perms"} /\ col.perms \in SUBSET Permissions /\ col.roles \in SUBSET RoleIds
    BY <1>5
  <2>2. /\ DOMAIN new = {"roles", "perms", "status"} /\ new["status"] = row["status"]
        /\ new["roles"] = col["roles"] /\ new["perms"] = col["perms"]
    BY <1>2, <2>1
  <2> QED
    BY <1>2, <2>1, <2>2 DEF UserRows
<1>6. CASE col \in UserRows
  <2>1. /\ DOMAIN col = {"roles", "perms", "status"} /\ col.perms \in SUBSET Permissions
        /\ col.roles \in SUBSET RoleIds /\ col.status \in Statuses
    BY <1>6 DEF UserRows
  <2>2. /\ DOMAIN new = {"roles", "perms", "status"} /\ new["status"] = col["status"]
        /\ new["roles"] = col["roles"] /\ new["perms"] = col["perms"]
    BY <1>2, <2>1
  <2> QED
    BY <1>2, <2>1, <2>2 DEF UserRows
<1> QED
  BY <1>3, <1>4, <1>5, <1>6 DEF Columns

\* Columns with both the roles and the permissions bring theirs.
LEMMA OverBoth ==
  ASSUME NEW row \in UserRows, NEW col \in Columns, "roles" \in DOMAIN col, "perms" \in DOMAIN col
  PROVE  Over(col, row).roles = col.roles /\ Over(col, row).perms = col.perms
BY OverRow

LEMMA UserWorks ==
  ASSUME NEW R, NEW U, NEW N, TablesOK(R, U, N), NEW t, TxOK(t, R, U, N), t.at = "decide", t.in.op = "user"
  PROVE  Works(t, UpdateManagedUser(t), RowsOf(t.roleWrites, R), U, N)
<1> PICK g, in, u : g = Catalogued(R) /\ in = t.in /\ u = t.in.user
  OBVIOUS
<1>1. Knowing(t, R, U)
  BY KnowingIs DEF HasUsers
<1>2. RowsOf(t.roleWrites, R) = g /\ t.roleRows = g /\ in \in AccessRequests
  BY <1>1 DEF Knowing
<1>3. u \in UserIds /\ in.roles \subseteq RoleIds /\ in.extra \subseteq Permissions /\ in.status = "active"
  BY <1>2, OpsOf
<1> PICK row : row = [roles |-> in.roles, status |-> in.status, perms |-> in.extra \cup Inherited(g, in.roles)]
  OBVIOUS
<1>4. UpdateManagedUser(t) = Row(u, row)
  <2>1. CollectPermissionsForRoles(in.roles, EnsureCatalogForRoleIds(Catalog(t), in.roles)) = Inherited(g, in.roles)
    BY <1>2, CollectedOfEnsured DEF Catalog
  <2> QED
    BY <2>1 DEF UpdateManagedUser
<1>5. Inherited(g, in.roles) \subseteq Permissions
  BY InheritedPerms DEF TablesOK
<1>6. row \in UserRows /\ row \in Columns
  BY <1>3, <1>5 DEF UserRows, Columns, Statuses
<1>7. U[u] \in UserRows
  BY <1>3 DEF TablesOK
<1>8. Over(row, U[u]).roles = in.roles /\ Over(row, U[u]).perms = in.extra \cup Inherited(g, in.roles)
  <2>1. "roles" \in DOMAIN row /\ "perms" \in DOMAIN row
    OBVIOUS
  <2>2. Over(row, U[u]).roles = row.roles /\ Over(row, U[u]).perms = row.perms
    BY <1>6, <1>7, <2>1, OverBoth, Zenon
  <2> QED
    BY <2>2
<1>9. Fits(g, Over(row, U[u]), Given(t, u, N))
  BY <1>8 DEF Fits, Given
<1>10. \A v \in UserIds : Fits(g, U[v], Given(t, v, N))
  BY DEF TablesOK, Fits, Given
<1>11. DOMAIN Row(u, row) = {u} /\ Row(u, row)[u] = row /\ Row(u, row) \in [{u} -> Columns]
  BY <1>6 DEF Row
<1> QED
  BY <1>2, <1>3, <1>4, <1>9, <1>10, <1>11 DEF Works

LEMMA StatusWorks ==
  ASSUME NEW R, NEW U, NEW N, TablesOK(R, U, N), NEW t, TxOK(t, R, U, N), t.at = "decide", t.in.op = "status"
  PROVE  Works(t, UpdateManagedUsersStatus(t), RowsOf(t.roleWrites, R), U, N)
<1> PICK g, in, todo : g = Catalogued(R) /\ in = t.in /\ todo = UpdateManagedUsersStatus(t)
  OBVIOUS
<1>1. Knowing(t, R, U)
  BY KnowingIs DEF HasUsers
<1>2. RowsOf(t.roleWrites, R) = g /\ t.roleRows = g /\ in \in AccessRequests
  BY <1>1 DEF Knowing
<1>3. in.users = UserIds /\ in.status = "disabled"
  BY <1>2, OpsOf
<1> PICK row : row = [status |-> in.status]
  OBVIOUS
<1>4. todo = [u \in UserIds |-> row]
  BY <1>3 DEF UpdateManagedUsersStatus
<1>5. row \in [status : Statuses] /\ row \in Columns /\ DOMAIN row = {"status"}
  BY <1>3 DEF Columns, Statuses
<1>6. \A u \in UserIds : Fits(g, Over(row, U[u]), Given(t, u, N))
  <2> TAKE u \in UserIds
  <2>1. U[u] \in UserRows /\ Fits(g, U[u], N[u])
    BY DEF TablesOK
  <2>2. Over(row, U[u]).roles = U[u].roles /\ Over(row, U[u]).perms = U[u].perms
    BY <1>5, <2>1, OverRow
  <2> QED
    BY <2>1, <2>2 DEF Fits, Given
<1>7. todo \in [DOMAIN todo -> Columns] /\ DOMAIN todo = UserIds /\ todo \in [DOMAIN todo -> [status : Statuses]]
  BY <1>4, <1>5
<1> QED
  BY <1>2, <1>4, <1>6, <1>7 DEF Works

LEMMA RolesWork ==
  ASSUME NEW R, NEW U, NEW N, TablesOK(R, U, N), NEW t, TxOK(t, R, U, N), t.at = "decide",
         t.in.op \in {"assign", "remove"}
  PROVE  Works(t, UpdateManagedUsersRoles(t), RowsOf(t.roleWrites, R), U, N)
<1> PICK g, in, rows, todo : /\ g = Catalogued(R) /\ in = t.in /\ rows = t.userRows
                             /\ todo = UpdateManagedUsersRoles(t)
  OBVIOUS
<1>1. Knowing(t, R, U)
  BY KnowingIs DEF HasUsers
<1>2. RowsOf(t.roleWrites, R) = g /\ t.roleRows = g /\ in \in AccessRequests
  BY <1>1 DEF Knowing
<1>3. in.users = UserIds /\ in.role \in RoleIds
  BY <1>2, OpsOf
<1> DEFINE After(u) == IF in.op = "assign" THEN rows[u].roles \cup {in.role} ELSE rows[u].roles \ {in.role}
           New(u) == [roles |-> After(u),
                      perms |-> Inherited(g, After(u)) \cup (rows[u].perms \ Inherited(g, rows[u].roles))]
<1>4. \A u : /\ CollectPermissionsForRoles(After(u), Catalog(t)) = Inherited(g, After(u))
             /\ Extra(rows[u], Catalog(t)) = rows[u].perms \ Inherited(g, rows[u].roles)
  BY <1>2, CollectedAre, ExtraIs DEF Catalog
<1>5. todo = [u \in {v \in in.users : After(v) # rows[v].roles} |->
                [roles |-> After(u),
                 perms |-> CollectPermissionsForRoles(After(u), Catalog(t)) \cup Extra(rows[u], Catalog(t))]]
  BY DEF UpdateManagedUsersRoles
<1> HIDE DEF After
<1>6. DOMAIN todo \subseteq UserIds /\ \A u \in DOMAIN todo : todo[u] = New(u)
  BY <1>3, <1>4, <1>5
<1>7. ASSUME NEW u \in UserIds
      PROVE  /\ New(u) \in Columns
             /\ Fits(g, Over(New(u), U[u]), Given(t, u, N))
  <2>1. U[u] \in UserRows /\ Fits(g, U[u], N[u]) /\ rows[u] \in UserRows /\ SameAccess(rows[u], U[u])
    BY <1>1 DEF TablesOK, Knowing
  <2>2. After(u) \subseteq RoleIds /\ rows[u].perms \subseteq Permissions
    BY <1>3, <2>1 DEF UserRows, After
  <2>3. Inherited(g, After(u)) \subseteq Permissions
    BY InheritedPerms DEF TablesOK
  <2> PICK new : new = New(u)
    OBVIOUS
  <2>4. new \in [roles : SUBSET RoleIds, perms : SUBSET Permissions]
    BY <2>2, <2>3
  <2>5. new \in Columns /\ DOMAIN new = {"roles", "perms"}
    BY <2>4 DEF Columns
  <2>6. Over(new, U[u]).roles = new.roles /\ Over(new, U[u]).perms = new.perms
    BY <2>1, <2>5, OverBoth
  <2>7. rows[u].perms \ Inherited(g, rows[u].roles) \subseteq N[u]
    BY <2>1 DEF SameAccess, Fits
  <2>8. /\ new.roles = After(u)
        /\ new.perms = Inherited(g, After(u)) \cup (rows[u].perms \ Inherited(g, rows[u].roles))
    OBVIOUS
  <2>9. Fits(g, Over(new, U[u]), Given(t, u, N))
    BY <2>6, <2>7, <2>8 DEF Fits, Given
  <2> QED
    BY <2>5, <2>9
<1> HIDE DEF New
<1>8. todo = [u \in DOMAIN todo |-> todo[u]]
  BY <1>5
<1>9. todo \in [DOMAIN todo -> Columns]
  BY <1>6, <1>7, <1>8
<1>10. \A u \in UserIds : Fits(g, U[u], Given(t, u, N))
  BY DEF TablesOK, Fits, Given
<1> QED
  BY <1>2, <1>6, <1>7, <1>9, <1>10 DEF Works

-----------------------------------------------------------------------------
(* A role is written, and then the users who have it                         *)

\* A locked role is never written: the default roles are in what was read.
LEMMA NotDefault ==
  ASSUME NEW R, NEW U, NEW N, TablesOK(R, U, N), NEW t, TxOK(t, R, U, N), t.at = "decide", ~Locked(t)
  PROVE  t.in.role \notin DefaultRoles
<1> PICK g, rr, cat : g = Catalogued(R) /\ rr = t.in.role /\ cat = Catalog(t)
  OBVIOUS
<1> SUFFICES ASSUME rr \in DefaultRoles PROVE FALSE
  OBVIOUS
<1>1. Knowing(t, R, U)
  BY KnowingIs DEF HasUsers
<1>2. rr \in DOMAIN g /\ g[rr] = Seeds[rr] /\ Seeds[rr].locked = TRUE
  BY CataloguedRows, SeedRow DEF TablesOK
<1>3. cat = BuildRoleCatalog(g, t.userRows)
  BY <1>1 DEF Knowing, Catalog
<1>4. rr \in DOMAIN cat /\ cat[rr].locked = g[rr].locked
  BY <1>2, <1>3 DEF BuildRoleCatalog, Over
<1> QED
  BY <1>2, <1>4 DEF Locked, Knows

LEMMA RoleKeeps ==
  ASSUME NEW R, NEW U, NEW N, TablesOK(R, U, N), NEW t, TxOK(t, R, U, N), t.at = "decide",
         t.in.op \in {"create", "save", "delete"}, ~Locked(t),
         NEW row, row \in [DOMAIN row -> RoleRows \cup {Gone}], DOMAIN row \subseteq {t.in.role},
         t.in.op = "delete" => DOMAIN row = {t.in.role} /\ row[t.in.role] = Gone,
         NEW s, s = [t EXCEPT !.at = "reread", !.roleWrites = Over(row, t.roleWrites)]
  PROVE  TxOK(s, R, U, N)
<1> PICK g, rr, w, w2 : g = Catalogued(R) /\ rr = t.in.role /\ w = t.roleWrites /\ w2 = Over(row, w)
  OBVIOUS
<1>1. /\ TxLine(s) /\ s.at = "reread" /\ s.in = t.in /\ s.roleRows = t.roleRows
      /\ s.roleWrites = w2 /\ s.userWrites = t.userWrites /\ s.todo = t.todo
      /\ s.userRows = t.userRows
  BY DEF TxLine, TxOK
<1>2. rr \notin DefaultRoles
  BY NotDefault
<1>3. Knowing(t, R, U)
  BY KnowingIs DEF HasUsers
<1>4. WritesOK(t) /\ RowsOf(w, R) = g /\ t.roleRows = g
  BY <1>3 DEF TxOK, Knowing
<1>5. /\ DOMAIN w2 = DOMAIN row \cup DOMAIN w
      /\ \A x \in DOMAIN row : w2[x] = row[x]
      /\ \A x \in DOMAIN w \ DOMAIN row : w2[x] = w[x]
      /\ w2 = [x \in DOMAIN w2 |-> w2[x]]
  BY DEF Over
<1>6. WritesOK(s)
  <2>1. w2 \in [DOMAIN w2 -> RoleRows \cup {Gone}]
    <3>1. w \in [DOMAIN w -> RoleRows \cup {Gone}]
      BY <1>4 DEF WritesOK
    <3>2. \A x \in DOMAIN w2 : w2[x] \in RoleRows \cup {Gone}
      BY <1>5, <3>1
    <3> QED
      BY <1>5, <3>2
  <2>2. \A r \in DefaultRoles \cap DOMAIN w2 : w2[r] = Seeds[r]
    BY <1>2, <1>4, <1>5 DEF WritesOK
  <2> QED
    BY <1>1, <1>4, <2>1, <2>2 DEF WritesOK
<1>7. ReadsOK(s, R, U)
  <2>1. ReadsOK(t, R, U) /\ DOMAIN w \subseteq DOMAIN w2
    BY <1>5 DEF TxOK
  <2> QED
    BY <1>1, <2>1 DEF ReadsOK, HasSeeded, HasRoles, HasUsers
<1>8. RereadOK(s, RowsOf(w2, R))
  <2> PICK f, f2 : f = RowsOf(w, R) /\ f2 = RowsOf(w2, R)
    OBVIOUS
  <2>1. /\ \A r : r \in DOMAIN f <=> \/ r \in DOMAIN w /\ w[r] # Gone
                                     \/ r \in DOMAIN R \ DOMAIN w /\ R[r] # Gone
        /\ \A r \in DOMAIN f : f[r] = IF r \in DOMAIN w THEN w[r] ELSE R[r]
    BY RowsSeen
  <2>2. /\ \A r : r \in DOMAIN f2 <=> \/ r \in DOMAIN w2 /\ w2[r] # Gone
                                      \/ r \in DOMAIN R \ DOMAIN w2 /\ R[r] # Gone
        /\ \A r \in DOMAIN f2 : f2[r] = IF r \in DOMAIN w2 THEN w2[r] ELSE R[r]
    BY RowsSeen
  <2>3. \A r : r # rr => /\ r \in DOMAIN f2 <=> r \in DOMAIN f
                         /\ r \in DOMAIN f2 => f2[r] = f[r]
    <3> TAKE r
    <3> HAVE r # rr
    <3>1. r \in DOMAIN w2 <=> r \in DOMAIN w
      BY <1>5
    <3>2. r \in DOMAIN w2 => w2[r] = w[r]
      BY <1>5
    <3>3. r \in DOMAIN f2 <=> r \in DOMAIN f
      BY <2>1, <2>2, <3>1, <3>2
    <3>4. r \in DOMAIN f2 => f2[r] = f[r]
      BY <2>1, <2>2, <3>1, <3>2, <3>3
    <3> QED
      BY <3>3, <3>4
  <2>4. t.in.op = "delete" => rr \notin DOMAIN f2
    BY <1>5, <2>2
  <2>5. f = g /\ s.roleRows = f /\ s.in.role = rr /\ s.in.op = t.in.op
    BY <1>1, <1>4
  <2>6. \A r \in (DOMAIN f2 \cup DOMAIN f) \ {rr} : r \in DOMAIN f2 /\ r \in DOMAIN f /\ f2[r] = f[r]
    BY <2>3
  <2> QED
    BY <2>4, <2>5, <2>6 DEF RereadOK
<1> QED
  BY <1>1, <1>6, <1>7, <1>8 DEF TxOK, WorkOK

LEMMA SaveRow ==
  ASSUME NEW R, NEW U, NEW N, TablesOK(R, U, N), NEW t, TxOK(t, R, U, N), t.at = "decide",
         t.in.op \in {"create", "save"}, NEW row, row = SaveManagedRoleRow(t, RowsOf(t.roleWrites, R))
  PROVE  row \in [DOMAIN row -> RoleRows \cup {Gone}] /\ DOMAIN row \subseteq {t.in.role}
<1> PICK g, rr : g = Catalogued(R) /\ rr = t.in.role
  OBVIOUS
<1>1. Knowing(t, R, U)
  BY KnowingIs DEF HasUsers
<1>2. RowsOf(t.roleWrites, R) = g /\ t.in.perms \subseteq Permissions
  BY <1>1, OpsOf DEF Knowing
<1>3. g \in [DOMAIN R \cup DefaultRoles -> RoleRows]
  BY CataloguedRows DEF TablesOK
<1>4. CASE rr \in DOMAIN g
  <2>1. row = Row(rr, [g[rr] EXCEPT !.perms = t.in.perms])
    BY <1>2, <1>4 DEF SaveManagedRoleRow
  <2>2. g[rr] \in RoleRows
    BY <1>3, <1>4
  <2>3. [g[rr] EXCEPT !.perms = t.in.perms] \in RoleRows
    BY <1>2, <2>2 DEF RoleRows
  <2> QED
    BY <2>1, <2>3 DEF Row
<1>5. CASE rr \notin DOMAIN g
  <2>1. row \in {Nothing, Row(rr, RoleRow(t.in.perms, FALSE))}
    BY <1>2, <1>5 DEF SaveManagedRoleRow
  <2>2. RoleRow(t.in.perms, FALSE) \in RoleRows
    BY <1>2 DEF RoleRow, RoleRows
  <2> QED
    BY <2>1, <2>2, NoRows DEF Row
<1> QED
  BY <1>4, <1>5

\* The roles are as they were read but for the one that was written.
LEMMA SynchronizeWorks ==
  ASSUME NEW R, NEW U, NEW N, TablesOK(R, U, N), NEW t, TxOK(t, R, U, N), t.at = "reread",
         NEW next, next = BuildRoleCatalog(RowsOf(t.roleWrites, R), t.userRows)
  PROVE  Works(t, IF t.in.op = "delete" THEN SynchronizeUsersForDeletedRole(t, next, U)
                                        ELSE SynchronizeUsersForRoleCatalog(t, next, U),
               RowsOf(t.roleWrites, R), U, N)
<1> PICK g, rr, rows, todo :
      /\ g = Catalogued(R) /\ rr = t.in.role /\ rows = RowsOf(t.roleWrites, R)
      /\ todo = IF t.in.op = "delete" THEN SynchronizeUsersForDeletedRole(t, next, U)
                                      ELSE SynchronizeUsersForRoleCatalog(t, next, U)
  OBVIOUS
<1>1. Knowing(t, R, U) /\ RereadOK(t, rows)
  BY KnowingIs DEF HasUsers, TxOK, WorkOK
<1>2. /\ t.roleRows = g /\ t.in.op \in {"create", "save", "delete"}
      /\ \A r \in (DOMAIN rows \cup DOMAIN g) \ {rr} : r \in DOMAIN rows /\ r \in DOMAIN g /\ rows[r] = g[r]
      /\ t.in.op = "delete" => rr \notin DOMAIN rows
  BY <1>1 DEF Knowing, RereadOK
\* Roles without the one that was written bring what they brought.
<1>3. ASSUME NEW ids, rr \notin ids
      PROVE  Inherited(rows, ids) = Inherited(g, ids)
  <2>1. \A r \in ids : /\ r \in DOMAIN rows <=> r \in DOMAIN g
                       /\ r \in DOMAIN rows => rows[r] = g[r]
    BY <1>2, <1>3
  <2>2. \A p : p \in Inherited(rows, ids) <=> p \in Inherited(g, ids)
    BY <2>1 DEF Inherited
  <2> QED
    BY <2>2
<1>4. /\ \A ids : CollectPermissionsForRoles(ids, next) = Inherited(rows, ids)
      /\ \A row : Extra(row, Catalog(t)) = row.perms \ Inherited(g, row.roles)
  BY <1>2, CollectedAre, ExtraIs DEF Catalog
<1>5. \A u \in UserIds : /\ U[u] \in UserRows
                         /\ Fits(g, U[u], N[u])
                         /\ Given(t, u, N) = N[u]
  BY <1>2 DEF TablesOK, Given
<1>6. \A ids : Inherited(rows, ids) \subseteq Permissions
  <2>1. WritesOK(t) /\ RolesOK(R)
    BY DEF TxOK, TablesOK
  <2>2. /\ \A x \in DOMAIN t.roleWrites : t.roleWrites[x] \in RoleRows \cup {Gone}
        /\ \A x \in DOMAIN R : R[x] \in RoleRows
    BY <2>1 DEF WritesOK, RolesOK
  <2>3. /\ \A r : r \in DOMAIN rows <=> \/ r \in DOMAIN t.roleWrites /\ t.roleWrites[r] # Gone
                                        \/ r \in DOMAIN R \ DOMAIN t.roleWrites /\ R[r] # Gone
        /\ \A r \in DOMAIN rows : rows[r] = IF r \in DOMAIN t.roleWrites THEN t.roleWrites[r] ELSE R[r]
    BY RowsSeen
  <2>4. \A r \in DOMAIN rows : rows[r] \in RoleRows
    BY <2>2, <2>3
  <2>5. \A r \in DOMAIN rows : rows[r].perms \subseteq Permissions
    BY <2>4 DEF RoleRows
  <2> QED
    BY <2>5 DEF Inherited
<1>7. CASE t.in.op = "delete"
  <2> DEFINE New(u) == [roles |-> U[u].roles \ {rr},
                        perms |-> Inherited(rows, U[u].roles \ {rr}) \cup (U[u].perms \ Inherited(g, U[u].roles))]
  <2>1. todo = [u \in {v \in UserIds : rr \in U[v].roles} |->
                  [roles |-> U[u].roles \ {rr},
                   perms |-> CollectPermissionsForRoles(U[u].roles \ {rr}, next) \cup Extra(U[u], Catalog(t))]]
    BY <1>7 DEF SynchronizeUsersForDeletedRole
  <2>2. DOMAIN todo = {v \in UserIds : rr \in U[v].roles} /\ \A u \in DOMAIN todo : todo[u] = New(u)
    <3>1. DOMAIN todo = {v \in UserIds : rr \in U[v].roles}
      BY <2>1
    <3>2. \A u \in DOMAIN todo :
             todo[u] = [roles |-> U[u].roles \ {rr},
                        perms |-> CollectPermissionsForRoles(U[u].roles \ {rr}, next) \cup Extra(U[u], Catalog(t))]
      BY <2>1, <3>1
    <3>3. \A u : /\ CollectPermissionsForRoles(U[u].roles \ {rr}, next) = Inherited(rows, U[u].roles \ {rr})
                 /\ Extra(U[u], Catalog(t)) = U[u].perms \ Inherited(g, U[u].roles)
      BY <1>4
    <3>4. \A u \in DOMAIN todo : todo[u] = New(u)
      <4> TAKE u \in DOMAIN todo
      <4> QED
        BY <3>2, <3>3
    <3> QED
      BY <3>1, <3>4
  <2>3. ASSUME NEW u \in UserIds
        PROVE  New(u) \in Columns /\ Fits(rows, Over(New(u), U[u]), Given(t, u, N))
    <3> PICK new : new = New(u)
      OBVIOUS
    <3>1. new \in [roles : SUBSET RoleIds, perms : SUBSET Permissions]
      BY <1>5, <1>6 DEF UserRows
    <3>2. new \in Columns /\ DOMAIN new = {"roles", "perms"}
      BY <3>1 DEF Columns
    <3>0. U[u] \in UserRows /\ Given(t, u, N) = N[u]
      BY <1>5
    <3>3. Over(new, U[u]).roles = new.roles /\ Over(new, U[u]).perms = new.perms
      BY <3>0, <3>2, OverBoth
    <3>4. U[u].perms \ Inherited(g, U[u].roles) \subseteq N[u]
      BY <1>5 DEF Fits
    <3>5. /\ new.roles = U[u].roles \ {rr}
          /\ new.perms = Inherited(rows, U[u].roles \ {rr}) \cup (U[u].perms \ Inherited(g, U[u].roles))
      OBVIOUS
    <3> PICK o, inh : o = Over(new, U[u]) /\ inh = Inherited(rows, U[u].roles \ {rr})
      OBVIOUS
    <3>6. o.roles = U[u].roles \ {rr} /\ o.perms = inh \cup (U[u].perms \ Inherited(g, U[u].roles))
      BY <3>3, <3>5
    <3>7. Inherited(rows, o.roles) = inh
      BY <3>6
    <3>8. Fits(rows, o, Given(t, u, N))
      <4>1. inh \subseteq o.perms
        BY <3>6
      <4>3. o.perms \subseteq inh \cup N[u]
        BY <3>4, <3>6
      <4>2. o.perms \subseteq inh \cup Given(t, u, N)
        BY <3>0, <4>3
      <4> QED
        BY <3>7, <4>1, <4>2 DEF Fits
    <3> QED
      BY <3>2, <3>8
  <2>4. \A u \in UserIds \ DOMAIN todo : Fits(rows, U[u], Given(t, u, N))
    BY <1>3, <1>5, <2>2 DEF Fits
  <2> HIDE DEF New
  <2>5. todo = [u \in DOMAIN todo |-> todo[u]]
    BY <2>1
  <2>6. todo \in [DOMAIN todo -> Columns] /\ DOMAIN todo \subseteq UserIds
    BY <2>2, <2>3, <2>5
  <2> QED
    BY <1>7, <2>2, <2>3, <2>4, <2>6 DEF Works
<1>8. CASE t.in.op # "delete"
  <2> DEFINE After(u) == Inherited(rows, U[u].roles) \cup (U[u].perms \ Inherited(g, U[u].roles))
             New(u) == [perms |-> After(u)]
  <2>1. todo = [u \in {v \in UserIds : /\ rr \in U[v].roles
                                       /\ CollectPermissionsForRoles(U[v].roles, next)
                                             \cup Extra(U[v], Catalog(t)) # U[v].perms} |->
                  [perms |-> CollectPermissionsForRoles(U[u].roles, next) \cup Extra(U[u], Catalog(t))]]
    BY <1>8 DEF SynchronizeUsersForRoleCatalog
  <2>2. /\ DOMAIN todo = {v \in UserIds : rr \in U[v].roles /\ After(v) # U[v].perms}
        /\ \A u \in DOMAIN todo : todo[u] = New(u)
    BY <1>4, <2>1
  <2>3. ASSUME NEW u \in UserIds
        PROVE  New(u) \in Columns /\ Fits(rows, Over(New(u), U[u]), Given(t, u, N))
    <3> PICK new : new = New(u)
      OBVIOUS
    <3>1. new \in [perms : SUBSET Permissions]
      BY <1>5, <1>6 DEF UserRows
    <3>2. new \in Columns /\ DOMAIN new = {"perms"}
      BY <3>1 DEF Columns
    <3>0. U[u] \in UserRows /\ Given(t, u, N) = N[u]
      BY <1>5
    <3>3. Over(new, U[u]).roles = U[u].roles /\ Over(new, U[u]).perms = new.perms
      BY <3>0, <3>2, OverRow
    <3>4. U[u].perms \ Inherited(g, U[u].roles) \subseteq N[u]
      BY <1>5 DEF Fits
    <3>5. new.perms = After(u)
      OBVIOUS
    <3> PICK inh, had, o : inh = Inherited(rows, U[u].roles) /\ had = Inherited(g, U[u].roles) /\ o = Over(new, U[u])
      OBVIOUS
    <3>7. Inherited(rows, o.roles) = inh /\ o.perms = inh \cup (U[u].perms \ had)
      BY <3>3, <3>5
    <3>8. o.perms \subseteq inh \cup N[u]
      BY <3>4, <3>7
    <3>6. Fits(rows, Over(new, U[u]), Given(t, u, N))
      <4>1. Inherited(rows, o.roles) \subseteq o.perms
        BY <3>7
      <4>2. o.perms \subseteq Inherited(rows, o.roles) \cup Given(t, u, N)
        BY <3>0, <3>7, <3>8
      <4> QED
        BY <4>1, <4>2 DEF Fits
    <3> QED
      BY <3>2, <3>6
  <2>4. \A u \in UserIds \ DOMAIN todo : Fits(rows, U[u], Given(t, u, N))
    <3> TAKE u \in UserIds \ DOMAIN todo
    <3>1. CASE rr \notin U[u].roles
      BY <1>3, <1>5, <3>1 DEF Fits
    <3>2. CASE rr \in U[u].roles
      <4>1. After(u) = U[u].perms
        BY <2>2, <3>2
      <4>2. U[u].perms \ Inherited(g, U[u].roles) \subseteq N[u]
        BY <1>5 DEF Fits
      <4> QED
        BY <1>5, <4>1, <4>2 DEF Fits
    <3> QED
      BY <3>1, <3>2
  <2> HIDE DEF New
  <2>5. todo = [u \in DOMAIN todo |-> todo[u]]
    BY <2>1
  <2>6. todo \in [DOMAIN todo -> Columns] /\ DOMAIN todo \subseteq UserIds
    BY <2>2, <2>3, <2>5
  <2>7. t.in.op # "status"
    BY <1>2
  <2> QED
    BY <2>2, <2>3, <2>4, <2>6, <2>7 DEF Works
<1> QED
  BY <1>7, <1>8

-----------------------------------------------------------------------------
(* A user's row is written, and what was written is committed                *)

Written(t, u, row) == [t EXCEPT !.userWrites = Over(Row(u, row), t.userWrites),
                                !.todo = [v \in DOMAIN t.todo \ {u} |-> t.todo[v]]]

LEMMA WriteKeeps ==
  ASSUME NEW R, NEW U, NEW N, TablesOK(R, U, N), NEW t, TxOK(t, R, U, N), t.at = "members",
         NEW u, u \in DOMAIN t.todo, NEW row, row = Over(t.todo[u], Over(t.userWrites, U)[u])
  PROVE  TxOK(Written(t, u, row), R, U, N)
<1> PICK s : s = Written(t, u, row)
  OBVIOUS
<1> PICK todo, todo2, w, w2 :
      /\ todo = t.todo /\ todo2 = [v \in DOMAIN t.todo \ {u} |-> t.todo[v]]
      /\ w = t.userWrites /\ w2 = Over(Row(u, row), t.userWrites)
  OBVIOUS
<1>1. /\ TxLine(s) /\ s.at = "members" /\ s.in = t.in /\ s.roleRows = t.roleRows
      /\ s.roleWrites = t.roleWrites /\ s.userWrites = w2 /\ s.todo = todo2 /\ s.userRows = t.userRows
  BY DEF TxLine, TxOK, Written
<1>2. WritesOK(t) /\ MembersOK(t, RowsOf(t.roleWrites, R), U, N)
  BY DEF TxOK, WorkOK
<1>3. /\ DOMAIN todo2 = DOMAIN todo \ {u} /\ \A v \in DOMAIN todo2 : todo2[v] = todo[v]
      /\ todo2 = [v \in DOMAIN todo2 |-> todo2[v]]
  OBVIOUS
<1>4. /\ DOMAIN w2 = {u} \cup DOMAIN w /\ w2[u] = row /\ \A v \in DOMAIN w \ {u} : w2[v] = w[v]
      /\ w2 = [v \in DOMAIN w2 |-> w2[v]]
  <2> PICK x : x = Row(u, row)
    OBVIOUS
  <2>1. DOMAIN x = {u} /\ x[u] = row
    BY DEF Row
  <2>2. w2 = Over(x, w)
    OBVIOUS
  <2> QED
    BY <2>1, <2>2 DEF Over
<1>5. u \notin DOMAIN w /\ u \in UserIds /\ U[u] \in UserRows /\ todo[u] \in Columns
  BY <1>2 DEF WritesOK, MembersOK, TablesOK
<1>6. row = Over(todo[u], U[u])
  <2>1. Over(w, U)[u] = U[u]
    BY <1>5 DEF Over, TablesOK
  <2> QED
    BY <2>1
<1>7. row \in UserRows
  BY <1>5, <1>6, OverRow
<1>8. WritesOK(s)
  <2>1. w2 \in [DOMAIN w2 -> UserRows]
    BY <1>2, <1>4, <1>7 DEF WritesOK
  <2>2. todo2 \in [DOMAIN todo2 -> Columns]
    BY <1>2, <1>3 DEF WritesOK
  <2>3. DOMAIN todo2 \cap DOMAIN w2 = {}
    BY <1>2, <1>3, <1>4 DEF WritesOK
  <2> QED
    BY <1>1, <1>2, <2>1, <2>2, <2>3 DEF WritesOK
<1>9. ReadsOK(s, R, U)
  BY <1>1 DEF ReadsOK, HasSeeded, HasRoles, HasUsers, TxOK
<1>10. MembersOK(s, RowsOf(t.roleWrites, R), U, N)
  <2>1. \A v \in UserIds : Planned(s, v, U) = Planned(t, v, U)
    BY <1>1, <1>3, <1>4, <1>5, <1>6 DEF Planned
  <2>2. \A v : Given(s, v, N) = Given(t, v, N)
    BY <1>1 DEF Given
  <2>3. DOMAIN todo2 \subseteq UserIds /\ DOMAIN w2 \subseteq UserIds
    BY <1>2, <1>3, <1>4, <1>5 DEF MembersOK
  <2>4. ASSUME t.in.op = "status"
        PROVE  /\ \A v \in DOMAIN w2 : SameAccess(w2[v], U[v])
               /\ todo2 \in [DOMAIN todo2 -> [status : Statuses]]
    <3>1. todo \in [DOMAIN todo -> [status : Statuses]] /\ \A v \in DOMAIN w : SameAccess(w[v], U[v])
      BY <1>2, <2>4 DEF MembersOK
    <3> PICK col : col = todo[u]
      OBVIOUS
    <3>2. DOMAIN col = {"status"}
      BY <3>1
    <3>3. Over(col, U[u]).roles = U[u].roles /\ Over(col, U[u]).perms = U[u].perms
      BY <1>5, <3>2, OverRow
    <3>4. SameAccess(row, U[u])
      BY <1>6, <3>3 DEF SameAccess
    <3> QED
      BY <1>3, <1>4, <3>1, <3>4
  <2> QED
    BY <1>1, <1>2, <2>1, <2>2, <2>3, <2>4 DEF MembersOK
<1> QED
  BY <1>1, <1>8, <1>9, <1>10 DEF TxOK, WorkOK

\* What a transaction knows still holds when others have only seeded the
\* default roles, changed no one's access and given by name.
LEMMA QuietKeeps ==
  ASSUME NEW R, NEW U, NEW N, TablesOK(R, U, N), NEW t, TxOK(t, R, U, N),
         NEW R2, R2 = Catalogued(R), NEW U2, NEW N2,
         U2 \in [UserIds -> UserRows], \A u \in UserIds : SameAccess(U2[u], U[u]),
         \A u \in UserIds : N[u] \subseteq N2[u]
  PROVE  TxOK(t, R2, U2, N2)
<1>1. /\ DOMAIN R2 = DOMAIN R \cup DefaultRoles
      /\ R2 \in [DOMAIN R \cup DefaultRoles -> RoleRows]
      /\ \A r \in DOMAIN R : R2[r] = R[r]
      /\ \A r \in DefaultRoles : R2[r] = Seeds[r]
  BY CataloguedRows DEF TablesOK
<1>2. RolesOK(R2)
  BY <1>1 DEF RolesOK
<1>3. Catalogued(R2) = R2
  BY <1>1, SeedRow DEF Catalogued, Over
<1>4. ReadsOK(t, R2, U2)
  <2>1. ReadsOK(t, R, U)
    BY DEF TxOK
  <2>2. \A u \in UserIds : SameAccess(t.userRows[u], U[u]) => SameAccess(t.userRows[u], U2[u])
    BY DEF SameAccess
  <2> QED
    BY <1>1, <1>3, <2>1, <2>2 DEF ReadsOK
<1>5. ASSUME HasSeeded(t) PROVE RowsOf(t.roleWrites, R2) = RowsOf(t.roleWrites, R)
  <2> PICK w, f, f2 : w = t.roleWrites /\ f = RowsOf(t.roleWrites, R) /\ f2 = RowsOf(t.roleWrites, R2)
    OBVIOUS
  <2>1. /\ f = [r \in DOMAIN f |-> f[r]]
        /\ \A r : r \in DOMAIN f <=> \/ r \in DOMAIN w /\ w[r] # Gone
                                     \/ r \in DOMAIN R \ DOMAIN w /\ R[r] # Gone
        /\ \A r \in DOMAIN f : f[r] = IF r \in DOMAIN w THEN w[r] ELSE R[r]
    BY RowsSeen
  <2>2. /\ f2 = [r \in DOMAIN f2 |-> f2[r]]
        /\ \A r : r \in DOMAIN f2 <=> \/ r \in DOMAIN w /\ w[r] # Gone
                                      \/ r \in DOMAIN R2 \ DOMAIN w /\ R2[r] # Gone
        /\ \A r \in DOMAIN f2 : f2[r] = IF r \in DOMAIN w THEN w[r] ELSE R2[r]
    BY RowsSeen
  <2>3. DefaultRoles \subseteq DOMAIN R \cup DOMAIN w
    BY <1>5 DEF TxOK, ReadsOK
  <2>4. DOMAIN R2 \ DOMAIN w = DOMAIN R \ DOMAIN w
    BY <1>1, <2>3
  <2>5. DOMAIN f = DOMAIN f2
    BY <1>1, <2>1, <2>2, <2>4
  <2>6. \A r \in DOMAIN f : f[r] = f2[r]
    BY <1>1, <2>1, <2>2, <2>4, <2>5
  <2> QED
    BY <2>1, <2>2, <2>5, <2>6
<1>6. ASSUME t.at = "members", NEW rows, rows = RowsOf(t.roleWrites, R), MembersOK(t, rows, U, N)
      PROVE  MembersOK(t, rows, U2, N2)
  <2>1. WritesOK(t)
    BY DEF TxOK
  <2>2. ASSUME NEW u \in UserIds PROVE Fits(rows, Planned(t, u, U2), Given(t, u, N2))
    <3> PICK p, p2 : p = Planned(t, u, U) /\ p2 = Planned(t, u, U2)
      OBVIOUS
    <3>1. Fits(rows, p, Given(t, u, N))
      BY <1>6 DEF MembersOK
    <3>2. SameAccess(p2, p)
      <4>1. CASE u \in DOMAIN t.userWrites
        BY <4>1 DEF Planned, SameAccess
      <4>2. CASE u \notin DOMAIN t.userWrites /\ u \in DOMAIN t.todo
        <5> PICK col : col = t.todo[u]
          OBVIOUS
        <5>1. U[u] \in UserRows /\ U2[u] \in UserRows /\ col \in Columns /\ SameAccess(U2[u], U[u])
          BY <2>1, <4>2 DEF TablesOK, WritesOK
        <5>2. /\ Over(col, U[u]).roles = Over(col, U2[u]).roles
              /\ Over(col, U[u]).perms = Over(col, U2[u]).perms
          BY <5>1, OverRow DEF SameAccess
        <5>3. p = Over(col, U[u]) /\ p2 = Over(col, U2[u])
          BY <4>2 DEF Planned
        <5> QED
          BY <5>2, <5>3 DEF SameAccess
      <4>3. CASE u \notin DOMAIN t.userWrites /\ u \notin DOMAIN t.todo
        BY <4>3 DEF Planned
      <4> QED
        BY <4>1, <4>2, <4>3
    <3>3. Given(t, u, N) \subseteq Given(t, u, N2)
      BY DEF Given
    <3> QED
      BY <3>1, <3>2, <3>3 DEF Fits, SameAccess
  <2>3. \A u \in UserIds : \A row : SameAccess(row, U[u]) => SameAccess(row, U2[u])
    BY DEF SameAccess
  <2> QED
    BY <1>6, <2>2, <2>3 DEF MembersOK
<1>7. WorkOK(t, R2, U2, N2)
  <2>1. WorkOK(t, R, U, N)
    BY DEF TxOK
  <2> QED
    BY <1>5, <1>6, <2>1 DEF WorkOK, HasSeeded
<1> QED
  BY <1>4, <1>7 DEF TxOK

\* The tables that a transaction leaves when everything is written.
LEMMA CommitTables ==
  ASSUME NEW R, NEW U, NEW N, TablesOK(R, U, N), NEW t, TxOK(t, R, U, N), t.at = "members", t.todo = Nothing,
         NEW R2, R2 = RowsOf(t.roleWrites, R), NEW U2, U2 = Over(t.userWrites, U),
         NEW N2, N2 = IF t.in.op = "user" THEN [N EXCEPT ![t.in.user] = @ \cup t.in.extra] ELSE N
  PROVE  TablesOK(R2, U2, N2) /\ DefaultRoles \subseteq DOMAIN R2 /\ \A u \in UserIds : N[u] \subseteq N2[u]
<1> PICK w, in : w = t.roleWrites /\ in = t.in
  OBVIOUS
<1>1. WritesOK(t) /\ MembersOK(t, R2, U, N) /\ RolesOK(R) /\ Knowing(t, R, U)
  BY KnowingIs DEF TxOK, WorkOK, TablesOK, HasUsers
<1>2. /\ R2 = [r \in DOMAIN R2 |-> R2[r]]
      /\ \A r : r \in DOMAIN R2 <=> \/ r \in DOMAIN w /\ w[r] # Gone
                                    \/ r \in DOMAIN R \ DOMAIN w /\ R[r] # Gone
      /\ \A r \in DOMAIN R2 : R2[r] = IF r \in DOMAIN w THEN w[r] ELSE R[r]
  BY RowsSeen
<1>3. /\ \A x \in DOMAIN w : w[x] \in RoleRows \cup {Gone}
      /\ \A x \in DOMAIN R : R[x] \in RoleRows
      /\ \A x \in DefaultRoles \cap DOMAIN w : w[x] = Seeds[x] /\ Seeds[x] # Gone
      /\ \A x \in DefaultRoles \cap DOMAIN R : R[x] = Seeds[x] /\ Seeds[x] # Gone
      /\ DefaultRoles \subseteq DOMAIN R \cup DOMAIN w
  BY <1>1, SeedRow, NotGone DEF WritesOK, RolesOK, Knowing
<1>4. RolesOK(R2)
  <2>1. \A r \in DOMAIN R2 : R2[r] \in RoleRows
    BY <1>2, <1>3
  <2>2. \A r \in DefaultRoles \cap DOMAIN R2 : R2[r] = Seeds[r]
    BY <1>2, <1>3
  <2> QED
    BY <1>2, <2>1, <2>2 DEF RolesOK
<1>5. DefaultRoles \subseteq DOMAIN R2
  BY <1>2, <1>3
<1>6. Catalogued(R2) = R2
  BY <1>2, <1>5, SeedRow DEF Catalogued, Over
<1>7. /\ DOMAIN U2 = UserIds /\ U2 = [u \in DOMAIN U2 |-> U2[u]]
      /\ \A u \in UserIds : U2[u] = IF u \in DOMAIN t.userWrites THEN t.userWrites[u] ELSE U[u]
  BY <1>1 DEF Over, MembersOK, TablesOK
<1>8. U2 \in [UserIds -> UserRows]
  <2>1. \A u \in UserIds : U2[u] \in UserRows
    BY <1>1, <1>7 DEF WritesOK, TablesOK
  <2> QED
    BY <1>7, <2>1
<1>9. /\ N2 \in [UserIds -> SUBSET Permissions]
      /\ \A u \in UserIds : N[u] \subseteq N2[u]
      /\ \A u \in UserIds : Given(t, u, N) \subseteq N2[u]
  <2>1. N \in [UserIds -> SUBSET Permissions]
    BY DEF TablesOK
  <2>2. CASE in.op = "user"
    <3>1. in.user \in UserIds /\ in.extra \subseteq Permissions
      BY <1>1, <2>2, OpsOf DEF Knowing
    <3> PICK gave : gave = N[in.user] \cup in.extra
      OBVIOUS
    <3>2. N2 = [N EXCEPT ![in.user] = gave] /\ gave \in SUBSET Permissions
      BY <2>1, <2>2, <3>1
    <3>3. \A u \in UserIds : Given(t, u, N) = IF u = in.user THEN gave ELSE N[u]
      BY <2>2 DEF Given
    <3> QED
      BY <2>1, <3>1, <3>2, <3>3
  <2>3. CASE in.op # "user"
    BY <2>1, <2>3 DEF Given
  <2> QED
    BY <2>2, <2>3
<1>10. \A u \in UserIds : Fits(R2, U2[u], N2[u])
  <2> TAKE u \in UserIds
  <2>1. Fits(R2, Planned(t, u, U), Given(t, u, N))
    BY <1>1 DEF MembersOK
  <2>2. Planned(t, u, U) = U2[u]
    BY <1>7, NoRows DEF Planned
  <2> QED
    BY <1>9, <2>1, <2>2 DEF Fits
<1> QED
  BY <1>4, <1>5, <1>6, <1>8, <1>9, <1>10 DEF TablesOK

\* Another transaction that has read nothing is not concerned.
LEMMA UnreadKeeps ==
  ASSUME NEW R, NEW U, NEW N, TablesOK(R, U, N), NEW t, TxOK(t, R, U, N), t.roleRows = Nothing,
         NEW R2, DefaultRoles \subseteq DOMAIN R2, NEW U2, NEW N2
  PROVE  TxOK(t, R2, U2, N2)
<1>1. Catalogued(R) # Nothing
  BY CataloguedRows DEF TablesOK
<1>2. ReadsOK(t, R, U)
  BY DEF TxOK
<1>3. ~HasRoles(t)
  BY <1>1, <1>2 DEF ReadsOK
<1>4. ReadsOK(t, R2, U2)
  BY <1>2, <1>3 DEF ReadsOK, HasRoles, HasUsers
<1>5. WorkOK(t, R2, U2, N2)
  BY <1>3 DEF WorkOK, HasRoles
<1> QED
  BY <1>4, <1>5 DEF TxOK

\* A transaction that changes no access leaves the tables as they were read.
LEMMA QuietCommit ==
  ASSUME NEW R, NEW U, NEW N, TablesOK(R, U, N), NEW t, TxOK(t, R, U, N), t.at = "members", t.todo = Nothing,
         \A r \in DOMAIN t.roleWrites : r \in DefaultRoles,
         t.in.op = "status" \/ t.userWrites = Nothing
  PROVE  /\ RowsOf(t.roleWrites, R) = Catalogued(R)
         /\ \A u \in UserIds : SameAccess(Over(t.userWrites, U)[u], U[u])
<1>1. WritesOK(t) /\ MembersOK(t, RowsOf(t.roleWrites, R), U, N) /\ RolesOK(R) /\ Knowing(t, R, U)
  BY KnowingIs DEF TxOK, WorkOK, TablesOK, HasUsers
<1>2. RowsOf(t.roleWrites, R) = Catalogued(R)
  <2>1. /\ DOMAIN t.roleWrites \subseteq DefaultRoles /\ DefaultRoles \subseteq DOMAIN R \cup DOMAIN t.roleWrites
        /\ \A r \in DOMAIN t.roleWrites : t.roleWrites[r] = Seeds[r]
    BY <1>1 DEF WritesOK, Knowing
  <2> QED
    BY <1>1, <2>1, SeedsOnly
<1>3. ASSUME NEW u \in UserIds PROVE SameAccess(Over(t.userWrites, U)[u], U[u])
  <2>1. Over(t.userWrites, U)[u] = IF u \in DOMAIN t.userWrites THEN t.userWrites[u] ELSE U[u]
    BY DEF Over, TablesOK
  <2>2. u \in DOMAIN t.userWrites => SameAccess(t.userWrites[u], U[u])
    BY <1>1, NoRows DEF MembersOK
  <2> QED
    BY <2>1, <2>2 DEF SameAccess
<1> QED
  BY <1>2, <1>3

-----------------------------------------------------------------------------
(* The invariant                                                             *)

\* When one administrator takes a step that leaves the tables alone, only his
\* transaction has to be looked at.
LEMMA OneStep ==
  ASSUME NEW c \in Admins, NEW t, tx' = [tx EXCEPT ![c] = t], UNCHANGED <<roles, users, named, raced>>,
         AccessInv, ~raced, TxOK(t, roles, users, named)
  PROVE  AccessInv'
<1>1. tx = [d \in Admins |-> tx[d]] /\ \A d \in Admins : TxOK(tx[d], roles, users, named)
  BY DEF AccessInv
<1>2. tx' = [d \in Admins |-> tx'[d]] /\ \A d \in Admins : tx'[d] = IF d = c THEN t ELSE tx[d]
  BY <1>1
<1>3. \A d \in Admins : TxOK(tx'[d], roles', users', named')
  BY <1>1, <1>2
<1>4. TablesOK(roles', users', named') /\ raced' \in BOOLEAN
  BY DEF AccessInv
<1> QED
  BY <1>2, <1>3, <1>4 DEF AccessInv

LEMMA AccessBegins == AccessInit => AccessInv
<1> SUFFICES ASSUME AccessInit PROVE AccessInv
  OBVIOUS
<1>1. DOMAIN roles = {} /\ roles = Nothing /\ RolesOK(roles)
  BY NoRows DEF AccessInit, RolesOK
<1>2. /\ DOMAIN Catalogued(roles) = DefaultRoles
      /\ \A r \in DefaultRoles : Catalogued(roles)[r].perms = DefaultPermissions
  <2>1. DOMAIN Catalogued(roles) = DOMAIN roles \cup DefaultRoles
    BY <1>1, CataloguedRows
  <2>2. \A r \in DefaultRoles : Catalogued(roles)[r] = Seeds[r]
    BY <1>1, CataloguedRows
  <2> QED
    BY <1>1, <2>1, <2>2 DEF Seeds, RoleRow
<1>3. \A u \in UserIds :
        /\ users[u] \in {[roles |-> DefaultRoles, perms |-> DefaultPermissions, status |-> "active"],
                        [roles |-> RoleIds \ DefaultRoles, perms |-> Permissions \ DefaultPermissions,
                         status |-> "active"]}
        /\ named[u] = users[u].perms \ DefaultPermissions
  BY DEF AccessInit
<1>4. users \in [UserIds -> UserRows]
  <2>1. \A u \in UserIds : users[u] \in UserRows
    BY <1>3, AccessAssumption DEF UserRows, Statuses
  <2> QED
    BY <2>1 DEF AccessInit
<1>5. named \in [UserIds -> SUBSET Permissions]
  BY <1>3, <1>4 DEF AccessInit, UserRows
<1>6. \A u \in UserIds : Fits(Catalogued(roles), users[u], named[u])
  <2> TAKE u \in UserIds
  <2> PICK g, row, given : g = Catalogued(roles) /\ row = users[u] /\ given = named[u]
    OBVIOUS
  <2>1. CASE row.roles = DefaultRoles /\ row.perms = DefaultPermissions
    BY <1>2, <2>1, SeedRow DEF Fits, Inherited
  <2>2. CASE row.roles = RoleIds \ DefaultRoles /\ row.perms = Permissions \ DefaultPermissions
    BY <1>2, <1>3, <2>2 DEF Fits, Inherited
  <2> QED
    BY <1>3, <2>1, <2>2
<1>7. \A c \in Admins : TxOK(tx[c], roles, users, named)
  <2> TAKE c \in Admins
  <2> PICK s : s = [Closed EXCEPT !.in = Closed.in, !.at = "idle"]
    OBVIOUS
  <2>1. s = Closed /\ tx[c] = Closed
    BY DEF AccessInit, Closed
  <2> QED
    BY <2>1, BeginKeeps
<1> QED
  BY <1>1, <1>4, <1>5, <1>6, <1>7 DEF AccessInit, AccessInv, TablesOK

LEMMA AccessStep == AccessInv /\ [AccessNext]_accessVars => AccessInv'
<1> SUFFICES ASSUME AccessInv, [AccessNext]_accessVars PROVE AccessInv'
  OBVIOUS
<1>1. CASE UNCHANGED accessVars
  BY <1>1 DEF accessVars, AccessInv
<1>2. CASE raced
  <2>0. raced = TRUE
    BY <1>2 DEF AccessInv
  <2>1. ReadAccessManagementView => raced' = TRUE
    BY <2>0 DEF ReadAccessManagementView
  <2>2. \A c, in : BeginTransaction(c, in) => raced' = TRUE
    BY <2>0 DEF BeginTransaction
  <2>3. \A c : EnsureManagedRolesSeeded(c) \/ ReadManagedRoleRows(c) \/ ReadFrameworkUserInventoryRows(c) => raced' = TRUE
    BY <2>0 DEF EnsureManagedRolesSeeded, ReadManagedRoleRows, ReadFrameworkUserInventoryRows, Unwritten
  <2>4. \A c : PrepareUsers(c) \/ SaveManagedRole(c) \/ DeleteManagedRole(c) => raced' = TRUE
    BY <2>0 DEF PrepareUsers, SaveManagedRole, DeleteManagedRole, Unwritten
  <2>5. \A c : SynchronizeUsers(c) \/ (\E u \in UserIds : WriteMember(c, u)) => raced' = TRUE
    BY <2>0 DEF SynchronizeUsers, WriteMember, Unwritten
  <2>6. \A c : CommitTransaction(c) => raced' = TRUE
    BY <2>0 DEF CommitTransaction
  <2>7. \A c : RevokeManagedCredential(c) \/ RollbackTransaction(c) => raced' = TRUE
    BY <2>0 DEF RevokeManagedCredential, RollbackTransaction, Unwritten
  <2>8. AccessNext => raced' = TRUE
    BY <2>1, <2>2, <2>3, <2>4, <2>5, <2>6, <2>7 DEF AccessNext
  <2> QED
    BY <1>1, <2>8 DEF AccessInv
<1> SUFFICES ASSUME AccessNext, ~raced PROVE AccessInv'
  BY <1>1, <1>2
<1> PICK R, U, N : R = roles /\ U = users /\ N = named
  OBVIOUS
<1>3. /\ TablesOK(R, U, N) /\ tx = [d \in Admins |-> tx[d]] /\ \A d \in Admins : TxOK(tx[d], R, U, N)
  BY DEF AccessInv
<1>4. CASE ReadAccessManagementView
  <2> PICK R2 : R2 = Catalogued(R)
    OBVIOUS
  <2>1. roles' = R2 /\ UNCHANGED <<users, tx, named, raced>>
    BY <1>4 DEF ReadAccessManagementView, Catalogued
  <2>2. \A u \in UserIds : SameAccess(U[u], U[u]) /\ N[u] \subseteq N[u]
    BY DEF SameAccess
  <2>3. U \in [UserIds -> UserRows]
    BY <1>3 DEF TablesOK
  <2>4. \A d \in Admins : TxOK(tx[d], R2, U, N)
    BY <1>3, <2>2, <2>3, QuietKeeps
  <2>5. TablesOK(R2, U, N)
    <3>1. /\ R2 \in [DOMAIN R2 -> RoleRows] /\ DOMAIN R2 = DOMAIN R \cup DefaultRoles
          /\ \A r \in DefaultRoles : R2[r] = Seeds[r]
      BY <1>3, CataloguedRows DEF TablesOK
    <3>2. Catalogued(R2) = R2
      BY <3>1, SeedRow DEF Catalogued, Over
    <3> QED
      BY <1>3, <3>1, <3>2 DEF TablesOK, RolesOK
  <2>6. \A d \in Admins : TxOK(tx'[d], roles', users', named')
    BY <2>1, <2>4
  <2>7. TablesOK(roles', users', named')
    BY <2>1, <2>5
  <2> QED
    BY <1>3, <2>1, <2>6, <2>7 DEF AccessInv
<1> SUFFICES ASSUME NEW c \in Admins,
                    \/ \E in \in AccessRequests \cup RevokeRequests : BeginTransaction(c, in)
                    \/ EnsureManagedRolesSeeded(c)
                    \/ ReadManagedRoleRows(c)
                    \/ ReadFrameworkUserInventoryRows(c)
                    \/ PrepareUsers(c)
                    \/ SaveManagedRole(c)
                    \/ DeleteManagedRole(c)
                    \/ SynchronizeUsers(c)
                    \/ \E u \in UserIds : WriteMember(c, u)
                    \/ CommitTransaction(c)
                    \/ RevokeManagedCredential(c)
                    \/ RollbackTransaction(c)
             PROVE  AccessInv'
  BY <1>4 DEF AccessNext, AccessRequests
<1> PICK t : t = tx[c]
  OBVIOUS
<1>5. TxOK(t, R, U, N) /\ TxLine(t)
  BY <1>3 DEF TxOK
\* A step that closes the transaction, by a refusal or for good.
<1>6. ASSUME tx' = [tx EXCEPT ![c] = Closed], UNCHANGED <<roles, users, named, raced>> PROVE AccessInv'
  <2> PICK s : s = [Closed EXCEPT !.in = Closed.in, !.at = "idle"]
    OBVIOUS
  <2>1. s = Closed
    BY DEF Closed
  <2>2. TxOK(Closed, roles, users, named)
    BY <2>1, BeginKeeps
  <2> QED
    BY <1>6, <2>2, OneStep
<1>7. ASSUME NEW in \in AccessRequests \cup RevokeRequests, BeginTransaction(c, in) PROVE AccessInv'
  <2> PICK at : at = IF in.op = "revoke" THEN "revoke" ELSE "seed"
    OBVIOUS
  <2> PICK s : s = [Closed EXCEPT !.in = in, !.at = at]
    OBVIOUS
  <2>1. at \in {"seed", "revoke", "idle"} /\ (at = "seed" => in \in AccessRequests)
    BY DEF RevokeRequests
  <2>2. TxOK(s, R, U, N)
    BY <2>1, BeginKeeps
  <2>3. tx' = [tx EXCEPT ![c] = s] /\ UNCHANGED <<roles, users, named, raced>>
    BY <1>7 DEF BeginTransaction
  <2> QED
    BY <2>2, <2>3, OneStep
<1>8. CASE EnsureManagedRolesSeeded(c)
  <2> PICK missing : missing = DefaultRoles \ DOMAIN RowsOf(t.roleWrites, R)
    OBVIOUS
  <2> PICK s : s = [t EXCEPT !.at = "roles", !.roleWrites = Over([r \in missing |-> Seeds[r]], t.roleWrites)]
    OBVIOUS
  <2>1. t.at = "seed" /\ UNCHANGED <<roles, users, named, raced>>
    BY <1>8 DEF EnsureManagedRolesSeeded, Unwritten
  <2>2. missing = DefaultRoles \ DOMAIN VisibleRoles(c)
    BY DEF VisibleRoles, RowsOf
  <2>3. tx' = [tx EXCEPT ![c] = s]
    BY <1>3, <1>5, <1>8, <2>2 DEF EnsureManagedRolesSeeded, TxLine
  <2>4. TxOK(s, R, U, N)
    BY <1>3, <1>5, <2>1, SeedKeeps
  <2> QED
    BY <2>1, <2>3, <2>4, OneStep
<1>9. CASE ReadManagedRoleRows(c)
  <2> PICK s : s = [t EXCEPT !.at = "users", !.roleRows = RowsOf(t.roleWrites, R)]
    OBVIOUS
  <2>1. t.at = "roles" /\ UNCHANGED <<roles, users, named, raced>>
    BY <1>9 DEF ReadManagedRoleRows, Unwritten
  <2>2. VisibleRoles(c) = RowsOf(t.roleWrites, R)
    BY DEF VisibleRoles, RowsOf
  <2>3. tx' = [tx EXCEPT ![c] = s]
    BY <1>3, <1>5, <1>9, <2>2 DEF ReadManagedRoleRows, TxLine
  <2>4. TxOK(s, R, U, N)
    BY <1>3, <1>5, <2>1, ReadRolesKeeps
  <2> QED
    BY <2>1, <2>3, <2>4, OneStep
<1>10. CASE ReadFrameworkUserInventoryRows(c)
  <2> PICK s : s = [t EXCEPT !.at = "decide", !.userRows = Over(t.userWrites, U)]
    OBVIOUS
  <2>1. t.at = "users" /\ UNCHANGED <<roles, users, named, raced>>
    BY <1>10 DEF ReadFrameworkUserInventoryRows, Unwritten
  <2>2. VisibleUsers(c) = Over(t.userWrites, U)
    BY DEF VisibleUsers
  <2>3. tx' = [tx EXCEPT ![c] = s]
    BY <1>3, <1>5, <1>10, <2>2 DEF ReadFrameworkUserInventoryRows, TxLine
  <2>4. TxOK(s, R, U, N)
    BY <1>3, <1>5, <2>1, ReadUsersKeeps
  <2> QED
    BY <2>1, <2>3, <2>4, OneStep
<1>11. ASSUME NEW todo, Works(t, todo, RowsOf(t.roleWrites, R), U, N), t.at \in {"decide", "reread"},
              tx' = [tx EXCEPT ![c].at = "members", ![c].todo = todo], UNCHANGED <<roles, users, named, raced>>
       PROVE  AccessInv'
  <2> PICK s : s = [t EXCEPT !.at = "members", !.todo = todo]
    OBVIOUS
  <2>1. tx' = [tx EXCEPT ![c] = s]
    BY <1>3, <1>5, <1>11 DEF TxLine
  <2>2. TxOK(s, R, U, N)
    BY <1>3, <1>5, <1>11, MembersKeep
  <2> QED
    BY <1>11, <2>1, <2>2, OneStep
<1>12. CASE PrepareUsers(c)
  <2>1. /\ t.at = "decide" /\ t.in.op \in {"user", "status", "assign", "remove"}
        /\ UNCHANGED <<roles, users, named, raced>>
    BY <1>12 DEF PrepareUsers, Unwritten
  <2>2. CASE tx' = [tx EXCEPT ![c] = Closed]
    BY <1>6, <2>1, <2>2
  <2> PICK todo : todo = CASE t.in.op = "user" -> UpdateManagedUser(t)
                           [] t.in.op = "status" -> UpdateManagedUsersStatus(t)
                           [] OTHER -> UpdateManagedUsersRoles(t)
    OBVIOUS
  <2>3. CASE tx' = [tx EXCEPT ![c].at = "members", ![c].todo = todo]
    <3>1. Works(t, todo, RowsOf(t.roleWrites, R), U, N)
      BY <1>3, <1>5, <2>1, UserWorks, StatusWorks, RolesWork
    <3> QED
      BY <1>11, <2>1, <2>3, <3>1
  <2> QED
    BY <1>12, <2>2, <2>3 DEF PrepareUsers
<1>13. ASSUME NEW row, row \in [DOMAIN row -> RoleRows \cup {Gone}], DOMAIN row \subseteq {t.in.role},
              t.in.op = "delete" => DOMAIN row = {t.in.role} /\ row[t.in.role] = Gone,
              t.at = "decide", t.in.op \in {"create", "save", "delete"}, ~Locked(t),
              tx' = [tx EXCEPT ![c].at = "reread", ![c].roleWrites = Over(row, t.roleWrites)],
              UNCHANGED <<roles, users, named, raced>>
       PROVE  AccessInv'
  <2> PICK s : s = [t EXCEPT !.at = "reread", !.roleWrites = Over(row, t.roleWrites)]
    OBVIOUS
  <2>1. tx' = [tx EXCEPT ![c] = s]
    BY <1>3, <1>5, <1>13 DEF TxLine
  <2>2. TxOK(s, R, U, N)
    BY <1>3, <1>5, <1>13, RoleKeeps
  <2> QED
    BY <1>13, <2>1, <2>2, OneStep
<1>14. CASE SaveManagedRole(c)
  <2>1. t.at = "decide" /\ t.in.op \in {"create", "save"} /\ UNCHANGED <<roles, users, named, raced>>
    BY <1>14 DEF SaveManagedRole, Unwritten
  <2>2. CASE tx' = [tx EXCEPT ![c] = Closed]
    BY <1>6, <2>1, <2>2
  <2>3. CASE SaveManagedRoleAllowed(t)
    <3> PICK row : row = SaveManagedRoleRow(t, RowsOf(t.roleWrites, R))
      OBVIOUS
    <3>1. row \in [DOMAIN row -> RoleRows \cup {Gone}] /\ DOMAIN row \subseteq {t.in.role}
      BY <1>3, <1>5, <2>1, SaveRow
    <3>2. VisibleRoles(c) = RowsOf(t.roleWrites, R)
      BY DEF VisibleRoles, RowsOf
    <3>3. tx' = [tx EXCEPT ![c].at = "reread", ![c].roleWrites = Over(row, t.roleWrites)]
      BY <1>3, <1>5, <1>14, <2>3, <3>2 DEF SaveManagedRole, TxLine
    <3>4. ~Locked(t)
      BY <2>3 DEF SaveManagedRoleAllowed
    <3> QED
      BY <1>13, <2>1, <3>1, <3>3, <3>4
  <2> QED
    BY <1>14, <2>2, <2>3 DEF SaveManagedRole
<1>15. CASE DeleteManagedRole(c)
  <2>1. t.at = "decide" /\ t.in.op = "delete" /\ UNCHANGED <<roles, users, named, raced>>
    BY <1>15 DEF DeleteManagedRole, Unwritten
  <2>2. CASE tx' = [tx EXCEPT ![c] = Closed]
    BY <1>6, <2>1, <2>2
  <2>3. CASE DeleteManagedRoleAllowed(t)
    <3> PICK row : row = Row(t.in.role, Gone)
      OBVIOUS
    <3>1. row \in [DOMAIN row -> RoleRows \cup {Gone}] /\ DOMAIN row = {t.in.role} /\ row[t.in.role] = Gone
      BY DEF Row
    <3>3. tx' = [tx EXCEPT ![c].at = "reread", ![c].roleWrites = Over(row, t.roleWrites)]
      BY <1>3, <1>5, <1>15, <2>3 DEF DeleteManagedRole, TxLine
    <3>4. ~Locked(t)
      BY <2>3 DEF DeleteManagedRoleAllowed
    <3> QED
      BY <1>13, <2>1, <3>1, <3>3, <3>4
  <2> QED
    BY <1>15, <2>2, <2>3 DEF DeleteManagedRole
<1>16. CASE SynchronizeUsers(c)
  <2> PICK next : next = BuildRoleCatalog(RowsOf(t.roleWrites, R), t.userRows)
    OBVIOUS
  <2> PICK todo : todo = IF t.in.op = "delete" THEN SynchronizeUsersForDeletedRole(t, next, U)
                                               ELSE SynchronizeUsersForRoleCatalog(t, next, U)
    OBVIOUS
  <2>1. t.at = "reread" /\ UNCHANGED <<roles, users, named, raced>>
    BY <1>16 DEF SynchronizeUsers, Unwritten
  <2>2. VisibleRoles(c) = RowsOf(t.roleWrites, R)
    BY DEF VisibleRoles, RowsOf
  <2>3. VisibleUsers(c) = U
    <3>1. DOMAIN t.userWrites = {} /\ U = [u \in DOMAIN U |-> U[u]]
      BY <1>3, <1>5, <2>1, NoRows DEF TxOK, WritesOK, TablesOK
    <3>2. Over(t.userWrites, U) = U
      BY <3>1 DEF Over
    <3> QED
      BY <3>2 DEF VisibleUsers
  <2>4. tx' = [tx EXCEPT ![c].at = "members", ![c].todo = todo]
    BY <1>16, <2>2, <2>3 DEF SynchronizeUsers
  <2>5. Works(t, todo, RowsOf(t.roleWrites, R), U, N)
    BY <1>3, <1>5, <2>1, SynchronizeWorks
  <2> QED
    BY <1>11, <2>1, <2>4, <2>5
<1>17. ASSUME NEW u \in UserIds, WriteMember(c, u) PROVE AccessInv'
  <2> PICK row : row = Over(t.todo[u], Over(t.userWrites, U)[u])
    OBVIOUS
  <2> PICK s : s = Written(t, u, row)
    OBVIOUS
  <2>1. t.at = "members" /\ u \in DOMAIN t.todo /\ UNCHANGED <<roles, users, named, raced>>
    BY <1>17 DEF WriteMember, Unwritten
  <2>2. row = Over(t.todo[u], VisibleUsers(c)[u])
    BY DEF VisibleUsers
  <2>3. tx' = [tx EXCEPT ![c] = s]
    BY <1>3, <1>5, <1>17, <2>2 DEF WriteMember, TxLine, Written
  <2>4. TxOK(s, R, U, N)
    <3>1. TablesOK(R, U, N) /\ TxOK(t, R, U, N) /\ t.at = "members" /\ u \in DOMAIN t.todo
      BY <1>3, <1>5, <2>1
    <3> QED
      BY <3>1, WriteKeeps, Zenon
  <2> QED
    BY <2>1, <2>3, <2>4, OneStep
<1>18. CASE CommitTransaction(c)
  <2> PICK R2, U2, N2 :
        /\ R2 = RowsOf(t.roleWrites, R) /\ U2 = Over(t.userWrites, U)
        /\ N2 = IF t.in.op = "user" THEN [N EXCEPT ![t.in.user] = @ \cup t.in.extra] ELSE N
    OBVIOUS
  <2>1. t.at = "members" /\ t.todo = Nothing /\ tx' = [tx EXCEPT ![c] = Closed]
    BY <1>18 DEF CommitTransaction
  <2>2. roles' = R2 /\ users' = U2 /\ named' = N2
    BY <1>18 DEF CommitTransaction, VisibleRoles, VisibleUsers, RowsOf
  <2>3. TablesOK(R2, U2, N2) /\ DefaultRoles \subseteq DOMAIN R2 /\ \A u \in UserIds : N[u] \subseteq N2[u]
    BY <1>3, <1>5, <2>1, CommitTables
  <2>4. CASE ChangesAccess(c) /\ Overlapped(c)
    <3>1. raced' = TRUE
      BY <1>18, <2>4 DEF CommitTransaction
    <3> QED
      BY <3>1 DEF AccessInv
  <2>5. CASE ~(ChangesAccess(c) /\ Overlapped(c))
    <3>1. raced' \in BOOLEAN
      BY <1>18, <2>5 DEF CommitTransaction
    <3>2. ASSUME NEW d \in Admins \ {c} PROVE TxOK(tx[d], R2, U2, N2)
      <4>1. TxOK(tx[d], R, U, N)
        BY <1>3
      <4>2. CASE tx[d].roleRows = Nothing
        BY <1>3, <2>3, <4>1, <4>2, UnreadKeeps
      <4>3. CASE tx[d].roleRows # Nothing
        <5>1. \A r \in DOMAIN t.roleWrites : r \in DefaultRoles
          BY <2>5, <4>3 DEF Overlapped, ChangesAccess
        <5>2. t.in.op = "status" \/ t.userWrites = Nothing
          BY <2>5, <4>3 DEF Overlapped, ChangesAccess
        <5>3. R2 = Catalogued(R) /\ \A u \in UserIds : SameAccess(U2[u], U[u])
          BY <1>3, <1>5, <2>1, <5>1, <5>2, QuietCommit
        <5>4. U2 \in [UserIds -> UserRows]
          BY <2>3 DEF TablesOK
        <5> QED
          BY <1>3, <2>3, <4>1, <5>3, <5>4, QuietKeeps
      <4> QED
        BY <4>2, <4>3
    <3>3. TxOK(Closed, R2, U2, N2)
      <4> PICK s : s = [Closed EXCEPT !.in = Closed.in, !.at = "idle"]
        OBVIOUS
      <4>1. s = Closed
        BY DEF Closed
      <4> QED
        BY <4>1, BeginKeeps
    <3>4. tx' = [d \in Admins |-> tx'[d]] /\ \A d \in Admins : tx'[d] = IF d = c THEN Closed ELSE tx[d]
      BY <1>3, <2>1
    <3>5. \A d \in Admins : TxOK(tx'[d], roles', users', named')
      BY <2>2, <3>2, <3>3, <3>4
    <3>6. TablesOK(roles', users', named')
      BY <2>2, <2>3
    <3> QED
      BY <3>1, <3>4, <3>5, <3>6 DEF AccessInv
  <2> QED
    BY <2>4, <2>5
<1>19. CASE RevokeManagedCredential(c)
  BY <1>6, <1>19 DEF RevokeManagedCredential
<1>20. CASE RollbackTransaction(c)
  BY <1>6, <1>20 DEF RollbackTransaction, Unwritten
<1> QED
  BY <1>7, <1>8, <1>9, <1>10, <1>12, <1>14, <1>15, <1>16, <1>17, <1>18, <1>19, <1>20

LEMMA AccessFollows == AccessInv => PermissionsFollowRoles
<1> SUFFICES ASSUME AccessInv, ~raced, NEW u \in UserIds
             PROVE  LET entry == AccessManagementView.users[u]
                    IN  entry.effective = users[u].perms /\ entry.extra \subseteq named[u]
  BY DEF PermissionsFollowRoles
<1> PICK g, cat, row, inh, entry :
      /\ g = Catalogued(roles) /\ cat = BuildRoleCatalog(Over(roles, Seeds), users) /\ row = users[u]
      /\ inh = Inherited(g, row.roles) /\ entry = MapAccessManagedUser(row, cat)
  OBVIOUS
<1>1. Fits(g, row, named[u])
  BY DEF AccessInv, TablesOK
<1>2. CollectPermissionsForRoles(row.roles, cat) = inh
  BY CollectedAre DEF Catalogued
<1>3. Extra(row, cat) = row.perms \ inh
  BY <1>2 DEF Extra
<1>4. entry.effective = inh \cup (row.perms \ inh) /\ entry.extra = row.perms \ inh
  BY <1>2, <1>3 DEF MapAccessManagedUser
<1>5. inh \subseteq row.perms /\ row.perms \subseteq inh \cup named[u]
  BY <1>1 DEF Fits
<1>6. AccessManagementView.users[u] = entry
  BY DEF AccessManagementView
<1> QED
  BY <1>4, <1>5, <1>6

\* For any administrators, roles, users and permissions: as long as no two
\* changes of permissions overlapped, what the console shows of a user is what
\* the database enforces, and a permission that no role of his explains was
\* once given to him by name (synchronizeUsersForRoleCatalog,
\* synchronizeUsersForDeletedRole, updateManagedUsersRoles).
THEOREM PermissionsTheorem == AccessSpec => []PermissionsFollowRoles
<1>1. AccessSpec => []AccessInv
  BY AccessBegins, AccessStep, PTL DEF AccessSpec
<1> QED
  BY <1>1, AccessFollows, PTL
=============================================================================
