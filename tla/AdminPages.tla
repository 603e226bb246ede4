---------------------------- MODULE AdminPages -----------------------------
(***************************************************************************)
(* The five administration pages that work on the system store, as one     *)
(* browser runs them: users, roles, menus, APIs and policies.  A page      *)
(* loads its lists in an effect that starts again whenever its reload      *)
(* token or its applied search changes, and it sends changes from          *)
(* handlers that await their requests while the user goes on clicking.     *)
(*                                                                         *)
(* The server is the store of SystemStore: every request of a page reads a *)
(* file and later replaces it.  One page is mounted for a whole behaviour. *)
(* Toasts, titles and text fields are left out, and so is paging: every    *)
(* row that passes the search can be reached.                              *)
(***************************************************************************)
EXTENDS SystemStore

CONSTANTS
    MaxHandlers, \* bound: handlers that send something, and searches, in a behaviour
    MaxFaults    \* bound: requests that fail on the way

VARIABLES
    page,    \* the mounted page
    view,    \* its dialogs, selection, search, drafts and busy flags
    list,    \* the loaded lists and the loads under way
    pending,   \* handlers waiting for the server
    count    \* handlers begun and requests failed so far

pageVars == <<page, view, list, pending, count>>

Pages == {"users", "roles", "menus", "apis", "casbin"}
New == <<>>          \* target of a form that creates a user or an API
NewMenu == 0         \* target of a form that creates a menu

(***************************************************************************)
(* Dialogs.  A dialog is open when the map has an entry for it; the entry  *)
(* says what it is about and what it was opened with.  What the user fills *)
(* in is chosen when he confirms: the ...Fields are the forms he can reach *)
(* with at most one change.                                                *)
(***************************************************************************)
Extended(f, x, y) == [z \in DOMAIN f \cup {x} |-> IF z = x THEN y ELSE f[z]]

IsOpen(d) == d \in DOMAIN view.dialogs
Dialog(d) == view.dialogs[d]
WithDialog(v, d, of, value) ==
    [v EXCEPT !.dialogs = Extended(@, d, [of |-> of, value |-> value])]
WithoutDialog(v, d) == [v EXCEPT !.dialogs = Restrict(@, DOMAIN @ \ {d})]

\* The mask of an open dialog covers the page.
Uncovered == DOMAIN view.dialogs = {}

Look(v) == view' = v /\ UNCHANGED <<page, list, pending, count, vars>>

Show(d, of, value) == Uncovered /\ Look(WithDialog(view, d, of, value))
Toggled(S, x) == IF x \in S THEN S \ {x} ELSE S \cup {x}

\* Escape, the mask and the cross close a dialog even while it is busy.
CloseDialog == \E d \in DOMAIN view.dialogs : Look(WithoutDialog(view, d))

(***************************************************************************)
(* Loading the lists.  All files of a page are asked for at once; each is  *)
(* read by the server at its own time.                                     *)
(***************************************************************************)
UsersLoad == {"users", "roles"}
RolesLoad == {"roles", "menus", "apis", "policies"}
MenusLoad == {"menus", "roles"}
ApisLoad == {"apis", "roles", "policies"}
CasbinLoad == {"roles", "apis", "policies"}

Fetched ==
    CASE page = "users" -> UsersLoad
      [] page = "roles" -> RolesLoad
      [] page = "menus" -> MenusLoad
      [] page = "apis" -> ApisLoad
      [] page = "casbin" -> CasbinLoad

NoRows == [f \in {"users", "roles", "menus", "apis", "policies"} |-> {}]

\* What a search leaves of the users: only their page sends it along.
\* The answers carry no password hash.
Found(users, search) ==
    {row \in {[u EXCEPT !.legacy = FALSE] : u \in users} : search \in {"", row.name}}

Answered(f, search) == IF f = "users" THEN Found(disk.users, search) ELSE disk[f]

\* Fault: an answer is used although its effect has been cleaned up.
AllRunOn(loads) == loads

\* The clean-up of the effect cancels the run before: its answers are dropped.
RunOn(loads) == {}

Restarted(l, search) ==
    [l EXCEPT !.latest = @ + 1,
              !.loads = RunOn(@) \cup {[no |-> l.latest + 1, search |-> search, got |-> <<>>]}]

Finished(l) == [list EXCEPT !.loads = @ \ {l}]

LoadReads(l, f) ==
    /\ f \in Fetched \ DOMAIN l.got
    /\ list' = [list EXCEPT !.loads =
           (@ \ {l}) \cup {[l EXCEPT !.got = Extended(@, f, Answered(f, l.search))]}]
    /\ UNCHANGED <<page, view, pending, count, vars>>

\* A new list of policies discards what was ticked but not saved.
LoadInstalls(l) ==
    /\ DOMAIN l.got = Fetched
    /\ list' = [Finished(l) EXCEPT !.from = l.no,
           !.shown = [f \in DOMAIN NoRows |-> IF f \in Fetched THEN l.got[f] ELSE {}]]
    /\ view' = [view EXCEPT !.draft = <<>>]
    /\ UNCHANGED <<page, pending, count, vars>>

\* A failed load leaves the lists as they were and says nothing.
LoadFails(l) ==
    /\ count.faults < MaxFaults
    /\ list' = [Finished(l) EXCEPT !.trouble = l.no]
    /\ count' = [count EXCEPT !.faults = @ + 1]
    /\ UNCHANGED <<page, view, pending, vars>>

(***************************************************************************)
(* Handlers.  A handler sends its requests one after the other, or all at  *)
(* once, and goes on when the last is answered or the first has failed.    *)
(***************************************************************************)
Request(in) == [in |-> in, read |-> FALSE, next |-> {}]

Call(do, of, reqs, atOnce) ==
    [no |-> count.calls + 1, do |-> do, of |-> of, got |-> {},
     wire |-> IF atOnce THEN {Request(reqs[i]) : i \in DOMAIN reqs}
              ELSE {Request(reqs[i]) : i \in DOMAIN reqs \cap {1}},
     todo |-> IF atOnce \/ reqs = <<>> THEN <<>> ELSE Tail(reqs),
     failed |-> FALSE, phase |-> "waiting"]

SendWith(v, do, of, reqs, atOnce) ==
    /\ count.calls < MaxHandlers
    /\ pending' = Extended(pending, count.calls + 1, Call(do, of, reqs, atOnce))
    /\ count' = [count EXCEPT !.calls = @ + 1]
    /\ view' = v
    /\ UNCHANGED <<page, list, vars>>

Send(do, of, reqs) == SendWith(view, do, of, reqs, FALSE)

\* Handlers that hold the busy flag, which disables the confirm button of
\* every form dialog, until they are over.
Saving == {"saveUser", "resetPassword", "submitRole", "savePermission", "assignUsers",
           "saveMenu", "assignMenu", "saveApi", "assignApi", "saveCasbin"}
Syncing == {"previewSync", "applySync", "addOneSync", "ignoreSync"}

CanConfirm(d) == IsOpen(d) /\ ~view.busy

Save(d, do, reqs) ==
    CanConfirm(d) /\ SendWith([view EXCEPT !.busy = TRUE], do, Dialog(d).of, reqs, FALSE)

Put(c, d) == pending' = [pending EXCEPT ![c.no] = d]

\* A handler that has given up leaves its other requests to the server.
CallEnds(c) == pending' = IF c.wire = {} THEN Restrict(pending, DOMAIN pending \ {c.no})
                   ELSE [pending EXCEPT ![c.no].phase = "over"]

\* Fields that a request leaves out keep the value they have in the file.
Complete(in, rows) ==
    IF "keep" \in DOMAIN in /\ ById(rows, in.id) # {}
    THEN LET row == CHOOSE r \in ById(rows, in.id) : TRUE
         IN  [k \in in.keep |-> row[k]] @@ in
    ELSE in

Reads == {"listUsers", "previewSync"}

Preview == [new    |-> PreviewApiSync(disk.apis, disk.ignores).new,
            delete |-> PreviewApiSync(disk.apis, disk.ignores).delete,
            ignore |-> disk.ignores]

Failed(c, q) == [c EXCEPT !.wire = @ \ {q}, !.todo = <<>>, !.failed = TRUE]

ServerReads(c, q) ==
    /\ ~q.read
    /\ IF q.in.op \in Reads
       THEN Put(c, [c EXCEPT !.wire = @ \ {q},
                             !.got = IF q.in.op = "listUsers" THEN disk.users ELSE {Preview}])
       ELSE LET rows == disk[FileOf(q.in.op)]
                next == LocalSystemAdapter(Complete(q.in, rows), rows, 0, <<c.no, Len(c.todo)>>)
            IN  IF next = Refused
                THEN Put(c, Failed(c, q))
                ELSE \E file \in next :
                        Put(c, [c EXCEPT !.wire = (@ \ {q}) \cup {[q EXCEPT !.read = TRUE, !.next = file]}])
    /\ UNCHANGED <<page, view, list, count, vars>>

\* A new password changes no column of the model: if the files differ, a
\* change that was made since the server read is undone.
Overwrites(c, q) == c.do = "resetPassword" /\ Found(q.next, "") # Found(disk.users, "")

\* The next request of the handler leaves when this one is answered.  A
\* change that is made after its handler has given up is never reloaded.
ServerSaves(c, q) ==
    /\ q.read
    /\ disk' = [disk EXCEPT ![FileOf(q.in.op)] = q.next]
    /\ Put(c, [c EXCEPT !.wire = (@ \ {q}) \cup {Request(c.todo[i]) : i \in DOMAIN c.todo \cap {1}},
                        !.todo = IF @ = <<>> THEN @ ELSE Tail(@),
                        !.got = q.next])
    /\ list' = [list EXCEPT !.trouble =
           IF c.phase = "waiting" /\ ~Overwrites(c, q) THEN @ ELSE list.latest]
    /\ UNCHANGED <<page, view, count, request, served>>

\* The request is lost before the server reads, or its answer afterwards.
RequestFails(c, q) ==
    /\ count.faults < MaxFaults
    /\ disk' = IF q.read THEN [disk EXCEPT ![FileOf(q.in.op)] = q.next] ELSE disk
    /\ Put(c, Failed(c, q))
    /\ list' = [list EXCEPT !.trouble = IF q.read /\ c.phase # "waiting" THEN list.latest ELSE @]
    /\ count' = [count EXCEPT !.faults = @ + 1]
    /\ UNCHANGED <<page, view, request, served>>

(***************************************************************************)
(* Users.                                                                  *)
(***************************************************************************)
Rows(f) == list.shown[f]

Reload(v) ==
    /\ count.calls < MaxHandlers
    /\ view' = v
    /\ list' = Restarted(list, v.search)
    /\ count' = [count EXCEPT !.calls = @ + 1]
    /\ UNCHANGED <<page, pending, vars>>

SearchUsers == \E s \in {"", "bob"} \ {view.search} :
    Uncovered /\ Reload([view EXCEPT !.search = s])

OpenUserForm ==
    \/ Show("form", New, [roles |-> {}, active |-> TRUE])
    \/ \E u \in Rows("users") : Show("form", u.id, [roles |-> u.roles, active |-> u.active])

UserFormFields(v) ==
    {v, [v EXCEPT !.active = ~@]} \cup {[v EXCEPT !.roles = Toggled(@, r.id)] : r \in Rows("roles")}

SaveUser ==
    /\ IsOpen("form")
    /\ \E v \in UserFormFields(Dialog("form").value), n \in NewNames :
          /\ v.roles # {}
          /\ Save("form", "saveUser",
                  <<IF Dialog("form").of = New
                    THEN [op |-> "createUser", name |-> n] @@ v
                    ELSE [op |-> "updateUser", id |-> Dialog("form").of, password |-> FALSE] @@ v>>)

ConfirmDeleteUser == IsOpen("delete") /\ Send("delete", Dialog("delete").of,
    <<[op |-> "deleteUser", id |-> Dialog("delete").of]>>)

ToggleEnable == \E u \in Rows("users") : Uncovered /\ Send("toggleEnable", u.id,
    <<[op |-> "updateUser", id |-> u.id, active |-> ~u.active, password |-> FALSE,
      keep |-> {"roles"}]>>)

ConfirmResetPassword == IsOpen("reset") /\ Save("reset", "resetPassword",
    <<[op |-> "updateUser", id |-> Dialog("reset").of, password |-> TRUE,
      keep |-> {"active", "roles"}]>>)

UserRowActions ==
    \/ ToggleEnable
    \/ \E u \in Rows("users") : Show("reset", u.id, {}) \/ Show("delete", u.id, {})

UsersPage ==
    \/ SearchUsers \/ OpenUserForm \/ SaveUser
    \/ UserRowActions \/ ConfirmDeleteUser \/ ConfirmResetPassword

(***************************************************************************)
(* Roles.  The role form is about a mode and the role it starts from.      *)
(***************************************************************************)
OpenRoleForm ==
    \/ \E q \in {NoRole} \cup Ids(Rows("roles")) :
          Show("form", NoRole, [mode |-> "add", parent |-> q])
    \/ \E r \in Rows("roles"), m \in {"edit", "copy"} :
          Show("form", r.id, [mode |-> m, parent |-> r.parent])

\* Any role can be chosen as the parent, the edited one included.
RoleFormFields(v) ==
    IF v.mode = "add" THEN {v}
    ELSE {[v EXCEPT !.parent = q] : q \in {v.parent, NoRole} \cup Ids(Rows("roles"))}

RoleFormRequests(of, f, new) ==
    CASE f.mode = "add" -> <<[op |-> "createRole", id |-> new, parent |-> f.parent, menus |-> {}]>>
      [] f.mode = "edit" -> <<[op |-> "updateRole", id |-> of, parent |-> f.parent,
                               keep |-> {"menus"}]>>
      [] f.mode = "copy" -> <<[op |-> "copyRole", from |-> of, id |-> new, parent |-> f.parent],
                              [op |-> "copyCasbin", from |-> of, id |-> new]>>

SubmitRoleForm ==
    /\ IsOpen("form")
    /\ \E v \in RoleFormFields(Dialog("form").value), new \in NewRoles :
          Save("form", "submitRole", RoleFormRequests(Dialog("form").of, v, new))

\* The data scope of a role is not kept in the model: the request is.
ChangeDataScope == \E r \in Rows("roles") : Uncovered /\ Send("dataScope", r.id,
    <<[op |-> "updateRole", id |-> r.id, keep |-> {"menus", "parent"}]>>)

RoutesOf(policies, r) == {p.route : p \in {q \in policies : q.role = r}}

OpenPermission == \E r \in Rows("roles") :
    Show("permission", r.id, [menus |-> r.menus, routes |-> RoutesOf(Rows("policies"), r.id)])

PermissionFields(v) ==
    {v} \cup {[v EXCEPT !.menus = Toggled(@, m)] : m \in Ids(Rows("menus"))}
        \cup {[v EXCEPT !.routes = Toggled(@, k)] : k \in Keys(Rows("apis"))}

SavePermission ==
    /\ IsOpen("permission")
    /\ LET of == Dialog("permission").of IN
       \E v \in PermissionFields(Dialog("permission").value) : Save("permission", "savePermission",
          <<[op |-> "updateRole", id |-> of, menus |-> v.menus, keep |-> {"parent"}],
            [op |-> "replaceCasbin", role |-> of, routes |-> v.routes]>>)

\* The dialog is open at once, with the selection of the last assignment,
\* and the users come later.
OpenAssignUsers == \E r \in Rows("roles") :
    Uncovered /\ SendWith(WithDialog(view, "assign", r.id, {}), "openAssign", r.id,
                          <<[op |-> "listUsers"]>>, FALSE)

AssignedUsersTable == \E u \in view.people :
    IsOpen("assign") /\ Look([view EXCEPT !.selected = Toggled(@, u)])

ConfirmAssignUsers == IsOpen("assign") /\ Save("assign", "assignUsers",
    <<[op |-> "setRoleUsers", role |-> Dialog("assign").of, users |-> view.selected]>>)

ConfirmDeleteRole == IsOpen("delete") /\ Send("delete", Dialog("delete").of,
    <<[op |-> "deleteRole", id |-> Dialog("delete").of]>>)

RoleRowActions ==
    \/ OpenPermission \/ OpenAssignUsers \/ ChangeDataScope
    \/ \E r \in Rows("roles") : ~r.locked /\ Show("delete", r.id, {})

RolesPage ==
    \/ OpenRoleForm \/ SubmitRoleForm \/ RoleRowActions \/ SavePermission
    \/ AssignedUsersTable \/ ConfirmAssignUsers \/ ConfirmDeleteRole

(***************************************************************************)
(* Menus.                                                                  *)
(***************************************************************************)
OpenMenuForm ==
    \/ \E q \in {TopLevel} \cup Ids(Rows("menus")) : Show("form", NewMenu, q)
    \/ \E m \in Rows("menus") : Show("form", m.id, m.parent)

\* The parent of a new menu is the one whose button was clicked.
MenuFormFields(of, v) == {v} \cup (IF of = NewMenu THEN {} ELSE {TopLevel} \cup Ids(Rows("menus")))

SaveMenu ==
    /\ IsOpen("form")
    /\ LET of == Dialog("form").of IN
       \E q \in MenuFormFields(of, Dialog("form").value) : Save("form", "saveMenu",
          <<IF of = NewMenu THEN [op |-> "createMenu", parent |-> q]
                            ELSE [op |-> "updateMenu", id |-> of, parent |-> q]>>)

OpenAssignRoles == \E m \in Rows("menus") :
    Show("assign", m.id, Ids({r \in Rows("roles") : m.id \in r.menus}))

AssignRolesTree(v) == {v} \cup {Toggled(v, r.id) : r \in Rows("roles")} \cup {Ids(Rows("roles")) \ v}

\* One request for each role whose tick has changed, all at the same time.
ConfirmAssignRoles ==
    /\ CanConfirm("assign")
    /\ LET of == Dialog("assign").of
           Changed(v) == {r \in Rows("roles") : (of \in r.menus) # (r.id \in v)}
           Grant(r) == [op |-> "updateRole", id |-> r.id, menus |-> Toggled(r.menus, of),
                        keep |-> {"parent"}]
       IN  \E v \in AssignRolesTree(Dialog("assign").value) :
              SendWith([view EXCEPT !.busy = TRUE], "assignMenu", of,
                       SetToSeq({Grant(r) : r \in Changed(v)}), TRUE)

ConfirmDeleteMenu == IsOpen("delete") /\ Send("delete", Dialog("delete").of,
    <<[op |-> "deleteMenu", id |-> Dialog("delete").of]>>)

MenuRowActions == OpenAssignRoles \/ \E m \in Rows("menus") : Show("delete", m.id, {})

MenusPage ==
    \/ OpenMenuForm \/ SaveMenu \/ MenuRowActions \/ ConfirmAssignRoles \/ ConfirmDeleteMenu

(***************************************************************************)
(* APIs.  The search only hides rows; what is selected stays selected.     *)
(***************************************************************************)
FilteredApis == {a \in Rows("apis") : view.search \in {"", a.key}}

SearchApis == \E s \in {"", "list"} \ {view.search} :
    Uncovered /\ Look([view EXCEPT !.search = s])

SelectApis ==
    /\ Uncovered
    /\ \/ \E a \in FilteredApis : Look([view EXCEPT !.selected = Toggled(@, a.id)])
       \/ \E ids \in {{}, Ids(FilteredApis)} : Look([view EXCEPT !.selected = ids])

OpenApiForm ==
    \/ Show("form", New, CHOOSE k \in Inventory : TRUE)
    \/ \E a \in FilteredApis : Show("form", a.id, a.key)

ApiFormFields(v) == {v} \cup Inventory

SaveApi ==
    /\ IsOpen("form")
    /\ LET of == Dialog("form").of IN
       \E k \in ApiFormFields(Dialog("form").value) : Save("form", "saveApi",
          <<IF of = New THEN [op |-> "createApi", key |-> k]
                        ELSE [op |-> "updateApi", id |-> of, key |-> k]>>)

ConfirmDeleteApi == IsOpen("delete") /\ Send("delete", Dialog("delete").of,
    <<[op |-> "deleteApi", id |-> Dialog("delete").of]>>)

\* One request after the other; the first that fails ends the loop.
ConfirmBatchDelete == IsOpen("batch") /\ Send("batchDelete", New,
    SetToSeq({[op |-> "deleteApi", id |-> i] : i \in view.selected}))

OpenAssignApi == \E a \in FilteredApis :
    Show("assign", a.key, {p.role : p \in {q \in Rows("policies") : q.route = a.key}})

AssignApiRoles(v) == {v} \cup {Toggled(v, r.id) : r \in Rows("roles")}

\* The policies of every role are written again, from the list on the page.
Working(policies, roles, key, chosen) ==
    {p \in policies : p.route # key \/ p.role \notin Ids(roles)}
        \cup {[role |-> r, route |-> key] : r \in chosen \cap Ids(roles)}

ConfirmAssignApi ==
    /\ CanConfirm("assign")
    /\ \E v \in AssignApiRoles(Dialog("assign").value) :
          LET working == Working(Rows("policies"), Rows("roles"), Dialog("assign").of, v)
              Replace(r) == [op |-> "replaceCasbin", role |-> r, routes |-> RoutesOf(working, r)]
          IN  SendWith([view EXCEPT !.busy = TRUE], "assignApi", working,
                       SetToSeq({Replace(r) : r \in Ids(Rows("roles"))}), FALSE)

ImportApis == \E keys \in (SUBSET Inventory) \ {{}} : Uncovered /\ Send("import", New,
    SetToSeq({[op |-> "createApi", key |-> k] : k \in keys}))

Sync(do, of, reqs) == SendWith([view EXCEPT !.syncBusy = TRUE], do, of, reqs, FALSE)

OpenSyncDrawer == Uncovered /\ ~view.syncBusy /\ Sync("previewSync", "", <<[op |-> "previewSync"]>>)

ConfirmRefresh == IsOpen("refresh") /\ Reload(WithoutDialog(view, "refresh"))

ApplySync == IsOpen("sync") /\ ~view.syncBusy
    /\ Sync("applySync", "", ApplyApiSync(view.preview, view.preview.ignore))

AddOneSyncApi == IsOpen("sync") /\ \E k \in view.preview.new :
    Sync("addOneSync", k, <<[op |-> "createApi", key |-> k]>>)

ToggleIgnoreSyncApi == IsOpen("sync")
    /\ \/ \E k \in view.preview.new :
             Sync("ignoreSync", k, <<[op |-> "ignoreApi", key |-> k, ignored |-> TRUE]>>)
       \/ \E k \in view.preview.ignore :
             Sync("ignoreSync", k, <<[op |-> "ignoreApi", key |-> k, ignored |-> FALSE]>>)

ApisToolbar ==
    \/ view.selected # {} /\ Show("batch", New, {})
    \/ Show("refresh", New, {})
    \/ OpenSyncDrawer \/ ImportApis

ApiRowActions == OpenAssignApi \/ \E a \in FilteredApis : Show("delete", a.id, {})

SyncDrawer == ApplySync \/ AddOneSyncApi \/ ToggleIgnoreSyncApi

ApisPage ==
    \/ SearchApis \/ SelectApis \/ ApisToolbar \/ ApiRowActions \/ SyncDrawer
    \/ OpenApiForm \/ SaveApi \/ ConfirmDeleteApi \/ ConfirmBatchDelete \/ ConfirmRefresh
    \/ ConfirmAssignApi

(***************************************************************************)
(* Policies: one draft for each role, until the next list arrives.         *)
(***************************************************************************)
SelectedKeys == IF view.role \in DOMAIN view.draft THEN view.draft[view.role]
                ELSE RoutesOf(Rows("policies"), view.role)

SelectRole == \E r \in Ids(Rows("roles")) \ {view.role} : Look([view EXCEPT !.role = r])

ToggleKey == \E k \in Keys(Rows("apis")) :
    Look([view EXCEPT !.draft = Extended(@, view.role, Toggled(SelectedKeys, k))])

SaveCasbin == ~view.busy /\ SendWith([view EXCEPT !.busy = TRUE], "saveCasbin", view.role,
    <<[op |-> "replaceCasbin", role |-> view.role, routes |-> SelectedKeys]>>, FALSE)

CasbinPage == SelectRole \/ ToggleKey \/ SaveCasbin

(***************************************************************************)
(* What a handler does when its requests have been answered.               *)
(***************************************************************************)
Closes(do) ==
    CASE do \in {"saveUser", "submitRole", "saveMenu", "saveApi"} -> "form"
      [] do \in {"assignUsers", "assignMenu", "assignApi"} -> "assign"
      [] do = "resetPassword" -> "reset"
      [] do = "savePermission" -> "permission"
      [] do = "delete" -> "delete"
      [] do = "batchDelete" -> "batch"
      [] do = "applySync" -> "sync"
      [] OTHER -> "none"

Reloading == {"saveUser", "delete", "toggleEnable", "submitRole", "dataScope", "savePermission",
              "saveMenu", "assignMenu", "saveApi", "batchDelete", "import", "applySync",
              "addOneSync", "saveCasbin"}

\* Handlers that load the session again before they are over.
Refreshing ==
    (IF page = "apis" THEN {} ELSE {"saveUser", "submitRole", "savePermission", "saveMenu", "assignMenu"})
    \cup (IF page \in {"roles", "menus"} THEN {"delete"} ELSE {})

After(c, v) ==
    CASE c.do = "openAssign" ->
            [v EXCEPT !.people = Ids(c.got), !.selected = Ids({u \in c.got : c.of \in u.roles})]
      [] c.do = "delete" /\ page = "apis" -> [v EXCEPT !.selected = @ \ {c.of}]
      [] c.do = "batchDelete" -> [v EXCEPT !.selected = {}]
      [] c.do = "previewSync" ->
            WithDialog([v EXCEPT !.preview = CHOOSE p \in c.got : TRUE], "sync", New, {})
      [] c.do = "applySync" -> [v EXCEPT !.preview = Preview]
      [] c.do = "addOneSync" -> [v EXCEPT !.preview.new = @ \ {c.of}]
      [] c.do = "ignoreSync" -> [v EXCEPT !.preview.ignore = c.got,
                                          !.preview.new = IF c.of \in c.got THEN @ \ {c.of}
                                                          ELSE @ \cup {c.of}]
      [] OTHER -> v

\* Fault: busy is reset where the handler succeeds, not in a finally.
OverWhenSaved(c, v) == IF c.failed THEN v
    ELSE [v EXCEPT !.busy = @ /\ c.do \notin Saving, !.syncBusy = @ /\ c.do \notin Syncing]

Over(c, v) == [v EXCEPT !.busy = @ /\ c.do \notin Saving, !.syncBusy = @ /\ c.do \notin Syncing]

Settle(c) ==
    /\ c.phase = "waiting"
    /\ IF c.failed
       THEN /\ CallEnds(c)
            /\ view' = Over(c, view)
            /\ list' = [list EXCEPT !.trouble = list.latest]
       ELSE LET closed == After(c, WithoutDialog(view, Closes(c.do)))
                refresh == c.do \in Refreshing
            IN  /\ c.wire = {} /\ c.todo = <<>>
                /\ IF refresh THEN Put(c, [c EXCEPT !.phase = "refreshing"]) ELSE CallEnds(c)
                /\ view' = IF refresh THEN closed ELSE Over(c, closed)
                /\ list' = IF c.do \in Reloading THEN Restarted(list, view.search)
                           ELSE IF c.do = "assignApi"
                           THEN [list EXCEPT !.shown.policies = c.of,
                                             !.trouble = IF list.loads = {} THEN @ ELSE list.latest]
                           ELSE list
    /\ UNCHANGED <<page, count, vars>>

SessionRefreshed(c) ==
    /\ c.phase = "refreshing"
    /\ CallEnds(c)
    /\ view' = Over(c, view)
    /\ UNCHANGED <<page, list, count, vars>>

(***************************************************************************)
(* Specification.                                                          *)
(***************************************************************************)
PagesInit ==
    /\ page \in Pages
    /\ view = [dialogs |-> <<>>, search |-> "", selected |-> {}, people |-> {}, busy |-> FALSE,
               syncBusy |-> FALSE, preview |-> [new |-> {}, delete |-> {}, ignore |-> {}],
               role |-> Super, draft |-> <<>>]
    /\ list = [shown |-> NoRows, from |-> 0, latest |-> 1, trouble |-> 0,
               loads |-> {[no |-> 1, search |-> "", got |-> <<>>]}]
    /\ pending = <<>>
    /\ count = [calls |-> 0, faults |-> 0]

UserActs ==
    \/ CloseDialog
    \/ page = "users" /\ UsersPage
    \/ page = "roles" /\ RolesPage
    \/ page = "menus" /\ MenusPage
    \/ page = "apis" /\ ApisPage
    \/ page = "casbin" /\ CasbinPage

PagesNext ==
    \/ UserActs
    \/ \E l \in list.loads : LoadInstalls(l) \/ LoadFails(l) \/ \E f \in Fetched : LoadReads(l, f)
    \/ \E n \in DOMAIN pending : Settle(pending[n]) \/ SessionRefreshed(pending[n])
    \/ \E n \in DOMAIN pending : \E q \in pending[n].wire :
          ServerReads(pending[n], q) \/ ServerSaves(pending[n], q) \/ RequestFails(pending[n], q)

PagesSpec == Init /\ PagesInit /\ [][PagesNext]_<<vars, pageVars>>

(***************************************************************************)
(* Properties                                                              *)
(***************************************************************************)
Quiet == list.loads = {} /\ \A n \in DOMAIN pending : pending[n].phase # "waiting" /\ pending[n].wire = {}

\* A page with nothing under way shows what the server holds, whatever order
\* its loads and changes were answered in.  It may show something else only
\* if nothing was loaded since a load failed, since a change failed half way,
\* or since an API was assigned to roles while a list was still on its way
\* (the effects of the five pages, and confirmAssignRole, which puts its own
\* copy of the policies on the page instead of loading them again).
QuietPageIsTrue ==
    Quiet /\ list.from > list.trouble =>
        \A f \in Fetched : Rows(f) = Answered(f, view.search)

\* The busy flag is set exactly while one save is under way: no form can be
\* sent twice, and none is locked for good by a save that failed (setBusy in
\* the pages' handlers and its finally, AdminDialog's disabled buttons).
BusyIsExact ==
    LET saving == {n \in DOMAIN pending : pending[n].do \in Saving /\ pending[n].phase # "over"}
    IN  IF view.busy THEN Cardinality(saving) = 1 ELSE saving = {}

=============================================================================
