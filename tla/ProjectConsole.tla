--------------------------- MODULE ProjectConsole --------------------------
(***************************************************************************)
(* The catalog of projects that the console's shell keeps, the project     *)
(* that is selected in it and remembered by the browser, and the editor of *)
(* projects on the "create" page and on a project's own page.  A handler   *)
(* of the editor goes on after its request with what the page held when it *)
(* was clicked, also when the page is gone; its buttons are never disabled *)
(* during a request, since the transition it starts ends at once.          *)
(*                                                                         *)
(* A project is its id and a draft the id it was made from: "" for a new   *)
(* one.  The provider lives as long as the page: the load of its first     *)
(* render is never cancelled.                                              *)
(***************************************************************************)
EXTENDS Naturals, SequencesExt

CONSTANTS
    ConsoleIds,          \* ids of projects
    MaxClicks,    \* bound: clicks on "save" and "delete"
    MaxSteps      \* bound: clicks, visits and choices, failed requests, changes by somebody else

VARIABLES
    catalog,      \* the server: its projects, in order
    projects,     \* the provider's catalog
    selected,     \* selectedProjectId
    remembered,        \* localStorage
    effected,     \* dependencies for which the provider's effect last ran
    route,        \* "create", "list" or the id of a project
    heading,        \* where the router is going: no route, or one
    console,      \* the editor: its mount, list, linked and active id, mode, draft
    handlers,     \* saves and removals under way
    loads,        \* the load of the first render, while it is under way
    clicks,       \* number of clicks so far
    steps,        \* number of steps that are bounded so far
    overlap,      \* history: two of these were under way at once
    failed        \* history: a request failed, or somebody else made a change

consoleVars == <<catalog, projects, selected, remembered, effected, route, heading, console,
                 handlers, loads, clicks, steps, overlap, failed>>

Step == steps < MaxSteps /\ steps' = steps + 1

(***************************************************************************)
(* The provider.                                                           *)
(***************************************************************************)
ResolveProjectSelection(ps, id) ==
    IF id \in Range(ps) THEN id ELSE IF ps = <<>> THEN "" ELSE ps[1]

ExtractProjectIdFromLocation == IF route \in ConsoleIds THEN route ELSE ""

SelectedProject ==
    LET nav == ExtractProjectIdFromLocation
    IN  ResolveProjectSelection(projects, IF nav \in Range(projects) THEN nav ELSE selected)

\* "ps" is the catalog of the render that the caller belongs to.
SetSelectedProjectId(ps, id) ==
    /\ remembered' = ResolveProjectSelection(ps, id)
    /\ selected' = remembered'

Install(ps, id) ==
    /\ projects' = ps
    /\ SetSelectedProjectId(ps, id)

NavigationEffect ==
    LET deps == <<ExtractProjectIdFromLocation, SelectedProject>>
    IN  /\ effected # deps /\ effected' = deps
        /\ remembered' = IF deps[1] # "" /\ deps[1] = deps[2] THEN deps[1] ELSE remembered
        /\ UNCHANGED <<catalog, projects, selected, route, heading, console, handlers, loads, clicks, steps,
                       overlap, failed>>

\* A load: the server reads, the answer comes.
ServerLists(l) ==
    /\ l.at = "sent"
    /\ loads' = (loads \ {l}) \cup {[l EXCEPT !.at = "listed", !.got = catalog]}
    /\ UNCHANGED <<catalog, projects, selected, remembered, effected, route, heading, console, handlers,
                   clicks, steps, overlap, failed>>

SyncProjects(l) ==
    /\ l.at \in {"listed", "failed"}
    /\ loads' = loads \ {l}
    /\ Install(IF l.at = "failed" THEN <<>> ELSE l.got, IF l.at = "failed" THEN "" ELSE remembered)
    /\ UNCHANGED <<catalog, effected, route, heading, console, handlers, clicks, steps, overlap, failed>>

\* The command palette and the settings.  From other pages than a project's it
\* is the list that is asked for, with the id in its address.
HandleProjectChange(id) ==
    /\ Step
    /\ id \in Range(projects)
    /\ SetSelectedProjectId(projects, id)
    /\ heading' = {IF route \in ConsoleIds THEN id ELSE "list"}
    /\ UNCHANGED <<clicks, catalog, projects, effected, route, console, handlers, loads, overlap, failed>>

(***************************************************************************)
(* The editor: drafts.                                                     *)
(***************************************************************************)
CreateEmptyDraft == [of |-> "", edited |-> FALSE]
ToDraft(id) == [of |-> id, edited |-> FALSE]
DraftOf(list) == IF list = <<>> THEN CreateEmptyDraft ELSE ToDraft(list[1])
FirstOf(list) == IF list = <<>> THEN "" ELSE list[1]

\* What a new draft lacks has to be filled in.
ValidateDraft(d) == d.of # "" \/ d.edited

ActiveProject == IF console.active \in Range(console.list) THEN console.active ELSE ""

UpsertProject(list, id) == IF id \in Range(list) THEN list ELSE <<id>> \o list

\* The page of a project that is gone has no editor, nor has the list.
InitialConsole(n, r) ==
    LET list == IF r \in Range(catalog) THEN <<r>> ELSE <<>>
    IN  [mount |-> n, list |-> list, linked |-> FirstOf(list), active |-> FirstOf(list),
         creating |-> r = "create", draft |-> DraftOf(list)]

HasEditor == route = "create" \/ console.list # <<>> \/ console.creating

Edit(c) ==
    /\ HasEditor
    /\ c # console
    /\ console' = c
    /\ UNCHANGED <<catalog, projects, effected, route, heading, handlers, loads, clicks, steps, overlap, failed>>

\* Any field, server or service of the draft.
UpdateDraft ==
    /\ Edit([console EXCEPT !.draft.edited = TRUE])
    /\ UNCHANGED <<selected, remembered>>

CreateNewDraft ==
    /\ route = "create"
    /\ Edit([console EXCEPT !.creating = TRUE, !.linked = "", !.active = "", !.draft = CreateEmptyDraft])
    /\ SetSelectedProjectId(projects, "")

SelectProject(id) ==
    /\ id \in Range(console.list)
    /\ Edit([console EXCEPT !.creating = FALSE, !.linked = id, !.active = id, !.draft = ToDraft(id)])
    /\ SetSelectedProjectId(projects, id)

(***************************************************************************)
(* The editor: saving and deleting.                                        *)
(***************************************************************************)
NothingPending == handlers = {} /\ loads = {}

\* A click, with what the handler keeps of the render it belongs to.
Click(kind) ==
    /\ Step /\ clicks < MaxClicks /\ clicks' = clicks + 1
    /\ HasEditor
    /\ handlers' = handlers \cup
           {[n |-> clicks, kind |-> kind, at |-> "sent", target |-> ActiveProject,
             mount |-> console.mount, list |-> console.list, linked |-> console.linked,
             projects |-> projects, id |-> "", got |-> <<>>]}
    /\ overlap' = (overlap \/ ~NothingPending)
    /\ UNCHANGED <<catalog, projects, selected, remembered, effected, route, heading, console, loads, failed>>

SaveProject == ValidateDraft(console.draft) /\ Click("save")
RemoveProject == ActiveProject # "" /\ ~console.creating /\ Click("remove")

HandlerBecomes(h, g) == handlers' = (handlers \ {h}) \cup {g}
Asking == UNCHANGED <<projects, selected, remembered, effected, route, heading, console, loads, clicks, steps, overlap, failed>>

\* PUT, POST and DELETE of the server; a project that is gone is refused.
ServerPuts(h) ==
    /\ h.at = "sent" /\ h.kind = "save" /\ h.target # ""
    /\ HandlerBecomes(h, [h EXCEPT !.at = IF h.target \in Range(catalog) THEN "answered" ELSE "refused", !.id = h.target])
    /\ UNCHANGED catalog
    /\ Asking

ServerPosts(h, id) ==
    /\ h.at = "sent" /\ h.kind = "save" /\ h.target = ""
    /\ id \notin Range(catalog)
    /\ catalog' = Append(catalog, id)
    /\ HandlerBecomes(h, [h EXCEPT !.at = "answered", !.id = id])
    /\ Asking

ServerDeletes(h) ==
    /\ h.at = "sent" /\ h.kind = "remove"
    /\ IF h.target \in Range(catalog)
       THEN /\ catalog' = SelectSeq(catalog, LAMBDA id : id # h.target)
            /\ HandlerBecomes(h, [h EXCEPT !.at = "answered"])
       ELSE HandlerBecomes(h, [h EXCEPT !.at = "refused"]) /\ UNCHANGED catalog
    /\ Asking

\* What a handler does to an editor that is gone is lost.
Mounted(h, c) == console' = IF h.mount = console.mount THEN c ELSE console

Settling(h) ==
    /\ h.at = "answered"
    /\ HandlerBecomes(h, [h EXCEPT !.at = "refresh"])
    /\ UNCHANGED <<catalog, projects, effected, route, heading, loads, clicks, steps, overlap, failed>>

SaveAnswered(h) ==
    /\ h.kind = "save"
    /\ Settling(h)
    /\ Mounted(h, [console EXCEPT !.creating = FALSE, !.linked = h.id, !.active = h.id, !.draft = ToDraft(h.id),
                                  !.list = UpsertProject(console.list, h.id)])
    /\ SetSelectedProjectId(h.projects, h.id)

\* The list that is left is that of the click.
Left(h) == SelectSeq(h.list, LAMBDA id : id # h.target)

RemoveAnswered(h) ==
    /\ h.kind = "remove"
    /\ Settling(h)
    /\ Mounted(h, [console EXCEPT !.list = Left(h), !.creating = Left(h) = <<>>, !.active = FirstOf(Left(h)),
                                  !.linked = IF h.linked = "" THEN "" ELSE FirstOf(Left(h)),
                                  !.draft = DraftOf(Left(h))])
    /\ SetSelectedProjectId(h.projects, FirstOf(Left(h)))

Preferred(h) == IF h.kind = "save" THEN h.id ELSE FirstOf(Left(h))

\* Fault: the catalog is read with the first request, not after it.
ListedWithRequest(h) == h.projects

Listed(h) == catalog

RefreshLists(h) ==
    /\ h.at = "refresh"
    /\ HandlerBecomes(h, [h EXCEPT !.at = "listed", !.got = Listed(h)])
    /\ UNCHANGED catalog
    /\ Asking

\* The refresh swallows its failure; the page of the project, or the list, is
\* asked for either way.
RefreshProjects(h) ==
    /\ h.at \in {"listed", "unlisted"}
    /\ handlers' = handlers \ {h}
    /\ heading' = {IF h.kind = "save" THEN h.id ELSE "list"}
    /\ IF h.at = "unlisted" THEN UNCHANGED <<projects, selected, remembered>>
       ELSE Install(h.got, Preferred(h))
    /\ UNCHANGED <<catalog, effected, route, console, loads, clicks, steps, overlap, failed>>

\* Only a message is shown.
ShowError(h) ==
    /\ h.at \in {"refused", "failed"}
    /\ handlers' = handlers \ {h}
    /\ UNCHANGED catalog
    /\ Asking

(***************************************************************************)
(* Everything else: the router, the network, somebody else.                *)
(***************************************************************************)
Visits(r) ==
    /\ Step
    /\ r # route /\ heading' = {r}
    /\ UNCHANGED <<clicks, catalog, projects, selected, remembered, effected, route, console, handlers, loads, overlap, failed>>

\* The page is rendered by the server.  The editor of a project's page is a new
\* one if a column of its key has changed, and none if the project is gone.
ArriveAt(r) ==
    /\ heading = {r} /\ heading' = {}
    /\ route' = r
    /\ \/ r = route /\ r \notin ConsoleIds \ Range(catalog) /\ UNCHANGED console
       \/ (r # route \/ r \in ConsoleIds) /\ console' = InitialConsole(console.mount + 1, r)
    /\ UNCHANGED <<catalog, projects, selected, remembered, effected, handlers, loads, clicks, steps, overlap, failed>>

Mishap ==
    /\ Step
    /\ failed' = TRUE
    /\ UNCHANGED <<clicks, projects, selected, remembered, effected, route, heading, console, overlap>>

RequestFailed ==
    /\ Mishap
    /\ UNCHANGED catalog
    /\ \/ \E l \in loads : l.at = "sent" /\ loads' = (loads \ {l}) \cup {[l EXCEPT !.at = "failed"]} /\ UNCHANGED handlers
       \/ \E h \in handlers :
              /\ h.at \in {"sent", "refresh"}
              /\ HandlerBecomes(h, [h EXCEPT !.at = IF h.at = "sent" THEN "failed" ELSE "unlisted"])
              /\ UNCHANGED loads

SomebodyDeletes(id) ==
    /\ Mishap
    /\ id \in Range(catalog) /\ catalog' = SelectSeq(catalog, LAMBDA i : i # id)
    /\ UNCHANGED <<handlers, loads>>

ProjectsInit ==
    /\ catalog \in {ps \in SeqOf(ConsoleIds, 2) : IsInjective(ps)}
    /\ projects = <<>> /\ selected = ""
    /\ remembered \in ConsoleIds \cup {""}
    /\ effected = <<"", "">>
    /\ route \in {"create"} \cup Range(catalog)
    /\ heading = {}
    /\ console = InitialConsole(0, route)
    /\ handlers = {}
    /\ loads = {[at |-> "sent", got |-> <<>>]}
    /\ clicks = 0 /\ steps = 0
    /\ overlap = FALSE /\ failed = FALSE

ProjectsNext ==
    \/ NavigationEffect
    \/ \E l \in loads : ServerLists(l) \/ SyncProjects(l)
    \/ \E id \in ConsoleIds : HandleProjectChange(id) \/ SelectProject(id) \/ SomebodyDeletes(id)
    \/ UpdateDraft \/ CreateNewDraft \/ SaveProject \/ RemoveProject
    \/ \E h \in handlers :
          \/ ServerPuts(h) \/ ServerDeletes(h) \/ \E id \in ConsoleIds : ServerPosts(h, id)
          \/ SaveAnswered(h) \/ RemoveAnswered(h) \/ RefreshLists(h) \/ RefreshProjects(h) \/ ShowError(h)
    \/ \E r \in ConsoleIds \cup {"create", "list"} : Visits(r) \/ ArriveAt(r)
    \/ RequestFailed

ConsoleSpec == ProjectsInit /\ [][ProjectsNext]_consoleVars

(***************************************************************************)
(* Properties.                                                             *)
(***************************************************************************)
RememberedIsListed ==
    NothingPending /\ ~failed =>
        /\ remembered = ResolveProjectSelection(projects, remembered)
        /\ SelectedProject = ResolveProjectSelection(projects, SelectedProject)

ShownIsServed == NothingPending /\ ~overlap /\ ~failed => projects = catalog

\* When every request is over and none failed, the project that the browser
\* remembers is one of the catalog, however saves, removals and choices with
\* outdated catalogs came in between (project-provider.tsx); and if moreover no
\* two were under way at once and nobody else made a change, the shell's catalog
\* is the server's: a saved project is in it and a deleted one is not
\* (refreshProjects after the handlers' requests).
QuietCatalogIsTrue == RememberedIsListed /\ ShownIsServed
=============================================================================
