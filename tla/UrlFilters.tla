---------------------------- MODULE UrlFilters -----------------------------
(***************************************************************************)
(* The filters of the console's four governance pages and the address of   *)
(* the browser.  A change of a filter is written to the address by an      *)
(* effect, as a new entry of the browser's history or over the current     *)
(* one; going back or forth sets the filters from the entry's address, and *)
(* the effect that follows must not write.                                 *)
(*                                                                         *)
(* A choice has its default and one "other" value, a search is blank, "x"  *)
(* or "x " before it is trimmed.  An address is the function of the        *)
(* parameters it holds.  React runs the effect of a render that a click,   *)
(* a key or the browser's history caused before the next event; that of    *)
(* any other render is "due" for a while, and is flushed before the next   *)
(* render.  Entries of other pages are left out: leaving a page and coming *)
(* back is a load of it.                                                   *)
(***************************************************************************)
EXTENDS Naturals, SequencesExt

CONSTANTS
    KnownIds,          \* ids of projects, or names of roles
    Stray,        \* an address as somebody typed it
    MaxActs       \* bound: changes, moves through the history, copies and loads

\* Parameters are trimmed and an empty one is none, so only such ids are found.
ASSUME IdAssumption == {"", "x "} \cap KnownIds = {}

VARIABLES
    mounted,         \* the page that is mounted
    known,        \* the ids that its data holds
    filters,      \* the state of its filters
    hist,         \* entries of the browser, where it is, and the hook's refs
    due,          \* the effect of the last render has not run
    feedback,     \* a message is shown
    copying,      \* the clipboard has not answered
    acts,         \* number of acts so far
    absorbed      \* history: a change met the flag that an idle move left set

urlVars == <<mounted, known, filters, hist, due, feedback, copying, acts, absorbed>>

Views == {"services", "environments", "integrations", "security"}
Address == hist.entries[hist.at]

(***************************************************************************)
(* From an address to filters and back.                                    *)
(***************************************************************************)
NormalizeGovernanceSearch(v) == IF v = "x " THEN "x" ELSE v
ResolveScopedProjectId(v) == IF v \in known THEN v ELSE ""
ResolveSecurityRoleFilter(v) == IF v \in known THEN v ELSE "all"

Default(k) == IF k = "sort" THEN "risk" ELSE "all"
ResolveChoice(k, v) == IF v = "other" THEN v ELSE Default(k)

Get(a, k) == IF k \in DOMAIN a THEN a[k] ELSE ""

Resolved(a, ids, searches, choices) ==
    [k \in ids \cup searches \cup choices |->
        IF k \in ids THEN ResolveScopedProjectId(Get(a, k))
        ELSE IF k \in searches THEN NormalizeGovernanceSearch(Get(a, k))
        ELSE ResolveChoice(k, Get(a, k))]

\* Parameters at their default are left out.
Present(f, ids, searches, choices) ==
    LET text(k) == NormalizeGovernanceSearch(f[k])
        set == {k \in ids \cup searches : text(k) # ""} \cup {k \in choices : f[k] # Default(k)}
    IN  [k \in set |-> IF k \in choices THEN f[k] ELSE text(k)]

ResolveServicesFilterState(a) ==
    Resolved(a, {"projectId"}, {"search"}, {"category", "environment", "status", "sort"})
BuildServicesHref(f) ==
    Present(f, {"projectId"}, {"search"}, {"category", "environment", "status", "sort"})

ResolveEnvironmentsFilterState(a) == Resolved(a, {}, {"search"}, {"environment", "status", "sort"})
BuildEnvironmentsHref(f) == Present(f, {}, {"search"}, {"environment", "status", "sort"})

IntegrationChoices ==
    {"environment", "status", "coverage", "sort", "inventoryArea", "inventorySecurity"}
ResolveIntegrationsFilterState(a) ==
    Resolved(a, {"projectId"}, {"search", "inventorySearch"}, IntegrationChoices)
BuildIntegrationsHref(f) ==
    Present(f, {"projectId"}, {"search", "inventorySearch"}, IntegrationChoices)

ResolveSecurityFilterState(a) ==
    [k \in {"focus", "status", "role", "search"} |->
        IF k = "role" THEN ResolveSecurityRoleFilter(Get(a, k))
        ELSE Resolved(a, {}, {"search"}, {"focus", "status"})[k]]
BuildSecurityHref(f) == Present(f, {}, {"search"}, {"focus", "status", "role"})

Resolve(a) ==
    CASE mounted = "services" -> ResolveServicesFilterState(a)
      [] mounted = "environments" -> ResolveEnvironmentsFilterState(a)
      [] mounted = "integrations" -> ResolveIntegrationsFilterState(a)
      [] mounted = "security" -> ResolveSecurityFilterState(a)

GetCurrentHref(f) ==
    CASE mounted = "services" -> BuildServicesHref(f)
      [] mounted = "environments" -> BuildEnvironmentsHref(f)
      [] mounted = "integrations" -> BuildIntegrationsHref(f)
      [] mounted = "security" -> BuildSecurityHref(f)

(***************************************************************************)
(* Which changes make a new entry: any but that of a search.               *)
(***************************************************************************)
Differ(f, g, keys) == \E k \in keys : f[k] # g[k]
ShouldPushServicesHistory(f, g) ==
    Differ(f, g, {"projectId", "category", "environment", "status", "sort"})
ShouldPushEnvironmentsHistory(f, g) == Differ(f, g, {"environment", "status", "sort"})
ShouldPushIntegrationsHistory(f, g) == Differ(f, g, {"projectId"} \cup IntegrationChoices)
ShouldPushSecurityHistory(f, g) == Differ(f, g, {"focus", "status", "role"})

ShouldPushHistory(f, g) ==
    CASE mounted = "services" -> ShouldPushServicesHistory(f, g)
      [] mounted = "environments" -> ShouldPushEnvironmentsHistory(f, g)
      [] mounted = "integrations" -> ShouldPushIntegrationsHistory(f, g)
      [] mounted = "security" -> ShouldPushSecurityHistory(f, g)

(***************************************************************************)
(* The effect, on the refs and the browser, after a render with filters f. *)
(***************************************************************************)
Committed(f) == {[href |-> GetCurrentHref(f), state |-> f]}
ReplaceState(h, a) == [h EXCEPT !.entries[h.at] = a]
PushState(h, a) ==
    [h EXCEPT !.entries = Append(SubSeq(h.entries, 1, h.at), a), !.at = h.at + 1]

\* Fault: an effect that is skipped leaves the last href as it was.
EffectKeepsLast(h, f) ==
    LET href == GetCurrentHref(f)
        done == [h EXCEPT !.committed = Committed(f)]
    IN  IF h.skip THEN [h EXCEPT !.skip = FALSE]
        ELSE IF h.committed = {} THEN ReplaceState(done, href)
        ELSE LET last == CHOOSE c \in h.committed : TRUE
             IN  CASE href = last.href -> h
                   [] href # last.href /\ href = h.entries[h.at] -> done
                   [] OTHER -> IF ShouldPushHistory(last.state, f)
                               THEN PushState(done, href) ELSE ReplaceState(done, href)

Effect(h, f) ==
    LET href == GetCurrentHref(f)
        done == [h EXCEPT !.committed = Committed(f)]
    IN  IF h.skip THEN [done EXCEPT !.skip = FALSE]
        ELSE IF h.committed = {} THEN ReplaceState(done, href)
        ELSE LET last == CHOOSE c \in h.committed : TRUE
             IN  CASE href = last.href -> h
                   [] href # last.href /\ href = h.entries[h.at] -> done
                   [] OTHER -> IF ShouldPushHistory(last.state, f)
                               THEN PushState(done, href) ELSE ReplaceState(done, href)

\* What an event does to the refs and the browser before the page renders is
\* "h"; clearing a message that is shown renders the page too.
Rendered(h, f, clears) ==
    /\ filters' = f
    /\ feedback' = (feedback /\ ~clears)
    /\ IF f # filters \/ (feedback /\ clears)
       THEN hist' = Effect(IF due THEN Effect(h, filters) ELSE h, f) /\ due' = FALSE
       ELSE hist' = h /\ UNCHANGED due

Act == acts < MaxActs /\ acts' = acts + 1

(***************************************************************************)
(* Loading a page.                                                         *)
(***************************************************************************)
\* The route resolves the address against the data it has just read, the
\* page resolves it again, and its first effect is due.
Mount(v, ids, entries, i) ==
    /\ mounted' = v /\ known' = ids
    /\ hist' = [entries |-> entries, at |-> i, committed |-> {}, skip |-> FALSE]
    /\ due' = TRUE
    /\ feedback' = FALSE /\ copying' = FALSE /\ absorbed' = FALSE

ServicesRoute(ids) == mounted = "services" /\ Mount(mounted, ids, hist.entries, hist.at)
EnvironmentsRoute(ids) == mounted = "environments" /\ Mount(mounted, ids, hist.entries, hist.at)
IntegrationsRoute(ids) == mounted = "integrations" /\ Mount(mounted, ids, hist.entries, hist.at)
SecurityRoute(ids) == mounted = "security" /\ Mount(mounted, ids, hist.entries, hist.at)

InitialFilters == filters' = Resolve(Address)'

LoadPage(ids) ==
    /\ Act
    /\ \/ ServicesRoute(ids) \/ EnvironmentsRoute(ids) \/ IntegrationsRoute(ids) \/ SecurityRoute(ids)
    /\ InitialFilters

(***************************************************************************)
(* What a user does on a page.                                             *)
(***************************************************************************)
Change(f, clears) ==
    /\ Act
    /\ Rendered(hist, f, clears)
    /\ absorbed' = \/ hist.skip /\ ~due
                   \/ absorbed /\ hist'.entries = hist.entries
    /\ UNCHANGED <<mounted, known, copying>>

\* An input leaves the message alone; a button clears it first.
Input(k, v) == v # filters[k] /\ Change([filters EXCEPT ![k] = v], FALSE)

Inputs(searches, choices) ==
    \/ \E k \in searches, v \in {"", "x", "x "} : Input(k, v)
    \/ \E k \in choices : \E v \in {Default(k), "other"} : Input(k, v)

Cleared(keys) ==
    [k \in DOMAIN filters |->
        IF k \notin keys THEN filters[k]
        ELSE IF k \in {"search", "inventorySearch", "projectId"} THEN "" ELSE Default(k)]

ServicesFilters ==
    /\ mounted = "services"
    /\ Inputs({"search"}, {"category", "environment", "status", "sort"})
EnvironmentsFilters ==
    /\ mounted = "environments"
    /\ Inputs({"search"}, {"environment", "status", "sort"})
IntegrationsFilters ==
    /\ mounted = "integrations"
    /\ Inputs({"search"}, {"environment", "status", "coverage", "sort"})
InventoryFilters ==
    /\ mounted = "integrations"
    /\ Inputs({"inventorySearch"}, {"inventoryArea", "inventorySecurity"})
SecurityFilters ==
    /\ mounted = "security"
    /\ \/ Inputs({"search"}, {"focus", "status"})
       \/ \E v \in known \cup {"all"} : Input("role", v)

ServicesButtons ==
    /\ mounted = "services"
    /\ \/ filters["projectId"] # "" /\ Change(Cleared({"projectId"}), TRUE)
       \/ Change(Cleared(DOMAIN filters \ {"projectId"}), TRUE)
EnvironmentsButtons ==
    /\ mounted = "environments"
    /\ \/ filters["environment"] # "all" /\ Change(Cleared({"environment"}), TRUE)
       \/ Change(Cleared(DOMAIN filters), TRUE)
IntegrationsButtons ==
    /\ mounted = "integrations"
    /\ \/ filters["projectId"] # "" /\ Change(Cleared({"projectId"}), TRUE)
       \/ Change(Cleared({"search", "environment", "status", "coverage", "sort"}), TRUE)
SecurityButtons == mounted = "security" /\ Change(Cleared(DOMAIN filters), TRUE)

HandleCopyCurrentView ==
    /\ Act
    /\ ~copying
    /\ Rendered(hist, filters, TRUE)
    /\ copying' = TRUE
    /\ UNCHANGED <<mounted, known, absorbed>>

Copied ==
    /\ copying
    /\ copying' = FALSE /\ feedback' = TRUE /\ due' = TRUE
    /\ UNCHANGED <<mounted, known, filters, hist, acts, absorbed>>

FeedbackExpires ==
    /\ feedback
    /\ feedback' = FALSE /\ due' = TRUE
    /\ UNCHANGED <<mounted, known, filters, hist, copying, acts, absorbed>>

(***************************************************************************)
(* The browser and React.                                                  *)
(***************************************************************************)
Marked(h) == [h EXCEPT !.skip = TRUE]

\* Before the first effect nobody listens.
HandlePopState(i, f) ==
    /\ Act
    /\ i \in DOMAIN hist.entries \ {hist.at}
    /\ IF hist.committed = {}
       THEN hist' = [hist EXCEPT !.at = i] /\ UNCHANGED <<filters, feedback, due, absorbed>>
       ELSE /\ Rendered(Marked([hist EXCEPT !.at = i]), f, TRUE)
            /\ absorbed' = FALSE
    /\ UNCHANGED <<mounted, known, copying>>

SyncServices(i) ==
    mounted = "services" /\ HandlePopState(i, ResolveServicesFilterState(hist.entries[i]))
SyncEnvironments(i) ==
    mounted = "environments" /\ HandlePopState(i, ResolveEnvironmentsFilterState(hist.entries[i]))
SyncIntegrations(i) ==
    mounted = "integrations" /\ HandlePopState(i, ResolveIntegrationsFilterState(hist.entries[i]))
SyncSecurity(i) ==
    mounted = "security" /\ HandlePopState(i, ResolveSecurityFilterState(hist.entries[i]))

PopState ==
    \E i \in DOMAIN hist.entries :
        SyncServices(i) \/ SyncEnvironments(i) \/ SyncIntegrations(i) \/ SyncSecurity(i)

\* A provider above the page renders it again.
Rerender ==
    /\ ~due /\ due' = TRUE
    /\ UNCHANGED <<mounted, known, filters, hist, feedback, copying, acts, absorbed>>

EffectRuns ==
    /\ due /\ due' = FALSE
    /\ hist' = Effect(hist, filters)
    /\ UNCHANGED <<mounted, known, filters, feedback, copying, acts, absorbed>>

UrlInit ==
    /\ mounted \in Views
    /\ known \in SUBSET KnownIds
    /\ \E a \in {<<>>, Stray} :
           hist = [entries |-> <<a>>, at |-> 1, committed |-> {}, skip |-> FALSE]
    /\ filters = Resolve(Address)
    /\ due = TRUE
    /\ feedback = FALSE /\ copying = FALSE
    /\ acts = 0 /\ absorbed = FALSE

UrlNext ==
    \/ \E ids \in SUBSET KnownIds : LoadPage(ids)
    \/ ServicesFilters \/ EnvironmentsFilters \/ IntegrationsFilters \/ InventoryFilters
    \/ SecurityFilters
    \/ ServicesButtons \/ EnvironmentsButtons \/ IntegrationsButtons \/ SecurityButtons
    \/ HandleCopyCurrentView \/ Copied \/ FeedbackExpires
    \/ PopState
    \/ Rerender \/ EffectRuns

UrlSpec == UrlInit /\ [][UrlNext]_urlVars

(***************************************************************************)
(* Properties.                                                             *)
(***************************************************************************)
\* Once the effects have run, the address that "copy this view" hands out
\* leads to the filters that are shown, whatever was changed, gone back to,
\* loaded or cleared on the way (use-url-filter-history.ts).  The exception
\* is the code's: a move between two entries with the same filters renders
\* nothing, its flag stays set, and the next change is not written.
AddressShowsView ==
    ~due /\ ~absorbed => Resolve(Address) = Resolve(GetCurrentHref(filters))

\* Moving through the history rewrites none of it, even to an entry whose id
\* is no longer known: what lies ahead can still be reached.  The exception is
\* an effect that was due when the browser moved: it takes the flag, and the
\* effect of the move itself then writes.
MovesKeepHistory ==
    [][PopState /\ ~due => hist'.entries = hist.entries]_urlVars
=============================================================================
