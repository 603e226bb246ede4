----------------------------- MODULE TagsView ------------------------------
(***************************************************************************)
(* The tabs of the console's shell: one for every page that was visited,   *)
(* kept in the session storage, reordered by dragging and closed one by    *)
(* one or in groups.  Closing the current tab asks the router for another  *)
(* page, which comes later; until then an effect must not add the closed   *)
(* tab again.                                                              *)
(*                                                                         *)
(* A tab is its path: titles, icons and geometry are left out.  Where the  *)
(* pointer is decides at which index a dragged tab would be inserted: any  *)
(* index.  Only the home tab cannot be closed.  There is one pointer: no   *)
(* tab is closed while another is held.                                    *)
(***************************************************************************)
EXTENDS Naturals, SequencesExt

CONSTANTS
    Home,         \* HOME_TAB.path
    Paths,        \* the other pages
    MaxMoves      \* bound: navigations, closings and drags in a behaviour

VARIABLES
    stored,      \* sessionStorage: no list, or one
    hydrated,    \* tagsHydrated
    tags,        \* cachedClientSnapshot
    pathname,    \* the page that is shown
    pushed,      \* where the router is going: no path, or one
    suppressed,  \* suppressEnsurePathsRef
    stale,       \* the effect that ensures the current tab has not run yet
    menu,        \* rightTarget of the open context menu: no path, or one
    drag,        \* dragRef, baseTagsRef and insertIndexRef
    moves,       \* number of moves so far
    closed       \* history: tabs closed and not visited since

tagVars == <<stored, hydrated, tags, pathname, pushed, suppressed, stale, menu, drag, moves, closed>>

ServerSnapshot == <<Home>>
Closable(p) == p # Home
Held == drag.at \in {"down", "active"}

(***************************************************************************)
(* Lists of tabs.                                                          *)
(***************************************************************************)
\* No list has a path twice.
IndexOf(ts, p) == IF Contains(ts, p) THEN CHOOSE i \in DOMAIN ts : ts[i] = p ELSE 0

\* The tabs that cannot be closed, and those before the others.
Pinned(ts) == IF Contains(ts, Home) THEN <<Home>> ELSE <<>>
NormalizeTagOrder(ts) == IF Contains(ts, Home) THEN Pinned(ts) \o RemoveAt(ts, IndexOf(ts, Home)) ELSE ts

NormalizeTags(ts) == IF ts = <<>> THEN ServerSnapshot ELSE NormalizeTagOrder(ts)

EnsureTag(ts, p) == IF Contains(ts, p) THEN ts ELSE Append(ts, p)

\* insertAt is the index before which the tab is put in the old list.
MoveToIndex(ts, from, insertAt) ==
    IF from = insertAt THEN ts
    ELSE LET rest == RemoveAt(ts, from)
             to == IF insertAt > from THEN insertAt - 1 ELSE insertAt
         IN  InsertAt(rest, to, ts[from])

\* The index is kept to the right of the pinned tabs.
ComputeInsertIndex(ts, insertAt) ==
    LET pinned == Len(Pinned(ts))
    IN  IF insertAt > pinned THEN insertAt ELSE pinned + 1

(***************************************************************************)
(* Storing them.  The snapshot is renewed and the storage written at once; *)
(* whoever subscribed renders again and the effect is due.                 *)
(***************************************************************************)
PersistTags(ts) ==
    /\ stored' = {NormalizeTagOrder(ts)}
    /\ hydrated' = TRUE
    /\ tags' = NormalizeTagOrder(ts)
    /\ stale' = TRUE

(***************************************************************************)
(* The effect on tabs and path.                                            *)
(***************************************************************************)
\* Fault: nothing keeps the effect from adding a closed tab again.
NothingSuppressed == {}

\* A closed path is released when the router has left it.
Suppressed == suppressed \cap {pathname}

\* "rendered" are the tabs of the render that the effect belongs to.
Ensure(rendered) ==
    /\ suppressed' = Suppressed
    /\ IF pathname \in Suppressed \/ Contains(rendered, pathname)
       THEN stale' = FALSE /\ UNCHANGED <<stored, hydrated, tags>>
       ELSE PersistTags(EnsureTag(rendered, pathname))

EnsureEffect ==
    /\ stale /\ hydrated
    /\ Ensure(tags)
    /\ UNCHANGED <<pathname, pushed, menu, drag, moves, closed>>

\* The effects of the first render: hydrateTags takes the stored tabs, but the
\* effect after it still has the server's and may store those over them.
HydrateTags ==
    /\ ~hydrated
    /\ IF pathname = Home
       THEN /\ hydrated' = TRUE
            /\ tags' = IF stored = {} THEN ServerSnapshot
                       ELSE NormalizeTags(CHOOSE ts \in stored : TRUE)
            /\ stale' = TRUE
            /\ UNCHANGED <<stored, suppressed>>
       ELSE Ensure(ServerSnapshot)
    /\ UNCHANGED <<pathname, pushed, menu, drag, moves, closed>>

CommitTags(ts) ==
    /\ suppressed' = suppressed \cup (Range(tags) \ Range(ts))
    /\ closed' = closed \cup (Range(tags) \ Range(ts))
    /\ PersistTags(ts)

(***************************************************************************)
(* Navigation.                                                             *)
(***************************************************************************)
NavigateTo(p) == pushed' = IF p = pathname THEN pushed ELSE {p}

Move == moves < MaxMoves /\ moves' = moves + 1

\* A link, or the browser's history.
Visit(p) ==
    /\ Move
    /\ pushed' = {p}
    /\ UNCHANGED <<stored, hydrated, tags, pathname, suppressed, stale, menu, drag, closed>>

\* The router arrives at the page it was last sent to.
RouterArrives ==
    /\ pushed # {}
    /\ pathname' = CHOOSE p \in pushed : TRUE
    /\ pushed' = {}
    /\ stale' = (stale \/ pathname' # pathname)
    /\ closed' = IF pathname' = pathname THEN closed ELSE closed \ {pathname'}
    /\ UNCHANGED <<stored, hydrated, tags, suppressed, menu, drag, moves>>

(***************************************************************************)
(* Closing tabs.  The page renders the stored tabs unless one is dragged.  *)
(***************************************************************************)
CloseTag(p) ==
    LET i == IndexOf(tags, p)
        next == RemoveAt(tags, i)
    IN  /\ Move /\ menu = {}
        /\ Closable(p) /\ i > 0 /\ ~Held
        /\ CommitTags(NormalizeTags(next))
        /\ IF p = pathname
           THEN NavigateTo(IF i <= Len(next) THEN next[i] ELSE next[i - 1])
           ELSE UNCHANGED pushed
        /\ UNCHANGED <<pathname, menu, drag>>

OpenContextMenu(p) ==
    /\ Contains(tags, p) /\ menu = {} /\ ~Held
    /\ menu' = {p}
    /\ UNCHANGED <<stored, hydrated, tags, pathname, pushed, suppressed, stale, drag, moves, closed>>

\* What the context menu leaves of the tabs, and where it goes.
Group(next, go) ==
    /\ Move
    /\ menu' = {}
    /\ CommitTags(NormalizeTags(next))
    /\ IF go = {} THEN UNCHANGED pushed ELSE NavigateTo(CHOOSE p \in go : TRUE)
    /\ UNCHANGED <<pathname, drag>>

CloseAll == menu # {} /\ Group(ServerSnapshot, {Home})

CloseOthers == \E p \in menu :
    Group(IF Closable(p) THEN Append(Pinned(tags), p) ELSE Pinned(tags), {p})

CloseRight == \E p \in menu :
    LET next == SubSeq(tags, 1, IndexOf(tags, p))
    IN  /\ next # <<>>
        /\ Group(next, IF Contains(next, pathname) THEN {} ELSE {Last(next)})

CloseLeft == \E p \in menu :
    LET i == IndexOf(tags, p)
        next == Pinned(SubSeq(tags, 1, i - 1)) \o SubSeq(tags, i, Len(tags))
    IN  i > 0 /\ Group(next, IF Contains(next, pathname) THEN {} ELSE {p})

(***************************************************************************)
(* Dragging.  The list at the beginning of the drag is moved at its end.   *)
(***************************************************************************)
NoDrag == [at |-> "none", path |-> Home, from |-> 0, base |-> <<>>, insert |-> 0, again |-> 0]

Dragging(d) ==
    /\ drag' = d
    /\ UNCHANGED <<stored, hydrated, tags, pathname, pushed, suppressed, stale, menu, closed>>

OnMouseDown(p) ==
    /\ Move
    /\ ~Held /\ menu = {}
    /\ Closable(p) /\ Contains(tags, p)
    /\ Dragging(IF drag.at = "none"
                THEN [NoDrag EXCEPT !.at = "down", !.path = p, !.from = IndexOf(tags, p)]
                ELSE [drag EXCEPT !.again = IndexOf(tags, p)])

\* The first move of some pixels makes it a drag.
OnMouseMove ==
    \/ /\ drag.at = "down"
       /\ Dragging([drag EXCEPT !.at = "active", !.base = tags, !.insert = drag.from])
       /\ UNCHANGED moves
    \/ /\ drag.at = "active"
       /\ \E i \in 1..(Len(drag.base) + 1) :
             Dragging([drag EXCEPT !.insert = ComputeInsertIndex(drag.base, i)])
       /\ UNCHANGED moves

OnMouseUp ==
    \/ /\ drag.at = "down"
       /\ NavigateTo(drag.path)
       /\ drag' = NoDrag
       /\ UNCHANGED <<stored, hydrated, tags, pathname, suppressed, stale, menu, moves, closed>>
    \/ /\ drag.at = "active"
       /\ Dragging([drag EXCEPT !.at = "settling"])
       /\ UNCHANGED moves

\* The timer of the drop fires, or its animation ends; the animation's handler
\* takes the tab that was pressed last.  Tabs that were closed since the drag
\* began come back.  (A press on a tab that is not in the old list is left out.)
CompleteDrop ==
    /\ drag.at = "settling"
    /\ \E from \in {drag.from, drag.again} \cap DOMAIN drag.base :
          LET next == MoveToIndex(drag.base, from, drag.insert)
          IN  /\ IF next = tags THEN UNCHANGED <<stored, hydrated, tags, stale>> ELSE PersistTags(next)
              /\ closed' = closed \ Range(next)
    /\ drag' = NoDrag
    /\ UNCHANGED <<pathname, pushed, suppressed, menu, moves>>

TagsInit ==
    /\ stored \in {{}, {<<Home>>}} \cup {{<<Home, p>>} : p \in Paths}
    /\ hydrated = FALSE
    /\ tags = ServerSnapshot
    /\ pathname \in {Home} \cup Paths
    /\ pushed = {}
    /\ suppressed = {}
    /\ stale = TRUE
    /\ menu = {}
    /\ drag = NoDrag
    /\ moves = 0
    /\ closed = {}

\* A change of the store renders at once and its effects run with it, before
\* the next event.
TagsNext ==
    \/ HydrateTags
    \/ EnsureEffect
    \/ /\ ~stale
       /\ \/ RouterArrives
          \/ CloseAll \/ CloseOthers \/ CloseRight \/ CloseLeft
          \/ OnMouseMove \/ OnMouseUp \/ CompleteDrop
          \/ \E p \in {Home} \cup Paths :
                Visit(p) \/ CloseTag(p) \/ OpenContextMenu(p) \/ OnMouseDown(p)

TagsSpec == TagsInit /\ [][TagsNext]_tagVars

(***************************************************************************)
(* Properties                                                              *)
(***************************************************************************)
\* The tabs follow the visits.  A tab that was closed stays closed until its
\* page is visited again, although the router is still on that page when the
\* effect runs; and when the router is at rest the page that is shown has its
\* tab.  It may lack one only if the tab was closed and the navigation to
\* another page was overtaken by one back (suppressEnsurePathsRef, commitTags
\* and the effect that calls ensureTag).
TabsFollowVisits ==
    /\ closed \cap Range(tags) = {}
    /\ hydrated /\ ~stale /\ pushed = {} => pathname \in Range(tags) \cup closed
=============================================================================
