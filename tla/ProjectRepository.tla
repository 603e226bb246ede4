------------------------- MODULE ProjectRepository -------------------------
(***************************************************************************)
(* The managed projects of the console: kept in a JSON file or in a table, *)
(* as MSFRONT_PROJECT_STORAGE_DRIVER and the database URL decide, with a   *)
(* cache of the full list that all readers of one process share.           *)
(*                                                                         *)
(* A project is its identifier, its code and the number of the call that   *)
(* last wrote it.  Codes are upper case here as normalizeProjectDraft      *)
(* makes them, so comparing them without case is comparing them.  Every    *)
(* await is a point where the calls of the process interleave.             *)
(***************************************************************************)
EXTENDS Naturals, FiniteSets

CONSTANTS
    Callers,       \* requests under way at one time
    Codes,         \* project codes that drafts carry
    SlugOf,        \* the identifier made from a code; two codes may share one
    PageSize,      \* rows on a page of summaries
    MaxCalls       \* bound: writing or paging calls begun in a behaviour

ASSUME ProjectAssumption == PageSize \in Nat \ {0} /\ MaxCalls \in Nat

VARIABLES
    database,   \* shouldUseDatabase(): fixed by the configuration
    store,      \* the projects in the file or table
    cache,      \* fullProjectListCache: no list, or one
    inFlight,   \* fullProjectListInFlight
    call,       \* what each request is doing
    adrift,     \* statements whose caller gave up: the database may still run them
    calls       \* number of calls begun

projectVars == <<database, store, cache, inFlight, call, adrift, calls>>

\* History: "late", a write was finished while the read was under way;
\* "untold", a write took place after the read and its caller was told that it
\* had failed.
NoList == [at |-> "none", rows |-> {}, late |-> FALSE, untold |-> FALSE]
NoCall == [at |-> "idle", in |-> [op |-> "none"], next |-> {}, total |-> 0, moved |-> FALSE]

ProjectIds == {SlugOf[k] : k \in Codes}
Project(id, code, no) == [id |-> id, code |-> code, no |-> no]
WithId(rows, id) == {p \in rows : p.id = id}
OtherWithCode(rows, id, code) == {p \in rows : p.code = code /\ p.id # id}

(***************************************************************************)
(* What the functions work out from the projects they have read: the       *)
(* projects to write, or nothing when they refuse.                         *)
(***************************************************************************)
NormalizeProjectDraft(in) ==
    Project(IF in.op = "create" THEN SlugOf[in.code] ELSE in.id, in.code, in.no)

CreateProject(rows, in) ==
    LET project == NormalizeProjectDraft(in)
    IN  IF \E p \in rows : p.id = project.id \/ p.code = project.code
        THEN {} ELSE {rows \cup {project}}

\* Fault: the other projects' codes are not looked at.
UpdateUnchecked(rows, in) ==
    IF WithId(rows, in.id) = {}
    THEN {} ELSE {(rows \ WithId(rows, in.id)) \cup {NormalizeProjectDraft(in)}}

UpdateProject(rows, in) ==
    IF WithId(rows, in.id) = {} \/ OtherWithCode(rows, in.id, in.code) # {}
    THEN {} ELSE {(rows \ WithId(rows, in.id)) \cup {NormalizeProjectDraft(in)}}

DeleteProject(rows, in) ==
    IF WithId(rows, in.id) = {} THEN {} ELSE {rows \ WithId(rows, in.id)}

Edited(rows, in) ==
    CASE in.op = "create" -> CreateProject(rows, in)
      [] in.op = "update" -> UpdateProject(rows, in)
      [] in.op = "delete" -> DeleteProject(rows, in)

\* The page that is shown for the one asked for.
SafePage(page, total) ==
    LET pages == (total + PageSize - 1) \div PageSize
    IN  IF page <= pages THEN page ELSE IF pages = 0 THEN 1 ELSE pages

RowsOnPage(page, total) ==
    LET left == IF total > (page - 1) * PageSize THEN total - (page - 1) * PageSize ELSE 0
    IN  IF left < PageSize THEN left ELSE PageSize

(***************************************************************************)
(* Actions                                                                 *)
(***************************************************************************)
ProjectInit ==
    /\ database \in BOOLEAN
    /\ \E code \in Codes : store = {Project(SlugOf[code], code, 0)}
    /\ cache = NoList
    /\ inFlight = NoList
    /\ call = [c \in Callers |-> NoCall]
    /\ adrift = {}
    /\ calls = 0

BeginCall(c, in) ==
    /\ call[c].at = "idle"
    /\ calls < MaxCalls
    /\ calls' = calls + 1
    /\ call' = [call EXCEPT ![c] = [NoCall EXCEPT !.at = "read", !.in = in]]
    /\ UNCHANGED <<database, store, cache, inFlight, adrift>>

Drafts ==
    {[op |-> "create", code |-> k, no |-> calls + 1] : k \in Codes}
    \cup {[op |-> "update", id |-> i, code |-> k, no |-> calls + 1] : i \in ProjectIds, k \in Codes}
    \cup {[op |-> "delete", id |-> i] : i \in ProjectIds}

End(c) == call' = [call EXCEPT ![c] = NoCall]

\* File: the payload is read and the new one worked out.
ReadProjectPayload(c) ==
    /\ ~database
    /\ call[c].at = "read"
    /\ call[c].in.op \in {"create", "update", "delete"}
    /\ IF Edited(store, call[c].in) = {}
       THEN End(c)
       ELSE \E next \in Edited(store, call[c].in) :
               call' = [call EXCEPT ![c].at = "write", ![c].next = next]
    /\ UNCHANGED <<database, store, cache, inFlight, calls, adrift>>

WriteProjectPayload(c) ==
    /\ ~database
    /\ call[c].at = "write"
    /\ store' = call[c].next
    /\ call' = [call EXCEPT ![c].at = "invalidate"]
    /\ UNCHANGED <<database, cache, inFlight, calls, adrift>>

\* Table: the SELECTs before an INSERT or UPDATE; a DELETE has none.
CreateProjectCheck(c) ==
    /\ database
    /\ call[c].at = "read"
    /\ call[c].in.op = "create"
    /\ IF CreateProject(store, call[c].in) = {} THEN End(c)
                                                ELSE call' = [call EXCEPT ![c].at = "write"]
    /\ UNCHANGED <<database, store, cache, inFlight, calls, adrift>>

UpdateProjectCheck(c) ==
    /\ database
    /\ call[c].at = "read"
    /\ call[c].in.op = "update"
    /\ IF WithId(store, call[c].in.id) = {} THEN End(c)
                                            ELSE call' = [call EXCEPT ![c].at = "code"]
    /\ UNCHANGED <<database, store, cache, inFlight, calls, adrift>>

UpdateProjectCode(c) ==
    /\ call[c].at = "code"
    /\ IF OtherWithCode(store, call[c].in.id, call[c].in.code) # {}
       THEN End(c) ELSE call' = [call EXCEPT ![c].at = "write"]
    /\ UNCHANGED <<database, store, cache, inFlight, calls, adrift>>

Writing(c) ==
    call[c].at = "write" \/ (call[c].at = "read" /\ call[c].in.op = "delete")

\* The statement that writes.  The primary key and the unique index on the
\* code refuse what a concurrent call made a duplicate; an UPDATE of a row
\* that is gone returns none, and the mapping of the result throws.
WriteRow(c) ==
    /\ database
    /\ Writing(c)
    /\ IF Edited(store, call[c].in) = {}
       THEN End(c) /\ UNCHANGED store
       ELSE /\ store' \in Edited(store, call[c].in)
            /\ call' = [call EXCEPT ![c].at = "invalidate"]
    /\ UNCHANGED <<database, cache, inFlight, calls, adrift>>

\* Fault: only the list that is cached is thought of, never cleared.
NoInvalidation(c) ==
    /\ call[c].at = "invalidate"
    /\ inFlight' = [inFlight EXCEPT !.late = inFlight.at # "none"]
    /\ End(c)
    /\ UNCHANGED <<database, store, cache, calls, adrift>>

\* The cache is cleared; a read under way is left to finish.
InvalidateFullProjectListCache(c) ==
    /\ call[c].at = "invalidate"
    /\ cache' = NoList
    /\ inFlight' = [inFlight EXCEPT !.late = inFlight.at # "none"]
    /\ End(c)
    /\ UNCHANGED <<database, store, calls, adrift>>

\* The call fails.  A statement that was sent to the database is not taken
\* back when its connection is lost or query_timeout ends the wait for it.
FailCall(c) ==
    /\ call[c].at \in {"read", "code", "write"}
    /\ adrift' = IF database /\ Writing(c) THEN adrift \cup {call[c].in} ELSE adrift
    /\ End(c)
    /\ UNCHANGED <<database, store, cache, inFlight, calls>>

Untold(list) == [list EXCEPT !.untold = list.at \in {"read", "cached"}]

\* The database runs such a statement after all; nobody clears the cache.
StrayWrite(in) ==
    /\ in \in adrift
    /\ adrift' = adrift \ {in}
    /\ store' \in Edited(store, in)
    /\ cache' = Untold(cache)
    /\ inFlight' = Untold(inFlight)
    /\ UNCHANGED <<database, call, calls>>

\* listProjects: a list that is cached or already being read is used.
ListProjects ==
    /\ cache = NoList
    /\ inFlight = NoList
    /\ inFlight' = [NoList EXCEPT !.at = "started"]
    /\ UNCHANGED <<database, store, cache, call, calls, adrift>>

ListProjectsRead ==
    /\ inFlight.at = "started"
    /\ inFlight' = [inFlight EXCEPT !.at = "read", !.rows = store]
    /\ UNCHANGED <<database, store, cache, call, calls, adrift>>

ListProjectsDone ==
    /\ inFlight.at = "read"
    /\ cache' = [inFlight EXCEPT !.at = "cached"]
    /\ inFlight' = NoList
    /\ UNCHANGED <<database, store, call, calls, adrift>>

ListProjectsFailed ==
    /\ inFlight # NoList
    /\ inFlight' = NoList
    /\ UNCHANGED <<database, store, cache, call, calls, adrift>>

\* expiresAt is five seconds after the list was installed.
CacheExpires ==
    /\ cache # NoList
    /\ cache' = NoList
    /\ UNCHANGED <<database, store, inFlight, call, calls, adrift>>

\* listProjectSummaries: a file is read once; a table is counted and then
\* read, and may change in between ("moved").
CountSummaries(c) ==
    /\ call[c].at = "read"
    /\ call[c].in.op = "page"
    /\ call' = [call EXCEPT ![c] = [@ EXCEPT !.at = "select", !.total = Cardinality(store), !.next = store]]
    /\ UNCHANGED <<database, store, cache, inFlight, calls, adrift>>

SelectSummaries(c) ==
    /\ call[c].at = "select"
    /\ LET from == IF database THEN store ELSE call[c].next
           page == SafePage(call[c].in.page, call[c].total)
       IN  call' = [call EXCEPT ![c] =
                       [@ EXCEPT !.at = "paged", !.next = {}, !.moved = (from # call[c].next),
                                 !.in = [op |-> "page", page |-> page,
                                         rows |-> RowsOnPage(page, Cardinality(from))]]]
    /\ UNCHANGED <<database, store, cache, inFlight, calls, adrift>>

AnswerPage(c) ==
    /\ call[c].at = "paged"
    /\ End(c)
    /\ UNCHANGED <<database, store, cache, inFlight, calls, adrift>>

ProjectNext ==
    \/ ListProjects
    \/ ListProjectsRead
    \/ ListProjectsDone
    \/ ListProjectsFailed
    \/ CacheExpires
    \/ \E in \in adrift : StrayWrite(in)
    \/ \E c \in Callers :
          \/ \E in \in Drafts : BeginCall(c, in)
          \/ \E n \in 1..3 : BeginCall(c, [op |-> "page", page |-> n])
          \/ ReadProjectPayload(c)
          \/ WriteProjectPayload(c)
          \/ CreateProjectCheck(c)
          \/ UpdateProjectCheck(c)
          \/ UpdateProjectCode(c)
          \/ WriteRow(c)
          \/ InvalidateFullProjectListCache(c)
          \/ FailCall(c)
          \/ CountSummaries(c)
          \/ SelectSummaries(c)
          \/ AnswerPage(c)

ProjectSpec == ProjectInit /\ [][ProjectNext]_projectVars

(***************************************************************************)
(* Properties                                                              *)
(***************************************************************************)
\* Whichever calls overlap, no two projects have the same identifier or the
\* same code: in the table because the keys refuse the second, in the file
\* because each call writes the list it has checked.  (createProject,
\* updateProject.)
ProjectsStayUnique ==
    \A p, q \in store : (p.id = q.id \/ p.code = q.code) => p = q

CacheIsFresh ==
    \/ cache = NoList
    \/ cache.rows = store
    \/ cache.late \/ cache.untold
    \/ \E c \in Callers : call[c].at = "invalidate"
PageHasRows ==
    \A c \in Callers :
        call[c].at = "paged" /\ call[c].total > 0 /\ ~call[c].moved => call[c].in.rows > 0

\* What a list shows differs from the store only where calls overlapped or a
\* write took place although its caller was told that it failed.  The cached
\* list is the stored one, except while a write has not come to clear the cache
\* yet; when the list was still being read while a write was finished; and when
\* a statement whose answer was lost changed the table after the list was read.
\* A page of summaries is not empty when projects were counted, unless rows
\* went between the count and the select.  (listProjects,
\* invalidateFullProjectListCache, listProjectSummaries.)
StaleListsAreExplained == CacheIsFresh /\ PageHasRows
=============================================================================
