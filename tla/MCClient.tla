------------------------------ MODULE MCClient ------------------------------
(***************************************************************************)
(* The management console in the browser.  The parts share no state, so    *)
(* one of them is explored at a time, the others stay in one of their      *)
(* initial states.  Nobody but the page works on the system store.  The    *)
(* pages with the most to load are explored without a failing request, and *)
(* no dialog of the role page opens that the bound keeps from being sent.  *)
(***************************************************************************)
EXTENDS AdminPages, PageLoading, TagsView, UrlFilters, ProjectConsole, ClientSession, ShellSettings

VARIABLE focus

MCStray == "projectId" :> "p1" @@ "role" :> "p1" @@ "search" :> "x " @@ "status" :> "bogus"

clientVars == <<vars, pageVars, shellVars, tagVars, urlVars, consoleVars, sessionVars, settingsVars, focus>>

ClientInit ==
    /\ focus \in {"pages", "shell", "tags", "filters", "catalog", "session", "settings"}
    /\ Init
    /\ PagesInit
    /\ focus # "pages" => page = "users"
    /\ ShellInit
    /\ focus # "shell" => animated
    /\ TagsInit
    /\ focus # "tags" => stored = {} /\ pathname = Home
    /\ UrlInit
    /\ focus # "filters" => mounted = "services" /\ known = {} /\ Address = <<>>
    /\ ProjectsInit
    /\ focus # "catalog" => catalog = <<>> /\ remembered = ""
    /\ SessionInit
    /\ focus # "session" => cookie = ""
    /\ SettingsInit
    /\ sysDark
    /\ focus # "settings" => storedSettings = Absent /\ legacy = Absent /\ storedTheme = ""

ClientNext ==
    \/ /\ focus = "pages" /\ PagesNext
       /\ page \in {"roles", "menus"} => count'.faults = 0
       /\ page = "roles" /\ count.calls = MaxHandlers => DOMAIN view'.dialogs \subseteq DOMAIN view.dialogs
       /\ UNCHANGED <<shellVars, tagVars, urlVars, consoleVars, sessionVars, settingsVars, focus>>
    \/ /\ focus = "shell" /\ ShellNext
       /\ UNCHANGED <<vars, pageVars, tagVars, urlVars, consoleVars, sessionVars, settingsVars, focus>>
    \/ /\ focus = "tags" /\ TagsNext
       /\ UNCHANGED <<vars, pageVars, shellVars, urlVars, consoleVars, sessionVars, settingsVars, focus>>
    \/ /\ focus = "filters" /\ UrlNext
       /\ UNCHANGED <<vars, pageVars, shellVars, tagVars, consoleVars, sessionVars, settingsVars, focus>>
    \/ /\ focus = "catalog" /\ ProjectsNext
       /\ UNCHANGED <<vars, pageVars, shellVars, tagVars, urlVars, sessionVars, settingsVars, focus>>
    \/ /\ focus = "session" /\ SessionNext
       /\ UNCHANGED <<vars, pageVars, shellVars, tagVars, urlVars, consoleVars, settingsVars, focus>>
    \/ /\ focus = "settings" /\ SettingsNext
       /\ UNCHANGED <<vars, pageVars, shellVars, tagVars, urlVars, consoleVars, sessionVars, focus>>

ClientSpec == ClientInit /\ [][ClientNext]_clientVars
=============================================================================
