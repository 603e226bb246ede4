---------------------------- MODULE MCFrontend -----------------------------
(***************************************************************************)
(* The three stores of the console's server in one run.  They share no     *)
(* state, so one of them is explored at a time, the others at rest.        *)
(***************************************************************************)
EXTENDS SystemStore, AccessManagement, ProjectRepository

VARIABLE focus

MCSlugOf == "K-1" :> "k-1" @@ "K 1" :> "k-1" @@ "K2" :> "k2"

frontendVars == <<vars, accessVars, projectVars, focus>>

FrontendInit ==
    /\ focus \in {"system", "access", "projects"}
    /\ Init /\ AccessInit /\ ProjectInit
    /\ focus # "access" => \A u \in UserIds : users[u].roles = DefaultRoles
    /\ focus # "projects" => database /\ store = {Project("k2", "K2", 0)}

FrontendNext ==
    \/ focus = "system" /\ Next /\ UNCHANGED <<accessVars, projectVars, focus>>
    \/ focus = "access" /\ AccessNext /\ UNCHANGED <<vars, projectVars, focus>>
    \/ focus = "projects" /\ ProjectNext /\ UNCHANGED <<vars, accessVars, focus>>

FrontendSpec == FrontendInit /\ [][FrontendNext]_frontendVars

Interchangeable == Permutations(Requests) \cup Permutations(Admins) \cup Permutations(Callers)
=============================================================================
