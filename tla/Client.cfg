CONSTANTS
    Requests = {q1}
    NewNames = {"eve"}
    NewRoles = {"auditor"}
    Inventory = {"list"}
    MaxRequests = 0
    MaxHandlers = 2
    MaxFaults = 1
    MaxFetches = 3
    MaxNavigations = 2
    Home = "home"
    Paths = {"x", "y", "z"}
    MaxMoves = 4
    KnownIds = {"p1"}
    Stray <- MCStray
    MaxActs = 4
    ConsoleIds = {"p1", "p2"}
    MaxClicks = 2
    MaxSteps = 2
    Users = {"ann", "bob"}
    Dashboard = "/dashboard"
    Page = "/system"
    MaxDeeds = 3
    Windows = {w1, w2}
    Colors = {"blue", "red"}
    MaxTouches = 2
SPECIFICATION ClientSpec
INVARIANT QuietPageIsTrue
INVARIANT BusyIsExact
INVARIANT NothingStaysForGood
INVARIANT TabsFollowVisits
INVARIANT AddressShowsView
INVARIANT QuietCatalogIsTrue
INVARIANT SessionIsShown
INVARIANT SettingsReachWindows
CHECK_DEADLOCK FALSE
