SPECIFICATION SiteSpec
CONSTANTS
    Hash <- MCHash
    Compressible = {"html", "css"}
    SiteHosts <- MCSiteHosts
    Contents <- MCContents
    Routes <- MCRoutes
    StudioBody <- MCStudioBody
    StudioRoutes <- MCStudioRoutes
    Handlers = {"api", "sql", "tables"}
    Middlewares = {"audit", "auth"}
    Requests <- MCRequests
    Faults = {"none", "short", "lost"}
    MaxBuilds = 3
CHECK_DEADLOCK FALSE
INVARIANTS
    GuardedActions
    ServedAsBuilt
    LoadFailsOnlyForCause
