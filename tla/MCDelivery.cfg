SPECIFICATION Spec
CONSTANTS
    Services = {"web", "api"}
    Releases = {"v1"}
    Patches <- PatchBoth
    None = None
    Layouts <- FirstJars
    Runners = {console, shell}
    NumScripts = 2
    NumFiles = 2
    Crews = {1, 2}
    MaxRuns = 3
    MaxTime = 1
INVARIANTS SiteOK TagIsItsJar SuccessHasItsSql OriginalFrontendKept
PROPERTIES BaselineChain
CHECK_DEADLOCK FALSE
