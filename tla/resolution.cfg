SPECIFICATION Spec
CONSTANTS
    Thread = {"t1", "t2"}
    Pipeline = {"shop", "mail", "odd", "ads", "twice", "bad"}
    Project = {"A", "B", "C"}
    Scheme = {"vault", "gcp", "own", "late"}
    Installed = {"vault", "gcp"}
    Broken = {"gcp"}
    Plugins <- MCPlugins
    BadFiles = {"C"}
    ProjectOf <- MCProjectOf
    Manifest <- MCManifest
    Code <- MCCode
    Refs <- MCRefs
    Unset = {"KEY"}
    MaxRuns = 3
    MaxFaults = 1
INVARIANTS
    OneOwnResolver
    SoundFilesLoad
    RegistriesAreOwn
    ResolvedAsWritten
