CONSTANTS
    Cycle = {c0, c1, c2}
    Startup = c0
    Other = Other
    NoOne = NoOne
    Envs = {"unset", "kill"}
    Configs = {"unset", "off"}
SPECIFICATION FairSpec
INVARIANTS TypeOK GateProven RunningExact PublicationJoined ConflictWindow
PROPERTIES FlagReleased
