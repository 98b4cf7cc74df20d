SPECIFICATION Spec
CONSTANTS
    first = first
    live = live
    last = last
    Keys <- MCKeys
    Stamps <- MCStamps
    Published = {first, live}
    Agents <- MCAgents
    Instants = 2
    FinalDay = 1
    Asked <- MCAsked
    Hosts = {h1, h2}
    MaxCommands = 2
    Retirable = {last}
INVARIANTS
    NamedIsDurable
    ExportVerifies
    NoRetiredForecast
SYMMETRY MCSymmetry
CHECK_DEADLOCK FALSE
