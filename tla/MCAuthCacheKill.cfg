CONSTANTS
    Keys = {k1}
    Requests = {r1}
    Handlers = {h1}
    Edits = {}
    TTL = 2
    MaxChanges = 1
SPECIFICATION Spec
INVARIANT KillSwitchContains
