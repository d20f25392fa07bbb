\* One boot of an empty database.
SPECIFICATION Spec
CONSTANTS
    Instances = {i1}
    Starts = {0}
    MaxBoots = 1
    MaxReverts = 0
INVARIANT NamesPerWorkspace
CHECK_DEADLOCK FALSE
