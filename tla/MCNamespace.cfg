SPECIFICATION Spec
CONSTANTS
    Names = {"a", "s", "z"}
    NameHash <- MCNameHash
    Volumes <- MCVolumes
    Paths <- MCPaths
    MaxCalls = 4
CHECK_DEADLOCK FALSE
INVARIANTS InodesAreLive OpenedAtASubvolume  NamespaceIsATree
