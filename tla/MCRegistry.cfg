SPECIFICATION FairSpec
CONSTANTS
    c1 = c1
    c2 = c2
    c3 = c3
    Commands <- MCCommands
    Build <- MCBuild
    Emails = {e1, e2}
    Labels = {l1, l2}
    NodeNames = {n1, n2}
    PoolSize = 4
    MaxGw = 2
    Attempts = 2
    MaxFailures = 1
    None = None
INVARIANTS TablesAgree NoDuplicateKey MigratedInOrder PrintedTokensWork EnsuredNamesResolve
PROPERTIES CommandsEnd
CHECK_DEADLOCK FALSE
