CONSTANTS
    proxy1 = proxy1
    proxy2 = proxy2
    validator1 = validator1
    validator2 = validator2
    nil = nil
    Proxies <- TwoProxies
    Validators <- TwoValidators
    ProxyConfigs <- TwoProxies
    Hashes <- OneEach
    ConnSets <- OneOrOther
    MaxConnections = 2
    MaxChanges = 2
SPECIFICATION FairSpec
INVARIANTS TypeOK AssignmentsConsistent ConnSetAssigned
PROPERTIES ServedInTheEnd TablesSettle RemovalEnds
CHECK_DEADLOCK FALSE
