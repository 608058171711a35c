CONSTANTS
    n1 = n1
    n2 = n2
    NoNode = NoNode
    Nodes <- MCTwoNodes
    MaxStatements = 2
SPECIFICATION Spec
INVARIANTS
    TypeOK
    Failover
    EffectOnce
    TxAllOrNothing
    NoPoolLeft
PROPERTIES
    OpenEnds
    CallEnds
