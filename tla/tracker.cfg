SPECIFICATION Spec
CONSTANTS
    us = us
    p1 = p1
    p2 = p2
    NoDevice = none
    Device <- MCDevice
    Us = us
    Tempo <- MCTempo
    Task <- MCTask
INVARIANTS
    TypeOK
    WeMeansUs
    
    
