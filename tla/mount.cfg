CONSTANTS
    Names <- MCNames
    Requests <- MCRequests
    Trees <- MCTrees
    RootPaths <- MCRootPaths
    HostInode <- MCHostInode
    MountFaults <- AllMountFaults
    MaxChanges = 1
SPECIFICATION Spec
INVARIANTS
    ViewIsExact
    AdmittedInodesHold
    
    AdmissionIsOrderFree
    ExposedOnce
