SPECIFICATION FairSpec
CONSTANTS
    hello = hello
    again = again
    musing = musing
    Messages <- MCMessages
    Background <- MCBackground
    RolesOf <- MCRolesOf
    MaxAsks <- MCMaxAsks
    MaxCrashes = 1
INVARIANTS
    TypeOK
    TablesAgree
    HolderKeepsLease
    NothingAbandoned
PROPERTIES
    OwnerGoesFirst
    MessageSettles
CHECK_DEADLOCK FALSE
