SPECIFICATION Spec
CONSTANTS
    t1 = t1
    t2 = t2
    Txn <- MCTxn
    User = {1, 2}
    RoleId = {1, 2}
    NeedsRehash = TRUE
INVARIANTS
    CanonicalLockOrder
