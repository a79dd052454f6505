\* One mission, its offers with one or other contents and its cancellation; one of them may
\* wait for the snapshot.
CONSTANTS
    Mission = {m1}
    Request = {r1, r2}
    None = None
    MaxDeferred = 1
SYMMETRY Symmetry
SPECIFICATION Spec
INVARIANTS
    TypeOK
PROPERTIES
    ContractIsKept
