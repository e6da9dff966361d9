\* Two submissions for one key, two inputs, and two deliveries for whatever
\* Bigwig executes; the second definition is not in the catalog.
CONSTANTS
    Submissions = {s1, s2}
    Deliveries = {d1, d2}
    Accounts = {acme}
    IdempotencyKeys = {key}
    Definitions = {pnl, unregistered}
    Catalog = {pnl}
    Inputs = {i1, i2}
    Bodies = {b1, b2}
    Malformed = Malformed
    Failed = Failed
    NoRow = NoRow
SPECIFICATION Spec
SYMMETRY Symmetry
CHECK_DEADLOCK FALSE
INVARIANT ReceiptMeansHandedOff
INVARIANT CompletionConflictJustified
PROPERTY ImplementsLedger
