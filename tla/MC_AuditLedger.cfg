\* A store of up to six rows, one of them edited, forged or deleted at any moment.
\* A full store that was tampered with has nothing left to do.
SPECIFICATION Spec
CONSTANTS
    None = None
    c1 = c1
    c2 = c2
    Content <- MCContent
    MaxRows = 6
INVARIANTS
    TypeOK
    UntouchedVerifies
    EditIsLocated
    ForgeryIsLocated
CHECK_DEADLOCK FALSE
