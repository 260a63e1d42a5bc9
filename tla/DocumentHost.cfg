CONSTANTS
    Command = {c1, c2, c3}
    Default = default
    None = None
    Lost = Lost
    Foreign = Foreign
    MaxRevision = 3
    MaxEpoch = 4
SPECIFICATION Spec
SYMMETRY Symmetric
INVARIANTS
    HostMatchesDisk
PROPERTIES
    EditsSeenContent
    LateEditsDie
    EffectiveOnce
CHECK_DEADLOCK FALSE
