\* The operator at the PID dashboard, with lost transactions and late acks.
SPECIFICATION Spec
CONSTANTS
    Gains = {config, other}
    ConfigGain = config
    StoredGains = {config}
    ClientKeys <- AllButtons
    EditSlots <- OuterSlots
    MaxPressed = 1
INVARIANTS
    TypeOK
    ActualIsTrue
    FlagsAreTrue
