\* One lost transaction of the boot apply.
SPECIFICATION Spec
CONSTANTS
    Gains = {config, other}
    ConfigGain = config
    StoredGains = {config, other}
    ClientKeys <- NoButtons
    EditSlots <- OuterSlots
    MaxPressed = 1
INVARIANTS
    BootEnsuresConfig
