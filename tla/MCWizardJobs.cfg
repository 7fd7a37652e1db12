SPECIFICATION Spec
CONSTANTS
    Chain <- Modules
    Typed = {3, 6}
    MaxClicks = 3
    MaxFaults = 1
INVARIANTS
    WizardOK
PROPERTIES
    ChainMeansAll
    ButtonsComeBack
CHECK_DEADLOCK FALSE
