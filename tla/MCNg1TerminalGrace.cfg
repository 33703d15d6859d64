SPECIFICATION Spec
CONSTANTS
    MaximumRetained = 6
    Inputs <- OrderlyInputs
CHECK_DEADLOCK FALSE
PROPERTIES
    NoTimeoutAfterTerminal
