SPECIFICATION Spec
CONSTANTS
    MaximumRetained = 6
    Inputs <- ProviderInputs
CHECK_DEADLOCK FALSE
INVARIANTS
    OneLiveWorker
    NothingLeftBehind
    SuccessIsSealed
PROPERTIES
    ImplementsTaskOutcome
    Termination
