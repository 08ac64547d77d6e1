CONSTANTS
    Devices = {1, 2, 3}
    Setups <- MCSetups
SPECIFICATION Spec
INVARIANT Converged
CHECK_DEADLOCK FALSE
