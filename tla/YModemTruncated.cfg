CONSTANTS
    Packets = 2
    Modulus = 3
    Retries = 3
    MaxFaults = 1
    MaxStalls = 1
SPECIFICATION Spec
CHECK_DEADLOCK FALSE
INVARIANT StaleAckCoversNothing
