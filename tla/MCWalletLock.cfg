\* Timeouts of 0 and 2 seconds, both valid integers; calls during the first 3 seconds.
CONSTANTS
    NotANumber = NotANumber
    Timeouts = {0, 2}
    MaxTime = 3

SPECIFICATION Spec

PROPERTY WalletRelocks
