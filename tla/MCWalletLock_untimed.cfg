\* A valid timeout and one that is not a JSON integer; calls during the first 3 seconds.
CONSTANTS
    NotANumber = NotANumber
    Timeouts = {2, NotANumber}
    MaxTime = 3

SPECIFICATION Spec

PROPERTY WalletRelocks
