\* Same bounds as MCStartup.cfg.
CONSTANTS
    MAX_WAIT_ITERATIONS = 1
    MaxQueue = 2
    BlockFiles = 3

SPECIFICATION Spec

PROPERTY ShutdownRequestHonoured
