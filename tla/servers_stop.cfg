SPECIFICATION Spec
CONSTANTS
    MaxProcs = 1
    Windows = TRUE
PROPERTIES
    StopFreesPort
