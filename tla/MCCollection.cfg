SPECIFICATION Spec
CONSTANTS
    producer = producer
    key = key
    Producers = {producer}
    Keys = {key}
    MaxGeneration = 2
PROPERTIES
    RevocationInvalidatesReplies
CHECK_DEADLOCK FALSE
