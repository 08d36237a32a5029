SPECIFICATION Spec
CONSTANTS
    MaxId = 1
    BatchSize = 1
    StartOrders = {"compose"}
    MaxRefreshes = 1
    MaxCrashes = 0
PROPERTIES
    TokenOnlyForward
