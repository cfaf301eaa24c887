SPECIFICATION RegistrySpec
CONSTANTS
    Owners = {owner}
    Runners = {runner}
    MaxCalls = 3
    MaxDeaths = 1
INVARIANTS
    CatalogAnswers
CHECK_DEADLOCK FALSE
