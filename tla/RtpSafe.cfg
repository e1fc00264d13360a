SPECIFICATION Spec
CONSTANTS
    Ids = {0, 1, 2, 15}
    Payloads <- MCPayloads
    Fields <- MCFields
    Foreign <- MCForeign
    MaxCalls = 5
INVARIANTS SizesRight RoundTrip AcceptedFits
PROPERTIES MapSpec
CHECK_DEADLOCK FALSE
