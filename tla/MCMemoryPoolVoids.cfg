SPECIFICATION Spec
CONSTANTS
    Amounts <- MCAmounts
    FirstItems <- MCFirstItems
    Cases <- MCCases
    MaxInquiries = 3
INVARIANTS
    VoidsFilled
