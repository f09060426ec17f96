SPECIFICATION Spec
CONSTANTS
    Documents <- MCDocuments
    MaximumLines = 30
    Panel <- MCPanel
    PrintedDigits <- MCPrintedDigits
    PanelColumn <- MCPanelColumn
CHECK_DEADLOCK FALSE
INVARIANTS
    TypeOK
    
    CompletedIsComplete
    UndamagedIsRead
    CompletedIsUnquestioned
    LostPointIsReported
