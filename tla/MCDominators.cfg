SPECIFICATION FairSpec
CONSTANTS
    Return = Return
    None = None
    MaxBlocks = 7
INVARIANTS TypeOK FlowStructured PostOrderDescends
INVARIANTS ImmediateDominators NothingThrown MeetsAtClosest DominatorsFirst
PROPERTIES DomsStable Terminates
