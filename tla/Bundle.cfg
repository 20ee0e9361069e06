SPECIFICATION Spec
CONSTANTS
    Scenarios <- MCScenarios
    Ignored <- MCIgnored
    Faults = {"mount", "save"}
    MaxWrites = 1
INVARIANTS DeleteStuck SourcesKept DeleteUndoes SectionsLoaded VersionOrder
PROPERTIES RewriteKeeps
\* A container that is deleted, or could not be created, is at its end.
CHECK_DEADLOCK FALSE
