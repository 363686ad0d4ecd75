SPECIFICATION Spec
CONSTANTS
    c1 = c1
    c2 = c2
    c3 = c3
    c4 = c4
    Codes = {c1, c2, c3, c4}
    CatalogueOf <- OneOfEach
    MaxRevision = 2
    MaxArticle = 4
    MaxTyped = 2
INVARIANTS
    WritesAsShown
    
    NothingLostSilently
    SavedAsTicked
PROPERTIES
    DraftKept
    FormsSettle
\* An author who has left the editor may stop.
CHECK_DEADLOCK FALSE
