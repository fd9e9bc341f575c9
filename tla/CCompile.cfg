SPECIFICATION Spec
CONSTANTS
    Vocabularies <- AllVocabularies
    Substitutions = 2
INVARIANTS
    JumpsRight
    IfsStayIn
    Entries
    ConditionsRight
