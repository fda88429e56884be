\* Room for two or three entries.
CONSTANTS
    max_entries = 5
    Chars = {1, 2}
    MaxLength = 3
    buffer_len = 4
    prefix_len = 3
SPECIFICATION Spec
INVARIANTS TypeOK AddedAreFound FoundWereAdded PrefixesFound
