SPECIFICATION FairSpec
CONSTANTS
    None = None
    Requests = {archive, visitor}
    Calls = {}
    Copies = {1, 2}
    Window = 1
    Workers = {one, two}
    Corpora = {}
    Markdown = markdown
    MaxDisruptions = 1
INVARIANTS
    NothingLost

    
CHECK_DEADLOCK FALSE
