SPECIFICATION Spec
CONSTANTS
    None = None
    Requests = {tool, archive}
    Calls = {tool}
    Copies = {1}
    Window = 0
    Workers = {one}
    Corpora = {markdown, text}
    Markdown = markdown
    MaxDisruptions = 1
INVARIANTS
    OwnOutcomeIsHeard
PROPERTIES
    ImplementsPageReading
CHECK_DEADLOCK FALSE
