SPECIFICATION ConfigSpec
CONSTANTS
    Commands = {1, 2}
    Editors = {1, 2}
    Starters = {}
    Providers = {"p"}
    Members = {"a", "b"}
    Drafts <- EditorDrafts
    Types = {"http"}
    Roles = {"sub"}
    McpTools = {}
PROPERTY
    BrokenIsNotSaved
CHECK_DEADLOCK FALSE
