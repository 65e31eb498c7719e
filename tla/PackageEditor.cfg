\* Two modules and a workflow that refers to entries of both; three edits.
SPECIFICATION EditorSpec
CONSTANTS
    Texts <- MCTexts
    Typed <- MCTyped
    StartPackages <- MCStartPackages
    MaxEdits = 3
INVARIANTS SelectionShown
PROPERTIES RemovalCleans NothingNewDangles
