\* One command at a time, and a repository that is removed from the catalog.
SPECIFICATION Spec
CONSTANTS
    Repositories = {1, 2}
    Commands = {c1}
    MaxEvents = 1
    Nobody = Nobody
INVARIANTS
    RunsSucceedAfterRemove
