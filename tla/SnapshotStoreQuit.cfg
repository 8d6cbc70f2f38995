SPECIFICATION Spec
CONSTANT MaxCommits = 1
INVARIANT QuitSavesLastCommit
