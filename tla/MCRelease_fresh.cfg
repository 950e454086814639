SPECIFICATION Spec
CONSTANTS
  Commits <- MCCommits
  FirstCommit = "c0"
  Versions <- MCVersions
  FirstVersion = "v0"
  Language = "typescript"
  ListName = "typescript"
  Dialects <- MCDialects
  Repos <- MCDialects
  MaxJobs = 2
  MaxEvents = 2
INVARIANTS RegeneratesThisTree
CHECK_DEADLOCK FALSE
