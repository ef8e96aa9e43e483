SPECIFICATION Spec
CONSTANTS
  image = image
  empty = empty
  both = both
  none = none
  Requests = {r1, r2}
  Files = {image, empty}
  Images = {image}
  Results = {both, none}
  Jobs <- MCJobs
  Parts <- MCParts
  Others <- MCOthers
  FilesOf <- MCFilesOf
  Pages <- MCPages
  Faults = {"session", "server", "nats", "put", "client", "crash"}
INVARIANTS
  RepliesAreOfTheFile
  FoundFilesAreFetched
PROPERTY StoredFilesStay
SYMMETRY RequestSymmetry
