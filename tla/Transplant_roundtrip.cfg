SPECIFICATION Spec
CONSTANTS
  Length <- MCLength
  PATH_MAX <- MCPathMax
  Bases <- MCBases
  Trees <- MCTrees
INVARIANT PathsFollow
INVARIANT RoundTrip
INVARIANT SuccessIsComplete
