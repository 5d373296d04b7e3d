SPECIFICATION Spec
CONSTANTS
  here = here
  there = there
  local = local
  remote = remote
  Loops = {here, there}
  PubLoop = here
  Players = {local, remote}
  Home <- MCHome
  Replies = 1
  NoLoop = NoLoop
  NoPlayer = NoPlayer
INVARIANTS
  ActiveMeansWork
