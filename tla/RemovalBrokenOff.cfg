SPECIFICATION Spec
CONSTANTS
  here = here
  there = there
  Installers = {here, there}
  Killable = {there}
  Size = 2
  Lengths = {1, 2}
  c1 = c1
  c2 = c2
  coder = coder
  fast = fast
  embed = embed
  small = small
  middle = middle
  large = large
  lazy = lazy
  ep = ep
  Clients = {c1, c2}
  Roles = {coder, fast, embed}
  Models = {small, middle, large, lazy}
  SelfFetched = {lazy}
  Endpoint = ep
  Priority <- MCPriority
  Footprint <- MCFootprint
  Budget = 12
  Openings <- MCOpenings
INVARIANT ManifestIsTruth
SYMMETRY Symmetry
CHECK_DEADLOCK FALSE
