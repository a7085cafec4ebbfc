SPECIFICATION AssemblySpec
CONSTANTS
  Budgets <- MCBudgets
  Pool <- MCPool
  Requests <- MCRequests
  Fixed <- MCFixed
  Marker <- MCMarker
  RefTokens <- MCRefTokens
INVARIANTS
  AllocationByPriority
  PromptFillsBudget
CHECK_DEADLOCK FALSE
