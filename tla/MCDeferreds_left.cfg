SPECIFICATION Spec
CONSTANTS
  d1 = d1
  d2 = d2
  d3 = d3
  Deferred <- MCDeferred
  Cancellable <- MCCancellable
  Own = Own
  MaxAdds <- MCMaxAdds
  MaxHeld = 1
  MaxFires = 1
CHECK_DEADLOCK FALSE
SYMMETRY Alike
INVARIANT CalledRunsAll
