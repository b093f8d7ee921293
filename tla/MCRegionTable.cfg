SPECIFICATION Spec
CONSTANT Lower <- LowerCase
INVARIANT EveryIndicatorCounts
