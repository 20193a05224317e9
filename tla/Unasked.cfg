CONSTANT Boots <- MCBoots
SPECIFICATION Spec
CHECK_DEADLOCK FALSE
INVARIANT NothingUnasked
