SPECIFICATION Spec
CONSTANT kMaxConfidence = 3
CHECK_DEADLOCK FALSE
INVARIANTS TablesDescribeOneLattice AbstractionIsHomomorphism RepeatedUpdateSettles LowestIsRemoved
