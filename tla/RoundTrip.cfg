CONSTANT MaxCrossings = 4
SPECIFICATION Spec
INVARIANT RoundTripsFaithfully
