\* All plans of up to five dimensions.
CONSTANT MaxDimensions = 5
SPECIFICATION Spec
INVARIANTS StageAxisIsLocal RouteSucceeds TransposeCount
PROPERTIES TransitionsAreTransposes
