CONSTANT MaxCrossings = 4
SPECIFICATION Spec
PROPERTY SubclassRejects
