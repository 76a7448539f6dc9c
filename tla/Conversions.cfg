CONSTANTS
  MaxLength = 6
  MaxComment = 9
  MaxIterations = 99
  MaxCrossings = 4
  MaxCodes = 3
  Sizes = {1, 3}
  MaxColumns = 3
  Half = 3
  HalfLength = 2
  MaxRows = 2
  MaxFetch = 2
SPECIFICATION ConversionSpec
INVARIANTS
  AnswersReference
  VariantSurvives
  ScramTextParsed
  ParameterFormatsAgree
  RowsTypeOK
  RowsInOrder
  CompleteMeansAll
