SPECIFICATION Spec
CONSTANTS
  Columns <- MCColumns
  Contents <- MCContents
  Ordered <- MCOrdered
  NoColumn = "none"
  Queries <- MCQueries
  Nothing = Nothing
  RowEstimates <- AnyEstimate
  TableRows <- MCTableRows
  Distinct <- MCDistinct
  NoStatistic = NoStatistic
  MaxRows = 4000
  MaxLayers = 2
INVARIANTS
  PlanMeansQuery
  ResultAnswersQuery
