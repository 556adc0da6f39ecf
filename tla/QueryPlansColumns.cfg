SPECIFICATION Spec
CONSTANTS
  Columns <- MCColumns
  Contents <- MCContents
  Ordered <- MCOrdered
  NoColumn = "none"
  Queries <- MCProjectedCrosses
  Nothing = Nothing
  RowEstimates <- StatsEstimate
  TableRows <- MCTableRows
  Distinct <- MCDistinct
  NoStatistic = NoStatistic
  MaxRows = 4000
  MaxLayers = 2
INVARIANT
  ColumnsInOrder
