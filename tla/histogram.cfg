SPECIFICATION Spec
CONSTANTS
  NumHistograms = 3
  Decades = 1
  Scale = 2
  Huge = 24001
  Values <- MCEdges
  MaxAdds = 2
INVARIANTS
  TypeOK
  MergedIsHistogramOfAll
  PercentilesAreOrdered
