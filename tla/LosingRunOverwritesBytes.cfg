CONSTANTS
  a = a
  b = b
  c = c
  midi = midi
  musicxml = musicxml
  svg = svg
  x = x
  y = y
  Missing = Missing
  Runs <- TwoRuns
  Names <- TwoNames
  Contents <- TwoContents
  BundleOf <- DifferentRuns
  MaxFailures = 0
SPECIFICATION Spec
INVARIANT RowsDescribeBytes
CHECK_DEADLOCK FALSE
