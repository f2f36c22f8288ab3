CONSTANTS
  a = a
  b = b
  c = c
  midi = midi
  musicxml = musicxml
  svg = svg
  x = x
  y = y
  Missing = Missing
  Runs <- ThreeRuns
  Names <- ThreeNames
  Contents <- TwoContents
  BundleOf <- MixedRuns
  MaxFailures = 3
SPECIFICATION Spec
INVARIANTS
  TypeOK
  RowsHaveBytes
  AgreedRowsDescribeBytes
PROPERTIES
  ImplementsRegistry
