\* The last process ends.
CHECK_DEADLOCK FALSE
SPECIFICATION Spec
CONSTANTS
  Comma = comma
  Quote = quote
  NewLine = newline
  Return = return
  Other = other
  BenchmarkResult <- MCBenchmarkResult
  Header <- MCHeader
  MaxRows = 2
  MaxProcesses = 2
INVARIANTS
  FileReadsBack
PROPERTIES
  FileOnlyGrows
