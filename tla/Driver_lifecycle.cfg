SPECIFICATION Spec
CONSTANTS
  Guids = {1, 2}
  Files = {"gen2", "gen/x"}
  Dags = {1, 2}
  OutputsOf <- MCOutputsOf
  InDirsOf <- MCInDirsOf
  StartsAs <- MCStartsAs
  Graphs <- MCGraphs
  MaxRuns = 3
  MaxAccidents = 1
CHECK_DEADLOCK FALSE
INVARIANTS
  StateIsSorted
  BuiltGraphIsChecked
  WritesMergedRecords
  
  
