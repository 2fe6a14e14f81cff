SPECIFICATION Spec
CONSTANTS
  MinimumSlots = 4
  MaxSlots = 4
  NoAddress = NoAddress
  Spans = {0, 2000}
  Steps = {0, 500, 700, 999, 1000}
  Resolutions = {1000}
  Satellites = {"sv1", "sv2"}
  Blocks = {"b1", "b2"}
  Buffers = {"a1"}
  MaxSearches = 2
INVARIANTS
  ResultsAreOfThisSearch
  HealthySearchCompletes
  SearchGridIsTrue
