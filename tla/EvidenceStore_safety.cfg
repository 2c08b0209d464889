\* Two threads of the API and a CLI process.  One thread and the CLI execute one
\* spec, in one second or in two, the other thread a spec of its own.
CONSTANTS
  Saves = {a1, a2, c1}
  Api = {a1, a2}
  Specs = {a2, p}
  SpecOf <- SomeOwn
  LastSecond = 1
  Nobody = Nobody
SPECIFICATION StoreSpec
INVARIANTS
  SavedIsListed
  ReadersGetWhatWasListed
PROPERTIES
  ImplementsRegistry
CHECK_DEADLOCK FALSE
