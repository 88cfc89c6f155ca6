SPECIFICATION Spec
CONSTANTS
  Names = {"h1", "h2", "h3"}
  Tasks = {1, 2}
  MaxRenames = 2
  MaxFailures = 1
  Faults = {"exec", "rows", "restart", "unmarked"}
INVARIANTS
  TypeOK
PROPERTIES
  OldResourcesPursued
  OldResourcesGo
