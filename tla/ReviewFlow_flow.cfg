SPECIFICATION Spec
CONSTANTS
  Operations <- MCOperations
  PathPages = 2
INVARIANTS
  TypeOK
  StateMatchesScreen
  FieldShown
PROPERTIES
  ImplementsCarousel
