SPECIFICATION Spec
CONSTANTS
  Release = {3, 5, 6, 8}
  GameOf <- MCGameOf
  PlatformOf <- MCPlatformOf
  LanguageOf <- MCLanguageOf
  AdapterOf <- MCAdapterOf
  MaxSerial = 3
  MaxGeneration = 3
INVARIANTS
  TypeOK
  Ownership
  StateIsPublished
  NoLeakedHold
PROPERTIES
  TeardownIsInert
  ForwardOnly
  ImplementsLifecycle
