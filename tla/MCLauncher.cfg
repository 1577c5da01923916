SPECIFICATION Spec
CONSTANTS
  Release = {2, 3, 6, 7, 8}
  GameOf <- MCGameOf
  PlatformOf <- MCPlatformOf
  LanguageOf <- MCLanguageOf
  AdapterOf <- MCAdapterOf
INVARIANTS
  CardsAreSound
  CustomIsForThisRelease
  LaunchResolvesTheSelection
PROPERTIES
  NeverSubstituted
