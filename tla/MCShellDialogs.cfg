SPECIFICATION Spec
CONSTANTS
  Release = {3, 6, 8}
  GameOf <- MCGameOf
  PlatformOf <- MCPlatformOf
  LanguageOf <- MCLanguageOf
  AdapterOf <- MCAdapterOf
  MaxSerial = 1
  Devices = {}
  Dialogs = {"source", "pack"}
INVARIANTS
  PackIsForSelection
PROPERTIES
  SessionEndsForAReason
