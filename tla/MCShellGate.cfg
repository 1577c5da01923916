SPECIFICATION Spec
CONSTANTS
  Release = {8}
  GameOf <- MCGameOf
  PlatformOf <- MCPlatformOf
  LanguageOf <- MCLanguageOf
  AdapterOf <- MCAdapterOf
  MaxSerial = 1
  Devices = {}
  Dialogs = {}
INVARIANTS
  FreshSessionHearsInput
