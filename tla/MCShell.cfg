SPECIFICATION Spec
CONSTANTS
  Release = {3, 6, 8}
  GameOf <- MCGameOf
  PlatformOf <- MCPlatformOf
  LanguageOf <- MCLanguageOf
  AdapterOf <- MCAdapterOf
  MaxSerial = 2
  Devices = {"keyboard", "gamepad"}
  Dialogs = {}
INVARIANTS
  LoopIsSound
  LiveIsShown
  PresentedIsLive
  ModalIsABoundary
PROPERTIES
  ImplementsLauncher
