SPECIFICATION QueueSpec
CONSTANTS
  kCtlSlots = 2
  MaxPushes = 4
PROPERTIES
  DropsOnlyTheOldest
