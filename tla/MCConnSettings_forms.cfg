SPECIFICATION SettingsSpec
CONSTANTS
  r1 = r1
  r2 = r2
  Requests <- TwoRequests
  Profiles <- AllProfiles
  Edits <- SomeEdits
  BriefEdits <- SomeBriefEdits
  Texts <- AllTexts
  Atoi <- Numerals
INVARIANTS
  SettingsTypeOK
  ChannelHasBand
  OpenHasNoSecret
  UnmodifiedFormIsAccepted
PROPERTIES
  UnmodifiedFormChangesNothing
  LossesNeedARace
