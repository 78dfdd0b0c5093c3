SPECIFICATION SettingsSpec
CONSTANTS
  r1 = r1
  r2 = r2
  Requests <- OneRequest
  Profiles <- WiredOnly
  Edits <- NoEdits
  BriefEdits <- NoEdits
  Texts <- AllTexts
  Atoi <- Numerals
INVARIANT
  EveryFormIsHandled
