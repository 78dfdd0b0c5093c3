SPECIFICATION SettingsSpec
CONSTANTS
  r1 = r1
  r2 = r2
  Requests <- OneRequest
  Profiles <- NullZoneOnly
  Edits <- NoEdits
  BriefEdits <- NoEdits
  Texts <- AllTexts
  Atoi <- Numerals
PROPERTY
  PageShowsTheSettings
