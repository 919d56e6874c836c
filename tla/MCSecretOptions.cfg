SPECIFICATION Spec
CONSTANTS
  Lower <- MCLower
  Value <- MCValue
  Name <- MCName
  Scope <- MCScope
  Parameters <- MCParameters
  ExtraOptions <- MCExtraOptions
  ConnectOptions <- MCConnectOptions
  AttachOptions <- MCAttachOptions
  Path <- MCPath
  MaxSecrets = 2
INVARIANT OptionsAsDocumented
