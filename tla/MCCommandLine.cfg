CONSTANTS
  FilePairs <- MCFilePairs
  TextKeys <- MCTextKeys
  NumberKeys <- MCNumberKeys
  LevelKey <- LogLevel
  Default <- MCDefault
  LineSize = 11
  KeySize = 5
  ValueSize = 6
  TextSize <- MCTextSize
  NameSize = 4
  MaxUsers = 2
  Lines <- MCLines
  Served <- MCServed
  MaxTyped = 4
  CmdSize = 7
  ArgSize = 4
SPECIFICATION ClientSpec
INVARIANTS
  SettingsAsWritten
  LogInAsWritten
  LoginAsTyped
  OneLineOneCommand
CHECK_DEADLOCK FALSE
