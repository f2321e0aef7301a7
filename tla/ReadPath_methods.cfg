CONSTANTS
  Spellings <- MCSpellings
  Normalize <- MCNormalize
  ChatIDs = {1, 2, 3, 4}
  ReadIDs = {1}
  Databases <- MCDatabases
  Classes <- MCClasses
  Files <- MCFiles
  Grants <- MCGrants
  Limits = {1}
  MaxMessageScan = 1
  MaxChatScan = 3
  MaxMessages = 2
  MaxGen = 1
SPECIFICATION Spec
INVARIANTS
  TypeOK
  DisclosedIsGranted
  OneConversation
  OneDatabase
  CompleteMeansAll
  NotFoundMeansAbsent
