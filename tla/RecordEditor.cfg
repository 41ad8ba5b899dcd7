SPECIFICATION FairSpec
CONSTANTS
  Records <- MCRecords
  Keyed = TRUE
  Fields <- MCFields
  Text = "started"
  Texts <- MCTexts
  Malformed <- MCMalformed
  Rights <- MCRights
  Choices <- MCChoices
  Members <- MCMembers
  Persons <- MCPersons
  Involvements <- MCInvolvements
  MaxWrites = 2
INVARIANTS
  QuietShowsServer
  ChoiceStands
  SavedWhereTyped
PROPERTIES
  TypedTextKept
  SaveReturns
CHECK_DEADLOCK FALSE
