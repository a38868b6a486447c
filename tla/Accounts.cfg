SPECIFICATION Spec
CONSTANTS
  c1 = c1
  c2 = c2
  NULL = NULL
  Clients <- TwoClients
  EmailOf <- OneEmail
  RoleAsked <- AdminAndUser
  AccessLife = 1
  RefreshLife = 2
INVARIANTS
  TypeOK
  OneWholeAccount
  AnswersAreTrue
  AuthorityIsRecent
PROPERTIES
  ImplementsDirectory
  AuthorityEnds
