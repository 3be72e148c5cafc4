SPECIFICATION Spec
CONSTANTS
  Ranked <- MCRanked
  Catalogs <- MCCatalogs
  NoParent = NoParent
  MaxSearchLimit = 3
  DefaultSearchLimit = 2
  PagingTimeout = 1
  MaxTime = 1
  MaxChanges = 1
  MaxRestarts = 1
  NoToken = NoToken
  NoIndexName = NoIndexName
  Invocations <- MCScoped
  Contexts <- MCContexts
  Errors = {"401", "403", "404", "503", "unreachable"}
  MaxErrors = 1
  MaxCommands = 4
  MaxLimit = 4
  NoLimit = NoLimit
  NoName = NoName
  NoScope = NoScope
CHECK_DEADLOCK FALSE
INVARIANT FooterContinues
