SPECIFICATION ServerSpec
CONSTANTS
  Proc = {1, 2}
  Config <- Two
  AgentEmail <- Bots
  Menus <- AllMenus
  DefaultPageSize = 1
  MaxPageSize = 2
INVARIANTS TypeOK TheRightPeopleAreTold OnePostPerName VerdictsFollowRules SetupsWork PagesAreComplete
CHECK_DEADLOCK FALSE
