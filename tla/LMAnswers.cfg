CONSTANTS
  Letters = {"ch", "fin", "disc"}
  MaxLen = 2
  Words <- MCWords
  Script <- MCScript
  Ends <- MCEnds
  LateReplies <- MCLateReplies
  Hello = {"ch"}
  Ticketing = {"fin"}
  Disconnect = "disc"
  PSK = TRUE
  DropsTicket = FALSE
  KillsServer = FALSE
  Races = {"lateEnd", "preCrash"}
  MaxMapperCrashes = 1
  MaxServerCrashes = 1
  MaxQueries = 2
SPECIFICATION MCFairSpec
INVARIANT AnswersCorrect
PROPERTY StepReturns CleanTicketAtBoot AnswersQueries
CHECK_DEADLOCK FALSE
