SPECIFICATION Spec
CONSTANTS
  Letters <- DictionaryLetters
  TicketPath = TRUE
  MaxLetters = 3
  MaxExtra = 1
  Strays = {"FIN", "NST"}
INVARIANTS KeyOrder AnswersMatchMessages
PROPERTIES GivesUpAfterClose
