CONSTANTS
  Messages <- MCMessages
  Knobs <- MCKnobs
  MaxMessages = 4
SPECIFICATION Spec
INVARIANTS TypeOK TurnsSayTheConversation ResultsAnswerCalls ThinkingHasRoom
