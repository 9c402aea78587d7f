SPECIFICATION Spec
CONSTANTS
  Conns <- MCConns
  Strings <- MCStrings
  MaxNumber = 5
  MaxCalls = 2
INVARIANTS HandledAsSent OwnReply NoTornWrite OnlyOwnAnswers SettledAnswered
