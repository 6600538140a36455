SPECIFICATION MCSpec
CONSTANTS
  c1 = c1
  c2 = c2
  Calls = {c1, c2}
  Messages = {1, 2}
  Kinds = {"send", "immediate", "stream", "subscribe", "cancel"}
INVARIANTS AnswersFaithful
PROPERTIES CallsReturn
CHECK_DEADLOCK FALSE
ACTION_CONSTRAINT InOrder
