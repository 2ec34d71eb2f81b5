SPECIFICATION FairSpec
CONSTANTS
  Depth = 4
  MaxDelay = 2
  MaxOutstanding = 3
  PowerUp <- PowerUpAny
  Data = {0, 1}
  Zero = 0
PROPERTY AnswersInOrder
PROPERTY EveryAccessAnswered
