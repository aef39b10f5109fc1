\* The budget of the code is 18 tokens, the least 5; here words have 1 or 3.
CONSTANTS
  Clients = {us, other}
  Us = us
  NoClient = NoClient
  Texts <- TextsOf
  MaxWords = 4
  MaxTokens = 4
  MinTokens = 2
  Retries = 1
  MaxItems = 2
SPECIFICATION SpeechSpec
INVARIANTS
  RecordTellsAnswer
  StatusIsHonest
  SpeechIsWhole
PROPERTY
  EveryRenderEnds
