SPECIFICATION FairSpec
CONSTANTS
  NoRef = NoRef
  r1 = r1
  h1 = h1
  h2 = h2
  Refs = {r1}
  Handlers = {h1, h2}
  Others = {"callback", "confirm", "edit"}
  MaxTotal = 2
  MaxFailures = 1
  MaxChanges = 1
INVARIANT OnePaymentPerCharge BalanceIsCollected SuccessIsAccountedFor
PROPERTY ChargesGetAnswered
CHECK_DEADLOCK FALSE
