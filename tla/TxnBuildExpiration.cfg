CONSTANTS
  Calls = {c1}
  GivenSets = {{}, {"account", "gas"}}
  Expirations = {60}
  NoOption = NoOption
  Default = Default
  Option = Option
  Node = Node
  NoTxn = NoTxn
  Now = 1000
  DefaultExpirationSeconds = 300
  MaxAccountNumber = 1
SPECIFICATION Spec
INVARIANTS ExpirationIsRelative
