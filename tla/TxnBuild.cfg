CONSTANTS
  Calls = {c1, c2}
  GivenSets = {{}, {"account", "gas"}}
  Expirations = {}
  NoOption = NoOption
  Default = Default
  Option = Option
  Node = Node
  NoTxn = NoTxn
  Now = 1000
  DefaultExpirationSeconds = 300
  MaxAccountNumber = 1
SPECIFICATION Spec
INVARIANTS TypeOK ReturnedIsComplete NumberWasCurrent
PROPERTIES NoGoroutineLeaks
