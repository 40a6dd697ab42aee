SPECIFICATION Spec
CONSTANTS
  Slots = {s1, s2}
  Mount = Mount
  Price = 2
  Pack = 2
  FaucetKr = 1
  Start = 2
  MaxBalance = 3
  MaxCredits = 1
INVARIANTS
  ShownIsWallet
