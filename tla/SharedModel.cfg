CONSTANTS
  d1 = d1
  d2 = d2
  Daemons <- MCDaemons
  Chat = Chat
  Nothing = Nothing
  LastLayer = 2
  CrystalLayer = 1
  InjectionLayer = 1
  MaxCaptures = 3
  MaxForwards = 2
SPECIFICATION Spec
SYMMETRY Symmetry
INVARIANTS IInv HooksAreScoped QuietCapturesAreFaithful
