\* xorshift1024star and xorshift1024plus on four words of 3 bits: every state it reaches from its seeds.
CONSTANTS
  W = 3
  Size = 4
  ShiftA = 1
  ShiftB = 2
  ShiftC = 1
  Multiplier <- MCMultiplier
  Output <- MCOutput
  Shift1 = 1
  Shift2 = 1
  Shift3 = 1
  Multiplier1 <- MCMultiplier1
  Multiplier2 <- MCMultiplier2
  SplitMixWord <- MCStateless
  Seeds = {0, 1, 7}
SPECIFICATION Spec
INVARIANTS TypeOK NeverAllZero
PROPERTY ImplementsShiftRegister
