SPECIFICATION Spec
CONSTANTS
  k1 = k1
  k2 = k2
  p = p
  a = a
  Shift = Shift
  Devices = {k1, k2, p}
  Settings <- MCSettings
  Unset = Unset
  TypeOf <- MCTypeOf
  IdentOf <- MCIdentOf
  Groups = {g1, g2}
  Keysyms = {a, Shift}
  Modifiers = {Shift}
  Bindings <- MCBindings
  Lines <- MCLines
  MaxModes = 4
  MaxBindings = 2
  MaxConfigs = 2
  DeviceDelay = 2
  NULL = NULL
  Inputs = {}
SYMMETRY Symmetry
INVARIANTS TypeOK   DevicesAgree 
CHECK_DEADLOCK FALSE
