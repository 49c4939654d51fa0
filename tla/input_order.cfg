SPECIFICATION Spec
CONSTANTS
  k1 = k1
  k2 = k2
  p = p
  a = a
  Shift = Shift
  Devices = {p}
  Settings <- MCDeviceSettings
  Unset = Unset
  TypeOf <- MCTypeOf
  IdentOf <- MCIdentOf
  Groups = {g1, g2}
  Keysyms = {a, Shift}
  Modifiers = {Shift}
  Bindings = {}
  Lines <- MCDeviceLines
  MaxModes = 4
  MaxBindings = 2
  MaxConfigs = 2
  DeviceDelay = 2
  NULL = NULL
  Inputs = {}
INVARIANT AppliedSequentially
CHECK_DEADLOCK FALSE
