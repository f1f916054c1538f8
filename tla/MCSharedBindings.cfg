SPECIFICATION Spec
CONSTANTS
  Workers = {w1, w2}
  Global = Global
  Unbound = Unbound
INVARIANT SwitchesOnlyAtYields
CHECK_DEADLOCK FALSE
