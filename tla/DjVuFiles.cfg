SPECIFICATION Spec
CONSTANTS
  Raw = Raw
  Iw = Iw
  Undefined = Undefined
  Freqs0 = 35
  Freqs1 = 40
  BlockLimit = 1000
  Inputs <- MCInputs
INVARIANTS ReadsWhatIsSent WholeInputIsRead
CHECK_DEADLOCK FALSE
