SPECIFICATION Spec
INVARIANT
  NoPostBypassesTheGate
