SPECIFICATION Spec
INVARIANT
  TransportFailureIsLogged
