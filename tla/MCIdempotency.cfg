SPECIFICATION Spec
CONSTANTS
  Requests = {r1, r2, r3}
  Routes = {reserve, login}
  Headers = {h}
  NoHeader = NoHeader
  Strict = {reserve}
  MaxOutages = 2
  MaxCrashes = 1
  MaxExpiries = 1
  MaxLostAcks = 1
SYMMETRY Interchangeable
INVARIANTS AtMostOneEffect ReplayIsFaithful OneBehindTheLock
PROPERTY ResponseIsFinal
CHECK_DEADLOCK FALSE
