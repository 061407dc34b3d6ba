\* Two processes, two accounts, every command.
SPECIFICATION Spec
CONSTANTS
  p1 = p1
  p2 = p2
  a1 = a1
  a2 = a2
  Procs = {p1, p2}
  Accounts = {a1, a2}
  Commands = {"list-accounts", "set", "set-default", "create-account", "update-pow", "vault"}
  Faults = {"killed", "disk", "password"}
  MaxCommands = 3
  MaxFaults = 1
CHECK_DEADLOCK FALSE
SYMMETRY VaultSymmetry
INVARIANTS TypeOK OneInside VaultReadable SavedIsKept
