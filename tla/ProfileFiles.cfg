\* Two processes with an adapter each create, open and save the same profile,
\* killed at any step, while the power fails.
SPECIFICATION Spec
CONSTANTS
    p1 = p1  p2 = p2  hciA = hciA  hciB = hciB  local = local
    None = None
    AdapterDefault = AdapterDefault
    Processes = {p1, p2}
    Adapter <- MCAdapter
    Addresses = {hciA, hciB, local}
    Locals = {AdapterDefault, local}
    Kinds = {"pro_controller", "joycon_left"}
    Peers = {"h1", "h2"}
    MaxOps = 4
    MaxCrashes = 1
INVARIANTS TypeOK OldOrNew
PROPERTIES IdentityKept OtherBondsKept
\* Nothing happens after the last operation.
CHECK_DEADLOCK FALSE
